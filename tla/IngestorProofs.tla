--------------------------- MODULE IngestorProofs ---------------------------
(***************************************************************************)
(* Proofs about Ingestor, for any set of traces.  What parse_trace returns *)
(* is determined by the trace, so a trace that is delivered again yields   *)
(* the same events, and what was posted is what its row says; and it       *)
(* returns nothing for a malformed trace, so none of its events is ever    *)
(* stored or posted.  The variables stay within their types: the queue     *)
(* and the delivery in hand never outnumber what was published (IngestorTypeOK). *)
(***************************************************************************)
EXTENDS Ingestor, TraceParserProofs

-----------------------------------------------------------------------------
(* What the trace determines. *)

\* The summary of an event.
Summary(type, suffix, i, message_id) ==
    [event_id |-> <<i, suffix>>, message_id |-> message_id, event_type |-> type]

CallSummary(c) == Summary("CALL", "", c, MessageIdOf(c))

CreditSummary(p, c) == Summary("GAS_CREDIT", "gas", p, MessageIdOf(c))

ITSSummary(t, i, c) == Summary("ITS", Kind(t[i]), i, MessageIdOf(c))

OtherSummary(t, i) ==
    IF i = 0 THEN Summary("CANNOT_EXECUTE", "cannot-execute", 0, LogIn(t, 0).message_id)
    ELSE CASE Kind(t[i]) = "MessageExecuted" ->
                  Summary("MESSAGE_EXECUTED", "", i, LogIn(t, i).message_id)
           [] Kind(t[i]) = "MessageApproved" ->
                  Summary("MESSAGE_APPROVED", "", i, LogIn(t, i).message_id)
           [] Kind(t[i]) \in {"NativeGasAdded", "JettonGasAdded"} ->
                  Summary("GAS_CREDIT", "gas", i, LogIn(t, i).message_id)
           [] Kind(t[i]) = "NativeGasRefunded" ->
                  Summary("GAS_REFUNDED", "", i, LogIn(t, i).message_id)
           [] Kind(t[i]) = "SignersRotated" ->
                  Summary("SIGNERS_ROTATED", "signers-rotated", i, MessageIdOf(i))

CallsOf(t) == {i \in DOMAIN t : Kind(t[i]) = "CallContract"}
PaymentsOf(t) == {i \in DOMAIN t : Kind(t[i]) \in GasPaid}
ITSOf(t) == {i \in DOMAIN t : Kind(t[i]) \in ITS}
OthersOf(t) ==
    {i \in DOMAIN t : Kind(t[i]) \in OtherKinds}
        \cup (IF ExecuteInsufficientGas(t) THEN {0} ELSE {})

\* Payment p is the one that call c is credited with: the call is the first with its key,
\* the payment the last.
Credits(t, p, c) ==
    /\ c \in CallsOf(t) /\ p \in PaymentsOf(t)
    /\ key(LogIn(t, p)) = key(LogIn(t, c))
    /\ \A b \in CallsOf(t) : key(LogIn(t, b)) = key(LogIn(t, c)) => c <= b
    /\ \A q \in PaymentsOf(t) : key(LogIn(t, q)) = key(LogIn(t, c)) => q <= p

\* The event with summary x has place r among the events of the trace: the calls, each
\* followed by its credit, the ITS logs, the others, all in trace order.  The lists are
\* those of the calls and of the ITS logs.
Report(t, calls, logs, r, x) ==
    \/ \E c \in CallsOf(t) : r = 2 * c /\ x = CallSummary(c)
    \/ \E c \in CallsOf(t), p \in PaymentsOf(t) :
          Credits(t, p, c) /\ r = 2 * c + 1 /\ x = CreditSummary(p, c)
    \/ \E a \in DOMAIN logs \cap DOMAIN calls :
          r = 2 * (Len(t) + 1) + logs[a] /\ x = ITSSummary(t, logs[a], calls[a])
    \/ \E i \in OthersOf(t) : r = 3 * (Len(t) + 1) + i /\ x = OtherSummary(t, i)

\* The list has the elements of the set, in their order.
Lists(s, S) == s \in Seq(Nat) /\ Sorted(s) /\ {s[a] : a \in DOMAIN s} = S

\* The sequence has the summaries of all events of the trace, in the order of their places.
Reports(t, s) ==
    \E calls, logs, places \in Seq(Nat) :
        /\ Lists(calls, CallsOf(t)) /\ Lists(logs, ITSOf(t))
        /\ Sorted(places)
        /\ s = [e \in DOMAIN places |-> s[e]]
        /\ \A e \in DOMAIN places : Report(t, calls, logs, places[e], s[e])
        /\ \A r, x : Report(t, calls, logs, r, x) => \E e \in DOMAIN places : places[e] = r

-----------------------------------------------------------------------------
(* What the parser has found and reported, exactly. *)

\* Everything that was passed has been decoded, and every ITS log has had its call.
DecodedInv ==
    /\ pc \notin {"begin", "failed"} =>
          /\ ExecuteInsufficientGas(trace) => Parses(0)
          /\ \A i \in DOMAIN trace :
                (pc = "match" => i < pos) /\ K(i) # "none" => Parses(i)
    /\ \A a \in DOMAIN its : ITSDone(a) => a \in DOMAIN call_contract

\* The map has the last payment for a key, until the first call with that key.
MapInv ==
    pc \notin {"begin", "failed"} =>
        /\ \A k \in DOMAIN gas_credit_map, q \in DOMAIN trace :
              (pc = "match" => q < pos) /\ K(q) \in GasPaid /\ key(Log(q)) = k
              => q <= gas_credit_map[k]
        /\ \A a \in DOMAIN call_contract :
              CallDone(a) => key(Log(call_contract[a])) \notin DOMAIN gas_credit_map

\* Event e has place r, and what it comes from was passed.
Placed(e, r) ==
    LET x == EventSummary(events[e])
    IN  \/ \E a \in DOMAIN call_contract :
              /\ CallDone(a)
              /\ r = 2 * call_contract[a] /\ x = CallSummary(call_contract[a])
        \/ \E a \in DOMAIN call_contract, p \in DOMAIN trace :
              /\ CallDone(a) /\ Credits(trace, p, call_contract[a])
              /\ r = 2 * call_contract[a] + 1 /\ x = CreditSummary(p, call_contract[a])
        \/ \E a \in DOMAIN its \cap DOMAIN call_contract :
              /\ ITSDone(a)
              /\ r = 2 * (Len(trace) + 1) + its[a]
              /\ x = ITSSummary(trace, its[a], call_contract[a])
        \/ \E a \in DOMAIN parsers :
              /\ OtherDone(a)
              /\ r = 3 * (Len(trace) + 1) + parsers[a] /\ x = OtherSummary(trace, parsers[a])

\* The place is that of something that was passed.
Passed(r) ==
    \/ \E a \in DOMAIN call_contract : CallDone(a) /\ r = 2 * call_contract[a]
    \/ \E a \in DOMAIN call_contract, p \in DOMAIN trace :
          /\ CallDone(a) /\ Credits(trace, p, call_contract[a])
          /\ r = 2 * call_contract[a] + 1
    \/ \E a \in DOMAIN its : ITSDone(a) /\ r = 2 * (Len(trace) + 1) + its[a]
    \/ \E a \in DOMAIN parsers : OtherDone(a) /\ r = 3 * (Len(trace) + 1) + parsers[a]

PlacesInv ==
    pc # "failed" =>
        \E places \in Seq(Nat) :
            /\ Sorted(places)
            /\ DOMAIN places = DOMAIN events
            /\ \A e \in DOMAIN events : Placed(e, places[e])
            /\ \A r : Passed(r) => \E e \in DOMAIN places : places[e] = r

-----------------------------------------------------------------------------
(* There is one report of a trace. *)

\* The places of a sequence of numbers, and what is there.
LEMMA NumbersOf ==
    ASSUME NEW s \in Seq(Nat)
    PROVE  /\ Len(s) \in Nat /\ DOMAIN s = 1..Len(s)
           /\ \A a \in DOMAIN s : s[a] \in Nat
<1>1. Len(s) \in Nat /\ DOMAIN s = 1..Len(s)
  OBVIOUS
<1>2. ASSUME NEW a \in DOMAIN s
      PROVE  s[a] \in Nat
  BY <1>2
<1> QED
  BY <1>1, <1>2

\* Sorted lists with the same elements are equal.
LEMMA SortedUnique ==
    ASSUME NEW S, NEW s, NEW r, Lists(s, S), Lists(r, S)
    PROVE  s = r
<1>1. /\ s \in Seq(Nat) /\ r \in Seq(Nat) /\ Sorted(s) /\ Sorted(r)
      /\ \A a \in DOMAIN s : \E b \in DOMAIN r : r[b] = s[a]
      /\ \A b \in DOMAIN r : \E a \in DOMAIN s : s[a] = r[b]
  BY DEF Lists
<1>2. /\ Len(s) \in Nat /\ DOMAIN s = 1..Len(s)
      /\ Len(r) \in Nat /\ DOMAIN r = 1..Len(r)
      /\ \A a \in DOMAIN s : s[a] \in Nat
      /\ \A a \in DOMAIN r : r[a] \in Nat
  BY <1>1, NumbersOf
<1> DEFINE Differ(k) == ~(k \in DOMAIN s /\ k \in DOMAIN r /\ s[k] = r[k])
           T == {k \in DOMAIN s \cup DOMAIN r : Differ(k)}
<1>3. ASSUME T # {}
      PROVE  FALSE
  <2>1. T \in SUBSET Nat
    BY <1>2
  <2>2. PICK k \in T : \A j \in T : k <= j
    <3> HIDE DEF T
    <3> QED
      BY <1>3, <2>1, LeastElement
  <2>3. /\ k \in Nat \ {0}
        /\ \A j \in 1..(k - 1) : j \in DOMAIN s /\ j \in DOMAIN r /\ s[j] = r[j]
    BY <1>2, <2>2
  <2>o. /\ \A a, b \in DOMAIN s : a < b => s[a] < s[b]
        /\ \A a, b \in DOMAIN r : a < b => r[a] < r[b]
    BY <1>1 DEF Sorted
  <2>4. CASE k \in DOMAIN s /\ k \in DOMAIN r
    <3>1. PICK b \in DOMAIN r : r[b] = s[k]
      BY <1>1, <2>4
    <3>2. PICK a \in DOMAIN s : s[a] = r[k]
      BY <1>1, <2>4
    <3>3. s[k] # r[k]
      BY <2>2, <2>4
    <3>4. ~(b < k)
      <4>1. b < k => s[b] = r[b] /\ b \in DOMAIN s
        BY <1>2, <2>3
      <4> QED
        BY <1>2, <2>4, <2>o, <3>1, <4>1
    <3>5. ~(a < k)
      <4>1. a < k => s[a] = r[a] /\ a \in DOMAIN r
        BY <1>2, <2>3
      <4> QED
        BY <1>2, <2>4, <2>o, <3>2, <4>1
    <3>n. a > k /\ b > k
      BY <1>2, <2>3, <3>1, <3>2, <3>3, <3>4, <3>5
    <3>6. r[k] < r[b] /\ s[k] < s[a]
      BY <2>4, <2>o, <3>n
    <3> QED
      BY <1>2, <2>4, <3>1, <3>2, <3>6
  <2>5. CASE k \in DOMAIN s /\ k \notin DOMAIN r
    <3>1. PICK b \in DOMAIN r : r[b] = s[k]
      BY <1>1, <2>5
    <3>2. b < k
      BY <1>2, <2>3, <2>5
    <3>3. b \in DOMAIN s /\ s[b] = r[b]
      BY <1>2, <2>3, <3>2
    <3>4. s[b] < s[k]
      BY <2>5, <2>o, <3>2, <3>3
    <3> QED
      BY <1>2, <2>5, <3>1, <3>3, <3>4
  <2>6. CASE k \notin DOMAIN s /\ k \in DOMAIN r
    <3>1. PICK a \in DOMAIN s : s[a] = r[k]
      BY <1>1, <2>6
    <3>2. a < k
      BY <1>2, <2>3, <2>6
    <3>3. a \in DOMAIN r /\ s[a] = r[a]
      BY <1>2, <2>3, <3>2
    <3>4. r[a] < r[k]
      BY <2>6, <2>o, <3>2, <3>3
    <3> QED
      BY <1>2, <2>6, <3>1, <3>3, <3>4
  <2> QED
    BY <2>2, <2>4, <2>5, <2>6
<1>4. DOMAIN s = DOMAIN r /\ \A k \in DOMAIN s : s[k] = r[k]
  BY <1>3
<1>5. s = [k \in DOMAIN s |-> s[k]] /\ r = [k \in DOMAIN r |-> r[k]]
  BY <1>1
<1> QED
  BY <1>4, <1>5

\* A place has one event.
LEMMA OneReport ==
    ASSUME NEW t, Len(t) \in Nat, DOMAIN t = 1..Len(t),
           NEW calls, NEW logs, Lists(logs, ITSOf(t)),
           NEW r, NEW x, NEW y, Report(t, calls, logs, r, x), Report(t, calls, logs, r, y)
    PROVE  x = y
<1> DEFINE n == Len(t) + 1
<1>1. /\ n \in Nat
      /\ \A c \in CallsOf(t) : c \in Nat /\ c < n
      /\ \A p \in PaymentsOf(t) : p \in Nat
      /\ \A i \in OthersOf(t) : i \in Nat
      /\ \A a \in DOMAIN logs : a \in Nat /\ logs[a] \in Nat /\ logs[a] < n
  BY DEF CallsOf, PaymentsOf, OthersOf, ITSOf, Lists
<1>2. \A a, b \in DOMAIN logs : logs[a] = logs[b] => a = b
  <2>1. \A a, b \in DOMAIN logs : a < b => logs[a] < logs[b]
    BY DEF Lists, Sorted
  <2> QED
    BY <1>1, <2>1
<1>3. \A c \in CallsOf(t), p, q \in PaymentsOf(t) : Credits(t, p, c) /\ Credits(t, q, c) => p = q
  BY <1>1 DEF Credits
<1> HIDE DEF n
<1> DEFINE IsCall(z) == \E c \in CallsOf(t) : r = 2 * c /\ z = CallSummary(c)
           IsCredit(z) == \E c \in CallsOf(t), p \in PaymentsOf(t) :
                             Credits(t, p, c) /\ r = 2 * c + 1 /\ z = CreditSummary(p, c)
           IsITS(z) == \E a \in DOMAIN logs \cap DOMAIN calls :
                          r = 2 * n + logs[a] /\ z = ITSSummary(t, logs[a], calls[a])
           IsOther(z) == \E i \in OthersOf(t) : r = 3 * n + i /\ z = OtherSummary(t, i)
<1>4. /\ IsCall(x) \/ IsCredit(x) \/ IsITS(x) \/ IsOther(x)
      /\ IsCall(y) \/ IsCredit(y) \/ IsITS(y) \/ IsOther(y)
  BY DEF Report, n
<1>5. CASE IsCall(x)
  BY <1>1, <1>4, <1>5
<1>6. CASE IsCredit(x)
  BY <1>1, <1>3, <1>4, <1>6
<1>7. CASE IsITS(x)
  BY <1>1, <1>2, <1>4, <1>7
<1>8. CASE IsOther(x)
  BY <1>1, <1>4, <1>8, SMTT(30)
<1> QED
  BY <1>4, <1>5, <1>6, <1>7, <1>8

\* The trace determines the summaries of its events and their order.
LEMMA ReportsUnique ==
    ASSUME NEW t \in Traces, NEW u, NEW v, Reports(t, u), Reports(t, v)
    PROVE  u = v
<1>0. Len(t) \in Nat /\ DOMAIN t = 1..Len(t)
  BY ParserAssumption
<1>1. PICK calls, logs, places \in Seq(Nat) :
        /\ Lists(calls, CallsOf(t)) /\ Lists(logs, ITSOf(t))
        /\ Sorted(places)
        /\ u = [e \in DOMAIN places |-> u[e]]
        /\ \A e \in DOMAIN places : Report(t, calls, logs, places[e], u[e])
        /\ \A r, x : Report(t, calls, logs, r, x) => \E e \in DOMAIN places : places[e] = r
  BY DEF Reports
<1>2. PICK calls2, logs2, places2 \in Seq(Nat) :
        /\ Lists(calls2, CallsOf(t)) /\ Lists(logs2, ITSOf(t))
        /\ Sorted(places2)
        /\ v = [e \in DOMAIN places2 |-> v[e]]
        /\ \A e \in DOMAIN places2 : Report(t, calls2, logs2, places2[e], v[e])
        /\ \A r, x : Report(t, calls2, logs2, r, x) => \E e \in DOMAIN places2 : places2[e] = r
  BY DEF Reports
<1>3. calls2 = calls /\ logs2 = logs
  BY <1>1, <1>2, SortedUnique
<1>4. {places[e] : e \in DOMAIN places} = {places2[e] : e \in DOMAIN places2}
  BY <1>1, <1>2, <1>3
<1>5. places2 = places
  <2>1. Lists(places, {places[e] : e \in DOMAIN places})
    BY <1>1 DEF Lists
  <2>2. Lists(places2, {places[e] : e \in DOMAIN places})
    BY <1>2, <1>4 DEF Lists
  <2> QED
    BY <2>1, <2>2, SortedUnique
<1>6. \A e \in DOMAIN places : u[e] = v[e]
  BY <1>0, <1>1, <1>2, <1>3, <1>5, OneReport
<1> QED
  BY <1>1, <1>2, <1>5, <1>6

-----------------------------------------------------------------------------
(* The parser, step by step. *)

\* Every step decodes what it passes, and pairs every ITS log that it passes.
LEMMA DecodedStep == ListInv /\ MatchInv /\ EventsInv /\ DecodedInv /\ [Next]_vars => DecodedInv'
<1> SUFFICES ASSUME ListInv, MatchInv, EventsInv, DecodedInv, [Next]_vars
             PROVE  DecodedInv'
  OBVIOUS
<1>d. /\ Len(trace) \in Nat /\ DOMAIN trace = 1..Len(trace)
      /\ pos \in Nat \ {0}
  BY ParserAssumption DEF ListInv
<1>t. trace' = trace
  BY Steps
     DEF Begin, Fails, Fail, AddNothing, AddCallContract, AddGasPaid, AddITS, AddOther, EmitCall,
         EmitITS, EmitOther, Costs, AddCost, ConvertCredit, NextLoop, EndLoop, vars
<1>k. \A i : K(i)' = K(i) /\ Parses(i)' = Parses(i)
  BY <1>t, SameTrace
<1>1. CASE Begin
  <2>1. /\ pc' = "match" /\ pos' = 1
        /\ ExecuteInsufficientGas(trace) => Parses(0)
    BY <1>1 DEF Begin, MatchInv
  <2>2. \A i \in DOMAIN trace : ~(i < pos')
    BY <1>d, <2>1
  <2> QED
    BY <1>t, <1>k, <2>1, <2>2 DEF DecodedInv, ITSDone
<1>2. CASE Fails
  BY <1>2 DEF Fails, Fail, DecodedInv, ITSDone
<1>3. CASE AddNothing \/ AddCallContract \/ AddGasPaid \/ AddITS \/ AddOther
  <2>1. /\ pc = "match" /\ pc' = pc /\ pos' = pos + 1
        /\ K(pos) # "none" => Parses(pos)
    BY <1>3 DEF AddNothing, AddCallContract, AddGasPaid, AddITS, AddOther, AtTx, K
  <2>2. \A i \in DOMAIN trace : i < pos + 1 => i < pos \/ i = pos
    BY <1>d
  <2> QED
    BY <1>t, <1>k, <2>1, <2>2 DEF DecodedInv, ITSDone
<1>4. CASE AfterMatching
  <2>1. /\ pc' = "match" => pc = "match" /\ pos' = pos
        /\ pc' \notin {"begin", "failed"} => pc \notin {"begin", "failed"}
        /\ pc = "match" /\ pc' # "match" => pos \notin DOMAIN trace
        /\ EmitITS => pos \in DOMAIN call_contract
    BY <1>4 DEF AfterMatching, EmitCall, EmitITS, EmitOther, Costs, AddCost, ConvertCredit,
                AtEvent, NextLoop, EndLoop, vars
  <2>2. /\ pc = "match" /\ pc' # "match" => \A i \in DOMAIN trace : i < pos
        /\ UNCHANGED <<call_contract, its>>
        /\ \A a \in DOMAIN its : ITSDone(a)' => ITSDone(a) \/ (EmitITS /\ a = pos)
    BY <1>4, <1>d, <2>1, Emitting
  <2> QED
    BY <1>t, <1>k, <2>1, <2>2 DEF DecodedInv
<1> QED
  BY <1>1, <1>2, <1>3, <1>4, Steps DEF AfterMatching

\* Every step keeps the last payment for a key in the map, and takes it out with the
\* first call.
LEMMA MapStep == ListInv /\ MatchInv /\ EventsInv /\ MapInv /\ [Next]_vars => MapInv'
<1> SUFFICES ASSUME ListInv, MatchInv, EventsInv, MapInv, [Next]_vars
             PROVE  MapInv'
  OBVIOUS
<1>d. /\ Len(trace) \in Nat /\ DOMAIN trace = 1..Len(trace)
      /\ pos \in Nat \ {0}
      /\ \A k \in DOMAIN gas_credit_map : gas_credit_map[k] \in DOMAIN trace
  BY ParserAssumption DEF ListInv
<1>t. trace' = trace
  BY Steps
     DEF Begin, Fails, Fail, AddNothing, AddCallContract, AddGasPaid, AddITS, AddOther, EmitCall,
         EmitITS, EmitOther, Costs, AddCost, ConvertCredit, NextLoop, EndLoop, vars
<1>k. \A i : K(i)' = K(i) /\ Log(i)' = Log(i)
  BY <1>t, SameTrace
<1>1. CASE Begin
  <2>1. /\ pc' = "match" /\ pos' = 1
        /\ DOMAIN gas_credit_map' = {}
    BY <1>1 DEF Begin, MatchInv
  <2> QED
    BY <2>1 DEF MapInv
<1>2. CASE Fails
  BY <1>2 DEF Fails, Fail, MapInv
<1>3. ASSUME AddNothing \/ AddCallContract \/ AddGasPaid \/ AddITS \/ AddOther
      PROVE  MapInv'
  <2>1. /\ pc = "match" /\ pc' = pc /\ pos' = pos + 1
        /\ IF K(pos) \in GasPaid THEN gas_credit_map' = With(key(Log(pos)), pos)
                                 ELSE gas_credit_map' = gas_credit_map
    BY <1>3, KindsSplit DEF AddNothing, AddCallContract, AddGasPaid, AddITS, AddOther, AtTx, K
  <2>2. \A i \in DOMAIN trace : i < pos + 1 => i < pos \/ i = pos
    BY <1>d
  <2>3. ASSUME NEW k \in DOMAIN gas_credit_map', NEW q \in DOMAIN trace,
               q < pos + 1, K(q) \in GasPaid, key(Log(q)) = k
        PROVE  q <= gas_credit_map'[k]
    <3>1. CASE K(pos) \in GasPaid /\ k = key(Log(pos))
      <4>1. gas_credit_map'[k] = pos
        BY <2>1, <3>1 DEF With
      <4> QED
        BY <1>d, <2>2, <2>3, <4>1
    <3>2. CASE ~(K(pos) \in GasPaid /\ k = key(Log(pos)))
      <4>1. k \in DOMAIN gas_credit_map /\ gas_credit_map'[k] = gas_credit_map[k]
        BY <2>1, <3>2 DEF With
      <4>2. q < pos
        BY <2>2, <2>3, <3>2
      <4> QED
        BY <2>1, <2>3, <4>1, <4>2 DEF MapInv
    <3> QED
      BY <3>1, <3>2
  <2> QED
    BY <1>t, <1>k, <2>1, <2>3 DEF MapInv, CallDone
<1>4. CASE AfterMatching
  <2> SUFFICES ASSUME pc' \notin {"begin", "failed"}
               PROVE  MapInv'
    BY DEF MapInv
  <2>1. /\ pc' = "match" => pc = "match" /\ pos' = pos
        /\ pc \notin {"begin", "failed"}
        /\ pc = "match" /\ pc' # "match" => pos \notin DOMAIN trace
        /\ EmitCall => gas_credit_map' = Without(key(Log(call_contract[pos])))
    BY <1>4 DEF AfterMatching, EmitCall, EmitITS, EmitOther, Costs, AddCost, ConvertCredit,
                AtEvent, NextLoop, EndLoop, vars
  <2>2. /\ pc = "match" /\ pc' # "match" => \A i \in DOMAIN trace : i < pos
        /\ UNCHANGED <<call_contract, its>>
        /\ \A a \in DOMAIN call_contract : CallDone(a)' => CallDone(a) \/ (EmitCall /\ a = pos)
    BY <1>4, <1>d, <2>1, Emitting
  <2>3. \A k \in DOMAIN gas_credit_map' :
           k \in DOMAIN gas_credit_map /\ gas_credit_map'[k] = gas_credit_map[k]
    BY <1>4, LoopsAdvance DEF AfterMatching
  <2>4. ASSUME NEW k \in DOMAIN gas_credit_map', NEW q \in DOMAIN trace,
               pc' = "match" => q < pos', K(q) \in GasPaid, key(Log(q)) = k
        PROVE  q <= gas_credit_map'[k]
    BY <2>1, <2>2, <2>3, <2>4 DEF MapInv
  <2>5. ASSUME NEW a \in DOMAIN call_contract, CallDone(a)'
        PROVE  key(Log(call_contract[a])) \notin DOMAIN gas_credit_map'
    <3>1. CASE CallDone(a)
      BY <2>1, <2>3, <3>1 DEF MapInv
    <3>2. CASE EmitCall /\ a = pos
      BY <2>1, <3>2 DEF Without
    <3> QED
      BY <2>2, <2>5, <3>1, <3>2
  <2>6. \A a \in DOMAIN call_contract : Log(call_contract[a])' = Log(call_contract[a])
    BY <1>t, <2>2 DEF Log
  <2> QED
    BY <1>t, <1>k, <2>2, <2>4, <2>5, <2>6 DEF MapInv
<1> QED
  BY <1>1, <1>2, <1>3, <1>4, Steps DEF AfterMatching


-----------------------------------------------------------------------------
(* Where the events are placed. *)

\* The summary of an event that a parser makes.
LEMMA Summarised ==
    ASSUME NEW type, NEW suffix, NEW i, NEW message_id
    PROVE  EventSummary(Event(type, suffix, i, message_id)) = Summary(type, suffix, i, message_id)
BY DEF EventSummary, Event, Summary

\* The summary of the event of one of the other parsers.
LEMMA OtherSummarised ==
    ASSUME NEW i, i = 0 \/ K(i) \in OtherKinds
    PROVE  EventSummary(OtherEvent(i)) = OtherSummary(trace, i)
<1>1. CASE i = 0
  BY <1>1, Summarised, Zenon DEF OtherEvent, OtherSummary, Log
<1>2. CASE i # 0 /\ K(i) = "MessageExecuted"
  <2>1. OtherEvent(i) = Event("MESSAGE_EXECUTED", "", i, Log(i).message_id)
    BY <1>2, Zenon DEF OtherEvent, K
  <2>2. OtherSummary(trace, i) = Summary("MESSAGE_EXECUTED", "", i, Log(i).message_id)
    BY <1>2, Zenon DEF OtherSummary, K, Tx, Log
  <2> QED
    BY <2>1, <2>2, Summarised, Zenon
<1>3. CASE i # 0 /\ K(i) = "MessageApproved"
  <2>1. OtherEvent(i) = Event("MESSAGE_APPROVED", "", i, Log(i).message_id)
    BY <1>3 DEF OtherEvent, K
  <2>2. OtherSummary(trace, i) = Summary("MESSAGE_APPROVED", "", i, Log(i).message_id)
    BY <1>3 DEF OtherSummary, K, Tx, Log
  <2> QED
    BY <2>1, <2>2, Summarised, Zenon
<1>4. CASE i # 0 /\ K(i) \in {"NativeGasAdded", "JettonGasAdded"}
  <2>1. OtherEvent(i) = Event("GAS_CREDIT", "gas", i, Log(i).message_id)
    BY <1>4 DEF OtherEvent, GasCreditEvent, K
  <2>2. OtherSummary(trace, i) = Summary("GAS_CREDIT", "gas", i, Log(i).message_id)
    BY <1>4 DEF OtherSummary, K, Tx, Log
  <2> QED
    BY <2>1, <2>2, Summarised, Zenon
<1>5. CASE i # 0 /\ K(i) = "NativeGasRefunded"
  <2>1. OtherEvent(i) = Event("GAS_REFUNDED", "", i, Log(i).message_id)
    BY <1>5 DEF OtherEvent, K
  <2>2. OtherSummary(trace, i) = Summary("GAS_REFUNDED", "", i, Log(i).message_id)
    BY <1>5 DEF OtherSummary, K, Tx, Log
  <2> QED
    BY <2>1, <2>2, Summarised, Zenon
<1>6. CASE i # 0 /\ K(i) = "SignersRotated"
  <2>1. OtherEvent(i) = Event("SIGNERS_ROTATED", "signers-rotated", i, MessageIdOf(i))
    BY <1>6 DEF OtherEvent, K
  <2>2. OtherSummary(trace, i) = Summary("SIGNERS_ROTATED", "signers-rotated", i, MessageIdOf(i))
    BY <1>6 DEF OtherSummary, K, Tx
  <2> QED
    BY <2>1, <2>2, Summarised, Zenon
<1> QED
  BY <1>1, <1>2, <1>3, <1>4, <1>5, <1>6 DEF OtherKinds

\* The summaries of the events that a call adds.
LEMMA CallSummaries ==
    ASSUME ListInv, EventsInv, EmitCall
    PROVE  LET c == call_contract[pos]
               n == Len(events)
               paid == key(Log(c)) \in DOMAIN gas_credit_map
           IN  /\ EventSummary(events'[n + 1]) = CallSummary(c)
               /\ paid => EventSummary(events'[n + 2])
                              = CreditSummary(gas_credit_map[key(Log(c))], c)
<1> DEFINE c == call_contract[pos]
           n == Len(events)
           paid == key(Log(c)) \in DOMAIN gas_credit_map
           x == CallEvent(c)
           y == GasCreditEvent(gas_credit_map[key(Log(c))], MessageIdOf(c))
           s == Append(events, x)
<1>1. events' = IF paid THEN s \o <<y>> ELSE s \o <<>>
  BY DEF EmitCall, CreditFor
<1>2. EventSummary(x) = CallSummary(c)
  BY Summarised, Zenon DEF CallEvent, CallSummary
<1>3. EventSummary(y) = CreditSummary(gas_credit_map[key(Log(c))], c)
  BY Summarised, Zenon DEF GasCreditEvent, CreditSummary
<1> HIDE DEF c, paid, x, y
<1>4. /\ n \in Nat /\ IsSeq(s) /\ Len(s) = n + 1 /\ DOMAIN s = DOMAIN events \cup {n + 1}
      /\ s[n + 1] = x
  BY AppendSeq DEF EventsInv
<1> HIDE DEF s, n
<1>5. /\ s \o <<>> = s /\ s \o <<y>> = Append(s, y)
      /\ Append(s, y)[n + 1] = x
      /\ Append(s, y)[n + 2] = y
  <2>1. /\ s \o <<>> = s /\ s \o <<y>> = Append(s, y)
        /\ \A a \in DOMAIN s : Append(s, y)[a] = s[a]
        /\ Append(s, y)[Len(s) + 1] = y
    BY <1>4, AppendSeq
  <2>2. Len(s) + 1 = n + 2
    BY <1>4
  <2> QED
    BY <1>4, <2>1, <2>2
<1>6. events'[n + 1] = x /\ (paid => events'[n + 2] = y)
  BY <1>1, <1>4, <1>5
<1> QED
  BY <1>2, <1>3, <1>6 DEF c, n, paid

\* The summary of the event that an ITS log or another parser adds.
LEMMA EmitSummary ==
    ASSUME ListInv, EventsInv
    PROVE  LET n == Len(events)
           IN  /\ EmitITS => EventSummary(events'[n + 1])
                                 = ITSSummary(trace, its[pos], call_contract[pos])
               /\ EmitOther => EventSummary(events'[n + 1]) = OtherSummary(trace, parsers[pos])
<1>1. ASSUME EmitITS
      PROVE  EventSummary(events'[Len(events) + 1])
                 = ITSSummary(trace, its[pos], call_contract[pos])
  <2> DEFINE x == ITSEvent(its[pos], MessageIdOf(call_contract[pos]))
  <2>1. events' = Append(events, x)
    BY <1>1 DEF EmitITS
  <2>2. EventSummary(x) = ITSSummary(trace, its[pos], call_contract[pos])
    BY Summarised, Zenon DEF ITSEvent, ITSSummary, Tx
  <2> HIDE DEF x
  <2>3. events'[Len(events) + 1] = x
    BY <2>1, AppendSeq DEF EventsInv
  <2> QED
    BY <2>2, <2>3
<1>2. ASSUME EmitOther
      PROVE  EventSummary(events'[Len(events) + 1]) = OtherSummary(trace, parsers[pos])
  <2> DEFINE x == OtherEvent(parsers[pos])
  <2>1. events' = Append(events, x) /\ pos \in DOMAIN parsers
    BY <1>2 DEF EmitOther
  <2>2. EventSummary(x) = OtherSummary(trace, parsers[pos])
    BY <2>1, OtherSummarised DEF ListInv
  <2> HIDE DEF x
  <2>3. events'[Len(events) + 1] = x
    BY <2>1, AppendSeq DEF EventsInv
  <2> QED
    BY <2>2, <2>3
<1> QED
  BY <1>1, <1>2

\* An event keeps its place while the lists stay and the loops advance.
LEMMA PlacedKept ==
    ASSUME UNCHANGED <<trace, call_contract, its, parsers>>,
           \A a \in DOMAIN call_contract : CallDone(a) => CallDone(a)',
           \A a \in DOMAIN its : ITSDone(a) => ITSDone(a)',
           \A a \in DOMAIN parsers : OtherDone(a) => OtherDone(a)',
           NEW e \in DOMAIN events, SameEvent(e), NEW r, Placed(e, r)
    PROVE  Placed(e, r)'
<1>1. EventSummary(events'[e]) = EventSummary(events[e])
  BY DEF SameEvent, EventSummary
<1> QED
  BY <1>1 DEF Placed

\* The list s has place r more than the n places.
OneMore(s, places, n, r) ==
    /\ Sorted(s)
    /\ DOMAIN s = 1..(n + 1)
    /\ \A e \in 1..n : s[e] = places[e]
    /\ s[n + 1] = r

\* A place that is larger than all others is appended to them.
LEMMA AppendPlace ==
    ASSUME NEW places \in Seq(Nat), Sorted(places), NEW n \in Nat, DOMAIN places = 1..n,
           NEW r \in Nat, \A e \in DOMAIN places : places[e] < r
    PROVE  \E s \in Seq(Nat) : OneMore(s, places, n, r)
<1>1. Len(places) = n
  OBVIOUS
<1>2. /\ Append(places, r) \in Seq(Nat)
      /\ Sorted(Append(places, r))
      /\ DOMAIN Append(places, r) = DOMAIN places \cup {n + 1}
      /\ \A a \in DOMAIN places : Append(places, r)[a] = places[a]
      /\ Append(places, r)[n + 1] = r
  BY <1>1, AppendSorted
<1>3. DOMAIN Append(places, r) = 1..(n + 1)
  BY <1>2
<1>4. OneMore(Append(places, r), places, n, r)
  BY <1>2, <1>3 DEF OneMore
<1> QED
  BY <1>2, <1>4

\* The events of a call are placed behind those before it, and all that is placed with
\* the call has its event.
LEMMA PlacesCall ==
    ASSUME ListInv, MatchInv, EventsInv, FoundInv, CreditInv, MapInv, PlacesInv, EmitCall
    PROVE  PlacesInv'
<1>0. PICK c, n, q, p : /\ c = call_contract[pos] /\ n = Len(events) /\ q = pos
                        /\ p = gas_credit_map[key(Log(call_contract[pos]))]
  OBVIOUS
<1> DEFINE paid == key(Log(c)) \in DOMAIN gas_credit_map
<1>1. /\ n \in Nat /\ DOMAIN events = 1..n
      /\ DOMAIN events' = IF paid THEN 1..(n + 2) ELSE 1..(n + 1)
      /\ \A e \in DOMAIN events : SameEvent(e)
  BY <1>0, CallEffect
<1>2. /\ EventSummary(events'[n + 1]) = CallSummary(c)
      /\ paid => EventSummary(events'[n + 2]) = CreditSummary(p, c)
  BY <1>0, CallSummaries
<1>3. /\ pc = "calls" /\ pc' = "calls" /\ pos \in DOMAIN call_contract /\ pos' = pos + 1
      /\ UNCHANGED <<trace, call_contract, its, parsers>>
  BY DEF EmitCall
<1>d. /\ Len(trace) \in Nat /\ DOMAIN trace = 1..Len(trace)
      /\ \A a \in DOMAIN call_contract :
            a \in Nat /\ call_contract[a] \in Nat /\ call_contract[a] \in DOMAIN trace
      /\ q \in Nat /\ q = pos /\ pos' = q + 1 /\ q \in DOMAIN call_contract
      /\ c = call_contract[q] /\ c \in Nat /\ K(c) = "CallContract"
      /\ \A a, b \in DOMAIN call_contract : a < b => call_contract[a] < call_contract[b]
  BY <1>0, <1>3, ParserAssumption DEF ListInv, Sorted
<1>4. PICK places \in Seq(Nat) :
        /\ Sorted(places)
        /\ DOMAIN places = DOMAIN events
        /\ \A e \in DOMAIN events : Placed(e, places[e])
        /\ \A r : Passed(r) => \E e \in DOMAIN places : places[e] = r
  BY <1>3 DEF PlacesInv
<1>5. \A e \in DOMAIN events : places[e] < 2 * c
  <2> SUFFICES ASSUME NEW e \in DOMAIN events
               PROVE  places[e] < 2 * c
    OBVIOUS
  <2>1. \E a \in DOMAIN call_contract :
           /\ a < q
           /\ places[e] = 2 * call_contract[a] \/ places[e] = 2 * call_contract[a] + 1
    BY <1>3, <1>4, <1>d DEF Placed, CallDone, ITSDone, OtherDone
  <2> QED
    BY <1>d, <2>1
\* The call is the first with its key, and the payment the last.
<1>6. ASSUME paid
      PROVE  Credits(trace, p, c) /\ p \in DOMAIN trace
  <2>1. p \in DOMAIN trace /\ K(p) \in GasPaid /\ key(Log(p)) = key(Log(c))
    BY <1>0, <1>6 DEF ListInv
  <2>2. ASSUME NEW b \in CallsOf(trace), key(Log(b)) = key(Log(c))
        PROVE  c <= b
    <3>1. PICK a \in DOMAIN call_contract : call_contract[a] = b
      BY <1>3 DEF FoundInv, CallsOf, K, Tx
    <3>2. ~(a < q)
      BY <1>3, <1>6, <1>d, <2>2, <3>1 DEF MapInv, CallDone
    <3> QED
      BY <1>d, <3>1, <3>2
  <2>3. ASSUME NEW b \in PaymentsOf(trace), key(Log(b)) = key(Log(c))
        PROVE  b <= p
    BY <1>0, <1>3, <1>6, <2>3 DEF MapInv, PaymentsOf, K, Tx
  <2>4. c \in CallsOf(trace) /\ p \in PaymentsOf(trace)
    BY <1>d, <2>1 DEF CallsOf, PaymentsOf, K, Tx
  <2> QED
    BY <2>1, <2>2, <2>3, <2>4 DEF Credits, Log
<1>7. ASSUME NEW b \in DOMAIN trace, Credits(trace, b, c)
      PROVE  paid
  <2>1. K(b) \in GasPaid /\ key(Log(b)) = key(Log(c))
    BY <1>7 DEF Credits, PaymentsOf, K, Tx, Log
  <2>2. ASSUME NEW a \in DOMAIN call_contract, CallDone(a),
               key(Log(call_contract[a])) = key(Log(b))
        PROVE  FALSE
    <3>1. a < q /\ call_contract[a] \in CallsOf(trace)
      BY <1>3, <1>d, <2>2 DEF CallDone, CallsOf, ListInv, K, Tx
    <3>2. c <= call_contract[a]
      BY <1>7, <2>1, <2>2, <3>1 DEF Credits, Log
    <3> QED
      BY <1>d, <3>1, <3>2
  <2> QED
    BY <1>3, <2>1, <2>2 DEF CreditInv
<1>8. /\ CallDone(q)'
      /\ \A a \in DOMAIN call_contract : CallDone(a) => CallDone(a)'
      /\ \A a \in DOMAIN call_contract : CallDone(a)' => CallDone(a) \/ a = q
      /\ \A a : ~ITSDone(a)' /\ ~OtherDone(a)'
  BY <1>3, <1>d DEF CallDone, ITSDone, OtherDone
<1>9. \A e \in DOMAIN events : Placed(e, places[e])'
  <2>1. \A a : ~ITSDone(a) /\ ~OtherDone(a)
    BY <1>3 DEF ITSDone, OtherDone
  <2> QED
    BY <1>1, <1>3, <1>4, <1>8, <2>1, PlacedKept
<1>10. Placed(n + 1, 2 * c)'
  BY <1>2, <1>3, <1>8, <1>d DEF Placed
<1>11. paid => Placed(n + 2, 2 * c + 1)'
  BY <1>2, <1>3, <1>6, <1>8, <1>d DEF Placed
<1>12. ASSUME NEW r, Passed(r)'
       PROVE  Passed(r) \/ r = 2 * c \/ (r = 2 * c + 1 /\ paid)
  <2>1. CASE \E a \in DOMAIN call_contract : CallDone(a)' /\ r = 2 * call_contract[a]
    BY <1>8, <1>d, <2>1 DEF Passed
  <2>2. CASE \E a \in DOMAIN call_contract, b \in DOMAIN trace :
                /\ CallDone(a)' /\ Credits(trace, b, call_contract[a])
                /\ r = 2 * call_contract[a] + 1
    <3>1. PICK a \in DOMAIN call_contract, b \in DOMAIN trace :
                /\ CallDone(a)' /\ Credits(trace, b, call_contract[a])
                /\ r = 2 * call_contract[a] + 1
      BY <2>2
    <3>2. CASE CallDone(a)
      BY <3>1, <3>2 DEF Passed
    <3>3. CASE a = q
      BY <1>7, <1>d, <3>1, <3>3
    <3> QED
      BY <1>8, <3>1, <3>2, <3>3
  <2> QED
    BY <1>3, <1>8, <1>12, <2>1, <2>2 DEF Passed
<1>13. PICK s1 \in Seq(Nat) : OneMore(s1, places, n, 2 * c)
  <2>1. 2 * c \in Nat /\ n \in Nat /\ DOMAIN places = 1..n
    BY <1>1, <1>4, <1>d
  <2>2. \A e \in DOMAIN places : places[e] < 2 * c
    BY <1>4, <1>5
  <2>3. places \in Seq(Nat) /\ Sorted(places)
    BY <1>4
  <2> QED
    BY <2>1, <2>2, <2>3, AppendPlace, Zenon
<1>o. /\ Sorted(s1) /\ DOMAIN s1 = 1..(n + 1)
      /\ \A e \in 1..n : s1[e] = places[e]
      /\ s1[n + 1] = 2 * c
  BY <1>13 DEF OneMore
<1>14. PICK s2 \in Seq(Nat) :
         /\ Sorted(s2) /\ DOMAIN s2 = 1..(n + 2)
         /\ \A e \in 1..n : s2[e] = places[e]
         /\ s2[n + 1] = 2 * c
         /\ s2[n + 2] = 2 * c + 1
  <2>1. 2 * c + 1 \in Nat /\ n \in Nat /\ n + 1 \in Nat
    BY <1>1, <1>d
  <2>2. \A e \in DOMAIN s1 : s1[e] < 2 * c + 1
    <3>1. \A e \in 1..n : places[e] < 2 * c /\ places[e] \in Nat
      <4>1. places \in Seq(Nat) /\ n \in Nat /\ DOMAIN places = 1..n /\ DOMAIN events = 1..n
        BY <1>1, <1>4
      <4>2. \A e \in DOMAIN places : places[e] \in Nat
        BY <4>1
      <4> QED
        BY <1>5, <4>1, <4>2
    <3>2. \A e \in 1..(n + 1) : e \in 1..n \/ e = n + 1
      BY <2>1
    <3>3. c \in Nat /\ DOMAIN s1 = 1..(n + 1) /\ s1[n + 1] = 2 * c
      BY <1>d, <1>o
    <3>4. ASSUME NEW e \in 1..n
          PROVE  s1[e] < 2 * c + 1
      <4>1. s1[e] = places[e] /\ places[e] < 2 * c /\ places[e] \in Nat
        BY <1>o, <3>1
      <4> QED
        BY <3>3, <4>1
    <3>5. s1[n + 1] < 2 * c + 1
      BY <3>3
    <3> QED
      BY <3>2, <3>3, <3>4, <3>5
  <2>3. PICK m \in Nat : m = n + 1
    BY <2>1
  <2>4. PICK s2 \in Seq(Nat) : OneMore(s2, s1, m, 2 * c + 1)
    <3>1. s1 \in Seq(Nat) /\ DOMAIN s1 = 1..m /\ Sorted(s1)
      BY <1>o, <2>3
    <3> QED
      BY <2>1, <2>2, <3>1, AppendPlace, Zenon
  <2>5. m + 1 = n + 2 /\ n + 1 \in 1..m /\ \A e \in 1..n : e \in 1..m
    BY <2>1, <2>3
  <2> QED
    BY <1>o, <2>3, <2>4, <2>5 DEF OneMore
<1>e. /\ \A e \in 1..(n + 1) : e \in 1..n \/ e = n + 1
      /\ \A e \in 1..(n + 2) : e \in 1..n \/ e = n + 1 \/ e = n + 2
      /\ n + 1 \in 1..(n + 2) /\ n + 2 \in 1..(n + 2) /\ n + 1 \in 1..(n + 1)
      /\ \A e \in 1..n : e \in 1..(n + 1) /\ e \in 1..(n + 2)
  BY <1>1
<1> HIDE DEF paid
<1>15. CASE ~paid
  <2>1. \A e \in DOMAIN events' : Placed(e, s1[e])'
    BY <1>1, <1>9, <1>10, <1>o, <1>15, <1>e
  <2>2. \A r : Passed(r)' => \E e \in DOMAIN s1 : s1[e] = r
    BY <1>1, <1>4, <1>12, <1>o, <1>15, <1>e
  <2> QED
    BY <1>1, <1>o, <1>15, <2>1, <2>2 DEF PlacesInv
<1>16. CASE paid
  <2>1. \A e \in DOMAIN events' : Placed(e, s2[e])'
    BY <1>1, <1>9, <1>10, <1>11, <1>14, <1>16, <1>e
  <2>2. \A r : Passed(r)' => \E e \in DOMAIN s2 : s2[e] = r
    BY <1>1, <1>4, <1>12, <1>14, <1>16, <1>e
  <2> QED
    BY <1>1, <1>14, <1>16, <2>1, <2>2 DEF PlacesInv
<1> QED
  BY <1>15, <1>16

\* One event is placed behind all others.
LEMMA PlacesOne ==
    ASSUME ListInv, EventsInv, PlacesInv, EmitITS \/ EmitOther,
           NEW n, n = Len(events), NEW r \in Nat,
           \A e \in DOMAIN events : \A s \in Nat : Placed(e, s) => s < r,
           Placed(n + 1, r)',
           \A s : Passed(s)' => Passed(s) \/ s = r
    PROVE  PlacesInv'
<1>1. /\ n \in Nat /\ DOMAIN events = 1..n
      /\ DOMAIN events' = 1..(n + 1)
      /\ \A e \in DOMAIN events : SameEvent(e)
  BY EmitEffect
<1>2. pc # "failed"
  BY DEF EmitITS, EmitOther
<1>3. PICK places \in Seq(Nat) :
        /\ Sorted(places)
        /\ DOMAIN places = DOMAIN events
        /\ \A e \in DOMAIN events : Placed(e, places[e])
        /\ \A s : Passed(s) => \E e \in DOMAIN places : places[e] = s
  BY <1>2 DEF PlacesInv
<1>4. places \in Seq(Nat) /\ Sorted(places) /\ DOMAIN places = 1..n
  BY <1>1, <1>3
<1>5. \A e \in DOMAIN places : places[e] \in Nat
  BY <1>1, <1>4
<1>6. \A e \in DOMAIN places : places[e] < r
  BY <1>3, <1>5
<1>7. PICK s \in Seq(Nat) : OneMore(s, places, n, r)
  BY <1>1, <1>4, <1>6, AppendPlace, Zenon
<1>8. /\ Sorted(s) /\ DOMAIN s = 1..(n + 1)
      /\ \A e \in 1..n : s[e] = places[e]
      /\ s[n + 1] = r
  BY <1>7 DEF OneMore
<1>9. \A e \in DOMAIN events : Placed(e, places[e])'
  BY <1>1, <1>3, LoopsAdvance, PlacedKept
<1>e. /\ \A e \in 1..(n + 1) : e \in 1..n \/ e = n + 1
      /\ n + 1 \in 1..(n + 1)
      /\ \A e \in 1..n : e \in 1..(n + 1)
  BY <1>1
<1>10. \A e \in DOMAIN events' : Placed(e, s[e])'
  BY <1>1, <1>8, <1>9, <1>e
<1>11. \A x : Passed(x)' => \E e \in DOMAIN s : s[e] = x
  BY <1>3, <1>4, <1>8, <1>e
<1>12. DOMAIN s = DOMAIN events'
  BY <1>1, <1>8
<1> QED
  BY <1>8, <1>10, <1>11, <1>12 DEF PlacesInv

\* Every step places the events in the order of what they come from.
LEMMA PlacesStep ==
    /\ ListInv /\ MatchInv /\ EventsInv /\ FoundInv /\ CreditInv /\ MapInv
    /\ PlacesInv /\ [Next]_vars
    => PlacesInv'
<1> SUFFICES ASSUME ListInv, MatchInv, EventsInv, FoundInv, CreditInv, MapInv,
                    PlacesInv, [Next]_vars
             PROVE  PlacesInv'
  OBVIOUS
<1>d. /\ Len(trace) \in Nat /\ DOMAIN trace = 1..Len(trace)
      /\ pos \in Nat \ {0}
      /\ \A a \in DOMAIN call_contract :
            a \in Nat /\ call_contract[a] \in Nat /\ call_contract[a] <= Len(trace)
      /\ \A a \in DOMAIN its : a \in Nat /\ its[a] \in Nat /\ its[a] <= Len(trace)
      /\ \A a \in DOMAIN parsers : a \in Nat /\ parsers[a] \in Nat
      /\ \A a, b \in DOMAIN its : a < b => its[a] < its[b]
      /\ \A a, b \in DOMAIN parsers : a < b => parsers[a] < parsers[b]
  BY ParserAssumption DEF ListInv, Sorted
<1>1. CASE Begin \/ AddNothing \/ AddCallContract \/ AddGasPaid \/ AddITS \/ AddOther
  <2>1. events' = <<>> /\ pc' = "match"
    BY <1>1
       DEF Begin, AddNothing, AddCallContract, AddGasPaid, AddITS, AddOther, AtTx, MatchInv
  <2>2. DOMAIN events' = {} /\ DOMAIN <<>> = {} /\ <<>> \in Seq(Nat) /\ Sorted(<<>>)
    BY <2>1 DEF Sorted
  <2>3. \A r : ~Passed(r)'
    BY <2>1 DEF Passed, CallDone, ITSDone, OtherDone
  <2> QED
    BY <2>2, <2>3 DEF PlacesInv
<1>2. CASE Fails
  BY <1>2 DEF Fails, Fail, PlacesInv
<1>3. CASE EmitCall
  BY <1>3, PlacesCall
<1>4. CASE EmitITS
  <2>0. PICK n, q, i, r : /\ n = Len(events) /\ q = pos /\ i = its[pos]
                          /\ r = 2 * (Len(trace) + 1) + its[pos]
    OBVIOUS
  <2>1. /\ pc = "its" /\ pc' = "its" /\ q \in DOMAIN its /\ q \in DOMAIN call_contract
        /\ pos' = q + 1 /\ q \in Nat
        /\ UNCHANGED <<trace, call_contract, its, parsers>>
    BY <1>4, <1>d, <2>0 DEF EmitITS
  <2>2. r \in Nat /\ i = its[q] /\ i \in Nat /\ r = 2 * (Len(trace) + 1) + i
    BY <1>d, <2>0, <2>1
  <2>3. ASSUME NEW e \in DOMAIN events, NEW s \in Nat, Placed(e, s)
        PROVE  s < r
    <3>1. CASE \E a \in DOMAIN call_contract :
                  s = 2 * call_contract[a] \/ s = 2 * call_contract[a] + 1
      BY <1>d, <2>2, <3>1
    <3>2. CASE \E a \in DOMAIN its : a < q /\ s = 2 * (Len(trace) + 1) + its[a]
      BY <1>d, <2>1, <2>2, <3>2
    <3> QED
      BY <2>0, <2>1, <2>3, <3>1, <3>2 DEF Placed, ITSDone, OtherDone
  <2>4. ITSDone(q)' /\ \A a \in DOMAIN its : ITSDone(a)' => ITSDone(a) \/ a = q
    BY <1>d, <2>0, <2>1 DEF ITSDone
  <2>5. Placed(n + 1, r)'
    <3>1. EventSummary(events'[n + 1]) = ITSSummary(trace', i, call_contract'[q])
      BY <1>4, <2>0, <2>1, EmitSummary
    <3> QED
      BY <2>1, <2>2, <2>4, <3>1 DEF Placed
  <2>6. ASSUME NEW s, Passed(s)'
        PROVE  Passed(s) \/ s = r
    <3>1. \A a : CallDone(a) /\ ~OtherDone(a)'
      BY <2>1 DEF CallDone, OtherDone
    <3> QED
      BY <2>1, <2>2, <2>4, <2>6, <3>1 DEF Passed
  <2> QED
    BY <1>4, <2>0, <2>2, <2>3, <2>5, <2>6, PlacesOne
<1>5. CASE EmitOther
  <2>0. PICK n, q, i, r : /\ n = Len(events) /\ q = pos /\ i = parsers[pos]
                          /\ r = 3 * (Len(trace) + 1) + parsers[pos]
    OBVIOUS
  <2>1. /\ pc = "parsers" /\ pc' = "parsers" /\ q \in DOMAIN parsers
        /\ pos' = q + 1 /\ q \in Nat
        /\ UNCHANGED <<trace, call_contract, its, parsers>>
    BY <1>5, <1>d, <2>0 DEF EmitOther
  <2>2. r \in Nat /\ i = parsers[q] /\ i \in Nat /\ r = 3 * (Len(trace) + 1) + i
    BY <1>d, <2>0, <2>1
  <2>3. ASSUME NEW e \in DOMAIN events, NEW s \in Nat, Placed(e, s)
        PROVE  s < r
    <3>1. CASE \E a \in DOMAIN call_contract :
                  s = 2 * call_contract[a] \/ s = 2 * call_contract[a] + 1
      BY <1>d, <2>2, <3>1
    <3>2. CASE \E a \in DOMAIN its : s = 2 * (Len(trace) + 1) + its[a]
      BY <1>d, <2>1, <2>2, <3>2, SMTT(30)
    <3>3. CASE \E a \in DOMAIN parsers : a < q /\ s = 3 * (Len(trace) + 1) + parsers[a]
      BY <1>d, <2>1, <2>2, <3>3
    <3> QED
      BY <2>0, <2>1, <2>3, <3>1, <3>2, <3>3 DEF Placed, OtherDone
  <2>4. OtherDone(q)' /\ \A a \in DOMAIN parsers : OtherDone(a)' => OtherDone(a) \/ a = q
    BY <1>d, <2>0, <2>1 DEF OtherDone
  <2>5. Placed(n + 1, r)'
    <3>1. EventSummary(events'[n + 1]) = OtherSummary(trace', i)
      BY <1>5, <2>0, <2>1, EmitSummary
    <3> QED
      BY <2>1, <2>2, <2>4, <3>1 DEF Placed
  <2>6. ASSUME NEW s, Passed(s)'
        PROVE  Passed(s) \/ s = r
    <3>1. \A a : CallDone(a) /\ ITSDone(a)
      BY <2>1 DEF CallDone, ITSDone
    <3> QED
      BY <2>1, <2>2, <2>4, <2>6, <3>1 DEF Passed
  <2> QED
    BY <1>5, <2>0, <2>2, <2>3, <2>5, <2>6, PlacesOne
<1>6. CASE Costs \/ NextLoop \/ UNCHANGED vars
  <2>1. /\ DOMAIN events' = DOMAIN events
        /\ \A e \in DOMAIN events : SameEvent(e)
        /\ pc # "failed" \/ UNCHANGED vars
    <3>1. CASE Costs
      BY <1>d, <3>1, CostsEffect
    <3>2. CASE NextLoop \/ UNCHANGED vars
      BY <3>2 DEF NextLoop, EndLoop, vars, SameEvent
    <3> QED
      BY <1>6, <3>1, <3>2
  <2>2. /\ UNCHANGED <<trace, call_contract, its, parsers>>
        /\ \A a \in DOMAIN call_contract : CallDone(a) <=> CallDone(a)'
        /\ \A a \in DOMAIN its : ITSDone(a) <=> ITSDone(a)'
        /\ \A a \in DOMAIN parsers : OtherDone(a) <=> OtherDone(a)'
    <3>1. CASE Costs
      BY <3>1, CostsEffect DEF CallDone, ITSDone, OtherDone
    <3>2. CASE UNCHANGED vars
      BY <3>2 DEF vars, CallDone, ITSDone, OtherDone
    <3>3. CASE NextLoop
      <4>1. /\ \A a \in DOMAIN call_contract :
                  pos \notin DOMAIN call_contract => a < pos
            /\ \A a \in DOMAIN its : pos \notin DOMAIN its => a < pos
            /\ \A a \in DOMAIN parsers : pos \notin DOMAIN parsers => a < pos
            /\ \A a \in DOMAIN call_contract \cup DOMAIN its \cup DOMAIN parsers : ~(a < 1)
        BY <1>d DEF ListInv
      <4> QED
        BY <3>3, <4>1 DEF NextLoop, EndLoop, CallDone, ITSDone, OtherDone
    <3> QED
      BY <1>6, <3>1, <3>2, <3>3
  <2>3. CASE pc = "failed"
    BY <2>1, <2>3 DEF PlacesInv, vars
  <2>4. CASE pc # "failed"
    <3>1. PICK places \in Seq(Nat) :
            /\ Sorted(places)
            /\ DOMAIN places = DOMAIN events
            /\ \A e \in DOMAIN events : Placed(e, places[e])
            /\ \A r : Passed(r) => \E e \in DOMAIN places : places[e] = r
      BY <2>4 DEF PlacesInv
    <3>2. \A e \in DOMAIN events : Placed(e, places[e])'
      BY <2>1, <2>2, <3>1, PlacedKept
    <3>3. \A r : Passed(r)' => Passed(r)
      BY <2>2 DEF Passed
    <3> QED
      BY <2>1, <3>1, <3>2, <3>3 DEF PlacesInv
  <2> QED
    BY <2>3, <2>4
<1> QED
  BY <1>1, <1>2, <1>3, <1>4, <1>5, <1>6, Steps

-----------------------------------------------------------------------------
(* What parse_trace returns. *)

\* A sorted list is as long as the set of its elements is large.
LEMMA ListLength ==
    ASSUME NEW S, NEW s, Lists(s, S)
    PROVE  Len(s) \in Nat /\ DOMAIN s = 1..Len(s) /\ Cardinality(S) = Len(s)
<1>1. /\ s \in Seq(Nat) /\ \A a, b \in DOMAIN s : a < b => s[a] < s[b]
      /\ S = {s[a] : a \in DOMAIN s}
  BY DEF Lists, Sorted
<1>2. /\ Len(s) \in Nat /\ DOMAIN s = 1..Len(s)
      /\ \A a \in DOMAIN s : s[a] \in Nat
      /\ s = [a \in 1..Len(s) |-> s[a]]
  BY <1>1
<1>3. s \in [1..Len(s) -> S] /\ \A x \in S : \E a \in 1..Len(s) : s[a] = x
  BY <1>1, <1>2
<1>4. \A a, b \in 1..Len(s) : s[a] = s[b] => a = b
  BY <1>1, <1>2
<1>5. s \in Bijection(1..Len(s), S)
  BY <1>2, <1>3, <1>4 DEF Bijection, Injection, Surjection, IsInjective
<1>6. ExistsBijection(1..Len(s), S)
  BY <1>5 DEF ExistsBijection
<1> QED
  BY <1>2, <1>6, FS_CountingElements

\* When the trace is returned, its events are all it determines, and it is not malformed.
LEMMA Returned ==
    ASSUME ListInv, FoundInv, DecodedInv, OthersInv, PlacesInv, pc = "returned"
    PROVE  Reports(trace, event_summaries) /\ ~Malformed(trace)
<1>d. /\ \A a : CallDone(a) /\ ITSDone(a) /\ OtherDone(a)
      /\ \A i \in DOMAIN trace : i # 0
  BY ParserAssumption DEF ListInv, CallDone, ITSDone, OtherDone
<1>1. Lists(call_contract, CallsOf(trace))
  BY DEF Lists, ListInv, FoundInv, CallsOf, K, Tx
<1>2. Lists(its, ITSOf(trace))
  BY DEF Lists, ListInv, FoundInv, ITSOf, K, Tx
<1>3. {parsers[a] : a \in DOMAIN parsers} = OthersOf(trace)
  BY DEF ListInv, OthersInv, OthersOf, K, Tx
<1>4. \A a \in DOMAIN its : a \in DOMAIN call_contract
  BY <1>d DEF DecodedInv
<1>5. Reports(trace, event_summaries)
  <2>1. PICK places \in Seq(Nat) :
          /\ Sorted(places)
          /\ DOMAIN places = DOMAIN events
          /\ \A e \in DOMAIN events : Placed(e, places[e])
          /\ \A r : Passed(r) => \E e \in DOMAIN places : places[e] = r
    BY DEF PlacesInv
  <2>2. ASSUME NEW e \in DOMAIN events, NEW r, Placed(e, r)
        PROVE  Report(trace, call_contract, its, r, EventSummary(events[e]))
    <3>1. \A a \in DOMAIN call_contract : call_contract[a] \in CallsOf(trace)
      BY <1>1 DEF Lists
    <3>2. \A p, c : Credits(trace, p, c) => p \in PaymentsOf(trace)
      BY DEF Credits
    <3>3. \A a \in DOMAIN parsers : parsers[a] \in OthersOf(trace)
      BY <1>3
    <3> QED
      BY <2>2, <3>1, <3>2, <3>3 DEF Placed, Report
  <2>3. ASSUME NEW r, NEW x, Report(trace, call_contract, its, r, x)
        PROVE  Passed(r)
    <3>1. \A c \in CallsOf(trace) : \E a \in DOMAIN call_contract : call_contract[a] = c
      BY <1>1 DEF Lists
    <3>2. \A p \in PaymentsOf(trace) : p \in DOMAIN trace
      BY DEF PaymentsOf
    <3>3. \A i \in OthersOf(trace) : \E a \in DOMAIN parsers : parsers[a] = i
      BY <1>3
    <3> QED
      BY <1>d, <2>3, <3>1, <3>2, <3>3 DEF Report, Passed
  <2>4. /\ event_summaries = [e \in DOMAIN places |-> event_summaries[e]]
        /\ \A e \in DOMAIN places : event_summaries[e] = EventSummary(events[e])
    BY <2>1 DEF event_summaries
  <2>5. \A e \in DOMAIN places : Report(trace, call_contract, its, places[e], event_summaries[e])
    BY <2>1, <2>2, <2>4
  <2>6. \A r, x : Report(trace, call_contract, its, r, x) => \E e \in DOMAIN places : places[e] = r
    BY <2>1, <2>3
  <2>7. call_contract \in Seq(Nat) /\ its \in Seq(Nat)
    BY DEF ListInv
  <2> QED
    BY <1>1, <1>2, <2>1, <2>4, <2>5, <2>6, <2>7 DEF Reports
<1>6. /\ ExecuteInsufficientGas(trace) => ParsesIn(trace, 0)
      /\ \A i \in DOMAIN trace : Kind(trace[i]) # "none" => ParsesIn(trace, i)
  BY DEF DecodedInv, K, Tx, Parses
<1>7. Cardinality(ITSOf(trace)) <= Cardinality(CallsOf(trace))
  <2>1. /\ Len(its) \in Nat /\ DOMAIN its = 1..Len(its) /\ Cardinality(ITSOf(trace)) = Len(its)
        /\ Len(call_contract) \in Nat /\ DOMAIN call_contract = 1..Len(call_contract)
        /\ Cardinality(CallsOf(trace)) = Len(call_contract)
    BY <1>1, <1>2, ListLength
  <2>2. Len(its) <= Len(call_contract)
    BY <1>4, <2>1
  <2> QED
    BY <2>1, <2>2
<1>8. /\ Cardinality(ITSOf(trace)) \in Nat /\ Cardinality(CallsOf(trace)) \in Nat
  BY <1>1, <1>2, ListLength
<1> QED
  BY <1>5, <1>6, <1>7, <1>8 DEF Malformed, ITSOf, CallsOf

-----------------------------------------------------------------------------
(* The handler. *)

\* What parse_trace has found and reported is what the trace has, as far as it was passed.
ParserInv == TraceInv /\ DecodedInv /\ MapInv /\ OthersInv /\ PlacesInv

\* A parser that has just started has found and reported nothing.
LEMMA ParserStart == Init => ParserInv
<1> SUFFICES ASSUME Init
             PROVE  ParserInv
  OBVIOUS
<1>1. ParseInv
  BY ParseStart
<1>2. FoundInv /\ ReportedInv /\ CreditInv /\ DecodedInv /\ MapInv /\ OthersInv
  BY DEF Init, FoundInv, ReportedInv, CreditInv, DecodedInv, MapInv, OthersInv, CallDone, ITSDone
<1>3. PlacesInv
  <2>1. DOMAIN <<>> = {} /\ <<>> \in Seq(Nat) /\ Sorted(<<>>) /\ DOMAIN events = {}
    BY DEF Sorted, Init
  <2>2. \A r : ~Passed(r)
    BY DEF Init, Passed, CallDone, ITSDone, OtherDone
  <2> QED
    BY <2>1, <2>2 DEF PlacesInv
<1> QED
  BY <1>1, <1>2, <1>3 DEF ParserInv, TraceInv

\* Every step of the parser keeps what it has found and reported exact.
LEMMA ParserStep == ParserInv /\ [Next]_vars => ParserInv'
BY ListStep, MatchStep, EventsStep, SourceStep, FoundStep, ReportedStep, CreditStep, DecodedStep,
   MapStep, OthersStep, PlacesStep
   DEF ParserInv, TraceInv, ParseInv

\* Whatever is stored or posted for a trace is what the trace determines, and the trace is
\* not malformed.
StoredInv ==
    /\ DOMAIN stored = Traces /\ DOMAIN posted = Traces
    /\ \A t \in Traces : stored[t] = NoEvents \/ (Reports(t, stored[t]) /\ ~Malformed(t))
    /\ \A t \in Traces : \A batch \in posted[t] :
          stored[t] = batch /\ Reports(t, batch) /\ ~Malformed(t)

\* What waits is a trace, and what is about to be posted has been parsed and stored.
HandlerInv ==
    /\ queue \in Seq(Traces)
    /\ step = "post" => pc = "returned" /\ stored[trace] = event_summaries

IngestorInv == ParserInv /\ StoredInv /\ HandlerInv

\* The steps of the handler, seen from the parser: it starts on a trace from the queue,
\* takes a step, or stays.
LEMMA HandlerSteps ==
    ASSUME IngestorInv, [IngestorNext]_ingestorVars
    PROVE  \/ Receive /\ Init'
           \/ ~Receive /\ [Next]_vars
<1>1. CASE Receive
  <2>1. Head(queue) \in Traces
    BY <1>1 DEF Receive, IngestorInv, HandlerInv
  <2> QED
    BY <1>1, <2>1 DEF Receive, Init
<1>2. CASE ~Receive
  BY <1>2 DEF IngestorNext, Publish, Handle, Parse, HandleFails, StoreSummaries, SkipUpdate, Post,
              PriceMissing, UpdateFails, PostFails, Stop, Requeue, Next, ingestorVars
<1> QED
  BY <1>1, <1>2

\* The rows that a statement leaves, and the batches that a delivery adds.
LEMMA StoredStep == IngestorInv /\ [IngestorNext]_ingestorVars => StoredInv'
<1> SUFFICES ASSUME IngestorInv, [IngestorNext]_ingestorVars
             PROVE  StoredInv'
  OBVIOUS
<1>1. /\ trace \in Traces
      /\ pc = "returned" => Reports(trace, event_summaries) /\ ~Malformed(trace)
  BY Returned DEF IngestorInv, ParserInv, TraceInv, ParseInv, ListInv
<1>2. \/ UNCHANGED <<stored, posted>>
      \/ AtUpdate /\ update_events /\ UNCHANGED posted
      \/ step = "post" /\ Deliver /\ UNCHANGED stored
  BY DEF IngestorNext, Publish, Receive, Handle, Parse, HandleFails, StoreSummaries, SkipUpdate,
         Post, PriceMissing, UpdateFails, PostFails, Stop, ingestorVars, handlerVars
<1>3. CASE UNCHANGED <<stored, posted>>
  BY <1>3 DEF IngestorInv, StoredInv
<1>4. CASE AtUpdate /\ update_events /\ UNCHANGED posted
  <2>1. /\ DOMAIN stored' = Traces /\ stored'[trace] = event_summaries
        /\ \A t \in Traces : t # trace => stored'[t] = stored[t]
        /\ posted' = posted
    BY <1>1, <1>4 DEF update_events, IngestorInv, StoredInv
  <2>2. Reports(trace, event_summaries) /\ ~Malformed(trace)
    BY <1>1, <1>4 DEF AtUpdate
  <2>3. \A batch \in posted[trace] : batch = event_summaries
    BY <1>1, <2>2, ReportsUnique DEF IngestorInv, StoredInv
  <2> QED
    BY <2>1, <2>2, <2>3 DEF IngestorInv, StoredInv
<1>5. CASE step = "post" /\ Deliver /\ UNCHANGED stored
  <2>1. /\ DOMAIN posted' = Traces
        /\ posted'[trace] = posted[trace] \cup {event_summaries}
        /\ \A t \in Traces : t # trace => posted'[t] = posted[t]
        /\ stored' = stored
    BY <1>1, <1>5 DEF Deliver, IngestorInv, StoredInv
  <2>2. /\ Reports(trace, event_summaries) /\ ~Malformed(trace)
        /\ stored[trace] = event_summaries
    BY <1>1, <1>5 DEF IngestorInv, HandlerInv
  <2> QED
    BY <2>1, <2>2 DEF IngestorInv, StoredInv
<1> QED
  BY <1>2, <1>3, <1>4, <1>5

\* No events go on to be posted that are not in the row.
LEMMA HandlerStep == IngestorInv /\ [IngestorNext]_ingestorVars => HandlerInv'
<1> SUFFICES ASSUME IngestorInv, [IngestorNext]_ingestorVars
             PROVE  HandlerInv'
  OBVIOUS
<1>1. trace \in Traces /\ queue \in Seq(Traces)
  BY DEF IngestorInv, HandlerInv, ParserInv, TraceInv, ParseInv, ListInv
<1>2. queue' \in Seq(Traces)
  BY <1>1
     DEF IngestorNext, Publish, Receive, Handle, Parse, HandleFails, StoreSummaries, SkipUpdate,
         Post, PriceMissing, UpdateFails, PostFails, Stop, Requeue, ingestorVars, handlerVars
<1>3. ASSUME step' = "post"
      PROVE  (pc = "returned" /\ stored[trace] = event_summaries)'
  <2>1. UNCHANGED vars => UNCHANGED <<pc, trace, event_summaries>>
    BY DEF vars, event_summaries
  <2>2. CASE StoreSummaries
    <3>1. UNCHANGED vars /\ pc = "returned" /\ stored' = [stored EXCEPT ![trace] = event_summaries]
      BY <2>2 DEF StoreSummaries, AtUpdate, update_events
    <3>2. stored'[trace] = event_summaries
      BY <1>1, <3>1 DEF IngestorInv, StoredInv
    <3> QED
      BY <2>1, <3>1, <3>2
  <2>3. CASE SkipUpdate
    <3>1. UNCHANGED <<vars, stored>> /\ pc = "returned" /\ events = <<>>
      BY <2>3 DEF SkipUpdate
    <3>2. event_summaries = NoEvents
      BY <3>1 DEF event_summaries, NoEvents
    <3>3. Reports(trace, event_summaries)
      BY <3>1, Returned DEF IngestorInv, ParserInv, TraceInv, ParseInv
    <3>4. stored[trace] = event_summaries
      BY <1>1, <3>2, <3>3, ReportsUnique DEF IngestorInv, StoredInv
    <3> QED
      BY <2>1, <3>1, <3>4
  <2>4. CASE step = "post" /\ UNCHANGED <<vars, stored>>
    BY <2>1, <2>4 DEF IngestorInv, HandlerInv
  <2> QED
    BY <1>3, <2>2, <2>3, <2>4
       DEF IngestorNext, Publish, Receive, Handle, Parse, HandleFails, Post, PriceMissing,
           UpdateFails, PostFails, Stop, Requeue, ingestorVars, handlerVars
<1> QED
  BY <1>2, <1>3 DEF HandlerInv

\* The invariant holds of every behaviour of the handler.
LEMMA IngestorInvariant == IngestorSpec => []IngestorInv
<1>1. IngestorInit => IngestorInv
  <2> SUFFICES ASSUME IngestorInit
               PROVE  IngestorInv
    OBVIOUS
  <2>1. StoredInv /\ HandlerInv
    BY DEF IngestorInit, StoredInv, HandlerInv
  <2> QED
    BY <2>1, ParserStart DEF IngestorInit, IngestorInv
<1>2. IngestorInv /\ [IngestorNext]_ingestorVars => IngestorInv'
  <2>1. Init' => ParserInv'
    BY ParserStart, PTL
  <2> SUFFICES ASSUME IngestorInv, [IngestorNext]_ingestorVars
               PROVE  IngestorInv'
    OBVIOUS
  <2>2. ParserInv'
    BY <2>1, HandlerSteps, ParserStep DEF IngestorInv
  <2> QED
    BY <2>2, StoredStep, HandlerStep DEF IngestorInv
<1> QED
  BY <1>1, <1>2, PTL DEF IngestorSpec

\* Whatever was posted for a trace, on whichever delivery and after whatever failures, is
\* what its row says: handle_transaction returns no events that it has not stored, and
\* parse_trace returns the same events, in the same order, each time it is given the trace.
THEOREM PostedStored == IngestorSpec => []PostedIsStored
<1>1. IngestorInv => PostedIsStored
  BY DEF IngestorInv, StoredInv, PostedIsStored
<1> QED
  BY <1>1, IngestorInvariant, PTL

\* Of a trace with a log that does not decode, or with more ITS logs than calls, nothing
\* is ever stored or posted: parse_trace fails before it returns any event.
THEOREM NothingInPart == IngestorSpec => []AllOrNothing
<1>1. IngestorInv => AllOrNothing
  BY DEF IngestorInv, StoredInv, AllOrNothing
<1> QED
  BY <1>1, IngestorInvariant, PTL

-----------------------------------------------------------------------------
(* The queue, and how much is written. *)

\* A trace has at most one event for each transaction, and one for the trace.
LEMMA EventsBounded ==
    ASSUME ListInv, EventsInv, SourceInv
    PROVE  Len(event_summaries) \in Nat /\ Len(event_summaries) <= Len(trace) + 1
<1> DEFINE n == Len(events)
           m == Len(trace)
           f == [e \in 1..n |-> TxOf(e)]
<1>1. /\ m \in Nat /\ DOMAIN trace = 1..m
      /\ n \in Nat /\ DOMAIN events = 1..n
  <2>1. IsSeq(events)
    BY DEF EventsInv
  <2> QED
    BY <2>1, AppendSeq, ParserAssumption DEF ListInv
<1>2. \A e \in DOMAIN events : TxOf(e) \in DOMAIN trace \cup {0}
  BY DEF SourceInv, ListInv, FromCall, FromPayment, FromITS, FromOther
<1>3. \A d, e \in DOMAIN events : TxOf(d) = TxOf(e) => d = e
  BY DEF SourceInv
<1>4. Len(event_summaries) = n
  <2>1. event_summaries = [e \in 1..n |-> EventSummary(events[e])]
    BY <1>1 DEF event_summaries
  <2> DEFINE S == {EventSummary(events[e]) : e \in 1..n}
  <2>2. event_summaries \in [1..n -> S]
    BY <2>1
  <2> HIDE DEF S, n
  <2> QED
    BY <1>1, <2>2
<1>5. f \in Injection(1..n, 0..m)
  <2>1. f \in [1..n -> 0..m]
    <3>1. \A e \in 1..n : TxOf(e) \in 0..m
      BY <1>1, <1>2
    <3> HIDE DEF n, m
    <3> QED
      BY <3>1
  <2>2. \A d, e \in 1..n : f[d] = f[e] => d = e
    BY <1>1, <1>3
  <2> HIDE DEF f, n, m
  <2> QED
    BY <2>1, <2>2 DEF Injection, IsInjective
<1> HIDE DEF f, n, m
<1>6. IsFiniteSet(0..m) /\ Cardinality(0..m) = m + 1 /\ Cardinality(1..n) = n
  <2>1. /\ IsFiniteSet(0..m)
        /\ Cardinality(0..m) = IF 0 > m THEN 0 ELSE m - 0 + 1
        /\ Cardinality(1..n) = IF 1 > n THEN 0 ELSE n - 1 + 1
    BY <1>1, FS_Interval
  <2> QED
    BY <1>1, <2>1
<1>7. n <= m + 1
  BY <1>5, <1>6, FS_Injection
<1> QED
  BY <1>1, <1>4, <1>7 DEF m

\* Every step moves a trace between the queue and the worker or publishes one.
LEMMA QueueStep == IngestorInv /\ IngestorTypeOK /\ [IngestorNext]_ingestorVars => IngestorTypeOK'
<1> SUFFICES ASSUME IngestorInv, IngestorTypeOK, [IngestorNext]_ingestorVars
             PROVE  IngestorTypeOK'
  OBVIOUS
<1>1. /\ trace \in Traces /\ MaxPublished \in Nat /\ MaxFaults \in Nat
      /\ ListInv /\ EventsInv /\ SourceInv
  BY IngestorAssumption DEF IngestorInv, ParserInv, TraceInv, ParseInv, ListInv
<1>2. /\ published \in Nat /\ published <= MaxPublished
      /\ queue \in Seq(Traces) /\ Len(queue) \in Nat
      /\ faults \in Nat /\ faults <= MaxFaults
      /\ InHand = (IF step = "idle" THEN 0 ELSE 1)
      /\ InHand' = (IF step' = "idle" THEN 0 ELSE 1)
      /\ Len(queue) + InHand <= published
  BY <1>1 DEF IngestorTypeOK, InHand
<1>3. /\ faults' \in 0..MaxFaults /\ step' \in {"idle", "parse", "post"}
  <2>1. faults' = faults \/ Fault
    BY DEF IngestorNext, Publish, Receive, Handle, Parse, HandleFails, StoreSummaries, SkipUpdate,
           Post, PriceMissing, UpdateFails, PostFails, Stop, ingestorVars, handlerVars
  <2>2. step' = step \/ step' \in {"idle", "parse", "post"}
    BY DEF IngestorNext, Publish, Receive, Handle, Parse, HandleFails, StoreSummaries, SkipUpdate,
           Post, PriceMissing, UpdateFails, PostFails, Stop, Requeue, ingestorVars, handlerVars
  <2> QED
    BY <1>1, <1>2, <2>1, <2>2 DEF Fault, IngestorTypeOK
<1>4. /\ published' \in 0..MaxPublished
      /\ queue' \in Seq(Traces) /\ Len(queue') + InHand' <= published'
  <2>1. CASE \E t \in Traces : Publish(t)
    BY <1>1, <1>2, <2>1 DEF Publish
  <2>2. CASE Receive
    <3>1. /\ Len(queue) > 0 /\ Tail(queue) \in Seq(Traces) /\ Len(Tail(queue)) = Len(queue) - 1
      BY <1>2, <2>2 DEF Receive
    <3> QED
      BY <1>1, <1>2, <2>2, <3>1 DEF Receive
  <2>3. CASE step # "idle" /\ Requeue
    BY <1>1, <1>2, <2>3 DEF Requeue
  <2>4. CASE UNCHANGED <<queue, published>> /\ (step # "idle" \/ step' = step)
    BY <1>1, <1>2, <2>4
  <2> QED
    BY <2>1, <2>2, <2>3, <2>4
       DEF IngestorNext, Handle, Parse, HandleFails, StoreSummaries, SkipUpdate, AtUpdate, Post,
           PriceMissing, UpdateFails, PostFails, Stop, ingestorVars, handlerVars
<1>5. \A t \in Traces : Len(stored'[t]) <= Len(t) + 1
  <2>1. stored' = stored \/ update_events
    BY DEF IngestorNext, Publish, Receive, Handle, Parse, HandleFails, StoreSummaries, SkipUpdate,
           Post, PriceMissing, UpdateFails, PostFails, Stop, ingestorVars, handlerVars
  <2>2. CASE stored' = stored
    BY <2>2 DEF IngestorTypeOK
  <2>3. CASE update_events
    <3>1. /\ stored'[trace] = event_summaries
          /\ \A t \in Traces : t # trace => stored'[t] = stored[t]
      BY <1>1, <2>3 DEF update_events, IngestorInv, StoredInv
    <3>2. Len(event_summaries) <= Len(trace) + 1
      BY <1>1, EventsBounded
    <3> QED
      BY <3>1, <3>2 DEF IngestorTypeOK
  <2> QED
    BY <2>1, <2>2, <2>3
<1> QED
  BY <1>3, <1>4, <1>5 DEF IngestorTypeOK

\* However often a trace is delivered, parsed again or given back, the queue and the worker
\* hold no more than was published, and a row never has more than one event for each
\* transaction and one for the trace.
THEOREM IngestorTypes == IngestorSpec => []IngestorTypeOK
<1>1. IngestorInit => IngestorTypeOK
  <2> SUFFICES ASSUME IngestorInit
               PROVE  IngestorTypeOK
    OBVIOUS
  <2>1. \A t \in Traces : Len(stored[t]) <= Len(t) + 1
    <3>1. \A t \in Traces : stored[t] = <<>> /\ Len(t) \in Nat
      BY ParserAssumption DEF IngestorInit, NoEvents
    <3> QED
      BY <3>1
  <2> QED
    BY <2>1, IngestorAssumption DEF IngestorInit, IngestorTypeOK, InHand
<1> QED
  BY <1>1, QueueStep, IngestorInvariant, PTL DEF IngestorSpec

=============================================================================
