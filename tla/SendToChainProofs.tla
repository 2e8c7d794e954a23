------------------------- MODULE SendToChainProofs -------------------------
(***************************************************************************)
(* Proofs about SendToChain, for every size of the id space, every timeout *)
(* and every number of retries: the ids of an epoch grow, and the id that  *)
(* starts an epoch is accepted unless it arrives faster than the last one. *)
(***************************************************************************)
EXTENDS SendToChain, QueryIdProofs, TLAPS

-----------------------------------------------------------------------------
(* Types, and the id of a live row. *)

RowInv == TypeOK /\ row \in GoodRow

\* What Allot does to a live row: the id is larger, and ttl is left alone.
LEMMA AllotLive ==
    ASSUME RowInv, Allot, row.ttl >= 0
    PROVE  /\ qid' \in Allottable
           /\ query_id(qid') > query_id(row)
           /\ qid' # FirstId
           /\ row' \in GoodRow
           /\ row'.ttl = row.ttl
<1>1. /\ ~NextFails(get_query_id(row), force_shift_increase)
      /\ qid' = NextId(get_query_id(row), force_shift_increase)
      /\ row' = Store(row, qid')
  BY DEF Allot
<1>2. force_shift_increase \in BOOLEAN
  BY DEF force_shift_increase
<1>3. /\ qid' \in Allottable /\ qid' \in QueryId
      /\ query_id(qid') > query_id(row) /\ qid' # FirstId
  BY <1>1, <1>2, AllottedLive DEF RowInv
<1>4. row' \in GoodRow /\ row'.ttl = row.ttl
  BY <1>1, <1>3, StoreEffect DEF RowInv
<1> QED
  BY <1>3, <1>4

\* What Allot does to an expired row: a new epoch starts at FirstId.
LEMMA AllotExpired ==
    ASSUME RowInv, Allot, ~(row.ttl >= 0)
    PROVE  /\ qid' = FirstId
           /\ row' \in GoodRow
           /\ row'.ttl = Lifetime
<1>1. qid' = FirstId
  BY AllottedExpired DEF RowInv, Allot, force_shift_increase
<1>2. row' = Store(row, FirstId) /\ FirstId \in QueryId
  BY <1>1, FirstIdIsZero DEF Allot, RowInv, TypeOK, Allottable
<1> QED
  BY <1>1, <1>2, StoreEffect DEF RowInv

\* The id that starts an epoch is not one of those kept back.
LEMMA FirstIdAllottable == FirstId \in Allottable
BY QueryIdAssumption DEF Allottable, has_next, FirstId, QueryId

\* Every step keeps the types, and a live row names an id.
LEMMA RowStep == RowInv /\ [Next]_vars => RowInv'
<1> SUFFICES ASSUME RowInv, [Next]_vars
             PROVE  RowInv'
  OBVIOUS
<1> USE RetriesAssumption, DelayAssumption DEF RowInv
<1>1. CASE Allot
  <2>1. row' \in GoodRow /\ row' \in Row
    BY <1>1, AllotLive, AllotExpired DEF GoodRow
  <2>2. qid' \in Allottable
    BY <1>1, AllotLive, AllotExpired, FirstIdAllottable
  <2> QED
    BY <1>1, <2>1, <2>2 DEF Allot, TypeOK
<1>2. CASE AllotFails
  BY <1>2 DEF AllotFails, TypeOK, RetriesLeft, NoRetries
<1>3. CASE PostFails
  BY <1>3 DEF PostFails, TypeOK, RetriesLeft, NoRetries
<1>4. CASE PostAccepted
  BY <1>4, ContractTypes DEF PostAccepted, TypeOK, RetriesLeft, NoRetries, Allottable
<1>5. CASE PostRejected
  BY <1>5 DEF PostRejected, TypeOK, RetriesLeft, NoRetries, NextRetries
<1>6. CASE Tick
  <2>1. row' \in GoodRow /\ row' \in Row
    BY <1>6, RowTickEffect DEF Tick, GoodRow
  <2>2. contract' \in Contract
    BY <1>6, ContractTypes DEF Tick, TypeOK, Allottable
  <2>3. delay' \in 0..PostDelay
    BY <1>6 DEF Tick, TypeOK
  <2> QED
    BY <1>6, <2>1, <2>2, <2>3 DEF Tick, TypeOK
<1>7. CASE UNCHANGED vars
  BY <1>7 DEF vars, TypeOK
<1> QED
  BY <1>1, <1>2, <1>3, <1>4, <1>5, <1>6, <1>7 DEF Next, Send

\* The same initially.
LEMMA RowStart == Init => RowInv
BY FirstIdAllottable, QueryIdAssumption, TimeoutAssumption, RetriesAssumption, DelayAssumption
   DEF Init, RowInv, TypeOK, GoodRow, NamesId, Row, NoRow, Lifetime, Expired, QueryId, FirstId,
       TIMEOUT_BUFFER_MULTIPLIER, Contract, NewContract, OldAge, RetriesLeft, NoRetries

\* The row, the contract and the retry budget have their types in every behaviour
\* of send_to_chain: retries_left stays in bounds, and however plain calls, carries
\* and forced shifts lead to the end of the id space, its last two ids are never used.
THEOREM TypeCorrect == Spec => []TypeOK
<1>1. RowInv => TypeOK
  BY DEF RowInv
<1> QED
  BY RowStart, RowStep, <1>1, PTL DEF Spec

\* While a row lives, next() allots larger and larger ids, whatever mix of plain and
\* forced calls there is: no id is allotted twice in an epoch.
THEOREM IdsGrow == Spec => IdsGrowInEpoch
<1>1. RowInv /\ [Next]_vars =>
        [row.ttl >= 0 /\ phase = "next" /\ phase' = "post"
            => query_id(qid') > query_id(row)]_vars
  <2> SUFFICES ASSUME RowInv, Next, row.ttl >= 0, phase = "next", phase' = "post"
               PROVE  query_id(qid') > query_id(row)
    BY DEF RowInv
  <2>1. Allot
    BY DEF Next, Send, AllotFails, PostFails, PostAccepted, PostRejected, Tick
  <2> QED
    BY <2>1, AllotLive
<1> QED
  BY RowStart, RowStep, <1>1, PTL DEF Spec, IdsGrowInEpoch

-----------------------------------------------------------------------------
(* The id that starts an epoch. *)

\* The time since FirstId was stored, up to Lifetime + 1.
Epoch == Lifetime - row.ttl

\* As long as the contract remembers FirstId among the current queries it has not been
\* cleaned since FirstId was accepted, which was late ticks after it was stored.
InQueries ==
    FirstId \in contract.queries =>
        contract.age >= Epoch - late \/ contract.age = OldAge

\* FirstId moved to the old queries in a cleaning that happened at most 2 * Timeout
\* after it was accepted: a later one would have dropped it.
InOldQueries ==
    FirstId \in contract.old_queries =>
        contract.age >= Epoch - late - 2 * Timeout \/ contract.age = OldAge

\* What is left of the last FirstId while the next one is on its way.
Posting ==
    phase = "post" /\ qid = FirstId =>
        /\ Epoch <= delay
        /\ FirstId \in contract.queries =>
              contract.age >= 3 * Timeout + 1 - late + delay \/ contract.age = OldAge
        /\ FirstId \in contract.old_queries =>
              contract.age >= Timeout + 1 - late + delay \/ contract.age = OldAge

Waiting == phase = "next" => delay = 0

ResetInv == RowInv /\ InQueries /\ InOldQueries /\ Posting /\ Waiting

\* A contract that remembers FirstId for that long no longer refuses it.
LEMMA ForgottenInTime ==
    ASSUME ResetInv, phase = "post", qid = FirstId, delay >= late
    PROVE  ~Rejects(contract, FirstId)
<1>1. /\ contract.age \in 0..(2 * Timeout + 1)
      /\ Timeout \in Nat \ {0}
      /\ OldAge = 2 * Timeout + 1
      /\ late \in Nat /\ delay \in Nat
  BY TimeoutAssumption, DelayAssumption DEF ResetInv, RowInv, TypeOK, Contract, OldAge
<1>2. FirstId \in contract.queries => contract.age > 2 * Timeout
  BY <1>1 DEF ResetInv, Posting
<1>3. FirstId \in contract.old_queries => contract.age > Timeout
  BY <1>1 DEF ResetInv, Posting
<1>4. CASE contract.age > 2 * Timeout
  BY <1>1, <1>4 DEF Rejects, Clean
<1>5. CASE ~(contract.age > 2 * Timeout) /\ contract.age > Timeout
  BY <1>1, <1>2, <1>5 DEF Rejects, Clean
<1>6. CASE ~(contract.age > Timeout)
  BY <1>1, <1>2, <1>3, <1>6 DEF Rejects, Clean
<1> QED
  BY <1>4, <1>5, <1>6

\* Every step keeps the age of the contract in step with the age of the epoch, but
\* for the delay with which FirstId was accepted.
LEMMA ResetStep == ResetInv /\ [Next]_vars => ResetInv'
<1> SUFFICES ASSUME ResetInv, [Next]_vars
             PROVE  ResetInv'
  OBVIOUS
<1>r. RowInv /\ RowInv'
  BY RowStep DEF ResetInv
<1>t. /\ row.ttl \in -1..(3 * Timeout)
      /\ contract.age \in 0..(2 * Timeout + 1)
      /\ Timeout \in Nat \ {0}
      /\ Lifetime = 3 * Timeout
      /\ OldAge = 2 * Timeout + 1
      /\ delay \in Nat /\ late \in Nat
      /\ phase \in {"next", "post"}
  BY <1>r, TimeoutAssumption, DelayAssumption
     DEF RowInv, TypeOK, Row, Contract, OldAge, Lifetime, Expired, TIMEOUT_BUFFER_MULTIPLIER
<1>1. CASE Allot
  <2>1. contract' = contract /\ late' = late /\ delay' = 0 /\ phase' = "post"
    BY <1>1 DEF Allot, ResetInv, Waiting
  <2>2. CASE row.ttl >= 0
    <3>1. row'.ttl = row.ttl /\ qid' # FirstId
      BY <1>1, <1>r, <2>2, AllotLive
    <3> QED
      BY <1>r, <2>1, <3>1 DEF ResetInv, InQueries, InOldQueries, Posting, Waiting, Epoch
  <2>3. CASE ~(row.ttl >= 0)
    <3>1. row'.ttl = Lifetime /\ qid' = FirstId
      BY <1>1, <1>r, <2>3, AllotExpired
    <3>2. InQueries' /\ InOldQueries'
      BY <1>t, <2>1, <3>1 DEF InQueries, InOldQueries, Epoch
    <3>3. Epoch = 3 * Timeout + 1
      BY <1>t, <2>3 DEF Epoch
    <3>4. Posting'
      BY <1>t, <2>1, <3>1, <3>3 DEF ResetInv, InQueries, InOldQueries, Posting, Epoch
    <3> QED
      BY <1>r, <2>1, <3>2, <3>4 DEF ResetInv, Waiting
  <2> QED
    BY <2>2, <2>3
<1>2. CASE AllotFails
  BY <1>2, <1>r DEF AllotFails, ResetInv, InQueries, InOldQueries, Posting, Waiting, Epoch
<1>3. CASE PostFails
  BY <1>3, <1>r DEF PostFails, ResetInv, InQueries, InOldQueries, Posting, Waiting, Epoch
<1>4. CASE PostAccepted
  <2>1. /\ row' = row
        /\ phase' = "next" /\ delay' = 0
        /\ phase = "post"
        /\ late' = IF qid = FirstId THEN delay ELSE late
        /\ contract' = Accept(contract, qid)
        /\ ~Rejects(contract, qid)
    BY <1>4 DEF PostAccepted
  <2>2. /\ contract'.queries = Clean(contract).queries \cup {qid}
        /\ contract'.old_queries = Clean(contract).old_queries
        /\ contract'.age = Clean(contract).age
    BY <2>1 DEF Accept, Clean
  <2>3. contract'.age \in Nat
    BY <1>t, <2>2 DEF Clean
  <2>4. InQueries' /\ InOldQueries'
    <3>1. CASE qid = FirstId
      <4>1. Epoch' <= late'
        BY <2>1, <3>1 DEF ResetInv, Posting, Epoch
      <4>2. Epoch' \in Int /\ late' \in Nat
        BY <1>t, <2>1 DEF Epoch
      <4> QED
        BY <1>t, <2>3, <4>1, <4>2 DEF InQueries, InOldQueries
    <3>2. CASE qid # FirstId
      <4>1. Epoch' = Epoch /\ Epoch \in Int /\ late' = late
        BY <1>t, <2>1, <3>2 DEF Epoch
      <4>2. InQueries'
        BY <1>t, <2>1, <2>2, <3>2, <4>1 DEF ResetInv, InQueries, Clean
      <4>3. InOldQueries'
        BY <1>t, <2>1, <2>2, <3>2, <4>1 DEF ResetInv, InQueries, InOldQueries, Clean
      <4> QED
        BY <4>2, <4>3
    <3> QED
      BY <3>1, <3>2
  <2> QED
    BY <1>r, <2>1, <2>4 DEF ResetInv, Posting, Waiting
<1>5. CASE PostRejected
  BY <1>5, <1>r DEF PostRejected, ResetInv, InQueries, InOldQueries, Posting, Waiting, Epoch
<1>6. CASE Tick
  <2>1. /\ phase' = phase /\ qid' = qid /\ late' = late
        /\ phase = "next" => delay' = 0
        /\ phase = "post" => delay' = delay + 1
    BY <1>6 DEF Tick
  <2>2. /\ row'.ttl = IF row.ttl > -1 THEN row.ttl - 1 ELSE row.ttl
        /\ contract'.queries = contract.queries
        /\ contract'.old_queries = contract.old_queries
        /\ contract'.age = IF contract.age < OldAge THEN contract.age + 1 ELSE contract.age
    BY <1>6, <1>r, RowTickEffect DEF Tick, ContractTick, RowInv, TypeOK, Contract
  <2>3. InQueries' /\ InOldQueries'
    BY <1>t, <2>1, <2>2 DEF ResetInv, InQueries, InOldQueries, Epoch
  <2>4. Posting'
    BY <1>t, <2>1, <2>2 DEF ResetInv, Posting, Epoch
  <2> QED
    BY <1>r, <2>1, <2>3, <2>4 DEF ResetInv, Waiting
<1>7. CASE UNCHANGED vars
  BY <1>7, <1>r DEF vars, ResetInv, InQueries, InOldQueries, Posting, Waiting, Epoch
<1> QED
  BY <1>1, <1>2, <1>3, <1>4, <1>5, <1>6, <1>7 DEF Next, Send

\* The id 0 that next() hands out when a row has expired is accepted by the wallet
\* contract if it takes at least as long to get there as the last one that was
\* accepted: a row lives 3 * Timeout, and however the contract's own cleaning falls it
\* has forgotten the id by then.  No bound is set on the delay.
THEOREM ResetAccepted == Spec => []ResetIdAccepted
<1>1. Init => ResetInv
  <2> SUFFICES ASSUME Init PROVE ResetInv
    OBVIOUS
  <2>1. contract.queries = {} /\ contract.old_queries = {} /\ phase = "next" /\ delay = 0
    BY DEF Init, NewContract
  <2> QED
    BY <2>1, RowStart DEF ResetInv, InQueries, InOldQueries, Posting, Waiting
<1>2. ResetInv /\ [Next]_vars => ResetInv'
  BY ResetStep
<1>3. ResetInv => ResetIdAccepted
  BY ForgottenInTime DEF ResetIdAccepted
<1> QED
  BY <1>1, <1>2, <1>3, PTL DEF Spec

=============================================================================
