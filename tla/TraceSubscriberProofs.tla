----------------------- MODULE TraceSubscriberProofs -----------------------
(***************************************************************************)
(* Proofs about TraceSubscriber, for any number of accounts and traces.    *)
(* What is published is complete and no cursor runs ahead of the indexer,  *)
(* whatever fails; without errors of the database and without restarts, a  *)
(* recorded trace is published, and no cursor passes a trace that nobody   *)
(* has recorded unless an answer was cut off.                              *)
(***************************************************************************)
EXTENDS TraceSubscriber, WellFoundedInduction, TLAPS

-----------------------------------------------------------------------------
(* The largest end_lt of an answer. *)

\* A set of numbers that is not empty has a least element.
LEMMA LeastElement ==
    ASSUME NEW T \in SUBSET Nat, T # {}
    PROVE  \E x \in T : \A y \in T : x <= y
<1> DEFINE R == {ss \in Nat \X Nat : ss[1] < ss[2]}
<1>1. IsWellFoundedOn(R, Nat)
  BY NatLessThanWellFounded DEF OpToRel
<1>2. PICK x \in T : \A y \in T : <<y, x>> \notin R
  <2> HIDE DEF R
  <2> QED
    BY <1>1, WFMin
<1>3. ASSUME NEW y \in T
      PROVE  x <= y
  <2>1. <<y, x>> \notin R
    BY <1>2
  <2> QED
    BY <2>1
<1> QED
  BY <1>3

\* Max, which poll_account takes over the end_lt of the traces it was given, is one
\* of them and no other is larger.
LEMMA MaxOfTimes ==
    ASSUME NEW S \in SUBSET (0..MaxLt), S # {}
    PROVE  /\ Max(S) \in S
           /\ \A y \in S : y <= Max(S)
<1> USE SubscriberAssumption
<1> DEFINE T == {k \in Nat : \E x \in S : k = MaxLt - x}
<1>1. PICK k \in T : \A j \in T : k <= j
  <2>1. PICK x \in S : TRUE
    OBVIOUS
  <2>2. MaxLt - x \in T
    OBVIOUS
  <2> QED
    BY <2>2, LeastElement
<1>2. PICK x \in S : k = MaxLt - x
  OBVIOUS
<1>3. ASSUME NEW y \in S
      PROVE  x >= y
  <2>1. MaxLt - y \in T
    OBVIOUS
  <2>2. MaxLt - x <= MaxLt - y
    BY <1>1, <1>2, <2>1
  <2>3. x \in Int /\ y \in Int
    OBVIOUS
  <2> QED
    BY <2>2, <2>3
<1> QED
  BY <1>3 DEF Max

\* Whatever page of an answer arrives, it holds only traces that were asked for, and
\* all of them when they fit.
LEMMA PageOf ==
    ASSUME NEW S, NEW P \in Pages(S)
    PROVE  /\ P \subseteq S
           /\ Cardinality(S) <= PageLimit => P = S
BY DEF Pages

\* What Fetch does: the batch holds the traces of one page as they are now, and the
\* cursor moves on to the end_lt of one of them, which no other exceeds.
LEMMA FetchEffect ==
    ASSUME TypeOK, NEW a \in Account, Fetch(a)
    PROVE  \E P \in Pages(Matching(a, latest_lt[a])) :
              /\ P \subseteq Matching(a, latest_lt[a])
              /\ batch' = [batch EXCEPT ![a] = {SnapshotOf(t) : t \in P}]
              /\ latest_lt' = [latest_lt EXCEPT ![a] = latest_lt'[a]]
              /\ \E t \in P : onchain[t].lt = latest_lt'[a]
              /\ \A t \in P : onchain[t].lt <= latest_lt'[a]
<1>1. PICK P \in Pages(Matching(a, latest_lt[a])) :
         /\ P # {}
         /\ batch' = [batch EXCEPT ![a] = {SnapshotOf(t) : t \in P}]
         /\ latest_lt' = [latest_lt EXCEPT ![a] = Max({onchain[t].lt : t \in P})]
  BY DEF Fetch
<1>2. P \subseteq Matching(a, latest_lt[a])
  BY PageOf
<1>3. P \subseteq Trace
  BY <1>2 DEF Matching
<1> DEFINE S == {onchain[t].lt : t \in P}
<1>4. S \in SUBSET (0..MaxLt) /\ S # {}
  BY <1>1, <1>3 DEF TypeOK, Seen
<1>5. Max(S) \in S /\ \A y \in S : y <= Max(S)
  BY <1>4, MaxOfTimes
<1>6. latest_lt'[a] = Max(S)
  BY <1>1 DEF TypeOK
<1> QED
  BY <1>1, <1>2, <1>5, <1>6

-----------------------------------------------------------------------------
(* Types. *)

\* The retry poller only has traces in hand whose row has retries left, each of them
\* once: nobody else takes retries away, so decrease_retry never goes below zero.
RetriesLeft ==
    /\ asked # {} => pc[Retry] = "fetch"
    /\ \A t \in asked : rows[t].retries > 0
    /\ \A s \in batch[Retry] : rows[s.trace].retries > 0
    /\ \A s, u \in batch[Retry] : s.trace = u.trace => s = u

TypeInv == TypeOK /\ RetriesLeft

\* Every step of the indexer, of the pollers and of a restart keeps the variables
\* within their types.
LEMMA TypeStep == TypeInv /\ [Next]_vars => TypeInv'
<1> SUFFICES ASSUME TypeInv, [Next]_vars
             PROVE  TypeInv'
  OBVIOUS
<1> USE SubscriberAssumption DEF TypeInv, TypeOK, Poller
<1>1. ASSUME NEW t \in Trace, Appear(t)
      PROVE  TypeInv'
  <2>1. onchain' \in [Trace -> Seen]
    BY <1>1 DEF Appear, Seen, Stage
  <2> QED
    BY <1>1, <2>1 DEF Appear, dbVars, pollerVars, RetriesLeft
<1>2. ASSUME NEW t \in Trace, Complete(t)
      PROVE  TypeInv'
  <2>1. onchain' \in [Trace -> Seen]
    BY <1>2 DEF Complete, Seen, Stage
  <2> QED
    BY <1>2, <2>1 DEF Complete, dbVars, pollerVars, RetriesLeft
<1>3. ASSUME NEW a \in Account, Fetch(a)
      PROVE  TypeInv'
  <2>1. PICK P \in Pages(Matching(a, latest_lt[a])) :
           /\ P \subseteq Matching(a, latest_lt[a])
           /\ batch' = [batch EXCEPT ![a] = {SnapshotOf(t) : t \in P}]
           /\ latest_lt' = [latest_lt EXCEPT ![a] = latest_lt'[a]]
           /\ \E t \in P : onchain[t].lt = latest_lt'[a]
    BY <1>3, FetchEffect
  <2>2. {SnapshotOf(t) : t \in P} \in SUBSET Snapshot
    BY <2>1 DEF Matching, SnapshotOf, Snapshot
  <2>3. latest_lt'[a] \in -1..MaxLt
    BY <2>1 DEF Matching, Seen
  <2>4. latest_lt' \in [Account -> -1..MaxLt]
    BY <2>1, <2>3
  <2>5. batch' \in [Poller -> SUBSET Snapshot] /\ batch'[Retry] = batch[Retry]
    BY <2>1, <2>2
  <2> QED
    BY <1>3, <2>4, <2>5 DEF Fetch, dbVars, RetriesLeft
<1>4. ASSUME NEW a \in Account, StoreHeight(a)
      PROVE  TypeInv'
  BY <1>4 DEF StoreHeight, RetriesLeft
<1>5. CASE FetchRetry
  <2>1. asked' \subseteq Retriable
    BY <1>5, PageOf DEF FetchRetry
  <2> QED
    BY <1>5, <2>1 DEF FetchRetry, Retriable, dbVars, RetriesLeft
<1>6. CASE FetchAsked
  <2>1. {SnapshotOf(t) : t \in asked} \in SUBSET Snapshot
    BY DEF SnapshotOf, Snapshot
  <2>2. TypeOK'
    BY <1>6, <2>1 DEF FetchAsked, dbVars
  <2>3. batch'[Retry] = {SnapshotOf(t) : t \in asked}
    BY <1>6 DEF FetchAsked
  <2>4. RetriesLeft'
    BY <1>6, <2>3 DEF FetchAsked, dbVars, RetriesLeft, SnapshotOf
  <2> QED
    BY <2>2, <2>4
<1>7. ASSUME NEW s \in batch[Retry], DecreaseRetry(s)
      PROVE  TypeInv'
  <2>1. s.trace \in Trace /\ rows[s.trace].retries > 0
    BY DEF RetriesLeft, Snapshot
  <2>2. rows' \in [Trace -> [seen : Seen, retries : 0..RETRIES]]
    <3>1. rows[s.trace].retries - 1 \in 0..RETRIES
      BY <2>1
    <3>2. rows' = [rows EXCEPT ![s.trace].retries = rows[s.trace].retries - 1]
      BY <1>7 DEF DecreaseRetry
    <3> QED
      BY <2>1, <3>1, <3>2
  <2>3. \A u \in batch'[Retry] : u.trace \in Trace /\ u.trace # s.trace
    BY <1>7 DEF DecreaseRetry, RetriesLeft, Snapshot
  <2>4. asked = {}
    BY <1>7 DEF DecreaseRetry, RetriesLeft
  <2> QED
    BY <1>7, <2>2, <2>3, <2>4 DEF DecreaseRetry, RetriesLeft
<1>8. ASSUME NEW x \in Poller, NEW s \in batch[x], Upsert(x, s)
      PROVE  TypeInv'
  <2>1. s.trace \in Trace /\ s.seen \in Seen
    BY DEF Snapshot
  <2>2. /\ rows' \in [Trace -> [seen : Seen, retries : 0..RETRIES]]
        /\ \A t \in Trace : rows'[t].retries = rows[t].retries
    BY <1>8, <2>1 DEF Upsert
  <2>3. unseen' \in [Poller -> SUBSET Trace]
    BY <1>8, <2>1 DEF Upsert
  <2>4. batch' \in [Poller -> SUBSET Snapshot] /\ batch'[Retry] \subseteq batch[Retry]
    BY <1>8 DEF Upsert
  <2>5. \A u \in batch[Retry] : u.trace \in Trace
    BY DEF Snapshot
  <2> QED
    BY <1>8, <2>2, <2>3, <2>4, <2>5 DEF Upsert, RetriesLeft
<1>9. ASSUME NEW x \in Poller, EndLoop(x)
      PROVE  TypeInv'
  BY <1>9 DEF EndLoop, dbVars, RetriesLeft
<1>10. ASSUME NEW x \in Poller, NEW t \in unseen[x], Publish(x, t)
       PROVE  TypeInv'
  BY <1>10 DEF Publish, dbVars, RetriesLeft
<1>11. ASSUME NEW x \in Poller, UpsertError(x)
       PROVE  TypeInv'
  BY <1>11 DEF UpsertError, dbVars, RetriesLeft
<1>12. CASE Restart
  BY <1>12 DEF Restart, dbVars, RetriesLeft
<1>13. CASE UNCHANGED vars
  BY <1>13 DEF vars, dbVars, pollerVars, RetriesLeft
<1> QED
  BY <1>1, <1>2, <1>3, <1>4, <1>5, <1>6, <1>7, <1>8, <1>9, <1>10, <1>11, <1>12, <1>13
     DEF Next, AccountPoll, RetryPoll, Loop

\* Initially nothing was seen and no poller has anything in hand.
LEMMA TypeStart == Init => TypeInv
BY SubscriberAssumption
   DEF Init, TypeInv, TypeOK, RetriesLeft, Poller, Seen, Stage, NotSeen

\* The variables have their types in every behaviour of the pollers; in particular
\* decrease_retry is called at most RETRIES times for a row.
THEOREM TypeCorrect == Spec => []TypeOK
<1>1. TypeInv => TypeOK
  BY DEF TypeInv
<1> QED
  BY TypeStart, TypeStep, <1>1, PTL DEF Spec

-----------------------------------------------------------------------------
(* What only grows. *)

\* What the indexer shows of a trace changes in one direction: a complete trace
\* stays complete and an end_lt never falls.
LEMMA IndexerGrows ==
    ASSUME TypeOK, [Next]_vars, NEW t \in Trace
    PROVE  /\ onchain[t].stage = "complete" => onchain'[t].stage = "complete"
           /\ onchain[t].lt <= onchain'[t].lt
<1> USE SubscriberAssumption DEF TypeOK, Seen
<1>1. ASSUME NEW u \in Trace, Appear(u)
      PROVE  /\ onchain[t].stage = "complete" => onchain'[t].stage = "complete"
             /\ onchain[t].lt <= onchain'[t].lt
  BY <1>1 DEF Appear
<1>2. ASSUME NEW u \in Trace, Complete(u)
      PROVE  /\ onchain[t].stage = "complete" => onchain'[t].stage = "complete"
             /\ onchain[t].lt <= onchain'[t].lt
  BY <1>2 DEF Complete
<1>3. ASSUME UNCHANGED onchain
      PROVE  /\ onchain[t].stage = "complete" => onchain'[t].stage = "complete"
             /\ onchain[t].lt <= onchain'[t].lt
  BY <1>3
<1> QED
  BY <1>1, <1>2, <1>3
     DEF Next, AccountPoll, RetryPoll, Loop, Fetch, StoreHeight, FetchRetry, FetchAsked,
         DecreaseRetry, Upsert, EndLoop, Publish, UpsertError, Restart, vars

-----------------------------------------------------------------------------
(* What is published is complete. *)

\* A poller has a trace in hand as complete, or is about to publish it, only if the
\* indexer has shown it complete.
InHandIsComplete ==
    \A x \in Poller :
        /\ \A s \in batch[x] :
              s.seen.stage = "complete" => onchain[s.trace].stage = "complete"
        /\ \A t \in unseen[x] : onchain[t].stage = "complete"

CompleteInv == InHandIsComplete /\ PublishedIsComplete

\* Every step keeps to what the indexer has shown.
LEMMA CompleteStep == TypeInv /\ CompleteInv /\ [Next]_vars => CompleteInv'
<1> SUFFICES ASSUME TypeInv, CompleteInv, [Next]_vars
             PROVE  CompleteInv'
  OBVIOUS
<1>g. \A t \in Trace : onchain[t].stage = "complete" => onchain'[t].stage = "complete"
  BY IndexerGrows DEF TypeInv
<1>p. \A x \in Poller : \A s \in batch[x] : s.trace \in Trace
  BY DEF TypeInv, TypeOK, Snapshot
<1>u. \A x \in Poller : \A t \in unseen[x] : t \in Trace
  BY DEF TypeInv, TypeOK
<1> DEFINE Kept ==
      /\ \A x \in Poller : batch'[x] \subseteq batch[x]
      /\ \A x \in Poller : unseen'[x] \subseteq unseen[x]
      /\ UNCHANGED published
<1>k. ASSUME Kept
      PROVE  CompleteInv'
  BY <1>g, <1>p, <1>u, <1>k DEF CompleteInv, InHandIsComplete, PublishedIsComplete
<1> USE SubscriberAssumption DEF TypeInv, TypeOK, Poller
<1>1. ASSUME NEW t \in Trace, Appear(t) \/ Complete(t)
      PROVE  CompleteInv'
  BY <1>1, <1>k DEF Appear, Complete, pollerVars
<1>2. ASSUME NEW a \in Account, Fetch(a)
      PROVE  CompleteInv'
  <2>1. PICK P \in Pages(Matching(a, latest_lt[a])) :
           /\ P \subseteq Matching(a, latest_lt[a])
           /\ batch' = [batch EXCEPT ![a] = {SnapshotOf(t) : t \in P}]
    BY <1>2, FetchEffect
  <2>2. \A s \in batch'[a] : s.trace \in Trace /\ s.seen = onchain[s.trace]
    BY <2>1 DEF Matching, SnapshotOf
  <2>3. \A x \in Poller : x # a => batch'[x] = batch[x]
    BY <2>1
  <2>4. onchain' = onchain /\ unseen' = unseen /\ published' = published
    BY <1>2 DEF Fetch
  <2> HIDE DEF TypeInv, TypeOK, Poller
  <2>5. InHandIsComplete'
    BY <2>2, <2>3, <2>4 DEF CompleteInv, InHandIsComplete
  <2> QED
    BY <2>4, <2>5 DEF CompleteInv, PublishedIsComplete
<1>3. ASSUME NEW a \in Account, StoreHeight(a)
      PROVE  CompleteInv'
  BY <1>3, <1>k DEF StoreHeight
<1>4. CASE FetchRetry
  BY <1>4, <1>k DEF FetchRetry
<1>5. CASE FetchAsked
  <2>1. \A s \in batch'[Retry] : s.trace \in Trace /\ s.seen = onchain[s.trace]
    BY <1>5 DEF FetchAsked, SnapshotOf
  <2>2. \A x \in Poller : x # Retry => batch'[x] = batch[x]
    BY <1>5 DEF FetchAsked
  <2>3. onchain' = onchain /\ unseen' = unseen /\ published' = published
    BY <1>5 DEF FetchAsked
  <2> HIDE DEF TypeInv, TypeOK, Poller
  <2>4. InHandIsComplete'
    BY <2>1, <2>2, <2>3 DEF CompleteInv, InHandIsComplete
  <2> QED
    BY <2>3, <2>4 DEF CompleteInv, PublishedIsComplete
<1>6. ASSUME NEW s \in batch[Retry], DecreaseRetry(s)
      PROVE  CompleteInv'
  BY <1>6, <1>k DEF DecreaseRetry
<1>7. ASSUME NEW x \in Poller, NEW s \in batch[x], Upsert(x, s)
      PROVE  CompleteInv'
  <2>1. \A y \in Poller : batch'[y] \subseteq batch[y]
    BY <1>7 DEF Upsert
  <2>2. \A y \in Poller : \A t \in unseen'[y] :
           t \in unseen[y] \/ (t = s.trace /\ s.seen.stage = "complete")
    BY <1>7 DEF Upsert, HandsOn
  <2>3. onchain' = onchain /\ published' = published
    BY <1>7 DEF Upsert
  <2> HIDE DEF TypeInv, TypeOK, Poller
  <2>4. InHandIsComplete'
    BY <2>1, <2>2, <2>3 DEF CompleteInv, InHandIsComplete
  <2> QED
    BY <2>3, <2>4 DEF CompleteInv, PublishedIsComplete
<1>8. ASSUME NEW x \in Poller, EndLoop(x)
      PROVE  CompleteInv'
  BY <1>8, <1>k DEF EndLoop
<1>9. ASSUME NEW x \in Poller, NEW t \in unseen[x], Publish(x, t)
      PROVE  CompleteInv'
  <2>1. onchain[t].stage = "complete"
    BY DEF CompleteInv, InHandIsComplete
  <2>2. InHandIsComplete'
    BY <1>9 DEF Publish, CompleteInv, InHandIsComplete
  <2>3. PublishedIsComplete'
    BY <1>9, <2>1 DEF Publish, CompleteInv, PublishedIsComplete
  <2> QED
    BY <2>2, <2>3 DEF CompleteInv
<1>10. ASSUME NEW x \in Poller, UpsertError(x)
       PROVE  CompleteInv'
  BY <1>10, <1>k DEF UpsertError
<1>11. CASE Restart
  BY <1>11, <1>k DEF Restart
<1>12. CASE UNCHANGED vars
  BY <1>12, <1>k DEF vars, pollerVars
<1> QED
  BY <1>1, <1>2, <1>3, <1>4, <1>5, <1>6, <1>7, <1>8, <1>9, <1>10, <1>11, <1>12
     DEF Next, AccountPoll, RetryPoll, Loop

\* Whatever fails and in whatever order the answers of the indexer arrive, only
\* traces that are complete are published.
THEOREM OnlyCompletePublished == Spec => []PublishedIsComplete
<1>1. Init => CompleteInv
  BY DEF Init, CompleteInv, InHandIsComplete, PublishedIsComplete
<1>2. CompleteInv => PublishedIsComplete
  BY DEF CompleteInv
<1> QED
  BY TypeStart, TypeStep, CompleteStep, <1>1, <1>2, PTL DEF Spec

-----------------------------------------------------------------------------
(* The cursors. *)

\* Every step keeps the stored cursor behind the one in memory, and that one behind
\* what the indexer has shown.
LEMMA CursorStep == TypeInv /\ CursorNeverAhead /\ [Next]_vars => CursorNeverAhead'
<1> SUFFICES ASSUME TypeInv, CursorNeverAhead, [Next]_vars, NEW a \in Account
             PROVE  /\ height'[a] <= latest_lt'[a]
                    /\ latest_lt'[a] # -1 =>
                          \E t \in Trace : a \in AccountsOf[t] /\ onchain'[t].lt >= latest_lt'[a]
  BY DEF CursorNeverAhead
<1> DEFINE Goal ==
      /\ height'[a] <= latest_lt'[a]
      /\ latest_lt'[a] # -1 =>
            \E t \in Trace : a \in AccountsOf[t] /\ onchain'[t].lt >= latest_lt'[a]
<1> SUFFICES Goal
  OBVIOUS
<1>t. TypeOK /\ TypeOK'
  BY TypeStep DEF TypeInv
<1>g. \A t \in Trace : onchain[t].lt <= onchain'[t].lt
  BY <1>t, IndexerGrows
<1>n. /\ height[a] \in Int /\ latest_lt[a] \in Int /\ height[a] >= -1
      /\ \A t \in Trace : onchain[t].lt \in Int /\ onchain'[t].lt \in Int
  BY <1>t, SubscriberAssumption DEF TypeOK, Seen
<1>i. /\ height[a] <= latest_lt[a]
      /\ latest_lt[a] # -1 =>
            \E t \in Trace : a \in AccountsOf[t] /\ onchain[t].lt >= latest_lt[a]
  BY DEF CursorNeverAhead
<1>k. ASSUME latest_lt'[a] = latest_lt[a], height'[a] \in {height[a], latest_lt[a]}
      PROVE  Goal
  BY <1>g, <1>n, <1>i, <1>k
<1>1. ASSUME NEW b \in Account, Fetch(b)
      PROVE  Goal
  <2>1. height' = height
    BY <1>1 DEF Fetch, dbVars
  <2>2. PICK P \in Pages(Matching(b, latest_lt[b])) :
           /\ P \subseteq Matching(b, latest_lt[b])
           /\ latest_lt' = [latest_lt EXCEPT ![b] = latest_lt'[b]]
           /\ \E t \in P : onchain[t].lt = latest_lt'[b]
    BY <1>1, <1>t, FetchEffect
  <2>3. CASE a # b
    BY <2>1, <2>2, <2>3, <1>k, <1>t DEF TypeOK
  <2>4. CASE a = b
    <3>1. PICK t \in P : onchain[t].lt = latest_lt'[a]
      BY <2>2, <2>4
    <3>2. t \in Trace /\ a \in AccountsOf[t] /\ onchain[t].lt >= latest_lt[a] + 1
      BY <2>2, <2>4 DEF Matching
    <3> QED
      BY <2>1, <3>1, <3>2, <1>g, <1>n, <1>i
  <2> QED
    BY <2>3, <2>4
<1>2. ASSUME NEW b \in Account, StoreHeight(b)
      PROVE  Goal
  BY <1>2, <1>k, <1>t DEF StoreHeight, TypeOK
<1>3. CASE Restart
  BY <1>3, <1>g, <1>n, <1>i DEF Restart, dbVars
<1>4. ASSUME height' = height, latest_lt' = latest_lt
      PROVE  Goal
  BY <1>4, <1>k
<1> QED
  BY <1>1, <1>2, <1>3, <1>4
     DEF Next, AccountPoll, RetryPoll, Loop, Appear, Complete, FetchRetry, FetchAsked,
         DecreaseRetry, Upsert, EndLoop, Publish, UpsertError, vars, dbVars, pollerVars

\* Whatever fails and whenever the process starts again, no cursor is ahead of what
\* the indexer has shown for the account, and the stored one not ahead of the one in
\* memory.
THEOREM CursorsBehind == Spec => []CursorNeverAhead
<1>1. Init => CursorNeverAhead
  BY DEF Init, CursorNeverAhead
<1> QED
  BY TypeStart, TypeStep, CursorStep, <1>1, PTL DEF Spec

-----------------------------------------------------------------------------
(* Without errors of the database and without restarts. *)

\* Every step keeps a trace that is recorded as complete published or about to be.
LEMMA RecordedStep ==
    ASSUME "db" \notin Faults, "crash" \notin Faults
    PROVE  TypeInv /\ RecordedIsPublished /\ [Next]_vars => RecordedIsPublished'
<1> SUFFICES ASSUME TypeInv, RecordedIsPublished, [Next]_vars
             PROVE  RecordedIsPublished'
  OBVIOUS
<1>k. ASSUME \A t \in Trace : rows'[t].seen = rows[t].seen, UNCHANGED <<unseen, published>>
      PROVE  RecordedIsPublished'
  BY <1>k DEF RecordedIsPublished
<1> USE SubscriberAssumption DEF TypeInv, TypeOK, Poller
<1>1. ASSUME UNCHANGED <<rows, unseen, published>>
      PROVE  RecordedIsPublished'
  BY <1>1, <1>k
<1>2. ASSUME NEW s \in batch[Retry], DecreaseRetry(s)
      PROVE  RecordedIsPublished'
  <2>1. \A t \in Trace : rows'[t].seen = rows[t].seen
    BY <1>2 DEF DecreaseRetry
  <2> QED
    BY <1>2, <1>k, <2>1 DEF DecreaseRetry
<1>3. ASSUME NEW x \in Poller, NEW s \in batch[x], Upsert(x, s)
      PROVE  RecordedIsPublished'
  <2> SUFFICES ASSUME NEW t \in Trace, rows'[t].seen.stage = "complete"
               PROVE  published'[t] > 0 \/ \E y \in Poller : t \in unseen'[y]
    BY DEF RecordedIsPublished
  <2>1. \A y \in Poller : unseen[y] \subseteq unseen'[y]
    BY <1>3 DEF Upsert
  <2>2. published' = published
    BY <1>3 DEF Upsert
  <2>3. CASE rows[t].seen.stage = "complete"
    BY <2>1, <2>2, <2>3 DEF RecordedIsPublished
  <2>4. CASE rows[t].seen.stage # "complete"
    <3>1. s.trace = t /\ s.seen.stage = "complete" /\ rows[s.trace].seen # s.seen
      BY <1>3, <2>4 DEF Upsert
    <3>2. t \in unseen'[x]
      BY <1>3, <3>1 DEF Upsert, HandsOn, Changed
    <3> QED
      BY <3>2
  <2> QED
    BY <2>3, <2>4
<1>4. ASSUME NEW x \in Poller, NEW u \in unseen[x], Publish(x, u)
      PROVE  RecordedIsPublished'
  <2>1. u \in Trace /\ rows' = rows
    BY <1>4 DEF Publish, dbVars
  <2>2. published'[u] > 0 /\ \A t \in Trace : t # u => published'[t] = published[t]
    BY <1>4, <2>1 DEF Publish
  <2>3. \A t \in Trace, y \in Poller : t # u /\ t \in unseen[y] => t \in unseen'[y]
    BY <1>4 DEF Publish
  <2> QED
    BY <2>1, <2>2, <2>3 DEF RecordedIsPublished
<1>5. ASSUME NEW x \in Poller
      PROVE  ~UpsertError(x) /\ ~Restart
  BY DEF UpsertError, Restart
<1> QED
  BY <1>1, <1>2, <1>3, <1>4, <1>5
     DEF Next, AccountPoll, RetryPoll, Loop, Appear, Complete, Fetch, StoreHeight, FetchRetry,
         FetchAsked, EndLoop, vars, dbVars, pollerVars, Restart

\* If no statement of the database fails and the process is not killed, a trace that
\* is recorded as complete is published or a poller is about to: the row that makes
\* every later poll skip the trace is written by the one that publishes it.
THEOREM RecordedPublished ==
    ASSUME "db" \notin Faults, "crash" \notin Faults
    PROVE  Spec => []RecordedIsPublished
<1>1. Init => RecordedIsPublished
  BY DEF Init, RecordedIsPublished, NotSeen
<1>2. TypeInv /\ RecordedIsPublished /\ [Next]_vars => RecordedIsPublished'
  BY RecordedStep
<1> QED
  BY TypeStart, TypeStep, <1>1, <1>2, PTL DEF Spec

\* What an account's poller has fetched was shown by the indexer, and it fetches again
\* only when it has handled all of it.
FetchedIsShown ==
    \A a \in Account :
        /\ \A s \in batch[a] : s.seen.stage # "absent"
        /\ pc[a] \notin {"store", "loop"} => batch[a] = {}

\* CursorPassesRecorded for the cursor in memory, which is what the next poll asks
\* from; the stored one follows it.
ReachedIsRecorded ==
    \A a \in Account, t \in Trace :
        /\ onchain[t].stage # "absent"
        /\ a \in AccountsOf[t]
        /\ onchain[t].lt <= latest_lt[a]
        => \/ rows[t].seen.stage # "absent"
           \/ \E s \in batch[a] : s.trace = t

\* The indexer never has more new traces of an account than one answer may hold.
NoPageIsCut ==
    \A a \in Account : Cardinality(Matching(a, latest_lt[a])) <= PageLimit

\* Every step keeps the batches of the account pollers to traces that were shown.
LEMMA FetchedStep == TypeInv /\ FetchedIsShown /\ [Next]_vars => FetchedIsShown'
<1> SUFFICES ASSUME TypeInv, FetchedIsShown, [Next]_vars
             PROVE  FetchedIsShown'
  OBVIOUS
<1> USE SubscriberAssumption DEF TypeInv, TypeOK, Poller
<1>1. ASSUME NEW b \in Account, Fetch(b)
      PROVE  FetchedIsShown'
  <2>1. PICK P \in Pages(Matching(b, latest_lt[b])) :
           /\ P \subseteq Matching(b, latest_lt[b])
           /\ batch' = [batch EXCEPT ![b] = {SnapshotOf(t) : t \in P}]
    BY <1>1, FetchEffect
  <2>2. \A s \in batch'[b] : s.seen.stage # "absent"
    BY <2>1 DEF Matching, SnapshotOf
  <2>3. \A a \in Account : a # b => batch'[a] = batch[a] /\ pc'[a] = pc[a]
    BY <1>1, <2>1 DEF Fetch
  <2>4. pc'[b] = "store"
    BY <1>1 DEF Fetch
  <2> HIDE DEF TypeInv, TypeOK, Poller
  <2> QED
    BY <2>2, <2>3, <2>4 DEF FetchedIsShown
<1>2. ASSUME NEW b \in Account, StoreHeight(b)
      PROVE  FetchedIsShown'
  BY <1>2 DEF StoreHeight, FetchedIsShown
<1>3. CASE FetchRetry
  BY <1>3 DEF FetchRetry, FetchedIsShown
<1>4. CASE FetchAsked
  BY <1>4 DEF FetchAsked, FetchedIsShown
<1>5. ASSUME NEW s \in batch[Retry], DecreaseRetry(s)
      PROVE  FetchedIsShown'
  BY <1>5 DEF DecreaseRetry, FetchedIsShown
<1>6. ASSUME NEW x \in Poller, NEW s \in batch[x], Upsert(x, s)
      PROVE  FetchedIsShown'
  BY <1>6 DEF Upsert, FetchedIsShown
<1>7. ASSUME NEW x \in Poller, EndLoop(x)
      PROVE  FetchedIsShown'
  BY <1>7 DEF EndLoop, FetchedIsShown
<1>8. ASSUME NEW x \in Poller, NEW t \in unseen[x], Publish(x, t)
      PROVE  FetchedIsShown'
  BY <1>8 DEF Publish, FetchedIsShown
<1>9. ASSUME NEW x \in Poller, UpsertError(x)
      PROVE  FetchedIsShown'
  BY <1>9 DEF UpsertError, FetchedIsShown
<1>10. CASE Restart
  BY <1>10 DEF Restart, FetchedIsShown
<1>11. CASE UNCHANGED <<pc, batch>>
  BY <1>11 DEF FetchedIsShown
<1> QED
  BY <1>1, <1>2, <1>3, <1>4, <1>5, <1>6, <1>7, <1>8, <1>9, <1>10, <1>11
     DEF Next, AccountPoll, RetryPoll, Loop, Appear, Complete, vars, pollerVars

\* Every step keeps what a cursor has passed recorded, or in the hands of the poller
\* that moved the cursor.
LEMMA ReachedStep ==
    ASSUME "db" \notin Faults, "crash" \notin Faults
    PROVE  /\ TypeInv /\ FetchedIsShown /\ CursorNeverAhead
           /\ NoPageIsCut /\ ReachedIsRecorded /\ [Next]_vars
           => ReachedIsRecorded'
<1> SUFFICES ASSUME TypeInv, FetchedIsShown, CursorNeverAhead, NoPageIsCut,
                    ReachedIsRecorded, [Next]_vars,
                    NEW a \in Account, NEW t \in Trace,
                    onchain'[t].stage # "absent", a \in AccountsOf[t],
                    onchain'[t].lt <= latest_lt'[a]
             PROVE  \/ rows'[t].seen.stage # "absent"
                    \/ \E s \in batch'[a] : s.trace = t
  BY DEF ReachedIsRecorded
<1> DEFINE Recorded == rows[t].seen.stage # "absent" \/ \E s \in batch[a] : s.trace = t
           Goal == rows'[t].seen.stage # "absent" \/ \E s \in batch'[a] : s.trace = t
<1> SUFFICES Goal
  OBVIOUS
<1>t. TypeOK /\ TypeOK'
  BY TypeStep DEF TypeInv
<1>n. /\ latest_lt[a] \in Int
      /\ \A u \in Trace : onchain[u].lt \in Int /\ onchain'[u].lt \in Int
  BY <1>t, SubscriberAssumption DEF TypeOK, Seen
<1>g. onchain[t].lt <= onchain'[t].lt
  BY <1>t, IndexerGrows
<1>r. onchain[t].stage # "absent" /\ onchain[t].lt <= latest_lt[a] => Recorded
  BY DEF ReachedIsRecorded
<1> HIDE DEF Recorded, Goal
<1>1. ASSUME NEW u \in Trace, Appear(u)
      PROVE  Goal
  <2>1. latest_lt' = latest_lt /\ rows' = rows /\ batch' = batch
    BY <1>1 DEF Appear, dbVars, pollerVars
  <2>2. CASE u = t
    <3>1. \A v \in Trace : onchain[v].lt < onchain'[t].lt
      BY <1>1, <1>t, <2>2 DEF Appear, TypeOK
    <3>2. latest_lt[a] < onchain'[t].lt
      <4>1. onchain'[t].lt >= 1
        BY <1>1, <1>t, <2>2 DEF Appear, TypeOK
      <4>2. CASE latest_lt[a] = -1
        BY <1>n, <4>1, <4>2
      <4>3. CASE latest_lt[a] # -1
        <5>1. PICK v \in Trace : onchain[v].lt >= latest_lt[a]
          BY <4>3 DEF CursorNeverAhead
        <5> QED
          BY <1>n, <3>1, <5>1
      <4> QED
        BY <4>2, <4>3
    <3> QED
      BY <1>n, <2>1, <3>2
  <2>3. CASE u # t
    <3>1. onchain'[t] = onchain[t]
      BY <1>1, <1>t, <2>3 DEF Appear, TypeOK
    <3> QED
      BY <1>r, <2>1, <3>1 DEF Recorded, Goal
  <2> QED
    BY <2>2, <2>3
<1>2. ASSUME NEW u \in Trace, Complete(u)
      PROVE  Goal
  <2>1. latest_lt' = latest_lt /\ rows' = rows /\ batch' = batch
    BY <1>2 DEF Complete, dbVars, pollerVars
  <2>2. onchain[t].stage # "absent"
    BY <1>2, <1>t DEF Complete, TypeOK
  <2> QED
    BY <1>g, <1>n, <1>r, <2>1, <2>2 DEF Recorded, Goal
<1>3. ASSUME NEW b \in Account, Fetch(b)
      PROVE  Goal
  <2>1. PICK P \in Pages(Matching(b, latest_lt[b])) :
           /\ batch' = [batch EXCEPT ![b] = {SnapshotOf(u) : u \in P}]
           /\ latest_lt' = [latest_lt EXCEPT ![b] = latest_lt'[b]]
    BY <1>3, <1>t, FetchEffect
  <2>2. onchain' = onchain /\ rows' = rows /\ pc[b] = "idle"
    BY <1>3 DEF Fetch, dbVars
  <2>3. CASE a # b
    <3>1. batch'[a] = batch[a] /\ latest_lt'[a] = latest_lt[a]
      BY <1>t, <2>1, <2>3 DEF TypeOK, Poller
    <3> QED
      BY <1>r, <2>2, <3>1 DEF Recorded, Goal
  <2>4. CASE a = b
    <3>1. batch[a] = {}
      BY <2>2, <2>4 DEF FetchedIsShown
    <3>2. P = Matching(a, latest_lt[a])
      BY <2>4, PageOf DEF NoPageIsCut
    <3>3. batch'[a] = {SnapshotOf(u) : u \in P}
      BY <1>t, <2>1, <2>4 DEF TypeOK, Poller
    <3>4. CASE onchain[t].lt <= latest_lt[a]
      BY <1>r, <2>2, <3>1, <3>4 DEF Recorded, Goal
    <3>5. CASE onchain[t].lt >= latest_lt[a] + 1
      <4>1. t \in P
        BY <2>2, <3>2, <3>5 DEF Matching
      <4>2. SnapshotOf(t) \in batch'[a] /\ SnapshotOf(t).trace = t
        BY <3>3, <4>1 DEF SnapshotOf
      <4> QED
        BY <4>2 DEF Goal
    <3> QED
      BY <1>n, <3>4, <3>5
  <2> QED
    BY <2>3, <2>4
<1>4. ASSUME NEW s \in batch[Retry], DecreaseRetry(s)
      PROVE  Goal
  <2>1. rows'[t].seen = rows[t].seen
    BY <1>4, <1>t DEF DecreaseRetry, TypeOK
  <2>2. onchain' = onchain /\ latest_lt' = latest_lt /\ batch'[a] = batch[a]
    BY <1>4, <1>t, SubscriberAssumption DEF DecreaseRetry, TypeOK, Poller
  <2> QED
    BY <1>r, <2>1, <2>2 DEF Recorded, Goal
<1>5. ASSUME NEW x \in Poller, NEW s \in batch[x], Upsert(x, s)
      PROVE  Goal
  <2>1. onchain' = onchain /\ latest_lt' = latest_lt
    BY <1>5 DEF Upsert
  <2>2. s.seen.stage # "absent"
    BY <1>5 DEF Upsert, Upserts, FetchedIsShown, Poller
  <2>3. rows'[t].seen = IF s.trace = t THEN s.seen ELSE rows[t].seen
    BY <1>5, <1>t DEF Upsert, TypeOK
  <2>4. \A u \in batch[a] : u.trace = t => u = s \/ u \in batch'[a]
    BY <1>5, <1>t DEF Upsert, TypeOK, Poller
  <2> QED
    BY <1>r, <2>1, <2>2, <2>3, <2>4 DEF Recorded, Goal
<1>6. CASE FetchAsked
  <2>1. batch'[a] = batch[a]
    BY <1>6, <1>t, SubscriberAssumption DEF FetchAsked, TypeOK, Poller
  <2> QED
    BY <1>6, <1>r, <2>1 DEF FetchAsked, dbVars, Recorded, Goal
<1>7. ASSUME UNCHANGED <<onchain, rows, latest_lt, batch>>
      PROVE  Goal
  BY <1>7, <1>r DEF Recorded, Goal
<1>8. ASSUME NEW x \in Poller
      PROVE  ~UpsertError(x) /\ ~Restart
  BY DEF UpsertError, Restart
<1> QED
  BY <1>1, <1>2, <1>3, <1>4, <1>5, <1>6, <1>7, <1>8
     DEF Next, AccountPoll, RetryPoll, Loop, StoreHeight, FetchRetry, EndLoop, Publish,
         Restart, vars, dbVars, pollerVars, Poller

\* If no statement of the database fails, the process is not killed and no answer of
\* the indexer is cut off at its limit, no stored cursor passes a trace that is
\* neither recorded nor in the hands of the account's poller.
THEOREM PassedIsRecorded ==
    ASSUME "db" \notin Faults, "crash" \notin Faults
    PROVE  Spec /\ []NoPageIsCut => []CursorPassesRecorded
<1>1. Init => FetchedIsShown /\ CursorNeverAhead /\ ReachedIsRecorded
  BY DEF Init, FetchedIsShown, CursorNeverAhead, ReachedIsRecorded, NotSeen, Poller
<1>2. /\ TypeInv /\ FetchedIsShown /\ CursorNeverAhead
      /\ NoPageIsCut /\ ReachedIsRecorded /\ [Next]_vars
      => ReachedIsRecorded'
  BY ReachedStep
<1>3. TypeInv /\ CursorNeverAhead /\ ReachedIsRecorded => CursorPassesRecorded
  <2> SUFFICES ASSUME TypeInv, CursorNeverAhead, ReachedIsRecorded,
                      NEW a \in Account, NEW t \in Trace, onchain[t].lt <= height[a]
               PROVE  onchain[t].lt <= latest_lt[a]
    BY DEF ReachedIsRecorded, CursorPassesRecorded
  <2>1. onchain[t].lt \in Int /\ height[a] \in Int /\ latest_lt[a] \in Int
    BY SubscriberAssumption DEF TypeInv, TypeOK, Seen
  <2> QED
    BY <2>1 DEF CursorNeverAhead
<1> QED
  BY TypeStart, TypeStep, FetchedStep, CursorStep, <1>1, <1>2, <1>3, PTL DEF Spec

=============================================================================
