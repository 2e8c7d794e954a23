-------------------------- MODULE TraceSubscriber --------------------------
(***************************************************************************)
(* The subscriber process: one TONSubscriber per watched account and one   *)
(* RetryTONSubscriber.  All of them read traces from the indexer, record   *)
(* them in the table ton_traces, and hand on the ones that changed and are *)
(* complete, which relayer_core's Subscriber then publishes to the events  *)
(* queue.                                                                  *)
(*                                                                         *)
(* A trace is reduced to whether it is complete and to its end_lt.  The    *)
(* indexer and the publishing loop are external.                           *)
(***************************************************************************)
EXTENDS Integers, FiniteSets, FiniteSetsExt

CONSTANTS
    Account,     \* the watched accounts
    Trace,
    AccountsOf,  \* the watched accounts a trace touches
    Retry,       \* the retry poller
    MaxLt,       \* bound on logical time
    RETRIES,     \* retries of a new row, 10 in the code
    PageLimit,   \* traces in one answer of the indexer, 100 in the code
    Faults       \* what may go wrong: "store", "db", "crash"

ASSUME SubscriberAssumption ==
    /\ Retry \notin Account
    /\ AccountsOf \in [Trace -> SUBSET Account]
    /\ MaxLt \in Nat
    /\ RETRIES \in Nat
    /\ PageLimit \in Nat \ {0}
    /\ Faults \subseteq {"store", "db", "crash"}

Poller == Account \cup {Retry}

VARIABLES
    onchain,    \* what the indexer shows of a trace (external)
    rows,       \* the table ton_traces
    height,     \* the stored cursor of an account
    latest_lt,  \* its cursor in memory
    pc,         \* the step of a poller
    asked,      \* traces the retry poller asks the indexer for
    batch,      \* traces of the indexer's answer that are still to be handled
    unseen,     \* unseen_traces: traces to publish at the end of the poll
    published   \* how often a trace was published

dbVars == <<rows, height>>
pollerVars == <<latest_lt, pc, asked, batch, unseen>>
vars == <<onchain, dbVars, pollerVars, published>>

Stage == {"absent", "incomplete", "complete"}
Seen == [stage : Stage, lt : 0..MaxLt]
NotSeen == [stage |-> "absent", lt |-> 0]
Snapshot == [trace : Trace, seen : Seen]

TypeOK ==
    /\ onchain \in [Trace -> Seen]
    /\ rows \in [Trace -> [seen : Seen, retries : 0..RETRIES]]
    /\ height \in [Account -> -1..MaxLt]
    /\ latest_lt \in [Account -> -1..MaxLt]
    /\ pc \in [Poller -> {"idle", "store", "fetch", "loop", "publish"}]
    /\ asked \subseteq Trace
    /\ batch \in [Poller -> SUBSET Snapshot]
    /\ unseen \in [Poller -> SUBSET Trace]
    /\ published \in [Trace -> Nat]

Init ==
    /\ onchain = [t \in Trace |-> NotSeen]
    /\ rows = [t \in Trace |-> [seen |-> NotSeen, retries |-> RETRIES]]
    /\ height = [a \in Account |-> -1]
    /\ latest_lt = [a \in Account |-> -1]
    /\ pc = [x \in Poller |-> "idle"]
    /\ asked = {}
    /\ batch = [x \in Poller |-> {}]
    /\ unseen = [x \in Poller |-> {}]
    /\ published = [t \in Trace |-> 0]

-----------------------------------------------------------------------------
(* The indexer.                                                            *)

\* A new trace shows up, with an end_lt beyond every trace shown before.
Appear(t) ==
    /\ onchain[t].stage = "absent"
    /\ \E s \in {"incomplete", "complete"}, l \in 1..MaxLt :
          /\ \A u \in Trace : onchain[u].lt < l
          /\ onchain' = [onchain EXCEPT ![t] = [stage |-> s, lt |-> l]]
    /\ UNCHANGED <<dbVars, pollerVars, published>>

\* The rest of a trace is executed.  Its own end_lt grows; shards do not share
\* a clock, so other traces may be ahead of it.
Complete(t) ==
    /\ onchain[t].stage = "incomplete"
    /\ \E l \in (onchain[t].lt + 1)..MaxLt :
          onchain' = [onchain EXCEPT ![t] = [stage |-> "complete", lt |-> l]]
    /\ UNCHANGED <<dbVars, pollerVars, published>>

SnapshotOf(t) == [trace |-> t, seen |-> onchain[t]]

\* Traces of account a from start_lt = lt + 1 on; -1 asks for all of them.
Matching(a, lt) ==
    {t \in Trace : /\ onchain[t].stage # "absent"
                   /\ a \in AccountsOf[t]
                   /\ onchain[t].lt >= lt + 1}

\* The answers the indexer may give.  The request names no order, so nothing
\* says which traces are in an answer that is cut off at the limit.
Pages(S) ==
    IF Cardinality(S) <= PageLimit THEN {S}
    ELSE {P \in SUBSET S : Cardinality(P) = PageLimit}

-----------------------------------------------------------------------------
(* TONSubscriber::poll_account.                                            *)

\* Mutant: the cursor is one too far.
FetchPast(a) ==
    /\ pc[a] = "idle"
    /\ \E P \in Pages(Matching(a, latest_lt[a])) :
          /\ P # {}
          /\ batch' = [batch EXCEPT ![a] = {SnapshotOf(t) : t \in P}]
          /\ latest_lt' = [latest_lt EXCEPT
                 ![a] = Min({MaxLt, Max({onchain[t].lt : t \in P}) + 1})]
    /\ pc' = [pc EXCEPT ![a] = "store"]
    /\ UNCHANGED <<onchain, dbVars, asked, unseen, published>>

\* The answer has arrived.  The cursor moves to the largest end_lt in it.
Fetch(a) ==
    /\ pc[a] = "idle"
    /\ \E P \in Pages(Matching(a, latest_lt[a])) :
          /\ P # {}
          /\ batch' = [batch EXCEPT ![a] = {SnapshotOf(t) : t \in P}]
          /\ latest_lt' = [latest_lt EXCEPT ![a] = Max({onchain[t].lt : t \in P})]
    /\ pc' = [pc EXCEPT ![a] = "store"]
    /\ UNCHANGED <<onchain, dbVars, asked, unseen, published>>

\* store_latest_height; a failure is only logged.
StoreHeight(a) ==
    /\ pc[a] = "store"
    /\ \/ height' = [height EXCEPT ![a] = latest_lt[a]]
       \/ "store" \in Faults /\ UNCHANGED height
    /\ pc' = [pc EXCEPT ![a] = "loop"]
    /\ UNCHANGED <<onchain, rows, latest_lt, asked, batch, unseen, published>>

-----------------------------------------------------------------------------
(* RetryTONSubscriber::poll_account.                                       *)

\* Mutant: the retries that are left are not looked at.
RetriableEver == {t \in Trace : rows[t].seen.stage = "incomplete"}

\* Mutant: the last retry is not used.
RetriableButLast == {t \in Trace : rows[t].seen.stage = "incomplete" /\ rows[t].retries > 1}

Retriable == {t \in Trace : rows[t].seen.stage = "incomplete" /\ rows[t].retries > 0}

\* fetch_retry
FetchRetry ==
    /\ pc[Retry] = "idle"
    /\ Retriable # {}
    /\ asked' \in Pages(Retriable)
    /\ pc' = [pc EXCEPT ![Retry] = "fetch"]
    /\ UNCHANGED <<onchain, dbVars, latest_lt, batch, unseen, published>>

\* The indexer's answer has arrived; the traces may have changed meanwhile.
FetchAsked ==
    /\ pc[Retry] = "fetch"
    /\ batch' = [batch EXCEPT ![Retry] = {SnapshotOf(t) : t \in asked}]
    /\ asked' = {}
    /\ pc' = [pc EXCEPT ![Retry] = "loop"]
    /\ UNCHANGED <<onchain, dbVars, latest_lt, unseen, published>>

\* Still incomplete: decrease_retry.
DecreaseRetry(s) ==
    /\ pc[Retry] = "loop"
    /\ s \in batch[Retry]
    /\ s.seen.stage = "incomplete"
    /\ rows' = [rows EXCEPT ![s.trace].retries = @ - 1]
    /\ batch' = [batch EXCEPT ![Retry] = @ \ {s}]
    /\ UNCHANGED <<onchain, height, latest_lt, pc, asked, unseen, published>>

-----------------------------------------------------------------------------
(* Both pollers.                                                           *)

\* The retry poller upserts only complete traces.
Upserts(x, s) ==
    /\ pc[x] = "loop"
    /\ s \in batch[x]
    /\ x = Retry => s.seen.stage = "complete"

\* Mutant: a trace that is seen for the first time counts as changed, one
\* that was recorded before does not.
ChangedIfNew(s) == rows[s.trace].seen = NotSeen

\* upsert_and_return_if_changed returns a row.
Changed(s) == rows[s.trace].seen # s.seen

\* Mutant: incomplete traces are handed on too.
HandsOnAll(s) == Changed(s)

\* The trace goes to unseen_traces.
HandsOn(s) == Changed(s) /\ s.seen.stage = "complete"

\* One round of the loop.  The upsert leaves retries alone.
Upsert(x, s) ==
    /\ Upserts(x, s)
    /\ rows' = [rows EXCEPT ![s.trace].seen = s.seen]
    /\ unseen' = [unseen EXCEPT ![x] = IF HandsOn(s) THEN @ \cup {s.trace} ELSE @]
    /\ batch' = [batch EXCEPT ![x] = @ \ {s}]
    /\ UNCHANGED <<onchain, height, latest_lt, pc, asked, published>>

\* A statement fails, and poll_account returns the error: what it has
\* collected so far is dropped.
UpsertError(x) ==
    /\ "db" \in Faults
    /\ pc[x] = "loop"
    /\ batch[x] # {}
    /\ batch' = [batch EXCEPT ![x] = {}]
    /\ unseen' = [unseen EXCEPT ![x] = {}]
    /\ pc' = [pc EXCEPT ![x] = "idle"]
    /\ UNCHANGED <<onchain, dbVars, latest_lt, asked, published>>

\* poll_account returns.
EndLoop(x) ==
    /\ pc[x] = "loop"
    /\ batch[x] = {}
    /\ pc' = [pc EXCEPT ![x] = IF unseen[x] = {} THEN "idle" ELSE "publish"]
    /\ UNCHANGED <<onchain, dbVars, latest_lt, asked, batch, unseen, published>>

\* relayer_core publishes the traces it was given, one by one.
Publish(x, t) ==
    /\ pc[x] = "publish"
    /\ t \in unseen[x]
    /\ published' = [published EXCEPT ![t] = @ + 1]
    /\ unseen' = [unseen EXCEPT ![x] = @ \ {t}]
    /\ pc' = [pc EXCEPT ![x] = IF unseen[x] = {t} THEN "idle" ELSE "publish"]
    /\ UNCHANGED <<onchain, dbVars, latest_lt, asked, batch>>

\* Mutant: the process starts from the newest trace the indexer knows.
RestartAtHead ==
    /\ "crash" \in Faults
    /\ \E x \in Poller : pc[x] # "idle"
    /\ latest_lt' = [a \in Account |-> Max({onchain[t].lt : t \in Trace})]
    /\ pc' = [x \in Poller |-> "idle"]
    /\ asked' = {}
    /\ batch' = [x \in Poller |-> {}]
    /\ unseen' = [x \in Poller |-> {}]
    /\ UNCHANGED <<onchain, dbVars, published>>

\* The process is killed, or aborts its pollers on a signal, and starts again
\* from the stored cursors.
Restart ==
    /\ "crash" \in Faults
    /\ \E x \in Poller : pc[x] # "idle"
    /\ latest_lt' = height
    /\ pc' = [x \in Poller |-> "idle"]
    /\ asked' = {}
    /\ batch' = [x \in Poller |-> {}]
    /\ unseen' = [x \in Poller |-> {}]
    /\ UNCHANGED <<onchain, dbVars, published>>

\* What a poller does by itself.
Loop(x) ==
    \/ \E s \in batch[x] : Upsert(x, s)
    \/ EndLoop(x)
    \/ \E t \in unseen[x] : Publish(x, t)

AccountPoll(a) == Fetch(a) \/ StoreHeight(a) \/ Loop(a)

RetryPoll ==
    \/ FetchRetry
    \/ FetchAsked
    \/ \E s \in batch[Retry] : DecreaseRetry(s)
    \/ Loop(Retry)

Next ==
    \/ \E t \in Trace : Appear(t) \/ Complete(t)
    \/ \E a \in Account : AccountPoll(a)
    \/ RetryPoll
    \/ \E x \in Poller : UpsertError(x)
    \/ Restart

Spec == Init /\ [][Next]_vars

\* relayer_core polls in an endless loop, and the indexer answers.
FairSpec ==
    /\ Spec
    /\ \A a \in Account : WF_vars(AccountPoll(a))
    /\ WF_vars(RetryPoll)

-----------------------------------------------------------------------------

\* A trace that is recorded as complete is published, or a poller is about to:
\* no later poll would find it changed, so nobody else would publish it.
RecordedIsPublished ==
    \A t \in Trace : rows[t].seen.stage = "complete" =>
        published[t] > 0 \/ \E x \in Poller : t \in unseen[x]

\* A cursor does not pass a trace that is not recorded or about to be: no later
\* poll of the account would fetch it, and the retry poller does not know it.
CursorPassesRecorded ==
    \A a \in Account, t \in Trace :
        /\ onchain[t].stage # "absent"
        /\ a \in AccountsOf[t]
        /\ onchain[t].lt <= height[a]
        => \/ rows[t].seen.stage # "absent"
           \/ \E s \in batch[a] : s.trace = t

\* Whatever fails and whenever the process starts again, the stored cursor is not
\* ahead of the one in memory, and neither is ahead of what the indexer has shown
\* for the account: a trace that shows up later is always fetched.
CursorNeverAhead ==
    \A a \in Account :
        /\ height[a] <= latest_lt[a]
        /\ latest_lt[a] # -1 =>
               \E t \in Trace : a \in AccountsOf[t] /\ onchain[t].lt >= latest_lt[a]

\* Only complete traces are processed (README.md:33), whichever answer of the
\* indexer arrives first.
PublishedIsComplete ==
    \A t \in Trace : published[t] > 0 => onchain[t].stage = "complete"

\* The trace is recorded as incomplete and will not be retried.
GivenUp(t) == rows[t].seen.stage = "incomplete" /\ rows[t].retries = 0

\* A trace that completes is published, unless it was given up.
CompleteIsPublished ==
    \A t \in Trace :
        onchain[t].stage = "complete" ~> published[t] > 0 \/ GivenUp(t)

=============================================================================
