------------------------------ MODULE Ingestor ------------------------------
(***************************************************************************)
(* TONIngestor::handle_transaction: a trace is taken from the events       *)
(* queue, parsed (TraceParser), the summaries of its events are written to *)
(* its row, and the events are returned, to be posted to the GMP API.      *)
(*                                                                         *)
(* The queue and the posting are relayer_core's: a trace is delivered at   *)
(* least once, and again, after the traces that wait, whenever handling it *)
(* ended in an error or the process stopped.  The other handlers of the    *)
(* Ingestor only return the error "Still not implemented".                 *)
(***************************************************************************)
EXTENDS TraceParser

CONSTANTS
    MaxPublished,   \* bound on how often the traces are published, in all
    MaxFaults       \* bound on what goes wrong: crashes, failing calls

ASSUME IngestorAssumption ==
    /\ MaxPublished \in Nat
    /\ MaxFaults \in Nat

VARIABLES
    queue,      \* the events queue: traces that wait for a worker (external)
    published,  \* how many traces were published so far (external)
    step,       \* where handle_transaction stands
    stored,     \* column events of the trace's row in ton_traces
    posted,     \* the batches of events posted for a trace (external)
    faults      \* what went wrong so far

handlerVars == <<queue, published, step, stored, posted, faults>>
ingestorVars == <<vars, handlerVars>>

NoEvents == <<>>

EventSummary(e) ==
    [event_id |-> e.event_id, message_id |-> e.message_id, event_type |-> e.type]

event_summaries == [i \in DOMAIN events |-> EventSummary(events[i])]

IngestorInit ==
    /\ Init
    /\ queue = <<>>
    /\ published = 0
    /\ step = "idle"
    /\ stored = [t \in Traces |-> NoEvents]
    /\ posted = [t \in Traces |-> {}]
    /\ faults = 0

-----------------------------------------------------------------------------

\* The subscriber publishes a trace, perhaps one that it has published before.
Publish(t) ==
    /\ published < MaxPublished
    /\ published' = published + 1
    /\ queue' = Append(queue, t)
    /\ UNCHANGED <<vars, step, stored, posted, faults>>

\* A delivery: parse_trace starts with nothing collected.
Receive ==
    /\ step = "idle" /\ queue # <<>>
    /\ queue' = Tail(queue)
    /\ step' = "parse"
    /\ trace' = Head(queue) /\ pc' = "begin" /\ pos' = 1 /\ approved' = 0
    /\ call_contract' = <<>> /\ gas_credit_map' = <<>> /\ its' = <<>>
    /\ parsers' = <<>> /\ events' = <<>>
    /\ UNCHANGED <<published, stored, posted, faults>>

\* One step of parse_trace.
Parse ==
    /\ step = "parse"
    /\ Step
    /\ UNCHANGED handlerVars

Fault == faults < MaxFaults /\ faults' = faults + 1

PriceMissing ==
    /\ step = "parse" /\ Fault
    /\ ConvertFails
    /\ UNCHANGED <<queue, published, step, stored, posted>>

\* The delivery is over, and the trace is delivered again.
Requeue ==
    /\ step' = "idle"
    /\ queue' = Append(queue, trace)
    /\ UNCHANGED <<vars, published>>

HandleFails ==
    /\ step = "parse" /\ pc = "failed"
    /\ Requeue
    /\ UNCHANGED <<stored, posted, faults>>

\* Mutant: the summaries are added to those of an earlier delivery.
update_events_appends == stored' = [stored EXCEPT ![trace] = @ \o event_summaries]

\* UPDATE ton_traces SET events.
update_events == stored' = [stored EXCEPT ![trace] = event_summaries]

AtUpdate == step = "parse" /\ pc = "returned" /\ events # <<>>

StoreSummaries ==
    /\ AtUpdate
    /\ update_events
    /\ step' = "post"
    /\ UNCHANGED <<vars, queue, published, posted, faults>>

\* Nothing is written when the trace has no events.
SkipUpdate ==
    /\ step = "parse" /\ pc = "returned" /\ events = <<>>
    /\ step' = "post"
    /\ UNCHANGED <<vars, queue, published, stored, posted, faults>>

\* Mutant: the error is logged, and the events are returned all the same.
UpdateFailsIgnored ==
    /\ AtUpdate /\ Fault
    /\ update_events \/ UNCHANGED stored
    /\ step' = "post"
    /\ UNCHANGED <<vars, queue, published, posted>>

\* Mutant: the error is logged, and no events are returned.
UpdateFailsDropped ==
    /\ AtUpdate /\ Fault
    /\ update_events \/ UNCHANGED stored
    /\ step' = "idle"
    /\ UNCHANGED <<vars, queue, published, posted>>

\* A statement that fails may have taken effect.
UpdateFails ==
    /\ AtUpdate /\ Fault
    /\ update_events \/ UNCHANGED stored
    /\ Requeue
    /\ UNCHANGED posted

-----------------------------------------------------------------------------
(* What relayer_core does with the events that were returned.                *)

Deliver == posted' = [posted EXCEPT ![trace] = @ \cup {event_summaries}]

Post ==
    /\ step = "post"
    /\ Deliver
    /\ step' = "idle"
    /\ UNCHANGED <<vars, queue, published, stored, faults>>

PostFails ==
    /\ step = "post" /\ Fault
    /\ Deliver \/ UNCHANGED posted
    /\ Requeue
    /\ UNCHANGED stored

\* The process stops before it has acknowledged the delivery.
Stop ==
    /\ step # "idle" /\ Fault
    /\ Requeue
    /\ UNCHANGED <<stored, posted>>

Handle == Parse \/ HandleFails \/ StoreSummaries \/ SkipUpdate \/ Post

IngestorNext ==
    \/ \E t \in Traces : Publish(t)
    \/ Receive \/ Handle
    \/ PriceMissing \/ UpdateFails \/ PostFails \/ Stop

\* The queue delivers what it holds, and the worker goes on.
IngestorSpec ==
    /\ IngestorInit /\ [][IngestorNext]_ingestorVars
    /\ WF_ingestorVars(Receive \/ Handle)

-----------------------------------------------------------------------------

\* The trace that the worker has taken and not yet acknowledged, if any.
InHand == IF step = "idle" THEN 0 ELSE 1

\* The handler's own variables: what waits or is being handled was published, once
\* each; however often a trace is delivered, its row has at most one event for each
\* transaction, and one for the trace.
IngestorTypeOK ==
    /\ published \in 0..MaxPublished
    /\ step \in {"idle", "parse", "post"}
    /\ queue \in Seq(Traces) /\ Len(queue) + InHand <= published
    /\ \A t \in Traces : Len(stored[t]) <= Len(t) + 1
    /\ faults \in 0..MaxFaults

\* Whatever was posted for a trace, on whichever delivery, is what its row says:
\* no event goes out before its summary is stored, and a trace that is parsed
\* again yields the same events under the same message_ids.
PostedIsStored ==
    \A t \in Traces : \A batch \in posted[t] : stored[t] = batch

\* A message that a parser has matched does not decode, or there are more ITS logs
\* than calls to pair them with.
Malformed(t) ==
    \/ ExecuteInsufficientGas(t) /\ ~ParsesIn(t, 0)
    \/ \E i \in DOMAIN t : Kind(t[i]) # "none" /\ ~ParsesIn(t, i)
    \/ Cardinality({i \in DOMAIN t : Kind(t[i]) \in ITS})
         > Cardinality({i \in DOMAIN t : Kind(t[i]) = "CallContract"})

\* A trace with a log that cannot be decoded or paired is not reported in part:
\* none of its events is ever stored or posted.
AllOrNothing ==
    \A t \in Traces : Malformed(t) => stored[t] = NoEvents /\ posted[t] = {}

\* A trace on the queue is posted in the end, whatever failed on the way, if it
\* is not malformed.
DeliveredIsPosted ==
    \A t \in Traces : ~Malformed(t) => (Contains(queue, t) ~> posted[t] # {})

=============================================================================
