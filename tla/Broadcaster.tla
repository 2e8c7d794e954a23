---------------------------- MODULE Broadcaster ----------------------------
(***************************************************************************)
(* TONBroadcaster: the includer's workers take tasks, acquire a wallet,    *)
(* allot a query id, post the message to the Toncenter API, retry, release *)
(* the wallet and report.  The module composes WalletManager (the locks),  *)
(* QueryIdWrapper (the rows) and HighloadContract (the wallets on chain);  *)
(* every await of the code is a point where other workers interleave.      *)
(*                                                                         *)
(* The API and the chain are external.  The API checks a message against   *)
(* the wallet's current state and puts it in the mempool; a block executes *)
(* it later, and the wallet drops it if it has seen the id by then.        *)
(***************************************************************************)
EXTENDS WalletManager, HighloadContract, SendRetries, GasEstimator

CONSTANTS
    Task,          \* deliveries of tasks to the includer
    Job,           \* what each of them asks for
    NoTask,
    HTTP_RETRIES,  \* repeats of a request by the HTTP client, 5 in the code
    ForeignId      \* ids another deployment may have used with the same wallets

JobType == [kind : {"prover", "execute", "refund"},
            valid : BOOLEAN,  \* it decodes, and names no jetton to refund
            gas : Nat,        \* available or remaining gas balance
            payload : Nat]    \* length of the payload

ASSUME TaskAssumption ==
    /\ NoTask \notin Task
    /\ Job \in [Task -> JobType]
    /\ HTTP_RETRIES \in Nat
    /\ ForeignId \subseteq QueryId

VARIABLES
    task,      \* the task of a worker
    pc,        \* the step of a worker that holds a wallet
    qid,       \* the id next() has computed
    retries,   \* retries_left of send_to_chain
    sends,     \* repeats of the HTTP request so far
    reply,     \* what the last request, or the call as a whole, came to
    row,       \* rows of ton_wallet_query_id
    contract,  \* the wallets on chain (external)
    mempool,   \* messages the API has accepted (external)
    executed,  \* how often a task's actions were executed on chain
    lost,      \* history: requests of a task that were accepted without an answer
    overran,   \* history: a row has expired while an id of it was in use
    result     \* what became of a task

callVars == <<task, pc, qid, retries, sends, reply>>
chainVars == <<contract, mempool, executed, lost, overran>>
vars == <<wmVars, callVars, row, chainVars, result>>

PC == {"none", "build", "read", "write", "post", "reply", "release"}

\* "ok", "throwif36" and "error" are answers, "lost" is the lack of one;
\* "unbuilt" is an error while the message was put together.
Reply == {"none", "ok", "throwif36", "error", "lost", "unbuilt"}

Message == [wallet : Wallet, qid : QueryId, task : Task]

\* "sent": reported as sent, with a hash; "empty": reported without a hash and
\* without an error; "failed": reported as an error; "crashed": no report.
Result == {"waiting", "running", "sent", "empty", "failed", "crashed"}

TypeOK ==
    /\ WMTypeOK
    /\ task \in [Worker -> Task \cup {NoTask}]
    /\ pc \in [Worker -> PC]
    /\ qid \in [Worker -> QueryId]
    /\ retries \in [Worker -> RetriesLeft]
    /\ sends \in [Worker -> 0..HTTP_RETRIES]
    /\ reply \in [Worker -> Reply]
    /\ row \in [Wallet -> Row]
    /\ contract \in [Wallet -> Contract]
    /\ mempool \subseteq Message
    /\ executed \in [Task -> Nat]
    /\ lost \in [Task -> Nat]
    /\ overran \in BOOLEAN
    /\ result \in [Task -> Result]

Init ==
    /\ WMInit
    /\ task = [p \in Worker |-> NoTask]
    /\ pc = [p \in Worker |-> "none"]
    /\ qid = [p \in Worker |-> FirstId]
    /\ retries = [p \in Worker |-> NoRetries]
    /\ sends = [p \in Worker |-> 0]
    /\ reply = [p \in Worker |-> "none"]
    /\ row = [w \in Wallet |-> NoRow]
    /\ \E F \in SUBSET ForeignId :
           contract = [w \in Wallet |-> [NewContract(F) EXCEPT !.age = 0]]
    /\ mempool = {}
    /\ executed = [t \in Task |-> 0]
    /\ lost = [t \in Task |-> 0]
    /\ overran = FALSE
    /\ result = [t \in Task |-> "waiting"]

-----------------------------------------------------------------------------
(* Before a wallet is acquired.                                            *)

\* The gas that a task must bring; an approval is paid for by the relayer.
RequiredGas(job) ==
    CASE job.kind = "execute" -> execute_estimate(job.payload)
      [] job.kind = "refund" -> native_gas_refund_estimate
      [] OTHER -> 0

\* The checks of the three broadcast functions that return early.
Refused(t) == ~Job[t].valid \/ Job[t].gas < RequiredGas(Job[t])

Refuse(t) ==
    /\ result[t] = "waiting"
    /\ Refused(t)
    /\ result' = [result EXCEPT ![t] = "failed"]
    /\ UNCHANGED <<wmVars, callVars, row, chainVars>>

Begin(p, t) ==
    /\ result[t] = "waiting"
    /\ ~Refused(t)
    /\ StartAcquire(p)
    /\ task' = [task EXCEPT ![p] = t]
    /\ result' = [result EXCEPT ![t] = "running"]
    /\ UNCHANGED <<pc, qid, retries, sends, reply, row, chainVars>>

\* acquire() returns a wallet, and send_to_chain starts with no retries.  An
\* execute and a refund message are put together only now.
Acquired(p, w) ==
    /\ LockGranted(p, w)
    /\ pc' = [pc EXCEPT ![p] = IF Job[task[p]].kind = "prover"
                               THEN "read" ELSE "build"]
    /\ retries' = [retries EXCEPT ![p] = NoRetries]
    /\ UNCHANGED <<task, qid, sends, reply, row, chainVars, result>>

NotAcquired(p, w) ==
    /\ LockRefused(p, w) \/ LockError(p, w)
    /\ UNCHANGED <<callVars, row, chainVars, result>>

\* The worker is done with its task; what it remembers of it is gone.
Forget(p) ==
    /\ task' = [task EXCEPT ![p] = NoTask]
    /\ pc' = [pc EXCEPT ![p] = "none"]
    /\ qid' = [qid EXCEPT ![p] = FirstId]
    /\ retries' = [retries EXCEPT ![p] = NoRetries]
    /\ sends' = [sends EXCEPT ![p] = 0]
    /\ reply' = [reply EXCEPT ![p] = "none"]

AcquireFails(p) ==
    /\ NoAvailableWallet(p)
    /\ Forget(p)
    /\ result' = [result EXCEPT ![task[p]] = "failed"]
    /\ UNCHANGED <<row, chainVars>>

-----------------------------------------------------------------------------
(* send_to_chain.                                                          *)

At(p, step) == Holding(p) /\ pc[p] = step

\* The worker moves to step with r as the reply of its call.
Go(p, step, r) ==
    /\ pc' = [pc EXCEPT ![p] = step]
    /\ reply' = [reply EXCEPT ![p] = r]
    /\ UNCHANGED <<wmVars, task, result>>

Build(p) ==
    /\ At(p, "build")
    /\ Go(p, "read", "none") \/ Go(p, "release", "unbuilt")
    /\ UNCHANGED <<qid, retries, sends, row, chainVars>>

force_shift_increase(p) == retries[p] # NoRetries

\* The first half of next(): SELECT, and compute the id to take.
ReadId(p) ==
    LET snap == get_query_id(row[wallet[p]])
    IN  /\ At(p, "read")
        /\ \/ /\ ~NextFails(snap, force_shift_increase(p))
              /\ qid' = [qid EXCEPT ![p] = NextId(snap, force_shift_increase(p))]
              /\ Go(p, "write", "none")
           \/ \* no id left, or the SELECT fails
              /\ UNCHANGED qid
              /\ Go(p, "release", "error")
        /\ UNCHANGED <<retries, sends, row, chainVars>>

\* Mutant: the id is not written back.
StoredNot(p) == UNCHANGED row

Stored(p) == row' = [row EXCEPT ![wallet[p]] = Store(@, qid[p])]

\* The second half: the upsert or the update.  When it fails it may have
\* taken effect or not.
WriteId(p) ==
    /\ At(p, "write")
    /\ \/ Stored(p) /\ Go(p, "post", "none")
       \/ (Stored(p) \/ UNCHANGED row) /\ Go(p, "release", "error")
    /\ sends' = [sends EXCEPT ![p] = 0]
    /\ UNCHANGED <<qid, retries, chainVars>>

MessageOf(p) == [wallet |-> wallet[p], qid |-> qid[p], task |-> task[p]]

\* A request reaches the API, which accepts the message; the answer may be
\* lost or unreadable.
PostAccepted(p) ==
    /\ At(p, "post")
    /\ ~Rejects(contract[wallet[p]], qid[p])
    /\ mempool' = mempool \cup {MessageOf(p)}
    /\ \E r \in {"ok", "error", "lost"} :
          /\ Go(p, "reply", r)
          /\ lost' = [lost EXCEPT ![task[p]] = IF r = "lost" THEN @ + 1 ELSE @]
    /\ UNCHANGED <<qid, retries, sends, row, contract, executed, overran>>

\* A request reaches the API, and the wallet would throw 36.
PostRejected(p) ==
    /\ At(p, "post")
    /\ Rejects(contract[wallet[p]], qid[p])
    /\ \E r \in {"throwif36", "lost"} : Go(p, "reply", r)
    /\ UNCHANGED <<qid, retries, sends, row, chainVars>>

\* The message cannot be serialised, the request does not arrive, or the API
\* fails for another reason.
PostFails(p) ==
    /\ At(p, "post")
    /\ \E r \in {"error", "lost"} : Go(p, "reply", r)
    /\ UNCHANGED <<qid, retries, sends, row, chainVars>>

\* Mutant: there is no limit to the repeats.
ResendUnlimited(p) ==
    /\ At(p, "reply")
    /\ reply[p] = "lost"
    /\ sends' = [sends EXCEPT ![p] = @ + 1]
    /\ Go(p, "post", "none")
    /\ UNCHANGED <<qid, retries, row, chainVars>>

\* Mutant: the repeats are not counted.
ResendUncounted(p) ==
    /\ At(p, "reply")
    /\ reply[p] = "lost"
    /\ Go(p, "post", "none")
    /\ UNCHANGED <<qid, retries, sends, row, chainVars>>

\* The HTTP client repeats a request that got no answer ...
Resend(p) ==
    /\ At(p, "reply")
    /\ reply[p] = "lost"
    /\ sends[p] < HTTP_RETRIES
    /\ sends' = [sends EXCEPT ![p] = @ + 1]
    /\ Go(p, "post", "none")
    /\ UNCHANGED <<qid, retries, row, chainVars>>

\* ... and gives up at last, with ConnectionFailed.
GiveUp(p) ==
    /\ At(p, "reply")
    /\ reply[p] = "lost"
    /\ sends[p] = HTTP_RETRIES
    /\ Go(p, "release", "error")
    /\ UNCHANGED <<qid, retries, sends, row, chainVars>>

\* Mutant: every error is answered with another attempt.
RetriableAny(p) ==
    /\ reply[p] \in {"throwif36", "error"}
    /\ NextRetries(retries[p]) # NoRetries

\* send_to_chain calls itself again.
Retriable(p) ==
    /\ reply[p] = "throwif36"
    /\ NextRetries(retries[p]) # NoRetries

Retry(p) ==
    /\ At(p, "reply")
    /\ Retriable(p)
    /\ retries' = [retries EXCEPT ![p] = NextRetries(@)]
    /\ Go(p, "read", "none")
    /\ UNCHANGED <<qid, sends, row, chainVars>>

\* send_to_chain returns.
Return(p) ==
    /\ At(p, "reply")
    /\ reply[p] # "lost"
    /\ ~Retriable(p)
    /\ Go(p, "release", reply[p])
    /\ UNCHANGED <<qid, retries, sends, row, chainVars>>

\* What the broadcast function reports.  broadcast_refund_message turns a
\* send_to_chain error into Ok with an empty hash.
Report(t, r) ==
    IF r = "ok" THEN "sent"
    ELSE IF Job[t].kind = "refund" /\ r # "unbuilt" THEN "empty"
    ELSE "failed"

\* Mutant: an error leaves the function before the wallet is released.
EndEarly(p) ==
    /\ At(p, "release")
    /\ IF reply[p] = "unbuilt" THEN UNCHANGED lock /\ Leaves(p) ELSE Release(p)
    /\ Forget(p)
    /\ result' = [result EXCEPT ![task[p]] = Report(task[p], reply[p])]
    /\ UNCHANGED <<row, chainVars>>

\* The wallet is released on every path.
End(p) ==
    /\ At(p, "release")
    /\ Release(p)
    /\ Forget(p)
    /\ result' = [result EXCEPT ![task[p]] = Report(task[p], reply[p])]
    /\ UNCHANGED <<row, chainVars>>

\* The same, when the DEL fails.
EndLocked(p) ==
    /\ At(p, "release")
    /\ ReleaseError(p)
    /\ Forget(p)
    /\ result' = [result EXCEPT ![task[p]] = Report(task[p], reply[p])]
    /\ UNCHANGED <<row, chainVars>>

\* The process stops.  The task is not delivered again in this model.
Stop(p) ==
    /\ Crash(p)
    /\ Forget(p)
    /\ result' = [result EXCEPT ![task[p]] = "crashed"]
    /\ UNCHANGED <<row, chainVars>>

-----------------------------------------------------------------------------
(* The chain and the clock.                                                *)

\* A block takes a message; the wallet executes its actions, or drops it.
Execute(m) ==
    /\ m \in mempool
    /\ mempool' = mempool \ {m}
    /\ IF Rejects(contract[m.wallet], m.qid)
       THEN UNCHANGED <<contract, executed>>
       ELSE /\ contract' = [contract EXCEPT ![m.wallet] = Accept(@, m.qid)]
            /\ executed' = [executed EXCEPT ![m.task] = @ + 1]
    /\ UNCHANGED <<wmVars, callVars, row, lost, overran, result>>

\* A worker has an id that was read from a live row, and may yet post it.
HasId(p) ==
    \/ At(p, "write") /\ qid[p] # FirstId
    \/ At(p, "post")
    \/ At(p, "reply") /\ reply[p] = "lost"

\* Blocks are made faster than a tick: no message waits while time passes.
Tick ==
    /\ mempool = {}
    /\ WMTick
    /\ row' = [w \in Wallet |-> RowTick(row[w])]
    /\ contract' = [w \in Wallet |-> ContractTick(contract[w])]
    /\ overran' = (overran \/ \E p \in Worker : HasId(p) /\ row'[wallet[p]].ttl < 0)
    /\ UNCHANGED <<callVars, mempool, executed, lost, result>>

\* What a worker does by itself once it has a task.
Work(p) ==
    \/ \E w \in Wallet : Acquired(p, w) \/ NotAcquired(p, w)
    \/ AcquireFails(p)
    \/ Build(p)
    \/ ReadId(p)
    \/ WriteId(p)
    \/ PostAccepted(p)
    \/ PostRejected(p)
    \/ PostFails(p)
    \/ Resend(p)
    \/ GiveUp(p)
    \/ Retry(p)
    \/ Return(p)
    \/ End(p)
    \/ EndLocked(p)

Next ==
    \/ \E t \in Task : Refuse(t) \/ \E p \in Worker : Begin(p, t)
    \/ \E p \in Worker : Work(p) \/ Stop(p)
    \/ \E m \in mempool : Execute(m)
    \/ Tick

Spec == Init /\ [][Next]_vars

\* A worker goes on with its task, the chain makes blocks, time passes.
FairSpec ==
    /\ Spec
    /\ \A p \in Worker : WF_vars(Work(p))
    /\ WF_vars(\E m \in mempool : Execute(m))
    /\ WF_vars(Tick)

-----------------------------------------------------------------------------

\* A task that is reported as sent was executed on chain or waits for its
\* block, with an id the wallet will accept: no second message with the same
\* id, of whatever worker, epoch or retry, is in its way.  It takes that no row
\* has expired between the SELECT of an id and its post: the next worker would
\* start again at FirstId, and may reach the same id before a block has it.
SentIsExecuted ==
    ~overran => \A t \in Task : result[t] = "sent" =>
        \/ executed[t] > 0
        \/ \E m \in mempool : m.task = t /\ ~Rejects(contract[m.wallet], m.qid)

\* No two messages of a wallet wait for a block with the same id, on the same
\* condition.
DistinctInFlight ==
    ~overran => \A m, n \in mempool : m.wallet = n.wallet /\ m.qid = n.qid => m = n

\* One delivery of a task is executed once, and once more only for every answer
\* that was lost on its way to the HTTP client: a refusal, an error or a retry of
\* send_to_chain alone never sends what the API has taken a second time.
ExecutedOnce == \A t \in Task : executed[t] <= 1 + lost[t]

\* What high_load_query_id_db_wrapper.rs:79-82 says of a forced shift: the id
\* was refused because somebody else had used it, so what is sent again under
\* another id has not been sent yet.
ResentIsUnsent ==
    \A p \in Worker : At(p, "post") /\ force_shift_increase(p) =>
        /\ executed[task[p]] = 0
        /\ \A m \in mempool : m.task # task[p]

\* Every task that was started is reported, or its process has stopped.
TasksEnd == \A t \in Task : result[t] = "running" ~> result[t] # "running"

=============================================================================
