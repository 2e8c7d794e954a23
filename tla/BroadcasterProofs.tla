------------------------- MODULE BroadcasterProofs -------------------------
(***************************************************************************)
(* Proofs about Broadcaster, for any number of workers, wallets and tasks. *)
(* The workers use the wallet pool as WalletManager describes it, so what  *)
(* is proved of the pool holds here; a delivery is executed more than once *)
(* only for answers that were lost; and what is reported as sent is        *)
(* executed or about to be, as long as no row expires under an id in use.  *)
(***************************************************************************)
EXTENDS Broadcaster, WalletManagerProofs, QueryIdProofs, FiniteSetTheorems, TLAPS

-----------------------------------------------------------------------------
(* The broadcaster uses the pool as WalletManager describes it. *)

\* Every step of the includer is a step of the wallet pool or leaves it alone.
LEMMA StepOfPool == [Next]_vars => [WMNext]_wmVars
<1> SUFFICES ASSUME [Next]_vars
             PROVE  [WMNext]_wmVars
  OBVIOUS
<1>1. ASSUME NEW p \in Worker, Work(p)
      PROVE  [WMNext]_wmVars
  <2>1. ASSUME NEW w \in Wallet, Acquired(p, w) \/ NotAcquired(p, w)
        PROVE  WMNext
    BY <2>1 DEF Acquired, NotAcquired, WMNext, WMStep
  <2>2. CASE AcquireFails(p)
    BY <2>2 DEF AcquireFails, WMNext, WMStep
  <2>3. CASE End(p) \/ EndLocked(p)
    BY <2>3 DEF End, EndLocked, WMNext, WMStep
  <2>4. CASE \/ Build(p) \/ ReadId(p) \/ WriteId(p) \/ PostAccepted(p) \/ PostRejected(p)
             \/ PostFails(p) \/ Resend(p) \/ GiveUp(p) \/ Retry(p) \/ Return(p)
    BY <2>4 DEF Build, ReadId, WriteId, PostAccepted, PostRejected, PostFails, Resend, GiveUp,
                Retry, Return, Go
  <2> QED
    BY <1>1, <2>1, <2>2, <2>3, <2>4 DEF Work
<1>2. ASSUME NEW t \in Task, NEW p \in Worker, Begin(p, t)
      PROVE  WMNext
  BY <1>2 DEF Begin, WMNext, WMStep
<1>3. ASSUME NEW p \in Worker, Stop(p)
      PROVE  WMNext
  BY <1>3 DEF Stop, WMNext, WMStep
<1>4. CASE Tick
  BY <1>4 DEF Tick, WMNext
<1>5. ASSUME NEW t \in Task, Refuse(t)
      PROVE  UNCHANGED wmVars
  BY <1>5 DEF Refuse
<1>6. ASSUME NEW m \in mempool, Execute(m)
      PROVE  UNCHANGED wmVars
  BY <1>6 DEF Execute
<1>7. CASE UNCHANGED vars
  BY <1>7 DEF vars
<1> QED
  BY <1>1, <1>2, <1>3, <1>4, <1>5, <1>6, <1>7 DEF Next

\* The broadcaster implements WalletManager: every behaviour of the includer's workers
\* is one of the pool, where a wallet that was given out is left only through release()
\* or a crash.
THEOREM ImplementsWalletManager == Spec => WMSpec
<1>1. Init => WMInit
  BY DEF Init
<1> QED
  BY <1>1, StepOfPool, PTL DEF Spec, WMSpec

\* Two workers of the includer never have the same wallet, whatever crashes and Redis
\* faults there are, if no worker holds one for as long as its key lives.
THEOREM BroadcasterExclusive ==
    ASSUME HoldLimit < LockTTL
    PROVE  Spec => []ExclusiveAccess
BY ImplementsWalletManager, Exclusive, PTL

\* Without faults a key is there only while a worker has the wallet: every path of the
\* three broadcast functions, with whatever errors, ends in release().
THEOREM BroadcasterLeaksNothing == Spec => []NothingLeaked
BY ImplementsWalletManager, NoLeak, PTL

-----------------------------------------------------------------------------
(* Types. *)

\* A worker that asks for a wallet or has one works on a task.
BusyHasTask == \A p \in Worker : mode[p] # "idle" => task[p] \in Task

CallInv ==
    /\ TypeOK
    /\ row \in [Wallet -> GoodRow]
    /\ BusyHasTask

\* The id that ReadId takes is one, whether the row is live or has expired.
LEMMA ReadIdType ==
    ASSUME CallInv, NEW p \in Worker, NEW force \in BOOLEAN,
           ~NextFails(get_query_id(row[wallet[p]]), force)
    PROVE  NextId(get_query_id(row[wallet[p]]), force) \in QueryId
<1>1. row[wallet[p]] \in GoodRow /\ qid[p] \in QueryId
  BY DEF CallInv, TypeOK, WMTypeOK
<1> QED
  BY <1>1, AllottedLive, AllottedExpired, FirstIdIsZero

\* Every step of the workers, the chain and the clock keeps the variables within their
\* types; in particular repeats and retries stay within their budgets.
LEMMA CallStep == CallInv /\ [Next]_vars => CallInv'
<1> SUFFICES ASSUME CallInv, [Next]_vars
             PROVE  CallInv'
  OBVIOUS
<1>w. WMTypeOK /\ WMTypeOK'
  BY StepOfPool, TypeStep DEF CallInv, TypeOK
<1>f. FirstId \in QueryId /\ NoRetries \in RetriesLeft /\ 0 \in 0..HTTP_RETRIES
  <2>1. FirstId \in QueryId
    BY QueryIdAssumption DEF FirstId, QueryId
  <2> QED
    BY <2>1, RetriesAssumption, TaskAssumption DEF RetriesLeft, NoRetries
<1>g. ASSUME NEW p \in Worker, NEW step \in PC, NEW r \in Reply, Go(p, step, r)
      PROVE  /\ pc' \in [Worker -> PC]
             /\ reply' \in [Worker -> Reply]
             /\ UNCHANGED <<mode, task, wallet, result>>
             /\ BusyHasTask'
  BY <1>g DEF Go, CallInv, TypeOK, BusyHasTask, wmVars
<1>h. ASSUME NEW p \in Worker, Forget(p), UNCHANGED row
      PROVE  /\ task' \in [Worker -> Task \cup {NoTask}]
             /\ pc' \in [Worker -> PC]
             /\ qid' \in [Worker -> QueryId]
             /\ retries' \in [Worker -> RetriesLeft]
             /\ sends' \in [Worker -> 0..HTTP_RETRIES]
             /\ reply' \in [Worker -> Reply]
             /\ row' \in [Wallet -> GoodRow]
  BY <1>h, <1>f DEF Forget, CallInv, TypeOK, PC, Reply
<1>1. ASSUME NEW t \in Task, Refuse(t)
      PROVE  CallInv'
  BY <1>1, <1>w DEF Refuse, CallInv, TypeOK, BusyHasTask, callVars, chainVars, wmVars, Result
<1>2. ASSUME NEW t \in Task, NEW p \in Worker, Begin(p, t)
      PROVE  CallInv'
  <2>1. task' \in [Worker -> Task \cup {NoTask}] /\ result' \in [Task -> Result]
    BY <1>2 DEF Begin, CallInv, TypeOK, Result
  <2>2. BusyHasTask'
    BY <1>2, <1>w DEF Begin, StartAcquire, CallInv, TypeOK, WMTypeOK, BusyHasTask
  <2> QED
    BY <1>2, <1>w, <2>1, <2>2 DEF Begin, CallInv, TypeOK, chainVars
<1>3. ASSUME NEW p \in Worker, NEW w \in Wallet, Acquired(p, w)
      PROVE  CallInv'
  <2>1. pc' \in [Worker -> PC] /\ retries' \in [Worker -> RetriesLeft]
    BY <1>3, <1>f DEF Acquired, CallInv, TypeOK, PC
  <2>2. BusyHasTask'
    BY <1>3, <1>w DEF Acquired, LockGranted, Asks, CallInv, WMTypeOK, BusyHasTask
  <2> QED
    BY <1>3, <1>w, <2>1, <2>2 DEF Acquired, CallInv, TypeOK, chainVars
<1>4. ASSUME NEW p \in Worker, NEW w \in Wallet, NotAcquired(p, w)
      PROVE  CallInv'
  <2>1. mode' = mode
    BY <1>4 DEF NotAcquired, LockRefused, LockError
  <2> QED
    BY <1>4, <1>w, <2>1 DEF NotAcquired, CallInv, TypeOK, BusyHasTask, callVars, chainVars
<1>5. ASSUME NEW p \in Worker,
             AcquireFails(p) \/ End(p) \/ EndLocked(p) \/ Stop(p)
      PROVE  CallInv'
  <2>1. Forget(p) /\ UNCHANGED <<row, chainVars>>
    BY <1>5 DEF AcquireFails, End, EndLocked, Stop
  <2>2. mode' = [mode EXCEPT ![p] = "idle"]
    BY <1>5 DEF AcquireFails, NoAvailableWallet, End, EndLocked, Stop, Release, ReleaseError,
                Leaves, Crash
  <2>3. BusyHasTask'
    BY <1>w, <2>1, <2>2 DEF Forget, CallInv, TypeOK, WMTypeOK, BusyHasTask
  <2>4. result' \in [Task -> Result]
    BY <1>5 DEF AcquireFails, End, EndLocked, Stop, Report, CallInv, TypeOK, Result
  <2> QED
    BY <1>w, <1>h, <2>1, <2>3, <2>4 DEF CallInv, TypeOK, chainVars
<1>6. ASSUME NEW p \in Worker, Build(p)
      PROVE  CallInv'
  <2>1. PICK step \in PC, r \in Reply : Go(p, step, r)
    BY <1>6 DEF Build, PC, Reply
  <2> QED
    BY <1>6, <1>w, <1>g, <2>1 DEF Build, CallInv, TypeOK, chainVars
<1>7. ASSUME NEW p \in Worker, ReadId(p)
      PROVE  CallInv'
  <2>1. PICK step \in PC, r \in Reply : Go(p, step, r)
    BY <1>7 DEF ReadId, PC, Reply
  <2>2. force_shift_increase(p) \in BOOLEAN
    BY DEF force_shift_increase
  <2>3. qid' \in [Worker -> QueryId]
    BY <1>7, <2>2, ReadIdType DEF ReadId, CallInv, TypeOK
  <2> QED
    BY <1>7, <1>w, <1>g, <2>1, <2>3 DEF ReadId, CallInv, TypeOK, chainVars
<1>8. ASSUME NEW p \in Worker, WriteId(p)
      PROVE  CallInv'
  <2>1. PICK step \in PC, r \in Reply : Go(p, step, r)
    BY <1>8 DEF WriteId, PC, Reply
  <2>2. wallet[p] \in Wallet /\ row[wallet[p]] \in GoodRow /\ qid[p] \in QueryId
    BY <1>w DEF CallInv, TypeOK, WMTypeOK
  <2>3. Store(row[wallet[p]], qid[p]) \in GoodRow
    BY <2>2, StoreEffect
  <2>4. row' \in [Wallet -> GoodRow]
    BY <1>8, <2>3 DEF WriteId, Stored, CallInv
  <2>5. row' \in [Wallet -> Row]
    BY <2>4 DEF GoodRow
  <2>6. sends' \in [Worker -> 0..HTTP_RETRIES]
    BY <1>8, <1>f DEF WriteId, CallInv, TypeOK
  <2> QED
    BY <1>8, <1>w, <1>g, <2>1, <2>4, <2>5, <2>6 DEF WriteId, CallInv, TypeOK, chainVars
<1>9. ASSUME NEW p \in Worker, PostAccepted(p)
      PROVE  CallInv'
  <2>1. PICK step \in PC, r \in Reply : Go(p, step, r)
    BY <1>9 DEF PostAccepted, PC, Reply
  <2>2. wallet[p] \in Wallet /\ qid[p] \in QueryId /\ task[p] \in Task
    BY <1>9, <1>w DEF PostAccepted, At, Holding, CallInv, TypeOK, WMTypeOK, BusyHasTask
  <2>3. MessageOf(p) \in Message
    BY <2>2 DEF MessageOf, Message
  <2>4. lost' \in [Task -> Nat]
    <3>1. lost \in [Task -> Nat]
      BY DEF CallInv, TypeOK
    <3>2. \/ lost' = lost
          \/ lost' = [lost EXCEPT ![task[p]] = lost[task[p]] + 1]
      BY <1>9, <2>2, <3>1 DEF PostAccepted
    <3> QED
      BY <2>2, <3>1, <3>2
  <2> QED
    BY <1>9, <1>w, <1>g, <2>1, <2>3, <2>4 DEF PostAccepted, CallInv, TypeOK
<1>10. ASSUME NEW p \in Worker, PostRejected(p) \/ PostFails(p) \/ GiveUp(p) \/ Return(p)
       PROVE  CallInv'
  <2>1. PICK step \in PC, r \in Reply : Go(p, step, r)
    BY <1>10 DEF PostRejected, PostFails, GiveUp, Return, PC, Reply, CallInv, TypeOK
  <2> QED
    BY <1>10, <1>w, <1>g, <2>1
       DEF PostRejected, PostFails, GiveUp, Return, CallInv, TypeOK, chainVars
<1>11. ASSUME NEW p \in Worker, Resend(p)
       PROVE  CallInv'
  <2>1. PICK step \in PC, r \in Reply : Go(p, step, r)
    BY <1>11 DEF Resend, PC, Reply
  <2>2. sends' \in [Worker -> 0..HTTP_RETRIES]
    BY <1>11, TaskAssumption DEF Resend, CallInv, TypeOK
  <2> QED
    BY <1>11, <1>w, <1>g, <2>1, <2>2 DEF Resend, CallInv, TypeOK, chainVars
<1>12. ASSUME NEW p \in Worker, Retry(p)
       PROVE  CallInv'
  <2>1. PICK step \in PC, r \in Reply : Go(p, step, r)
    BY <1>12 DEF Retry, PC, Reply
  <2>2. retries' \in [Worker -> RetriesLeft]
    BY <1>12, RetriesAssumption DEF Retry, NextRetries, NoRetries, RetriesLeft, CallInv, TypeOK
  <2> QED
    BY <1>12, <1>w, <1>g, <2>1, <2>2 DEF Retry, CallInv, TypeOK, chainVars
<1>13. ASSUME NEW m \in mempool, Execute(m)
       PROVE  CallInv'
  <2>1. m.wallet \in Wallet /\ m.qid \in QueryId /\ m.task \in Task
    BY DEF CallInv, TypeOK, Message
  <2>2. contract' \in [Wallet -> Contract]
    <3>1. Accept(contract[m.wallet], m.qid) \in Contract
      BY <2>1, ContractTypes DEF CallInv, TypeOK
    <3> QED
      BY <1>13, <3>1 DEF Execute, CallInv, TypeOK
  <2>3. executed' \in [Task -> Nat]
    BY <1>13, <2>1 DEF Execute, CallInv, TypeOK
  <2> QED
    BY <1>13, <1>w, <2>2, <2>3 DEF Execute, CallInv, TypeOK, BusyHasTask, wmVars, callVars
<1>14. CASE Tick
  <2>1. row' \in [Wallet -> GoodRow] /\ row' \in [Wallet -> Row]
    BY <1>14, RowTickEffect DEF Tick, CallInv, GoodRow
  <2>2. contract' \in [Wallet -> Contract]
    BY <1>14, <1>f, ContractTypes DEF Tick, CallInv, TypeOK
  <2>3. overran' \in BOOLEAN
    BY <1>14 DEF Tick, CallInv, TypeOK
  <2> QED
    BY <1>14, <1>w, <2>1, <2>2, <2>3 DEF Tick, WMTick, CallInv, TypeOK, BusyHasTask, callVars
<1>15. CASE UNCHANGED vars
  BY <1>15, <1>w DEF vars, wmVars, callVars, chainVars, CallInv, TypeOK, BusyHasTask
<1> QED
  BY <1>1, <1>2, <1>3, <1>4, <1>5, <1>6, <1>7, <1>8, <1>9, <1>10, <1>11, <1>12, <1>13, <1>14,
     <1>15 DEF Next, Work

\* Initially no worker has a task and no wallet has a row.
LEMMA CallStart == Init => CallInv
<1> SUFFICES ASSUME Init
             PROVE  CallInv
  OBVIOUS
<1>1. WMTypeOK
  BY LockAssumption DEF Init, WMInit, WMTypeOK, Mode
<1>2. FirstId \in QueryId /\ NoRetries \in RetriesLeft /\ 0 \in 0..HTTP_RETRIES
  <2>1. FirstId \in QueryId
    BY QueryIdAssumption DEF FirstId, QueryId
  <2> QED
    BY <2>1, RetriesAssumption, TaskAssumption DEF RetriesLeft, NoRetries
<1>3. NoRow \in Row /\ NoRow \in GoodRow
  BY QueryIdAssumption, TimeoutAssumption
     DEF NoRow, Row, GoodRow, NamesId, Expired, Lifetime, TIMEOUT_BUFFER_MULTIPLIER
<1>4. \A F \in SUBSET ForeignId : [NewContract(F) EXCEPT !.age = 0] \in Contract
  BY TaskAssumption, TimeoutAssumption DEF NewContract, Contract, OldAge
<1>5. BusyHasTask
  BY DEF Init, WMInit, BusyHasTask
<1> QED
  BY <1>1, <1>2, <1>3, <1>4, <1>5 DEF Init, CallInv, TypeOK, PC, Reply, Result

\* The variables of the includer have their types in every behaviour: what is posted
\* has an id and a task, and the repeats of a request and the retries of a message stay
\* within their budgets.
THEOREM BroadcasterTypes == Spec => []TypeOK
<1>1. CallInv => TypeOK
  BY DEF CallInv
<1> QED
  BY CallStart, CallStep, <1>1, PTL DEF Spec

-----------------------------------------------------------------------------
(* A delivery is executed at most once. *)

\* The task of a busy worker is running, and no two workers work on the same one.
TasksApart ==
    /\ \A p \in Worker : mode[p] # "idle" => result[task[p]] = "running"
    /\ \A p, q \in Worker :
          p # q /\ mode[p] # "idle" /\ mode[q] # "idle" => task[p] # task[q]

\* The steps between the start of a task and its report.
Calls(p) ==
    \/ Build(p) \/ ReadId(p) \/ WriteId(p) \/ PostAccepted(p) \/ PostRejected(p)
    \/ PostFails(p) \/ Resend(p) \/ GiveUp(p) \/ Retry(p) \/ Return(p)

\* The steps that end a task, with or without a report.
Ends(p) == AcquireFails(p) \/ End(p) \/ EndLocked(p) \/ Stop(p)

\* The steps of Next, grouped by what they do to the workers' tasks.
LEMMA Steps ==
    ASSUME [Next]_vars
    PROVE  \/ \E t \in Task : Refuse(t)
           \/ \E t \in Task, p \in Worker : Begin(p, t)
           \/ \E p \in Worker, w \in Wallet : Acquired(p, w) \/ NotAcquired(p, w)
           \/ \E p \in Worker : Calls(p)
           \/ \E p \in Worker : Ends(p)
           \/ \E m \in mempool : Execute(m)
           \/ Tick
           \/ UNCHANGED vars
BY DEF Next, Work, Calls, Ends

\* A call leaves the modes, the wallets, the tasks and the results alone, and moves only
\* the worker that makes it.
LEMMA CallFrame ==
    ASSUME TypeOK, NEW p \in Worker, Calls(p)
    PROVE  /\ UNCHANGED <<mode, wallet, task, result, executed, contract, overran>>
           /\ Holding(p)
           /\ \A q \in Worker : q # p => /\ pc'[q] = pc[q]
                                         /\ qid'[q] = qid[q]
                                         /\ reply'[q] = reply[q]
BY DEF Calls, Build, ReadId, WriteId, PostAccepted, PostRejected, PostFails, Resend, GiveUp,
       Retry, Return, Go, At, wmVars, chainVars, TypeOK

\* What ends a task makes its worker idle and its result anything but running, and
\* leaves the others alone.
LEMMA EndFrame ==
    ASSUME CallInv, NEW p \in Worker, Ends(p)
    PROVE  /\ UNCHANGED <<row, chainVars, wallet>>
           /\ mode[p] # "idle"
           /\ mode' = [mode EXCEPT ![p] = "idle"]
           /\ task[p] \in Task
           /\ result' = [result EXCEPT ![task[p]] = result'[task[p]]]
           /\ result'[task[p]] \in {"sent", "empty", "failed", "crashed"}
           /\ result'[task[p]] = "sent" => At(p, "release") /\ reply[p] = "ok"
           /\ \A q \in Worker : q # p => /\ task'[q] = task[q]
                                         /\ pc'[q] = pc[q]
                                         /\ qid'[q] = qid[q]
                                         /\ reply'[q] = reply[q]
<1>1. /\ UNCHANGED <<row, chainVars, wallet>>
      /\ mode[p] # "idle"
      /\ mode' = [mode EXCEPT ![p] = "idle"]
  BY DEF Ends, AcquireFails, End, EndLocked, Stop, At, Holding, NoAvailableWallet, Release,
         ReleaseError, Leaves, Crash
<1>2. task[p] \in Task
  BY <1>1 DEF CallInv, BusyHasTask
<1>3. PICK r : /\ result' = [result EXCEPT ![task[p]] = r]
               /\ r \in {"sent", "empty", "failed", "crashed"}
               /\ r = "sent" => At(p, "release") /\ reply[p] = "ok"
  BY DEF Ends, AcquireFails, End, EndLocked, Stop, Report
<1>4. \A q \in Worker : q # p => /\ task'[q] = task[q]
                                 /\ pc'[q] = pc[q]
                                 /\ qid'[q] = qid[q]
                                 /\ reply'[q] = reply[q]
  BY DEF Ends, AcquireFails, End, EndLocked, Stop, Forget, CallInv, TypeOK
<1>5. result'[task[p]] = r
  BY <1>2, <1>3 DEF CallInv, TypeOK
<1> QED
  BY <1>1, <1>2, <1>3, <1>4, <1>5

\* Every step keeps the workers on tasks of their own.
LEMMA ApartStep == CallInv /\ TasksApart /\ [Next]_vars => TasksApart'
<1> SUFFICES ASSUME CallInv, TasksApart, [Next]_vars
             PROVE  TasksApart'
  OBVIOUS
<1>t. /\ mode \in [Worker -> Mode]
      /\ task \in [Worker -> Task \cup {NoTask}]
      /\ result \in [Task -> Result]
      /\ BusyHasTask
  BY DEF CallInv, TypeOK, WMTypeOK
<1>1. ASSUME NEW t \in Task, Refuse(t)
      PROVE  TasksApart'
  BY <1>1, <1>t DEF Refuse, TasksApart, BusyHasTask, wmVars, callVars
<1>2. ASSUME NEW t \in Task, NEW p \in Worker, Begin(p, t)
      PROVE  TasksApart'
  <2>1. /\ mode[p] = "idle" /\ result[t] = "waiting"
        /\ mode' = [mode EXCEPT ![p] = "acquiring"]
        /\ task' = [task EXCEPT ![p] = t]
        /\ result' = [result EXCEPT ![t] = "running"]
    BY <1>2 DEF Begin, StartAcquire
  <2>2. \A q \in Worker : mode[q] # "idle" => task[q] # t
    BY <2>1 DEF TasksApart
  <2> QED
    BY <1>t, <2>1, <2>2 DEF TasksApart, BusyHasTask
<1>3. ASSUME NEW p \in Worker, NEW w \in Wallet, Acquired(p, w) \/ NotAcquired(p, w)
      PROVE  TasksApart'
  <2>1. UNCHANGED <<task, result>>
    BY <1>3 DEF Acquired, NotAcquired, callVars
  <2>2. \A q \in Worker : mode'[q] # "idle" => mode[q] # "idle"
    BY <1>3, <1>t
       DEF Acquired, NotAcquired, LockGranted, LockRefused, LockError, Asks
  <2> QED
    BY <2>1, <2>2 DEF TasksApart
<1>4. ASSUME NEW p \in Worker, Calls(p)
      PROVE  TasksApart'
  BY <1>4, CallFrame DEF CallInv, TasksApart
<1>5. ASSUME NEW p \in Worker, Ends(p)
      PROVE  TasksApart'
  <2>1. /\ mode' = [mode EXCEPT ![p] = "idle"]
        /\ mode[p] # "idle"
        /\ result' = [result EXCEPT ![task[p]] = result'[task[p]]]
        /\ \A q \in Worker : q # p => task'[q] = task[q]
    BY <1>5, EndFrame
  <2>2. \A q \in Worker : mode'[q] # "idle" =>
           q # p /\ mode[q] # "idle" /\ task'[q] = task[q] /\ task[q] # task[p]
    BY <1>t, <2>1 DEF TasksApart
  <2>3. \A q \in Worker : mode'[q] # "idle" => result'[task[q]] = result[task[q]]
    BY <1>t, <2>1, <2>2 DEF BusyHasTask
  <2> QED
    BY <2>2, <2>3 DEF TasksApart
<1>6. ASSUME NEW m \in mempool, Execute(m)
      PROVE  TasksApart'
  BY <1>6 DEF Execute, TasksApart, wmVars, callVars
<1>7. CASE Tick
  BY <1>7 DEF Tick, WMTick, TasksApart, callVars
<1>8. CASE UNCHANGED vars
  BY <1>8 DEF vars, TasksApart, wmVars, callVars
<1> QED
  BY <1>1, <1>2, <1>3, <1>4, <1>5, <1>6, <1>7, <1>8, Steps

\* How often the actions of a task were executed, or may yet be.
Of(t) == {m \in mempool : m.task = t}
Load(t) == executed[t] + Cardinality(Of(t))

\* The worker has not reached the API yet, was refused, or got no answer: it may post,
\* now or later.
MayPost(p) ==
    \/ mode[p] = "acquiring"
    \/ Holding(p) /\ pc[p] \in {"build", "read", "write", "post"}
    \/ At(p, "reply") /\ reply[p] \in {"throwif36", "lost"}

\* What was sent for a task beyond its first message is made up for by lost answers; as
\* long as its worker may post, so is the first.
OnceInv ==
    /\ IsFiniteSet(mempool)
    /\ \A t \in Task : Load(t) <= 1 + lost[t]
    /\ \A t \in Task : result[t] = "waiting" => Load(t) <= lost[t]
    /\ \A p \in Worker : MayPost(p) => Load(task[p]) <= lost[task[p]]

\* The load of a task is a number.
LEMMA LoadType ==
    ASSUME CallInv, IsFiniteSet(mempool), NEW t \in Task
    PROVE  Load(t) \in Nat /\ IsFiniteSet(Of(t)) /\ Cardinality(Of(t)) \in Nat
<1>1. IsFiniteSet(Of(t))
  BY FS_Subset DEF Of
<1>2. Cardinality(Of(t)) \in Nat
  BY <1>1, FS_CardinalityType
<1>3. executed[t] \in Nat
  BY DEF CallInv, TypeOK
<1> QED
  BY <1>1, <1>2, <1>3 DEF Load

\* Another message adds at most one to the load of its task, and nothing to the others.
LEMMA LoadAdd ==
    ASSUME CallInv, IsFiniteSet(mempool), NEW m, NEW t \in Task,
           mempool' = mempool \cup {m}, executed' = executed
    PROVE  /\ IsFiniteSet(mempool')
           /\ Load(t)' \in Nat
           /\ Load(t)' <= Load(t) + 1
           /\ m.task # t => Load(t)' = Load(t)
<1>1. IsFiniteSet(mempool')
  BY FS_AddElement
<1>2. /\ IsFiniteSet(Of(t)) /\ Cardinality(Of(t)) \in Nat
      /\ executed[t] \in Nat /\ executed'[t] = executed[t]
  BY LoadType DEF CallInv, TypeOK
<1>3. CASE m.task = t
  <2>1. Of(t)' = Of(t) \cup {m}
    BY <1>3 DEF Of
  <2>2. Cardinality(Of(t)') \in {Cardinality(Of(t)), Cardinality(Of(t)) + 1}
    BY <1>2, <2>1, FS_AddElement
  <2> QED
    BY <1>1, <1>2, <1>3, <2>2 DEF Load
<1>4. CASE m.task # t
  <2>1. Of(t)' = Of(t)
    BY <1>4 DEF Of
  <2> QED
    BY <1>1, <1>2, <2>1 DEF Load
<1> QED
  BY <1>3, <1>4

\* A block turns a waiting message into an execution, or drops it: no load grows.
LEMMA LoadExecute ==
    ASSUME CallInv, IsFiniteSet(mempool), NEW m \in mempool, Execute(m), NEW t \in Task
    PROVE  /\ IsFiniteSet(mempool')
           /\ Load(t)' \in Nat
           /\ Load(t)' <= Load(t)
<1>1. /\ mempool' = mempool \ {m}
      /\ m.task \in Task
      /\ executed \in [Task -> Nat]
      /\ \/ executed' = executed
         \/ executed' = [executed EXCEPT ![m.task] = @ + 1]
  BY DEF Execute, CallInv, TypeOK, Message
<1>2. IsFiniteSet(mempool')
  BY <1>1, FS_RemoveElement
<1>3. /\ IsFiniteSet(Of(t)) /\ Cardinality(Of(t)) \in Nat /\ executed[t] \in Nat
  BY <1>1, LoadType
<1>4. CASE m.task = t
  <2>1. m \in Of(t) /\ Of(t)' = Of(t) \ {m}
    BY <1>1, <1>4 DEF Of
  <2>2. Cardinality(Of(t)') = Cardinality(Of(t)) - 1 /\ Cardinality(Of(t)') \in Nat
    <3>1. IsFiniteSet(Of(t) \ {m}) /\ Cardinality(Of(t) \ {m}) = Cardinality(Of(t)) - 1
      BY <1>3, <2>1, FS_RemoveElement
    <3> QED
      BY <2>1, <3>1, FS_CardinalityType
  <2>3. executed'[t] \in Nat /\ executed'[t] <= executed[t] + 1
    BY <1>1, <1>4
  <2> QED
    BY <1>2, <1>3, <2>2, <2>3 DEF Load
<1>5. CASE m.task # t
  <2>1. Of(t)' = Of(t) /\ executed'[t] = executed[t]
    BY <1>1, <1>5 DEF Of
  <2> QED
    BY <1>2, <1>3, <2>1 DEF Load
<1> QED
  BY <1>4, <1>5

\* Every step keeps the account: only a request that was accepted without an answer lets
\* a task be posted again.
LEMMA OnceStep == CallInv /\ TasksApart /\ OnceInv /\ [Next]_vars => OnceInv'
<1> SUFFICES ASSUME CallInv, TasksApart, OnceInv, [Next]_vars
             PROVE  OnceInv'
  OBVIOUS
<1>t. /\ mode \in [Worker -> Mode]
      /\ task \in [Worker -> Task \cup {NoTask}]
      /\ pc \in [Worker -> PC]
      /\ reply \in [Worker -> Reply]
      /\ result \in [Task -> Result]
      /\ lost \in [Task -> Nat]
      /\ BusyHasTask
      /\ IsFiniteSet(mempool)
  BY DEF CallInv, TypeOK, WMTypeOK, OnceInv
<1>b. \A p \in Worker : MayPost(p) => mode[p] # "idle" /\ task[p] \in Task
  BY <1>t DEF MayPost, At, Holding, BusyHasTask
<1>k. ASSUME UNCHANGED <<executed, mempool, lost>>,
             \A t \in Task : result'[t] = "waiting" => result[t] = "waiting",
             \A q \in Worker : MayPost(q)' => MayPost(q) /\ task'[q] = task[q]
      PROVE  OnceInv'
  BY <1>k DEF OnceInv, Load, Of
<1>1. ASSUME NEW t \in Task, Refuse(t)
      PROVE  OnceInv'
  <2>1. \A u \in Task : result'[u] = "waiting" => result[u] = "waiting"
    BY <1>1, <1>t DEF Refuse
  <2> QED
    BY <1>1, <1>k, <2>1 DEF Refuse, MayPost, At, Holding, wmVars, callVars, chainVars
<1>2. ASSUME NEW t \in Task, NEW p \in Worker, Begin(p, t)
      PROVE  OnceInv'
  <2>1. /\ mode[p] = "idle" /\ result[t] = "waiting"
        /\ mode' = [mode EXCEPT ![p] = "acquiring"]
        /\ task' = [task EXCEPT ![p] = t]
        /\ result' = [result EXCEPT ![t] = "running"]
        /\ UNCHANGED <<pc, reply, executed, mempool, lost>>
    BY <1>2 DEF Begin, StartAcquire, chainVars
  <2>2. \A u \in Task : result'[u] = "waiting" => result[u] = "waiting"
    BY <1>t, <2>1
  <2>3. \A q \in Worker : q # p =>
           task'[q] = task[q] /\ (MayPost(q)' => MayPost(q))
    BY <1>t, <2>1 DEF MayPost, At, Holding
  <2>4. task'[p] = t /\ Load(t) <= lost[t]
    BY <1>t, <2>1 DEF OnceInv
  <2>5. \A q \in Worker : MayPost(q)' => Load(task'[q]) <= lost[task'[q]]
    BY <2>3, <2>4 DEF OnceInv
  <2> QED
    BY <2>1, <2>2, <2>5 DEF OnceInv, Load, Of
<1>3. ASSUME NEW p \in Worker, NEW w \in Wallet, Acquired(p, w) \/ NotAcquired(p, w)
      PROVE  OnceInv'
  <2>1. UNCHANGED <<task, reply, result, executed, mempool, lost>>
    BY <1>3 DEF Acquired, NotAcquired, callVars, chainVars
  <2>2. \A q \in Worker : MayPost(q)' => MayPost(q)
    BY <1>3, <1>t
       DEF Acquired, NotAcquired, LockGranted, LockRefused, LockError, Asks, MayPost, At,
           Holding, callVars
  <2> QED
    BY <1>k, <2>1, <2>2
<1>4. ASSUME NEW p \in Worker, PostAccepted(p)
      PROVE  OnceInv'
  <2>1. /\ UNCHANGED <<mode, task, result, executed>>
        /\ Holding(p)
        /\ \A q \in Worker : q # p => pc'[q] = pc[q] /\ reply'[q] = reply[q]
    BY <1>4, CallFrame DEF Calls, CallInv
  <2>2. PICK r \in {"ok", "error", "lost"} :
           /\ Go(p, "reply", r)
           /\ lost' = [lost EXCEPT ![task[p]] = IF r = "lost" THEN @ + 1 ELSE @]
    BY <1>4 DEF PostAccepted
  <2>3. /\ mempool' = mempool \cup {MessageOf(p)}
        /\ pc[p] = "post" /\ pc'[p] = "reply" /\ reply'[p] = r
    BY <1>4, <1>t, <2>2 DEF PostAccepted, Go, At
  <2>4. MayPost(p) /\ MessageOf(p).task = task[p]
    BY <2>1, <2>3 DEF MayPost, MessageOf
  <2>5. task[p] \in Task /\ mode[p] # "idle" /\ Load(task[p]) <= lost[task[p]]
    BY <1>b, <2>4 DEF OnceInv
  <2>6. ASSUME NEW u \in Task
        PROVE  /\ IsFiniteSet(mempool')
               /\ Load(u) \in Nat /\ Load(u)' \in Nat
               /\ Load(u)' <= Load(u) + 1
               /\ u # task[p] => Load(u)' = Load(u)
    BY <1>t, <2>1, <2>3, <2>4, LoadAdd, LoadType
  <2>7. ASSUME NEW u \in Task
        PROVE  /\ lost[u] \in Nat
               /\ lost'[u] = IF u = task[p] /\ r = "lost" THEN lost[u] + 1 ELSE lost[u]
    BY <1>t, <2>2
  <2>8. \A q \in Worker : MayPost(q)' =>
           \/ q = p /\ r = "lost"
           \/ q # p /\ MayPost(q) /\ task[q] \in Task /\ task[q] # task[p]
    BY <1>b, <2>1, <2>3, <2>5 DEF MayPost, At, Holding, TasksApart
  <2>9. \A u \in Task : Load(u)' <= 1 + lost'[u]
    BY <2>5, <2>6, <2>7 DEF OnceInv
  <2>10. \A u \in Task : result'[u] = "waiting" => Load(u)' <= lost'[u]
    <3>1. \A u \in Task : result[u] = "waiting" => u # task[p]
      BY <2>5 DEF TasksApart
    <3> QED
      BY <2>1, <2>6, <2>7, <3>1 DEF OnceInv
  <2>11. \A q \in Worker : MayPost(q)' => (Load(task[q]) <= lost[task[q]])'
    <3>1. ASSUME NEW q \in Worker, MayPost(q)'
          PROVE  Load(task[q])' <= lost'[task[q]]
      <4>1. CASE q = p /\ r = "lost"
        BY <2>1, <2>5, <2>6, <2>7, <4>1
      <4>2. CASE q # p /\ MayPost(q) /\ task[q] \in Task /\ task[q] # task[p]
        BY <2>1, <2>6, <2>7, <4>2 DEF OnceInv
      <4> QED
        BY <2>8, <3>1, <4>1, <4>2
    <3> QED
      BY <2>1, <3>1
  <2> QED
    BY <2>5, <2>6, <2>9, <2>10, <2>11 DEF OnceInv
<1>5. ASSUME NEW p \in Worker, Calls(p), ~PostAccepted(p)
      PROVE  OnceInv'
  <2>1. /\ UNCHANGED <<mode, task, result, executed>>
        /\ Holding(p)
        /\ \A q \in Worker : q # p => pc'[q] = pc[q] /\ reply'[q] = reply[q]
    BY <1>5, CallFrame DEF Calls, CallInv
  <2>2. mempool' = mempool /\ lost' = lost
    BY <1>5 DEF Calls, Build, ReadId, WriteId, PostRejected, PostFails, Resend, GiveUp, Retry,
                Return, chainVars
  <2>3. MayPost(p)' => MayPost(p)
    BY <1>5, <1>t, <2>1
       DEF Calls, Build, ReadId, WriteId, PostRejected, PostFails, Resend, GiveUp, Retry,
           Retriable, Return, Go, MayPost, At, Holding
  <2>4. \A q \in Worker : MayPost(q)' => MayPost(q)
    BY <2>1, <2>3 DEF MayPost, At, Holding
  <2> QED
    BY <1>k, <2>1, <2>2, <2>4
<1>6. ASSUME NEW p \in Worker, Ends(p)
      PROVE  OnceInv'
  <2>1. /\ UNCHANGED <<executed, mempool, lost>>
        /\ mode' = [mode EXCEPT ![p] = "idle"]
        /\ result' = [result EXCEPT ![task[p]] = result'[task[p]]]
        /\ result'[task[p]] # "waiting"
        /\ \A q \in Worker : q # p =>
              task'[q] = task[q] /\ pc'[q] = pc[q] /\ reply'[q] = reply[q]
    BY <1>6, EndFrame DEF chainVars
  <2>2. \A u \in Task : result'[u] = "waiting" => result[u] = "waiting"
    BY <1>t, <2>1
  <2>3. \A q \in Worker : MayPost(q)' => q # p /\ MayPost(q)
    BY <1>t, <2>1 DEF MayPost, At, Holding
  <2> QED
    BY <1>k, <2>1, <2>2, <2>3
<1>7. ASSUME NEW m \in mempool, Execute(m)
      PROVE  OnceInv'
  <2>1. UNCHANGED <<mode, task, pc, reply, result, lost>>
    BY <1>7 DEF Execute, wmVars, callVars
  <2>2. ASSUME NEW u \in Task
        PROVE  /\ IsFiniteSet(mempool')
               /\ Load(u) \in Nat /\ Load(u)' \in Nat /\ Load(u)' <= Load(u)
               /\ lost[u] \in Nat
    BY <1>7, <1>t, LoadExecute, LoadType
  <2>3. \A q \in Worker : MayPost(q)' => MayPost(q) /\ task[q] \in Task
    BY <1>b, <2>1 DEF MayPost, At, Holding
  <2>4. m.task \in Task
    BY DEF CallInv, TypeOK, Message
  <2>5. \A u \in Task : (Load(u) <= 1 + lost[u])' /\ ((result[u] = "waiting" => Load(u) <= lost[u])')
    BY <2>1, <2>2 DEF OnceInv
  <2>6. ASSUME NEW q \in Worker, MayPost(q)'
        PROVE  Load(task[q])' <= lost'[task[q]]
    BY <2>1, <2>2, <2>3, <2>6 DEF OnceInv
  <2> QED
    BY <2>1, <2>2, <2>4, <2>5, <2>6 DEF OnceInv
<1>8. CASE Tick
  BY <1>8, <1>k DEF Tick, WMTick, MayPost, At, Holding, callVars
<1>9. CASE UNCHANGED vars
  BY <1>9, <1>k DEF vars, MayPost, At, Holding, wmVars, callVars, chainVars
<1> QED
  BY <1>1, <1>2, <1>3, <1>4, <1>5, <1>6, <1>7, <1>8, <1>9, Steps

\* One delivery of a task is executed at most once, and once more for every answer that
\* was lost, for every number of HTTP repeats, however many attempts send_to_chain makes,
\* whatever crashes and however long a worker takes.
THEOREM ExecutedAtMostOnce == Spec => []ExecutedOnce
<1>1. Init => TasksApart /\ OnceInv
  <2> SUFFICES ASSUME Init
               PROVE  TasksApart /\ OnceInv
    OBVIOUS
  <2>1. IsFiniteSet(mempool) /\ \A t \in Task : Load(t) = 0 /\ lost[t] = 0
    <3>1. mempool = {} /\ \A t \in Task : executed[t] = 0 /\ lost[t] = 0
      BY DEF Init
    <3>2. \A t \in Task : Of(t) = {}
      BY <3>1 DEF Of
    <3> QED
      BY <3>1, <3>2, FS_EmptySet DEF Load
  <2>2. \A p \in Worker : mode[p] = "idle"
    BY DEF Init, WMInit
  <2> QED
    BY <2>1, <2>2 DEF TasksApart, OnceInv, MayPost, At, Holding
<1>2. CallInv /\ TasksApart /\ OnceInv /\ [Next]_vars => OnceInv'
  BY OnceStep
<1>3. CallInv /\ OnceInv => ExecutedOnce
  <2> SUFFICES ASSUME CallInv, OnceInv, NEW t \in Task
               PROVE  executed[t] <= 1 + lost[t]
    BY DEF ExecutedOnce
  <2>1. executed[t] \in Nat /\ lost[t] \in Nat /\ Cardinality(Of(t)) \in Nat
    BY LoadType DEF OnceInv, CallInv, TypeOK
  <2>2. executed[t] + Cardinality(Of(t)) <= 1 + lost[t]
    BY DEF OnceInv, Load
  <2> QED
    BY <2>1, <2>2
<1> QED
  BY CallStart, CallStep, ApartStep, <1>1, <1>2, <1>3, PTL DEF Spec

-----------------------------------------------------------------------------
(* Messages in flight have ids of their own. *)

\* The worker has written its id, and may yet post it.
Posting(p) == At(p, "post") \/ (At(p, "reply") /\ reply[p] = "lost")

\* The id next() has computed starts an epoch of a wallet without a live row, or comes
\* after the one in its row.
IdToWrite(p) ==
    \/ qid[p] = FirstId /\ row[wallet[p]].ttl < 0
    \/ /\ qid[p] # FirstId
       /\ row[wallet[p]].ttl >= 0
       /\ query_id(qid[p]) > query_id(row[wallet[p]])

\* The id to post is the one in the wallet's row, and nobody else has posted it.
IdToPost(p) ==
    /\ row[wallet[p]].ttl >= 0
    /\ query_id(qid[p]) = query_id(row[wallet[p]])
    /\ \A m \in mempool : m.wallet = wallet[p] /\ m.qid = qid[p] => m = MessageOf(p)

IdInUse(p) == /\ At(p, "write") => IdToWrite(p)
              /\ Posting(p) => IdToPost(p)

\* A message that waits for its block belongs to the epoch of its wallet's row, which
\* has come as far as its id, and the wallet will accept it.
InFlight(m) ==
    /\ row[m.wallet].ttl >= 0
    /\ query_id(m.qid) <= query_id(row[m.wallet])
    /\ ~Rejects(contract[m.wallet], m.qid)

\* In flight, two messages of a wallet with the same id are the same.
Apart == \A m, n \in mempool : m.wallet = n.wallet /\ m.qid = n.qid => m = n

FlightInv ==
    ~overran =>
        /\ \A p \in Worker : IdInUse(p)
        /\ \A m \in mempool : InFlight(m)
        /\ Apart

\* Without a change to the rows, the mempool and the contracts the invariant lasts, if
\* no worker comes to a point where it needs an id.
LEMMA FlightFrame ==
    ASSUME FlightInv, UNCHANGED <<row, mempool, contract>>, overran' = overran,
           \A p \in Worker :
              /\ At(p, "write")' \/ Posting(p)' => UNCHANGED <<qid[p], wallet[p], task[p]>>
              /\ At(p, "write")' => At(p, "write")
              /\ Posting(p)' => Posting(p)
    PROVE  FlightInv'
<1> SUFFICES ASSUME ~overran
             PROVE  (/\ \A p \in Worker : IdInUse(p)
                     /\ \A m \in mempool : InFlight(m)
                     /\ Apart)'
  BY DEF FlightInv
<1>1. ASSUME NEW p \in Worker
      PROVE  IdInUse(p)'
  <2>1. IdInUse(p)
    BY DEF FlightInv
  <2>2. At(p, "write")' => IdToWrite(p)'
    BY <2>1 DEF IdInUse, IdToWrite
  <2>3. Posting(p)' => IdToPost(p)'
    BY <2>1 DEF IdInUse, IdToPost, MessageOf
  <2> QED
    BY <2>2, <2>3 DEF IdInUse
<1>2. (\A m \in mempool : InFlight(m))' /\ Apart'
  BY DEF FlightInv, InFlight, Apart
<1> QED
  BY <1>1, <1>2

\* Every step keeps the ids of the messages in flight apart, as long as the workers have
\* the wallets to themselves.
LEMMA FlightStep ==
    CallInv /\ ExclusiveAccess /\ FlightInv /\ [Next]_vars => FlightInv'
<1> SUFFICES ASSUME CallInv, ExclusiveAccess, FlightInv, [Next]_vars
             PROVE  FlightInv'
  OBVIOUS
<1>t. /\ mode \in [Worker -> Mode]
      /\ wallet \in [Worker -> Wallet]
      /\ task \in [Worker -> Task \cup {NoTask}]
      /\ pc \in [Worker -> PC]
      /\ qid \in [Worker -> QueryId]
      /\ reply \in [Worker -> Reply]
      /\ row \in [Wallet -> GoodRow]
      /\ contract \in [Wallet -> Contract]
      /\ mempool \subseteq Message
      /\ \A w \in Wallet : row[w].ttl \in Int /\ (row[w].ttl >= 0 => query_id(row[w]) \in Nat)
  <2>1. \A r \in GoodRow : r.ttl \in Int /\ (r.ttl >= 0 => query_id(r) \in Nat)
    BY LiveRow
  <2> QED
    BY <2>1 DEF CallInv, TypeOK, WMTypeOK
<1>1. ASSUME NEW t \in Task, Refuse(t)
      PROVE  FlightInv'
  BY <1>1, FlightFrame DEF Refuse, Posting, At, Holding, wmVars, callVars, chainVars
<1>2. ASSUME NEW t \in Task, NEW p \in Worker, Begin(p, t)
      PROVE  FlightInv'
  BY <1>2, <1>t, FlightFrame DEF Begin, StartAcquire, Posting, At, Holding, chainVars
<1>3. ASSUME NEW p \in Worker, NEW w \in Wallet, Acquired(p, w) \/ NotAcquired(p, w)
      PROVE  FlightInv'
  BY <1>3, <1>t, FlightFrame
     DEF Acquired, NotAcquired, LockGranted, LockRefused, LockError, Asks, Posting, At, Holding,
         callVars, chainVars
<1>4. ASSUME NEW p \in Worker, Ends(p)
      PROVE  FlightInv'
  <2>1. /\ UNCHANGED <<row, mempool, contract, overran, wallet>>
        /\ mode' = [mode EXCEPT ![p] = "idle"]
        /\ \A q \in Worker : q # p => /\ task'[q] = task[q]
                                      /\ pc'[q] = pc[q]
                                      /\ qid'[q] = qid[q]
                                      /\ reply'[q] = reply[q]
    BY <1>4, EndFrame DEF chainVars
  <2> QED
    BY <1>t, <2>1, FlightFrame DEF Posting, At, Holding
<1>5. ASSUME NEW p \in Worker,
             \/ Build(p) \/ PostRejected(p) \/ PostFails(p) \/ Resend(p) \/ GiveUp(p)
             \/ Retry(p) \/ Return(p)
      PROVE  FlightInv'
  <2>1. /\ UNCHANGED <<mode, wallet, task, qid, row, mempool, contract, overran>>
        /\ \A q \in Worker : q # p => pc'[q] = pc[q] /\ reply'[q] = reply[q]
    BY <1>5, <1>t
       DEF Build, PostRejected, PostFails, Resend, GiveUp, Retry, Return, Go, wmVars, chainVars
  <2>2. ~At(p, "write")'
    BY <1>5, <1>t
       DEF Build, PostRejected, PostFails, Resend, GiveUp, Retry, Return, Go, At
  <2>3. Posting(p)' => Posting(p)
    BY <1>5, <1>t, <2>1
       DEF Build, PostRejected, PostFails, Resend, GiveUp, Retry, Return, Go, At, Posting
  <2>4. \A q \in Worker : q # p =>
           (At(q, "write")' => At(q, "write")) /\ (Posting(q)' => Posting(q))
    BY <2>1 DEF At, Posting, Holding
  <2> QED
    BY <2>1, <2>2, <2>3, <2>4, FlightFrame
<1>6. ASSUME NEW p \in Worker, ReadId(p)
      PROVE  FlightInv'
  <2>1. /\ UNCHANGED <<mode, wallet, task, row, mempool, contract, overran>>
        /\ \A q \in Worker : q # p =>
              pc'[q] = pc[q] /\ reply'[q] = reply[q] /\ qid'[q] = qid[q]
    BY <1>6, <1>t DEF ReadId, Go, wmVars, chainVars
  <2>2. ~Posting(p)'
    BY <1>6, <1>t DEF ReadId, Go, Posting, At
  <2>3. At(p, "write")' => IdToWrite(p)'
    <3> SUFFICES ASSUME At(p, "write")'
                 PROVE  IdToWrite(p)'
      OBVIOUS
    <3> DEFINE r == row[wallet[p]]
               force == force_shift_increase(p)
    <3>1. /\ ~NextFails(get_query_id(r), force)
          /\ qid'[p] = NextId(get_query_id(r), force)
      BY <1>6, <1>t DEF ReadId, Go, At
    <3>2. r \in GoodRow /\ force \in BOOLEAN /\ r.ttl \in Int
      BY <1>t DEF force_shift_increase
    <3> HIDE DEF r, force
    <3>3. CASE r.ttl >= 0
      <4>1. qid'[p] # FirstId /\ query_id(qid'[p]) > query_id(r)
        BY <3>1, <3>2, <3>3, AllottedLive
      <4> QED
        BY <2>1, <3>3, <4>1 DEF IdToWrite, r
    <3>4. CASE ~(r.ttl >= 0)
      <4>1. qid'[p] = FirstId
        BY <3>1, <3>2, <3>4, AllottedExpired
      <4> QED
        BY <2>1, <3>2, <3>4, <4>1 DEF IdToWrite, r
    <3> QED
      BY <3>3, <3>4
  <2>4. ASSUME ~overran', NEW q \in Worker, q # p
        PROVE  IdInUse(q)'
    BY <2>1, <2>4
       DEF FlightInv, IdInUse, IdToWrite, IdToPost, MessageOf, Posting, At, Holding
  <2> QED
    BY <2>1, <2>2, <2>3, <2>4 DEF FlightInv, IdInUse, InFlight, Apart
<1>7. ASSUME NEW p \in Worker, WriteId(p)
      PROVE  FlightInv'
  <2> SUFFICES ASSUME ~overran
               PROVE  (/\ \A q \in Worker : IdInUse(q)
                       /\ \A m \in mempool : InFlight(m)
                       /\ Apart)'
    BY <1>7 DEF WriteId, FlightInv, chainVars
  <2>1. /\ UNCHANGED <<mode, wallet, task, qid, mempool, contract>>
        /\ \A q \in Worker : q # p => pc'[q] = pc[q] /\ reply'[q] = reply[q]
        /\ Holding(p)
    BY <1>7, <1>t DEF WriteId, Go, At, wmVars, chainVars
  <2> DEFINE r == row[wallet[p]]
             s == Store(r, qid[p])
  <2>2. /\ row' = row \/ row' = [row EXCEPT ![wallet[p]] = s]
        /\ Posting(p)' => row' = [row EXCEPT ![wallet[p]] = s]
        /\ ~At(p, "write")'
    BY <1>7, <1>t DEF WriteId, Stored, Go, At, Posting
  <2>3. r \in GoodRow /\ qid[p] \in QueryId /\ wallet[p] \in Wallet /\ query_id(qid[p]) \in Nat
    BY <1>t, FirstIdIsZero
  <2>4. IdToWrite(p)
    BY <1>7 DEF WriteId, FlightInv, IdInUse
  <2>5. /\ s.ttl >= 0
        /\ query_id(s) = query_id(qid[p])
    <3>1. /\ s.ttl = IF qid[p] = FirstId THEN Lifetime ELSE r.ttl
          /\ query_id(s) = query_id(qid[p])
      BY <2>3, StoreEffect
    <3>2. Lifetime >= 0
      BY TimeoutAssumption DEF Lifetime, TIMEOUT_BUFFER_MULTIPLIER
    <3> QED
      BY <2>4, <3>1, <3>2 DEF IdToWrite
  <2>6. ASSUME NEW m \in mempool, m.wallet = wallet[p]
        PROVE  query_id(m.qid) < query_id(qid[p])
    <3>1. r.ttl >= 0 /\ query_id(m.qid) <= query_id(r) /\ m.qid \in QueryId /\ r.ttl \in Int
      BY <1>t, <2>6 DEF FlightInv, InFlight, Message
    <3>2. query_id(qid[p]) > query_id(r)
      BY <2>4, <3>1 DEF IdToWrite
    <3>3. query_id(m.qid) \in Nat /\ query_id(r) \in Nat
      BY <1>t, <3>1, FirstIdIsZero
    <3> QED
      BY <2>3, <3>1, <3>2, <3>3
  <2>7. ASSUME NEW q \in Worker, q # p
        PROVE  IdInUse(q)'
    <3>1. Holding(q) => row'[wallet[q]] = row[wallet[q]]
      BY <1>t, <2>1, <2>2, <2>7 DEF ExclusiveAccess
    <3>2. IdInUse(q)
      BY DEF FlightInv
    <3> QED
      BY <2>1, <2>7, <3>1, <3>2
         DEF IdInUse, IdToWrite, IdToPost, MessageOf, Posting, At, Holding
  <2> HIDE DEF r, s
  <2>8. Posting(p)' => IdToPost(p)'
    <3> SUFFICES ASSUME Posting(p)'
                 PROVE  IdToPost(p)'
      OBVIOUS
    <3>1. row'[wallet[p]] = s
      BY <1>t, <2>2
    <3>2. \A m \in mempool : m.wallet = wallet[p] => m.qid # qid[p]
      BY <2>3, <2>6
    <3> QED
      BY <2>1, <2>5, <3>1, <3>2 DEF IdToPost
  <2>9. ASSUME NEW m \in mempool
        PROVE  InFlight(m)'
    <3>1. InFlight(m) /\ m.wallet \in Wallet /\ m.qid \in QueryId
      BY <1>t DEF FlightInv, Message
    <3>2. CASE row'[m.wallet] = row[m.wallet]
      BY <2>1, <3>1, <3>2 DEF InFlight
    <3>3. CASE m.wallet = wallet[p] /\ row'[m.wallet] = s
      <4>1. query_id(m.qid) <= query_id(s)
        BY <2>3, <2>5, <2>6, <3>1, <3>3, FirstIdIsZero
      <4> QED
        BY <2>1, <2>5, <3>1, <3>3, <4>1 DEF InFlight
    <3> QED
      BY <1>t, <2>2, <3>1, <3>2, <3>3
  <2> QED
    BY <2>1, <2>2, <2>7, <2>8, <2>9 DEF IdInUse, FlightInv, Apart
<1>8. ASSUME NEW p \in Worker, PostAccepted(p)
      PROVE  FlightInv'
  <2> SUFFICES ASSUME ~overran
               PROVE  (/\ \A q \in Worker : IdInUse(q)
                       /\ \A m \in mempool : InFlight(m)
                       /\ Apart)'
    BY <1>8 DEF PostAccepted, FlightInv
  <2>1. /\ UNCHANGED <<mode, wallet, task, qid, row, contract>>
        /\ \A q \in Worker : q # p => pc'[q] = pc[q] /\ reply'[q] = reply[q]
        /\ mempool' = mempool \cup {MessageOf(p)}
        /\ Holding(p) /\ Posting(p) /\ ~At(p, "write")'
        /\ ~Rejects(contract[wallet[p]], qid[p])
    BY <1>8, <1>t DEF PostAccepted, Go, At, Posting, wmVars
  <2>2. IdToPost(p)
    BY <2>1 DEF FlightInv, IdInUse
  <2>3. IdToPost(p)'
    BY <2>1, <2>2 DEF IdToPost, MessageOf
  <2>4. ASSUME NEW q \in Worker, q # p
        PROVE  IdInUse(q)'
    <3>1. Holding(q) => MessageOf(p).wallet # wallet[q]
      BY <2>1, <2>4 DEF ExclusiveAccess, MessageOf
    <3>2. IdInUse(q)
      BY DEF FlightInv
    <3> QED
      BY <2>1, <2>4, <3>1, <3>2
         DEF IdInUse, IdToWrite, IdToPost, MessageOf, Posting, At, Holding
  <2>5. InFlight(MessageOf(p))'
    <3>1. MessageOf(p)' = MessageOf(p)
      BY <2>1 DEF MessageOf
    <3>2. query_id(qid[p]) \in Nat
      BY <1>t, FirstIdIsZero
    <3> QED
      BY <2>1, <2>2, <3>1, <3>2 DEF InFlight, IdToPost, MessageOf
  <2>6. \A m \in mempool : InFlight(m)'
    BY <2>1 DEF FlightInv, InFlight
  <2>7. Apart'
    BY <2>1, <2>2 DEF FlightInv, Apart, IdToPost, MessageOf
  <2>8. MessageOf(p)' = MessageOf(p)
    BY <2>1 DEF MessageOf
  <2>9. IdInUse(p)'
    BY <2>1, <2>3 DEF IdInUse
  <2> QED
    BY <2>1, <2>4, <2>5, <2>6, <2>7, <2>8, <2>9
<1>9. ASSUME NEW m \in mempool, Execute(m)
      PROVE  FlightInv'
  <2> SUFFICES ASSUME ~overran
               PROVE  (/\ \A q \in Worker : IdInUse(q)
                       /\ \A n \in mempool : InFlight(n)
                       /\ Apart)'
    BY <1>9 DEF Execute, FlightInv
  <2>1. /\ UNCHANGED <<mode, wallet, task, pc, qid, reply, row>>
        /\ mempool' = mempool \ {m}
    BY <1>9 DEF Execute, wmVars, callVars
  <2>2. contract' = [contract EXCEPT ![m.wallet] = Accept(@, m.qid)]
    BY <1>9 DEF Execute, FlightInv, InFlight
  <2>3. \A q \in Worker : IdInUse(q)'
    BY <2>1 DEF FlightInv, IdInUse, IdToWrite, IdToPost, MessageOf, Posting, At, Holding
  <2>4. ASSUME NEW n \in mempool, n # m
        PROVE  InFlight(n)'
    <3>1. /\ n.wallet \in Wallet /\ n.qid \in QueryId
          /\ m.wallet \in Wallet /\ m.qid \in QueryId
      BY <1>t DEF Message
    <3>2. InFlight(n)
      BY DEF FlightInv
    <3>3. ~Rejects(contract'[n.wallet], n.qid)
      <4>1. CASE n.wallet # m.wallet
        BY <1>t, <2>2, <3>1, <3>2, <4>1 DEF InFlight
      <4>2. CASE n.wallet = m.wallet
        <5>1. n.qid # m.qid
          BY <2>4, <4>2 DEF FlightInv, Apart
        <5>2. contract'[n.wallet] = Accept(contract[m.wallet], m.qid)
          BY <1>t, <2>2, <3>1, <4>2
        <5> QED
          BY <1>t, <3>1, <3>2, <4>2, <5>1, <5>2, AcceptEffect DEF InFlight
      <4> QED
        BY <4>1, <4>2
    <3> QED
      BY <2>1, <3>2, <3>3 DEF InFlight
  <2> QED
    BY <2>1, <2>3, <2>4 DEF FlightInv, Apart
<1>10. CASE Tick
  <2> SUFFICES ASSUME ~overran'
               PROVE  (/\ \A q \in Worker : IdInUse(q)
                       /\ \A m \in mempool : InFlight(m)
                       /\ Apart)'
    BY DEF FlightInv
  <2>1. /\ UNCHANGED <<mode, wallet, task, pc, qid, reply>>
        /\ mempool' = {} /\ mempool = {}
        /\ row' = [w \in Wallet |-> RowTick(row[w])]
        /\ ~overran
        /\ \A p \in Worker : HasId(p) => ~(row'[wallet[p]].ttl < 0)
    BY <1>10 DEF Tick, WMTick, callVars
  <2>2. ASSUME NEW p \in Worker
        PROVE  IdInUse(p)'
    <3> DEFINE r == row[wallet[p]]
    <3>1. /\ r \in GoodRow
          /\ row'[wallet[p]] = RowTick(r)
      BY <1>t, <2>1
    <3>2. /\ RowTick(r) \in GoodRow
          /\ query_id(RowTick(r)) = query_id(r)
          /\ RowTick(r).ttl = IF r.ttl > -1 THEN r.ttl - 1 ELSE r.ttl
      BY <3>1, RowTickEffect
    <3>3. RowTick(r).ttl \in Int /\ r.ttl \in Int
      BY <1>t, <3>2, LiveRow
    <3>4. IdInUse(p)
      BY <2>1 DEF FlightInv
    <3>5. At(p, "write")' => IdToWrite(p)'
      <4> SUFFICES ASSUME At(p, "write")'
                   PROVE  IdToWrite(p)'
        OBVIOUS
      <4>1. At(p, "write") /\ IdToWrite(p)
        BY <2>1, <3>4 DEF At, Holding, IdInUse
      <4>2. CASE qid[p] = FirstId
        <5>1. r.ttl < 0
          BY <4>1, <4>2 DEF IdToWrite
        <5>2. RowTick(r).ttl < 0
          BY <3>2, <3>3, <5>1
        <5> QED
          BY <2>1, <3>1, <4>2, <5>2 DEF IdToWrite
      <4>3. CASE qid[p] # FirstId
        <5>1. HasId(p)
          BY <4>1, <4>3 DEF HasId
        <5>2. RowTick(r).ttl >= 0
          BY <2>1, <3>1, <3>3, <5>1
        <5> QED
          BY <2>1, <3>1, <3>2, <4>1, <4>3, <5>2 DEF IdToWrite
      <4> QED
        BY <4>2, <4>3
    <3>6. Posting(p)' => IdToPost(p)'
      <4> SUFFICES ASSUME Posting(p)'
                   PROVE  IdToPost(p)'
        OBVIOUS
      <4>1. Posting(p) /\ IdToPost(p)
        BY <2>1, <3>4 DEF Posting, At, Holding, IdInUse
      <4>2. HasId(p)
        BY <4>1 DEF HasId, Posting
      <4>3. RowTick(r).ttl >= 0
        BY <2>1, <3>1, <3>3, <4>2
      <4> QED
        BY <2>1, <3>1, <3>2, <4>1, <4>3 DEF IdToPost
    <3> QED
      BY <3>5, <3>6 DEF IdInUse
  <2> QED
    BY <2>1, <2>2 DEF Apart
<1>11. CASE UNCHANGED vars
  BY <1>11, FlightFrame DEF vars, Posting, At, Holding, wmVars, callVars, chainVars
<1> QED
  BY <1>1, <1>2, <1>3, <1>4, <1>5, <1>6, <1>7, <1>8, <1>9, <1>10, <1>11, Steps DEF Calls

\* No two messages of a wallet wait for a block with the same id, whatever crashes,
\* faults, retries and repeated requests there are, if no worker holds a wallet for as
\* long as its key lives and no row has expired while an id of it was in use.
THEOREM InFlightApart ==
    ASSUME HoldLimit < LockTTL
    PROVE  Spec => []DistinctInFlight
<1>1. Init => FlightInv
  BY DEF Init, WMInit, FlightInv, IdInUse, Posting, At, Holding, Apart
<1>2. CallInv /\ ExclusiveAccess /\ FlightInv /\ [Next]_vars => FlightInv'
  BY FlightStep
<1>3. FlightInv => DistinctInFlight
  BY DEF FlightInv, Apart, DistinctInFlight
<1> QED
  BY CallStart, CallStep, BroadcasterExclusive, <1>1, <1>2, <1>3, PTL DEF Spec

-----------------------------------------------------------------------------
(* What is reported as sent is executed. *)

\* The task was executed, or waits for its block.
Delivered(t) == executed[t] > 0 \/ \E m \in mempool : m.task = t

\* The API has taken the message of a worker with an answer, and of a task that was
\* reported as sent.
SentInv ==
    ~overran =>
        /\ \A p \in Worker :
              (At(p, "reply") \/ At(p, "release")) /\ reply[p] = "ok" => Delivered(task[p])
        /\ \A t \in Task : result[t] = "sent" => Delivered(t)

\* Every step keeps what was taken by the API in the mempool or on the chain: a block
\* does not drop a message in flight.
LEMMA SentStep == CallInv /\ FlightInv /\ SentInv /\ [Next]_vars => SentInv'
<1> SUFFICES ASSUME CallInv, FlightInv, SentInv, [Next]_vars, ~overran'
             PROVE  /\ \A p \in Worker : ((At(p, "reply") \/ At(p, "release")) /\ reply[p] = "ok"
                                             => Delivered(task[p]))'
                    /\ \A t \in Task : (result[t] = "sent" => Delivered(t))'
  BY DEF SentInv
<1> DEFINE Answered(p) == (At(p, "reply") \/ At(p, "release")) /\ reply[p] = "ok"
<1>t. /\ mode \in [Worker -> Mode]
      /\ task \in [Worker -> Task \cup {NoTask}]
      /\ pc \in [Worker -> PC]
      /\ reply \in [Worker -> Reply]
      /\ result \in [Task -> Result]
      /\ executed \in [Task -> Nat]
      /\ mempool \subseteq Message
      /\ BusyHasTask
  BY DEF CallInv, TypeOK, WMTypeOK
<1>o. ~overran
  <2>1. overran' = overran \/ Tick
    BY Steps, CallFrame, EndFrame
       DEF Refuse, Begin, Acquired, NotAcquired, Execute, CallInv, vars, chainVars
  <2> QED
    BY <2>1 DEF Tick
<1>s. /\ \A p \in Worker : Answered(p) => Delivered(task[p])
      /\ \A t \in Task : result[t] = "sent" => Delivered(t)
  BY <1>o DEF SentInv
<1>a. \A p \in Worker : Answered(p) => task[p] \in Task
  BY <1>t DEF At, Holding, BusyHasTask
<1>d. ASSUME \A t \in Task : Delivered(t) => Delivered(t)',
             \A t \in Task : result'[t] = "sent" => Delivered(t),
             \A p \in Worker : Answered(p)' =>
                task'[p] = task[p] /\ task[p] \in Task /\ Delivered(task[p])
      PROVE  /\ \A p \in Worker : (Answered(p) => Delivered(task[p]))'
             /\ \A t \in Task : (result[t] = "sent" => Delivered(t))'
  BY <1>d DEF Delivered
<1> HIDE DEF Answered
<1>c. ASSUME UNCHANGED <<executed, mempool>>
      PROVE  \A t \in Task : Delivered(t) => Delivered(t)'
  BY <1>c DEF Delivered
<1> USE DEF Answered
<1>1. ASSUME NEW t \in Task, Refuse(t)
      PROVE  SentInv'
  <2>1. \A u \in Task : result'[u] = "sent" => result[u] = "sent"
    BY <1>1, <1>t DEF Refuse
  <2>2. UNCHANGED <<mode, pc, reply, task, executed, mempool>>
    BY <1>1 DEF Refuse, wmVars, callVars, chainVars
  <2>3. \A q \in Worker : Answered(q)' => Answered(q)
    BY <2>2 DEF At, Holding
  <2> QED
    BY <1>s, <1>a, <1>c, <1>d, <2>1, <2>2, <2>3 DEF SentInv
<1>2. ASSUME NEW t \in Task, NEW p \in Worker, Begin(p, t)
      PROVE  SentInv'
  <2>1. /\ mode' = [mode EXCEPT ![p] = "acquiring"]
        /\ task' = [task EXCEPT ![p] = t]
        /\ result' = [result EXCEPT ![t] = "running"]
        /\ UNCHANGED <<pc, reply, executed, mempool>>
    BY <1>2 DEF Begin, StartAcquire, chainVars
  <2>2. \A u \in Task : result'[u] = "sent" => result[u] = "sent"
    BY <1>t, <2>1
  <2>3. \A q \in Worker : Answered(q)' => Answered(q) /\ task'[q] = task[q]
    BY <1>t, <2>1 DEF At, Holding
  <2> QED
    BY <1>s, <1>a, <1>c, <1>d, <2>1, <2>2, <2>3 DEF SentInv
<1>3. ASSUME NEW p \in Worker, NEW w \in Wallet, Acquired(p, w) \/ NotAcquired(p, w)
      PROVE  SentInv'
  <2>1. UNCHANGED <<task, reply, result, executed, mempool>>
    BY <1>3 DEF Acquired, NotAcquired, callVars, chainVars
  <2>2. \A q \in Worker : Answered(q)' => Answered(q)
    BY <1>3, <1>t
       DEF Acquired, NotAcquired, LockGranted, LockRefused, LockError, Asks, At, Holding,
           callVars
  <2> QED
    BY <1>s, <1>a, <1>c, <1>d, <2>1, <2>2 DEF SentInv
<1>4. ASSUME NEW p \in Worker, PostAccepted(p)
      PROVE  SentInv'
  <2>1. /\ UNCHANGED <<mode, task, result, executed>>
        /\ Holding(p) /\ task[p] \in Task
        /\ \A q \in Worker : q # p => pc'[q] = pc[q] /\ reply'[q] = reply[q]
        /\ mempool' = mempool \cup {MessageOf(p)}
    BY <1>4, <1>t, CallFrame DEF Calls, CallInv, PostAccepted, BusyHasTask, Holding
  <2>2. \A u \in Task : Delivered(u) => Delivered(u)'
    BY <2>1 DEF Delivered
  <2>3. Delivered(task[p])'
    <3>1. MessageOf(p) \in mempool' /\ MessageOf(p).task = task'[p]
      BY <2>1 DEF MessageOf
    <3> QED
      BY <3>1 DEF Delivered
  <2>4. \A q \in Worker : q # p /\ Answered(q)' => Answered(q)
    BY <2>1 DEF At, Holding
  <2> QED
    BY <1>s, <1>a, <2>1, <2>2, <2>3, <2>4 DEF SentInv, Delivered
<1>5. ASSUME NEW p \in Worker, Calls(p), ~PostAccepted(p)
      PROVE  SentInv'
  <2>1. /\ UNCHANGED <<mode, task, result, executed>>
        /\ Holding(p)
        /\ \A q \in Worker : q # p => pc'[q] = pc[q] /\ reply'[q] = reply[q]
    BY <1>5, CallFrame DEF Calls, CallInv
  <2>2. mempool' = mempool
    BY <1>5 DEF Calls, Build, ReadId, WriteId, PostRejected, PostFails, Resend, GiveUp, Retry,
                Return, chainVars
  <2>3. Answered(p)' => Answered(p)
    BY <1>5, <1>t, <2>1
       DEF Calls, Build, ReadId, WriteId, PostRejected, PostFails, Resend, GiveUp, Retry,
           Return, Go, At
  <2>4. \A q \in Worker : Answered(q)' => Answered(q)
    BY <2>1, <2>3 DEF At, Holding
  <2> QED
    BY <1>s, <1>a, <1>c, <1>d, <2>1, <2>2, <2>4 DEF SentInv
<1>6. ASSUME NEW p \in Worker, Ends(p)
      PROVE  SentInv'
  <2>1. /\ UNCHANGED <<executed, mempool>>
        /\ mode' = [mode EXCEPT ![p] = "idle"]
        /\ task[p] \in Task
        /\ result' = [result EXCEPT ![task[p]] = result'[task[p]]]
        /\ result'[task[p]] = "sent" => Answered(p)
        /\ \A q \in Worker : q # p =>
              task'[q] = task[q] /\ pc'[q] = pc[q] /\ reply'[q] = reply[q]
    BY <1>6, EndFrame DEF chainVars
  <2>2. \A u \in Task : result'[u] = "sent" => Delivered(u)
    BY <1>s, <1>t, <2>1
  <2>3. \A q \in Worker : Answered(q)' => Answered(q) /\ task'[q] = task[q]
    BY <1>t, <2>1 DEF At, Holding
  <2> QED
    BY <1>s, <1>a, <1>c, <1>d, <2>1, <2>2, <2>3 DEF SentInv
<1>7. ASSUME NEW m \in mempool, Execute(m)
      PROVE  SentInv'
  <2>1. /\ UNCHANGED <<mode, task, pc, reply, result>>
        /\ mempool' = mempool \ {m}
        /\ m.task \in Task
        /\ executed' = [executed EXCEPT ![m.task] = @ + 1]
    BY <1>7, <1>o, <1>t DEF Execute, FlightInv, InFlight, Message, wmVars, callVars
  <2>2. \A u \in Task : executed'[u] = IF u = m.task THEN executed[u] + 1 ELSE executed[u]
    BY <1>t, <2>1
  <2>3. \A u \in Task : Delivered(u) => Delivered(u)'
    BY <1>t, <2>1, <2>2 DEF Delivered
  <2>4. \A q \in Worker : Answered(q)' => Answered(q)
    BY <2>1 DEF At, Holding
  <2> QED
    BY <1>s, <1>a, <1>d, <2>1, <2>3, <2>4 DEF SentInv
<1>8. ASSUME Tick
      PROVE  SentInv'
  <2>1. UNCHANGED <<mode, task, pc, reply, result, executed, mempool>>
    BY <1>8 DEF Tick, WMTick, callVars
  <2>2. \A q \in Worker : Answered(q)' => Answered(q)
    BY <2>1 DEF At, Holding
  <2> QED
    BY <1>s, <1>a, <1>c, <1>d, <2>1, <2>2 DEF SentInv
<1>9. ASSUME UNCHANGED vars
      PROVE  SentInv'
  <2>1. UNCHANGED <<mode, task, pc, reply, result, executed, mempool>>
    BY <1>9 DEF vars, wmVars, callVars, chainVars
  <2>2. \A q \in Worker : Answered(q)' => Answered(q)
    BY <2>1 DEF At, Holding
  <2> QED
    BY <1>s, <1>a, <1>c, <1>d, <2>1, <2>2 DEF SentInv
<1>10. SentInv'
  <2>1. ASSUME NEW p \in Worker, Calls(p)
        PROVE  SentInv'
    BY <1>4, <1>5, <2>1
  <2> QED
    BY <1>1, <1>2, <1>3, <1>6, <1>7, <1>8, <1>9, <2>1, Steps
<1> QED
  BY <1>10 DEF SentInv

\* A task that is reported as sent was executed on chain or waits for its block with an
\* id the wallet will accept, on the same conditions: neither another worker nor a retry
\* nor an earlier epoch has a message with its id in the way.
THEOREM ReportedIsExecuted ==
    ASSUME HoldLimit < LockTTL
    PROVE  Spec => []SentIsExecuted
<1>1. Init => FlightInv /\ SentInv
  BY DEF Init, WMInit, FlightInv, IdInUse, Posting, At, Holding, Apart, SentInv
<1>2. CallInv /\ ExclusiveAccess /\ FlightInv /\ [Next]_vars => FlightInv'
  BY FlightStep
<1>3. CallInv /\ FlightInv /\ SentInv /\ [Next]_vars => SentInv'
  BY SentStep
<1>4. FlightInv /\ SentInv => SentIsExecuted
  BY DEF FlightInv, InFlight, SentInv, Delivered, SentIsExecuted
<1> QED
  BY CallStart, CallStep, BroadcasterExclusive, <1>1, <1>2, <1>3, <1>4, PTL DEF Spec

=============================================================================
