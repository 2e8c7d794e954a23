---------------------------- MODULE SendToChain ----------------------------
(***************************************************************************)
(* TONBroadcaster::send_to_chain on one wallet, under the wallet's lock:   *)
(* allot an id, post the message, and retry with a forced shift when the   *)
(* wallet contract answers that the id was executed already.  Messages     *)
(* follow each other forever, so the wallet goes through many epochs of    *)
(* its row in ton_wallet_query_id and through many cleanings of the        *)
(* contract's memory.                                                      *)
(***************************************************************************)
EXTENDS HighloadContract, SendRetries

CONSTANT PostDelay  \* ticks that may pass between storing an id and the block that gets it

ASSUME DelayAssumption == PostDelay \in Nat

VARIABLES
    row,       \* the wallet's row in ton_wallet_query_id
    contract,  \* the wallet contract's replay protection (external)
    phase,     \* where send_to_chain is
    qid,       \* the id in use, meaningful in phase "post"
    retries,   \* retries_left; None is NoRetries
    delay,     \* ticks since the id in use was stored; 0 in phase "next"
    reply,     \* how the last call ended; "none" while one runs
    late       \* history: the delay with which FirstId was last accepted

vars == <<row, contract, phase, qid, retries, delay, reply, late>>

\* The row, the contract, the id in use and the retry budget stay in bounds; next()
\* never allots the two ids at the end of the id space that it keeps back, whichever
\* way plain calls, carries and forced shifts lead there.  (high_load_query_id.rs:56-78)
TypeOK ==
    /\ row \in Row
    /\ contract \in Contract
    /\ phase \in {"next", "post"}
    /\ qid \in Allottable
    /\ retries \in RetriesLeft
    /\ delay \in 0..PostDelay
    /\ reply \in {"none", "accepted", "rejected", "failed"}
    /\ late \in 0..PostDelay

Init ==
    /\ row = NoRow
    /\ contract = NewContract({})
    /\ phase = "next"
    /\ qid = FirstId
    /\ retries = NoRetries
    /\ delay = 0
    /\ reply = "none"
    /\ late = 0

force_shift_increase == retries # NoRetries

\* query_id_wrapper.next(): the id is stored before it is returned.
Allot ==
    LET snap == get_query_id(row)
    IN  /\ phase = "next"
        /\ ~NextFails(snap, force_shift_increase)
        /\ qid' = NextId(snap, force_shift_increase)
        /\ row' = Store(row, qid')
        /\ phase' = "post"
        /\ reply' = "none"
        /\ UNCHANGED <<contract, retries, delay, late>>

\* The wallet has run out of ids; the message is given up.
AllotFails ==
    /\ phase = "next"
    /\ NextFails(get_query_id(row), force_shift_increase)
    /\ retries' = NoRetries
    /\ reply' = "failed"
    /\ UNCHANGED <<row, contract, phase, qid, delay, late>>

\* The message does not leave: it cannot be built, the connection fails, or
\* the process stops.  Its id is spent all the same.
PostFails ==
    /\ phase = "post"
    /\ phase' = "next"
    /\ retries' = NoRetries
    /\ delay' = 0
    /\ reply' = "failed"
    /\ UNCHANGED <<row, contract, qid, late>>

\* The block that executes the message, and the answer.
PostAccepted ==
    /\ phase = "post"
    /\ ~Rejects(contract, qid)
    /\ contract' = Accept(contract, qid)
    /\ phase' = "next"
    /\ retries' = NoRetries
    /\ delay' = 0
    /\ reply' = "accepted"
    /\ late' = IF qid = FirstId THEN delay ELSE late
    /\ UNCHANGED <<row, qid>>

PostRejected ==
    /\ phase = "post"
    /\ Rejects(contract, qid)
    /\ phase' = "next"
    /\ retries' = NextRetries(retries)
    /\ delay' = 0
    /\ reply' = "rejected"
    /\ UNCHANGED <<row, contract, qid, late>>

\* Time passes for the database and for the chain.
Tick ==
    /\ phase = "post" => delay < PostDelay
    /\ delay' = IF phase = "post" THEN delay + 1 ELSE 0
    /\ row' = RowTick(row)
    /\ contract' = ContractTick(contract)
    /\ UNCHANGED <<phase, qid, retries, reply, late>>

Send == Allot \/ AllotFails \/ PostFails \/ PostAccepted \/ PostRejected

Next == Send \/ Tick

Spec == Init /\ [][Next]_vars

\* Messages keep coming and the clock keeps running; posting may always fail
\* for another reason than the contract, but not forever.
FairSpec ==
    /\ Spec
    /\ WF_vars(Tick)
    /\ WF_vars(Allot \/ AllotFails \/ PostRejected)
    /\ SF_vars(PostAccepted)

-----------------------------------------------------------------------------

\* The id 0 is allotted only when an epoch starts, more than 3 * Timeout after the
\* last one was stored.  The row counts from the UPSERT and the contract from the
\* block, so the contract has forgotten the id, however its cleaning was timed,
\* unless the last one took longer to arrive than this one does.
\* (high_load_query_id_db_wrapper.rs:8-27, 168-173)
ResetIdAccepted ==
    phase = "post" /\ qid = FirstId /\ delay >= late => ~Rejects(contract, qid)

\* While the row lives its id only grows: no id is allotted twice in an epoch,
\* whatever mix of plain and forced calls, failures and ticks there is.
IdsGrowInEpoch ==
    [][row.ttl >= 0 /\ phase = "next" /\ phase' = "post"
            => query_id(qid') > query_id(row)]_vars

\* A wallet whose ids are refused, or used up, sends again once its row has
\* expired: it is never stuck for good.
AlwaysRecovers == []<>(reply = "accepted")

=============================================================================
