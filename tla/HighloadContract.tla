-------------------------- MODULE HighloadContract -------------------------
(***************************************************************************)
(* The replay protection of the highload wallet v3 contract, as            *)
(* high_load_query_id_db_wrapper.rs quotes it (the contract itself is not  *)
(* part of this repository).  A contract state keeps the ids of the        *)
(* current and of the previous interval and age, the time since            *)
(* last_clean_time, which is counted up to OldAge.                         *)
(***************************************************************************)
EXTENDS QueryIdWrapper

\* Every age beyond 2 * Timeout is treated alike.
OldAge == 2 * Timeout + 1

Contract == [queries : SUBSET QueryId, old_queries : SUBSET QueryId,
             age : 0..OldAge]

\* A wallet that has never been cleaned, and remembers the ids in S.
NewContract(S) == [queries |-> S, old_queries |-> {}, age |-> OldAge]

\* The state after the cleaning step at the start of a message.
Clean(c) ==
    IF c.age > Timeout
    THEN [queries |-> {},
          old_queries |-> IF c.age > 2 * Timeout THEN {} ELSE c.queries,
          age |-> 0]
    ELSE c

\* The message is refused with exit code 36; nothing is committed.
Rejects(c, q) == q \in Clean(c).queries \cup Clean(c).old_queries

\* The state after the message with id q has been accepted.
Accept(c, q) == [Clean(c) EXCEPT !.queries = @ \cup {q}]

ContractTick(c) == [c EXCEPT !.age = IF @ < OldAge THEN @ + 1 ELSE @]

=============================================================================
