---------------------------- MODULE SendRetries ----------------------------
(***************************************************************************)
(* retries_left, the argument with which send_to_chain calls itself again  *)
(* after the wallet contract's "already executed" error.                   *)
(***************************************************************************)
EXTENDS Integers

CONSTANT MAX_RETRIES  \* 10 in the code

ASSUME RetriesAssumption == MAX_RETRIES \in Nat

\* retries_left is None: the first attempt for a message.
NoRetries == -1

RetriesLeft == NoRetries..MAX_RETRIES

\* retries_left of the recursive call; NoRetries when there is no such call.
NextRetries(r) ==
    CASE r = NoRetries -> MAX_RETRIES
      [] r > 0         -> r - 1
      [] OTHER         -> NoRetries

=============================================================================
