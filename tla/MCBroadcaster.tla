--------------------------- MODULE MCBroadcaster ---------------------------
(***************************************************************************)
(* Broadcaster with a fixed choice of tasks.                               *)
(***************************************************************************)
EXTENDS Broadcaster, TLC

CONSTANTS
    Provers, Executes, Refunds,  \* tasks of the three kinds, with just enough gas
    Poor                         \* tasks to execute that lack a unit of gas

MCTask == Provers \cup Executes \cup Refunds \cup Poor

MCGasEstimates ==
    [native_gas_refund |-> 2, native_gas_refund_storage_slippage |-> 1,
     execute_base |-> 3, execute_payload |-> 2, execute_storage_slippage |-> 1,
     its_execute_minimum |-> 5]

MCJob ==
    [t \in MCTask |->
        [kind    |-> CASE t \in Provers -> "prover"
                       [] t \in Refunds -> "refund"
                       [] OTHER         -> "execute",
         valid   |-> TRUE,
         gas     |-> CASE t \in Provers -> 0
                       [] t \in Refunds -> 3
                       [] t \in Poor    -> 7
                       [] OTHER         -> 8,
         payload |-> 2]]

\* The first ids of a wallet's first epoch.
MCForeignId == {FirstId}

\* Tasks of a kind are alike.
Symmetry ==
    Permutations(Worker) \cup Permutations(Provers)
        \cup Permutations(Executes) \cup Permutations(Refunds)

=============================================================================
