-------------------------- MODULE MCWalletManager --------------------------
(***************************************************************************)
(* WalletManager on small pools, with its refinement of ExclusivePool.     *)
(***************************************************************************)
EXTENDS WalletManager

CONSTANTS Free, Orphaned

ASSUME OwnerAssumption ==
    /\ Free \notin Worker /\ Orphaned \notin Worker
    /\ Free # Orphaned

\* Who a wallet belongs to: the worker that was given it, nobody while a key
\* is left behind, and otherwise it is free.
Owner ==
    [w \in Wallet |->
        IF \E p \in Worker : Holding(p) /\ wallet[p] = w
        THEN CHOOSE p \in Worker : Holding(p) /\ wallet[p] = w
        ELSE IF lock[w] > 0 THEN Orphaned ELSE Free]

Pool == INSTANCE ExclusivePool WITH owner <- Owner

\* The workers and the Redis keys implement the pool: no wallet goes from one
\* worker to another, or is used again, without having been freed.
ImplementsPool == Pool!PoolSpec

=============================================================================
