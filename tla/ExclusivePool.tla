--------------------------- MODULE ExclusivePool ---------------------------
(***************************************************************************)
(* What WalletManager promises: a pool of wallets where a wallet is free,  *)
(* belongs to one worker, or is out of use for a while because nobody      *)
(* gave it back.  A wallet passes from a worker to the next one only       *)
(* through being free.                                                     *)
(***************************************************************************)
CONSTANTS Worker, Wallet, Free, Orphaned

VARIABLE owner

PoolInit == owner = [w \in Wallet |-> Free]

Grant(p, w) ==
    /\ owner[w] = Free
    /\ \A v \in Wallet : owner[v] # p
    /\ owner' = [owner EXCEPT ![w] = p]

\* The owner gives the wallet back, or forgets to.
GiveBack(w) ==
    /\ owner[w] \in Worker
    /\ \E o \in {Free, Orphaned} : owner' = [owner EXCEPT ![w] = o]

Lose(w) ==
    /\ owner[w] = Free
    /\ owner' = [owner EXCEPT ![w] = Orphaned]

\* Wallets out of use come back, several at once if they expire together.
Reclaim ==
    \E S \in SUBSET {w \in Wallet : owner[w] = Orphaned} :
        owner' = [w \in Wallet |-> IF w \in S THEN Free ELSE owner[w]]

PoolNext ==
    \/ \E w \in Wallet : GiveBack(w) \/ Lose(w) \/ \E p \in Worker : Grant(p, w)
    \/ Reclaim

PoolSpec == PoolInit /\ [][PoolNext]_owner

=============================================================================
