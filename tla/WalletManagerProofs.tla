------------------------ MODULE WalletManagerProofs ------------------------
(***************************************************************************)
(* Proofs about WalletManager: the wallets are exclusive, and a release    *)
(* frees the worker's own lock, for any number of workers and wallets,     *)
(* whatever faults there are, as long as no worker holds a wallet for as   *)
(* long as its key lives.  Under the same condition it implements          *)
(* ExclusivePool: the workers and the Redis keys, under the mapping Owner  *)
(* of MCWalletManager, are a pool where a wallet passes from a worker to   *)
(* the next only through being free.                                       *)
(***************************************************************************)
EXTENDS MCWalletManager, TLAPS

-----------------------------------------------------------------------------
(* Types. *)

\* Every step of a worker, and of the clock, keeps the variables within their
\* types.
LEMMA TypeStep == WMTypeOK /\ [WMNext]_wmVars => WMTypeOK'
<1> SUFFICES ASSUME WMTypeOK, [WMNext]_wmVars
             PROVE  WMTypeOK'
  OBVIOUS
<1> USE LockAssumption DEF WMTypeOK, Mode
<1>1. CASE WMTick
  BY <1>1, SMTT(30) DEF WMTick, LockTick, Holding
<1>2. ASSUME NEW p \in Worker, WMStep(p)
      PROVE  WMTypeOK'
  <2>1. CASE StartAcquire(p)
    BY <2>1 DEF StartAcquire
  <2>2. ASSUME NEW w \in Wallet, LockGranted(p, w)
        PROVE  WMTypeOK'
    BY <2>2 DEF LockGranted
  <2>3. ASSUME NEW w \in Wallet, LockRefused(p, w)
        PROVE  WMTypeOK'
    BY <2>3 DEF LockRefused
  <2>4. ASSUME NEW w \in Wallet, LockError(p, w)
        PROVE  WMTypeOK'
    BY <2>4 DEF LockError
  <2>5. CASE NoAvailableWallet(p)
    BY <2>5 DEF NoAvailableWallet
  <2>6. CASE Release(p)
    BY <2>6 DEF Release, Leaves
  <2>7. CASE ReleaseError(p)
    BY <2>7 DEF ReleaseError, Leaves
  <2>8. CASE Crash(p)
    BY <2>8 DEF Crash
  <2> QED
    BY <1>2, <2>1, <2>2, <2>3, <2>4, <2>5, <2>6, <2>7, <2>8 DEF WMStep
<1>3. CASE UNCHANGED wmVars
  BY <1>3 DEF wmVars
<1> QED
  BY <1>1, <1>2, <1>3 DEF WMNext

\* The variables of the wallet pool have their types in every behaviour of acquire,
\* release, the Redis keys and the clock.
THEOREM TypeCorrect == WMSpec => []WMTypeOK
<1>1. WMInit => WMTypeOK
  BY LockAssumption DEF WMInit, WMTypeOK, Mode
<1> QED
  BY <1>1, TypeStep, PTL DEF WMSpec

-----------------------------------------------------------------------------
(* Exclusive access. *)

PoolInv == WMTypeOK /\ ExclusiveAccess /\ KeyAgesWithHolder

\* Without a holder for LockTTL, a holder's key is still there.
LEMMA HeldIsLocked ==
    ASSUME HoldLimit < LockTTL, WMTypeOK, KeyAgesWithHolder
    PROVE  ReleasesOwnLock
BY LockAssumption DEF WMTypeOK, KeyAgesWithHolder, ReleasesOwnLock

\* Every step of a worker, and of the clock, keeps the holders apart and their keys
\* in step with them.
LEMMA PoolStep ==
    ASSUME HoldLimit < LockTTL
    PROVE  PoolInv /\ [WMNext]_wmVars => PoolInv'
<1> SUFFICES ASSUME PoolInv, [WMNext]_wmVars
             PROVE  PoolInv'
  OBVIOUS
<1>t. WMTypeOK'
  BY TypeStep DEF PoolInv
<1>l. ReleasesOwnLock
  BY HeldIsLocked DEF PoolInv
<1> USE LockAssumption DEF PoolInv, WMTypeOK, Mode, Holding
<1>1. CASE WMTick
  <2>1. ExclusiveAccess'
    BY <1>1 DEF WMTick, ExclusiveAccess
  <2>2. KeyAgesWithHolder'
    <3> SUFFICES ASSUME NEW p \in Worker, Holding(p)'
                 PROVE  (lock[wallet[p]] + held[p] = LockTTL)'
      BY DEF KeyAgesWithHolder
    <3>1. Holding(p) /\ wallet'[p] = wallet[p] /\ wallet[p] \in Wallet
      BY <1>1 DEF WMTick
    <3>2. lock'[wallet[p]] = lock[wallet[p]] - 1
      BY <1>1, <1>l, <3>1 DEF WMTick, LockTick, ReleasesOwnLock
    <3>3. held'[p] = held[p] + 1
      BY <1>1, <3>1 DEF WMTick
    <3>4. lock[wallet[p]] + held[p] = LockTTL
      BY <3>1 DEF KeyAgesWithHolder
    <3> QED
      BY <3>1, <3>2, <3>3, <3>4
  <2> QED
    BY <1>t, <2>1, <2>2
<1>2. ASSUME NEW p \in Worker, WMStep(p)
      PROVE  PoolInv'
  <2>1. CASE StartAcquire(p)
    BY <1>t, <2>1 DEF StartAcquire, ExclusiveAccess, KeyAgesWithHolder
  <2>2. ASSUME NEW w \in Wallet, LockGranted(p, w)
        PROVE  PoolInv'
    <3>1. \A q \in Worker : Holding(q) => wallet[q] # w
      BY <1>l, <2>2 DEF LockGranted, ReleasesOwnLock
    <3>2. ExclusiveAccess'
      BY <2>2, <3>1 DEF LockGranted, ExclusiveAccess
    <3>3. KeyAgesWithHolder'
      BY <2>2, <3>1 DEF LockGranted, KeyAgesWithHolder
    <3> QED
      BY <1>t, <3>2, <3>3
  <2>3. ASSUME NEW w \in Wallet, LockRefused(p, w)
        PROVE  PoolInv'
    BY <1>t, <2>3 DEF LockRefused, ExclusiveAccess, KeyAgesWithHolder
  <2>4. ASSUME NEW w \in Wallet, LockError(p, w)
        PROVE  PoolInv'
    <3>1. \A q \in Worker : Holding(q) => lock'[wallet[q]] = lock[wallet[q]]
      BY <1>l, <2>4 DEF LockError, ReleasesOwnLock
    <3> QED
      BY <1>t, <2>4, <3>1 DEF LockError, ExclusiveAccess, KeyAgesWithHolder
  <2>5. CASE NoAvailableWallet(p)
    BY <1>t, <2>5 DEF NoAvailableWallet, ExclusiveAccess, KeyAgesWithHolder
  <2>6. CASE Release(p)
    <3>1. ASSUME NEW q \in Worker, Holding(q)'
          PROVE  Holding(q) /\ wallet[q] # wallet[p] /\ wallet[q] \in Wallet
      BY <2>6, <3>1 DEF Release, Leaves, ExclusiveAccess
    <3>2. ExclusiveAccess'
      BY <2>6 DEF Release, Leaves, ExclusiveAccess
    <3>3. KeyAgesWithHolder'
      BY <2>6, <3>1 DEF Release, Leaves, KeyAgesWithHolder
    <3> QED
      BY <1>t, <3>2, <3>3
  <2>7. CASE ReleaseError(p)
    BY <1>t, <2>7 DEF ReleaseError, Leaves, ExclusiveAccess, KeyAgesWithHolder
  <2>8. CASE Crash(p)
    BY <1>t, <2>8 DEF Crash, ExclusiveAccess, KeyAgesWithHolder
  <2> QED
    BY <1>2, <2>1, <2>2, <2>3, <2>4, <2>5, <2>6, <2>7, <2>8 DEF WMStep
<1>3. CASE UNCHANGED wmVars
  BY <1>t, <1>3 DEF wmVars, ExclusiveAccess, KeyAgesWithHolder
<1> QED
  BY <1>1, <1>2, <1>3 DEF WMNext

\* Initially nobody holds a wallet.
LEMMA PoolStart == WMInit => PoolInv
BY LockAssumption
   DEF WMInit, PoolInv, WMTypeOK, Mode, ExclusiveAccess, KeyAgesWithHolder, Holding

\* Two workers never have the same wallet at the same time, as wallet_manager.rs
\* promises, if no worker holds one for as long as its Redis key lives.
THEOREM Exclusive ==
    ASSUME HoldLimit < LockTTL
    PROVE  WMSpec => []ExclusiveAccess
<1>1. PoolInv /\ [WMNext]_wmVars => PoolInv'
  BY PoolStep
<1>2. PoolInv => ExclusiveAccess
  BY DEF PoolInv
<1> QED
  BY PoolStart, <1>1, <1>2, PTL DEF WMSpec

\* The key of a held wallet was set by the SET NX that gave the wallet to its worker, and
\* nothing any worker does meanwhile renews or replaces it.
THEOREM KeyIsHolders ==
    ASSUME HoldLimit < LockTTL
    PROVE  WMSpec => []KeyAgesWithHolder
<1>1. PoolInv /\ [WMNext]_wmVars => PoolInv'
  BY PoolStep
<1>2. PoolInv => KeyAgesWithHolder
  BY DEF PoolInv
<1> QED
  BY PoolStart, <1>1, <1>2, PTL DEF WMSpec

\* The DEL of a release deletes the key of the worker that calls it, not one that
\* another worker has set since.
THEOREM OwnLockReleased ==
    ASSUME HoldLimit < LockTTL
    PROVE  WMSpec => []ReleasesOwnLock
<1>1. PoolInv /\ [WMNext]_wmVars => PoolInv'
  BY PoolStep
<1>2. PoolInv => ReleasesOwnLock
  BY HeldIsLocked DEF PoolInv
<1> QED
  BY PoolStart, <1>1, <1>2, PTL DEF WMSpec

-----------------------------------------------------------------------------
(* Nothing is leaked. *)

\* Without faults a key is there only while a worker has the wallet: the key that
\* acquire sets is deleted when the worker leaves, and none is set for nobody.
THEOREM NoLeak == WMSpec => []NothingLeaked
<1>1. WMInit => NothingLeaked
  BY DEF WMInit, NothingLeaked
<1>2. WMTypeOK /\ NothingLeaked /\ [WMNext]_wmVars => NothingLeaked'
  <2> SUFFICES ASSUME WMTypeOK, NothingLeaked, [WMNext]_wmVars, Faults = {},
                      NEW v \in Wallet, lock'[v] > 0
               PROVE  \E q \in Worker : Holding(q)' /\ wallet'[q] = v
    BY DEF NothingLeaked
  <2>1. ASSUME lock[v] > 0
        PROVE  \E q \in Worker : Holding(q) /\ wallet[q] = v
    BY <2>1 DEF NothingLeaked
  <2> USE LockAssumption DEF WMTypeOK, Mode, Holding
  <2>2. CASE WMTick
    <3>1. lock[v] > 0
      BY <2>2 DEF WMTick, LockTick
    <3> QED
      BY <2>1, <2>2, <3>1 DEF WMTick
  <2>3. ASSUME NEW p \in Worker, NEW w \in Wallet, LockGranted(p, w)
        PROVE  \E q \in Worker : Holding(q)' /\ wallet'[q] = v
    <3>1. CASE v = w
      BY <2>3, <3>1 DEF LockGranted
    <3>2. CASE v # w
      <4>1. PICK q \in Worker : Holding(q) /\ wallet[q] = v
        BY <2>1, <2>3, <3>2 DEF LockGranted
      <4>2. q # p
        BY <2>3, <4>1 DEF LockGranted, Asks
      <4> QED
        BY <2>3, <4>1, <4>2 DEF LockGranted
    <3> QED
      BY <3>1, <3>2
  <2>4. ASSUME NEW p \in Worker, Release(p)
        PROVE  \E q \in Worker : Holding(q)' /\ wallet'[q] = v
    <3>1. v # wallet[p] /\ lock[v] > 0
      BY <2>4 DEF Release
    <3>2. PICK q \in Worker : Holding(q) /\ wallet[q] = v
      BY <2>1, <3>1
    <3> QED
      BY <2>4, <3>1, <3>2 DEF Release, Leaves
  <2>5. ASSUME NEW p \in Worker,
               \/ StartAcquire(p)
               \/ \E w \in Wallet : LockRefused(p, w)
               \/ NoAvailableWallet(p)
        PROVE  \E q \in Worker : Holding(q)' /\ wallet'[q] = v
    <3>1. lock' = lock /\ wallet' = wallet /\ \A q \in Worker : Holding(q) => Holding(q)'
      BY <2>5 DEF StartAcquire, LockRefused, NoAvailableWallet
    <3> QED
      BY <2>1, <3>1
  <2>6. ASSUME NEW p \in Worker
        PROVE  ~ReleaseError(p) /\ ~Crash(p) /\ \A w \in Wallet : ~LockError(p, w)
    BY DEF ReleaseError, Crash, LockError
  <2>7. CASE UNCHANGED wmVars
    BY <2>1, <2>7 DEF wmVars
  <2> QED
    BY <2>2, <2>3, <2>4, <2>5, <2>6, <2>7 DEF WMNext, WMStep
<1> QED
  BY TypeCorrect, <1>1, <1>2, PTL DEF WMSpec

-----------------------------------------------------------------------------
(* The pool. *)

\* No worker has the wallet.
Unheld(w) == \A p \in Worker : Holding(p) => wallet[p] # w

\* The holder owns a wallet; without one the wallet is out of use or free.
OwnerInv ==
    /\ Owner = [w \in Wallet |-> Owner[w]]
    /\ \A p \in Worker : Holding(p) => Owner[wallet[p]] = p
    /\ \A w \in Wallet : Unheld(w) =>
          Owner[w] = IF lock[w] > 0 THEN Orphaned ELSE Free
    /\ \A w \in Wallet : lock[w] = 0 => Unheld(w)

\* The mapping is well-defined where the wallets are exclusive and a holder's key is
\* still there.
LEMMA OwnerFacts == WMTypeOK /\ ExclusiveAccess /\ ReleasesOwnLock => OwnerInv
<1> SUFFICES ASSUME WMTypeOK, ExclusiveAccess, ReleasesOwnLock
             PROVE  OwnerInv
  OBVIOUS
<1>1. Owner = [w \in Wallet |-> Owner[w]]
  BY DEF Owner
<1>2. ASSUME NEW p \in Worker, Holding(p)
      PROVE  Owner[wallet[p]] = p
  <2> DEFINE w == wallet[p]
             Holds(q) == q \in Worker /\ Holding(q) /\ wallet[q] = w
  <2>1. w \in Wallet
    BY DEF WMTypeOK
  <2>2. \A q : Holds(q) => q = p
    BY <1>2 DEF ExclusiveAccess
  <2>3. Owner[w] = CHOOSE q \in Worker : Holding(q) /\ wallet[q] = w
    BY <1>2, <2>1 DEF Owner
  <2>4. Holds(CHOOSE q \in Worker : Holding(q) /\ wallet[q] = w)
    BY <1>2
  <2> QED
    BY <2>2, <2>3, <2>4
<1>3. ASSUME NEW w \in Wallet, Unheld(w)
      PROVE  Owner[w] = IF lock[w] > 0 THEN Orphaned ELSE Free
  BY <1>3 DEF Owner, Unheld
<1>4. \A w \in Wallet : lock[w] = 0 => Unheld(w)
  BY DEF ReleasesOwnLock, Unheld
<1> QED
  BY <1>1, <1>2, <1>3, <1>4 DEF OwnerInv

\* Every step of the workers, Redis and the clock is a step of the pool, or leaves every
\* owner as it was.
LEMMA StepOfOwners ==
    ASSUME WMTypeOK, ExclusiveAccess, OwnerInv, OwnerInv', [WMNext]_wmVars
    PROVE  [Pool!PoolNext]_Owner
<1> USE LockAssumption, OwnerAssumption DEF WMTypeOK, Mode, Holding
<1>f. ASSUME NEW f, \A v \in Wallet : Owner'[v] = f[v], f = [v \in Wallet |-> f[v]]
      PROVE  Owner' = f
  BY <1>f DEF OwnerInv
<1>h. ASSUME NEW v \in Wallet
      PROVE  \/ \E q \in Worker : Holding(q) /\ wallet[q] = v /\ Owner[v] = q
             \/ Unheld(v)
  BY DEF OwnerInv, Unheld
<1>k. ASSUME NEW v \in Wallet,
             lock'[v] = lock[v] \/ (\E q \in Worker : Holding(q) /\ wallet[q] = v),
             \A q \in Worker : Holding(q) /\ wallet[q] = v => Holding(q)' /\ wallet'[q] = v,
             \A q \in Worker : Holding(q)' /\ wallet'[q] = v => Holding(q) /\ wallet[q] = v
      PROVE  Owner'[v] = Owner[v]
  <2>1. ASSUME NEW q \in Worker, Holding(q), wallet[q] = v
        PROVE  Owner'[v] = Owner[v]
    BY <1>k, <2>1 DEF OwnerInv
  <2>2. CASE Unheld(v)
    <3>1. Unheld(v)'
      BY <1>k, <2>2 DEF Unheld
    <3>2. lock'[v] = lock[v]
      BY <1>k, <2>2 DEF Unheld
    <3> QED
      BY <2>2, <3>1, <3>2 DEF OwnerInv
  <2> QED
    BY <1>h, <2>1, <2>2
<1>s. ASSUME UNCHANGED <<lock, wallet>>, \A q \in Worker : Holding(q)' <=> Holding(q)
      PROVE  Owner' = Owner
  <2>1. \A v \in Wallet : Owner'[v] = Owner[v]
    BY <1>s, <1>k
  <2> QED
    BY <2>1 DEF OwnerInv
<1>1. CASE WMTick
  <2> DEFINE S == {w \in Wallet : Owner[w] = Orphaned /\ lock'[w] = 0}
  <2>1. /\ UNCHANGED <<mode, wallet>>
        /\ lock' = [w \in Wallet |-> IF lock[w] > 0 THEN lock[w] - 1 ELSE 0]
    BY <1>1 DEF WMTick, LockTick
  <2>2. ASSUME NEW v \in Wallet
        PROVE  Owner'[v] = IF v \in S THEN Free ELSE Owner[v]
    <3>1. ASSUME NEW q \in Worker, Holding(q), wallet[q] = v
          PROVE  Owner'[v] = Owner[v] /\ Owner[v] = q /\ v \notin S
      BY <2>1, <3>1, SMTT(30) DEF OwnerInv
    <3>2. CASE Unheld(v)
      <4>1. Unheld(v)'
        BY <2>1, <3>2 DEF Unheld
      <4>2. lock'[v] \in Nat /\ lock[v] \in Nat /\ (lock[v] = 0 => lock'[v] = 0)
        BY <2>1
      <4> QED
        BY <3>2, <4>1, <4>2 DEF OwnerInv
    <3> QED
      BY <1>h, <3>1, <3>2
  <2> DEFINE f == [w \in Wallet |-> IF w \in S THEN Free ELSE Owner[w]]
  <2>3. Owner' = f
    <3>1. \A v \in Wallet : Owner'[v] = f[v]
      BY <2>2
    <3> HIDE DEF S
    <3> QED
      BY <1>f, <3>1
  <2>4. S \in SUBSET {w \in Wallet : Owner[w] = Orphaned}
    OBVIOUS
  <2> QED
    BY <2>3, <2>4 DEF Pool!PoolNext, Pool!Reclaim
<1>2. ASSUME NEW p \in Worker, NEW w \in Wallet, LockGranted(p, w)
      PROVE  Pool!PoolNext
  <2>1. Unheld(w) /\ Owner[w] = Free
    BY <1>2 DEF LockGranted, OwnerInv
  <2>2. \A v \in Wallet : Owner[v] # p
    <3>1. \A v \in Wallet : Unheld(v) => Owner[v] \in {Free, Orphaned}
      BY DEF OwnerInv
    <3> QED
      BY <1>2, <1>h, <3>1 DEF LockGranted, Asks
  <2>3. Owner'[w] = p
    BY <1>2 DEF LockGranted, OwnerInv
  <2>4. \A v \in Wallet : v # w => Owner'[v] = Owner[v]
    BY <1>2, <1>k DEF LockGranted, Asks
  <2>5. Owner' = [Owner EXCEPT ![w] = p]
    BY <2>3, <2>4 DEF OwnerInv
  <2> QED
    BY <2>1, <2>2, <2>5 DEF Pool!PoolNext, Pool!Grant
<1>3. ASSUME NEW p \in Worker, Holding(p), Release(p) \/ ReleaseError(p) \/ Crash(p)
      PROVE  Pool!PoolNext
  <2> DEFINE w == wallet[p]
  <2>1. /\ wallet' = wallet
        /\ mode' = [mode EXCEPT ![p] = "idle"]
        /\ lock' = lock \/ lock' = [lock EXCEPT ![w] = 0]
    BY <1>3 DEF Release, ReleaseError, Crash, Leaves
  <2>2. w \in Wallet /\ Owner[w] = p
    BY <1>3 DEF OwnerInv
  <2>3. Unheld(w)'
    BY <1>3, <2>1 DEF ExclusiveAccess, Unheld
  <2>4. PICK o \in {Free, Orphaned} : Owner'[w] = o
    <3>1. Owner'[w] = Free \/ Owner'[w] = Orphaned
      BY <2>1, <2>2, <2>3 DEF OwnerInv
    <3> QED
      BY <3>1
  <2>5. \A v \in Wallet : v # w => Owner'[v] = Owner[v]
    BY <2>1, <2>2, <1>k
  <2>6. Owner' = [Owner EXCEPT ![w] = o]
    BY <2>4, <2>5 DEF OwnerInv
  <2> QED
    BY <2>2, <2>6 DEF Pool!PoolNext, Pool!GiveBack
<1>4. ASSUME NEW p \in Worker, NEW w \in Wallet, LockError(p, w)
      PROVE  Pool!PoolNext \/ Owner' = Owner
  <2>1. CASE lock' = lock
    BY <1>4, <1>s, <2>1 DEF LockError
  <2>2. CASE lock[w] = 0 /\ lock' = [lock EXCEPT ![w] = LockTTL]
    <3>1. UNCHANGED <<mode, wallet>>
      BY <1>4 DEF LockError
    <3>2. Unheld(w) /\ Unheld(w)' /\ Owner[w] = Free
      BY <2>2, <3>1 DEF OwnerInv, Unheld
    <3>3. Owner'[w] = Orphaned
      BY <2>2, <3>2 DEF OwnerInv
    <3>4. \A v \in Wallet : v # w => Owner'[v] = Owner[v]
      BY <2>2, <3>1, <1>k
    <3>5. Owner' = [Owner EXCEPT ![w] = Orphaned]
      BY <3>3, <3>4 DEF OwnerInv
    <3> QED
      BY <3>2, <3>5 DEF Pool!PoolNext, Pool!Lose
  <2> QED
    BY <1>4, <2>1, <2>2 DEF LockError
<1>5. ASSUME NEW p \in Worker,
             \/ StartAcquire(p)
             \/ \E w \in Wallet : LockRefused(p, w)
             \/ NoAvailableWallet(p)
             \/ Crash(p) /\ ~Holding(p)
      PROVE  Owner' = Owner
  <2>1. UNCHANGED <<lock, wallet>> /\ \A q \in Worker : Holding(q)' <=> Holding(q)
    BY <1>5 DEF StartAcquire, LockRefused, NoAvailableWallet, Crash
  <2> QED
    BY <1>s, <2>1
<1>6. CASE UNCHANGED wmVars
  BY <1>6, <1>s DEF wmVars
<1>7. ASSUME NEW p \in Worker, Release(p) \/ ReleaseError(p)
      PROVE  Holding(p)
  BY <1>7 DEF Release, ReleaseError
<1> QED
  BY <1>1, <1>2, <1>3, <1>4, <1>5, <1>6, <1>7 DEF WMNext, WMStep

\* The wallet pool implements ExclusivePool: acquire() hands out only free wallets, and
\* one that was given out is free again through its release or, when that is lost with a
\* crash or a fault of Redis, through the expiry of its key.
THEOREM PoolIsImplemented ==
    ASSUME HoldLimit < LockTTL
    PROVE  WMSpec => ImplementsPool
<1>1. WMInit => Pool!PoolInit
  BY DEF WMInit, Owner, Holding, Pool!PoolInit
<1>2. OwnerInv /\ OwnerInv' /\ WMTypeOK /\ ExclusiveAccess /\ [WMNext]_wmVars
         => [Pool!PoolNext]_Owner
  BY StepOfOwners
<1>3. WMSpec => [](WMTypeOK /\ ExclusiveAccess /\ ReleasesOwnLock)
  BY TypeCorrect, Exclusive, OwnLockReleased, PTL
<1> QED
  BY <1>1, <1>2, <1>3, OwnerFacts, PTL DEF WMSpec, ImplementsPool, Pool!PoolSpec

=============================================================================
