--------------------------- MODULE WalletManager ---------------------------
(***************************************************************************)
(* WalletManager over RedisLockManager: a pool of wallets, each guarded by *)
(* one Redis key.  lock() is SET NX EX, unlock() is DEL.  The key holds no *)
(* owner: whoever deletes it frees the wallet.                             *)
(*                                                                         *)
(* The time a key has left is kept instead of its expiry date, so that     *)
(* behaviours of any length have finitely many states.                     *)
(***************************************************************************)
EXTENDS Integers

CONSTANTS
    Worker,     \* the includer's workers
    Wallet,     \* addresses of the wallets
    LockTTL,    \* EX 60, in ticks
    HoldLimit,  \* the longest a worker keeps a wallet, in ticks
    Faults      \* what may go wrong: "redis" calls, a "crash" of a worker

ASSUME LockAssumption ==
    /\ LockTTL \in Nat \ {0}
    /\ HoldLimit \in Nat
    /\ Faults \subseteq {"redis", "crash"}

VARIABLES
    lock,    \* time left of wallet_lock_<address>; 0: there is no such key
    mode,    \* where a worker is
    tried,   \* wallets a worker has tried to lock in this acquire()
    wallet,  \* the wallet a holding worker was given
    held     \* for how long it has held it

wmVars == <<lock, mode, tried, wallet, held>>

Mode == {"idle", "acquiring", "holding"}

Holding(p) == mode[p] = "holding"

WMTypeOK ==
    /\ lock \in [Wallet -> 0..LockTTL]
    /\ mode \in [Worker -> Mode]
    /\ tried \in [Worker -> SUBSET Wallet]
    /\ wallet \in [Worker -> Wallet]
    /\ held \in [Worker -> 0..HoldLimit]

WMInit ==
    /\ lock = [w \in Wallet |-> 0]
    /\ mode = [p \in Worker |-> "idle"]
    /\ tried = [p \in Worker |-> {}]
    /\ \E w \in Wallet : wallet = [p \in Worker |-> w]  \* no meaning yet
    /\ held = [p \in Worker |-> 0]

-----------------------------------------------------------------------------

\* acquire() is called.
StartAcquire(p) ==
    /\ mode[p] = "idle"
    /\ mode' = [mode EXCEPT ![p] = "acquiring"]
    /\ tried' = [tried EXCEPT ![p] = {}]
    /\ UNCHANGED <<lock, wallet, held>>

\* The worker asks for the lock of w, the next wallet of its iteration.
Asks(p, w) == mode[p] = "acquiring" /\ w \notin tried[p]

\* Mutant: SET without NX takes the key whether or not it exists.
LockGrantedAlways(p, w) ==
    /\ Asks(p, w)
    /\ lock' = [lock EXCEPT ![w] = LockTTL]
    /\ mode' = [mode EXCEPT ![p] = "holding"]
    /\ wallet' = [wallet EXCEPT ![p] = w]
    /\ held' = [held EXCEPT ![p] = 0]
    /\ tried' = [tried EXCEPT ![p] = {}]

\* SET NX finds no key, sets it and acquire() returns the wallet.
LockGranted(p, w) ==
    /\ Asks(p, w)
    /\ lock[w] = 0
    /\ lock' = [lock EXCEPT ![w] = LockTTL]
    /\ mode' = [mode EXCEPT ![p] = "holding"]
    /\ wallet' = [wallet EXCEPT ![p] = w]
    /\ held' = [held EXCEPT ![p] = 0]
    /\ tried' = [tried EXCEPT ![p] = {}]

\* Mutant: a lock that was refused is deleted on the way out.
LockRefusedDeletes(p, w) ==
    /\ Asks(p, w)
    /\ lock[w] > 0
    /\ tried' = [tried EXCEPT ![p] = @ \cup {w}]
    /\ lock' = [lock EXCEPT ![w] = 0]
    /\ UNCHANGED <<mode, wallet, held>>

\* Mutant: SET GET EX instead of SET NX EX finds the key, and renews it.
LockRefusedRenews(p, w) ==
    /\ Asks(p, w)
    /\ lock[w] > 0
    /\ tried' = [tried EXCEPT ![p] = @ \cup {w}]
    /\ lock' = [lock EXCEPT ![w] = LockTTL]
    /\ UNCHANGED <<mode, wallet, held>>

\* SET NX finds the key; acquire() goes on to the next wallet.
LockRefused(p, w) ==
    /\ Asks(p, w)
    /\ lock[w] > 0
    /\ tried' = [tried EXCEPT ![p] = @ \cup {w}]
    /\ UNCHANGED <<lock, mode, wallet, held>>

\* The call to Redis fails, and lock() answers false: the command was lost,
\* or only its answer was and the key is now set for nobody.
LockError(p, w) ==
    /\ "redis" \in Faults
    /\ Asks(p, w)
    /\ tried' = [tried EXCEPT ![p] = @ \cup {w}]
    /\ \/ UNCHANGED lock
       \/ lock[w] = 0 /\ lock' = [lock EXCEPT ![w] = LockTTL]
    /\ UNCHANGED <<mode, wallet, held>>

\* Every wallet was tried: NoAvailableWallet.
NoAvailableWallet(p) ==
    /\ mode[p] = "acquiring"
    /\ tried[p] = Wallet
    /\ mode' = [mode EXCEPT ![p] = "idle"]
    /\ tried' = [tried EXCEPT ![p] = {}]
    /\ UNCHANGED <<lock, wallet, held>>

\* The worker has no more business with its wallet.
Leaves(p) ==
    /\ mode' = [mode EXCEPT ![p] = "idle"]
    /\ held' = [held EXCEPT ![p] = 0]
    /\ UNCHANGED <<tried, wallet>>

\* release(): DEL, whoever set the key.
Release(p) ==
    /\ Holding(p)
    /\ lock' = [lock EXCEPT ![wallet[p]] = 0]
    /\ Leaves(p)

\* The DEL fails; unlock() only logs it, and the key stays until it expires.
ReleaseError(p) ==
    /\ "redis" \in Faults
    /\ Holding(p)
    /\ UNCHANGED lock
    /\ Leaves(p)

\* The process stops, wherever it is; its key stays until it expires.
Crash(p) ==
    /\ "crash" \in Faults
    /\ mode[p] # "idle"
    /\ mode' = [mode EXCEPT ![p] = "idle"]
    /\ tried' = [tried EXCEPT ![p] = {}]
    /\ held' = [held EXCEPT ![p] = 0]
    /\ UNCHANGED <<lock, wallet>>

\* Mutant: SET without EX, a key never expires.
LockTickNoExpiry == lock' = lock

\* A key whose time is over is gone.
LockTick == lock' = [w \in Wallet |-> IF lock[w] > 0 THEN lock[w] - 1 ELSE 0]

\* HoldLimit bounds how long a worker keeps its wallet.
WMTick ==
    /\ \A p \in Worker : Holding(p) => held[p] < HoldLimit
    /\ held' = [p \in Worker |-> IF Holding(p) THEN held[p] + 1 ELSE held[p]]
    /\ LockTick
    /\ UNCHANGED <<mode, tried, wallet>>

WMStep(p) ==
    \/ StartAcquire(p)
    \/ \E w \in Wallet : LockGranted(p, w) \/ LockRefused(p, w) \/ LockError(p, w)
    \/ NoAvailableWallet(p)
    \/ Release(p)
    \/ ReleaseError(p)
    \/ Crash(p)

WMNext == WMTick \/ \E p \in Worker : WMStep(p)

WMSpec == WMInit /\ [][WMNext]_wmVars

\* A worker that has a wallet gives it back, and the clock keeps running; a
\* worker need not ask for a wallet, and nothing makes Redis fail.
WMFairSpec ==
    /\ WMSpec
    /\ WF_wmVars(WMTick)
    /\ \A p \in Worker : WF_wmVars(Release(p))

-----------------------------------------------------------------------------

\* Two workers never have the same wallet: what the documentation of
\* wallet_manager.rs promises.  It holds as long as no worker keeps a wallet
\* for LockTTL or longer.
ExclusiveAccess ==
    \A p, q \in Worker :
        p # q /\ Holding(p) /\ Holding(q) => wallet[p] # wallet[q]

\* The key of a wallet that is held was set when the worker got it, and both count
\* the time since then: no attempt of another worker, no lost answer and no release
\* renews the key, replaces it or takes time off it.  (lock_manager.rs: SET NX EX)
KeyAgesWithHolder ==
    \A p \in Worker : Holding(p) => lock[wallet[p]] + held[p] = LockTTL

\* A release frees the worker's own lock: the key it deletes is still there,
\* and no other worker is behind it.
ReleasesOwnLock ==
    \A p \in Worker : Holding(p) => lock[wallet[p]] > 0

\* Without faults a key is there only while a worker has the wallet: every
\* way out of the code that holds a wallet goes through release().
NothingLeaked ==
    Faults = {} =>
        \A w \in Wallet :
            lock[w] > 0 => \E p \in Worker : Holding(p) /\ wallet[p] = w

\* Whatever fails on the way (a crash, a lost DEL, a lost answer to SET), a
\* locked wallet can be locked again some time later.
LockIsFreed == \A w \in Wallet : lock[w] > 0 ~> lock[w] = 0

=============================================================================
