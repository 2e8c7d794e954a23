-------------------------- MODULE QueryIdWrapper ---------------------------
(***************************************************************************)
(* HighLoadQueryIdDbWrapper::next and the three SQL statements of          *)
(* PgTONWalletQueryIdModel, as operators on the row of one wallet.         *)
(*                                                                         *)
(* A row keeps the last id that was allotted and ttl, the time left until  *)
(* expires_at; ttl = Expired once expires_at has passed.  A wallet without *)
(* a row reads the same as one whose row has expired.                      *)
(***************************************************************************)
EXTENDS HighLoadQueryId

CONSTANT Timeout  \* the wallet's timeout, in ticks of the clock

ASSUME TimeoutAssumption == Timeout \in Nat \ {0}

TIMEOUT_BUFFER_MULTIPLIER == 3

Expired == -1

\* Mutant: two timeouts are taken to be enough.
TwoTimeouts == Timeout * 2

\* The lifetime of a row, counted from the moment its first id is allotted.
Lifetime == Timeout * TIMEOUT_BUFFER_MULTIPLIER

Row == [shift : -1..MAX_SHIFT, bitnumber : -1..MAX_BITNUMBER,
        ttl : Expired..Lifetime]

NoRow == [shift |-> -1, bitnumber |-> -1, ttl |-> Expired]

\* What get_query_id returns.
Snapshot == [shift : -1..MAX_SHIFT, bitnumber : -1..MAX_BITNUMBER]

\* Mutant: the SELECT does not look at expires_at.
get_query_id_unexpiring(r) == [shift |-> r.shift, bitnumber |-> r.bitnumber]

get_query_id(r) ==
    IF r.ttl >= 0
    THEN [shift |-> r.shift, bitnumber |-> r.bitnumber]
    ELSE [shift |-> -1, bitnumber |-> -1]

\* The effect of force_shift_increase on the shift that was read.
ForceShift(s) ==
    LET base == IF s < 0 THEN 1 ELSE s
    IN  IF base + 1 < MAX_SHIFT THEN base + 1 ELSE base

Start(snap, force) ==
    [snap EXCEPT !.shift = IF force THEN ForceShift(snap.shift) ELSE snap.shift]

\* No id to continue from: the wrapper starts again at FirstId.
IsFresh(s) == s.shift < 0 \/ s.bitnumber < 0

\* The call fails with NoNextQueryId or ConstructionError.
NextFails(snap, force) ==
    LET s == Start(snap, force)
    IN  /\ ~IsFresh(s)
        /\ ~has_next(s) \/ EmergencyOverload(s) \/ ShiftOverflow(s)

\* The id a successful call allots.
NextId(snap, force) ==
    LET s == Start(snap, force)
    IN  IF IsFresh(s) THEN FirstId ELSE next(s)

\* upsert_query_id for the id 0, update_query_id for every other one.
Store(r, q) ==
    IF query_id(q) = 0
    THEN [shift |-> q.shift, bitnumber |-> q.bitnumber, ttl |-> Lifetime]
    ELSE [r EXCEPT !.shift = q.shift, !.bitnumber = q.bitnumber]

\* One tick of the database's clock.
RowTick(r) == [r EXCEPT !.ttl = IF @ > Expired THEN @ - 1 ELSE @]

=============================================================================
