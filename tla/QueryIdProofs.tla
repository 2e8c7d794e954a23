--------------------------- MODULE QueryIdProofs ---------------------------
(***************************************************************************)
(* Lemmas about the operators of HighLoadQueryId, QueryIdWrapper and       *)
(* HighloadContract, for every size of the id space and every timeout:     *)
(* which id next() allots, what the SQL statements make of a row, and what *)
(* the contract remembers.                                                 *)
(***************************************************************************)
EXTENDS HighloadContract, TLAPS

-----------------------------------------------------------------------------
(* The order of the ids. *)

\* query_id compares pairs first by shift and then by bit number.
LEMMA Ordered ==
    ASSUME NEW s \in Nat, NEW t \in Nat, NEW b \in Nat, NEW c \in Nat,
           b < BITNUMBER_BASE,
           s < t \/ (s = t /\ b < c)
    PROVE  s * BITNUMBER_BASE + b < t * BITNUMBER_BASE + c
<1> USE QueryIdAssumption
<1>1. CASE s < t
  <2>1. (s + 1) * BITNUMBER_BASE <= t * BITNUMBER_BASE
    BY <1>1
  <2>2. (s + 1) * BITNUMBER_BASE = s * BITNUMBER_BASE + BITNUMBER_BASE
    OBVIOUS
  <2>3. s * BITNUMBER_BASE \in Nat /\ t * BITNUMBER_BASE \in Nat
    OBVIOUS
  <2> QED
    BY <2>1, <2>2, <2>3
<1>2. CASE s = t /\ b < c
  BY <1>2
<1> QED
  BY <1>1, <1>2

\* What next() allots from a live row: an id larger than the row's, and not one of
\* those that are kept back.
LEMMA NextIdGrows ==
    ASSUME NEW snap \in QueryId, NEW force \in BOOLEAN,
           ~NextFails(snap, force)
    PROVE  /\ NextId(snap, force) \in Allottable
           /\ query_id(NextId(snap, force)) > query_id(snap)
<1> USE QueryIdAssumption
<1> DEFINE s == Start(snap, force)
           n == NextId(snap, force)
<1>1. s \in QueryId /\ s.shift >= snap.shift /\ s.bitnumber = snap.bitnumber
  BY DEF Start, ForceShift, QueryId
<1>2. ~IsFresh(s)
  BY <1>1 DEF IsFresh, QueryId
<1>3. n = next(s)
  BY <1>2 DEF NextId
<1>4. has_next(s) /\ ~EmergencyOverload(s) /\ ~ShiftOverflow(s)
  BY <1>2 DEF NextFails
<1>5. n \in QueryId
  BY <1>1, <1>3, <1>4 DEF next, ShiftOverflow, QueryId
<1>6. snap.shift < n.shift \/ (snap.shift = n.shift /\ snap.bitnumber < n.bitnumber)
  BY <1>1, <1>3 DEF next, QueryId
<1>7. query_id(snap) < query_id(n)
  <2>1. /\ snap.shift \in Nat /\ n.shift \in Nat
        /\ snap.bitnumber \in Nat /\ n.bitnumber \in Nat
        /\ snap.bitnumber < BITNUMBER_BASE
    BY <1>5 DEF QueryId
  <2> QED
    BY <1>6, <2>1, Ordered DEF query_id
<1>8. query_id(snap) \in Int /\ query_id(n) \in Int
  BY <1>5 DEF QueryId, query_id
<1>9. has_next(n)
  BY <1>1, <1>3, <1>4 DEF next, has_next, EmergencyOverload, ShiftOverflow, QueryId
<1> QED
  BY <1>5, <1>7, <1>8, <1>9 DEF Allottable

-----------------------------------------------------------------------------
(* The row of a wallet. *)

\* A row that has not expired names an id.
NamesId(r) == r.ttl >= 0 => r.shift >= 0 /\ r.bitnumber >= 0

\* The rows of ton_wallet_query_id that the statements produce.
GoodRow == {r \in Row : NamesId(r)}

\* Only FirstId has the number 0, which next() takes as the start of an epoch.
LEMMA FirstIdIsZero ==
    ASSUME NEW q \in QueryId
    PROVE  /\ FirstId \in QueryId
           /\ query_id(q) \in Nat
           /\ query_id(q) = 0 <=> q = FirstId
<1> USE QueryIdAssumption
<1>1. q.shift \in Nat /\ q.bitnumber \in Nat /\ q.shift * BITNUMBER_BASE \in Nat
  BY DEF QueryId
<1>2. query_id(q) \in Nat
  BY <1>1 DEF query_id
<1>3. query_id(q) = 0 => q.shift = 0 /\ q.bitnumber = 0
  <2> DEFINE a == q.shift * BITNUMBER_BASE
  <2>1. a \in Nat /\ query_id(q) = a + q.bitnumber
    BY <1>1 DEF query_id
  <2>2. q.shift = 0 \/ a >= 1
    BY <1>1
  <2> HIDE DEF a
  <2> QED
    BY <1>1, <2>1, <2>2
<1>4. q.shift = 0 /\ q.bitnumber = 0 => q = FirstId
  BY DEF QueryId, FirstId
<1>5. FirstId \in QueryId /\ query_id(FirstId) = 0
  BY DEF QueryId, FirstId, query_id
<1> QED
  BY <1>2, <1>3, <1>4, <1>5

\* An id with the number of another id is that id.
LEMMA SameNumber ==
    ASSUME NEW q \in QueryId, NEW r \in QueryId, query_id(q) = query_id(r)
    PROVE  q = r
<1> USE QueryIdAssumption
<1>1. /\ q.shift \in Nat /\ q.bitnumber \in Nat /\ q.bitnumber < BITNUMBER_BASE
      /\ r.shift \in Nat /\ r.bitnumber \in Nat /\ r.bitnumber < BITNUMBER_BASE
  BY DEF QueryId
<1>2. query_id(q) \in Nat /\ query_id(r) \in Nat
  BY FirstIdIsZero
<1>3. ~(q.shift < r.shift \/ (q.shift = r.shift /\ q.bitnumber < r.bitnumber))
  BY <1>1, <1>2, Ordered DEF query_id
<1>4. ~(r.shift < q.shift \/ (r.shift = q.shift /\ r.bitnumber < q.bitnumber))
  BY <1>1, <1>2, Ordered DEF query_id
<1>5. q.shift = r.shift /\ q.bitnumber = r.bitnumber
  BY <1>1, <1>3, <1>4
<1> QED
  BY <1>5 DEF QueryId

\* A row that has not expired names a number.
LEMMA LiveRow ==
    ASSUME NEW r \in GoodRow
    PROVE  r.ttl \in Int /\ (r.ttl >= 0 => query_id(r) \in Nat)
<1>1. r.ttl \in Int
  BY TimeoutAssumption DEF GoodRow, Row, Expired, Lifetime, TIMEOUT_BUFFER_MULTIPLIER
<1>2. ASSUME r.ttl >= 0
      PROVE  r.shift \in Nat /\ r.bitnumber \in Nat
  BY <1>2, QueryIdAssumption DEF GoodRow, NamesId, Row
<1>3. ASSUME NEW x \in Nat, NEW y \in Nat
      PROVE  x * BITNUMBER_BASE + y \in Nat
  BY QueryIdAssumption
<1> QED
  BY <1>1, <1>2, <1>3 DEF query_id

\* From a live row next() allots an id larger than the one the row names.
LEMMA AllottedLive ==
    ASSUME NEW r \in GoodRow, r.ttl >= 0, NEW force \in BOOLEAN,
           ~NextFails(get_query_id(r), force)
    PROVE  /\ NextId(get_query_id(r), force) \in Allottable
           /\ NextId(get_query_id(r), force) \in QueryId
           /\ NextId(get_query_id(r), force) # FirstId
           /\ query_id(NextId(get_query_id(r), force)) > query_id(r)
           /\ query_id(r) \in Nat
<1> DEFINE snap == get_query_id(r)
           n == NextId(snap, force)
<1>1. snap = [shift |-> r.shift, bitnumber |-> r.bitnumber]
  BY DEF get_query_id
<1>2. r.shift \in 0..MAX_SHIFT /\ r.bitnumber \in 0..MAX_BITNUMBER
  BY QueryIdAssumption DEF GoodRow, NamesId, Row
<1>3. snap \in QueryId
  BY <1>1, <1>2 DEF QueryId
<1>4. query_id(snap) = query_id(r)
  BY <1>1 DEF query_id
<1>5. n \in Allottable /\ n \in QueryId /\ query_id(n) > query_id(snap)
  <2> HIDE DEF snap
  <2> QED
    BY <1>3, NextIdGrows DEF snap, Allottable
<1> HIDE DEF snap, n
<1>6. query_id(snap) \in Nat /\ query_id(n) \in Nat
  BY <1>3, <1>5, FirstIdIsZero
<1>7. query_id(n) # 0
  BY <1>5, <1>6
<1>8. n # FirstId
  BY <1>5, <1>7, FirstIdIsZero
<1> QED
  BY <1>4, <1>5, <1>6, <1>8 DEF n, snap

\* An expired row is read as if there were none, even by a forced call.
LEMMA AllottedExpired ==
    ASSUME NEW r \in GoodRow, ~(r.ttl >= 0), NEW force \in BOOLEAN
    PROVE  NextId(get_query_id(r), force) = FirstId
<1>1. get_query_id(r) = [shift |-> -1, bitnumber |-> -1]
  BY DEF get_query_id
<1> DEFINE s == IF force THEN ForceShift(-1) ELSE -1
<1>2. Start(get_query_id(r), force) = [shift |-> s, bitnumber |-> -1]
  BY <1>1 DEF Start
<1>3. IsFresh(Start(get_query_id(r), force))
  BY <1>2 DEF IsFresh
<1> QED
  BY <1>3 DEF NextId

\* FirstId starts an epoch with a lifetime of its own; every other id leaves the
\* lifetime alone.
LEMMA StoreEffect ==
    ASSUME NEW r \in GoodRow, NEW q \in QueryId
    PROVE  /\ Store(r, q) = [shift |-> q.shift, bitnumber |-> q.bitnumber,
                             ttl |-> IF q = FirstId THEN Lifetime ELSE r.ttl]
           /\ Store(r, q) \in GoodRow
           /\ query_id(Store(r, q)) = query_id(q)
<1>1. Store(r, q) = [shift |-> q.shift, bitnumber |-> q.bitnumber,
                     ttl |-> IF q = FirstId THEN Lifetime ELSE r.ttl]
  <2>1. CASE q = FirstId
    BY <2>1, FirstIdIsZero DEF Store
  <2>2. CASE q # FirstId
    <3>1. Store(r, q) = [r EXCEPT !.shift = q.shift, !.bitnumber = q.bitnumber]
      BY <2>2, FirstIdIsZero DEF Store
    <3> QED
      BY <2>2, <3>1 DEF GoodRow, Row
  <2> QED
    BY <2>1, <2>2
<1>2. Lifetime \in Expired..Lifetime
  BY TimeoutAssumption DEF Lifetime, Expired, TIMEOUT_BUFFER_MULTIPLIER
<1>3. Store(r, q) \in Row
  BY <1>1, <1>2, QueryIdAssumption DEF GoodRow, Row, QueryId
<1>4. Store(r, q) \in GoodRow
  BY <1>1, <1>3, QueryIdAssumption DEF GoodRow, NamesId, QueryId
<1>5. query_id(Store(r, q)) = query_id(q)
  BY <1>1 DEF query_id
<1> QED
  BY <1>1, <1>4, <1>5

\* A tick shortens the lifetime of a row, and leaves its id alone.
LEMMA RowTickEffect ==
    ASSUME NEW r \in GoodRow
    PROVE  /\ RowTick(r) \in GoodRow
           /\ query_id(RowTick(r)) = query_id(r)
           /\ RowTick(r).ttl = IF r.ttl > -1 THEN r.ttl - 1 ELSE r.ttl
<1>1. RowTick(r) = [shift |-> r.shift, bitnumber |-> r.bitnumber,
                    ttl |-> IF r.ttl > -1 THEN r.ttl - 1 ELSE r.ttl]
  BY DEF RowTick, Expired, GoodRow, Row
<1>2. r.ttl \in -1..Lifetime /\ Lifetime \in Nat
  BY TimeoutAssumption DEF GoodRow, Row, Expired, Lifetime, TIMEOUT_BUFFER_MULTIPLIER
<1>3. RowTick(r) \in Row
  BY <1>1, <1>2 DEF GoodRow, Row, Expired
<1>4. NamesId(RowTick(r))
  BY <1>1, <1>2 DEF GoodRow, NamesId
<1>5. query_id(RowTick(r)) = query_id(r)
  BY <1>1 DEF query_id
<1> QED
  BY <1>1, <1>3, <1>4, <1>5 DEF GoodRow

-----------------------------------------------------------------------------
(* The memory of the contract. *)

\* The state of the contract is well-formed after a cleaning, a message and a tick.
LEMMA ContractTypes ==
    ASSUME NEW c \in Contract, NEW q \in QueryId
    PROVE  /\ Clean(c) \in Contract
           /\ Accept(c, q) \in Contract
           /\ ContractTick(c) \in Contract
<1> USE TimeoutAssumption DEF Contract, OldAge
<1>1. Clean(c) \in Contract
  BY DEF Clean
<1>2. Accept(c, q) \in Contract
  BY <1>1 DEF Accept
<1>3. ContractTick(c) \in Contract
  BY DEF ContractTick
<1> QED
  BY <1>1, <1>2, <1>3

\* Accepting a message makes the wallet refuse its id, and no other id that it would
\* have accepted.
LEMMA AcceptEffect ==
    ASSUME NEW c \in Contract, NEW q \in QueryId, NEW r \in QueryId
    PROVE  Rejects(Accept(c, q), r) <=> Rejects(c, r) \/ r = q
<1> USE TimeoutAssumption DEF Contract, OldAge
<1>1. Clean(c).age <= Timeout
  BY DEF Clean
<1>2. Clean(c) \in Contract
  BY ContractTypes
<1>3. /\ Accept(c, q).queries = Clean(c).queries \cup {q}
      /\ Accept(c, q).old_queries = Clean(c).old_queries
      /\ Accept(c, q).age = Clean(c).age
  BY <1>2 DEF Accept
<1>4. Clean(Accept(c, q)) = Accept(c, q)
  BY <1>1, <1>2, <1>3 DEF Clean
<1> QED
  BY <1>3, <1>4 DEF Rejects

=============================================================================
