-------------------------- MODULE HighLoadQueryId --------------------------
(***************************************************************************)
(* The query id of a highload wallet: a pair of a shift and a bit number.  *)
(* The wallet contract refuses a query id it remembers, so the relayer     *)
(* walks through the ids in increasing order.                              *)
(***************************************************************************)
EXTENDS Integers

CONSTANTS
    MAX_SHIFT,      \* 8191 in the code
    MAX_BITNUMBER,  \* 1022 in the code
    BITNUMBER_BASE  \* 2^BITNUMBER_SIZE, 1024 in the code

ASSUME QueryIdAssumption ==
    /\ MAX_SHIFT \in Nat \ {0}
    /\ MAX_BITNUMBER \in Nat \ {0, 1}
    /\ BITNUMBER_BASE \in Nat
    /\ MAX_BITNUMBER < BITNUMBER_BASE

\* The values from_shift_and_bitnumber accepts.
QueryId == [shift : 0..MAX_SHIFT, bitnumber : 0..MAX_BITNUMBER]

\* The first id of a wallet, and of every new epoch.
FirstId == [shift |-> 0, bitnumber |-> 0]

query_id(q) == q.shift * BITNUMBER_BASE + q.bitnumber

has_next(q) == ~(q.bitnumber >= MAX_BITNUMBER - 1 /\ q.shift = MAX_SHIFT)

\* The ids in front of the last two, which next() keeps back for an emergency.
Allottable == {q \in QueryId : has_next(q)}

\* Mutant: the reserve is one id too short.
EmergencyOverloadLate(q) ==
    q.shift = MAX_SHIFT /\ q.bitnumber + 1 = MAX_BITNUMBER

\* next() fails with EmergencyOverload ...
EmergencyOverload(q) ==
    q.shift = MAX_SHIFT /\ q.bitnumber + 1 = MAX_BITNUMBER - 1

\* ... or with ShiftOverflow ...
ShiftOverflow(q) ==
    q.bitnumber + 1 > MAX_BITNUMBER /\ q.shift + 1 > MAX_SHIFT

\* Mutant: the carry into the shift is lost when the bit number wraps.
next_no_carry(q) ==
    IF q.bitnumber + 1 > MAX_BITNUMBER
    THEN [shift |-> q.shift, bitnumber |-> 0]
    ELSE [shift |-> q.shift, bitnumber |-> q.bitnumber + 1]

\* ... and otherwise returns this id.
next(q) ==
    IF q.bitnumber + 1 > MAX_BITNUMBER
    THEN [shift |-> q.shift + 1, bitnumber |-> 0]
    ELSE [shift |-> q.shift, bitnumber |-> q.bitnumber + 1]

=============================================================================
