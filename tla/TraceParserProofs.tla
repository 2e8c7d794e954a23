-------------------------- MODULE TraceParserProofs -------------------------
(***************************************************************************)
(* Proofs about GasCalculator and TraceParser, for any set of traces.      *)
(*                                                                         *)
(* The cost that is summed up message by message is what our accounts lost *)
(* (CostIsLoss).  The sums are those of SumFunctionOnSet, which picks the  *)
(* elements of a finite set in an arbitrary order; their laws are shown by *)
(* induction over its subsets: a law that fails for some subset fails for  *)
(* one of which every smaller subset obeys it.                             *)
(*                                                                         *)
(* No two events of a trace share an event_id; where the contracts log     *)
(* what check_match looks for, a gas payment is credited to a call with    *)
(* its key, the first call that was paid for has its credit, and ITS logs  *)
(* are paired with calls in their order.  An execution and a refund are    *)
(* charged what our accounts lost, approvals together all of it but the    *)
(* remainder of the division, and a trace has one outcome.                 *)
(***************************************************************************)
EXTENDS TraceParser, FiniteSetTheorems, NaturalsInduction, WellFoundedInduction, TLAPS

-----------------------------------------------------------------------------
(* Minimal elements. *)

\* A set of numbers that is not empty has a least element.
LEMMA LeastElement ==
    ASSUME NEW T \in SUBSET Nat, T # {}
    PROVE  \E x \in T : \A y \in T : x <= y
<1> DEFINE R == {ss \in Nat \X Nat : ss[1] < ss[2]}
<1>1. IsWellFoundedOn(R, Nat)
  BY NatLessThanWellFounded DEF OpToRel
<1>2. PICK x \in T : \A y \in T : <<y, x>> \notin R
  <2> HIDE DEF R
  <2> QED
    BY <1>1, WFMin
<1>3. ASSUME NEW y \in T
      PROVE  x <= y
  <2>1. <<y, x>> \notin R
    BY <1>2
  <2> QED
    BY <2>1
<1> QED
  BY <1>3

\* A family of subsets of a finite set that is not empty has a minimal member.
LEMMA MinimalSubset ==
    ASSUME NEW S, IsFiniteSet(S), NEW B \in SUBSET SUBSET S, B # {}
    PROVE  \E T \in B : \A U \in SUBSET T : U # T => U \notin B
<1>1. IsWellFoundedOn(StrictSubsetOrdering(S), SUBSET S)
  BY FS_StrictSubsetOrderingWellFounded, FS_FiniteSubsetsOfFinite
<1>2. PICK T \in B : \A U \in B : <<U, T>> \notin StrictSubsetOrdering(S)
  BY <1>1, WFMin
<1>3. ASSUME NEW U \in SUBSET T, U # T, U \in B
      PROVE  FALSE
  BY <1>2, <1>3 DEF StrictSubsetOrdering
<1> QED
  BY <1>3

-----------------------------------------------------------------------------
(* Sums over finite sets. *)

Pick(s) == CHOOSE x \in s : TRUE

\* The function that the sum over S recurses with.
Iterates(f, S, g) ==
    g = [s \in SUBSET S |-> IF s = {} THEN 0 ELSE f[Pick(s)] + g[s \ {Pick(s)}]]

Iterator(f, S) == CHOOSE g : Iterates(f, S, g)

Total(f, S) == SumFunctionOnSet(f, S)

LEMMA SumIterates ==
    ASSUME NEW f, NEW S
    PROVE  Total(f, S) = Iterator(f, S)[S]
BY DEF Total, Iterator, SumFunctionOnSet, FoldFunctionOnSet, MapThenFoldSet, Iterates, Pick

\* What it computes for a set does not depend on the larger set it is defined for.
LEMMA IteratesAgree ==
    ASSUME NEW f, NEW S, NEW R, NEW g, NEW h, IsFiniteSet(S), S \subseteq R,
           Iterates(f, S, g), Iterates(f, R, h)
    PROVE  g[S] = h[S]
<1> DEFINE B == {T \in SUBSET S : g[T] # h[T]}
<1>1. CASE B = {}
  BY <1>1
<1>2. CASE B # {}
  <2>1. PICK T \in B : \A U \in SUBSET T : U # T => U \notin B
    <3> HIDE DEF B
    <3>1. B \in SUBSET SUBSET S
      BY DEF B
    <3> QED
      BY <1>2, <3>1, MinimalSubset
  <2>2. T \in SUBSET S /\ T \in SUBSET R /\ g[T] # h[T]
    BY <2>1
  <2>3. T # {}
    BY <2>2 DEF Iterates
  <2>4. Pick(T) \in T
    BY <2>3 DEF Pick
  <2>5. g[T \ {Pick(T)}] = h[T \ {Pick(T)}]
    BY <2>1, <2>2, <2>4
  <2>6. /\ g[T] = f[Pick(T)] + g[T \ {Pick(T)}]
        /\ h[T] = f[Pick(T)] + h[T \ {Pick(T)}]
    BY <2>2, <2>3 DEF Iterates
  <2> QED
    BY <2>2, <2>5, <2>6
<1> QED
  BY <1>1, <1>2

\* The recursion is well-defined over a finite set.
LEMMA IteratorIterates ==
    ASSUME NEW f, NEW S, IsFiniteSet(S)
    PROVE  Iterates(f, S, Iterator(f, S))
<1> DEFINE B == {T \in SUBSET S : ~\E g : Iterates(f, T, g)}
<1>1. CASE B = {}
  <2>1. \E g : Iterates(f, S, g)
    BY <1>1
  <2> QED
    BY <2>1 DEF Iterator
<1>2. CASE B # {}
  <2>1. PICK T \in B : \A U \in SUBSET T : U # T => U \notin B
    <3> HIDE DEF B
    <3>1. B \in SUBSET SUBSET S
      BY DEF B
    <3> QED
      BY <1>2, <3>1, MinimalSubset
  <2>2. T \in SUBSET S /\ ~\E g : Iterates(f, T, g)
    BY <2>1
  <2>3. ASSUME NEW U \in SUBSET T, U # T
        PROVE  IsFiniteSet(U) /\ Iterates(f, U, Iterator(f, U))
    <3>1. \E g : Iterates(f, U, g)
      BY <2>1, <2>2, <2>3
    <3> QED
      BY <2>2, <3>1, FS_Subset DEF Iterator
  <2>4. ASSUME NEW U \in SUBSET T, U # T
        PROVE  Total(f, U) = IF U = {} THEN 0 ELSE f[Pick(U)] + Total(f, U \ {Pick(U)})
    <3>1. Iterates(f, U, Iterator(f, U)) /\ Total(f, U) = Iterator(f, U)[U]
      BY <2>3, <2>4, SumIterates
    <3>2. CASE U = {}
      BY <3>1, <3>2 DEF Iterates
    <3>3. CASE U # {}
      <4> DEFINE W == U \ {Pick(U)}
      <4>1. W \in SUBSET T /\ W # T /\ W \subseteq U
        BY <2>4
      <4>2. IsFiniteSet(W) /\ Iterates(f, W, Iterator(f, W)) /\ Total(f, W) = Iterator(f, W)[W]
        BY <2>3, <4>1, SumIterates
      <4>3. Iterator(f, W)[W] = Iterator(f, U)[W]
        BY <3>1, <4>1, <4>2, IteratesAgree
      <4>4. Iterator(f, U)[U] = f[Pick(U)] + Iterator(f, U)[W]
        BY <3>1, <3>3 DEF Iterates
      <4> QED
        BY <3>1, <3>3, <4>2, <4>3, <4>4
    <3> QED
      BY <3>2, <3>3
  <2> DEFINE h == [s \in SUBSET T |->
                      IF s = {} THEN 0 ELSE f[Pick(s)] + Total(f, s \ {Pick(s)})]
  <2>5. ASSUME NEW s \in SUBSET T
        PROVE  h[s] = IF s = {} THEN 0 ELSE f[Pick(s)] + h[s \ {Pick(s)}]
    <3>1. CASE s = {}
      BY <3>1
    <3>2. CASE s # {}
      <4>1. Pick(s) \in s
        BY <3>2 DEF Pick
      <4>2. s \ {Pick(s)} \in SUBSET T /\ s \ {Pick(s)} # T
        BY <4>1
      <4>3. h[s \ {Pick(s)}] = Total(f, s \ {Pick(s)})
        BY <2>4, <4>2
      <4> QED
        BY <3>2, <4>3
    <3> QED
      BY <3>1, <3>2
  <2>6. Iterates(f, T, h)
    <3>1. h = [s \in SUBSET T |-> h[s]]
      OBVIOUS
    <3> HIDE DEF h
    <3> QED
      BY <2>5, <3>1 DEF Iterates
  <2> QED
    BY <2>2, <2>6
<1> QED
  BY <1>1, <1>2

\* The sum over no element is zero; any other is taken apart at the element picked first.
LEMMA SumUnfold ==
    ASSUME NEW f, NEW S, IsFiniteSet(S)
    PROVE  /\ S = {} => Total(f, S) = 0
           /\ S # {} => Pick(S) \in S /\ Total(f, S) = f[Pick(S)] + Total(f, S \ {Pick(S)})
<1>1. Iterates(f, S, Iterator(f, S)) /\ Total(f, S) = Iterator(f, S)[S]
  BY IteratorIterates, SumIterates
<1>2. CASE S = {}
  BY <1>1, <1>2 DEF Iterates
<1>3. CASE S # {}
  <2> DEFINE W == S \ {Pick(S)}
  <2>1. IsFiniteSet(W) /\ W \subseteq S
    BY FS_RemoveElement
  <2>2. Iterates(f, W, Iterator(f, W)) /\ Total(f, W) = Iterator(f, W)[W]
    BY <2>1, IteratorIterates, SumIterates
  <2>3. Iterator(f, W)[W] = Iterator(f, S)[W]
    BY <1>1, <2>1, <2>2, IteratesAgree
  <2>4. Iterator(f, S)[S] = f[Pick(S)] + Iterator(f, S)[W]
    BY <1>1, <1>3 DEF Iterates
  <2>5. Pick(S) \in S
    BY <1>3 DEF Pick
  <2> QED
    BY <1>1, <1>3, <2>2, <2>3, <2>4, <2>5
<1> QED
  BY <1>2, <1>3

\* A sum of integers is an integer.
LEMMA SumType ==
    ASSUME NEW f, NEW S, IsFiniteSet(S), \A x \in S : f[x] \in Int
    PROVE  Total(f, S) \in Int
<1> DEFINE B == {T \in SUBSET S : Total(f, T) \notin Int}
<1>1. CASE B = {}
  BY <1>1
<1>2. CASE B # {}
  <2>1. PICK T \in B : \A U \in SUBSET T : U # T => U \notin B
    <3> HIDE DEF B
    <3>1. B \in SUBSET SUBSET S
      BY DEF B
    <3> QED
      BY <1>2, <3>1, MinimalSubset
  <2>2. T \in SUBSET S /\ Total(f, T) \notin Int /\ IsFiniteSet(T)
    BY <2>1, FS_Subset
  <2>3. T # {} /\ Pick(T) \in T /\ Total(f, T) = f[Pick(T)] + Total(f, T \ {Pick(T)})
    BY <2>2, SumUnfold
  <2>4. Total(f, T \ {Pick(T)}) \in Int
    BY <2>1, <2>2, <2>3
  <2> QED
    BY <2>2, <2>3, <2>4
<1> QED
  BY <1>1, <1>2

\* It may be taken apart at any element.
LEMMA SumRemove ==
    ASSUME NEW f, NEW S, IsFiniteSet(S), \A x \in S : f[x] \in Int, NEW y \in S
    PROVE  Total(f, S) = f[y] + Total(f, S \ {y})
<1> DEFINE B == {T \in SUBSET S : \E z \in T : Total(f, T) # f[z] + Total(f, T \ {z})}
<1>1. CASE B = {}
  BY <1>1
<1>2. CASE B # {}
  <2>1. PICK T \in B : \A U \in SUBSET T : U # T => U \notin B
    <3> HIDE DEF B
    <3>1. B \in SUBSET SUBSET S
      BY DEF B
    <3> QED
      BY <1>2, <3>1, MinimalSubset
  <2>2. T \in SUBSET S /\ IsFiniteSet(T)
    BY <2>1, FS_Subset
  <2>3. PICK z \in T : Total(f, T) # f[z] + Total(f, T \ {z})
    BY <2>1
  <2> DEFINE c == Pick(T)
  <2>4. c \in T /\ Total(f, T) = f[c] + Total(f, T \ {c})
    BY <2>2, <2>3, SumUnfold
  <2>5. c # z
    BY <2>3, <2>4
  <2>6. T \ {c} \notin B /\ T \ {z} \notin B
    BY <2>1, <2>3, <2>4
  <2>7. Total(f, T \ {c}) = f[z] + Total(f, (T \ {c}) \ {z})
    BY <2>2, <2>3, <2>5, <2>6
  <2>8. Total(f, T \ {z}) = f[c] + Total(f, (T \ {z}) \ {c})
    BY <2>2, <2>4, <2>5, <2>6
  <2>9. (T \ {c}) \ {z} = (T \ {z}) \ {c}
    OBVIOUS
  <2>10. /\ f[c] \in Int /\ f[z] \in Int
         /\ Total(f, (T \ {z}) \ {c}) \in Int
    <3>1. IsFiniteSet((T \ {z}) \ {c}) /\ (T \ {z}) \ {c} \subseteq S
      BY <2>2, FS_Subset
    <3> QED
      BY <2>2, <2>3, <2>4, <3>1, SumType
  <2> DEFINE X == Total(f, (T \ {z}) \ {c})
  <2>11. Total(f, T) = f[c] + (f[z] + X) /\ f[z] + Total(f, T \ {z}) = f[z] + (f[c] + X)
    BY <2>4, <2>7, <2>8, <2>9
  <2>12. X \in Int
    BY <2>10
  <2> HIDE DEF c, X
  <2>13. f[c] + (f[z] + X) = f[z] + (f[c] + X)
    BY <2>10, <2>12
  <2> QED
    BY <2>3, <2>11, <2>13
<1> QED
  BY <1>1, <1>2

\* Sums are added term by term.
LEMMA SumAdd ==
    ASSUME NEW f, NEW g, NEW h, NEW S, IsFiniteSet(S),
           \A x \in S : f[x] \in Int /\ g[x] \in Int /\ h[x] = f[x] + g[x]
    PROVE  Total(h, S) = Total(f, S) + Total(g, S)
<1> DEFINE B == {T \in SUBSET S : Total(h, T) # Total(f, T) + Total(g, T)}
<1>1. CASE B = {}
  BY <1>1
<1>2. CASE B # {}
  <2>1. PICK T \in B : \A U \in SUBSET T : U # T => U \notin B
    <3> HIDE DEF B
    <3>1. B \in SUBSET SUBSET S
      BY DEF B
    <3> QED
      BY <1>2, <3>1, MinimalSubset
  <2>2. T \in SUBSET S /\ IsFiniteSet(T) /\ Total(h, T) # Total(f, T) + Total(g, T)
    BY <2>1, FS_Subset
  <2>3. CASE T = {}
    <3>1. Total(h, T) = 0 /\ Total(f, T) = 0 /\ Total(g, T) = 0
      BY <2>2, <2>3, SumUnfold
    <3> QED
      BY <2>2, <3>1
  <2>4. CASE T # {}
    <3> DEFINE c == Pick(T)
               U == T \ {c}
    <3>1. /\ c \in T /\ Total(h, T) = h[c] + Total(h, U)
          /\ Total(f, T) = f[c] + Total(f, U) /\ Total(g, T) = g[c] + Total(g, U)
      BY <2>2, <2>4, SumUnfold
    <3>2. U \in SUBSET T /\ U # T /\ U \subseteq S
      BY <2>2, <3>1
    <3>3. Total(h, U) = Total(f, U) + Total(g, U)
      BY <2>1, <3>2
    <3>4. Total(f, U) \in Int /\ Total(g, U) \in Int
      BY <2>2, <3>2, FS_Subset, SumType
    <3>5. f[c] \in Int /\ g[c] \in Int /\ h[c] = f[c] + g[c]
      BY <2>2, <3>1
    <3> HIDE DEF c, U
    <3> QED
      BY <2>2, <3>1, <3>3, <3>4, <3>5
  <2> QED
    BY <2>3, <2>4
<1> QED
  BY <1>1, <1>2

\* Equal terms have equal sums.
LEMMA SumSame ==
    ASSUME NEW f, NEW h, NEW S, IsFiniteSet(S), \A x \in S : f[x] \in Int /\ h[x] = f[x]
    PROVE  Total(h, S) = Total(f, S)
<1> DEFINE B == {T \in SUBSET S : Total(h, T) # Total(f, T)}
<1>1. CASE B = {}
  BY <1>1
<1>2. CASE B # {}
  <2>1. PICK T \in B : \A U \in SUBSET T : U # T => U \notin B
    <3> HIDE DEF B
    <3>1. B \in SUBSET SUBSET S
      BY DEF B
    <3> QED
      BY <1>2, <3>1, MinimalSubset
  <2>2. T \in SUBSET S /\ IsFiniteSet(T) /\ Total(h, T) # Total(f, T)
    BY <2>1, FS_Subset
  <2>3. T # {}
    BY <2>2, SumUnfold
  <2>4. /\ Pick(T) \in T
        /\ Total(h, T) = h[Pick(T)] + Total(h, T \ {Pick(T)})
        /\ Total(f, T) = f[Pick(T)] + Total(f, T \ {Pick(T)})
    BY <2>2, <2>3, SumUnfold
  <2>5. Total(h, T \ {Pick(T)}) = Total(f, T \ {Pick(T)})
    BY <2>1, <2>2, <2>4
  <2> QED
    BY <2>2, <2>4, <2>5
<1> QED
  BY <1>1, <1>2

\* A sum of equal terms is a product.
LEMMA SumConstant ==
    ASSUME NEW f, NEW S, IsFiniteSet(S), NEW c \in Int, \A x \in S : f[x] = c
    PROVE  Total(f, S) = c * Cardinality(S)
<1> DEFINE B == {T \in SUBSET S : Total(f, T) # c * Cardinality(T)}
<1>1. CASE B = {}
  BY <1>1
<1>2. CASE B # {}
  <2>1. PICK T \in B : \A U \in SUBSET T : U # T => U \notin B
    <3> HIDE DEF B
    <3>1. B \in SUBSET SUBSET S
      BY DEF B
    <3> QED
      BY <1>2, <3>1, MinimalSubset
  <2>2. T \in SUBSET S /\ IsFiniteSet(T) /\ Total(f, T) # c * Cardinality(T)
    BY <2>1, FS_Subset
  <2>3. CASE T = {}
    <3>1. Total(f, T) = 0
      BY <2>2, <2>3, SumUnfold
    <3>2. Cardinality(T) = 0
      BY <2>3, FS_EmptySet
    <3> QED
      BY <2>2, <3>1, <3>2
  <2>4. CASE T # {}
    <3> DEFINE x == Pick(T)
               U == T \ {x}
    <3>1. x \in T /\ Total(f, T) = f[x] + Total(f, U)
      BY <2>2, <2>4, SumUnfold
    <3>2. U \in SUBSET T /\ U # T /\ U \subseteq S
      BY <2>2, <3>1
    <3>3. Total(f, U) = c * Cardinality(U)
      BY <2>1, <3>2
    <3>4. /\ Cardinality(T) \in Nat /\ Cardinality(U) \in Nat
          /\ Cardinality(U) = Cardinality(T) - 1
      BY <2>2, <3>1, FS_RemoveElement, FS_CardinalityType
    <3>5. f[x] = c
      BY <2>2, <3>1
    <3> DEFINE n == Cardinality(U)
               m == Cardinality(T)
    <3>6. n \in Nat /\ m = n + 1
      BY <3>4
    <3> HIDE DEF x, U, n, m
    <3>7. c * (n + 1) = c + c * n
      BY <3>6
    <3>8. Total(f, T) = c + c * n
      BY <3>1, <3>3, <3>5 DEF n
    <3> QED
      BY <2>2, <3>6, <3>7, <3>8 DEF m
  <2> QED
    BY <2>3, <2>4
<1> QED
  BY <1>1, <1>2

\* A sum that has one term at most is that term.
LEMMA SumPoint ==
    ASSUME NEW f, NEW S, IsFiniteSet(S), NEW y, NEW v \in Int,
           \A x \in S : f[x] = IF x = y THEN v ELSE 0
    PROVE  Total(f, S) = IF y \in S THEN v ELSE 0
<1>1. ASSUME NEW T \in SUBSET S, y \notin T
      PROVE  Total(f, T) = 0
  <2>1. \A x \in T : f[x] = 0
    BY <1>1
  <2>2. IsFiniteSet(T) /\ Cardinality(T) \in Nat
    BY FS_Subset, FS_CardinalityType
  <2>3. Total(f, T) = 0 * Cardinality(T)
    BY <2>1, <2>2, SumConstant
  <2> QED
    BY <2>2, <2>3
<1>2. CASE y \notin S
  BY <1>1, <1>2
<1>3. CASE y \in S
  <2>1. Total(f, S) = f[y] + Total(f, S \ {y})
    BY <1>3, SumRemove
  <2>2. Total(f, S \ {y}) = 0
    BY <1>1
  <2> QED
    BY <1>3, <2>1, <2>2
<1> QED
  BY <1>2, <1>3

\* The order of two sums does not matter.
LEMMA SumSwap ==
    ASSUME NEW S, NEW R, IsFiniteSet(S), IsFiniteSet(R), NEW F,
           \A x \in S, y \in R : F[x][y] \in Int
    PROVE  Total([x \in S |-> Total(F[x], R)], S)
               = Total([y \in R |-> Total([x \in S |-> F[x][y]], S)], R)
<1> DEFINE Rows == [x \in S |-> Total(F[x], R)]
           Column(y) == [x \in S |-> F[x][y]]
           Columns(T) == [y \in R |-> Total(Column(y), T)]
           B == {T \in SUBSET S : Total(Rows, T) # Total(Columns(T), R)}
<1>1. CASE B = {}
  BY <1>1
<1>2. CASE B # {}
  <2>1. PICK T \in B : \A U \in SUBSET T : U # T => U \notin B
    <3> HIDE DEF B
    <3>1. B \in SUBSET SUBSET S
      BY DEF B
    <3> QED
      BY <1>2, <3>1, MinimalSubset
  <2>2. T \in SUBSET S /\ IsFiniteSet(T) /\ Total(Rows, T) # Total(Columns(T), R)
    BY <2>1, FS_Subset
  <2>3. CASE T = {}
    <3> HIDE DEF Rows, Column
    <3>1. Total(Rows, T) = 0 /\ \A y \in R : Total(Column(y), T) = 0
      BY <2>2, <2>3, SumUnfold
    <3>2. Total(Columns(T), R) = 0 * Cardinality(R)
      <4>1. \A y \in R : Columns(T)[y] = 0
        BY <3>1
      <4> HIDE DEF Columns
      <4> QED
        BY <4>1, SumConstant
    <3>3. Cardinality(R) \in Nat
      BY FS_CardinalityType
    <3> QED
      BY <2>2, <3>1, <3>2, <3>3
  <2>4. CASE T # {}
    <3> DEFINE c == Pick(T)
               U == T \ {c}
    <3>1. c \in T /\ Total(Rows, T) = Rows[c] + Total(Rows, U)
      <4> HIDE DEF Rows
      <4> QED
        BY <2>2, <2>4, SumUnfold
    <3>2. U \in SUBSET T /\ U # T /\ U \subseteq S /\ IsFiniteSet(U)
      BY <2>2, <3>1, FS_Subset
    <3>3. Total(Rows, U) = Total(Columns(U), R)
      BY <2>1, <3>2
    <3>4. ASSUME NEW y \in R
          PROVE  /\ F[c][y] \in Int /\ Columns(U)[y] \in Int
                 /\ Columns(T)[y] = F[c][y] + Columns(U)[y]
      <4>1. \A x \in S : Column(y)[x] \in Int /\ Column(y)[x] = F[x][y]
        OBVIOUS
      <4>2. Columns(U)[y] = Total(Column(y), U) /\ Columns(T)[y] = Total(Column(y), T)
        OBVIOUS
      <4> HIDE DEF Column, Columns, U
      <4>3. Total(Column(y), U) \in Int
        BY <3>2, <4>1, SumType
      <4>4. Total(Column(y), T) = Column(y)[c] + Total(Column(y), U)
        BY <2>2, <2>4, SumUnfold DEF U
      <4> QED
        BY <2>2, <3>1, <4>1, <4>2, <4>3, <4>4
    <3>5. Total(Columns(T), R) = Total(F[c], R) + Total(Columns(U), R)
      <4> HIDE DEF c, Columns, U
      <4> QED
        BY <3>4, SumAdd
    <3>6. Rows[c] = Total(F[c], R)
      BY <2>2, <3>1
    <3> HIDE DEF c, Columns, U, Rows
    <3> QED
      BY <2>2, <3>1, <3>3, <3>5, <3>6
  <2> QED
    BY <2>3, <2>4
<1> QED
  BY <1>1, <1>2

-----------------------------------------------------------------------------
(* The cost of a trace. *)

\* What account a has less because of one message of a transaction.
Loss(a, tx, msg) ==
    (IF tx.account = a THEN msg.fwd_fee + Carried(msg) ELSE 0)
        - (IF msg.destination = a THEN msg.value ELSE 0)

\* A message costs what all our accounts have less because of it.
LEMMA MessageCostIsLoss ==
    ASSUME NEW tx, NEW msg, msg.value \in Int, msg.fwd_fee \in Int
    PROVE  /\ MessageCost(tx, msg) \in Int
           /\ \A a : Loss(a, tx, msg) \in Int
           /\ Total([a \in OurAddresses |-> Loss(a, tx, msg)], OurAddresses)
                  = MessageCost(tx, msg)
<1> DEFINE O == OurAddresses
           p == msg.fwd_fee + Carried(msg)
           out == [a \in O |-> IF a = tx.account THEN p ELSE 0]
           in == [a \in O |-> IF a = msg.destination THEN 0 - msg.value ELSE 0]
           both == [a \in O |-> Loss(a, tx, msg)]
<1>1. p \in Int /\ IsFiniteSet(O) /\ NoDestination \notin O
  BY AddressAssumption DEF Carried
<1>2. \A a : Loss(a, tx, msg) \in Int
  BY <1>1 DEF Loss
<1>3. Total(out, O) = IF tx.account \in O THEN p ELSE 0
  <2>1. \A a \in O : out[a] = IF a = tx.account THEN p ELSE 0
    OBVIOUS
  <2> HIDE DEF out, p
  <2> QED
    BY <1>1, <2>1, SumPoint
<1>4. Total(in, O) = IF msg.destination \in O THEN 0 - msg.value ELSE 0
  <2> DEFINE v == 0 - msg.value
  <2>1. v \in Int /\ \A a \in O : in[a] = IF a = msg.destination THEN v ELSE 0
    OBVIOUS
  <2>2. Total(in, O) = IF msg.destination \in O THEN v ELSE 0
    <3> HIDE DEF in, v
    <3> QED
      BY <1>1, <2>1, SumPoint
  <2> QED
    BY <2>2
<1>5. Total(both, O) = Total(out, O) + Total(in, O)
  <2>1. \A a \in O : out[a] \in Int /\ in[a] \in Int /\ both[a] = out[a] + in[a]
    BY <1>1 DEF Loss
  <2> HIDE DEF out, in, both
  <2> QED
    BY <1>1, <2>1, SumAdd
<1>6. /\ MessageCost(tx, msg)
             = (IF tx.account \in O THEN p ELSE 0)
                   + (IF msg.destination \in O THEN 0 - msg.value ELSE 0)
      /\ MessageCost(tx, msg) \in Int
  BY <1>1 DEF MessageCost, is_our_transaction, us_sending, us_receiving, Carried
<1> QED
  BY <1>2, <1>3, <1>4, <1>5, <1>6

\* So does a transaction.
LEMMA TransactionCostIsLoss ==
    ASSUME NEW tx, IsTransaction(tx)
    PROVE  /\ TransactionCost(tx) \in Int
           /\ \A a : Spent(a, tx) \in Int /\ Received(a, tx) \in Int
           /\ Total([a \in OurAddresses |-> Spent(a, tx) - Received(a, tx)], OurAddresses)
                  = TransactionCost(tx)
<1> DEFINE O == OurAddresses
           D == DOMAIN tx.outs
           fees == [a \in O |-> IF a = tx.account THEN tx.fees ELSE 0]
           costs == [m \in D |-> MessageCost(tx, tx.outs[m])]
           losses == [m \in D |-> [a \in O |-> Loss(a, tx, tx.outs[m])]]
           column(a) == [m \in D |-> Loss(a, tx, tx.outs[m])]
           sent == [m \in D |-> tx.outs[m].fwd_fee + Carried(tx.outs[m])]
           sentBy(a) == [m \in D |-> IF tx.account = a THEN sent[m] ELSE 0]
           got(a) == [m \in D |-> IF tx.outs[m].destination = a THEN tx.outs[m].value ELSE 0]
<1>1. /\ IsFiniteSet(O) /\ IsFiniteSet(D)
      /\ tx.fees \in Int
      /\ \A m \in D : tx.outs[m].value \in Int /\ tx.outs[m].fwd_fee \in Int
  BY AddressAssumption, FS_Interval, SMTT(30) DEF IsTransaction
<1>2. \A m \in D : sent[m] \in Int
  BY <1>1 DEF Carried
<1>3. ASSUME NEW a
      PROVE  /\ Spent(a, tx) \in Int /\ Received(a, tx) \in Int
             /\ Total(column(a), D) \in Int
             /\ Spent(a, tx) - Received(a, tx)
                    = (IF a = tx.account THEN tx.fees ELSE 0) + Total(column(a), D)
  <2>1. \A m \in D : /\ sentBy(a)[m] \in Int /\ got(a)[m] \in Int /\ column(a)[m] \in Int
                     /\ sentBy(a)[m] = column(a)[m] + got(a)[m]
    BY <1>1, <1>2 DEF Loss, Carried
  <2>2. /\ Total(got(a), D) \in Int /\ Total(column(a), D) \in Int /\ Total(sent, D) \in Int
        /\ Total(sentBy(a), D) = Total(column(a), D) + Total(got(a), D)
    <3> HIDE DEF sentBy, got, column, sent
    <3> QED
      BY <1>1, <1>2, <2>1, SumType, SumAdd
  <2>3. Received(a, tx) = Total(got(a), D)
    BY DEF Received, SumFunction, Total
  <2>4. Spent(a, tx) = IF tx.account # a THEN 0 ELSE tx.fees + Total(sent, D)
    BY DEF Spent, SumFunction, Total
  <2>5. CASE tx.account = a
    <3>1. Total(sentBy(a), D) = Total(sent, D)
      <4>1. \A m \in D : sent[m] \in Int /\ sentBy(a)[m] = sent[m]
        BY <1>2, <2>5
      <4> HIDE DEF sent, sentBy
      <4> QED
        BY <1>1, <4>1, SumSame
    <3> HIDE DEF sent, sentBy, got, column
    <3> QED
      BY <1>1, <2>2, <2>3, <2>4, <2>5, <3>1
  <2>6. CASE tx.account # a
    <3>1. Total(sentBy(a), D) = 0 * Cardinality(D)
      <4>1. \A m \in D : sentBy(a)[m] = 0
        BY <2>6
      <4> HIDE DEF sentBy
      <4> QED
        BY <1>1, <4>1, SumConstant
    <3>2. Cardinality(D) \in Nat
      BY <1>1, FS_CardinalityType
    <3> HIDE DEF sent, sentBy, got, column
    <3> QED
      BY <1>1, <2>2, <2>3, <2>4, <2>6, <3>1, <3>2
  <2> QED
    BY <2>5, <2>6
<1>4. \A m \in D : costs[m] = Total(losses[m], O) /\ costs[m] \in Int
  BY <1>1, MessageCostIsLoss
<1>5. \A m \in D, a \in O : losses[m][a] \in Int
  BY <1>1, MessageCostIsLoss
<1> DEFINE rows == [m \in D |-> Total(losses[m], O)]
           columns == [a \in O |-> Total([m \in D |-> losses[m][a]], D)]
           all == [a \in O |-> Spent(a, tx) - Received(a, tx)]
<1>6. Total(rows, D) = Total(columns, O)
  <2> HIDE DEF losses
  <2> QED
    BY <1>1, <1>5, SumSwap, SMTT(30)
<1>7. Total(costs, D) = Total(rows, D) /\ Total(costs, D) \in Int
  <2>1. \A m \in D : rows[m] \in Int /\ costs[m] = rows[m] /\ costs[m] \in Int
    BY <1>4
  <2> HIDE DEF costs, rows
  <2> QED
    BY <1>1, <2>1, SumSame, SumType
<1>8. \A a \in O : columns[a] = Total(column(a), D)
  <2>1. ASSUME NEW a \in O
        PROVE  [m \in D |-> losses[m][a]] = column(a)
    BY <2>1
  <2> QED
    BY <2>1
<1>9. Total(all, O) = Total(fees, O) + Total(columns, O)
  <2>1. \A a \in O : /\ fees[a] \in Int /\ columns[a] \in Int
                     /\ all[a] = fees[a] + columns[a]
    <3> HIDE DEF columns, column
    <3> QED
      BY <1>1, <1>3, <1>8
  <2> HIDE DEF fees, columns, all
  <2> QED
    BY <1>1, <2>1, SumAdd
<1>10. Total(fees, O) = IF tx.account \in O THEN tx.fees ELSE 0
  <2>1. \A a \in O : fees[a] = IF a = tx.account THEN tx.fees ELSE 0
    OBVIOUS
  <2> HIDE DEF fees
  <2> QED
    BY <1>1, <2>1, SumPoint
<1>11. TransactionCost(tx) = (IF tx.account \in O THEN tx.fees ELSE 0) + Total(costs, D)
  BY DEF TransactionCost, is_our_transaction, SumFunction, Total
<1> HIDE DEF fees, columns, costs, rows
<1>12. TransactionCost(tx) \in Int
  BY <1>1, <1>7, <1>11
<1>13. Total(all, O) = TransactionCost(tx)
  BY <1>6, <1>7, <1>9, <1>10, <1>11
<1> QED
  BY <1>3, <1>12, <1>13

\* What a trace costs is what our accounts have less after it than before it: money that
\* moves between them is not counted, whichever way and however often it goes.
THEOREM CostIsLoss ==
    ASSUME NEW txs, Len(txs) \in Nat, DOMAIN txs = 1..Len(txs),
           \A i \in DOMAIN txs : IsTransaction(txs[i])
    PROVE  cost(txs) = BalanceLoss(txs) /\ cost(txs) \in Int
<1> DEFINE O == OurAddresses
           D == DOMAIN txs
           costs == [i \in D |-> TransactionCost(txs[i])]
           losses == [i \in D |-> [a \in O |-> Spent(a, txs[i]) - Received(a, txs[i])]]
           rows == [i \in D |-> Total(losses[i], O)]
           columns == [a \in O |-> Total([i \in D |-> losses[i][a]], D)]
           spent(a) == [i \in D |-> Spent(a, txs[i])]
           received(a) == [i \in D |-> Received(a, txs[i])]
           all == [a \in O |-> Total(spent(a), D) - Total(received(a), D)]
<1>1. IsFiniteSet(O) /\ IsFiniteSet(D)
  BY AddressAssumption, FS_Interval
<1>2. \A i \in D : /\ costs[i] \in Int /\ costs[i] = rows[i]
  BY TransactionCostIsLoss
<1>i. \A i \in D : \A a : Spent(a, txs[i]) \in Int /\ Received(a, txs[i]) \in Int
  BY TransactionCostIsLoss
<1>3. Total(rows, D) = Total(columns, O)
  <2>1. \A i \in D, a \in O : losses[i][a] \in Int
    <3> HIDE DEF D
    <3> QED
      BY <1>i
  <2> HIDE DEF losses, D
  <2> QED
    BY <1>1, <2>1, SumSwap
<1>4. Total(costs, D) = Total(rows, D) /\ Total(costs, D) \in Int
  <2>1. \A i \in D : rows[i] \in Int /\ costs[i] = rows[i] /\ costs[i] \in Int
    BY <1>2
  <2> HIDE DEF costs, rows
  <2> QED
    BY <1>1, <2>1, SumSame, SumType
<1>5. ASSUME NEW a \in O
      PROVE  columns[a] \in Int /\ columns[a] = all[a]
  <2> DEFINE column == [i \in D |-> losses[i][a]]
  <2>1. \A i \in D : /\ column[i] \in Int /\ received(a)[i] \in Int
                     /\ spent(a)[i] \in Int
                     /\ spent(a)[i] = column[i] + received(a)[i]
    <3> HIDE DEF D
    <3> QED
      BY <1>i
  <2>2. /\ Total(column, D) \in Int /\ Total(received(a), D) \in Int
        /\ Total(spent(a), D) = Total(column, D) + Total(received(a), D)
    <3> HIDE DEF column, spent, received
    <3>1. Total(column, D) \in Int /\ Total(received(a), D) \in Int
      BY <1>1, <2>1, SumType
    <3>2. Total(spent(a), D) = Total(column, D) + Total(received(a), D)
      BY <1>1, <2>1, SumAdd
    <3> QED
      BY <3>1, <3>2
  <2>3. columns[a] = Total(column, D) /\ all[a] = Total(spent(a), D) - Total(received(a), D)
    OBVIOUS
  <2> HIDE DEF column, spent, received, columns, all
  <2> QED
    BY <2>2, <2>3
<1>6. Total(all, O) = Total(columns, O)
  <2>1. \A a \in O : columns[a] \in Int /\ all[a] = columns[a]
    BY <1>5
  <2> HIDE DEF all, columns
  <2> QED
    BY <1>1, <2>1, SumSame
<1>7. cost(txs) = Total(costs, D)
  BY DEF cost, SumFunction, Total
<1>8. BalanceLoss(txs) = Total(all, O)
  BY DEF BalanceLoss, SumFunction, Total
<1> HIDE DEF costs, rows, columns, all
<1> QED
  BY <1>3, <1>4, <1>6, <1>7, <1>8

-----------------------------------------------------------------------------
(* The parser of a transaction. *)

\* The kind of the parser of a transaction.
K(i) == Kind(Tx(i))

Kinds == {ParserOrder[k] : k \in DOMAIN ParserOrder} \cup {"none"}

OtherKinds ==
    {"MessageExecuted", "MessageApproved", "NativeGasAdded", "JettonGasAdded",
     "NativeGasRefunded", "SignersRotated"}

Sorted(s) == \A a, b \in DOMAIN s : a < b => s[a] < s[b]

\* The three lists hold positions of their kinds, in trace order, and the map holds a
\* payment for each of its keys.
ListInv ==
    /\ trace \in Traces
    /\ pc \in {"begin", "match", "calls", "its", "parsers", "costs", "returned", "failed"}
    /\ pos \in Nat \ {0}
    /\ call_contract \in Seq(Nat) /\ Sorted(call_contract)
    /\ \A a \in DOMAIN call_contract :
          /\ call_contract[a] \in DOMAIN trace
          /\ K(call_contract[a]) = "CallContract"
          /\ Parses(call_contract[a])
    /\ its \in Seq(Nat) /\ Sorted(its)
    /\ \A a \in DOMAIN its : its[a] \in DOMAIN trace /\ K(its[a]) \in ITS
    /\ parsers \in Seq(Nat) /\ Sorted(parsers)
    /\ \A a \in DOMAIN parsers :
          parsers[a] = 0 \/ (parsers[a] \in DOMAIN trace /\ K(parsers[a]) \in OtherKinds)
    /\ \A k \in DOMAIN gas_credit_map :
          /\ gas_credit_map[k] \in DOMAIN trace
          /\ K(gas_credit_map[k]) \in GasPaid
          /\ key(Log(gas_credit_map[k])) = k

\* While the transactions are matched, the lists hold positions that were passed, and
\* there are no events yet.
MatchInv ==
    /\ pc \in {"begin", "match"} => events = <<>>
    /\ pc = "begin" =>
          /\ pos = 1
          /\ call_contract = <<>> /\ its = <<>> /\ parsers = <<>>
          /\ DOMAIN gas_credit_map = {}
    /\ pc = "match" =>
          /\ \A a \in DOMAIN call_contract : call_contract[a] < pos
          /\ \A a \in DOMAIN its : its[a] < pos
          /\ \A a \in DOMAIN parsers : parsers[a] < pos

\* Nothing that was passed is missing in them.
FoundInv ==
    pc \notin {"begin", "failed"} =>
        \A i \in DOMAIN trace :
            (pc = "match" => i < pos) =>
                /\ K(i) = "CallContract" => \E a \in DOMAIN call_contract : call_contract[a] = i
                /\ K(i) \in ITS => \E a \in DOMAIN its : its[a] = i
                /\ pc = "match" /\ K(i) \in GasPaid => key(Log(i)) \in DOMAIN gas_credit_map

\* Element a of a list has been turned into its event: its loop is over, or past it.
CallDone(a) == pc \in {"its", "parsers", "costs", "returned"} \/ (pc = "calls" /\ a < pos)
ITSDone(a) == pc \in {"parsers", "costs", "returned"} \/ (pc = "its" /\ a < pos)
OtherDone(a) == pc \in {"costs", "returned"} \/ (pc = "parsers" /\ a < pos)

FromCall(e) ==
    /\ events[e].type = "CALL"
    /\ \E a \in DOMAIN call_contract : CallDone(a) /\ TxOf(e) = call_contract[a]
    /\ events[e].message_id = MessageIdOf(TxOf(e))

\* The payment has left the map, and its call has the same key and is reported too.
FromPayment(e) ==
    /\ events[e].type = "GAS_CREDIT"
    /\ TxOf(e) \in DOMAIN trace /\ K(TxOf(e)) \in GasPaid
    /\ \A k \in DOMAIN gas_credit_map : gas_credit_map[k] # TxOf(e)
    /\ \E c \in DOMAIN events :
          /\ FromCall(c)
          /\ events[c].message_id = events[e].message_id
          /\ key(Log(TxOf(c))) = key(Log(TxOf(e)))

FromITS(e) ==
    /\ events[e].type = "ITS"
    /\ \E a \in DOMAIN its \cap DOMAIN call_contract :
          /\ ITSDone(a)
          /\ TxOf(e) = its[a]
          /\ events[e].message_id = MessageIdOf(call_contract[a])

FromOther(e) ==
    /\ events[e].type \notin {"CALL", "ITS"}
    /\ \E a \in DOMAIN parsers : OtherDone(a) /\ TxOf(e) = parsers[a]

\* Every event comes from a list or from a payment, and from a transaction of its own.
SourceInv ==
    /\ \A e \in DOMAIN events :
          FromCall(e) \/ FromPayment(e) \/ FromITS(e) \/ FromOther(e)
    /\ \A d, e \in DOMAIN events : TxOf(d) = TxOf(e) => d = e

\* What has been passed in its loop has its event, and so has a payment for the first
\* call with its key.
ReportedInv ==
    pc # "failed" =>
        /\ \A a \in DOMAIN call_contract : CallDone(a) =>
              \E e \in DOMAIN events :
                 /\ events[e].type = "CALL"
                 /\ events[e].message_id = MessageIdOf(call_contract[a])
        /\ \A a \in DOMAIN its : ITSDone(a) =>
              \E e \in DOMAIN events : events[e].type = "ITS" /\ TxOf(e) = its[a]

FirstWithKey(a) ==
    \A b \in DOMAIN call_contract :
        b < a => key(Log(call_contract[b])) # key(Log(call_contract[a]))

CreditInv ==
    pc \notin {"begin", "match", "failed"} =>
        \A i \in DOMAIN trace : K(i) \in GasPaid =>
            /\ \/ key(Log(i)) \in DOMAIN gas_credit_map
               \/ \E a \in DOMAIN call_contract :
                     CallDone(a) /\ key(Log(call_contract[a])) = key(Log(i))
            /\ \A a \in DOMAIN call_contract :
                  CallDone(a) /\ FirstWithKey(a) /\ key(Log(call_contract[a])) = key(Log(i)) =>
                     \E e \in DOMAIN events :
                        /\ events[e].type = "GAS_CREDIT"
                        /\ events[e].message_id = MessageIdOf(call_contract[a])

EventFields == {"type", "event_id", "message_id", "amount", "token_id", "cost"}

IsSeq(s) == s \in Seq({s[i] : i \in DOMAIN s})

EventsInv ==
    /\ IsSeq(events)
    /\ \A e \in DOMAIN events : DOMAIN events[e] = EventFields

-----------------------------------------------------------------------------
(* Steps. *)

\* The first match is a parser that matches.
LEMMA KindIsKnown ==
    ASSUME NEW tx
    PROVE  /\ Kind(tx) \in Kinds
           /\ Kind(tx) # "none" => Matches(Kind(tx), tx)
<1> DEFINE M(k) == Matches(ParserOrder[k], tx)
<1>1. DOMAIN ParserOrder = 1..13
  BY DEF ParserOrder
<1>2. CASE \E k \in DOMAIN ParserOrder : M(k)
  <2>1. \E k \in DOMAIN ParserOrder : IsFirstMatch(k, tx)
    <3>1. \E k \in 1..13 : M(k) /\ \A j \in 1..(k - 1) : ~M(j)
      <4> HIDE DEF M
      <4> QED
        BY <1>1, <1>2
    <3> QED
      BY <1>1, <3>1 DEF IsFirstMatch
  <2> DEFINE f == CHOOSE k \in DOMAIN ParserOrder : IsFirstMatch(k, tx)
  <2>2. f \in DOMAIN ParserOrder /\ IsFirstMatch(f, tx)
    BY <2>1
  <2>3. Kind(tx) = ParserOrder[f]
    BY <1>2 DEF Kind
  <2> HIDE DEF f
  <2> QED
    BY <2>2, <2>3 DEF Kinds, IsFirstMatch
<1>3. CASE ~\E k \in DOMAIN ParserOrder : M(k)
  BY <1>3 DEF Kind, Kinds
<1> QED
  BY <1>2, <1>3

\* A parser that is not one of the others is a call, a payment or an ITS log.
LEMMA KindsSplit ==
    /\ Kinds = OtherKinds \cup GasPaid \cup ITS \cup {"CallContract", "none"}
    /\ OtherKinds \cap (GasPaid \cup ITS \cup {"CallContract", "none"}) = {}
    /\ GasPaid \cap (ITS \cup {"CallContract", "none"}) = {}
    /\ ITS \cap {"CallContract", "none"} = {}
<1>1. Kinds = {"CallContract", "MessageExecuted", "MessageApproved", "NativeGasPaid",
               "NativeGasAdded", "JettonGasAdded", "JettonGasPaid", "NativeGasRefunded",
               "ITSTokenMetadataRegistered", "ITSInterchainTokenDeploymentStarted",
               "ITSInterchainTransfer", "ITSLinkTokenStarted", "SignersRotated", "none"}
  <2>1. DOMAIN ParserOrder = 1..13
    BY DEF ParserOrder
  <2>2. /\ ParserOrder[1] = "CallContract" /\ ParserOrder[2] = "MessageExecuted"
        /\ ParserOrder[3] = "MessageApproved" /\ ParserOrder[4] = "NativeGasPaid"
        /\ ParserOrder[5] = "NativeGasAdded" /\ ParserOrder[6] = "JettonGasAdded"
        /\ ParserOrder[7] = "JettonGasPaid" /\ ParserOrder[8] = "NativeGasRefunded"
        /\ ParserOrder[9] = "ITSTokenMetadataRegistered"
        /\ ParserOrder[10] = "ITSInterchainTokenDeploymentStarted"
        /\ ParserOrder[11] = "ITSInterchainTransfer"
        /\ ParserOrder[12] = "ITSLinkTokenStarted" /\ ParserOrder[13] = "SignersRotated"
    BY DEF ParserOrder
  <2>3. DOMAIN ParserOrder = {1, 2, 3, 4, 5, 6, 7, 8, 9, 10, 11, 12, 13}
    BY <2>1
  <2> QED
    BY <2>2, <2>3 DEF Kinds
<1> QED
  BY <1>1 DEF OtherKinds, GasPaid, ITS

\* Calls and payments are decoded from the first log of their transaction.
LEMMA LogOf ==
    ASSUME NEW i \in Nat, i # 0, K(i) \in GasPaid \cup {"CallContract"}
    PROVE  Log(i) = Tx(i).outs[1].body
BY DEF Log, LogIn, K, Tx, GasPaid

\* What a transaction is does not change while its trace is parsed.
LEMMA SameTrace ==
    ASSUME trace' = trace, NEW i
    PROVE  K(i)' = K(i) /\ Log(i)' = Log(i) /\ Parses(i)' = Parses(i)
<1>1. K(i)' = K(i)
  BY DEF K, Tx
<1>2. Log(i)' = Log(i)
  BY DEF Log
<1>3. Parses(i)' = Parses(i)
  BY DEF Parses
<1> QED
  BY <1>1, <1>2, <1>3

Fails == Fail /\ pc \in {"begin", "match", "its", "costs"}
Costs == AddCost \/ ConvertCredit

\* The steps of Next, grouped by what they do to the lists and to the events.
LEMMA Steps ==
    ASSUME [Next]_vars
    PROVE  \/ Begin \/ Fails \/ AddNothing
           \/ AddCallContract \/ AddGasPaid \/ AddITS \/ AddOther
           \/ EmitCall \/ EmitITS \/ EmitOther \/ Costs \/ NextLoop
           \/ UNCHANGED vars
BY DEF Next, Step, Fails, BeginFails, ParseFails, ITSWithoutPair, ConvertFails, Costs, AtTx,
       AtEvent

-----------------------------------------------------------------------------
(* The lists. *)

\* A sorted list stays sorted when something larger is appended.
LEMMA AppendSorted ==
    ASSUME NEW s \in Seq(Nat), NEW x \in Nat, Sorted(s),
           \A a \in DOMAIN s : s[a] < x
    PROVE  /\ Append(s, x) \in Seq(Nat)
           /\ Sorted(Append(s, x))
           /\ DOMAIN Append(s, x) = DOMAIN s \cup {Len(s) + 1}
           /\ \A a \in DOMAIN s : Append(s, x)[a] = s[a]
           /\ Append(s, x)[Len(s) + 1] = x
<1>1. /\ Append(s, x) \in Seq(Nat)
      /\ DOMAIN Append(s, x) = DOMAIN s \cup {Len(s) + 1}
      /\ \A a \in DOMAIN s : Append(s, x)[a] = s[a]
      /\ Append(s, x)[Len(s) + 1] = x
      /\ DOMAIN s = 1..Len(s) /\ Len(s) \in Nat
  OBVIOUS
<1>2. Sorted(Append(s, x))
  BY <1>1 DEF Sorted
<1> QED
  BY <1>1, <1>2

\* Every step keeps the lists and the map as they should be.
LEMMA ListStep == ListInv /\ MatchInv /\ [Next]_vars => ListInv'
<1> SUFFICES ASSUME ListInv, MatchInv, [Next]_vars
             PROVE  ListInv'
  OBVIOUS
<1>t. trace' = trace
  BY Steps
     DEF Begin, Fails, Fail, AddNothing, AddCallContract, AddGasPaid, AddITS, AddOther, EmitCall,
         EmitITS, EmitOther, Costs, AddCost, ConvertCredit, NextLoop, EndLoop, vars
<1>d. /\ Len(trace) \in Nat /\ DOMAIN trace = 1..Len(trace)
      /\ \A i \in DOMAIN trace : i \in Nat /\ i # 0
  BY ParserAssumption DEF ListInv
<1>k. \A i : K(i)' = K(i) /\ Log(i)' = Log(i) /\ Parses(i)' = Parses(i)
  BY <1>t, SameTrace
<1>m. ASSUME AtTx
      PROVE  /\ pos \in DOMAIN trace /\ pos \in Nat
             /\ \A a \in DOMAIN call_contract : call_contract[a] < pos
             /\ \A a \in DOMAIN its : its[a] < pos
             /\ \A a \in DOMAIN parsers : parsers[a] < pos
  BY <1>m DEF AtTx, ListInv, MatchInv
<1>f. ASSUME pc' \in {"begin", "match", "calls", "its", "parsers", "costs", "returned", "failed"},
             pos' \in Nat \ {0},
             UNCHANGED <<call_contract, its, parsers, gas_credit_map>>
      PROVE  ListInv'
  BY <1>f, <1>t, <1>k DEF ListInv, Sorted
<1>1. CASE Begin
  <2>1. /\ parsers' = <<>> \/ parsers' = <<0>>
        /\ pc' = "match"
        /\ UNCHANGED <<pos, call_contract, its, gas_credit_map>>
    BY <1>1 DEF Begin
  <2>2. parsers' \in Seq(Nat) /\ Sorted(parsers)' /\ \A a \in DOMAIN parsers' : parsers'[a] = 0
    <3>1. CASE parsers' = <<>>
      <4>1. parsers' \in Seq(Nat) /\ DOMAIN parsers' = {}
        BY <3>1
      <4> QED
        BY <4>1 DEF Sorted
    <3>2. CASE parsers' = <<0>>
      <4>1. parsers' \in Seq(Nat) /\ DOMAIN parsers' = {1} /\ parsers'[1] = 0
        BY <3>2
      <4> QED
        BY <4>1 DEF Sorted
    <3> QED
      BY <2>1, <3>1, <3>2
  <2> QED
    BY <1>t, <1>k, <2>1, <2>2 DEF ListInv, Sorted
<1>2. CASE Fails
  BY <1>2, <1>f DEF Fails, Fail, ListInv
<1>3. CASE AddNothing
  BY <1>3, <1>f DEF AddNothing, ListInv
<1>4. CASE AddCallContract
  <2>1. /\ call_contract' = Append(call_contract, pos)
        /\ K(pos) = "CallContract" /\ Parses(pos) /\ AtTx
        /\ pos' = pos + 1
        /\ UNCHANGED <<pc, its, parsers, gas_credit_map>>
    BY <1>4 DEF AddCallContract, K
  <2>2. /\ call_contract' \in Seq(Nat) /\ Sorted(call_contract')
        /\ DOMAIN call_contract' = DOMAIN call_contract \cup {Len(call_contract) + 1}
        /\ \A a \in DOMAIN call_contract : call_contract'[a] = call_contract[a]
        /\ call_contract'[Len(call_contract) + 1] = pos
    BY <1>m, <2>1, AppendSorted DEF ListInv
  <2>3. \A a \in DOMAIN call_contract' :
           /\ call_contract'[a] \in DOMAIN trace
           /\ K(call_contract'[a]) = "CallContract"
           /\ Parses(call_contract'[a])
    BY <1>m, <2>1, <2>2 DEF ListInv
  <2> QED
    BY <1>t, <1>k, <2>1, <2>2, <2>3 DEF ListInv, Sorted
<1>5. CASE AddGasPaid
  <2>1. /\ gas_credit_map' = With(key(Log(pos)), pos)
        /\ K(pos) \in GasPaid /\ AtTx
        /\ pos' = pos + 1
        /\ UNCHANGED <<pc, its, parsers, call_contract>>
    BY <1>5 DEF AddGasPaid, K
  <2>2. \A k \in DOMAIN gas_credit_map' :
           /\ gas_credit_map'[k] \in DOMAIN trace
           /\ K(gas_credit_map'[k]) \in GasPaid
           /\ key(Log(gas_credit_map'[k])) = k
    BY <1>m, <2>1 DEF With, ListInv
  <2> QED
    BY <1>t, <1>k, <2>1, <2>2 DEF ListInv, Sorted
<1>6. CASE AddITS
  <2>1. /\ its' = Append(its, pos)
        /\ K(pos) \in ITS /\ AtTx
        /\ pos' = pos + 1
        /\ UNCHANGED <<pc, call_contract, parsers, gas_credit_map>>
    BY <1>6 DEF AddITS, K
  <2>2. /\ its' \in Seq(Nat) /\ Sorted(its')
        /\ DOMAIN its' = DOMAIN its \cup {Len(its) + 1}
        /\ \A a \in DOMAIN its : its'[a] = its[a]
        /\ its'[Len(its) + 1] = pos
    BY <1>m, <2>1, AppendSorted DEF ListInv
  <2>3. \A a \in DOMAIN its' : its'[a] \in DOMAIN trace /\ K(its'[a]) \in ITS
    BY <1>m, <2>1, <2>2 DEF ListInv
  <2> QED
    BY <1>t, <1>k, <2>1, <2>2, <2>3 DEF ListInv, Sorted
<1>7. CASE AddOther
  <2>1. /\ parsers' = Append(parsers, pos)
        /\ K(pos) \notin GasPaid \cup ITS \cup {"CallContract", "none"} /\ AtTx
        /\ pos' = pos + 1
        /\ UNCHANGED <<pc, call_contract, its, gas_credit_map>>
    BY <1>7 DEF AddOther, K
  <2>2. /\ parsers' \in Seq(Nat) /\ Sorted(parsers')
        /\ DOMAIN parsers' = DOMAIN parsers \cup {Len(parsers) + 1}
        /\ \A a \in DOMAIN parsers : parsers'[a] = parsers[a]
        /\ parsers'[Len(parsers) + 1] = pos
    BY <1>m, <2>1, AppendSorted DEF ListInv
  <2>3. K(pos) \in OtherKinds
    BY <2>1, KindIsKnown, KindsSplit DEF K
  <2>4. \A a \in DOMAIN parsers' :
           parsers'[a] = 0 \/ (parsers'[a] \in DOMAIN trace /\ K(parsers'[a]) \in OtherKinds)
    BY <1>m, <2>1, <2>2, <2>3 DEF ListInv
  <2> QED
    BY <1>t, <1>k, <2>1, <2>2, <2>4 DEF ListInv, Sorted
<1>8. CASE EmitCall
  <2>1. /\ gas_credit_map' = Without(key(Log(call_contract[pos])))
        /\ pos' = pos + 1
        /\ UNCHANGED <<pc, its, parsers, call_contract>>
    BY <1>8 DEF EmitCall
  <2>2. \A k \in DOMAIN gas_credit_map' :
           k \in DOMAIN gas_credit_map /\ gas_credit_map'[k] = gas_credit_map[k]
    BY <2>1 DEF Without
  <2> QED
    BY <1>t, <1>k, <2>1, <2>2 DEF ListInv, Sorted
<1>9. CASE EmitITS \/ EmitOther \/ Costs
  BY <1>9, <1>f DEF EmitITS, EmitOther, Costs, AddCost, ConvertCredit, ListInv
<1>10. CASE NextLoop
  BY <1>10, <1>f DEF NextLoop, EndLoop, ListInv
<1>11. CASE UNCHANGED vars
  BY <1>11, <1>f DEF vars, ListInv
<1> QED
  BY <1>1, <1>2, <1>3, <1>4, <1>5, <1>6, <1>7, <1>8, <1>9, <1>10, <1>11, Steps

\* Every step of the matching loop leaves the lists short of its position.
LEMMA MatchStep == ListInv /\ MatchInv /\ [Next]_vars => MatchInv'
<1> SUFFICES ASSUME ListInv, MatchInv, [Next]_vars
             PROVE  MatchInv'
  OBVIOUS
<1>n. pos \in Nat \ {0}
  BY DEF ListInv
<1>1. CASE Begin
  BY <1>1 DEF Begin, MatchInv
<1>2. CASE Fails
  BY <1>2 DEF Fails, Fail, MatchInv
<1>3. ASSUME AddNothing \/ AddCallContract \/ AddGasPaid \/ AddITS \/ AddOther
      PROVE  MatchInv'
  <2>1. /\ pc = "match" /\ pc' = pc /\ pos' = pos + 1 /\ events' = events
        /\ call_contract' = call_contract \/ call_contract' = Append(call_contract, pos)
        /\ its' = its \/ its' = Append(its, pos)
        /\ parsers' = parsers \/ parsers' = Append(parsers, pos)
    BY <1>3 DEF AddNothing, AddCallContract, AddGasPaid, AddITS, AddOther, AtTx
  <2>2. ASSUME NEW s \in Seq(Nat), \A a \in DOMAIN s : s[a] < pos,
               NEW r, r = s \/ r = Append(s, pos)
        PROVE  \A a \in DOMAIN r : r[a] < pos + 1
    BY <1>n, <2>2
  <2>3. /\ \A a \in DOMAIN call_contract' : call_contract'[a] < pos + 1
        /\ \A a \in DOMAIN its' : its'[a] < pos + 1
        /\ \A a \in DOMAIN parsers' : parsers'[a] < pos + 1
    BY <2>1, <2>2 DEF ListInv, MatchInv
  <2> QED
    BY <2>1, <2>3 DEF MatchInv
<1>4. CASE EmitCall \/ EmitITS \/ EmitOther \/ Costs \/ NextLoop
  BY <1>4 DEF EmitCall, EmitITS, EmitOther, Costs, AddCost, ConvertCredit, AtEvent, NextLoop,
              EndLoop, MatchInv
<1>5. CASE UNCHANGED vars
  BY <1>5 DEF vars, MatchInv
<1> QED
  BY <1>1, <1>2, <1>3, <1>4, <1>5, Steps

-----------------------------------------------------------------------------
(* The events. *)

\* What Append and \o do to a sequence of any values.
LEMMA AppendSeq ==
    ASSUME NEW s, IsSeq(s), NEW x
    PROVE  /\ IsSeq(Append(s, x))
           /\ Len(s) \in Nat /\ DOMAIN s = 1..Len(s)
           /\ DOMAIN Append(s, x) = DOMAIN s \cup {Len(s) + 1}
           /\ Len(Append(s, x)) = Len(s) + 1
           /\ \A a \in DOMAIN s : Append(s, x)[a] = s[a]
           /\ Append(s, x)[Len(s) + 1] = x
           /\ s \o <<x>> = Append(s, x) /\ s \o <<>> = s
<1> DEFINE S == {s[i] : i \in DOMAIN s}
           T == S \cup {x}
           r == Append(s, x)
<1>1. s \in Seq(T) /\ x \in T
  <2>1. s \in Seq(S)
    BY DEF IsSeq
  <2> QED
    BY <2>1
<1> HIDE DEF S, T
<1>2. /\ r \in Seq(T)
      /\ Len(s) \in Nat /\ DOMAIN s = 1..Len(s)
      /\ DOMAIN r = DOMAIN s \cup {Len(s) + 1}
      /\ Len(r) = Len(s) + 1
      /\ \A a \in DOMAIN s : r[a] = s[a]
      /\ r[Len(s) + 1] = x
      /\ s \o <<x>> = r /\ s \o <<>> = s
  BY <1>1
<1>3. r \in Seq({r[i] : i \in DOMAIN r})
  <2> HIDE DEF r
  <2>1. DOMAIN r = 1..Len(r) /\ r = [i \in 1..Len(r) |-> r[i]] /\ Len(r) \in Nat
    BY <1>2
  <2> QED
    BY <1>2, <2>1, SMTT(30)
<1> QED
  BY <1>2, <1>3 DEF IsSeq

\* What a new event says.
LEMMA NewEvent ==
    ASSUME NEW type, NEW suffix, NEW i, NEW message_id
    PROVE  LET x == Event(type, suffix, i, message_id)
           IN  /\ x.type = type /\ x.event_id[1] = i /\ x.message_id = message_id
               /\ DOMAIN x = EventFields
BY DEF Event, EventFields

\* What the event of one of the other parsers says.
LEMMA NewOther ==
    ASSUME NEW i, i = 0 \/ K(i) \in OtherKinds
    PROVE  LET x == OtherEvent(i)
           IN  /\ x.type \notin {"CALL", "ITS"} /\ x.event_id[1] = i
               /\ DOMAIN x = EventFields
<1>1. CASE i = 0
  <2>1. OtherEvent(i) = Event("CANNOT_EXECUTE", "cannot-execute", 0, Log(0).message_id)
    BY <1>1 DEF OtherEvent
  <2> QED
    BY <1>1, <2>1, NewEvent
<1>2. CASE i # 0
  <2>1. \E suffix, message_id :
           \E type \in {"MESSAGE_EXECUTED", "MESSAGE_APPROVED", "GAS_CREDIT", "GAS_REFUNDED",
                        "SIGNERS_ROTATED"} :
              OtherEvent(i) = Event(type, suffix, i, message_id)
    BY <1>2 DEF OtherEvent, OtherKinds, K, GasCreditEvent
  <2> QED
    BY <2>1, NewEvent
<1> QED
  BY <1>1, <1>2

\* An event keeps its type, its event_id and its message_id.
SameEvent(e) ==
    /\ e \in DOMAIN events'
    /\ events'[e].type = events[e].type
    /\ events'[e].event_id = events[e].event_id
    /\ events'[e].message_id = events[e].message_id

\* What add_gas_used_and_convert does changes no more than amounts and costs.
LEMMA CostsEffect ==
    ASSUME ListInv, EventsInv, Costs
    PROVE  /\ EventsInv'
           /\ DOMAIN events' = DOMAIN events
           /\ \A e \in DOMAIN events : SameEvent(e)
           /\ pc = "costs" /\ pc' = pc /\ pos' = pos + 1
           /\ UNCHANGED <<trace, call_contract, its, parsers, gas_credit_map>>
<1>1. /\ pc = "costs" /\ pc' = pc /\ pos \in DOMAIN events /\ pos' = pos + 1
      /\ UNCHANGED <<trace, call_contract, its, parsers, gas_credit_map>>
  BY DEF Costs, AddCost, ConvertCredit, AtEvent
<1>2. PICK x : /\ events' = [events EXCEPT ![pos] = x]
               /\ DOMAIN x = DOMAIN events[pos]
               /\ x.type = events[pos].type
               /\ x.event_id = events[pos].event_id
               /\ x.message_id = events[pos].message_id
  <2> DEFINE e == events[pos]
  <2>0. DOMAIN e = EventFields
    BY <1>1 DEF EventsInv
  <2> HIDE DEF e
  <2>1. CASE AddCost
    <3>1. events' = [events EXCEPT ![pos] = Costed(e)]
      BY <2>1 DEF AddCost, e
    <3>2. Costed(e) = e \/ \E c : Costed(e) = [e EXCEPT !.cost = c]
      BY DEF Costed
    <3>3. /\ DOMAIN Costed(e) = DOMAIN e
          /\ Costed(e).type = e.type
          /\ Costed(e).event_id = e.event_id
          /\ Costed(e).message_id = e.message_id
      BY <2>0, <3>2 DEF EventFields
    <3> QED
      BY <3>1, <3>3 DEF e
  <2>2. CASE ConvertCredit
    <3> DEFINE x == [e EXCEPT !.token_id = FALSE,
                              !.amount = convert_jetton_to_native(e.amount)]
    <3>1. events' = [events EXCEPT ![pos] = x]
      BY <1>1, <2>0, <2>2 DEF ConvertCredit, e, EventFields
    <3>2. /\ DOMAIN x = DOMAIN e
          /\ x.type = e.type
          /\ x.event_id = e.event_id
          /\ x.message_id = e.message_id
      BY <2>0 DEF EventFields
    <3> QED
      BY <3>1, <3>2 DEF e
  <2> QED
    BY <2>1, <2>2 DEF Costs
<1>3. DOMAIN events' = DOMAIN events /\ \A e \in DOMAIN events : SameEvent(e)
  BY <1>1, <1>2 DEF SameEvent
<1>4. \A e \in DOMAIN events' : DOMAIN events'[e] = EventFields
  BY <1>1, <1>2, <1>3 DEF EventsInv
<1>5. IsSeq(events)'
  <2> DEFINE S == {events[i] : i \in DOMAIN events} \cup {x}
             T == {events'[i] : i \in DOMAIN events'}
  <2>1. events \in Seq(S)
    BY DEF EventsInv, IsSeq
  <2>2. Len(events) \in Nat /\ DOMAIN events = 1..Len(events)
    BY <2>1
  <2>3. events' = [i \in 1..Len(events) |-> IF i = pos THEN x ELSE events[i]]
    BY <1>1, <1>2, <2>2
  <2>4. \A i \in 1..Len(events) : events'[i] \in T
    BY <1>3, <2>2
  <2>5. events' = [i \in 1..Len(events) |-> events'[i]]
    BY <2>3
  <2> HIDE DEF T
  <2>6. events' \in Seq(T)
    BY <2>2, <2>4, <2>5
  <2> QED
    BY <2>6 DEF T, IsSeq
<1> QED
  BY <1>1, <1>3, <1>4, <1>5 DEF EventsInv

\* One iteration of the three loops that emit: one event is appended, for a call perhaps
\* followed by its credit.
LEMMA CallEffect ==
    ASSUME ListInv, EventsInv, EmitCall
    PROVE  LET c == call_contract[pos]
               n == Len(events)
               paid == key(Log(c)) \in DOMAIN gas_credit_map
           IN  /\ EventsInv'
               /\ n \in Nat /\ DOMAIN events = 1..n
               /\ DOMAIN events' = IF paid THEN 1..(n + 2) ELSE 1..(n + 1)
               /\ \A e \in DOMAIN events : SameEvent(e)
               /\ events'[n + 1].type = "CALL"
               /\ events'[n + 1].event_id[1] = c
               /\ events'[n + 1].message_id = MessageIdOf(c)
               /\ paid => /\ events'[n + 2].type = "GAS_CREDIT"
                          /\ events'[n + 2].event_id[1] = gas_credit_map[key(Log(c))]
                          /\ events'[n + 2].message_id = MessageIdOf(c)
<1> DEFINE c == call_contract[pos]
           n == Len(events)
           paid == key(Log(c)) \in DOMAIN gas_credit_map
           x == CallEvent(c)
           y == GasCreditEvent(gas_credit_map[key(Log(c))], MessageIdOf(c))
           s == Append(events, x)
<1>1. events' = IF paid THEN s \o <<y>> ELSE s \o <<>>
  BY DEF EmitCall, CreditFor
<1>2. /\ x.type = "CALL" /\ x.event_id[1] = c /\ x.message_id = MessageIdOf(c)
      /\ DOMAIN x = EventFields
  <2>1. \E suffix : x = Event("CALL", suffix, c, MessageIdOf(c))
    BY DEF CallEvent
  <2> HIDE DEF x, c
  <2> QED
    BY <2>1, NewEvent
<1>3. /\ y.type = "GAS_CREDIT" /\ y.event_id[1] = gas_credit_map[key(Log(c))]
      /\ y.message_id = MessageIdOf(c) /\ DOMAIN y = EventFields
  BY NewEvent DEF GasCreditEvent
<1>e. IsSeq(events) /\ \A e \in DOMAIN events : DOMAIN events[e] = EventFields
  BY DEF EventsInv
<1> HIDE DEF c, paid, x, y
<1>4. /\ IsSeq(s) /\ n \in Nat /\ DOMAIN events = 1..n /\ Len(s) = n + 1
      /\ DOMAIN s = 1..n \cup {n + 1}
      /\ \A a \in DOMAIN events : s[a] = events[a]
      /\ s[n + 1] = x
      /\ s \o <<>> = s
  <2>1. IsSeq(s)
    BY <1>e, AppendSeq
  <2> QED
    BY <1>e, <2>1, AppendSeq
<1> HIDE DEF s, n
<1>5. CASE ~paid
  <2>1. events' = s
    BY <1>1, <1>4, <1>5
  <2>2. DOMAIN events' = 1..(n + 1)
    BY <1>4, <2>1
  <2>3. \A e \in DOMAIN events : SameEvent(e)
    BY <1>4, <2>1, <2>2 DEF SameEvent
  <2>4. EventsInv'
    BY <1>e, <1>2, <1>4, <2>1 DEF EventsInv
  <2> QED
    BY <1>2, <1>4, <1>5, <2>1, <2>2, <2>3, <2>4 DEF c, n, paid
<1>6. CASE paid
  <2> DEFINE r == Append(s, y)
  <2>1. /\ IsSeq(r) /\ DOMAIN r = DOMAIN s \cup {n + 2}
        /\ \A a \in DOMAIN s : r[a] = s[a]
        /\ r[n + 2] = y
        /\ s \o <<y>> = r
    <3>1. /\ IsSeq(r) /\ DOMAIN r = DOMAIN s \cup {Len(s) + 1}
          /\ \A a \in DOMAIN s : r[a] = s[a]
          /\ r[Len(s) + 1] = y
          /\ s \o <<y>> = r
      BY <1>4, AppendSeq
    <3>2. Len(s) + 1 = n + 2
      BY <1>4
    <3> QED
      BY <3>1, <3>2
  <2> HIDE DEF r
  <2>2. events' = r
    BY <1>1, <1>6, <2>1
  <2>3. DOMAIN events' = 1..(n + 2)
    BY <1>4, <2>1, <2>2
  <2>4. \A e \in DOMAIN events : SameEvent(e)
    BY <1>4, <2>1, <2>2, <2>3 DEF SameEvent
  <2>5. EventsInv'
    BY <1>e, <1>2, <1>3, <1>4, <2>1, <2>2 DEF EventsInv
  <2>6. events'[n + 1] = x /\ events'[n + 2] = y
    BY <1>4, <2>1, <2>2
  <2> QED
    BY <1>2, <1>3, <1>4, <1>6, <2>3, <2>4, <2>5, <2>6 DEF c, n, paid
<1> QED
  BY <1>5, <1>6

\* An ITS log or another parser adds one event.
LEMMA EmitEffect ==
    ASSUME ListInv, EventsInv, EmitITS \/ EmitOther
    PROVE  LET n == Len(events)
           IN  /\ EventsInv'
               /\ n \in Nat /\ DOMAIN events = 1..n
               /\ DOMAIN events' = 1..(n + 1)
               /\ \A e \in DOMAIN events : SameEvent(e)
               /\ EmitITS => /\ events'[n + 1].type = "ITS"
                             /\ events'[n + 1].event_id[1] = its[pos]
                             /\ events'[n + 1].message_id = MessageIdOf(call_contract[pos])
               /\ EmitOther => /\ events'[n + 1].type \notin {"CALL", "ITS"}
                               /\ events'[n + 1].event_id[1] = parsers[pos]
<1> DEFINE n == Len(events)
<1>1. PICK x : /\ events' = Append(events, x)
               /\ DOMAIN x = EventFields
               /\ EmitITS => /\ x.type = "ITS"
                             /\ x.event_id[1] = its[pos]
                             /\ x.message_id = MessageIdOf(call_contract[pos])
               /\ EmitOther => /\ x.type \notin {"CALL", "ITS"}
                               /\ x.event_id[1] = parsers[pos]
  <2>1. CASE EmitITS
    <3> DEFINE x == ITSEvent(its[pos], MessageIdOf(call_contract[pos]))
    <3>1. events' = Append(events, x) /\ ~EmitOther
      BY <2>1 DEF EmitITS, EmitOther
    <3>2. /\ x.type = "ITS" /\ x.event_id[1] = its[pos]
          /\ x.message_id = MessageIdOf(call_contract[pos]) /\ DOMAIN x = EventFields
      BY NewEvent DEF ITSEvent
    <3> HIDE DEF x
    <3> QED
      BY <3>1, <3>2
  <2>2. CASE EmitOther
    <3> DEFINE x == OtherEvent(parsers[pos])
    <3>1. events' = Append(events, x) /\ ~EmitITS /\ pos \in DOMAIN parsers
      BY <2>2 DEF EmitITS, EmitOther
    <3>2. x.type \notin {"CALL", "ITS"} /\ x.event_id[1] = parsers[pos] /\ DOMAIN x = EventFields
      BY <3>1, NewOther DEF ListInv
    <3> HIDE DEF x
    <3> QED
      BY <3>1, <3>2
  <2> QED
    BY <2>1, <2>2
<1>e. IsSeq(events) /\ \A e \in DOMAIN events : DOMAIN events[e] = EventFields
  BY DEF EventsInv
<1>2. /\ IsSeq(events') /\ n \in Nat /\ DOMAIN events = 1..n
      /\ DOMAIN events' = 1..n \cup {n + 1}
      /\ \A a \in DOMAIN events : events'[a] = events[a]
      /\ events'[n + 1] = x
  BY <1>1, <1>e, AppendSeq
<1> HIDE DEF n
<1>3. DOMAIN events' = 1..(n + 1)
  BY <1>2
<1>4. \A e \in DOMAIN events : SameEvent(e)
  BY <1>2, <1>3 DEF SameEvent
<1>5. EventsInv'
  BY <1>e, <1>1, <1>2 DEF EventsInv
<1> QED
  BY <1>1, <1>2, <1>3, <1>4, <1>5 DEF n

-----------------------------------------------------------------------------
(* Every event has a transaction of its own. *)

\* What an event comes from stays true while the lists stay, the map shrinks and the
\* loops advance.
LEMMA SourceKept ==
    ASSUME UNCHANGED <<trace, call_contract, its, parsers>>,
           \A k \in DOMAIN gas_credit_map' :
              k \in DOMAIN gas_credit_map /\ gas_credit_map'[k] = gas_credit_map[k],
           \A e \in DOMAIN events : SameEvent(e),
           \A a \in DOMAIN call_contract : CallDone(a) => CallDone(a)',
           \A a \in DOMAIN its : ITSDone(a) => ITSDone(a)',
           \A a \in DOMAIN parsers : OtherDone(a) => OtherDone(a)',
           NEW e \in DOMAIN events,
           FromCall(e) \/ FromPayment(e) \/ FromITS(e) \/ FromOther(e)
    PROVE  /\ (FromCall(e) \/ FromPayment(e) \/ FromITS(e) \/ FromOther(e))'
           /\ TxOf(e)' = TxOf(e)
<1>k. \A i : K(i)' = K(i) /\ Log(i)' = Log(i)
  BY SameTrace
<1>t. \A d \in DOMAIN events : TxOf(d)' = TxOf(d) /\ d \in DOMAIN events'
  BY DEF SameEvent, TxOf
<1>c. \A d \in DOMAIN events : FromCall(d) => FromCall(d)'
  BY <1>t DEF FromCall, SameEvent, MessageIdOf
<1>1. CASE FromCall(e)
  BY <1>c, <1>t, <1>1
<1>2. CASE FromPayment(e)
  <2>1. PICK c \in DOMAIN events :
           /\ FromCall(c)
           /\ events[c].message_id = events[e].message_id
           /\ key(Log(TxOf(c))) = key(Log(TxOf(e)))
    BY <1>2 DEF FromPayment
  <2>2. /\ c \in DOMAIN events' /\ FromCall(c)'
        /\ events'[c].message_id = events'[e].message_id
        /\ (key(Log(TxOf(c))) = key(Log(TxOf(e))))'
    <3>1. Log(TxOf(c))' = Log(TxOf(c)) /\ Log(TxOf(e))' = Log(TxOf(e))
      BY <1>t, <1>k DEF Log
    <3> QED
      BY <1>t, <1>c, <2>1, <3>1 DEF SameEvent
  <2>3. /\ (events[e].type = "GAS_CREDIT")'
        /\ (TxOf(e) \in DOMAIN trace /\ K(TxOf(e)) \in GasPaid)'
        /\ (\A k \in DOMAIN gas_credit_map : gas_credit_map[k] # TxOf(e))'
    BY <1>t, <1>2 DEF FromPayment, SameEvent, K, Tx
  <2> QED
    BY <1>t, <2>2, <2>3 DEF FromPayment
<1>3. CASE FromITS(e)
  <2>1. FromITS(e)'
    BY <1>t, <1>3 DEF FromITS, SameEvent, MessageIdOf
  <2> QED
    BY <1>t, <2>1
<1>4. CASE FromOther(e)
  <2>1. FromOther(e)'
    BY <1>t, <1>4 DEF FromOther, SameEvent
  <2> QED
    BY <1>t, <2>1
<1> QED
  BY <1>1, <1>2, <1>3, <1>4

\* The loops advance.
LEMMA LoopsAdvance ==
    ASSUME ListInv,
           \/ EmitCall \/ EmitITS \/ EmitOther \/ Costs \/ UNCHANGED vars
           \/ NextLoop
    PROVE  /\ UNCHANGED <<trace, call_contract, its, parsers>>
           /\ \A k \in DOMAIN gas_credit_map' :
                 k \in DOMAIN gas_credit_map /\ gas_credit_map'[k] = gas_credit_map[k]
           /\ \A a \in DOMAIN call_contract : CallDone(a) => CallDone(a)'
           /\ \A a \in DOMAIN its : ITSDone(a) => ITSDone(a)'
           /\ \A a \in DOMAIN parsers : OtherDone(a) => OtherDone(a)'
<1>n. /\ pos \in Nat
      /\ \A a \in DOMAIN call_contract \cup DOMAIN its \cup DOMAIN parsers : a \in Nat
  BY DEF ListInv
<1>1. CASE EmitCall \/ EmitITS \/ EmitOther \/ Costs
  <2>1. /\ pc' = pc /\ pos' = pos + 1
        /\ UNCHANGED <<trace, call_contract, its, parsers>>
    BY <1>1 DEF EmitCall, EmitITS, EmitOther, Costs, AddCost, ConvertCredit
  <2>2. \A k \in DOMAIN gas_credit_map' :
           k \in DOMAIN gas_credit_map /\ gas_credit_map'[k] = gas_credit_map[k]
    BY <1>1 DEF EmitCall, EmitITS, EmitOther, Costs, AddCost, ConvertCredit, Without
  <2> QED
    BY <1>n, <2>1, <2>2 DEF CallDone, ITSDone, OtherDone
<1>2. CASE NextLoop
  BY <1>2 DEF NextLoop, EndLoop, CallDone, ITSDone, OtherDone
<1>3. CASE UNCHANGED vars
  BY <1>3 DEF vars, CallDone, ITSDone, OtherDone
<1> QED
  BY <1>1, <1>2, <1>3

\* Every step keeps the sources of the events apart.
LEMMA SourceStep ==
    ListInv /\ MatchInv /\ EventsInv /\ SourceInv /\ [Next]_vars => SourceInv'
<1> SUFFICES ASSUME ListInv, MatchInv, EventsInv, SourceInv, [Next]_vars
             PROVE  SourceInv'
  OBVIOUS
<1>d. \A i \in DOMAIN trace : i \in Nat /\ i # 0
  BY ParserAssumption DEF ListInv
<1>n. /\ pos \in Nat
      /\ \A a \in DOMAIN call_contract : a \in Nat /\ call_contract[a] \in Nat
      /\ \A a \in DOMAIN its : a \in Nat /\ its[a] \in Nat
      /\ \A a \in DOMAIN parsers : a \in Nat /\ parsers[a] \in Nat
  BY DEF ListInv
\* Old events keep their sources, and new ones bring other transactions.
<1>s. ASSUME EmitCall \/ EmitITS \/ EmitOther \/ Costs \/ NextLoop \/ UNCHANGED vars,
             \A e \in DOMAIN events : SameEvent(e),
             \A e \in DOMAIN events' \ DOMAIN events :
                (FromCall(e) \/ FromPayment(e) \/ FromITS(e) \/ FromOther(e))',
             \A e \in DOMAIN events' \ DOMAIN events : \A d \in DOMAIN events :
                TxOf(e)' # TxOf(d),
             \A d, e \in DOMAIN events' \ DOMAIN events : TxOf(d)' = TxOf(e)' => d = e
      PROVE  SourceInv'
  <2>1. \A e \in DOMAIN events :
           /\ (FromCall(e) \/ FromPayment(e) \/ FromITS(e) \/ FromOther(e))'
           /\ TxOf(e)' = TxOf(e)
    BY <1>s, LoopsAdvance, SourceKept DEF SourceInv
  <2>2. \A e \in DOMAIN events' :
           (FromCall(e) \/ FromPayment(e) \/ FromITS(e) \/ FromOther(e))'
    BY <1>s, <2>1
  <2>3. \A d, e \in DOMAIN events' : TxOf(d)' = TxOf(e)' => d = e
    BY <1>s, <2>1 DEF SourceInv
  <2> QED
    BY <2>2, <2>3 DEF SourceInv
<1>1. ASSUME Begin \/ Fails \/ AddNothing \/ AddCallContract \/ AddGasPaid \/ AddITS \/ AddOther
      PROVE  SourceInv'
  <2>1. events' = <<>>
    BY <1>1
       DEF Begin, Fails, Fail, AddNothing, AddCallContract, AddGasPaid, AddITS, AddOther, AtTx,
           MatchInv
  <2>2. DOMAIN events' = {}
    BY <2>1
  <2> QED
    BY <2>2 DEF SourceInv
<1>2. CASE EmitCall
  <2>0. PICK c, n, q, p : /\ c = call_contract[pos] /\ n = Len(events) /\ q = pos
                          /\ p = gas_credit_map[key(Log(call_contract[pos]))]
    OBVIOUS
  <2> DEFINE paid == key(Log(c)) \in DOMAIN gas_credit_map
  <2>1. /\ n \in Nat /\ DOMAIN events = 1..n
        /\ DOMAIN events' = IF paid THEN 1..(n + 2) ELSE 1..(n + 1)
        /\ \A e \in DOMAIN events : SameEvent(e)
        /\ events'[n + 1].type = "CALL"
        /\ events'[n + 1].event_id[1] = c
        /\ events'[n + 1].message_id = MessageIdOf(c)
        /\ paid => /\ events'[n + 2].type = "GAS_CREDIT"
                   /\ events'[n + 2].event_id[1] = p
                   /\ events'[n + 2].message_id = MessageIdOf(c)
    BY <1>2, <2>0, CallEffect
  <2>2. /\ pc = "calls" /\ pc' = "calls" /\ pos \in DOMAIN call_contract /\ pos' = pos + 1
        /\ UNCHANGED <<trace, call_contract, its, parsers>>
        /\ gas_credit_map' = Without(key(Log(c)))
    BY <1>2, <2>0 DEF EmitCall
  <2>3. /\ c \in DOMAIN trace /\ K(c) = "CallContract"
        /\ paid => p \in DOMAIN trace /\ K(p) \in GasPaid /\ key(Log(p)) = key(Log(c))
    BY <2>0, <2>2 DEF ListInv
  <2>g. "CallContract" \notin GasPaid
    BY DEF GasPaid
  <2>4. ASSUME NEW d \in DOMAIN events
        PROVE  TxOf(d) # c /\ (paid => TxOf(d) # p)
    <3>1. CASE FromCall(d)
      <4>1. PICK a \in DOMAIN call_contract : a < pos /\ TxOf(d) = call_contract[a]
        BY <2>2, <3>1 DEF FromCall, CallDone
      <4>2. call_contract[a] < call_contract[pos]
        BY <2>2, <4>1 DEF ListInv, Sorted
      <4>3. K(TxOf(d)) = "CallContract"
        BY <4>1 DEF ListInv
      <4> QED
        BY <1>n, <2>0, <2>2, <2>3, <2>g, <4>1, <4>2, <4>3
    <3>2. CASE FromPayment(d)
      BY <2>0, <2>3, <2>g, <3>2 DEF FromPayment
    <3>3. ~FromITS(d) /\ ~FromOther(d)
      BY <2>2 DEF FromITS, ITSDone, FromOther, OtherDone
    <3> QED
      BY <3>1, <3>2, <3>3 DEF SourceInv
  <2>5. FromCall(n + 1)' /\ TxOf(n + 1)' = c
    <3>1. CallDone(q)'
      BY <1>n, <2>0, <2>2 DEF CallDone
    <3>2. TxOf(n + 1)' = c
      BY <2>1 DEF TxOf
    <3>3. call_contract'[q] = c /\ q \in DOMAIN call_contract'
      BY <2>0, <2>2
    <3> QED
      BY <2>1, <3>1, <3>2, <3>3 DEF FromCall, MessageIdOf
  <2>6. ASSUME paid
        PROVE  FromPayment(n + 2)' /\ TxOf(n + 2)' = p
    <3>1. TxOf(n + 2)' = p
      BY <2>1, <2>6 DEF TxOf
    <3>2. \A k \in DOMAIN gas_credit_map' : gas_credit_map'[k] # p
      <4>1. \A k \in DOMAIN gas_credit_map' :
               /\ k \in DOMAIN gas_credit_map /\ k # key(Log(c))
               /\ gas_credit_map'[k] = gas_credit_map[k]
        BY <2>2 DEF Without
      <4>2. \A k \in DOMAIN gas_credit_map : key(Log(gas_credit_map[k])) = k
        BY DEF ListInv
      <4> QED
        BY <2>3, <2>6, <4>1, <4>2
    <3>3. /\ n + 1 \in DOMAIN events'
          /\ events'[n + 1].message_id = events'[n + 2].message_id
      BY <2>1, <2>6
    <3>4. (key(Log(TxOf(n + 1))) = key(Log(TxOf(n + 2))))'
      <4>1. Log(TxOf(n + 1))' = Log(c)' /\ Log(TxOf(n + 2))' = Log(p)'
        BY <2>2, <2>5, <3>1 DEF Log
      <4>2. Log(c)' = Log(c) /\ Log(p)' = Log(p)
        BY <2>2, SameTrace
      <4> QED
        BY <2>3, <2>6, <4>1, <4>2
    <3>5. (TxOf(n + 2) \in DOMAIN trace /\ K(TxOf(n + 2)) \in GasPaid)'
      BY <2>2, <2>3, <2>6, <3>1 DEF K, Tx
    <3> QED
      BY <2>1, <2>5, <2>6, <3>1, <3>2, <3>3, <3>4, <3>5 DEF FromPayment
  <2>7. DOMAIN events' \ DOMAIN events = IF paid THEN {n + 1, n + 2} ELSE {n + 1}
    BY <2>1
  <2>8. paid => p # c
    BY <2>3, <2>g
  <2> QED
    BY <1>s, <1>2, <2>1, <2>4, <2>5, <2>6, <2>7, <2>8
<1>3. CASE EmitITS
  <2>0. PICK n, q : n = Len(events) /\ q = pos
    OBVIOUS
  <2>1. /\ n \in Nat /\ DOMAIN events = 1..n
        /\ DOMAIN events' = 1..(n + 1)
        /\ \A e \in DOMAIN events : SameEvent(e)
        /\ events'[n + 1].type = "ITS"
        /\ events'[n + 1].event_id[1] = its[pos]
        /\ events'[n + 1].message_id = MessageIdOf(call_contract[pos])
    BY <1>3, <2>0, EmitEffect
  <2>2. /\ pc = "its" /\ pc' = "its" /\ pos \in DOMAIN its /\ pos \in DOMAIN call_contract
        /\ pos' = pos + 1
        /\ UNCHANGED <<trace, call_contract, its, parsers>>
    BY <1>3 DEF EmitITS
  <2>3. K(its[pos]) \in ITS
    BY <2>2 DEF ListInv
  <2>g. "CallContract" \notin ITS /\ \A k \in GasPaid : k \notin ITS
    BY DEF GasPaid, ITS
  <2>4. ASSUME NEW d \in DOMAIN events
        PROVE  TxOf(d) # its[pos]
    <3>1. CASE FromCall(d) \/ FromPayment(d)
      <4>1. K(TxOf(d)) \notin ITS
        BY <2>g, <3>1 DEF FromCall, FromPayment, ListInv
      <4> QED
        BY <2>3, <4>1
    <3>2. CASE FromITS(d)
      <4>1. PICK a \in DOMAIN its : a < pos /\ TxOf(d) = its[a]
        BY <2>2, <3>2 DEF FromITS, ITSDone
      <4>2. its[a] < its[pos]
        BY <2>2, <4>1 DEF ListInv, Sorted
      <4> QED
        BY <1>n, <2>2, <4>1, <4>2
    <3>3. ~FromOther(d)
      BY <2>2 DEF FromOther, OtherDone
    <3> QED
      BY <3>1, <3>2, <3>3 DEF SourceInv
  <2>5. FromITS(n + 1)' /\ TxOf(n + 1)' = its[q]
    <3>1. ITSDone(q)'
      BY <1>n, <2>0, <2>2 DEF ITSDone
    <3>2. TxOf(n + 1)' = its[q]
      BY <2>0, <2>1 DEF TxOf
    <3> QED
      BY <2>0, <2>1, <2>2, <3>1, <3>2 DEF FromITS, MessageIdOf
  <2>6. DOMAIN events' \ DOMAIN events = {n + 1}
    BY <2>1
  <2> QED
    BY <1>s, <1>3, <2>0, <2>1, <2>4, <2>5, <2>6
<1>4. CASE EmitOther
  <2>0. PICK n, q : n = Len(events) /\ q = pos
    OBVIOUS
  <2>1. /\ n \in Nat /\ DOMAIN events = 1..n
        /\ DOMAIN events' = 1..(n + 1)
        /\ \A e \in DOMAIN events : SameEvent(e)
        /\ events'[n + 1].type \notin {"CALL", "ITS"}
        /\ events'[n + 1].event_id[1] = parsers[pos]
    BY <1>4, <2>0, EmitEffect
  <2>2. /\ pc = "parsers" /\ pc' = "parsers" /\ pos \in DOMAIN parsers
        /\ pos' = pos + 1
        /\ UNCHANGED <<trace, call_contract, its, parsers>>
    BY <1>4 DEF EmitOther
  <2>3. parsers[pos] = 0 \/ K(parsers[pos]) \in OtherKinds
    BY <2>2 DEF ListInv
  <2>4. ASSUME NEW d \in DOMAIN events
        PROVE  TxOf(d) # parsers[pos]
    <3>1. CASE FromCall(d) \/ FromPayment(d) \/ FromITS(d)
      <4>1. /\ TxOf(d) \in DOMAIN trace
            /\ K(TxOf(d)) \in GasPaid \cup ITS \cup {"CallContract"}
        BY <3>1 DEF FromCall, FromPayment, FromITS, ListInv
      <4> QED
        BY <1>d, <2>3, <4>1, KindsSplit
    <3>2. CASE FromOther(d)
      <4>1. PICK a \in DOMAIN parsers : a < pos /\ TxOf(d) = parsers[a]
        BY <2>2, <3>2 DEF FromOther, OtherDone
      <4>2. parsers[a] < parsers[pos]
        BY <2>2, <4>1 DEF ListInv, Sorted
      <4> QED
        BY <1>n, <2>2, <4>1, <4>2
    <3> QED
      BY <3>1, <3>2 DEF SourceInv
  <2>5. FromOther(n + 1)' /\ TxOf(n + 1)' = parsers[q]
    <3>1. OtherDone(q)'
      BY <1>n, <2>0, <2>2 DEF OtherDone
    <3>2. TxOf(n + 1)' = parsers[q]
      BY <2>0, <2>1 DEF TxOf
    <3> QED
      BY <2>0, <2>1, <2>2, <3>1, <3>2 DEF FromOther
  <2>6. DOMAIN events' \ DOMAIN events = {n + 1}
    BY <2>1
  <2> QED
    BY <1>s, <1>4, <2>0, <2>1, <2>4, <2>5, <2>6
<1>5. CASE Costs
  BY <1>s, <1>5, CostsEffect
<1>6. CASE NextLoop \/ UNCHANGED vars
  <2>1. events' = events
    BY <1>6 DEF NextLoop, EndLoop, vars
  <2>2. \A e \in DOMAIN events : SameEvent(e)
    BY <2>1 DEF SameEvent
  <2> QED
    BY <1>s, <1>6, <2>1, <2>2
<1> QED
  BY <1>1, <1>2, <1>3, <1>4, <1>5, <1>6, Steps

\* Every step keeps the events a sequence of events.
LEMMA EventsStep == ListInv /\ MatchInv /\ EventsInv /\ [Next]_vars => EventsInv'
<1> SUFFICES ASSUME ListInv, MatchInv, EventsInv, [Next]_vars
             PROVE  EventsInv'
  OBVIOUS
<1>1. CASE EmitCall
  BY <1>1, CallEffect
<1>2. CASE EmitITS \/ EmitOther
  BY <1>2, EmitEffect
<1>3. CASE Costs
  BY <1>3, CostsEffect
<1>4. CASE Fails
  <2>1. events' = <<>>
    BY <1>4 DEF Fails, Fail
  <2> QED
    BY <2>1 DEF EventsInv, IsSeq
<1>5. CASE \/ Begin \/ AddNothing \/ AddCallContract \/ AddGasPaid \/ AddITS \/ AddOther
           \/ NextLoop \/ UNCHANGED vars
  <2>1. events' = events
    BY <1>5 DEF Begin, AddNothing, AddCallContract, AddGasPaid, AddITS, AddOther, NextLoop,
                EndLoop, vars
  <2> QED
    BY <2>1 DEF EventsInv, IsSeq
<1> QED
  BY <1>1, <1>2, <1>3, <1>4, <1>5, Steps

ParseInv == ListInv /\ MatchInv /\ EventsInv /\ SourceInv

\* The parser starts with empty lists and no events.
LEMMA ParseStart == Init => ParseInv
<1> SUFFICES ASSUME Init
             PROVE  ParseInv
  OBVIOUS
<1>1. DOMAIN <<>> = {} /\ <<>> \in Seq(Nat) /\ IsSeq(<<>>)
  BY DEF IsSeq
<1> QED
  BY <1>1 DEF Init, ParseInv, ListInv, MatchInv, EventsInv, SourceInv, Sorted

\* No two events of a trace have one event_id, whatever the transactions of the trace
\* are: no transaction is reported by two parsers, and no gas payment is credited twice.
THEOREM UniqueEventIds == Spec => []EventIdsUnique
<1>1. ParseInv /\ [Next]_vars => ParseInv'
  BY ListStep, MatchStep, EventsStep, SourceStep DEF ParseInv
<1>2. ParseInv => EventIdsUnique
  BY DEF ParseInv, SourceInv, TxOf, EventIdsUnique
<1> QED
  BY ParseStart, <1>1, <1>2, PTL DEF Spec

-----------------------------------------------------------------------------
(* Nothing is missing. *)

\* The steps once all transactions were matched.
AfterMatching == EmitCall \/ EmitITS \/ EmitOther \/ Costs \/ NextLoop \/ UNCHANGED vars

\* These steps lose no event, and pass one element of a list at a time.
LEMMA Emitting ==
    ASSUME ListInv, MatchInv, EventsInv, AfterMatching
    PROVE  /\ UNCHANGED <<trace, call_contract, its, parsers>>
           /\ \A i : K(i)' = K(i) /\ Log(i)' = Log(i)
           /\ \A e \in DOMAIN events : SameEvent(e)
           /\ \A a \in DOMAIN call_contract :
                 CallDone(a)' => CallDone(a) \/ (EmitCall /\ a = pos)
           /\ \A a \in DOMAIN its :
                 ITSDone(a)' => ITSDone(a) \/ (EmitITS /\ a = pos)
<1>1. UNCHANGED <<trace, call_contract, its, parsers>>
  BY LoopsAdvance DEF AfterMatching
<1>2. \A i : K(i)' = K(i) /\ Log(i)' = Log(i)
  BY <1>1, SameTrace
<1>3. \A e \in DOMAIN events : SameEvent(e)
  <2>1. CASE NextLoop \/ UNCHANGED vars
    BY <2>1 DEF NextLoop, EndLoop, vars, SameEvent
  <2> QED
    BY <2>1, CallEffect, EmitEffect, CostsEffect DEF AfterMatching
<1>n. /\ pos \in Nat \ {0}
      /\ Len(call_contract) \in Nat /\ DOMAIN call_contract = 1..Len(call_contract)
      /\ Len(its) \in Nat /\ DOMAIN its = 1..Len(its)
  BY DEF ListInv
<1>4. CASE EmitCall \/ EmitITS \/ EmitOther \/ Costs
  <2>1. /\ pc' = pc /\ pos' = pos + 1
        /\ pc = "calls" => EmitCall
        /\ pc = "its" => EmitITS
    BY <1>4 DEF EmitCall, EmitITS, EmitOther, Costs, AddCost, ConvertCredit, AtEvent
  <2> QED
    BY <1>1, <1>2, <1>3, <1>n, <2>1 DEF CallDone, ITSDone
<1>5. CASE NextLoop
  <2>1. pos' = 1
    BY <1>5 DEF NextLoop, EndLoop
  <2>2. \A a \in DOMAIN call_contract : CallDone(a)' => CallDone(a)
    BY <1>5, <1>n, <2>1 DEF NextLoop, EndLoop, CallDone
  <2>3. \A a \in DOMAIN its : ITSDone(a)' => ITSDone(a)
    BY <1>5, <1>n, <2>1 DEF NextLoop, EndLoop, ITSDone
  <2> QED
    BY <1>1, <1>2, <1>3, <2>2, <2>3
<1>6. CASE UNCHANGED vars
  BY <1>1, <1>2, <1>3, <1>6 DEF vars, CallDone, ITSDone
<1> QED
  BY <1>4, <1>5, <1>6 DEF AfterMatching

\* Every step leaves what was passed in the lists and in the map.
LEMMA FoundStep == ListInv /\ MatchInv /\ FoundInv /\ [Next]_vars => FoundInv'
<1> SUFFICES ASSUME ListInv, MatchInv, FoundInv, [Next]_vars
             PROVE  FoundInv'
  OBVIOUS
<1>d. /\ Len(trace) \in Nat /\ DOMAIN trace = 1..Len(trace)
      /\ \A i \in DOMAIN trace : i \in Nat /\ i # 0
      /\ pos \in Nat \ {0}
  BY ParserAssumption DEF ListInv
<1>1. CASE Begin
  <2>1. pos' = 1 /\ pc' = "match" /\ trace' = trace
    BY <1>1 DEF Begin, MatchInv
  <2>2. \A i \in DOMAIN trace' : ~(i < pos')
    BY <1>d, <2>1
  <2> QED
    BY <2>1, <2>2 DEF FoundInv
<1>2. CASE Fails
  BY <1>2 DEF Fails, Fail, FoundInv
<1>3. ASSUME AddNothing \/ AddCallContract \/ AddGasPaid \/ AddITS \/ AddOther
      PROVE  FoundInv'
  <2>1. /\ pc = "match" /\ pc' = pc /\ pos' = pos + 1 /\ trace' = trace
        /\ pos \in DOMAIN trace
        /\ IF K(pos) = "CallContract" THEN call_contract' = Append(call_contract, pos)
                                      ELSE call_contract' = call_contract
        /\ IF K(pos) \in ITS THEN its' = Append(its, pos) ELSE its' = its
        /\ IF K(pos) \in GasPaid THEN gas_credit_map' = With(key(Log(pos)), pos)
                                 ELSE gas_credit_map' = gas_credit_map
    BY <1>3, KindsSplit DEF AddNothing, AddCallContract, AddGasPaid, AddITS, AddOther, AtTx, K
  <2>k. \A i : K(i)' = K(i) /\ Log(i)' = Log(i)
    BY <2>1, SameTrace
  <2>2. ASSUME NEW s \in Seq(Nat), NEW x \in Nat
        PROVE  /\ \A a \in DOMAIN s : a \in DOMAIN Append(s, x) /\ Append(s, x)[a] = s[a]
               /\ \E a \in DOMAIN Append(s, x) : Append(s, x)[a] = x
    <3>1. /\ \A a \in DOMAIN s : a \in DOMAIN Append(s, x) /\ Append(s, x)[a] = s[a]
          /\ Len(s) + 1 \in DOMAIN Append(s, x) /\ Append(s, x)[Len(s) + 1] = x
      OBVIOUS
    <3> QED
      BY <3>1
  <2>s. call_contract \in Seq(Nat) /\ its \in Seq(Nat) /\ pos \in Nat
    BY DEF ListInv
  <2>3. /\ \A a \in DOMAIN call_contract :
              a \in DOMAIN call_contract' /\ call_contract'[a] = call_contract[a]
        /\ K(pos) = "CallContract" =>
              \E a \in DOMAIN call_contract' : call_contract'[a] = pos
    <3>1. CASE K(pos) = "CallContract"
      <4>1. call_contract' = Append(call_contract, pos)
        BY <2>1, <3>1
      <4> QED
        BY <2>2, <2>s, <4>1
    <3>2. CASE K(pos) # "CallContract"
      <4>1. call_contract' = call_contract
        BY <2>1, <3>2
      <4> QED
        BY <3>2, <4>1
    <3> QED
      BY <3>1, <3>2
  <2>4. /\ \A a \in DOMAIN its : a \in DOMAIN its' /\ its'[a] = its[a]
        /\ K(pos) \in ITS => \E a \in DOMAIN its' : its'[a] = pos
    <3>1. CASE K(pos) \in ITS
      <4>1. its' = Append(its, pos)
        BY <2>1, <3>1
      <4> QED
        BY <2>2, <2>s, <4>1
    <3>2. CASE K(pos) \notin ITS
      <4>1. its' = its
        BY <2>1, <3>2
      <4> QED
        BY <3>2, <4>1
    <3> QED
      BY <3>1, <3>2
  <2>5. /\ DOMAIN gas_credit_map \subseteq DOMAIN gas_credit_map'
        /\ K(pos) \in GasPaid => key(Log(pos)) \in DOMAIN gas_credit_map'
    BY <2>1 DEF With
  <2> SUFFICES ASSUME NEW i \in DOMAIN trace, i < pos + 1
               PROVE  /\ K(i) = "CallContract" =>
                            \E a \in DOMAIN call_contract' : call_contract'[a] = i
                      /\ K(i) \in ITS => \E a \in DOMAIN its' : its'[a] = i
                      /\ K(i) \in GasPaid => key(Log(i)) \in DOMAIN gas_credit_map'
    BY <2>1, <2>k DEF FoundInv
  <2>6. CASE i = pos
    BY <2>3, <2>4, <2>5, <2>6
  <2>7. CASE i < pos
    BY <2>1, <2>3, <2>4, <2>5, <2>7 DEF FoundInv
  <2> QED
    BY <1>d, <2>6, <2>7
<1>4. CASE EmitCall \/ EmitITS \/ EmitOther \/ Costs \/ NextLoop \/ UNCHANGED vars
  <2>1. UNCHANGED <<trace, call_contract, its>>
    BY <1>4, LoopsAdvance
  <2>2. /\ pc' = "match" => UNCHANGED <<pc, pos, gas_credit_map>>
        /\ pc' \notin {"begin", "failed"} => pc \notin {"begin", "failed"}
        /\ pc = "match" /\ pc' # "match" => pos \notin DOMAIN trace
    BY <1>4 DEF EmitCall, EmitITS, EmitOther, Costs, AddCost, ConvertCredit, AtEvent, NextLoop,
                EndLoop, vars
  <2>3. pc = "match" /\ pc' # "match" => \A i \in DOMAIN trace : i < pos
    BY <1>d, <2>2
  <2>k. \A i : K(i)' = K(i) /\ Log(i)' = Log(i)
    BY <2>1, SameTrace
  <2> QED
    BY <2>1, <2>2, <2>3, <2>k DEF FoundInv
<1> QED
  BY <1>1, <1>2, <1>3, <1>4, Steps

\* Every step of the loops leaves an event for each element that was passed.
LEMMA ReportedStep ==
    ListInv /\ MatchInv /\ EventsInv /\ ReportedInv /\ [Next]_vars => ReportedInv'
<1> SUFFICES ASSUME ListInv, MatchInv, EventsInv, ReportedInv, [Next]_vars
             PROVE  ReportedInv'
  OBVIOUS
<1>1. CASE Begin \/ AddNothing \/ AddCallContract \/ AddGasPaid \/ AddITS \/ AddOther
  <2>1. pc' = "match"
    BY <1>1 DEF Begin, AddNothing, AddCallContract, AddGasPaid, AddITS, AddOther, AtTx
  <2> QED
    BY <2>1 DEF ReportedInv, CallDone, ITSDone
<1>2. CASE Fails
  BY <1>2 DEF Fails, Fail, ReportedInv
<1>3. CASE AfterMatching
  <2> SUFFICES ASSUME pc' # "failed"
               PROVE  ReportedInv'
    BY DEF ReportedInv
  <2>e. /\ UNCHANGED <<trace, call_contract, its, parsers>>
        /\ \A e \in DOMAIN events : SameEvent(e)
        /\ \A a \in DOMAIN call_contract : CallDone(a)' => CallDone(a) \/ (EmitCall /\ a = pos)
        /\ \A a \in DOMAIN its : ITSDone(a)' => ITSDone(a) \/ (EmitITS /\ a = pos)
    BY <1>3, Emitting
  <2>p. pc # "failed"
    BY <1>3 DEF AfterMatching, EmitCall, EmitITS, EmitOther, Costs, AddCost, ConvertCredit, AtEvent,
                NextLoop, EndLoop, vars
  <2>1. ASSUME NEW a \in DOMAIN call_contract, CallDone(a)'
        PROVE  \E e \in DOMAIN events' :
                  /\ events'[e].type = "CALL"
                  /\ events'[e].message_id = MessageIdOf(call_contract[a])
    <3>1. CASE CallDone(a)
      BY <2>e, <2>p, <3>1 DEF ReportedInv, SameEvent
    <3>2. CASE EmitCall /\ a = pos
      <4>1. /\ Len(events) + 1 \in DOMAIN events'
            /\ events'[Len(events) + 1].type = "CALL"
            /\ events'[Len(events) + 1].message_id = MessageIdOf(call_contract[a])
        BY <3>2, CallEffect
      <4> QED
        BY <4>1
    <3> QED
      BY <2>e, <2>1, <3>1, <3>2
  <2>2. ASSUME NEW a \in DOMAIN its, ITSDone(a)'
        PROVE  \E e \in DOMAIN events' :
                  events'[e].type = "ITS" /\ events'[e].event_id[1] = its[a]
    <3>1. CASE ITSDone(a)
      BY <2>e, <2>p, <3>1 DEF ReportedInv, SameEvent, TxOf
    <3>2. CASE EmitITS /\ a = pos
      <4>1. /\ Len(events) + 1 \in DOMAIN events'
            /\ events'[Len(events) + 1].type = "ITS"
            /\ events'[Len(events) + 1].event_id[1] = its[a]
        BY <3>2, EmitEffect
      <4> QED
        BY <4>1
    <3> QED
      BY <2>e, <2>2, <3>1, <3>2
  <2> QED
    BY <2>e, <2>1, <2>2 DEF ReportedInv, TxOf, MessageIdOf
<1> QED
  BY <1>1, <1>2, <1>3, Steps DEF AfterMatching

\* Every step of the loops keeps a payment in the map until a call with its key takes it,
\* and the first such call is credited.
LEMMA CreditStep ==
    /\ ListInv /\ MatchInv /\ EventsInv /\ FoundInv /\ CreditInv /\ [Next]_vars
    => CreditInv'
<1> SUFFICES ASSUME ListInv, MatchInv, EventsInv, FoundInv, CreditInv, [Next]_vars,
                    pc' \notin {"begin", "match", "failed"}
             PROVE  CreditInv'
  BY DEF CreditInv
<1>1. AfterMatching
  BY Steps
     DEF Begin, Fails, Fail, AddNothing, AddCallContract, AddGasPaid, AddITS, AddOther, AtTx,
         AfterMatching
<1>e. /\ UNCHANGED <<trace, call_contract, its, parsers>>
      /\ \A i : K(i)' = K(i) /\ Log(i)' = Log(i)
      /\ \A e \in DOMAIN events : SameEvent(e)
      /\ \A a \in DOMAIN call_contract : CallDone(a)' => CallDone(a) \/ (EmitCall /\ a = pos)
      /\ \A a \in DOMAIN call_contract : CallDone(a) => CallDone(a)'
  BY <1>1, Emitting, LoopsAdvance DEF AfterMatching
<1>p. /\ pc \notin {"begin", "failed"}
      /\ pc = "match" => pc' = "calls" /\ pos \notin DOMAIN trace
                         /\ UNCHANGED gas_credit_map /\ pos' = 1
      /\ ~EmitCall => UNCHANGED gas_credit_map
      /\ EmitCall => /\ pc = "calls" /\ pc' = pc /\ pos' = pos + 1
                     /\ pos \in DOMAIN call_contract
                     /\ gas_credit_map' = Without(key(Log(call_contract[pos])))
  BY <1>1 DEF AfterMatching, EmitCall, EmitITS, EmitOther, Costs, AddCost, ConvertCredit, AtEvent,
              NextLoop, EndLoop, vars
<1>n. /\ pos \in Nat \ {0}
      /\ \A a \in DOMAIN call_contract : a \in Nat \ {0}
      /\ Len(trace) \in Nat /\ DOMAIN trace = 1..Len(trace)
  BY ParserAssumption DEF ListInv
\* What holds of a payment before the step.
<1>2. ASSUME NEW i \in DOMAIN trace, K(i) \in GasPaid
      PROVE  /\ \/ key(Log(i)) \in DOMAIN gas_credit_map
                \/ \E a \in DOMAIN call_contract :
                      CallDone(a) /\ key(Log(call_contract[a])) = key(Log(i))
             /\ \A a \in DOMAIN call_contract :
                   CallDone(a) /\ FirstWithKey(a) /\ key(Log(call_contract[a])) = key(Log(i)) =>
                      \E e \in DOMAIN events :
                         /\ events[e].type = "GAS_CREDIT"
                         /\ events[e].message_id = MessageIdOf(call_contract[a])
  <2>1. CASE pc = "match"
    <3>1. i < pos
      BY <1>n, <1>p, <2>1
    <3>2. key(Log(i)) \in DOMAIN gas_credit_map
      BY <1>2, <2>1, <3>1 DEF FoundInv
    <3>3. \A a \in DOMAIN call_contract : ~CallDone(a)
      BY <2>1 DEF CallDone
    <3> QED
      BY <3>2, <3>3
  <2>2. CASE pc # "match"
    BY <1>2, <1>p, <2>2 DEF CreditInv
  <2> QED
    BY <2>1, <2>2
<1>3. ASSUME NEW i \in DOMAIN trace, K(i) \in GasPaid
      PROVE  \/ key(Log(i)) \in DOMAIN gas_credit_map'
             \/ \E a \in DOMAIN call_contract :
                   CallDone(a)' /\ key(Log(call_contract[a])) = key(Log(i))
  <2>1. CASE ~EmitCall
    BY <1>2, <1>3, <1>e, <1>p, <2>1
  <2>2. CASE EmitCall
    <3>1. PICK q \in DOMAIN call_contract : q = pos
      BY <1>p, <2>2
    <3>2. CallDone(q)'
      BY <1>n, <1>p, <2>2, <3>1 DEF CallDone
    <3>3. DOMAIN gas_credit_map' = DOMAIN gas_credit_map \ {key(Log(call_contract[q]))}
      BY <1>p, <2>2, <3>1 DEF Without
    <3> QED
      BY <1>2, <1>3, <1>e, <3>2, <3>3
  <2> QED
    BY <2>1, <2>2
<1>4. ASSUME NEW i \in DOMAIN trace, K(i) \in GasPaid,
             NEW a \in DOMAIN call_contract, CallDone(a)', FirstWithKey(a),
             key(Log(call_contract[a])) = key(Log(i))
      PROVE  \E e \in DOMAIN events' :
                /\ events'[e].type = "GAS_CREDIT"
                /\ events'[e].message_id = MessageIdOf(call_contract[a])
  <2>1. CASE CallDone(a)
    BY <1>2, <1>4, <1>e, <2>1 DEF SameEvent
  <2>2. CASE EmitCall /\ a = pos
    <3>1. \A b \in DOMAIN call_contract : CallDone(b) => b < a
      BY <1>p, <2>2 DEF CallDone
    <3>2. key(Log(call_contract[a])) \in DOMAIN gas_credit_map
      BY <1>2, <1>4, <3>1 DEF FirstWithKey
    <3>3. /\ Len(events) + 2 \in DOMAIN events'
          /\ events'[Len(events) + 2].type = "GAS_CREDIT"
          /\ events'[Len(events) + 2].message_id = MessageIdOf(call_contract[a])
      BY <2>2, <3>2, CallEffect
    <3> QED
      BY <3>3
  <2> QED
    BY <1>4, <1>e, <2>1, <2>2
<1>5. \A a \in DOMAIN call_contract : FirstWithKey(a)' <=> FirstWithKey(a)
  <2>1. \A b \in DOMAIN call_contract : Log(call_contract[b])' = Log(call_contract[b])
    BY <1>e DEF Log
  <2> QED
    BY <1>e, <2>1 DEF FirstWithKey
<1>6. \A b \in DOMAIN call_contract : Log(call_contract[b])' = Log(call_contract[b])
  BY <1>e DEF Log
<1> QED
  BY <1>e, <1>3, <1>4, <1>5, <1>6 DEF CreditInv, MessageIdOf

-----------------------------------------------------------------------------
(* Credits and pairs. *)

TraceInv == ParseInv /\ FoundInv /\ ReportedInv /\ CreditInv

\* The invariant holds of every behaviour of the parser.
LEMMA TraceInvariant == Spec => []TraceInv
<1>1. Init => TraceInv
  <2>1. Init => FoundInv /\ ReportedInv /\ CreditInv
    BY DEF Init, FoundInv, ReportedInv, CreditInv, CallDone, ITSDone
  <2> QED
    BY <2>1, ParseStart DEF TraceInv
<1>2. TraceInv /\ [Next]_vars => TraceInv'
  BY ListStep, MatchStep, EventsStep, SourceStep, FoundStep, ReportedStep, CreditStep
     DEF TraceInv, ParseInv
<1> QED
  BY <1>1, <1>2, PTL DEF Spec

\* What the contracts logged is what check_match finds in this trace.
LEMMA Recognised ==
    ASSUME LogsRecognised, ListInv
    PROVE  /\ \A i \in Calls : i \in DOMAIN trace /\ K(i) = "CallContract"
           /\ \A i \in Payments : i \in DOMAIN trace /\ K(i) \in GasPaid
           /\ \A i \in Logs("its", ITS) : i \in DOMAIN trace /\ K(i) \in ITS
           /\ \A i \in DOMAIN trace : i \in Nat \ {0}
<1>1. /\ trace \in Traces
      /\ Len(trace) \in Nat /\ DOMAIN trace = 1..Len(trace)
  BY ParserAssumption DEF ListInv
<1> QED
  BY <1>1 DEF LogsRecognised, LogRecognised, Calls, Payments, Logs, K, Tx

\* A call that was matched and decoded is a call of the trace.
LEMMA MatchedIsCall ==
    ASSUME NEW i \in DOMAIN trace, i \in Nat, i # 0, K(i) = "CallContract", Parses(i)
    PROVE  i \in Calls
<1>1. CallContract(Tx(i))
  <2>1. Matches("CallContract", Tx(i))
    BY KindIsKnown DEF K
  <2> QED
    BY <2>1 DEF Matches
<1>2. /\ Tx(i).account = "gateway"
      /\ 1 \in DOMAIN Tx(i).outs
      /\ is_log(Tx(i).outs[1])
  BY <1>1 DEF CallContract, is_log_emmitted_in_opcode
<1>3. Tx(i).outs[1].body.form = "CallContract"
  BY LogOf DEF Parses, ParsesIn, Log, K, Tx
<1> QED
  BY <1>2, <1>3 DEF Calls, Logs, Emits

\* Calls and payments are for the same message exactly when their keys agree.
LEMMA SameKey ==
    ASSUME NEW i \in Nat, NEW j \in Nat, i # 0, j # 0,
           K(i) \in GasPaid \cup {"CallContract"}, K(j) \in GasPaid \cup {"CallContract"}
    PROVE  SameMessage(i, j) <=> key(Log(i)) = key(Log(j))
<1>1. Log(i) = Tx(i).outs[1].body /\ Log(j) = Tx(j).outs[1].body
  BY LogOf
<1> QED
  BY <1>1 DEF SameMessage, key

\* Where the contracts log what check_match looks for, a gas payment is credited only
\* under the message_id of a call with its destination and payload hash, in any trace and
\* at any moment of the parsing.
THEOREM CreditsBelong == ASSUME LogsRecognised PROVE Spec => []CreditBelongsToCall
<1>1. TraceInv => CreditBelongsToCall
  <2> SUFFICES ASSUME TraceInv,
                      NEW e \in DOMAIN events, events[e].type = "GAS_CREDIT",
                      TxOf(e) \in Payments
               PROVE  \E c \in EventsOf("CALL") :
                         /\ events[c].message_id = events[e].message_id
                         /\ SameMessage(TxOf(c), TxOf(e))
    BY DEF CreditBelongsToCall, EventsOf
  <2>1. ListInv /\ SourceInv
    BY DEF TraceInv, ParseInv
  <2>2. /\ TxOf(e) \in Nat \ {0} /\ K(TxOf(e)) \in GasPaid
        /\ \A i \in DOMAIN trace : i \in Nat \ {0}
    BY <2>1, Recognised
  <2>3. ~FromCall(e) /\ ~FromITS(e)
    BY DEF FromCall, FromITS
  <2>4. ~FromOther(e)
    <3>1. FromOther(e) => TxOf(e) = 0 \/ K(TxOf(e)) \in OtherKinds
      BY <2>1 DEF FromOther, ListInv
    <3> QED
      BY <2>2, <3>1, KindsSplit
  <2>5. FromPayment(e)
    BY <2>1, <2>3, <2>4 DEF SourceInv
  <2>6. PICK c \in DOMAIN events :
           /\ FromCall(c)
           /\ events[c].message_id = events[e].message_id
           /\ key(Log(TxOf(c))) = key(Log(TxOf(e)))
    BY <2>5 DEF FromPayment
  <2>7. TxOf(c) \in DOMAIN trace /\ K(TxOf(c)) = "CallContract" /\ events[c].type = "CALL"
    BY <2>1, <2>6 DEF FromCall, ListInv
  <2>8. SameMessage(TxOf(c), TxOf(e))
    BY <2>2, <2>6, <2>7, SameKey
  <2> QED
    BY <2>6, <2>7, <2>8 DEF EventsOf
<1> QED
  BY <1>1, TraceInvariant, PTL

\* Where the contracts log what check_match looks for, the first call of a reported trace
\* that was paid for has its credit, wherever the payment stands in the trace.
THEOREM PaidIsCredited == ASSUME LogsRecognised PROVE Spec => []PaidCallIsCredited
<1>1. TraceInv => PaidCallIsCredited
  <2> SUFFICES ASSUME TraceInv, pc = "returned",
                      NEW c \in Calls, NEW p \in Payments, SameMessage(c, p),
                      \A d \in Calls : SameMessage(c, d) => c <= d
               PROVE  \E e \in EventsOf("GAS_CREDIT") : events[e].message_id = MessageIdOf(c)
    BY DEF PaidCallIsCredited
  <2>1. ListInv /\ FoundInv /\ CreditInv
    BY DEF TraceInv, ParseInv
  <2>2. /\ c \in DOMAIN trace /\ K(c) = "CallContract"
        /\ p \in DOMAIN trace /\ K(p) \in GasPaid
        /\ \A i \in DOMAIN trace : i \in Nat \ {0}
    BY <2>1, Recognised
  <2>3. PICK a \in DOMAIN call_contract : call_contract[a] = c
    BY <2>1, <2>2 DEF FoundInv
  <2>4. key(Log(c)) = key(Log(p))
    BY <2>2, SameKey
  <2>5. ASSUME NEW b \in DOMAIN call_contract, b < a,
               key(Log(call_contract[b])) = key(Log(call_contract[a]))
        PROVE  FALSE
    <3>1. /\ call_contract[b] < c
          /\ call_contract[b] \in DOMAIN trace
          /\ K(call_contract[b]) = "CallContract"
          /\ Parses(call_contract[b])
      BY <2>1, <2>3, <2>5 DEF ListInv, Sorted
    <3>2. call_contract[b] \in Calls
      BY <2>2, <3>1, MatchedIsCall
    <3>3. SameMessage(c, call_contract[b])
      BY <2>2, <2>3, <2>5, <3>1, SameKey
    <3> QED
      BY <2>2, <3>1, <3>2, <3>3
  <2>6. FirstWithKey(a)
    BY <2>5 DEF FirstWithKey
  <2>7. CallDone(a)
    BY DEF CallDone
  <2> QED
    BY <2>1, <2>2, <2>3, <2>4, <2>6, <2>7 DEF CreditInv, EventsOf
<1> QED
  BY <1>1, TraceInvariant, PTL

\* Where the contracts log what check_match looks for, every ITS log of a reported trace
\* has its event, and the calls that give them their message_ids are in the order of the
\* logs.
THEOREM ITSPairs == ASSUME LogsRecognised PROVE Spec => []ITSPairedInOrder
<1>1. TraceInv => ITSPairedInOrder
  <2> SUFFICES ASSUME TraceInv, pc = "returned"
               PROVE  ITSPairedInOrder
    BY DEF ITSPairedInOrder
  <2>0. ListInv /\ FoundInv /\ ReportedInv /\ SourceInv
    BY DEF TraceInv, ParseInv
  <2>1. ASSUME NEW i \in Logs("its", ITS)
        PROVE  \E e \in EventsOf("ITS") : TxOf(e) = i
    <3>1. i \in DOMAIN trace /\ K(i) \in ITS
      BY <2>0, Recognised
    <3>2. PICK a \in DOMAIN its : its[a] = i
      BY <2>0, <3>1 DEF FoundInv
    <3> QED
      BY <2>0, <3>2 DEF ReportedInv, ITSDone, EventsOf
  <2>2. ASSUME NEW e \in EventsOf("ITS")
        PROVE  \E a \in DOMAIN its \cap DOMAIN call_contract :
                  TxOf(e) = its[a] /\ events[e].message_id = MessageIdOf(call_contract[a])
    <3>1. FromITS(e)
      BY <2>0 DEF SourceInv, EventsOf, FromCall, FromPayment, FromOther
    <3> QED
      BY <3>1 DEF FromITS
  <2>3. ASSUME NEW e \in EventsOf("ITS")
        PROVE  \E c \in EventsOf("CALL") : events[c].message_id = events[e].message_id
    <3>1. PICK a \in DOMAIN call_contract : events[e].message_id = MessageIdOf(call_contract[a])
      BY <2>2
    <3> QED
      BY <2>0, <3>1 DEF ReportedInv, CallDone, EventsOf
  <2>4. ASSUME NEW d \in EventsOf("ITS"), NEW e \in EventsOf("ITS"), TxOf(d) < TxOf(e)
        PROVE  events[d].message_id[2] < events[e].message_id[2]
    <3>1. PICK a \in DOMAIN its \cap DOMAIN call_contract :
             TxOf(d) = its[a] /\ events[d].message_id = MessageIdOf(call_contract[a])
      BY <2>2
    <3>2. PICK b \in DOMAIN its \cap DOMAIN call_contract :
             TxOf(e) = its[b] /\ events[e].message_id = MessageIdOf(call_contract[b])
      BY <2>2
    <3>3. a \in Nat /\ b \in Nat /\ its[a] \in Nat /\ its[b] \in Nat
      BY <2>0 DEF ListInv
    <3>4. a < b
      <4>1. its[a] < its[b]
        BY <2>4, <3>1, <3>2
      <4>2. b < a => its[b] < its[a]
        BY <2>0 DEF ListInv, Sorted
      <4> QED
        BY <3>3, <4>1, <4>2
    <3>5. call_contract[a] < call_contract[b]
      BY <2>0, <3>4 DEF ListInv, Sorted
    <3> QED
      BY <3>1, <3>2, <3>5 DEF MessageIdOf
  <2> QED
    BY <2>1, <2>3, <2>4 DEF ITSPairedInOrder
<1> QED
  BY <1>1, TraceInvariant, PTL

-----------------------------------------------------------------------------
(* The other parsers. *)

\* The list of the others has all that were passed, and parser 0 if it matched.
OthersInv ==
    pc \notin {"begin", "failed"} =>
        /\ \A i \in DOMAIN trace :
              (pc = "match" => i < pos) /\ K(i) \in OtherKinds =>
                 \E a \in DOMAIN parsers : parsers[a] = i
        /\ (\E a \in DOMAIN parsers : parsers[a] = 0) <=> ExecuteInsufficientGas(trace)

\* Every step keeps the list of the others complete.
LEMMA OthersStep == ListInv /\ MatchInv /\ OthersInv /\ [Next]_vars => OthersInv'
<1> SUFFICES ASSUME ListInv, MatchInv, OthersInv, [Next]_vars
             PROVE  OthersInv'
  OBVIOUS
<1>d. /\ Len(trace) \in Nat /\ DOMAIN trace = 1..Len(trace)
      /\ pos \in Nat \ {0}
  BY ParserAssumption DEF ListInv
<1>t. trace' = trace
  BY Steps
     DEF Begin, Fails, Fail, AddNothing, AddCallContract, AddGasPaid, AddITS, AddOther, EmitCall,
         EmitITS, EmitOther, Costs, AddCost, ConvertCredit, NextLoop, EndLoop, vars
<1>k. \A i : K(i)' = K(i)
  BY <1>t, SameTrace
<1>1. CASE Begin
  <2>1. /\ pc' = "match" /\ pos' = 1
        /\ parsers' = IF ExecuteInsufficientGas(trace) THEN <<0>> ELSE <<>>
    BY <1>1 DEF Begin, MatchInv
  <2>2. \A i \in DOMAIN trace : ~(i < pos')
    BY <1>d, <2>1
  <2>3. (\E a \in DOMAIN parsers' : parsers'[a] = 0) <=> ExecuteInsufficientGas(trace)
    <3>1. CASE ExecuteInsufficientGas(trace)
      <4>1. 1 \in DOMAIN parsers' /\ parsers'[1] = 0
        BY <2>1, <3>1
      <4> QED
        BY <3>1, <4>1
    <3>2. CASE ~ExecuteInsufficientGas(trace)
      <4>1. DOMAIN parsers' = {}
        BY <2>1, <3>2
      <4> QED
        BY <3>2, <4>1
    <3> QED
      BY <3>1, <3>2
  <2> QED
    BY <1>t, <1>k, <2>1, <2>2, <2>3 DEF OthersInv
<1>2. CASE Fails
  BY <1>2 DEF Fails, Fail, OthersInv
<1>3. ASSUME AddNothing \/ AddCallContract \/ AddGasPaid \/ AddITS \/ AddOther
      PROVE  OthersInv'
  <2>1. /\ pc = "match" /\ pc' = pc /\ pos' = pos + 1
        /\ AddOther \/ K(pos) \notin OtherKinds
        /\ AddOther => parsers' = Append(parsers, pos)
        /\ ~AddOther => parsers' = parsers
    BY <1>3, KindsSplit DEF AddNothing, AddCallContract, AddGasPaid, AddITS, AddOther, AtTx, K
  <2>2. \A i \in DOMAIN trace : i < pos + 1 => i < pos \/ i = pos
    BY <1>d
  <2>3. /\ \A a \in DOMAIN parsers : a \in DOMAIN parsers' /\ parsers'[a] = parsers[a]
        /\ AddOther => \E a \in DOMAIN parsers' : parsers'[a] = pos
        /\ \A a \in DOMAIN parsers' : a \in DOMAIN parsers \/ parsers'[a] = pos
    <3>1. CASE AddOther
      <4>1. parsers \in Seq(Nat) /\ pos \in Nat /\ parsers' = Append(parsers, pos)
        BY <1>d, <2>1, <3>1 DEF ListInv
      <4>2. /\ DOMAIN parsers' = DOMAIN parsers \cup {Len(parsers) + 1}
            /\ \A a \in DOMAIN parsers : parsers'[a] = parsers[a]
            /\ parsers'[Len(parsers) + 1] = pos
        BY <4>1
      <4> QED
        BY <4>2
    <3>2. CASE ~AddOther
      BY <2>1, <3>2
    <3> QED
      BY <3>1, <3>2
  <2>4. (\E a \in DOMAIN parsers' : parsers'[a] = 0) <=> (\E a \in DOMAIN parsers : parsers[a] = 0)
    BY <1>d, <2>3
  <2>5. ASSUME NEW i \in DOMAIN trace, i < pos + 1, K(i) \in OtherKinds
        PROVE  \E a \in DOMAIN parsers' : parsers'[a] = i
    <3>1. CASE i < pos
      <4>1. PICK a \in DOMAIN parsers : parsers[a] = i
        BY <2>1, <2>5, <3>1 DEF OthersInv
      <4> QED
        BY <2>3, <4>1
    <3>2. CASE i = pos
      BY <2>1, <2>3, <2>5, <3>2
    <3> QED
      BY <2>2, <2>5, <3>1, <3>2
  <2> QED
    BY <1>t, <1>k, <2>1, <2>4, <2>5 DEF OthersInv
<1>4. CASE AfterMatching
  <2>1. /\ pc' = "match" => pc = "match" /\ pos' = pos
        /\ pc' \notin {"begin", "failed"} => pc \notin {"begin", "failed"}
        /\ pc = "match" /\ pc' # "match" => pos \notin DOMAIN trace
        /\ parsers' = parsers
    BY <1>4 DEF AfterMatching, EmitCall, EmitITS, EmitOther, Costs, AddCost, ConvertCredit,
                AtEvent, NextLoop, EndLoop, vars
  <2>2. pc = "match" /\ pc' # "match" => \A i \in DOMAIN trace : i < pos
    BY <1>d, <2>1
  <2> QED
    BY <1>t, <1>k, <2>1, <2>2 DEF OthersInv
<1> QED
  BY <1>1, <1>2, <1>3, <1>4, Steps DEF AfterMatching

-----------------------------------------------------------------------------
(* Amounts and costs. *)

\* Element e has been passed by add_gas_used_and_convert.
Charged(e) == pc = "returned" \/ (pc = "costs" /\ e < pos)

\* What an event of this type is charged.
Due(type) ==
    CASE type = "MESSAGE_APPROVED" ->
             IF approved = 0 THEN 0 ELSE calc_message_gas(trace) \div approved
      [] type = "MESSAGE_EXECUTED" -> calc_message_gas(trace)
      [] type = "GAS_REFUNDED" -> calc_message_gas_native_gas_refunded(trace)
      [] OTHER -> 0

\* Only events of this type come from the parser of this kind.
OfKind(x, type, kind) ==
    x.type = type => x.event_id[1] \in DOMAIN trace /\ K(x.event_id[1]) = kind

\* An event of the trace: what its amount is, what it comes from.
Sound(x) ==
    /\ x.amount \in Nat
    /\ x.token_id \in BOOLEAN /\ (x.token_id => x.type = "GAS_CREDIT")
    /\ OfKind(x, "MESSAGE_EXECUTED", "MessageExecuted")
    /\ OfKind(x, "MESSAGE_APPROVED", "MessageApproved")
    /\ OfKind(x, "GAS_REFUNDED", "NativeGasRefunded")
    /\ x.type = "CANNOT_EXECUTE" => ExecuteInsufficientGas(trace)

ValueInv ==
    \A e \in DOMAIN events :
        /\ Sound(events[e])
        /\ events[e].cost = IF Charged(e) THEN Due(events[e].type) ELSE 0

\* is_log_emitted answers with the place of a message.
LEMMA LogIsEmitted ==
    ASSUME NEW tx, IsTransaction(tx), NEW op, is_log_emitted(tx, op) > 0
    PROVE  is_log_emitted(tx, op) \in DOMAIN tx.outs
<1> DEFINE I == {i \in 1..Len(tx.outs) : is_log(tx.outs[i]) /\ tx.outs[i].op = op}
<1>1. is_log_emitted(tx, op) = IF I # {} THEN Min(I) ELSE 0
  BY DEF is_log_emitted, SelectInSeq
<1>2. I \in SUBSET Nat /\ I \subseteq DOMAIN tx.outs
  BY DEF IsTransaction
<1> HIDE DEF I
<1>3. I # {}
  BY <1>1
<1>4. \E x \in I : \A y \in I : x <= y
  BY <1>2, <1>3, LeastElement
<1>5. Min(I) \in I
  BY <1>4 DEF Min
<1> QED
  BY <1>1, <1>2, <1>3, <1>5

\* What a parser decodes has an amount.
LEMMA AmountType ==
    ASSUME trace \in Traces, NEW i,
           \/ i \in DOMAIN trace /\ K(i) # "none"
           \/ i = 0 /\ ExecuteInsufficientGas(trace)
    PROVE  Log(i).amount \in Nat
<1>1. /\ Len(trace) \in Nat /\ DOMAIN trace = 1..Len(trace)
      /\ IsTrace(trace)
  BY ParserAssumption, TraceAssumption
<1>2. CASE i = 0 /\ ExecuteInsufficientGas(trace)
  <2>1. Len(trace) > 1
    BY <1>1, <1>2 DEF ExecuteInsufficientGas
  <2>2. Log(i) = trace[1].outs[1].body
    BY <1>2 DEF Log, LogIn
  <2>3. 1 \in DOMAIN trace /\ 1 \in DOMAIN trace[1].outs
    BY <1>1, <2>1 DEF IsTrace
  <2> QED
    BY <1>1, <2>2, <2>3 DEF IsTrace
<1>3. CASE i \in DOMAIN trace /\ K(i) # "none"
  <2> DEFINE tx == Tx(i)
             At(op) == tx.outs[is_log_emitted(tx, op)].body
  <2>1. /\ IsTransaction(tx) /\ tx.body.amount \in Nat
        /\ \A m \in DOMAIN tx.outs : tx.outs[m].body.amount \in Nat
        /\ i # 0
    BY <1>1, <1>3 DEF IsTrace, Tx
  <2>2. Matches(K(i), tx) /\ K(i) \in Kinds
    BY <1>3, KindIsKnown DEF K
  <2>3. \A op : is_log_emitted(tx, op) > 0 => At(op).amount \in Nat
    <3> HIDE DEF tx
    <3> QED
      BY <2>1, LogIsEmitted
  <2>4. \A op, m : is_log_emmitted_in_opcode(tx, op, m) => tx.outs[m].body.amount \in Nat
    BY <2>1 DEF is_log_emmitted_in_opcode
  <2>5. Log(i) = CASE K(i) = "MessageExecuted" -> tx.body
                   [] K(i) = "NativeGasRefunded" -> tx.outs[2].body
                   [] K(i) = "ITSInterchainTokenDeploymentStarted" ->
                          At("INTERCHAIN_TOKEN_DEPLOYMENT_STARTED_LOG")
                   [] K(i) = "ITSInterchainTransfer" -> At("INTERCHAIN_TRANSFER_LOG")
                   [] K(i) = "ITSLinkTokenStarted" -> At("LINK_TOKEN_STARTED_LOG")
                   [] K(i) = "SignersRotated" -> At("SIGNERS_ROTATED_LOG")
                   [] OTHER -> tx.outs[1].body
    BY <2>1 DEF Log, LogIn, K, Tx
  <2> HIDE DEF tx, At
  <2>6. CASE K(i) = "MessageExecuted"
    BY <2>1, <2>5, <2>6
  <2>7. CASE K(i) = "NativeGasRefunded"
    BY <2>2, <2>4, <2>5, <2>7 DEF Matches, NativeGasRefunded
  <2>8. CASE K(i) = "ITSInterchainTokenDeploymentStarted"
    BY <2>2, <2>3, <2>5, <2>8 DEF Matches, ITSInterchainTokenDeploymentStarted
  <2>9. CASE K(i) = "ITSInterchainTransfer"
    BY <2>2, <2>3, <2>5, <2>9 DEF Matches, ITSInterchainTransfer
  <2>10. CASE K(i) = "ITSLinkTokenStarted"
    BY <2>2, <2>3, <2>5, <2>10 DEF Matches, ITSLinkTokenStarted
  <2>11. CASE K(i) = "SignersRotated"
    BY <2>2, <2>3, <2>5, <2>11 DEF Matches, SignersRotated
  <2>12. CASE K(i) \in {"CallContract", "MessageApproved", "NativeGasPaid", "NativeGasAdded",
                        "JettonGasAdded", "JettonGasPaid", "ITSTokenMetadataRegistered"}
    <3>1. Log(i) = tx.outs[1].body
      BY <2>5, <2>12
    <3>2. \E op : is_log_emmitted_in_opcode(tx, op, 1)
      BY <2>2, <2>12 DEF Matches, CallContract, MessageApproved, NativeGasPaid, NativeGasAdded,
                         JettonGasAdded, JettonGasPaid, ITSTokenMetadataRegistered
    <3> QED
      BY <2>4, <3>1, <3>2
  <2> QED
    BY <1>3, <2>2, <2>6, <2>7, <2>8, <2>9, <2>10, <2>11, <2>12, KindsSplit
       DEF OtherKinds, GasPaid, ITS
<1> QED
  BY <1>2, <1>3

\* The values of a new event.
LEMMA NewValues ==
    ASSUME NEW type, NEW suffix, NEW i, NEW message_id
    PROVE  LET x == Event(type, suffix, i, message_id)
           IN  /\ x.amount = Log(i).amount /\ x.cost = 0
               /\ x.token_id = (i # 0 /\ K(i) \in {"JettonGasPaid", "JettonGasAdded"})
BY DEF Event, K

\* The events of calls, payments and ITS logs are sound when they are made.
LEMMA NewSound ==
    ASSUME trace \in Traces, NEW type, NEW suffix, NEW i \in DOMAIN trace, NEW message_id,
           K(i) # "none",
           type \in {"CALL", "GAS_CREDIT", "ITS", "SIGNERS_ROTATED"},
           type # "GAS_CREDIT" => K(i) \notin {"JettonGasPaid", "JettonGasAdded"}
    PROVE  LET x == Event(type, suffix, i, message_id)
           IN  Sound(x) /\ x.cost = 0
<1> DEFINE x == Event(type, suffix, i, message_id)
<1>1. x.type = type
  BY NewEvent
<1>2. /\ x.amount = Log(i).amount /\ x.cost = 0
      /\ x.token_id = (i # 0 /\ K(i) \in {"JettonGasPaid", "JettonGasAdded"})
  BY NewValues
<1>3. Log(i).amount \in Nat
  BY AmountType
<1> HIDE DEF x
<1>4. x.token_id \in BOOLEAN /\ (x.token_id => x.type = "GAS_CREDIT")
  BY <1>1, <1>2
<1>5. Sound(x)
  BY <1>1, <1>2, <1>3, <1>4 DEF Sound, OfKind
<1> QED
  BY <1>2, <1>5 DEF x

\* So are those of the other parsers.
LEMMA OtherSound ==
    ASSUME trace \in Traces, NEW i,
           \/ i \in DOMAIN trace /\ i # 0 /\ K(i) \in OtherKinds
           \/ i = 0 /\ ExecuteInsufficientGas(trace)
    PROVE  /\ Sound(OtherEvent(i)) /\ OtherEvent(i).cost = 0
           /\ i # 0 /\ K(i) = "MessageApproved" => OtherEvent(i).type = "MESSAGE_APPROVED"
<1> DEFINE x == OtherEvent(i)
           Known == {<<"MESSAGE_EXECUTED", "MessageExecuted">>,
                     <<"MESSAGE_APPROVED", "MessageApproved">>,
                     <<"GAS_CREDIT", "NativeGasAdded">>, <<"GAS_CREDIT", "JettonGasAdded">>,
                     <<"GAS_REFUNDED", "NativeGasRefunded">>,
                     <<"SIGNERS_ROTATED", "SignersRotated">>}
<1>a. Log(i).amount \in Nat
  <2>1. "none" \notin OtherKinds
    BY DEF OtherKinds
  <2> QED
    BY <2>1, AmountType
<1>1. CASE i = 0
  <2>1. OtherEvent(i) = Event("CANNOT_EXECUTE", "cannot-execute", 0, Log(0).message_id)
    BY <1>1 DEF OtherEvent
  <2>2. x.type = "CANNOT_EXECUTE"
    BY <2>1, NewEvent
  <2>3. x.amount = Log(0).amount /\ x.cost = 0 /\ x.token_id = FALSE
    <3>1. /\ x.amount = Log(0).amount /\ x.cost = 0
          /\ x.token_id = (0 # 0 /\ K(0) \in {"JettonGasPaid", "JettonGasAdded"})
      BY <2>1, NewValues
    <3> HIDE DEF x
    <3> QED
      BY <3>1
  <2> HIDE DEF x
  <2>4. Sound(x)
    BY <1>1, <1>a, <2>2, <2>3 DEF Sound, OfKind
  <2> QED
    BY <1>1, <2>3, <2>4 DEF x
<1>2. CASE i # 0
  <2>1. PICK type, suffix, message_id :
           /\ OtherEvent(i) = Event(type, suffix, i, message_id)
           /\ <<type, K(i)>> \in Known
    BY <1>2 DEF OtherEvent, OtherKinds, K, GasCreditEvent
  <2>2. x.type = type /\ x.event_id[1] = i
    BY <2>1, NewEvent
  <2>3. /\ x.amount = Log(i).amount /\ x.cost = 0
        /\ x.token_id = (i # 0 /\ K(i) \in {"JettonGasPaid", "JettonGasAdded"})
    BY <2>1, NewValues
  <2> HIDE DEF x
  <2>4. x.token_id \in BOOLEAN /\ (x.token_id => x.type = "GAS_CREDIT")
    BY <2>1, <2>2, <2>3
  <2>5. /\ OfKind(x, "MESSAGE_EXECUTED", "MessageExecuted")
        /\ OfKind(x, "MESSAGE_APPROVED", "MessageApproved")
        /\ OfKind(x, "GAS_REFUNDED", "NativeGasRefunded")
        /\ x.type # "CANNOT_EXECUTE"
        /\ K(i) = "MessageApproved" => x.type = "MESSAGE_APPROVED"
    BY <1>2, <2>1, <2>2 DEF OfKind
  <2>6. Sound(x)
    BY <1>a, <2>3, <2>4, <2>5 DEF Sound
  <2> QED
    BY <2>3, <2>5, <2>6 DEF x
<1> QED
  BY <1>1, <1>2

\* The events that a step of the emitting loops adds, as they are made.
LEMMA AddedEvents ==
    ASSUME ListInv, EventsInv, EmitCall \/ EmitITS \/ EmitOther
    PROVE  /\ Len(events) \in Nat /\ DOMAIN events = 1..Len(events)
           /\ \A e \in DOMAIN events : e \in DOMAIN events' /\ events'[e] = events[e]
           /\ \A e \in DOMAIN events' \ DOMAIN events :
                 \/ EmitCall /\ events'[e] = CallEvent(call_contract[pos])
                 \/ /\ EmitCall /\ key(Log(call_contract[pos])) \in DOMAIN gas_credit_map
                    /\ events'[e] = GasCreditEvent(gas_credit_map[key(Log(call_contract[pos]))],
                                                   MessageIdOf(call_contract[pos]))
                 \/ /\ EmitITS
                    /\ events'[e] = ITSEvent(its[pos], MessageIdOf(call_contract[pos]))
                 \/ EmitOther /\ events'[e] = OtherEvent(parsers[pos])
           /\ EmitOther => /\ Len(events) + 1 \in DOMAIN events'
                           /\ events'[Len(events) + 1] = OtherEvent(parsers[pos])
<1> DEFINE n == Len(events)
           c == call_contract[pos]
           paid == key(Log(c)) \in DOMAIN gas_credit_map
           x == CallEvent(c)
           y == GasCreditEvent(gas_credit_map[key(Log(c))], MessageIdOf(c))
           z == ITSEvent(its[pos], MessageIdOf(c))
           o == OtherEvent(parsers[pos])
           s == Append(events, x)
<1>e. IsSeq(events)
  BY DEF EventsInv
<1>1. /\ EmitCall => events' = IF paid THEN s \o <<y>> ELSE s \o <<>>
      /\ EmitITS => events' = Append(events, z) /\ pc = "its"
      /\ EmitOther => events' = Append(events, o) /\ pc = "parsers"
      /\ EmitCall => pc = "calls"
  BY DEF EmitCall, CreditFor, EmitITS, EmitOther
<1> HIDE DEF c, paid, x, y, z, o
<1>2. n \in Nat /\ DOMAIN events = 1..n
  BY <1>e, AppendSeq
<1>3. CASE EmitITS
  <2>1. /\ DOMAIN events' = DOMAIN events \cup {n + 1}
        /\ \A a \in DOMAIN events : events'[a] = events[a]
        /\ events'[n + 1] = z
    BY <1>e, <1>1, <1>3, AppendSeq
  <2> QED
    BY <1>1, <1>2, <1>3, <2>1 DEF z, c
<1>4. CASE EmitOther
  <2>1. /\ DOMAIN events' = DOMAIN events \cup {n + 1}
        /\ \A a \in DOMAIN events : events'[a] = events[a]
        /\ events'[n + 1] = o
    BY <1>e, <1>1, <1>4, AppendSeq
  <2> QED
    BY <1>1, <1>2, <1>4, <2>1 DEF o
<1>5. CASE EmitCall
  <2>1. /\ IsSeq(s) /\ Len(s) = n + 1
        /\ DOMAIN s = DOMAIN events \cup {n + 1}
        /\ \A a \in DOMAIN events : s[a] = events[a]
        /\ s[n + 1] = x
    BY <1>e, AppendSeq
  <2> HIDE DEF s
  <2>2. CASE ~paid
    <3>1. events' = s
      BY <1>1, <1>5, <2>1, <2>2, AppendSeq
    <3> QED
      BY <1>1, <1>2, <1>5, <2>1, <3>1 DEF x, c
  <2>3. CASE paid
    <3> DEFINE r == Append(s, y)
    <3>1. events' = r
      BY <1>1, <1>5, <2>1, <2>3, AppendSeq
    <3>2. /\ DOMAIN r = DOMAIN s \cup {Len(s) + 1}
          /\ \A a \in DOMAIN s : r[a] = s[a]
          /\ r[Len(s) + 1] = y
      BY <2>1, AppendSeq
    <3> HIDE DEF r
    <3>3. \A e \in DOMAIN events : e \in DOMAIN events' /\ events'[e] = events[e]
      BY <2>1, <3>1, <3>2
    <3>4. \A e \in DOMAIN events' \ DOMAIN events : events'[e] = x \/ events'[e] = y
      BY <2>1, <3>1, <3>2
    <3> QED
      BY <1>1, <1>2, <1>5, <2>3, <3>3, <3>4 DEF x, y, c, paid
  <2> QED
    BY <2>2, <2>3
<1> QED
  BY <1>3, <1>4, <1>5

\* What add_gas_used_and_convert does to the event it has reached.
LEMMA CostsValues ==
    ASSUME ListInv, EventsInv, Costs
    PROVE  /\ pos \in DOMAIN events /\ DOMAIN events' = DOMAIN events
           /\ \A e \in DOMAIN events : e # pos => events'[e] = events[e]
           /\ events[pos].token_id =>
                 /\ events'[pos].amount = convert_jetton_to_native(events[pos].amount)
                 /\ events'[pos].cost = events[pos].cost
                 /\ events'[pos].token_id = FALSE
           /\ ~events[pos].token_id =>
                 /\ events'[pos].amount = events[pos].amount
                 /\ events'[pos].token_id = events[pos].token_id
                 /\ events'[pos].cost
                       = IF events[pos].type \in {"MESSAGE_APPROVED", "MESSAGE_EXECUTED",
                                                  "GAS_REFUNDED"}
                         THEN Due(events[pos].type) ELSE events[pos].cost
<1>1. pos \in DOMAIN events /\ DOMAIN events[pos] = EventFields
  BY DEF Costs, AddCost, ConvertCredit, AtEvent, EventsInv
<1> DEFINE e == events[pos]
<1>2. DOMAIN e = EventFields
  BY <1>1
<1>3. CASE AddCost
  <2>1. events' = [events EXCEPT ![pos] = Costed(e)] /\ ~e.token_id
    BY <1>3 DEF AddCost
  <2>2. Costed(e) = IF e.type \in {"MESSAGE_APPROVED", "MESSAGE_EXECUTED", "GAS_REFUNDED"}
                    THEN [e EXCEPT !.cost = Due(e.type)] ELSE e
    <3> HIDE DEF e
    <3> QED
      BY DEF Costed, Due
  <2>3. events'[pos] = Costed(e) /\ DOMAIN events' = DOMAIN events
        /\ \A d \in DOMAIN events : d # pos => events'[d] = events[d]
    BY <1>1, <2>1
  <2>4. /\ Costed(e).amount = e.amount /\ Costed(e).token_id = e.token_id
        /\ Costed(e).cost = IF e.type \in {"MESSAGE_APPROVED", "MESSAGE_EXECUTED", "GAS_REFUNDED"}
                            THEN Due(e.type) ELSE e.cost
    <3> HIDE DEF e
    <3> QED
      BY <1>2, <2>2 DEF EventFields
  <2> QED
    BY <1>1, <2>1, <2>3, <2>4
<1>4. CASE ConvertCredit
  <2> DEFINE x == [e EXCEPT !.token_id = FALSE, !.amount = convert_jetton_to_native(e.amount)]
  <2>1. events' = [events EXCEPT ![pos] = x] /\ e.token_id
    BY <1>1, <1>2, <1>4 DEF ConvertCredit, EventFields
  <2>2. /\ x.amount = convert_jetton_to_native(e.amount) /\ x.token_id = FALSE
        /\ x.cost = e.cost
    <3> HIDE DEF e
    <3> QED
      BY <1>2 DEF EventFields
  <2> HIDE DEF x
  <2>3. events'[pos] = x /\ DOMAIN events' = DOMAIN events
        /\ \A d \in DOMAIN events : d # pos => events'[d] = events[d]
    BY <1>1, <2>1
  <2> QED
    BY <1>1, <2>1, <2>2, <2>3
<1> QED
  BY <1>3, <1>4 DEF Costs

\* A converted amount is an amount.
LEMMA ConvertType ==
    ASSUME NEW a \in Nat
    PROVE  convert_jetton_to_native(a) \in Nat
<1> DEFINE q == (a * JettonPrice) \div TonPrice
<1>1. a * JettonPrice \in Nat
  BY ParserAssumption
<1>2. q \in Nat
  BY <1>1, ParserAssumption
<1> HIDE DEF q
<1>3. convert_jetton_to_native(a) = q \/ convert_jetton_to_native(a) = q + 1
  BY DEF convert_jetton_to_native, q
<1> QED
  BY <1>2, <1>3

\* An event that is sound in this trace is so after the step.
LEMMA SoundKept ==
    ASSUME trace' = trace, NEW e, Sound(events'[e])
    PROVE  Sound(events[e])'
BY DEF Sound, OfKind, K, Tx

\* Every step of the emitting loops adds sound events that have no cost yet, and every
\* step of add_gas_used_and_convert charges the event it has reached.
LEMMA ValueStep ==
    /\ ListInv /\ MatchInv /\ EventsInv /\ OthersInv /\ ValueInv /\ [Next]_vars
    => ValueInv'
<1> SUFFICES ASSUME ListInv, MatchInv, EventsInv, OthersInv, ValueInv, [Next]_vars
             PROVE  ValueInv'
  OBVIOUS
<1>d. /\ Len(trace) \in Nat /\ DOMAIN trace = 1..Len(trace) /\ trace \in Traces
      /\ pos \in Nat \ {0}
      /\ Len(events) \in Nat /\ DOMAIN events = 1..Len(events)
  <2>1. IsSeq(events)
    BY DEF EventsInv
  <2> QED
    BY <2>1, AppendSeq, ParserAssumption DEF ListInv
<1>1. CASE Fails \/ Begin \/ AddNothing \/ AddCallContract \/ AddGasPaid \/ AddITS \/ AddOther
  <2>1. events' = <<>>
    BY <1>1 DEF Fails, Fail, Begin, AddNothing, AddCallContract, AddGasPaid, AddITS, AddOther,
                AtTx, MatchInv
  <2>2. DOMAIN events' = {}
    BY <2>1
  <2> QED
    BY <2>2 DEF ValueInv
<1>2. CASE EmitCall \/ EmitITS \/ EmitOther
  <2>1. /\ trace' = trace /\ pc' = pc /\ pc \notin {"costs", "returned"}
    BY <1>2 DEF EmitCall, EmitITS, EmitOther
  <2>2. \A e : ~Charged(e) /\ ~Charged(e)'
    BY <2>1 DEF Charged
  <2>3. ASSUME NEW e \in DOMAIN events'
        PROVE  Sound(events'[e]) /\ events'[e].cost = 0
    <3>1. CASE e \in DOMAIN events
      <4>1. events'[e] = events[e]
        BY <1>2, <3>1, AddedEvents
      <4>2. Sound(events[e]) /\ events[e].cost = 0
        BY <2>2, <3>1 DEF ValueInv
      <4> QED
        BY <4>1, <4>2
    <3>2. CASE EmitCall /\ events'[e] = CallEvent(call_contract[pos])
      <4>1. call_contract[pos] \in DOMAIN trace /\ K(call_contract[pos]) = "CallContract"
        BY <3>2 DEF EmitCall, ListInv
      <4>2. PICK c \in DOMAIN trace : K(c) = "CallContract" /\ events'[e] = CallEvent(c)
        BY <3>2, <4>1
      <4>3. PICK suffix, message_id : events'[e] = Event("CALL", suffix, c, message_id)
        BY <4>2 DEF CallEvent
      <4> QED
        BY <1>d, <4>2, <4>3, NewSound
    <3>3. CASE /\ EmitCall /\ key(Log(call_contract[pos])) \in DOMAIN gas_credit_map
               /\ events'[e] = GasCreditEvent(gas_credit_map[key(Log(call_contract[pos]))],
                                              MessageIdOf(call_contract[pos]))
      <4>1. PICK i \in DOMAIN trace :
               K(i) \in GasPaid /\ events'[e] = GasCreditEvent(i, MessageIdOf(call_contract[pos]))
        BY <3>3 DEF ListInv
      <4>2. K(i) # "none"
        BY <4>1 DEF GasPaid
      <4>3. PICK message_id : events'[e] = Event("GAS_CREDIT", "gas", i, message_id)
        BY <4>1 DEF GasCreditEvent
      <4> QED
        BY <1>d, <4>2, <4>3, NewSound
    <3>4. CASE EmitITS /\ events'[e] = ITSEvent(its[pos], MessageIdOf(call_contract[pos]))
      <4>1. its[pos] \in DOMAIN trace /\ K(its[pos]) \in ITS
        BY <3>4 DEF EmitITS, ListInv
      <4>2. PICK i \in DOMAIN trace :
               K(i) \in ITS /\ events'[e] = ITSEvent(i, MessageIdOf(call_contract[pos]))
        BY <3>4, <4>1
      <4>3. PICK suffix, message_id : events'[e] = Event("ITS", suffix, i, message_id)
        BY <4>2 DEF ITSEvent
      <4>4. K(i) \notin {"none", "JettonGasPaid", "JettonGasAdded"}
        BY <4>2 DEF ITS
      <4> QED
        BY <1>d, <4>3, <4>4, NewSound
    <3>5. CASE EmitOther /\ events'[e] = OtherEvent(parsers[pos])
      <4>1. /\ pos \in DOMAIN parsers /\ pc = "parsers"
        BY <3>5 DEF EmitOther
      <4>2. \/ parsers[pos] \in DOMAIN trace /\ parsers[pos] # 0 /\ K(parsers[pos]) \in OtherKinds
            \/ parsers[pos] = 0 /\ ExecuteInsufficientGas(trace)
        BY <1>d, <4>1 DEF ListInv, OthersInv
      <4> QED
        BY <1>d, <3>5, <4>2, OtherSound
    <3> QED
      BY <1>2, <2>3, <3>1, <3>2, <3>3, <3>4, <3>5, AddedEvents
  <2>4. \A e \in DOMAIN events' : Sound(events[e])'
    BY <2>1, <2>3, SoundKept
  <2> QED
    BY <2>2, <2>3, <2>4 DEF ValueInv
<1>3. CASE Costs
  <2>1. /\ pc = "costs" /\ pc' = pc /\ pos' = pos + 1 /\ pos \in DOMAIN events
        /\ trace' = trace /\ approved' = approved
    BY <1>3 DEF Costs, AddCost, ConvertCredit, AtEvent
  <2>2. DOMAIN events' = DOMAIN events /\ \A e \in DOMAIN events : SameEvent(e)
    BY <1>3, CostsEffect
  <2>3. \A type : Due(type)' = Due(type)
    BY <2>1 DEF Due
  <2>4. ASSUME NEW e \in DOMAIN events, e # pos
        PROVE  /\ Sound(events[e])'
               /\ events'[e].cost = IF Charged(e)' THEN Due(events'[e].type) ELSE 0
    <3>1. events'[e] = events[e]
      BY <1>3, <2>4, CostsValues
    <3>2. Charged(e)' <=> Charged(e)
      BY <1>d, <2>1, <2>4 DEF Charged
    <3>3. Sound(events'[e]) /\ events[e].cost = IF Charged(e) THEN Due(events[e].type) ELSE 0
      BY <3>1 DEF ValueInv
    <3> QED
      BY <2>1, <3>1, <3>2, <3>3, SoundKept
  <2>5. /\ Sound(events[pos]) /\ events[pos].cost = 0
    BY <1>d, <2>1 DEF ValueInv, Charged
  <2> DEFINE x == events'[pos]
  <2>6. /\ x.type = events[pos].type /\ x.event_id = events[pos].event_id
    BY <2>1, <2>2 DEF SameEvent
  <2>7. /\ x.amount \in Nat /\ x.token_id \in BOOLEAN
        /\ x.token_id => x.type = "GAS_CREDIT"
        /\ x.cost = Due(x.type)
    <3>1. CASE events[pos].token_id
      <4>1. /\ x.amount = convert_jetton_to_native(events[pos].amount)
            /\ x.cost = events[pos].cost /\ x.token_id = FALSE
        BY <1>3, <3>1, CostsValues
      <4>2. events[pos].amount \in Nat /\ events[pos].type = "GAS_CREDIT"
        BY <2>5, <3>1 DEF Sound
      <4>3. Due("GAS_CREDIT") = 0
        BY DEF Due
      <4> HIDE DEF x
      <4> QED
        BY <2>5, <2>6, <4>1, <4>2, <4>3, ConvertType
    <3>2. CASE ~events[pos].token_id
      <4>1. /\ x.amount = events[pos].amount /\ x.token_id = events[pos].token_id
            /\ x.cost = IF events[pos].type \in {"MESSAGE_APPROVED", "MESSAGE_EXECUTED",
                                                 "GAS_REFUNDED"}
                        THEN Due(events[pos].type) ELSE events[pos].cost
        BY <1>3, <3>2, CostsValues
      <4>2. /\ events[pos].amount \in Nat /\ events[pos].token_id \in BOOLEAN
            /\ events[pos].token_id => events[pos].type = "GAS_CREDIT"
        BY <2>5 DEF Sound
      <4>3. events[pos].type \notin {"MESSAGE_APPROVED", "MESSAGE_EXECUTED", "GAS_REFUNDED"}
            => Due(events[pos].type) = 0
        BY DEF Due
      <4> HIDE DEF x
      <4> QED
        BY <2>5, <2>6, <4>1, <4>2, <4>3
    <3> QED
      BY <3>1, <3>2
  <2>8. Sound(x)
    <3> HIDE DEF x
    <3> QED
      BY <2>5, <2>6, <2>7 DEF Sound, OfKind
  <2>9. PICK p \in DOMAIN events : p = pos
    BY <2>1
  <2>10. Sound(events[p])' /\ Charged(p)' /\ events'[p].cost = Due(events'[p].type)
    <3>1. Charged(p)'
      BY <1>d, <2>1, <2>9 DEF Charged
    <3>2. Sound(events'[p]) /\ events'[p].cost = Due(events'[p].type)
      BY <2>7, <2>8, <2>9
    <3> QED
      BY <2>1, <3>1, <3>2, SoundKept
  <2> QED
    BY <2>2, <2>3, <2>4, <2>9, <2>10 DEF ValueInv
<1>4. CASE NextLoop \/ UNCHANGED vars
  <2>1. /\ UNCHANGED <<trace, events, approved>>
        /\ pc' = "returned" => pc = "returned" \/ (pc = "costs" /\ pos \notin DOMAIN events)
        /\ pc' = "costs" => pos' = 1 \/ (pc = "costs" /\ pos' = pos)
        /\ pc = "costs" => pc' \in {"costs", "returned"}
        /\ pc = "returned" => pc' = "returned"
        /\ pc' = "costs" /\ pc # "costs" => pos' = 1 /\ pc # "returned"
        /\ pc = "costs" /\ pc' = "costs" => pos' = pos
    BY <1>4 DEF NextLoop, EndLoop, vars
  <2>2. \A e \in DOMAIN events : Charged(e)' <=> Charged(e)
    BY <1>d, <2>1 DEF Charged
  <2>3. \A type : Due(type)' = Due(type)
    BY <2>1 DEF Due
  <2>4. \A e \in DOMAIN events : Sound(events[e])'
    <3>1. \A e \in DOMAIN events : Sound(events'[e])
      BY <2>1 DEF ValueInv
    <3> QED
      BY <2>1, <3>1, SoundKept
  <2> QED
    BY <2>1, <2>2, <2>3, <2>4 DEF ValueInv
<1> QED
  BY <1>1, <1>2, <1>3, <1>4, Steps

-----------------------------------------------------------------------------
(* Approvals. *)

\* The approvals before position n of the trace.
Approvals(n) == {i \in DOMAIN trace : i < n /\ K(i) = "MessageApproved"}

\* message_approved_count counts the approvals that were passed.
ApprovedInv ==
    /\ approved \in 0..Len(trace)
    /\ pc \in {"begin", "match"} => approved = Cardinality(Approvals(pos))
    /\ pc \notin {"begin", "match", "failed"} => approved = Cardinality(Approvals(Len(trace) + 1))

\* An approval that has been passed has its event.
ApprovalsReported ==
    pc # "failed" =>
        \A a \in DOMAIN parsers :
            OtherDone(a) /\ parsers[a] # 0 /\ K(parsers[a]) = "MessageApproved" =>
                \E e \in DOMAIN events :
                    events[e].type = "MESSAGE_APPROVED" /\ TxOf(e) = parsers[a]

\* Every step of the matching loop counts the approval it passes.
LEMMA ApprovedStep == ListInv /\ MatchInv /\ ApprovedInv /\ [Next]_vars => ApprovedInv'
<1> SUFFICES ASSUME ListInv, MatchInv, ApprovedInv, [Next]_vars
             PROVE  ApprovedInv'
  OBVIOUS
<1>d. /\ Len(trace) \in Nat /\ DOMAIN trace = 1..Len(trace)
      /\ pos \in Nat \ {0}
  BY ParserAssumption DEF ListInv
<1>t. trace' = trace
  BY Steps
     DEF Begin, Fails, Fail, AddNothing, AddCallContract, AddGasPaid, AddITS, AddOther, EmitCall,
         EmitITS, EmitOther, Costs, AddCost, ConvertCredit, NextLoop, EndLoop, vars
<1>k. \A i : K(i)' = K(i)
  BY <1>t, SameTrace
<1>1. CASE Begin
  <2>1. pc = "begin" /\ pc' = "match" /\ pos' = pos /\ approved' = approved
    BY <1>1 DEF Begin
  <2>2. Approvals(pos)' = Approvals(pos)
    BY <1>t, <1>k, <2>1 DEF Approvals
  <2> QED
    BY <1>t, <2>1, <2>2 DEF ApprovedInv
<1>2. CASE Fails
  <2>1. pc' = "failed" /\ approved' = approved
    BY <1>2 DEF Fails, Fail
  <2> QED
    BY <1>t, <2>1 DEF ApprovedInv
<1>3. ASSUME AddNothing \/ AddCallContract \/ AddGasPaid \/ AddITS \/ AddOther
      PROVE  ApprovedInv'
  <2>1. /\ pc = "match" /\ pc' = pc /\ pos' = pos + 1 /\ pos \in DOMAIN trace
        /\ approved' = IF K(pos) = "MessageApproved" THEN approved + 1 ELSE approved
    BY <1>3 DEF AddNothing, AddCallContract, AddGasPaid, AddITS, AddOther, AtTx, K, GasPaid, ITS
  <2>2. Approvals(pos)' = IF K(pos) = "MessageApproved" THEN Approvals(pos) \cup {pos}
                          ELSE Approvals(pos)
    BY <1>d, <1>t, <1>k, <2>1 DEF Approvals
  <2>3. /\ IsFiniteSet(Approvals(pos)) /\ IsFiniteSet(Approvals(pos)')
        /\ Cardinality(Approvals(pos)') <= Len(trace)
        /\ Cardinality(Approvals(pos)') \in Nat
    <3>1. Approvals(pos) \in SUBSET (1..Len(trace)) /\ Approvals(pos)' \in SUBSET (1..Len(trace))
      BY <1>d, <1>t DEF Approvals
    <3>2. IsFiniteSet(1..Len(trace)) /\ Cardinality(1..Len(trace)) = Len(trace)
      <4>1. /\ IsFiniteSet(1..Len(trace))
            /\ Cardinality(1..Len(trace)) = IF 1 > Len(trace) THEN 0 ELSE Len(trace) - 1 + 1
        <5> DEFINE n == Len(trace)
        <5>1. 1 \in Int /\ n \in Int
          BY <1>d
        <5> HIDE DEF n
        <5>2. /\ IsFiniteSet(1..n)
              /\ Cardinality(1..n) = IF 1 > n THEN 0 ELSE n - 1 + 1
          BY <5>1, FS_Interval
        <5> QED
          BY <5>2 DEF n
      <4> QED
        BY <1>d, <4>1
    <3> QED
      BY <3>1, <3>2, FS_Subset, FS_CardinalityType
  <2>4. pos \notin Approvals(pos)
    BY <1>d DEF Approvals
  <2>5. Cardinality(Approvals(pos)')
           = IF K(pos) = "MessageApproved" THEN Cardinality(Approvals(pos)) + 1
             ELSE Cardinality(Approvals(pos))
    BY <2>2, <2>3, <2>4, FS_AddElement
  <2>6. approved' = Cardinality(Approvals(pos)')
    BY <2>1, <2>5 DEF ApprovedInv
  <2>7. approved' \in 0..Len(trace)
    BY <1>d, <2>3, <2>6
  <2> QED
    BY <1>t, <2>1, <2>6, <2>7 DEF ApprovedInv
<1>4. CASE AfterMatching
  <2>1. /\ approved' = approved
        /\ pc' \in {"begin", "match"} => pc = pc' /\ pos' = pos
        /\ pc' \notin {"begin", "match", "failed"} =>
              \/ pc \notin {"begin", "match", "failed"}
              \/ pc = "match" /\ pos \notin DOMAIN trace
    BY <1>4 DEF AfterMatching, EmitCall, EmitITS, EmitOther, Costs, AddCost, ConvertCredit,
                AtEvent, NextLoop, EndLoop, vars
  <2>2. pos \notin DOMAIN trace => Approvals(pos) = Approvals(Len(trace) + 1)
    BY <1>d DEF Approvals
  <2>3. pc' \in {"begin", "match"} => Approvals(pos)' = Approvals(pos)
    BY <1>t, <1>k, <2>1 DEF Approvals
  <2>4. Approvals(Len(trace) + 1)' = Approvals(Len(trace) + 1)
    BY <1>t, <1>k DEF Approvals
  <2> QED
    BY <1>t, <2>1, <2>2, <2>3, <2>4 DEF ApprovedInv
<1> QED
  BY <1>1, <1>2, <1>3, <1>4, Steps DEF AfterMatching

\* Every step of the loop over the other parsers leaves an event for the approval it passes.
LEMMA ApprovalsStep ==
    /\ ListInv /\ MatchInv /\ EventsInv /\ OthersInv /\ ApprovalsReported /\ [Next]_vars
    => ApprovalsReported'
<1> SUFFICES ASSUME ListInv, MatchInv, EventsInv, OthersInv, ApprovalsReported, [Next]_vars,
                    pc' # "failed"
             PROVE  ApprovalsReported'
  BY DEF ApprovalsReported
<1>d. trace \in Traces /\ pos \in Nat \ {0} /\ parsers \in Seq(Nat)
  BY DEF ListInv
<1>1. CASE Fails
  BY <1>1 DEF Fails, Fail
<1>2. CASE Begin \/ AddNothing \/ AddCallContract \/ AddGasPaid \/ AddITS \/ AddOther
  <2>1. pc' = "match"
    BY <1>2 DEF Begin, AddNothing, AddCallContract, AddGasPaid, AddITS, AddOther, AtTx
  <2> QED
    BY <2>1 DEF ApprovalsReported, OtherDone
<1>3. CASE AfterMatching
  <2>1. /\ UNCHANGED <<trace, parsers>>
        /\ \A e \in DOMAIN events : SameEvent(e)
    BY <1>3, Emitting
  <2>k. \A i : K(i)' = K(i)
    BY <2>1, SameTrace
  <2>p. pc # "failed"
    BY <1>3 DEF AfterMatching, EmitCall, EmitITS, EmitOther, Costs, AddCost, ConvertCredit, AtEvent,
                NextLoop, EndLoop, vars
  <2>2. \A a \in DOMAIN parsers : OtherDone(a)' => OtherDone(a) \/ (EmitOther /\ a = pos)
    <3>1. /\ pc' \in {"costs", "returned"} =>
                pc \in {"costs", "returned"} \/ (pc = "parsers" /\ pos \notin DOMAIN parsers)
          /\ pc' = "parsers" => \/ pos' = 1
                                \/ pc = "parsers" /\ pos' = pos
                                \/ pc = "parsers" /\ pos' = pos + 1 /\ EmitOther
      BY <1>3 DEF AfterMatching, EmitCall, EmitITS, EmitOther, Costs, AddCost, ConvertCredit,
                  AtEvent, NextLoop, EndLoop, vars
    <3>2. Len(parsers) \in Nat /\ DOMAIN parsers = 1..Len(parsers)
      BY <1>d
    <3> QED
      BY <1>d, <3>1, <3>2 DEF OtherDone
  <2>3. ASSUME NEW a \in DOMAIN parsers, OtherDone(a)', parsers[a] # 0,
               K(parsers[a]) = "MessageApproved"
        PROVE  \E e \in DOMAIN events' :
                  events'[e].type = "MESSAGE_APPROVED" /\ events'[e].event_id[1] = parsers[a]
    <3>1. CASE OtherDone(a)
      BY <2>1, <2>3, <2>p, <3>1 DEF ApprovalsReported, SameEvent, TxOf
    <3>2. CASE EmitOther /\ a = pos
      <4>1. /\ Len(events) + 1 \in DOMAIN events'
            /\ events'[Len(events) + 1] = OtherEvent(parsers[a])
        BY <3>2, AddedEvents
      <4>2. OtherEvent(parsers[a]).event_id[1] = parsers[a]
        BY <2>3, NewOther DEF OtherKinds
      <4>3. OtherEvent(parsers[a]).type = "MESSAGE_APPROVED"
        <5>1. parsers[a] \in DOMAIN trace /\ K(parsers[a]) \in OtherKinds
          BY <2>3 DEF ListInv
        <5> QED
          BY <1>d, <2>3, <5>1, OtherSound
      <4> QED
        BY <4>1, <4>2, <4>3
    <3> QED
      BY <2>2, <2>3, <3>1, <3>2
  <2>4. \A a \in DOMAIN parsers : K(parsers[a])' = K(parsers[a])
    BY <2>1 DEF K, Tx
  <2> QED
    BY <2>1, <2>3, <2>4 DEF ApprovalsReported, TxOf
<1> QED
  BY <1>1, <1>2, <1>3, Steps DEF AfterMatching

-----------------------------------------------------------------------------
(* Types, charges and outcomes. *)

ChargeInv == TraceInv /\ OthersInv /\ ValueInv /\ ApprovedInv /\ ApprovalsReported

LEMMA ChargeStart == Init => ChargeInv
<1> SUFFICES ASSUME Init
             PROVE  ChargeInv
  OBVIOUS
<1>1. TraceInv
  BY ParseStart DEF TraceInv, Init, FoundInv, ReportedInv, CreditInv, CallDone, ITSDone
<1>2. OthersInv /\ ApprovalsReported /\ ValueInv
  <2>1. pc = "begin" /\ DOMAIN events = {}
    BY DEF Init
  <2> QED
    BY <2>1 DEF OthersInv, ApprovalsReported, OtherDone, ValueInv
<1>3. ApprovedInv
  <2>1. /\ Len(trace) \in Nat /\ DOMAIN trace = 1..Len(trace)
        /\ pc = "begin" /\ pos = 1 /\ approved = 0
    BY ParserAssumption DEF Init
  <2>2. Approvals(pos) = {}
    BY <2>1 DEF Approvals
  <2> QED
    BY <2>1, <2>2, FS_EmptySet DEF ApprovedInv
<1> QED
  BY <1>1, <1>2, <1>3 DEF ChargeInv

LEMMA ChargeStep == ChargeInv /\ [Next]_vars => ChargeInv'
BY ListStep, MatchStep, EventsStep, SourceStep, FoundStep, ReportedStep, CreditStep, OthersStep,
   ValueStep, ApprovedStep, ApprovalsStep
   DEF ChargeInv, TraceInv, ParseInv

\* The invariant holds of every behaviour of the parser.
LEMMA ChargeInvariant == Spec => []ChargeInv
BY ChargeStart, ChargeStep, PTL DEF Spec

\* The gas of a trace is what our accounts lost in it.
LEMMA GasIsLost ==
    ASSUME trace \in Traces
    PROVE  /\ cost(trace) = BalanceLoss(trace) /\ BalanceLoss(trace) \in Int
           /\ calc_message_gas(trace) = AtLeastZero(BalanceLoss(trace))
           /\ calc_message_gas(trace) \in Nat
           /\ calc_message_gas_native_gas_refunded(trace) \in Nat
           /\ 3 \in DOMAIN trace /\ 1 \in DOMAIN trace[3].outs =>
                 calc_message_gas_native_gas_refunded(trace)
                    = AtLeastZero(BalanceLoss(trace) - trace[3].outs[1].value)
<1>1. /\ Len(trace) \in Nat /\ DOMAIN trace = 1..Len(trace)
      /\ \A i \in DOMAIN trace : IsTransaction(trace[i])
  BY ParserAssumption, TraceAssumption DEF IsTrace
<1>2. cost(trace) = BalanceLoss(trace) /\ cost(trace) \in Int
  BY <1>1, CostIsLoss
<1>3. 3 \in DOMAIN trace /\ 1 \in DOMAIN trace[3].outs => trace[3].outs[1].value \in Int
  BY <1>1 DEF IsTransaction
<1> QED
  BY <1>2, <1>3 DEF calc_message_gas, calc_message_gas_native_gas_refunded, AtLeastZero

\* A list of positions of the trace.
LEMMA ListOf ==
    ASSUME NEW S, NEW s \in Seq(Nat), \A a \in DOMAIN s : s[a] \in S
    PROVE  s \in Seq(S)
<1>1. Len(s) \in Nat /\ DOMAIN s = 1..Len(s) /\ s = [a \in 1..Len(s) |-> s[a]]
  OBVIOUS
<1> QED
  BY <1>1

\* The invariant gives every variable its type.
LEMMA ChargeTypes == ChargeInv => TypeOK
<1> SUFFICES ASSUME ChargeInv
             PROVE  TypeOK
  OBVIOUS
<1>1. ListInv /\ ValueInv /\ ApprovedInv
  BY DEF ChargeInv, TraceInv, ParseInv
<1>2. call_contract \in Seq(DOMAIN trace) /\ its \in Seq(DOMAIN trace)
  BY <1>1, ListOf DEF ListInv
<1>3. parsers \in Seq(DOMAIN trace \cup {0})
  <2>1. \A a \in DOMAIN parsers : parsers[a] \in DOMAIN trace \cup {0}
    BY <1>1 DEF ListInv
  <2> QED
    BY <1>1, <2>1, ListOf DEF ListInv
<1>4. ASSUME NEW type
      PROVE  Due(type) \in Nat
  <2> DEFINE g == calc_message_gas(trace)
  <2>1. g \in Nat /\ calc_message_gas_native_gas_refunded(trace) \in Nat
    BY <1>1, GasIsLost DEF ListInv
  <2>2. approved \in Nat
    BY <1>1, ParserAssumption DEF ApprovedInv, ListInv
  <2>3. approved # 0 => g \div approved \in Nat
    <3> HIDE DEF g
    <3> QED
      BY <2>1, <2>2
  <2> QED
    BY <2>1, <2>3 DEF Due
<1>5. \A e \in DOMAIN events : events[e].amount \in Nat /\ events[e].cost \in Nat
  BY <1>1, <1>4 DEF ValueInv, Sound
<1> QED
  BY <1>1, <1>2, <1>3, <1>5 DEF TypeOK, ListInv, ApprovedInv

\* The variables stay within their types, in every trace of well-formed transactions: no
\* cost and no amount is negative, and no more approvals are counted than there are
\* transactions.
THEOREM TypeCorrect == Spec => []TypeOK
BY ChargeTypes, ChargeInvariant, PTL

\* In every trace, an execution is charged exactly what our accounts lost, and a refund
\* that the relayer sent what they lost beyond the amount refunded, whatever happened
\* between our accounts.
THEOREM Charges == Spec => []ChargedIsLost
<1>1. ChargeInv => ChargedIsLost
  <2> SUFFICES ASSUME ChargeInv, pc = "returned"
               PROVE  ChargedIsLost
    BY DEF ChargedIsLost
  <2>1. ListInv /\ ValueInv
    BY DEF ChargeInv, TraceInv, ParseInv
  <2>2. trace \in Traces
    BY <2>1 DEF ListInv
  <2>3. \A e \in DOMAIN events : events[e].cost = Due(events[e].type)
    BY <2>1 DEF ValueInv, Charged
  <2>4. ASSUME NEW e \in EventsOf("MESSAGE_EXECUTED")
        PROVE  events[e].cost = AtLeastZero(BalanceLoss(trace))
    <3>1. events[e].cost = calc_message_gas(trace)
      BY <2>3, <2>4 DEF EventsOf, Due
    <3> QED
      BY <2>2, <3>1, GasIsLost
  <2>5. ASSUME NEW e \in EventsOf("GAS_REFUNDED"), TxOf(e) = 3
        PROVE  events[e].cost = AtLeastZero(BalanceLoss(trace) - Tx(3).outs[1].value)
    <3>1. events[e].cost = calc_message_gas_native_gas_refunded(trace)
      BY <2>3, <2>5 DEF EventsOf, Due
    <3>2. 3 \in DOMAIN trace /\ K(3) = "NativeGasRefunded"
      BY <2>1, <2>5 DEF EventsOf, ValueInv, Sound, OfKind, TxOf
    <3>3. NativeGasRefunded(Tx(3))
      <4>1. Matches("NativeGasRefunded", Tx(3))
        BY <3>2, KindIsKnown DEF K
      <4> QED
        BY <4>1 DEF Matches
    <3>4. 2 \in DOMAIN Tx(3).outs
      BY <3>3 DEF NativeGasRefunded, is_log_emmitted_in_opcode
    <3>5. 1 \in DOMAIN trace[3].outs
      BY <2>2, <3>2, <3>4, TraceAssumption DEF IsTrace, IsTransaction, Tx
    <3> QED
      BY <2>2, <3>1, <3>2, <3>5, GasIsLost DEF Tx
  <2> QED
    BY <2>4, <2>5 DEF ChargedIsLost
<1> QED
  BY <1>1, ChargeInvariant, PTL

\* When the trace is returned, the count that the gas is divided by is the number of the
\* approvals that are reported.
LEMMA ApprovedIsReported ==
    ASSUME ChargeInv, pc = "returned"
    PROVE  /\ IsFiniteSet(EventsOf("MESSAGE_APPROVED"))
           /\ approved = Cardinality(EventsOf("MESSAGE_APPROVED"))
<1> DEFINE E == EventsOf("MESSAGE_APPROVED")
           A == Approvals(Len(trace) + 1)
           f == [e \in E |-> TxOf(e)]
<1>1. /\ ListInv /\ EventsInv /\ SourceInv /\ OthersInv /\ ValueInv /\ ApprovedInv
      /\ ApprovalsReported
  BY DEF ChargeInv, TraceInv, ParseInv
<1>2. /\ Len(trace) \in Nat /\ DOMAIN trace = 1..Len(trace)
      /\ Len(events) \in Nat /\ DOMAIN events = 1..Len(events)
  <2>1. IsSeq(events)
    BY <1>1 DEF EventsInv
  <2> QED
    BY <1>1, <2>1, AppendSeq, ParserAssumption DEF ListInv
<1>3. IsFiniteSet(E)
  <2>1. E \in SUBSET (1..Len(events)) /\ IsFiniteSet(1..Len(events))
    BY <1>2, FS_Interval DEF EventsOf
  <2> QED
    BY <2>1, FS_Subset
<1>4. \A e \in E : TxOf(e) \in A
  BY <1>1, <1>2 DEF EventsOf, ValueInv, Sound, OfKind, TxOf, Approvals
<1>5. \A d, e \in E : TxOf(d) = TxOf(e) => d = e
  BY <1>1 DEF SourceInv, EventsOf
<1>6. \A i \in A : \E e \in E : TxOf(e) = i
  <2> SUFFICES ASSUME NEW i \in A
               PROVE  \E e \in E : TxOf(e) = i
    OBVIOUS
  <2>1. i \in DOMAIN trace /\ i # 0 /\ K(i) = "MessageApproved"
    BY <1>2 DEF Approvals
  <2>2. PICK a \in DOMAIN parsers : parsers[a] = i
    BY <1>1, <2>1 DEF OthersInv, OtherKinds
  <2> QED
    BY <1>1, <2>1, <2>2 DEF ApprovalsReported, OtherDone, EventsOf
<1>7. f \in Bijection(E, A)
  <2> HIDE DEF E, A
  <2>1. f \in [E -> A]
    BY <1>4
  <2>2. f \in Injection(E, A)
    BY <1>5, <2>1 DEF Injection, IsInjective
  <2>3. f \in Surjection(E, A)
    BY <1>6, <2>1 DEF Surjection
  <2> QED
    BY <2>2, <2>3 DEF Bijection
<1>8. Cardinality(A) = Cardinality(E)
  <2> HIDE DEF E, A, f
  <2>1. ExistsBijection(E, A)
    BY <1>7 DEF ExistsBijection
  <2> QED
    BY <1>3, <2>1, FS_Bijection
<1>9. approved = Cardinality(A)
  BY <1>1 DEF ApprovedInv
<1> QED
  BY <1>3, <1>8, <1>9

\* However many messages a trace approves, together they are charged what our accounts
\* lost, less at most the remainder of the division.
THEOREM ApprovalsAddUp == Spec => []ApprovalCostsAddUp
<1>1. ChargeInv => ApprovalCostsAddUp
  <2> SUFFICES ASSUME ChargeInv, pc = "returned", EventsOf("MESSAGE_APPROVED") # {}
               PROVE  ApprovalCostsAddUp
    BY DEF ApprovalCostsAddUp
  <2> DEFINE E == EventsOf("MESSAGE_APPROVED")
             costs == [e \in E |-> events[e].cost]
             n == Cardinality(E)
             lost == AtLeastZero(BalanceLoss(trace))
             share == lost \div n
  <2>1. ListInv /\ ValueInv
    BY DEF ChargeInv, TraceInv, ParseInv
  <2>2. IsFiniteSet(E) /\ approved = n
    BY ApprovedIsReported
  <2>3. n \in Nat \ {0}
    <3> HIDE DEF E
    <3> QED
      BY <2>2, FS_CardinalityType, FS_EmptySet DEF E
  <2>4. calc_message_gas(trace) = lost /\ lost \in Nat
    BY <2>1, GasIsLost DEF ListInv
  <2>5. \A e \in E : costs[e] = share
    <3>1. \A e \in E : events[e].cost = Due("MESSAGE_APPROVED")
      BY <2>1 DEF ValueInv, Charged, EventsOf
    <3>2. Due("MESSAGE_APPROVED") = lost \div approved
      BY <2>2, <2>3, <2>4 DEF Due
    <3> QED
      BY <2>2, <3>1, <3>2
  <2>6. share \in Nat /\ n * share <= lost /\ n * share > lost - n
    <3> HIDE DEF n, lost
    <3>1. share \in Nat /\ lost = n * share + (lost % n) /\ lost % n \in 0..(n - 1)
      BY <2>3, <2>4
    <3> HIDE DEF share
    <3>2. n * share \in Nat /\ lost % n \in Nat /\ lost % n < n
      BY <2>3, <3>1
    <3> QED
      BY <2>3, <2>4, <3>1, <3>2
  <2>7. Total(costs, E) = share * n
    <3> HIDE DEF costs, share, E
    <3> QED
      BY <2>2, <2>5, <2>6, SumConstant DEF n
  <2>8. share * n = n * share
    <3> HIDE DEF n, share
    <3> QED
      BY <2>3, <2>6
  <2>9. SumFunction(costs) = Total(costs, E)
    BY DEF SumFunction, Total
  <2>10. SumFunction(costs) <= lost /\ SumFunction(costs) > lost - n
    <3> HIDE DEF costs, share, E, lost, n
    <3> QED
      BY <2>6, <2>7, <2>8, <2>9
  <2> QED
    BY <2>10 DEF ApprovalCostsAddUp
<1> QED
  BY <1>1, ChargeInvariant, PTL

\* Where a trace has one execution and a failed transaction logs nothing, no trace is
\* reported both as an execution and as one that cannot be executed.
THEOREM Outcomes == ASSUME OneExecutionPerTrace PROVE Spec => []OneOutcome
<1>1. ChargeInv => OneOutcome
  <2> SUFFICES ASSUME ChargeInv,
                      NEW e \in EventsOf("MESSAGE_EXECUTED"), NEW c \in EventsOf("CANNOT_EXECUTE")
               PROVE  FALSE
    BY DEF OneOutcome
  <2>1. ListInv /\ ValueInv
    BY DEF ChargeInv, TraceInv, ParseInv
  <2>2. ExecuteInsufficientGas(trace)
    BY <2>1 DEF ValueInv, Sound, EventsOf
  <2> DEFINE i == TxOf(e)
             tx == Tx(i)
  <2>3. i \in DOMAIN trace /\ K(i) = "MessageExecuted"
    BY <2>1 DEF ValueInv, Sound, OfKind, EventsOf, TxOf
  <2>4. MessageExecuted(tx)
    <3>1. Matches("MessageExecuted", tx)
      BY <2>3, KindIsKnown DEF K
    <3> QED
      BY <3>1 DEF Matches
  <2>5. /\ tx.account = "gateway" /\ tx.op = "NULLIFIED_SUCCESSFULLY"
        /\ \E m \in DOMAIN tx.outs : is_log(tx.outs[m])
    BY <2>4 DEF MessageExecuted, is_log_emmitted_in_opcode
  <2>6. OneExecution(trace)
    BY <2>1 DEF OneExecutionPerTrace, ListInv
  <2> QED
    BY <2>2, <2>3, <2>5, <2>6 DEF OneExecution, Tx
<1> QED
  BY <1>1, ChargeInvariant, PTL

=============================================================================
