---------------------------- MODULE NumberLemmas ----------------------------
(***************************************************************************)
(* Facts about sets of numbers and finite sets that the proofs of several  *)
(* components use.                                                         *)
(***************************************************************************)
EXTENDS Naturals, FiniteSets, FiniteSetTheorems, WellFoundedInduction, TLAPS

\* A nonempty set of numbers has a least one.
LEMMA LeastNumber ==
    ASSUME NEW T, T \subseteq Nat, T # {}
    PROVE  \E x \in T : \A y \in T : x <= y
<1>1. \E x \in T : \A y \in T : ~(<<y, x>> \in OpToRel(<, Nat))
  BY NatLessThanWellFounded, WFMin
<1>2. \A x, y \in Nat : <<y, x>> \in OpToRel(<, Nat) <=> y < x
  BY DEF OpToRel
<1>3. PICK x \in T : \A y \in T : ~(<<y, x>> \in OpToRel(<, Nat))
  BY <1>1
<1>4. \A y \in T : ~(y < x)
  BY <1>2, <1>3
<1>. QED
  BY <1>4

\* A set that has zero, and with a number the next one, has all numbers.
LEMMA NumberInduction ==
    ASSUME NEW T, 0 \in T, \A n \in Nat : n \in T => n + 1 \in T
    PROVE  Nat \subseteq T
<1>. SUFFICES ASSUME Nat \ T # {}
              PROVE  FALSE
  OBVIOUS
<1>1. PICK x \in Nat \ T : \A y \in Nat \ T : x <= y
  BY LeastNumber
<1>2. x # 0 /\ x - 1 \in Nat /\ (x - 1) + 1 = x /\ ~(x <= x - 1)
  OBVIOUS
<1>3. x - 1 \in T
  BY <1>1, <1>2
<1>. QED
  BY <1>2, <1>3

\* A set of subsets of a finite set, with the empty one and closed under
\* adding an element, has the finite set, too.
LEMMA FiniteInduction ==
    ASSUME NEW S, IsFiniteSet(S), NEW F, {} \in F,
           \A U \in SUBSET S : \A x \in S \ U : U \in F => U \cup {x} \in F
    PROVE  S \in F
<1>. SUFFICES ASSUME S \notin F
              PROVE  FALSE
  OBVIOUS
<1>. DEFINE Sizes == {Cardinality(U) : U \in {V \in SUBSET S : V \notin F}}
<1>1. \A U \in SUBSET S : IsFiniteSet(U) /\ Cardinality(U) \in Nat
  BY FS_Subset, FS_CardinalityType
<1>2. Sizes \subseteq Nat /\ Sizes # {}
  BY <1>1
<1>3. PICK n \in Sizes : \A m \in Sizes : n <= m
  BY <1>2, LeastNumber
<1>4. PICK U \in SUBSET S : U \notin F /\ Cardinality(U) = n
  BY <1>3
<1>5. PICK x \in S : x \in U
  BY <1>4
<1>6. U \ {x} \in SUBSET S /\ x \in S \ (U \ {x}) /\ (U \ {x}) \cup {x} = U
  BY <1>5
<1>7. U \ {x} \notin F
  BY <1>4, <1>6
<1>8. Cardinality(U \ {x}) \in Sizes /\ Cardinality(U \ {x}) = Cardinality(U) - 1
  BY <1>1, <1>5, <1>6, <1>7, FS_RemoveElement
<1>9. Cardinality(U) \in Nat
  BY <1>1
<1>. HIDE DEF Sizes
<1>. QED
  BY <1>3, <1>4, <1>8, <1>9
=============================================================================
