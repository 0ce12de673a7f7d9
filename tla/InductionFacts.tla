--------------------------- MODULE InductionFacts ---------------------------
(***************************************************************************)
(* Induction over finite sets and over numbers, stated with sets in place   *)
(* of predicates: the induction theorems of the library take an operator,   *)
(* which a prover cannot instantiate, while the fact that strict inclusion  *)
(* of finite sets is well founded takes none.  Also, that an image of a     *)
(* finite set is finite.                                                   *)
(***************************************************************************)
EXTENDS Integers, FiniteSets, FiniteSetTheorems, TLAPS

\* A family of subsets of a finite set that has the empty set, and with a set
\* every set with one more element, has them all.
THEOREM FiniteSetInduction ==
    ASSUME NEW S, IsFiniteSet(S), NEW G \in SUBSET SUBSET S,
           {} \in G,
           \A T \in G, x \in S : T \cup {x} \in G
    PROVE  S \in G
  <1> SUFFICES ASSUME S \notin G PROVE FALSE
    OBVIOUS
  <1>1. PICK R : R = StrictSubsetOrdering(S)
    OBVIOUS
  <1>2. IsWellFoundedOn(R, SUBSET S)
    BY <1>1, FS_StrictSubsetOrderingWellFounded, FS_FiniteSubsetsOfFinite, ZenonT(30)
  <1> DEFINE Outside == (SUBSET S) \ G
  <1>3. Outside # {}
    OBVIOUS
  <1> HIDE DEF Outside
  <1>4. PICK T \in Outside : \A U \in Outside : <<U, T>> \notin R
    BY <1>2, <1>3, WFMin DEF Outside
  <1>5. PICK x \in T : TRUE
    BY DEF Outside
  <1>6. T \in SUBSET S /\ T \ {x} \in SUBSET S /\ T \ {x} # T /\ x \in S
    BY <1>5 DEF Outside
  <1>7. <<T \ {x}, T>> \in R
    BY <1>1, <1>6 DEF StrictSubsetOrdering
  <1>8. T \ {x} \in G
    BY <1>4, <1>6, <1>7 DEF Outside
  <1>9. (T \ {x}) \cup {x} \in G
    BY <1>6, <1>8
  <1>10. (T \ {x}) \cup {x} = T
    BY <1>5
  <1> QED
    BY <1>9, <1>10 DEF Outside

\* A family that has the empty set, and a set of which it has every set with one
\* element less, has every subset of a finite set.
LEMMA FiniteSetDescent ==
    ASSUME NEW S, IsFiniteSet(S), NEW G,
           {} \in G,
           \A T \in SUBSET S : T # {} /\ (\A x \in T : T \ {x} \in G) => T \in G
    PROVE  \A T \in SUBSET S : T \in G
  <1>1. PICK R : R = StrictSubsetOrdering(S) /\ IsWellFoundedOn(R, SUBSET S)
    <2>1. IsWellFoundedOn(StrictSubsetOrdering(S), FiniteSubsetsOf(S))
      BY FS_StrictSubsetOrderingWellFounded
    <2>2. FiniteSubsetsOf(S) = SUBSET S
      BY FS_FiniteSubsetsOfFinite
    <2> QED
      BY <2>1, <2>2
  <1>2. IsWellFoundedOn(R, SUBSET S)
    BY <1>1
  <1> SUFFICES ASSUME NEW U \in SUBSET S, U \notin G PROVE FALSE
    OBVIOUS
  <1> DEFINE Outside == (SUBSET S) \ G
  <1>3. Outside # {}
    OBVIOUS
  <1> HIDE DEF Outside
  <1>4. PICK T \in Outside : \A V \in Outside : <<V, T>> \notin R
    <2>1. Outside \subseteq SUBSET S
      BY DEF Outside
    <2> QED
      BY <1>2, <1>3, <2>1, WFMin
  <1>5. T \in SUBSET S /\ T \notin G
    BY DEF Outside
  <1>6. T # {}
    BY <1>5
  <1>7. ASSUME NEW x \in T PROVE T \ {x} \in G
    <2>1. T \ {x} \in SUBSET S /\ T \ {x} # T
      BY <1>5
    <2>2. <<T \ {x}, T>> \in R
      BY <1>1, <1>5, <2>1 DEF StrictSubsetOrdering
    <2> QED
      BY <1>4, <2>1, <2>2 DEF Outside
  <1> QED
    BY <1>5, <1>6, <1>7

\* A finite set of integers has a least and a greatest element.
LEMMA FiniteHasBounds ==
    ASSUME NEW S \in SUBSET Int, IsFiniteSet(S), S # {}
    PROVE  /\ \E m \in S : \A y \in S : m <= y
           /\ \E m \in S : \A y \in S : y <= m
  <1> DEFINE Low(T) == T # {} => \E m \in T : \A y \in T : m <= y
             High(T) == T # {} => \E m \in T : \A y \in T : y <= m
             G == {T \in SUBSET S : Low(T) /\ High(T)}
  <1>1. {} \in G
    OBVIOUS
  <1>2. ASSUME NEW T \in G, NEW x \in S PROVE T \cup {x} \in G
    <2> CASE T = {}
      OBVIOUS
    <2> CASE T # {}
      <3>1. PICK m \in T : \A y \in T : m <= y
        OBVIOUS
      <3>2. PICK n \in T : \A y \in T : y <= n
        OBVIOUS
      <3>3. Low(T \cup {x})
        <4>1. CASE m <= x
          BY <3>1, <4>1
        <4>2. CASE x < m
          BY <3>1, <4>2
        <4> QED
          BY <4>1, <4>2
      <3>4. High(T \cup {x})
        <4>1. CASE x <= n
          BY <3>2, <4>1
        <4>2. CASE n < x
          BY <3>2, <4>2
        <4> QED
          BY <4>1, <4>2
      <3> QED
        BY <3>3, <3>4
    <2> QED
      OBVIOUS
  <1> HIDE DEF G
  <1>3. G \in SUBSET SUBSET S
    BY DEF G
  <1>4. S \in G
    BY <1>1, <1>2, <1>3, FiniteSetInduction
  <1> QED
    BY <1>4 DEF G

\* What a function makes of a finite set is finite.
LEMMA FiniteImage ==
    ASSUME NEW S, IsFiniteSet(S), NEW f
    PROVE  IsFiniteSet({f[x] : x \in S})
  <1> DEFINE g == [x \in S |-> f[x]]
             T == {f[x] : x \in S}
  <1>1. g \in [S -> T] /\ \A y \in T : \E x \in S : g[x] = y
    OBVIOUS
  <1>2. g \in Surjection(S, T)
    BY <1>1 DEF Surjection
  <1> QED
    BY <1>2, FS_Surjection

\* A set of naturals that is not empty has a least element.
LEMMA LeastNatural ==
    ASSUME NEW S \in SUBSET Nat, S # {}
    PROVE  \E m \in S : \A y \in S : m <= y
  <1>1. PICK n \in S : TRUE
    OBVIOUS
  <1>2. PICK T : T = S \cap (0..n)
    OBVIOUS
  <1>3. IsFiniteSet(T) /\ T \in SUBSET Int /\ T # {}
    <2>1. 0 \in Int /\ n \in Int /\ T \in SUBSET (0..n)
      BY <1>2
    <2>2. IsFiniteSet(0..n)
      BY <2>1, FS_Interval
    <2>3. IsFiniteSet(T)
      BY <2>1, <2>2, FS_Subset
    <2> QED
      BY <1>1, <1>2, <2>3
  <1>4. PICK m \in T : \A y \in T : m <= y
    BY <1>3, FiniteHasBounds
  <1> QED
    BY <1>1, <1>2, <1>4

\* A set that has 0, and with a number the next one, has all numbers.
LEMMA NumberInduction ==
    ASSUME NEW S, 0 \in S, \A n \in Nat : n \in S => n + 1 \in S
    PROVE  Nat \subseteq S
  <1> SUFFICES ASSUME Nat \ S # {} PROVE FALSE
    OBVIOUS
  <1>1. PICK x \in Nat \ S : \A y \in Nat \ S : x <= y
    BY LeastNatural
  <1>2. x - 1 \in Nat /\ x - 1 \in S
    BY <1>1
  <1> QED
    BY <1>1, <1>2
=============================================================================
