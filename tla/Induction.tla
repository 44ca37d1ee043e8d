------------------------------ MODULE Induction ------------------------------
(***************************************************************************)
(* Induction along the loops of the contracts, which the models write as   *)
(* functions of the number of steps done, induction over finite sets, and  *)
(* the lemmas on sums over finite sets that it gives: the models add up    *)
(* debts, stakes and collateral over the owners or the collaterals.  At    *)
(* the end, walks along links, and sequences with one element less or more.*)
(***************************************************************************)
EXTENDS Integers, Sequences, FiniteSets, Functions, FiniteSetTheorems, SequenceTheorems,
        WellFoundedInduction, TLAPS

\* Induction over 0..n for a set, from the well-foundedness of Nat.
LEMMA SetInduction ==
  ASSUME NEW n \in Nat, NEW T, 0 \in T,
         \A i \in 0..(n - 1) : i \in T => i + 1 \in T
  PROVE  0..n \subseteq T
<1> DEFINE B == (0..n) \ T
           R == {p \in Nat \X Nat : p[1] < p[2]}
<1>1. IsWellFoundedOn(R, Nat)
  BY NatLessThanWellFounded DEF OpToRel
<1>2. SUFFICES ASSUME B # {} PROVE FALSE
  OBVIOUS
<1>3. PICK x \in B : \A y \in B : ~(<<y, x>> \in R)
  <2>1. B \subseteq Nat
    OBVIOUS
  <2> HIDE DEF B, R
  <2> QED BY <1>1, <1>2, <2>1, WFMin
<1>4. x \in 0..n /\ x # 0 /\ x - 1 \in 0..(n-1)
  OBVIOUS
<1>5. <<x - 1, x>> \in R
  BY <1>4
<1>6. x - 1 \in T
  BY <1>3, <1>4, <1>5
<1> QED BY <1>4, <1>6

-----------------------------------------------------------------------------
(* Finite sets and sums.                                                   *)

\* What is in T for the empty set, and stays in T with one element more, is in
\* T for every subset of a finite set.
LEMMA SubsetInduction ==
  ASSUME NEW U, IsFiniteSet(U), NEW T, {} \in T,
         \A S \in SUBSET U, x \in U : S \in T /\ x \notin S => S \cup {x} \in T
  PROVE  SUBSET U \subseteq T
<1> DEFINE n == Cardinality(U)
           K == {k \in 0..n : \A S \in SUBSET U : Cardinality(S) = k => S \in T}
<1>1. n \in Nat /\ \A S \in SUBSET U : IsFiniteSet(S) /\ Cardinality(S) \in 0..n
  BY FS_CardinalityType, FS_Subset
<1>2. 0 \in K
  BY <1>1, FS_EmptySet
<1>3. ASSUME NEW k \in 0..(n - 1), k \in K
      PROVE  k + 1 \in K
  <2>1. ASSUME NEW S \in SUBSET U, Cardinality(S) = k + 1
        PROVE  S \in T
    <3>1. S # {} /\ IsFiniteSet(S)
      BY <1>1, <2>1, FS_EmptySet
    <3>2. PICK x \in S : TRUE
      BY <3>1
    <3>3. S \ {x} \in SUBSET U /\ Cardinality(S \ {x}) = k
      <4>1. Cardinality(S \ {x}) = Cardinality(S) - 1
        BY <3>1, <3>2, FS_RemoveElement
      <4> QED BY <1>1, <2>1, <4>1
    <3>4. S \ {x} \in T
      BY <1>3, <3>3
    <3>5. (S \ {x}) \cup {x} \in T
      BY <3>2, <3>3, <3>4
    <3>6. (S \ {x}) \cup {x} = S
      BY <3>2
    <3> QED BY <3>5, <3>6
  <2> QED BY <1>1, <2>1
<1> HIDE DEF K
<1>4. 0..n \subseteq K
  BY <1>1, <1>2, <1>3, SetInduction
<1> QED BY <1>1, <1>4 DEF K

-----------------------------------------------------------------------------
\* The function the fold of a sum recurs through: g is defined on the sets of D,
\* which holds with a set the set without its chosen element.
Chosen(s) == CHOOSE x \in s : TRUE
SumsUp(f, D, g) ==
  g = [s \in D |-> IF s = {} THEN 0 ELSE f[Chosen(s)] + g[s \ {Chosen(s)}]]

LEMMA SumUnfolds ==
  ASSUME NEW f, NEW S
  PROVE  SumFunctionOnSet(f, S) = (CHOOSE g : SumsUp(f, SUBSET S, g))[S]
BY DEF SumFunctionOnSet, FoldFunctionOnSet, MapThenFoldSet, SumsUp, Chosen

\* A collection of finite sets that holds the subsets of its members.
Closed(D) == \A s \in D : IsFiniteSet(s) /\ SUBSET s \subseteq D

LEMMA SumsUpStep ==
  ASSUME NEW f, NEW D, NEW g, SumsUp(f, D, g), Closed(D), NEW s \in D
  PROVE  /\ s = {} => g[s] = 0
         /\ s # {} => /\ Chosen(s) \in s /\ s \ {Chosen(s)} \in D
                      /\ g[s] = f[Chosen(s)] + g[s \ {Chosen(s)}]
<1>1. s # {} => Chosen(s) \in s
  BY DEF Chosen
<1>2. s \ {Chosen(s)} \in D
  BY DEF Closed
<1> HIDE DEF Chosen
<1> QED BY <1>1, <1>2 DEF SumsUp

\* Two such functions agree on the sets both are defined on.
LEMMA SumsUpOnce ==
  ASSUME NEW f, NEW D, NEW E, NEW g, NEW h, SumsUp(f, D, g), SumsUp(f, E, h),
         Closed(D), Closed(E), NEW U \in D \cap E
  PROVE  g[U] = h[U]
<1> DEFINE n == Cardinality(U)
           K == {k \in 0..n : \A s \in SUBSET U : Cardinality(s) <= k => g[s] = h[s]}
<1>1. IsFiniteSet(U) /\ SUBSET U \subseteq D \cap E
  BY DEF Closed
<1>2. n \in Nat /\ \A s \in SUBSET U : IsFiniteSet(s) /\ Cardinality(s) \in 0..n
  BY <1>1, FS_CardinalityType, FS_Subset
<1>3. 0 \in K
  <2>1. ASSUME NEW s \in SUBSET U, Cardinality(s) <= 0
        PROVE  g[s] = h[s]
    <3>1. s = {}
      BY <1>2, <2>1, FS_EmptySet
    <3>2. s \in D /\ s \in E
      BY <1>1
    <3>3. g[s] = 0
      BY <3>1, <3>2 DEF SumsUp
    <3>4. h[s] = 0
      BY <3>1, <3>2 DEF SumsUp
    <3> QED BY <3>3, <3>4
  <2> QED BY <1>2, <2>1
<1>4. ASSUME NEW k \in 0..(n - 1), k \in K
      PROVE  k + 1 \in K
  <2>1. ASSUME NEW s \in SUBSET U, Cardinality(s) <= k + 1
        PROVE  g[s] = h[s]
    <3> DEFINE x == Chosen(s)
    <3>1. s \in D /\ s \in E
      BY <1>1
    <3>2. CASE s = {}
      <4>1. g[s] = 0
        BY <3>1, <3>2, SumsUpStep
      <4>2. h[s] = 0
        BY <3>1, <3>2, SumsUpStep
      <4> QED BY <4>1, <4>2
    <3>3. CASE s # {}
      <4>1. x \in s /\ g[s] = f[x] + g[s \ {x}]
        BY <3>1, <3>3, SumsUpStep
      <4>2. h[s] = f[x] + h[s \ {x}]
        BY <3>1, <3>3, SumsUpStep
      <4> HIDE DEF x
      <4>3. Cardinality(s \ {x}) = Cardinality(s) - 1
        BY <1>2, <4>1, FS_RemoveElement
      <4>4. Cardinality(s \ {x}) <= k
        BY <1>2, <2>1, <4>3
      <4>5. g[s \ {x}] = h[s \ {x}]
        BY <1>4, <4>4
      <4> QED BY <4>1, <4>2, <4>5
    <3> QED BY <3>2, <3>3
  <2> QED BY <1>2, <2>1
<1> HIDE DEF K
<1>5. 0..n \subseteq K
  BY <1>2, <1>3, <1>4, SetInduction
<1> QED BY <1>2, <1>5 DEF K

\* There is such a function on the subsets of a finite set.
LEMMA SumsUpSomewhere ==
  ASSUME NEW f, NEW U, IsFiniteSet(U)
  PROVE  \E g : SumsUp(f, SUBSET U, g)
<1> DEFINE n == Cardinality(U)
           Level(k) == {s \in SUBSET U : Cardinality(s) <= k}
           K == {k \in 0..n : \E g : SumsUp(f, Level(k), g)}
<1>1. n \in Nat /\ \A s \in SUBSET U : IsFiniteSet(s) /\ Cardinality(s) \in 0..n
  BY FS_CardinalityType, FS_Subset
<1>2. 0 \in K
  <2> DEFINE g == [s \in Level(0) |-> 0]
  <2>1. \A s \in Level(0) : s = {}
    BY <1>1, FS_EmptySet
  <2>2. SumsUp(f, Level(0), g)
    BY <2>1 DEF SumsUp
  <2> HIDE DEF g, Level
  <2> QED BY <1>1, <2>2
<1>3. ASSUME NEW k \in 0..(n - 1), k \in K
      PROVE  k + 1 \in K
  <2>1. PICK g : SumsUp(f, Level(k), g)
    BY <1>3
  <2> DEFINE h == [s \in Level(k + 1) |->
                     IF s \in Level(k) THEN g[s] ELSE f[Chosen(s)] + g[s \ {Chosen(s)}]]
  <2>2. ASSUME NEW s \in Level(k + 1), s # {}
        PROVE  s \ {Chosen(s)} \in Level(k)
    <3>1. Chosen(s) \in s
      BY <2>2 DEF Chosen
    <3>2. IsFiniteSet(s) /\ Cardinality(s) \in 0..n /\ Cardinality(s) <= k + 1 /\ s \in SUBSET U
      BY <1>1
    <3>3. Cardinality(s \ {Chosen(s)}) = Cardinality(s) - 1
      BY <3>1, <3>2, FS_RemoveElement
    <3>4. Cardinality(s) - 1 <= k
      BY <1>1, <3>2
    <3> QED BY <3>2, <3>3, <3>4
  <2>3. Level(k) \subseteq Level(k + 1) /\ {} \in Level(k)
    BY <1>1, FS_EmptySet
  <2> HIDE DEF Level
  <2>4. \A s \in Level(k + 1) :
          h[s] = IF s = {} THEN 0 ELSE f[Chosen(s)] + h[s \ {Chosen(s)}]
    <3> TAKE s \in Level(k + 1)
    <3>1. CASE s = {}
      BY <2>1, <2>3, <3>1 DEF SumsUp
    <3>2. CASE s # {} /\ s \in Level(k)
      <4>1. h[s] = g[s] /\ h[s \ {Chosen(s)}] = g[s \ {Chosen(s)}]
        BY <2>2, <2>3, <3>2
      <4> QED BY <2>1, <3>2, <4>1 DEF SumsUp
    <3>3. CASE s # {} /\ s \notin Level(k)
      BY <2>2, <2>3, <3>3
    <3> QED BY <3>1, <3>2, <3>3
  <2>5. SumsUp(f, Level(k + 1), h)
    BY <2>4 DEF SumsUp
  <2> QED BY <1>1, <2>5
<1>4. n \in K
  <2> HIDE DEF K
  <2>1. 0..n \subseteq K
    BY <1>1, <1>2, <1>3, SetInduction
  <2> QED BY <1>1, <2>1
<1>5. Level(n) = SUBSET U
  BY <1>1
<1> QED BY <1>4, <1>5

LEMMA ClosedSubsets ==
  ASSUME NEW U, IsFiniteSet(U)
  PROVE  Closed(SUBSET U)
BY FS_Subset DEF Closed

\* The sum over a finite set is the value of such a function.
LEMMA SumIsSumsUp ==
  ASSUME NEW f, NEW U, IsFiniteSet(U), NEW g, SumsUp(f, SUBSET U, g), NEW S \in SUBSET U
  PROVE  SumFunctionOnSet(f, S) = g[S]
<1> DEFINE h == CHOOSE h : SumsUp(f, SUBSET S, h)
<1>1. IsFiniteSet(S)
  BY FS_Subset
<1>2. SumsUp(f, SUBSET S, h)
  BY <1>1, SumsUpSomewhere
<1>3. SumFunctionOnSet(f, S) = h[S]
  BY SumUnfolds
<1> HIDE DEF h
<1>4. S \in (SUBSET S) \cap (SUBSET U)
  OBVIOUS
<1> QED BY <1>1, <1>2, <1>3, <1>4, ClosedSubsets, SumsUpOnce

LEMMA SumOfNone ==
  ASSUME NEW f
  PROVE  SumFunctionOnSet(f, {}) = 0
<1>1. IsFiniteSet({}) /\ {} \in SUBSET {}
  BY FS_EmptySet
<1>2. PICK g : SumsUp(f, SUBSET {}, g)
  BY <1>1, SumsUpSomewhere
<1>3. SumFunctionOnSet(f, {}) = g[{}]
  BY <1>1, <1>2, SumIsSumsUp
<1>4. g[{}] = 0
  BY <1>2 DEF SumsUp
<1> QED BY <1>3, <1>4

\* Whichever element is taken first, the sum is the same.
LEMMA SumWithout ==
  ASSUME NEW U, IsFiniteSet(U), NEW f, \A x \in U : f[x] \in Int, NEW S \in SUBSET U
  PROVE  /\ SumFunctionOnSet(f, S) \in Int
         /\ \A x \in S : SumFunctionOnSet(f, S) = f[x] + SumFunctionOnSet(f, S \ {x})
<1>1. PICK g : SumsUp(f, SUBSET U, g)
  BY SumsUpSomewhere
<1>2. \A s \in SUBSET U : SumFunctionOnSet(f, s) = g[s]
  BY <1>1, SumIsSumsUp
<1> DEFINE n == Cardinality(U)
           Good(s) == g[s] \in Int /\ \A x \in s : g[s] = f[x] + g[s \ {x}]
           K == {k \in 0..n : \A s \in SUBSET U : Cardinality(s) <= k => Good(s)}
<1>3. n \in Nat /\ \A s \in SUBSET U : IsFiniteSet(s) /\ Cardinality(s) \in 0..n
  BY FS_CardinalityType, FS_Subset
<1>4. 0 \in K
  <2>1. ASSUME NEW s \in SUBSET U, Cardinality(s) <= 0
        PROVE  Good(s)
    <3>1. s = {}
      BY <1>3, <2>1, FS_EmptySet
    <3>2. g[s] = 0
      BY <1>1, <3>1 DEF SumsUp
    <3> QED BY <3>1, <3>2
  <2> HIDE DEF Good
  <2> QED BY <1>3, <2>1
<1>5. ASSUME NEW k \in 0..(n - 1), k \in K
      PROVE  k + 1 \in K
  <2>1. ASSUME NEW s \in SUBSET U, Cardinality(s) <= k + 1
        PROVE  Good(s)
    <3>1. CASE s = {}
      <4>1. g[s] = 0
        BY <1>1, <3>1 DEF SumsUp
      <4> QED BY <3>1, <4>1
    <3>2. CASE s # {}
      <4> DEFINE c == Chosen(s)
      <4>1. c \in s /\ s \ {c} \in SUBSET U /\ g[s] = f[c] + g[s \ {c}]
        <5> HIDE DEF K, Good
        <5>1. Closed(SUBSET U)
          BY ClosedSubsets
        <5> QED BY <1>1, <3>2, <5>1, SumsUpStep
      <4> HIDE DEF c
      <4>2. \A x \in s : s \ {x} \in SUBSET U /\ Cardinality(s \ {x}) <= k
        <5> TAKE x \in s
        <5>1. Cardinality(s \ {x}) = Cardinality(s) - 1
          BY <1>3, FS_RemoveElement
        <5> QED BY <1>3, <2>1, <5>1
      <4>3. \A x \in s : Good(s \ {x})
        <5> HIDE DEF Good
        <5> QED BY <1>5, <4>2
      <4>4. g[s] \in Int
        <5>1. g[s \ {c}] \in Int /\ f[c] \in Int
          BY <4>1, <4>3
        <5> QED BY <4>1, <5>1
      <4>5. ASSUME NEW x \in s
            PROVE  g[s] = f[x] + g[s \ {x}]
        <5>1. CASE x = c
          BY <4>1, <5>1
        <5>2. CASE x # c
          <6>1. g[s \ {c}] = f[x] + g[(s \ {c}) \ {x}]
            BY <4>1, <4>3, <5>2
          <6>2. g[s \ {x}] = f[c] + g[(s \ {x}) \ {c}]
            BY <4>1, <4>3, <5>2
          <6>3. (s \ {c}) \ {x} = (s \ {x}) \ {c}
            OBVIOUS
          <6> DEFINE r == g[(s \ {x}) \ {c}]
          <6>4. (s \ {x}) \ {c} \in SUBSET U /\ Cardinality((s \ {x}) \ {c}) <= k
            <7>1. IsFiniteSet(s \ {x}) /\ c \in s \ {x} /\ Cardinality(s \ {x}) <= k
                  /\ Cardinality(s \ {x}) \in Nat
              BY <1>3, <4>1, <4>2, <5>2
            <7>2. Cardinality((s \ {x}) \ {c}) = Cardinality(s \ {x}) - 1
              BY <7>1, FS_RemoveElement
            <7> QED BY <7>1, <7>2
          <6>5. r \in Int
            <7>1. Good((s \ {x}) \ {c})
              <8> HIDE DEF Good
              <8> QED BY <1>5, <6>4
            <7> QED BY <7>1
          <6> HIDE DEF r
          <6>6. f[x] \in Int /\ f[c] \in Int
            BY <4>1
          <6>7. g[s] = f[c] + (f[x] + r) /\ g[s \ {x}] = f[c] + r
            BY <4>1, <6>1, <6>2, <6>3 DEF r
          <6> QED BY <6>5, <6>6, <6>7
        <5> QED BY <5>1, <5>2
      <4> QED BY <4>4, <4>5
    <3> QED BY <3>1, <3>2
  <2> HIDE DEF Good
  <2> QED BY <1>3, <2>1
<1>6. Good(S)
  <2> HIDE DEF K
  <2>1. 0..n \subseteq K
    BY <1>3, <1>4, <1>5, SetInduction
  <2>2. n \in K
    BY <1>3, <2>1
  <2> HIDE DEF Good
  <2> QED BY <1>3, <2>2 DEF K
<1> QED BY <1>2, <1>6

\* What is added to a sum with one element more.
LEMMA SumWith ==
  ASSUME NEW U, IsFiniteSet(U), NEW f, \A x \in U : f[x] \in Int,
         NEW S \in SUBSET U, NEW x \in U, x \notin S
  PROVE  SumFunctionOnSet(f, S \cup {x}) = f[x] + SumFunctionOnSet(f, S)
<1>1. S \cup {x} \in SUBSET U /\ (S \cup {x}) \ {x} = S
  OBVIOUS
<1> QED BY <1>1, SumWithout

\* A sum of natural numbers is one, and no less than the sum over a part.
LEMMA SumOfNaturals ==
  ASSUME NEW U, IsFiniteSet(U), NEW f, \A x \in U : f[x] \in Nat, NEW S \in SUBSET U
  PROVE  SumFunctionOnSet(f, S) \in Nat
<1> DEFINE T == {s \in SUBSET U : SumFunctionOnSet(f, s) \in Nat}
<1>1. {} \in T
  BY SumOfNone
<1>2. ASSUME NEW s \in SUBSET U, NEW x \in U, s \in T, x \notin s
      PROVE  s \cup {x} \in T
  <2>1. SumFunctionOnSet(f, s \cup {x}) = f[x] + SumFunctionOnSet(f, s)
    BY <1>2, SumWith
  <2> QED BY <1>2, <2>1
<1> HIDE DEF T
<1>3. SUBSET U \subseteq T
  BY <1>1, <1>2, SubsetInduction
<1> QED BY <1>3 DEF T

\* The sum of the sums of two functions.
LEMMA SumOfSums ==
  ASSUME NEW U, IsFiniteSet(U), NEW f, NEW g, NEW h,
         \A x \in U : f[x] \in Int /\ g[x] \in Int /\ h[x] = f[x] + g[x]
  PROVE  SumFunctionOnSet(h, U) = SumFunctionOnSet(f, U) + SumFunctionOnSet(g, U)
<1> DEFINE T == {s \in SUBSET U : SumFunctionOnSet(h, s) =
                                   SumFunctionOnSet(f, s) + SumFunctionOnSet(g, s)}
<1>1. {} \in T
  BY SumOfNone
<1>2. ASSUME NEW s \in SUBSET U, NEW x \in U, s \in T, x \notin s
      PROVE  s \cup {x} \in T
  <2>1. /\ SumFunctionOnSet(f, s \cup {x}) = f[x] + SumFunctionOnSet(f, s)
        /\ SumFunctionOnSet(f, s) \in Int
    BY <1>2, SumWith, SumWithout
  <2>2. /\ SumFunctionOnSet(g, s \cup {x}) = g[x] + SumFunctionOnSet(g, s)
        /\ SumFunctionOnSet(g, s) \in Int
    BY <1>2, SumWith, SumWithout
  <2>3. SumFunctionOnSet(h, s \cup {x}) = h[x] + SumFunctionOnSet(h, s)
    <3>1. \A y \in U : h[y] \in Int
      OBVIOUS
    <3> HIDE DEF T
    <3> QED BY <1>2, <3>1, SumWith
  <2> QED BY <1>2, <2>1, <2>2, <2>3
<1> HIDE DEF T
<1>3. SUBSET U \subseteq T
  BY <1>1, <1>2, SubsetInduction
<1> QED BY <1>3 DEF T

LEMMA SumMonotone ==
  ASSUME NEW U, IsFiniteSet(U), NEW f, NEW g,
         \A x \in U : f[x] \in Int /\ g[x] \in Int /\ f[x] <= g[x]
  PROVE  SumFunctionOnSet(f, U) <= SumFunctionOnSet(g, U)
<1> DEFINE T == {s \in SUBSET U : SumFunctionOnSet(f, s) <= SumFunctionOnSet(g, s)}
<1>1. {} \in T
  BY SumOfNone
<1>2. ASSUME NEW s \in SUBSET U, NEW x \in U, s \in T, x \notin s
      PROVE  s \cup {x} \in T
  <2>1. /\ SumFunctionOnSet(f, s \cup {x}) = f[x] + SumFunctionOnSet(f, s)
        /\ SumFunctionOnSet(f, s) \in Int
    BY <1>2, SumWith, SumWithout
  <2>2. /\ SumFunctionOnSet(g, s \cup {x}) = g[x] + SumFunctionOnSet(g, s)
        /\ SumFunctionOnSet(g, s) \in Int
    BY <1>2, SumWith, SumWithout
  <2> QED BY <1>2, <2>1, <2>2
<1> HIDE DEF T
<1>3. SUBSET U \subseteq T
  BY <1>1, <1>2, SubsetInduction
<1> QED BY <1>3 DEF T

\* A sum depends on the values it adds up only.
LEMMA SumOfSame ==
  ASSUME NEW U, IsFiniteSet(U), NEW f, NEW g, \A x \in U : f[x] \in Int /\ g[x] = f[x]
  PROVE  SumFunctionOnSet(g, U) = SumFunctionOnSet(f, U)
<1>1. SumFunctionOnSet(f, U) <= SumFunctionOnSet(g, U)
  BY SumMonotone
<1>2. SumFunctionOnSet(g, U) <= SumFunctionOnSet(f, U)
  BY SumMonotone
<1>3. SumFunctionOnSet(f, U) \in Int
  BY SumWithout
<1>4. SumFunctionOnSet(g, U) \in Int
  BY SumWithout
<1> QED BY <1>1, <1>2, <1>3, <1>4

LEMMA SumScaled ==
  ASSUME NEW U, IsFiniteSet(U), NEW f, NEW g, NEW k \in Int,
         \A x \in U : f[x] \in Int /\ g[x] = k * f[x]
  PROVE  SumFunctionOnSet(g, U) = k * SumFunctionOnSet(f, U)
<1> DEFINE T == {s \in SUBSET U : SumFunctionOnSet(g, s) = k * SumFunctionOnSet(f, s)}
<1>1. {} \in T
  BY SumOfNone
<1>2. ASSUME NEW s \in SUBSET U, NEW x \in U, s \in T, x \notin s
      PROVE  s \cup {x} \in T
  <2>1. /\ SumFunctionOnSet(f, s \cup {x}) = f[x] + SumFunctionOnSet(f, s)
        /\ SumFunctionOnSet(f, s) \in Int /\ f[x] \in Int
    BY <1>2, SumWith, SumWithout
  <2>2. SumFunctionOnSet(g, s \cup {x}) = g[x] + SumFunctionOnSet(g, s)
    <3>1. \A y \in U : g[y] \in Int
      OBVIOUS
    <3> HIDE DEF T
    <3> QED BY <1>2, <3>1, SumWith
  <2>3. SumFunctionOnSet(g, s) = k * SumFunctionOnSet(f, s) /\ g[x] = k * f[x]
    BY <1>2
  <2>4. SumFunctionOnSet(g, s \cup {x}) = k * SumFunctionOnSet(f, s \cup {x})
    BY <2>1, <2>2, <2>3, Z3
  <2> QED BY <2>4
<1> HIDE DEF T
<1>3. SUBSET U \subseteq T
  BY <1>1, <1>2, SubsetInduction
<1> QED BY <1>3 DEF T

LEMMA SumOfZeros ==
  ASSUME NEW U, IsFiniteSet(U), NEW f, \A x \in U : f[x] = 0
  PROVE  SumFunctionOnSet(f, U) = 0
<1>1. \A x \in U : f[x] \in Int /\ f[x] = 0 * f[x]
  OBVIOUS
<1>2. SumFunctionOnSet(f, U) \in Int
  BY <1>1, SumWithout
<1>3. SumFunctionOnSet(f, U) = 0 * SumFunctionOnSet(f, U)
  BY <1>1, SumScaled
<1> QED BY <1>2, <1>3

\* The sums over a part and over the rest.
LEMMA SumSplit ==
  ASSUME NEW U, IsFiniteSet(U), NEW f, \A x \in U : f[x] \in Int, NEW C \in SUBSET U
  PROVE  SumFunctionOnSet(f, U) = SumFunctionOnSet(f, C) + SumFunctionOnSet(f, U \ C)
<1> DEFINE T == {s \in SUBSET U : SumFunctionOnSet(f, U) =
                                   SumFunctionOnSet(f, s) + SumFunctionOnSet(f, U \ s)}
<1>1. {} \in T
  <2>1. U \ {} = U /\ U \in SUBSET U
    OBVIOUS
  <2> QED BY <2>1, SumOfNone, SumWithout
<1>2. ASSUME NEW s \in SUBSET U, NEW x \in U, s \in T, x \notin s
      PROVE  s \cup {x} \in T
  <2>1. /\ SumFunctionOnSet(f, s \cup {x}) = f[x] + SumFunctionOnSet(f, s)
        /\ SumFunctionOnSet(f, s) \in Int /\ f[x] \in Int
    BY <1>2, SumWith, SumWithout
  <2>2. U \ s \in SUBSET U /\ U \ (s \cup {x}) = (U \ s) \ {x} /\ x \in U \ s
        /\ U \ (s \cup {x}) \in SUBSET U
    BY <1>2
  <2> HIDE DEF T
  <2>3. SumFunctionOnSet(f, U \ s) = f[x] + SumFunctionOnSet(f, U \ (s \cup {x}))
    BY <2>2, SumWithout
  <2>4. SumFunctionOnSet(f, U \ (s \cup {x})) \in Int
    BY <2>2, SumWithout
  <2> QED BY <1>2, <2>1, <2>3, <2>4 DEF T
<1> HIDE DEF T
<1>3. SUBSET U \subseteq T
  BY <1>1, <1>2, SubsetInduction
<1> QED BY <1>3 DEF T

\* How a sum moves when the values of a part are replaced.
LEMMA SumReplaced ==
  ASSUME NEW U, IsFiniteSet(U), NEW f, NEW g, NEW C \in SUBSET U,
         \A x \in U : f[x] \in Int /\ g[x] \in Int, \A x \in U \ C : g[x] = f[x]
  PROVE  SumFunctionOnSet(g, U) =
           SumFunctionOnSet(f, U) - SumFunctionOnSet(f, C) + SumFunctionOnSet(g, C)
<1>1. IsFiniteSet(U \ C) /\ U \ C \in SUBSET U /\ U \in SUBSET U
  BY FS_Subset
<1>2. SumFunctionOnSet(g, U \ C) = SumFunctionOnSet(f, U \ C)
  <2>1. \A x \in U \ C : f[x] \in Int /\ g[x] = f[x]
    OBVIOUS
  <2> QED BY <1>1, <2>1, SumOfSame
<1>3. /\ SumFunctionOnSet(f, U) = SumFunctionOnSet(f, C) + SumFunctionOnSet(f, U \ C)
      /\ SumFunctionOnSet(f, C) \in Int /\ SumFunctionOnSet(f, U \ C) \in Int
  BY <1>1, SumSplit, SumWithout
<1>4. /\ SumFunctionOnSet(g, U) = SumFunctionOnSet(g, C) + SumFunctionOnSet(g, U \ C)
      /\ SumFunctionOnSet(g, C) \in Int
  BY <1>1, SumSplit, SumWithout
<1> QED BY <1>2, <1>3, <1>4

LEMMA SumReplacedAt ==
  ASSUME NEW U, IsFiniteSet(U), NEW f, NEW g, NEW x \in U,
         \A y \in U : f[y] \in Int /\ g[y] \in Int, \A y \in U \ {x} : g[y] = f[y]
  PROVE  SumFunctionOnSet(g, U) = SumFunctionOnSet(f, U) - f[x] + g[x]
<1>1. {x} \in SUBSET U /\ {} \in SUBSET U /\ {} \cup {x} = {x} /\ x \notin {}
  OBVIOUS
<1>2. SumFunctionOnSet(f, {} \cup {x}) = f[x] + SumFunctionOnSet(f, {})
  BY <1>1, SumWith
<1>3. SumFunctionOnSet(g, {} \cup {x}) = g[x] + SumFunctionOnSet(g, {})
  BY <1>1, SumWith
<1>4. SumFunctionOnSet(f, {x}) = f[x] /\ SumFunctionOnSet(g, {x}) = g[x]
  BY <1>1, <1>2, <1>3, SumOfNone
<1> QED BY <1>1, <1>4, SumReplaced

LEMMA SumOfPart ==
  ASSUME NEW U, IsFiniteSet(U), NEW f, \A x \in U : f[x] \in Nat, NEW C \in SUBSET U
  PROVE  SumFunctionOnSet(f, C) <= SumFunctionOnSet(f, U)
<1>1. U \ C \in SUBSET U /\ \A x \in U : f[x] \in Int
  OBVIOUS
<1>2. SumFunctionOnSet(f, C) \in Nat
  BY SumOfNaturals
<1>3. SumFunctionOnSet(f, U \ C) \in Nat
  BY <1>1, SumOfNaturals
<1>4. SumFunctionOnSet(f, U) = SumFunctionOnSet(f, C) + SumFunctionOnSet(f, U \ C)
  BY <1>1, SumSplit
<1> QED BY <1>2, <1>3, <1>4

LEMMA SumHolds ==
  ASSUME NEW U, IsFiniteSet(U), NEW f, \A x \in U : f[x] \in Nat, NEW x \in U
  PROVE  f[x] <= SumFunctionOnSet(f, U)
<1>1. U \in SUBSET U /\ U \ {x} \in SUBSET U /\ \A y \in U : f[y] \in Int
  OBVIOUS
<1>2. SumFunctionOnSet(f, U) = f[x] + SumFunctionOnSet(f, U \ {x})
  BY <1>1, SumWithout
<1>3. SumFunctionOnSet(f, U \ {x}) \in Nat
  BY <1>1, SumOfNaturals
<1> QED BY <1>2, <1>3

-----------------------------------------------------------------------------
(* Walks along links: f on B, and elsewhere the value one step further.    *)

IsWalk(w, A, B, f, step) == w = [a \in A |-> IF a \in B THEN f[a] ELSE w[step[a]]]

\* A function that recurs along a step that brings down a rank exists.
LEMMA WalkExists ==
  ASSUME NEW A, NEW B, NEW f, NEW step, NEW n \in Nat, NEW rank,
         \A a \in A : rank[a] \in 0..n,
         \A a \in A : a \notin B => step[a] \in A /\ rank[step[a]] < rank[a]
  PROVE  \E w : IsWalk(w, A, B, f, step)
<1> DEFINE Next(w, a) == IF a \in B THEN f[a] ELSE w[step[a]]
           Upto(w, k) == \A a \in A : rank[a] < k => w[a] = Next(w, a)
           Walks(k) == \E w : Upto(w, k)
           T == {k \in 0..(n + 1) : Walks(k)}
<1>1. Walks(0)
  OBVIOUS
<1>2. ASSUME NEW k \in 0..n, Walks(k)
      PROVE  Walks(k + 1)
  <2>1. PICK w : Upto(w, k)
    BY <1>2
  <2> DEFINE v == [a \in A |-> Next(w, a)]
  <2>2. ASSUME NEW a \in A, rank[a] < k + 1
        PROVE  v[a] = Next(v, a)
    <3>1. CASE a \in B
      BY <3>1
    <3>2. CASE a \notin B
      <4>1. step[a] \in A /\ rank[step[a]] < k
        BY <2>2, <3>2
      <4>2. w[step[a]] = Next(w, step[a])
        BY <2>1, <4>1
      <4>3. v[step[a]] = Next(w, step[a])
        BY <4>1
      <4> QED BY <3>2, <4>2, <4>3
    <3> QED BY <3>1, <3>2
  <2>3. Upto(v, k + 1)
    <3> HIDE DEF v, Next
    <3> QED BY <2>2
  <2> QED BY <2>3
<1>3. Walks(n + 1)
  <2> HIDE DEF Walks
  <2>1. 0 \in T /\ \A k \in 0..n : k \in T => k + 1 \in T
    BY <1>1, <1>2
  <2>2. n + 1 \in Nat /\ (n + 1) - 1 = n
    OBVIOUS
  <2> HIDE DEF T
  <2>3. 0..(n + 1) \subseteq T
    BY <2>1, <2>2, SetInduction
  <2> QED BY <2>3 DEF T
<1>4. PICK w : Upto(w, n + 1)
  BY <1>3
<1> DEFINE v == [a \in A |-> w[a]]
<1>5. \A a \in A : w[a] = Next(w, a)
  BY <1>4
<1>6. ASSUME NEW a \in A
      PROVE  v[a] = Next(v, a)
  <2>1. a \notin B => v[step[a]] = w[step[a]]
    OBVIOUS
  <2> QED BY <1>5, <2>1
<1>7. v = [a \in A |-> Next(v, a)]
  <2> HIDE DEF Next
  <2> SUFFICES \A a \in A : v[a] = Next(v, a)
    OBVIOUS
  <2> QED BY <1>6
<1> QED BY <1>7 DEF IsWalk

\* Two readings along the same links agree.
LEMMA SameReading ==
  ASSUME NEW n \in Nat, NEW v, NEW w, n >= 1 => v[1] = w[1],
         \A k \in 1..n : k # 1 /\ v[k - 1] = w[k - 1] => v[k] = w[k]
  PROVE  \A k \in 1..n : v[k] = w[k]
<1> SUFFICES ASSUME n >= 1
             PROVE  \A k \in 1..n : v[k] = w[k]
  OBVIOUS
<1> DEFINE T == {j \in 0..(n - 1) : v[j + 1] = w[j + 1]}
<1>1. 0 \in T
  OBVIOUS
<1>2. ASSUME NEW j \in 0..((n - 1) - 1), j \in T
      PROVE  j + 1 \in T
  <2>1. (j + 1) + 1 \in 1..n /\ (j + 1) + 1 # 1 /\ ((j + 1) + 1) - 1 = j + 1
    OBVIOUS
  <2>2. v[((j + 1) + 1) - 1] = w[((j + 1) + 1) - 1]
    BY <1>2, <2>1
  <2>3. v[(j + 1) + 1] = w[(j + 1) + 1]
    BY <2>1, <2>2
  <2> QED BY <2>3
<1>3. n - 1 \in Nat
  OBVIOUS
<1> HIDE DEF T
<1>4. 0..(n - 1) \subseteq T
  BY <1>1, <1>2, <1>3, SetInduction
<1>5. ASSUME NEW k \in 1..n
      PROVE  v[k] = w[k]
  <2>1. k - 1 \in T /\ (k - 1) + 1 = k
    BY <1>4
  <2>2. v[(k - 1) + 1] = w[(k - 1) + 1]
    BY <2>1 DEF T
  <2> QED BY <2>1, <2>2
<1> QED BY <1>5

-----------------------------------------------------------------------------
(* Sequences with one element less or more.                                *)

\* Without the element at k, the ones after it move up.
LEMMA CutOut ==
  ASSUME NEW S, NEW l \in Seq(S), NEW k \in 1..Len(l),
         NEW m, m = SubSeq(l, 1, k - 1) \o SubSeq(l, k + 1, Len(l))
  PROVE  /\ m \in Seq(S)
         /\ Len(m) = Len(l) - 1
         /\ \A i \in 1..(Len(l) - 1) : m[i] = IF i < k THEN l[i] ELSE l[i + 1]
<1> DEFINE above == SubSeq(l, 1, k - 1)
           below == SubSeq(l, k + 1, Len(l))
<1>1. Len(l) \in Nat /\ \A i \in 1..Len(l) : l[i] \in S
  BY LenProperties
<1>2. /\ above \in Seq(S) /\ Len(above) = k - 1
      /\ \A i \in 1..(k - 1) : above[i] = l[i]
  BY <1>1, SubSeqProperties
<1>3. /\ below \in Seq(S) /\ Len(below) = Len(l) - k
      /\ \A i \in 1..(Len(l) - k) : below[i] = l[k + i]
  <2>1. /\ below \in Seq(S)
        /\ Len(below) = IF k + 1 <= Len(l) THEN Len(l) - (k + 1) + 1 ELSE 0
        /\ \A i \in 1..(Len(l) - (k + 1) + 1) : below[i] = l[(k + 1) + i - 1]
    BY <1>1, SubSeqProperties
  <2> HIDE DEF below
  <2>2. Len(below) = Len(l) - k
    <3>1. \A n \in Nat : \A j \in 1..n :
            (IF j + 1 <= n THEN n - (j + 1) + 1 ELSE 0) = n - j
      OBVIOUS
    <3> QED BY <1>1, <2>1, <3>1
  <2>3. ASSUME NEW i \in 1..(Len(l) - k)
        PROVE  below[i] = l[k + i]
    <3>1. (k + 1) + i - 1 = k + i /\ i \in 1..(Len(l) - (k + 1) + 1)
      BY <1>1
    <3> QED BY <2>1, <3>1
  <2> QED BY <2>1, <2>2, <2>3
<1> HIDE DEF above, below
<1>4. /\ above \o below \in Seq(S)
      /\ Len(above \o below) = Len(l) - 1
      /\ \A i \in 1..(Len(l) - 1) :
           (above \o below)[i] = IF i <= k - 1 THEN above[i] ELSE below[i - (k - 1)]
  <2>1. /\ above \o below \in Seq(S)
        /\ Len(above \o below) = Len(above) + Len(below)
        /\ \A i \in 1..(Len(above) + Len(below)) :
             (above \o below)[i] = IF i <= Len(above) THEN above[i] ELSE below[i - Len(above)]
    BY <1>2, <1>3, ConcatProperties
  <2>2. Len(above) + Len(below) = Len(l) - 1 /\ Len(above) = k - 1
    BY <1>1, <1>2, <1>3
  <2> QED BY <2>1, <2>2
<1>5. ASSUME NEW i \in 1..(Len(l) - 1)
      PROVE  (above \o below)[i] = IF i < k THEN l[i] ELSE l[i + 1]
  BY <1>1, <1>2, <1>3, <1>4
<1>6. m = above \o below
  BY DEF above, below
<1> QED BY <1>4, <1>5, <1>6

\* With e put in at k, the ones from there on move down.
IsPutIn(m, l, k, e) ==
  /\ Len(m) = Len(l) + 1
  /\ \A i \in 1..(Len(l) + 1) :
       m[i] = IF i < k THEN l[i] ELSE IF i = k THEN e ELSE l[i - 1]

LEMMA PutIn ==
  ASSUME NEW S, NEW l \in Seq(S), NEW e \in S, NEW k \in 1..(Len(l) + 1),
         NEW m, m = SubSeq(l, 1, k - 1) \o <<e>> \o SubSeq(l, k, Len(l))
  PROVE  m \in Seq(S) /\ IsPutIn(m, l, k, e)
<1> DEFINE above == SubSeq(l, 1, k - 1)
           below == SubSeq(l, k, Len(l))
           top == above \o <<e>>
<1>1. Len(l) \in Nat /\ \A i \in 1..Len(l) : l[i] \in S
  BY LenProperties
<1>2. /\ above \in Seq(S) /\ Len(above) = k - 1
      /\ \A i \in 1..(k - 1) : above[i] = l[i]
  BY <1>1, SubSeqProperties
<1>3. /\ below \in Seq(S) /\ Len(below) = Len(l) - k + 1
      /\ \A i \in 1..(Len(l) - k + 1) : below[i] = l[k + i - 1]
  BY <1>1, SubSeqProperties
<1> HIDE DEF above, below
<1>4. <<e>> \in Seq(S) /\ Len(<<e>>) = 1 /\ <<e>>[1] = e
  OBVIOUS
<1>5. /\ top \in Seq(S) /\ Len(top) = k
      /\ \A i \in 1..k : top[i] = IF i <= k - 1 THEN above[i] ELSE <<e>>[i - (k - 1)]
  BY <1>1, <1>2, <1>4, ConcatProperties
<1> HIDE DEF top
<1>6. /\ top \o below \in Seq(S)
      /\ Len(top \o below) = Len(l) + 1
      /\ \A i \in 1..(Len(l) + 1) :
           (top \o below)[i] = IF i <= k THEN top[i] ELSE below[i - k]
  BY <1>1, <1>3, <1>5, ConcatProperties
<1>7. ASSUME NEW i \in 1..(Len(l) + 1)
      PROVE  (top \o below)[i] = IF i < k THEN l[i] ELSE IF i = k THEN e ELSE l[i - 1]
  BY <1>1, <1>2, <1>3, <1>4, <1>5, <1>6
<1>8. m = top \o below
  BY DEF top, above, below
<1> QED BY <1>6, <1>7, <1>8 DEF IsPutIn
=============================================================================
