------------------------------ MODULE SumFacts ------------------------------
(***************************************************************************)
(* Facts about SumFunctionOnSet, the sum of a function over a finite set   *)
(* that Ordering, Catalog and Mail add quantities, quotas and tries with.  *)
(*                                                                         *)
(* The library's induction theorems cannot be instantiated, so induction   *)
(* over a finite set is stated here for a set of subsets; it follows from  *)
(* the fact that strict inclusion is well-founded.                         *)
(***************************************************************************)
EXTENDS Integers, FiniteSets, Functions, FiniteSetTheorems, TLAPS

LEMMA SubsetInduction ==
  ASSUME NEW S, IsFiniteSet(S), NEW G,
         \A T \in SUBSET S : (\A x \in T : T \ {x} \in G) => T \in G
  PROVE  \A T \in SUBSET S : T \in G
<1> DEFINE Bad == {T \in SUBSET S : T \notin G}
<1> SUFFICES ASSUME Bad # {} PROVE FALSE
  OBVIOUS
<1>1. IsWellFoundedOn(StrictSubsetOrdering(S), SUBSET S)
  <2>1. FiniteSubsetsOf(S) = SUBSET S
    BY FS_FiniteSubsetsOfFinite
  <2>2. IsWellFoundedOn(StrictSubsetOrdering(S), FiniteSubsetsOf(S))
    BY FS_StrictSubsetOrderingWellFounded
  <2> QED
    BY <2>1, <2>2
<1>2. PICK T \in Bad : \A U \in Bad : ~ (<<U, T>> \in StrictSubsetOrdering(S))
  <2>1. Bad \subseteq SUBSET S
    OBVIOUS
  <2> QED
    BY <1>1, <2>1, WFMin
<1>3. PICK x \in T : T \ {x} \notin G
  OBVIOUS
<1>4. T \ {x} \in Bad
  BY <1>3
<1>5. <<T \ {x}, T>> \in StrictSubsetOrdering(S)
  BY <1>3 DEF StrictSubsetOrdering
<1> QED
  BY <1>2, <1>4, <1>5

-----------------------------------------------------------------------------
(* The recursive function behind the sum. *)

\* sums[s] is the sum over s, for every s \subseteq S.
Sums(f, S, sums) ==
  sums = [s \in SUBSET S |-> IF s = {} THEN 0
                             ELSE LET x == CHOOSE x \in s : TRUE
                                  IN  f[x] + sums[s \ {x}]]

Chosen(s) == CHOOSE x \in s : TRUE

Adds(f, sums, s) ==
  /\ s = {} => sums[s] = 0
  /\ s # {} => Chosen(s) \in s /\ sums[s] = f[Chosen(s)] + sums[s \ {Chosen(s)}]

LEMMA SumsStep ==
  ASSUME NEW f, NEW S, NEW sums, Sums(f, S, sums)
  PROVE  \A s \in SUBSET S : Adds(f, sums, s)
<1> TAKE s \in SUBSET S
<1>1. sums[s] = IF s = {} THEN 0
                ELSE LET x == CHOOSE x \in s : TRUE IN f[x] + sums[s \ {x}]
  BY DEF Sums
<1> QED
  BY <1>1 DEF Adds, Chosen

\* The sum over a set depends on nothing but the values on it.
LEMMA SumsAgree ==
  ASSUME NEW S, IsFiniteSet(S), NEW U, NEW V, S \subseteq U, S \subseteq V,
         NEW f, NEW g, \A x \in S : f[x] = g[x],
         NEW a, NEW b, Sums(f, U, a), Sums(g, V, b)
  PROVE  a[S] = b[S]
<1> DEFINE G == {T \in SUBSET S : a[T] = b[T]}
<1>a. \A T \in SUBSET U : Adds(f, a, T)
  BY SumsStep
<1>b. \A T \in SUBSET V : Adds(g, b, T)
  BY SumsStep
<1>1. ASSUME NEW T \in SUBSET S, \A x \in T : T \ {x} \in G
      PROVE  T \in G
  <2>0. T \in SUBSET U /\ T \in SUBSET V
    OBVIOUS
  <2>1. CASE T = {}
    <3>1. a[T] = 0
      BY <1>a, <2>0, <2>1 DEF Adds
    <3>2. b[T] = 0
      BY <1>b, <2>0, <2>1 DEF Adds
    <3> QED
      BY <3>1, <3>2
  <2>2. CASE T # {}
    <3>1. Chosen(T) \in T /\ a[T] = f[Chosen(T)] + a[T \ {Chosen(T)}]
      BY <1>a, <2>0, <2>2 DEF Adds
    <3>2. b[T] = g[Chosen(T)] + b[T \ {Chosen(T)}]
      BY <1>b, <2>0, <2>2 DEF Adds
    <3> QED
      BY <1>1, <3>1, <3>2
  <2> QED
    BY <2>1, <2>2
<1> HIDE DEF G
<1>2. \A T \in SUBSET S : T \in G
  BY <1>1, SubsetInduction
<1>3. S \in SUBSET S
  OBVIOUS
<1> QED
  BY <1>2, <1>3 DEF G

LEMMA SumsExist ==
  ASSUME NEW S, IsFiniteSet(S), NEW f
  PROVE  \E sums : Sums(f, S, sums)
<1> DEFINE G == {T \in SUBSET S : \A U \in SUBSET T : \E sums : Sums(f, U, sums)}
<1>1. ASSUME NEW T \in SUBSET S, \A x \in T : T \ {x} \in G
      PROVE  T \in G
  <2> DEFINE of(U) == CHOOSE sums : Sums(f, U, sums)
             step(s) == IF s = {} THEN 0
                        ELSE LET x == CHOOSE x \in s : TRUE IN f[x] + of(s \ {x})[s \ {x}]
             sums == [s \in SUBSET T |-> step(s)]
  <2>1. ASSUME NEW U \in SUBSET T, U # T
        PROVE  Sums(f, U, of(U))
    <3>1. PICK x \in T : U \subseteq T \ {x}
      BY <2>1
    <3>2. \E it : Sums(f, U, it)
      BY <1>1, <3>1
    <3> QED
      BY <3>2
  <2>2. ASSUME NEW U \in SUBSET T, U # T
        PROVE  of(U)[U] = step(U)
    <3>0. Adds(f, of(U), U)
      <4>1. Sums(f, U, of(U)) /\ U \in SUBSET U
        BY <2>1, <2>2
      <4> HIDE DEF of
      <4> QED
        BY <4>1, SumsStep
    <3>1. CASE U = {}
      BY <3>0, <3>1 DEF Adds
    <3>2. CASE U # {}
      <4> DEFINE x == CHOOSE x \in U : TRUE
      <4>1. x \in U /\ of(U)[U] = f[x] + of(U)[U \ {x}]
        BY <3>0, <3>2 DEF Adds, Chosen
      <4>2. of(U)[U \ {x}] = of(U \ {x})[U \ {x}]
        <5>1. IsFiniteSet(U \ {x})
          BY FS_Subset
        <5>2. Sums(f, U, of(U)) /\ Sums(f, U \ {x}, of(U \ {x}))
          BY <2>1, <2>2, <4>1
        <5> HIDE DEF of, x
        <5> QED
          BY <5>1, <5>2, SumsAgree
      <4> QED
        BY <3>2, <4>1, <4>2
    <3> QED
      BY <3>1, <3>2
  <2>3. ASSUME NEW s \in SUBSET T
        PROVE  step(s) = IF s = {} THEN 0
                         ELSE LET x == CHOOSE x \in s : TRUE IN f[x] + sums[s \ {x}]
    <3>1. CASE s = {}
      BY <3>1
    <3>2. CASE s # {}
      <4> DEFINE x == CHOOSE x \in s : TRUE
      <4>1. x \in s
        BY <3>2
      <4>2. sums[s \ {x}] = of(s \ {x})[s \ {x}]
        <5>1. s \ {x} \in SUBSET T /\ s \ {x} # T
          BY <4>1
        <5>2. of(s \ {x})[s \ {x}] = step(s \ {x})
          BY <2>2, <5>1
        <5>3. sums[s \ {x}] = step(s \ {x})
          <6> HIDE DEF step
          <6> QED
            BY <5>1
        <5> QED
          BY <5>2, <5>3
      <4> QED
        BY <3>2, <4>2
    <3> QED
      BY <3>1, <3>2
  <2>4. Sums(f, T, sums)
    <3> HIDE DEF step
    <3>1. \A s \in SUBSET T :
            step(s) = IF s = {} THEN 0
                      ELSE LET x == CHOOSE x \in s : TRUE IN f[x] + sums[s \ {x}]
      BY <2>3
    <3> QED
      BY <3>1 DEF Sums
  <2>5. ASSUME NEW U \in SUBSET T PROVE \E it : Sums(f, U, it)
    BY <2>1, <2>4, <2>5
  <2> QED
    BY <2>5
<1> HIDE DEF G
<1>2. \A T \in SUBSET S : T \in G
  BY <1>1, SubsetInduction
<1>3. S \in SUBSET S
  OBVIOUS
<1> QED
  BY <1>2, <1>3 DEF G

LEMMA SumIsSums ==
  ASSUME NEW S, IsFiniteSet(S), NEW f
  PROVE  \E sums : Sums(f, S, sums) /\ SumFunctionOnSet(f, S) = sums[S]
<1> DEFINE sums == CHOOSE it : Sums(f, S, it)
<1>1. Sums(f, S, sums)
  BY SumsExist
<1>2. SumFunctionOnSet(f, S) = sums[S]
  BY DEF Sums, SumFunctionOnSet, FoldFunctionOnSet, MapThenFoldSet
<1> HIDE DEF sums
<1> QED
  BY <1>1, <1>2

-----------------------------------------------------------------------------
(* The facts the proofs cite. *)

LEMMA SumSame ==
  ASSUME NEW S, IsFiniteSet(S), NEW f, NEW g, \A x \in S : f[x] = g[x]
  PROVE  SumFunctionOnSet(f, S) = SumFunctionOnSet(g, S)
BY SumIsSums, SumsAgree

LEMMA SumEmpty ==
  ASSUME NEW f
  PROVE  SumFunctionOnSet(f, {}) = 0
<1>1. PICK a : Sums(f, {}, a) /\ SumFunctionOnSet(f, {}) = a[{}]
  BY FS_EmptySet, SumIsSums
<1>2. Adds(f, a, {})
  BY <1>1, SumsStep
<1> QED
  BY <1>1, <1>2 DEF Adds

\* The element the definition adds first.
LEMMA SumChosen ==
  ASSUME NEW S, IsFiniteSet(S), S # {}, NEW f
  PROVE  /\ Chosen(S) \in S
         /\ SumFunctionOnSet(f, S)
              = f[Chosen(S)] + SumFunctionOnSet(f, S \ {Chosen(S)})
<1>1. PICK a : Sums(f, S, a) /\ SumFunctionOnSet(f, S) = a[S]
  BY SumIsSums
<1> DEFINE R == S \ {Chosen(S)}
<1>2. IsFiniteSet(R)
  BY FS_Subset
<1>3. PICK b : Sums(f, R, b) /\ SumFunctionOnSet(f, R) = b[R]
  BY <1>2, SumIsSums
<1>4. a[R] = b[R]
  BY <1>1, <1>2, <1>3, SumsAgree
<1>5. Adds(f, a, S)
  BY <1>1, SumsStep
<1> QED
  BY <1>1, <1>3, <1>4, <1>5 DEF Adds

LEMMA SumType ==
  ASSUME NEW S, IsFiniteSet(S), NEW f, \A x \in S : f[x] \in Nat
  PROVE  SumFunctionOnSet(f, S) \in Nat
<1> DEFINE G == {T \in SUBSET S : SumFunctionOnSet(f, T) \in Nat}
<1>1. ASSUME NEW T \in SUBSET S, \A x \in T : T \ {x} \in G
      PROVE  T \in G
  <2>1. IsFiniteSet(T)
    BY FS_Subset
  <2>2. CASE T = {}
    BY <2>2, SumEmpty
  <2>3. CASE T # {}
    <3>1. /\ Chosen(T) \in T
          /\ SumFunctionOnSet(f, T) = f[Chosen(T)] + SumFunctionOnSet(f, T \ {Chosen(T)})
      BY <2>1, <2>3, SumChosen
    <3> QED
      BY <1>1, <3>1
  <2> QED
    BY <2>2, <2>3
<1> HIDE DEF G
<1>2. \A T \in SUBSET S : T \in G
  BY <1>1, SubsetInduction
<1>3. S \in SUBSET S
  OBVIOUS
<1> QED
  BY <1>2, <1>3 DEF G

\* Any element may be added first.
LEMMA SumRemove ==
  ASSUME NEW S, IsFiniteSet(S), NEW f, \A x \in S : f[x] \in Nat, NEW x \in S
  PROVE  SumFunctionOnSet(f, S) = f[x] + SumFunctionOnSet(f, S \ {x})
<1> DEFINE G == {T \in SUBSET S :
                   \A y \in T : SumFunctionOnSet(f, T) = f[y] + SumFunctionOnSet(f, T \ {y})}
<1>1. ASSUME NEW T \in SUBSET S, \A y \in T : T \ {y} \in G
      PROVE  T \in G
  <2> SUFFICES ASSUME NEW y \in T
               PROVE  SumFunctionOnSet(f, T) = f[y] + SumFunctionOnSet(f, T \ {y})
    OBVIOUS
  <2> DEFINE c == Chosen(T)
             rest == (T \ {c}) \ {y}
  <2>1. IsFiniteSet(T) /\ IsFiniteSet(T \ {c}) /\ IsFiniteSet(T \ {y}) /\ IsFiniteSet(rest)
    BY FS_Subset
  <2>2. c \in T /\ SumFunctionOnSet(f, T) = f[c] + SumFunctionOnSet(f, T \ {c})
    BY <2>1, SumChosen
  <2>3. CASE y = c
    BY <2>2, <2>3
  <2>4. CASE y # c
    <3> HIDE DEF c
    <3>1. SumFunctionOnSet(f, T \ {c}) = f[y] + SumFunctionOnSet(f, rest)
      BY <1>1, <2>2, <2>4
    <3>2. SumFunctionOnSet(f, T \ {y}) = f[c] + SumFunctionOnSet(f, rest)
      <4>1. (T \ {y}) \ {c} = rest
        OBVIOUS
      <4> QED
        BY <1>1, <2>2, <2>4, <4>1
    <3>3. f[y] \in Nat /\ f[c] \in Nat /\ SumFunctionOnSet(f, rest) \in Nat
      BY <2>1, <2>2, SumType
    <3> HIDE DEF rest
    <3> QED
      BY <2>2, <3>1, <3>2, <3>3
  <2> QED
    BY <2>3, <2>4
<1> HIDE DEF G
<1>2. \A T \in SUBSET S : T \in G
  BY <1>1, SubsetInduction
<1>3. S \in SUBSET S
  OBVIOUS
<1> QED
  BY <1>2, <1>3 DEF G

\* The sum grows with the set.
LEMMA SumSubset ==
  ASSUME NEW S, IsFiniteSet(S), NEW f, \A x \in S : f[x] \in Nat, NEW R \in SUBSET S
  PROVE  SumFunctionOnSet(f, R) <= SumFunctionOnSet(f, S)
<1> DEFINE G == {T \in SUBSET S : R \subseteq T =>
                                  SumFunctionOnSet(f, R) <= SumFunctionOnSet(f, T)}
<1>1. ASSUME NEW T \in SUBSET S, \A x \in T : T \ {x} \in G
      PROVE  T \in G
  <2> SUFFICES ASSUME R \subseteq T
               PROVE  SumFunctionOnSet(f, R) <= SumFunctionOnSet(f, T)
    OBVIOUS
  <2>1. IsFiniteSet(T) /\ IsFiniteSet(R)
    BY FS_Subset
  <2>2. SumFunctionOnSet(f, R) \in Nat /\ SumFunctionOnSet(f, T) \in Nat
    BY <2>1, SumType
  <2>3. CASE R = T
    BY <2>2, <2>3
  <2>4. CASE R # T
    <3>1. PICK x \in T : x \notin R
      BY <2>4
    <3>2. IsFiniteSet(T \ {x})
      BY <2>1, FS_Subset
    <3>3. SumFunctionOnSet(f, T \ {x}) \in Nat /\ f[x] \in Nat
      BY <3>2, SumType
    <3>4. SumFunctionOnSet(f, R) <= SumFunctionOnSet(f, T \ {x})
      BY <1>1, <3>1
    <3>5. SumFunctionOnSet(f, T) = f[x] + SumFunctionOnSet(f, T \ {x})
      BY <2>1, SumRemove
    <3> QED
      BY <2>2, <3>3, <3>4, <3>5
  <2> QED
    BY <2>3, <2>4
<1> HIDE DEF G
<1>2. \A T \in SUBSET S : T \in G
  BY <1>1, SubsetInduction
<1>3. S \in SUBSET S
  OBVIOUS
<1> QED
  BY <1>2, <1>3 DEF G

\* A sum changes with the one value that changes.
LEMMA SumMoves ==
  ASSUME NEW S, IsFiniteSet(S), NEW f, NEW g, NEW t \in S,
         \A x \in S : f[x] \in Nat /\ g[x] \in Nat,
         \A x \in S \ {t} : f[x] = g[x]
  PROVE  /\ SumFunctionOnSet(f, S) \in Nat /\ SumFunctionOnSet(g, S) \in Nat
         /\ SumFunctionOnSet(g, S) + f[t] = SumFunctionOnSet(f, S) + g[t]
<1>1. IsFiniteSet(S \ {t})
  BY FS_Subset
<1>2. SumFunctionOnSet(f, S \ {t}) = SumFunctionOnSet(g, S \ {t})
  BY <1>1, SumSame
<1>3. SumFunctionOnSet(f, S \ {t}) \in Nat /\ SumFunctionOnSet(g, S \ {t}) \in Nat
  BY <1>1, SumType
<1>4. /\ SumFunctionOnSet(f, S) = f[t] + SumFunctionOnSet(f, S \ {t})
      /\ SumFunctionOnSet(g, S) = g[t] + SumFunctionOnSet(g, S \ {t})
  BY SumRemove
<1> QED
  BY <1>2, <1>3, <1>4

\* Values that are larger by at most one add at most the size of the set.
LEMMA SumAtMost ==
  ASSUME NEW S, IsFiniteSet(S), NEW f, NEW g,
         \A x \in S : f[x] \in Nat /\ g[x] \in Nat /\ g[x] <= f[x] + 1
  PROVE  SumFunctionOnSet(g, S) <= SumFunctionOnSet(f, S) + Cardinality(S)
<1> DEFINE G == {T \in SUBSET S :
                   SumFunctionOnSet(g, T) <= SumFunctionOnSet(f, T) + Cardinality(T)}
<1>1. ASSUME NEW T \in SUBSET S, \A x \in T : T \ {x} \in G
      PROVE  T \in G
  <2>1. IsFiniteSet(T)
    BY FS_Subset
  <2>2. CASE T = {}
    <3>1. SumFunctionOnSet(g, T) = 0 /\ SumFunctionOnSet(f, T) = 0
      BY <2>2, SumEmpty
    <3>2. Cardinality(T) = 0
      BY <2>2, FS_EmptySet
    <3> QED
      BY <3>1, <3>2
  <2>3. CASE T # {}
    <3>1. PICK x \in T : TRUE
      BY <2>3
    <3>2. IsFiniteSet(T \ {x}) /\ Cardinality(T \ {x}) = Cardinality(T) - 1
      BY <2>1, <3>1, FS_RemoveElement
    <3>3. Cardinality(T) \in Nat
      BY <2>1, FS_CardinalityType
    <3>4. /\ SumFunctionOnSet(f, T \ {x}) \in Nat
          /\ SumFunctionOnSet(g, T \ {x}) \in Nat
      BY <3>2, SumType
    <3>5. /\ SumFunctionOnSet(f, T) = f[x] + SumFunctionOnSet(f, T \ {x})
          /\ SumFunctionOnSet(g, T) = g[x] + SumFunctionOnSet(g, T \ {x})
      BY <2>1, SumRemove
    <3>6. SumFunctionOnSet(g, T \ {x})
            <= SumFunctionOnSet(f, T \ {x}) + Cardinality(T \ {x})
      BY <1>1
    <3>7. f[x] \in Nat /\ g[x] \in Nat /\ g[x] <= f[x] + 1
      OBVIOUS
    <3> QED
      BY <3>2, <3>3, <3>4, <3>5, <3>6, <3>7
  <2> QED
    BY <2>2, <2>3
<1>2. \A T \in SUBSET S : T \in G
  <2> HIDE DEF G
  <2> QED
    BY <1>1, SubsetInduction
<1> QED
  BY <1>2
=============================================================================
