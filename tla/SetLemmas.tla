----------------------------- MODULE SetLemmas -----------------------------
(* Induction over the subsets of a finite set, and from it what the proofs  *)
(* of the other modules use about sums over a finite set.                   *)
EXTENDS Integers, FiniteSets, Functions, FiniteSetTheorems, TLAPS

\* A collection that has every subset of S whose smaller subsets it has has
\* all subsets of S, when S is finite.
LEMMA SetInduction ==
  ASSUME NEW S, IsFiniteSet(S), NEW B,
         \A T \in SUBSET S : (\A U \in SUBSET T : U # T => U \in B) => T \in B
  PROVE  \A T \in SUBSET S : T \in B
<1> DEFINE Bad == {T \in SUBSET S : T \notin B}
<1> SUFFICES ASSUME Bad # {} PROVE FALSE
  OBVIOUS
<1>1. IsWellFoundedOn(StrictSubsetOrdering(S), SUBSET S)
  <2>1. IsWellFoundedOn(StrictSubsetOrdering(S), FiniteSubsetsOf(S))
    BY FS_StrictSubsetOrderingWellFounded
  <2>2. FiniteSubsetsOf(S) = SUBSET S
    BY FS_FiniteSubsetsOfFinite
  <2> QED
    BY <2>1, <2>2
<1>2. PICK T \in Bad : \A U \in Bad : <<U, T>> \notin StrictSubsetOrdering(S)
  <2> HIDE DEF Bad
  <2>1. Bad \subseteq SUBSET S
    BY DEF Bad
  <2> QED
    BY <1>1, <2>1, WFMin
<1>3. \A U \in SUBSET T : U # T => U \in B
  BY <1>2 DEF StrictSubsetOrdering
<1> QED
  BY <1>2, <1>3

\* Some element of a finite set of numbers is the greatest.
LEMMA GreatestElement ==
  ASSUME NEW S, IsFiniteSet(S), S \subseteq Int, S # {}
  PROVE  \E m \in S : \A x \in S : x <= m
<1> DEFINE B == {T \in SUBSET S : T # {} => \E m \in T : \A x \in T : x <= m}
<1>1. ASSUME NEW T \in SUBSET S, \A U \in SUBSET T : U # T => U \in B
      PROVE  T \in B
  <2> SUFFICES ASSUME NEW y \in T PROVE \E m \in T : \A x \in T : x <= m
    OBVIOUS
  <2> DEFINE R == T \ {y}
  <2>1. R \in B
    BY <1>1
  <2>2. CASE R = {}
    BY <2>2
  <2>3. CASE R # {}
    <3>1. PICK m \in R : \A x \in R : x <= m
      BY <2>1, <2>3
    <3>2. CASE y <= m
      BY <3>1, <3>2
    <3>3. CASE ~(y <= m)
      <4>1. \A x \in T : x <= y
        BY <3>1, <3>3
      <4> QED
        BY <4>1
    <3> QED
      BY <3>2, <3>3
  <2> QED
    BY <2>2, <2>3
<1> HIDE DEF B
<1>2. \A T \in SUBSET S : T \in B
  BY <1>1, SetInduction
<1> QED
  BY <1>2 DEF B

\* Some element of a set of numbers up to n is the least.
LEMMA LeastElement ==
  ASSUME NEW n \in Nat, NEW S \in SUBSET (0..n), S # {}
  PROVE  \E m \in S : \A x \in S : m <= x
<1> DEFINE T == {t \in 0..n : \A x \in S : t <= x}
<1>1. 0 \in T /\ IsFiniteSet(0..n) /\ IsFiniteSet(T) /\ T \subseteq Int
  <2>1. IsFiniteSet(0..n)
    BY FS_Interval
  <2>2. IsFiniteSet(T)
    BY <2>1, FS_Subset
  <2> QED
    BY <2>1, <2>2
<1>2. PICK m \in T : \A t \in T : t <= m
  BY <1>1, GreatestElement
<1>3. CASE m \in S
  BY <1>2, <1>3
<1>4. CASE m \notin S
  <2>1. \A x \in S : m + 1 <= x /\ x <= n
    BY <1>2, <1>4
  <2>2. PICK y \in S : TRUE
    OBVIOUS
  <2>3. m \in Nat /\ m + 1 <= y /\ y <= n
    BY <1>2, <2>1, <2>2
  <2>4. m + 1 \in 0..n
    BY <2>3
  <2>5. m + 1 \in T
    BY <2>1, <2>4
  <2> QED
    BY <1>2, <2>3, <2>5
<1> QED
  BY <1>3, <1>4

---------------------------------------------------------------------------
(* The function that SumFunctionOnSet defines by recursion.                *)

\* The element that the recursion takes from s first.
Taken(s) == CHOOSE x \in s : TRUE

SumStep(fun, f, s) == IF s = {} THEN 0 ELSE fun[Taken(s)] + f[s \ {Taken(s)}]

\* f adds up fun on every subset of T.
AddsUp(fun, f, T) == f = [s \in SUBSET T |-> SumStep(fun, f, s)]

\* It is what SumFunctionOnSet takes.
LEMMA SumIsChosen ==
  ASSUME NEW fun, NEW T
  PROVE  SumFunctionOnSet(fun, T) = (CHOOSE f : AddsUp(fun, f, T))[T]
BY DEF SumFunctionOnSet, FoldFunctionOnSet, MapThenFoldSet, AddsUp, SumStep, Taken

\* Two functions that add up agree on what both add up.
LEMMA AddsUpUnique ==
  ASSUME NEW S, IsFiniteSet(S), NEW fun,
         NEW T \in SUBSET S, NEW U \in SUBSET S,
         NEW f, AddsUp(fun, f, T), NEW g, AddsUp(fun, g, U)
  PROVE  \A s \in SUBSET (T \cap U) : f[s] = g[s]
<1> DEFINE B == {s \in SUBSET S : s \subseteq T \cap U => f[s] = g[s]}
<1>1. ASSUME NEW s \in SUBSET S, \A u \in SUBSET s : u # s => u \in B
      PROVE  s \in B
  <2> SUFFICES ASSUME s \subseteq T \cap U PROVE f[s] = g[s]
    OBVIOUS
  <2> DEFINE rest == s \ {Taken(s)}
  <2>1. f[s] = SumStep(fun, f, s) /\ g[s] = SumStep(fun, g, s)
    BY DEF AddsUp
  <2>2. CASE s = {}
    BY <2>1, <2>2 DEF SumStep
  <2>3. CASE s # {}
    <3>1. Taken(s) \in s
      BY <2>3 DEF Taken
    <3>2. rest \in B /\ rest \subseteq T \cap U
      BY <1>1, <3>1
    <3> QED
      BY <2>1, <2>3, <3>2 DEF SumStep
  <2> QED
    BY <2>2, <2>3
<1> HIDE DEF B
<1>2. \A s \in SUBSET S : s \in B
  BY <1>1, SetInduction
<1> QED
  BY <1>2 DEF B

\* There is one on every subset of a finite set.
LEMMA AddsUpExists ==
  ASSUME NEW S, IsFiniteSet(S), NEW fun
  PROVE  \A T \in SUBSET S : \E f : AddsUp(fun, f, T)
<1> DEFINE B == {T \in SUBSET S : \E f : AddsUp(fun, f, T)}
           Of(T) == CHOOSE f : AddsUp(fun, f, T)
<1>1. ASSUME NEW T \in SUBSET S, \A U \in SUBSET T : U # T => U \in B
      PROVE  T \in B
  <2> DEFINE rest(s) == s \ {Taken(s)}
             new == [s \in SUBSET T |-> IF s = {} THEN 0 ELSE fun[Taken(s)] + Of(rest(s))[rest(s)]]
  <2>1. ASSUME NEW s \in SUBSET T, s # {}
        PROVE  rest(s) \in SUBSET T /\ AddsUp(fun, Of(rest(s)), rest(s))
    <3>1. Taken(s) \in s
      BY <2>1 DEF Taken
    <3>2. rest(s) \in B
      BY <1>1, <3>1
    <3> QED
      BY <3>2
  <2>2. ASSUME NEW s \in SUBSET T, s # {}
        PROVE  new[rest(s)] = Of(rest(s))[rest(s)]
    <3> DEFINE r == rest(s)
    <3>1. r \in SUBSET T /\ AddsUp(fun, Of(r), r)
      BY <2>1, <2>2
    <3>2. Of(r)[r] = SumStep(fun, Of(r), r)
      <4> HIDE DEF r, Of
      <4> QED
        BY <3>1 DEF AddsUp
    <3>3. CASE r = {}
      <4>1. new[r] = 0
        BY <3>1, <3>3
      <4>2. SumStep(fun, Of(r), r) = 0
        BY <3>3 DEF SumStep
      <4> QED
        BY <3>2, <4>1, <4>2
    <3>4. CASE r # {}
      <4> DEFINE rr == rest(r)
      <4>1. Taken(r) \in r /\ rr \in SUBSET r /\ rr \in SUBSET S
        BY <3>1, <3>4 DEF Taken
      <4>2. AddsUp(fun, Of(rr), rr)
        BY <2>1, <3>1, <3>4
      <4>3. Of(r)[rr] = Of(rr)[rr]
        <5>1. rr \in SUBSET (r \cap rr) /\ r \in SUBSET S
          BY <4>1, <3>1
        <5> HIDE DEF r, rr, Of
        <5> QED
          BY <5>1, <3>1, <4>1, <4>2, AddsUpUnique
      <4>4. new[r] = fun[Taken(r)] + Of(rr)[rr]
        BY <3>1, <3>4
      <4>5. SumStep(fun, Of(r), r) = fun[Taken(r)] + Of(r)[rr]
        BY <3>4 DEF SumStep
      <4> QED
        BY <3>2, <4>3, <4>4, <4>5
    <3> QED
      BY <3>3, <3>4
  <2>3. ASSUME NEW s \in SUBSET T PROVE new[s] = SumStep(fun, new, s)
    <3>1. CASE s = {}
      BY <3>1 DEF SumStep
    <3>2. CASE s # {}
      <4>1. new[s] = fun[Taken(s)] + Of(rest(s))[rest(s)]
        BY <3>2
      <4>2. SumStep(fun, new, s) = fun[Taken(s)] + new[rest(s)]
        BY <3>2 DEF SumStep
      <4> QED
        BY <4>1, <4>2, <2>2, <3>2
    <3> QED
      BY <3>1, <3>2
  <2>4. AddsUp(fun, new, T)
    <3>1. new = [s \in SUBSET T |-> new[s]]
      OBVIOUS
    <3> HIDE DEF new
    <3> QED
      BY <2>3, <3>1 DEF AddsUp
  <2> QED
    BY <2>4
<1> HIDE DEF B
<1>2. \A T \in SUBSET S : T \in B
  BY <1>1, SetInduction
<1> QED
  BY <1>2 DEF B

---------------------------------------------------------------------------
(* Sums.                                                                   *)

\* The sum over a finite set, by the element that the recursion takes first.
LEMMA SumFirst ==
  ASSUME NEW S, IsFiniteSet(S), NEW fun
  PROVE  /\ S = {} => SumFunctionOnSet(fun, S) = 0
         /\ S # {} => /\ Taken(S) \in S
                      /\ SumFunctionOnSet(fun, S) =
                           fun[Taken(S)] + SumFunctionOnSet(fun, S \ {Taken(S)})
<1> DEFINE Of(T) == CHOOSE f : AddsUp(fun, f, T)
           rest == S \ {Taken(S)}
<1>1. \A T \in SUBSET S : AddsUp(fun, Of(T), T)
  BY AddsUpExists
<1>2. \A T \in SUBSET S : SumFunctionOnSet(fun, T) = Of(T)[T]
  BY SumIsChosen
<1> HIDE DEF Of
<1>3. Of(S)[S] = SumStep(fun, Of(S), S)
  <2>1. AddsUp(fun, Of(S), S)
    BY <1>1
  <2> QED
    BY <2>1 DEF AddsUp
<1>4. CASE S = {}
  BY <1>2, <1>3, <1>4 DEF SumStep
<1>5. CASE S # {}
  <2>1. Taken(S) \in S
    BY <1>5 DEF Taken
  <2>2. Of(S)[rest] = Of(rest)[rest]
    <3>1. rest \in SUBSET (S \cap rest) /\ rest \in SUBSET S /\ S \in SUBSET S
      OBVIOUS
    <3> HIDE DEF rest
    <3>2. AddsUp(fun, Of(S), S) /\ AddsUp(fun, Of(rest), rest)
      BY <1>1, <3>1
    <3> QED
      BY <3>1, <3>2, AddsUpUnique
  <2> QED
    BY <1>2, <1>3, <1>5, <2>1, <2>2 DEF SumStep
<1> QED
  BY <1>4, <1>5

\* A sum of integers is an integer.
LEMMA SumInt ==
  ASSUME NEW S, IsFiniteSet(S), NEW fun, \A x \in S : fun[x] \in Int
  PROVE  SumFunctionOnSet(fun, S) \in Int
<1> DEFINE B == {T \in SUBSET S : SumFunctionOnSet(fun, T) \in Int}
<1>1. ASSUME NEW T \in SUBSET S, \A U \in SUBSET T : U # T => U \in B
      PROVE  T \in B
  <2>1. IsFiniteSet(T)
    BY FS_Subset
  <2> DEFINE y == Taken(T)
  <2>2. CASE T = {}
    BY <2>1, <2>2, SumFirst
  <2>3. CASE T # {}
    <3>1. y \in T /\ SumFunctionOnSet(fun, T) = fun[y] + SumFunctionOnSet(fun, T \ {y})
      BY <2>1, <2>3, SumFirst
    <3>2. T \ {y} \in B
      BY <1>1, <3>1
    <3> HIDE DEF y
    <3>3. SumFunctionOnSet(fun, T) \in Int
      BY <3>1, <3>2
    <3> QED
      BY <3>3
  <2> QED
    BY <2>2, <2>3
<1> HIDE DEF B
<1>2. \A T \in SUBSET S : T \in B
  BY <1>1, SetInduction
<1> QED
  BY <1>2 DEF B

\* Only the values on the set matter.
LEMMA SumCongruence ==
  ASSUME NEW S, IsFiniteSet(S), NEW f, NEW g, \A x \in S : f[x] = g[x]
  PROVE  SumFunctionOnSet(f, S) = SumFunctionOnSet(g, S)
<1> DEFINE B == {T \in SUBSET S : SumFunctionOnSet(f, T) = SumFunctionOnSet(g, T)}
<1>1. ASSUME NEW T \in SUBSET S, \A U \in SUBSET T : U # T => U \in B
      PROVE  T \in B
  <2>1. IsFiniteSet(T)
    BY FS_Subset
  <2> DEFINE y == Taken(T)
  <2>2. CASE T = {}
    BY <2>1, <2>2, SumFirst
  <2>3. CASE T # {}
    <3>1. y \in T /\ SumFunctionOnSet(f, T) = f[y] + SumFunctionOnSet(f, T \ {y})
          /\ SumFunctionOnSet(g, T) = g[y] + SumFunctionOnSet(g, T \ {y})
      BY <2>1, <2>3, SumFirst
    <3>2. T \ {y} \in B
      BY <1>1, <3>1
    <3> HIDE DEF y
    <3>3. SumFunctionOnSet(f, T) = SumFunctionOnSet(g, T)
      BY <3>1, <3>2
    <3> QED
      BY <3>3
  <2> QED
    BY <2>2, <2>3
<1> HIDE DEF B
<1>2. \A T \in SUBSET S : T \in B
  BY <1>1, SetInduction
<1> QED
  BY <1>2 DEF B

\* Any element may be taken out of a sum.
LEMMA SumRemove ==
  ASSUME NEW S, IsFiniteSet(S), NEW fun, \A x \in S : fun[x] \in Int, NEW a \in S
  PROVE  SumFunctionOnSet(fun, S) = fun[a] + SumFunctionOnSet(fun, S \ {a})
<1> DEFINE Sum(T) == SumFunctionOnSet(fun, T)
           B == {T \in SUBSET S : \A x \in T : Sum(T) = fun[x] + Sum(T \ {x})}
<1>1. ASSUME NEW T \in SUBSET S, \A U \in SUBSET T : U # T => U \in B
      PROVE  T \in B
  <2> SUFFICES ASSUME NEW x \in T PROVE Sum(T) = fun[x] + Sum(T \ {x})
    OBVIOUS
  <2> DEFINE y == Taken(T)
  <2>1. IsFiniteSet(T) /\ IsFiniteSet(T \ {x}) /\ IsFiniteSet(T \ {y})
    BY FS_Subset
  <2>2. y \in T /\ Sum(T) = fun[y] + Sum(T \ {y})
    BY <2>1, SumFirst
  <2>3. CASE x = y
    BY <2>2, <2>3
  <2>4. CASE x # y
    <3> DEFINE R == (T \ {x}) \ {y}
    <3>1. T \ {x} \in B /\ T \ {y} \in B
      BY <1>1, <2>2
    <3>2. Sum(T \ {x}) = fun[y] + Sum(R)
      BY <3>1, <2>2, <2>4
    <3>3. (T \ {y}) \ {x} = R
      OBVIOUS
    <3>4. Sum(T \ {y}) = fun[x] + Sum(R)
      <4>1. Sum(T \ {y}) = fun[x] + Sum((T \ {y}) \ {x})
        BY <3>1, <2>4
      <4> QED
        BY <4>1, <3>3
    <3>5. Sum(R) \in Int
      <4>1. IsFiniteSet(R)
        BY <2>1, FS_Subset
      <4> QED
        BY <4>1, SumInt
    <3>6. fun[x] \in Int /\ fun[y] \in Int
      BY <2>2
    <3> QED
      BY <2>2, <3>2, <3>4, <3>5, <3>6
  <2> QED
    BY <2>3, <2>4
<1> HIDE DEF B
<1>2. \A T \in SUBSET S : T \in B
  BY <1>1, SetInduction
<1> QED
  BY <1>2 DEF B

\* A sum changes by what one of its terms changes.
LEMMA SumChange ==
  ASSUME NEW S, IsFiniteSet(S), NEW f \in [S -> Int], NEW g \in [S -> Int], NEW a \in S,
         \A x \in S : x # a => f[x] = g[x]
  PROVE  SumFunctionOnSet(g, S) = SumFunctionOnSet(f, S) + g[a] - f[a]
<1>1. IsFiniteSet(S \ {a})
  BY FS_Subset
<1>2. SumFunctionOnSet(g, S \ {a}) = SumFunctionOnSet(f, S \ {a})
  BY <1>1, SumCongruence
<1>3. SumFunctionOnSet(f, S \ {a}) \in Int
  BY <1>1, SumInt
<1>4. /\ SumFunctionOnSet(f, S) = f[a] + SumFunctionOnSet(f, S \ {a})
      /\ SumFunctionOnSet(g, S) = g[a] + SumFunctionOnSet(g, S \ {a})
  BY SumRemove
<1> QED
  BY <1>2, <1>3, <1>4

\* A sum of zeros is zero.
LEMMA SumZero ==
  ASSUME NEW S, IsFiniteSet(S), NEW fun, \A x \in S : fun[x] = 0
  PROVE  SumFunctionOnSet(fun, S) = 0
<1> DEFINE B == {T \in SUBSET S : SumFunctionOnSet(fun, T) = 0}
<1>1. ASSUME NEW T \in SUBSET S, \A U \in SUBSET T : U # T => U \in B
      PROVE  T \in B
  <2>1. IsFiniteSet(T)
    BY FS_Subset
  <2> DEFINE y == Taken(T)
  <2>2. CASE T = {}
    BY <2>1, <2>2, SumFirst
  <2>3. CASE T # {}
    <3>1. y \in T /\ SumFunctionOnSet(fun, T) = fun[y] + SumFunctionOnSet(fun, T \ {y})
      BY <2>1, <2>3, SumFirst
    <3>2. T \ {y} \in B
      BY <1>1, <3>1
    <3> HIDE DEF y
    <3>3. SumFunctionOnSet(fun, T) = 0
      BY <3>1, <3>2
    <3> QED
      BY <3>3
  <2> QED
    BY <2>2, <2>3
<1> HIDE DEF B
<1>2. \A T \in SUBSET S : T \in B
  BY <1>1, SetInduction
<1> QED
  BY <1>2 DEF B

\* A sum of natural numbers is one.
LEMMA SumNat ==
  ASSUME NEW S, IsFiniteSet(S), NEW fun, \A x \in S : fun[x] \in Nat
  PROVE  SumFunctionOnSet(fun, S) \in Nat
<1> DEFINE B == {T \in SUBSET S : SumFunctionOnSet(fun, T) \in Nat}
<1>1. ASSUME NEW T \in SUBSET S, \A U \in SUBSET T : U # T => U \in B
      PROVE  T \in B
  <2>1. IsFiniteSet(T)
    BY FS_Subset
  <2> DEFINE y == Taken(T)
  <2>2. CASE T = {}
    <3>1. SumFunctionOnSet(fun, T) = 0
      BY <2>1, <2>2, SumFirst
    <3> QED
      BY <3>1
  <2>3. CASE T # {}
    <3>1. y \in T /\ SumFunctionOnSet(fun, T) = fun[y] + SumFunctionOnSet(fun, T \ {y})
      BY <2>1, <2>3, SumFirst
    <3>2. T \ {y} \in B
      BY <1>1, <3>1
    <3> HIDE DEF y
    <3>3. SumFunctionOnSet(fun, T) \in Nat
      BY <3>1, <3>2
    <3> QED
      BY <3>3
  <2> QED
    BY <2>2, <2>3
<1> HIDE DEF B
<1>2. \A T \in SUBSET S : T \in B
  BY <1>1, SetInduction
<1> QED
  BY <1>2 DEF B

\* Terms that are zero add nothing.
LEMMA SumSupport ==
  ASSUME NEW S, IsFiniteSet(S), NEW T \in SUBSET S, NEW fun, \A x \in S : fun[x] \in Int,
         \A x \in S \ T : fun[x] = 0
  PROVE  SumFunctionOnSet(fun, S) = SumFunctionOnSet(fun, T)
<1> DEFINE B == {U \in SUBSET S : SumFunctionOnSet(fun, U) = SumFunctionOnSet(fun, U \intersect T)}
<1>1. ASSUME NEW U \in SUBSET S, \A V \in SUBSET U : V # U => V \in B
      PROVE  U \in B
  <2>1. IsFiniteSet(U) /\ IsFiniteSet(U \intersect T)
    BY FS_Subset
  <2> DEFINE y == Taken(U)
  <2>2. CASE U = {}
    <3>1. U \intersect T = U
      BY <2>2
    <3> QED
      BY <3>1
  <2>3. CASE U # {}
    <3>1. y \in U /\ SumFunctionOnSet(fun, U) = fun[y] + SumFunctionOnSet(fun, U \ {y})
      BY <2>1, <2>3, SumFirst
    <3>2. U \ {y} \in B
      BY <1>1, <3>1
    <3> HIDE DEF y
    <3>3. SumFunctionOnSet(fun, U \ {y}) = SumFunctionOnSet(fun, (U \ {y}) \intersect T)
      BY <3>2
    <3>4. CASE y \in T
      <4>1. y \in U \intersect T /\ \A x \in U \intersect T : fun[x] \in Int
        BY <3>1, <3>4
      <4>2. SumFunctionOnSet(fun, U \intersect T) = fun[y] + SumFunctionOnSet(fun, (U \intersect T) \ {y})
        BY <2>1, <4>1, SumRemove
      <4>3. (U \intersect T) \ {y} = (U \ {y}) \intersect T
        OBVIOUS
      <4> QED
        BY <3>1, <3>3, <4>2, <4>3
    <3>5. CASE y \notin T
      <4>1. (U \ {y}) \intersect T = U \intersect T /\ fun[y] = 0
        BY <3>1, <3>5
      <4>2. SumFunctionOnSet(fun, U \intersect T) \in Int
        BY <2>1, SumInt
      <4>3. SumFunctionOnSet(fun, U) = 0 + SumFunctionOnSet(fun, U \intersect T)
        BY <3>1, <3>3, <4>1
      <4>4. SumFunctionOnSet(fun, U) = SumFunctionOnSet(fun, U \intersect T)
        BY <4>2, <4>3
      <4> QED
        BY <4>4
    <3> QED
      BY <3>4, <3>5
  <2> QED
    BY <2>2, <2>3
<1> HIDE DEF B
<1>2. S \in B
  BY <1>1, SetInduction
<1>3. S \intersect T = T
  OBVIOUS
<1> QED
  BY <1>2, <1>3 DEF B
=============================================================================
