--------------------------- MODULE RecipeStockProofs ---------------------------
(***************************************************************************)
(* What the computations of RecipeStock return, for every stock and recipe:  *)
(* sorting, the sums, the allocation of a stock and the two choices.         *)
(***************************************************************************)
EXTENDS RecipeStock, FiniteSetTheorems, SequenceTheorems, WellFoundedInduction, TLAPS

-----------------------------------------------------------------------------
(* Induction, with a set in place of a predicate.                           *)

LEMMA LeastNat ==
  ASSUME NEW T, T \subseteq Nat, T # {}
  PROVE  \E n \in T : \A m \in T : n <= m
<1> DEFINE R == OpToRel(<, Nat)
<1>1. IsWellFoundedOn(R, Nat)
  BY NatLessThanWellFounded
<1>2. \A x, y \in Nat : x < y => <<x, y>> \in R
  BY DEF OpToRel
<1> HIDE DEF R
<1>3. PICK n \in T : \A m \in T : <<m, n>> \notin R
  BY <1>1, WFMin
<1>4. ASSUME NEW m \in T PROVE n <= m
  <2>1. m \in Nat /\ n \in Nat
    OBVIOUS
  <2>2. ~(m < n)
    BY <1>2, <1>3, <2>1
  <2> QED
    BY <2>1, <2>2
<1> QED
  BY <1>4

LEMMA NatInd ==
  ASSUME NEW n \in Nat, NEW T, 0 \in T, \A i \in 1 .. n : i - 1 \in T => i \in T
  PROVE  \A i \in 0 .. n : i \in T
<1> DEFINE U == {i \in 0 .. n : i \notin T}
<1> SUFFICES ASSUME U # {} PROVE FALSE
  OBVIOUS
<1>1. U \subseteq Nat
  OBVIOUS
<1>2. \E m \in U : \A k \in U : m <= k
  <2> HIDE DEF U
  <2> QED
    BY <1>1, LeastNat
<1>3. PICK m \in U : \A k \in U : m <= k
  BY <1>2
<1>4. m # 0 /\ m - 1 \in 0 .. n /\ m \in 1 .. n /\ ~(m <= m - 1)
  BY <1>3
<1> QED
  BY <1>3, <1>4

\* Two functions that start and go on alike.
LEMMA SameChain ==
  ASSUME NEW n \in Nat, NEW f, NEW g, f[0] = g[0], \A i \in 1 .. n : f[i - 1] = g[i - 1] => f[i] = g[i]
  PROVE  \A i \in 0 .. n : f[i] = g[i]
<1> DEFINE T == {i \in 0 .. n : f[i] = g[i]}
<1>1. 0 \in T /\ \A i \in 1 .. n : i - 1 \in T => i \in T
  OBVIOUS
<1> HIDE DEF T
<1>2. \A i \in 0 .. n : i \in T
  BY <1>1, NatInd
<1> QED
  BY <1>2 DEF T

LEMMA MaxIs ==
  ASSUME NEW n \in Nat, NEW S, S \subseteq 1 .. n, n \in S
  PROVE  Max(S) = n
<1>1. \A y \in S : n >= y
  OBVIOUS
<1>2. \A x \in S : (\A y \in S : x >= y) => x = n
  OBVIOUS
<1> QED
  BY <1>1, <1>2 DEF Max

LEMMA MaxIn ==
  ASSUME NEW n \in Nat, NEW S, S \subseteq 1 .. n, S # {}
  PROVE  Max(S) \in S
<1> DEFINE T == {i \in 0 .. n : \A U \in SUBSET (1 .. i) : U # {} => \E m \in U : \A k \in U : m >= k}
<1>1. 0 \in T
  <2>1. \A U \in SUBSET (1 .. 0) : U # {} => \E m \in U : \A k \in U : m >= k
    <3>1. \A U \in SUBSET (1 .. 0) : U = {}
      OBVIOUS
    <3> QED
      BY <3>1
  <2>2. 0 \in 0 .. n
    OBVIOUS
  <2> QED
    BY <2>1, <2>2
<1>2. ASSUME NEW i \in 1 .. n, i - 1 \in T PROVE i \in T
  <2>1. ASSUME NEW U \in SUBSET (1 .. i), U # {} PROVE \E m \in U : \A k \in U : m >= k
    <3>1. CASE i \in U
      BY <3>1
    <3>2. CASE i \notin U
      <4>1. U \in SUBSET (1 .. (i - 1))
        BY <3>2
      <4> QED
        BY <1>2, <2>1, <4>1
    <3> QED
      BY <3>1, <3>2
  <2> QED
    BY <2>1
<1> HIDE DEF T
<1>3. n \in T
  BY <1>1, <1>2, NatInd
<1>4. \E m \in S : \A k \in S : m >= k
  BY <1>3 DEF T
<1> QED
  BY <1>4 DEF Max

-----------------------------------------------------------------------------
(* A fold along a sequence is a chain.                                      *)

\* The function a fold is defined by exists.
FoldsDown(h, n, seq, base, F) ==
    \A s \in SUBSET (1 .. n) : h[s] = IF s = {} THEN base ELSE F[<<h[s \ {Max(s)}], seq[Max(s)]>>]

LEMMA FoldExists ==
  ASSUME NEW n \in Nat, NEW E, NEW seq \in [1 .. n -> E], NEW A, NEW base \in A, NEW F \in [A \X E -> A]
  PROVE  \E h \in [SUBSET (1 .. n) -> A] : FoldsDown(h, n, seq, base, F)
<1> DEFINE Step(h, s) == IF s = {} THEN base ELSE F[<<h[s \ {Max(s)}], seq[Max(s)]>>]
           P(i) == \E h \in [SUBSET (1 .. i) -> A] : \A s \in SUBSET (1 .. i) : h[s] = Step(h, s)
           T == {i \in 0 .. n : P(i)}
<1>1. 0 \in T
  <2> DEFINE h == [s \in SUBSET (1 .. 0) |-> base]
  <2>1. h \in [SUBSET (1 .. 0) -> A] /\ \A s \in SUBSET (1 .. 0) : s = {} /\ h[s] = base
    OBVIOUS
  <2> HIDE DEF h
  <2>2. P(0)
    BY <2>1
  <2> HIDE DEF P
  <2> QED
    BY <2>2
<1>2. ASSUME NEW i \in 1 .. n, i - 1 \in T PROVE i \in T
  <2>1. PICK h \in [SUBSET (1 .. (i - 1)) -> A] : \A s \in SUBSET (1 .. (i - 1)) : h[s] = Step(h, s)
    BY <1>2
  <2> DEFINE g == [s \in SUBSET (1 .. i) |-> IF i \in s THEN F[<<h[s \ {i}], seq[i]>>] ELSE h[s]]
  <2>2. \A s \in SUBSET (1 .. i) : s \ {i} \in SUBSET (1 .. (i - 1)) /\ (i \notin s => s \in SUBSET (1 .. (i - 1)))
    OBVIOUS
  <2>3. seq[i] \in E
    OBVIOUS
  <2>4. g \in [SUBSET (1 .. i) -> A]
    BY <2>2, <2>3
  <2>5. ASSUME NEW s \in SUBSET (1 .. i) PROVE g[s] = Step(g, s)
    <3>1. CASE i \in s
      <4>1. Max(s) = i
        <5>1. i \in Nat /\ s \subseteq 1 .. i
          OBVIOUS
        <5> QED
          BY <3>1, <5>1, MaxIs
      <4>2. g[s \ {i}] = h[s \ {i}]
        BY <2>2
      <4>3. g[s] = F[<<h[s \ {i}], seq[i]>>]
        BY <3>1
      <4> HIDE DEF g
      <4> QED
        BY <3>1, <4>1, <4>2, <4>3
    <3>2. CASE i \notin s /\ s # {}
      <4>1. s \in SUBSET (1 .. (i - 1)) /\ Max(s) \in s
        <5>1. i \in Nat /\ s \subseteq 1 .. i
          OBVIOUS
        <5> QED
          BY <2>2, <3>2, <5>1, MaxIn
      <4>2. s \ {Max(s)} \in SUBSET (1 .. (i - 1)) /\ i \notin s \ {Max(s)} /\ s \ {Max(s)} \in SUBSET (1 .. i)
        BY <3>2, <4>1
      <4>3. g[s \ {Max(s)}] = h[s \ {Max(s)}]
        BY <4>2
      <4>4. g[s] = h[s]
        BY <3>2
      <4> HIDE DEF g
      <4> QED
        BY <2>1, <3>2, <4>1, <4>3, <4>4
    <3>3. CASE s = {}
      <4>1. g[s] = h[s] /\ h[s] = Step(h, s)
        BY <2>1, <2>2, <3>3
      <4> QED
        BY <3>3, <4>1
    <3> QED
      BY <3>1, <3>2, <3>3
  <2> HIDE DEF g
  <2>6. P(i)
    BY <2>4, <2>5
  <2> HIDE DEF P
  <2> QED
    BY <2>6
<1> HIDE DEF T, P, Step
<1>3. n \in T
  <2>1. \A i \in 0 .. n : i \in T
    BY <1>1, <1>2, NatInd
  <2>2. n \in 0 .. n
    OBVIOUS
  <2> QED
    BY <2>1, <2>2
<1>4. PICK h \in [SUBSET (1 .. n) -> A] : \A s \in SUBSET (1 .. n) : h[s] = Step(h, s)
  BY <1>3 DEF T, P
<1>5. FoldsDown(h, n, seq, base, F)
  BY <1>4 DEF Step, FoldsDown
<1> QED
  BY <1>5

-----------------------------------------------------------------------------
(* Finite sets.                                                             *)

\* Induction over the subsets of a finite set.
LEMMA SetInd ==
  ASSUME NEW S, IsFiniteSet(S), NEW Q,
         \A T \in SUBSET S : (\A U \in SUBSET T : U # T => U \in Q) => T \in Q
  PROVE  \A T \in SUBSET S : T \in Q
<1> DEFINE Bad == {T \in SUBSET S : T \notin Q}
           N == {Cardinality(T) : T \in Bad}
<1> SUFFICES ASSUME Bad # {} PROVE FALSE
  OBVIOUS
<1>1. \A T \in Bad : IsFiniteSet(T) /\ Cardinality(T) \in Nat
  BY FS_Subset, FS_CardinalityType
<1>2. N \subseteq Nat /\ N # {}
  BY <1>1
<1>3. \E n \in N : \A m \in N : n <= m
  <2> HIDE DEF N
  <2> QED
    BY <1>2, LeastNat
<1>4. PICK T \in Bad : \A U \in Bad : Cardinality(T) <= Cardinality(U)
  BY <1>3
<1>5. ASSUME NEW U \in SUBSET T, U # T PROVE U \in Q
  <2>1. IsFiniteSet(U) /\ Cardinality(U) \in Nat /\ Cardinality(T) \in Nat /\ Cardinality(U) < Cardinality(T)
    BY <1>1, <1>5, FS_Subset, FS_CardinalityType
  <2>2. U \notin Bad
    BY <1>4, <2>1
  <2> QED
    BY <2>2
<1> QED
  BY <1>4, <1>5

-----------------------------------------------------------------------------
(* The sum of a function.                                                   *)

Pick(s) == CHOOSE x \in s : TRUE
IsSum(c, f, S) ==
    c = [s \in SUBSET S |-> IF s = {} THEN 0 ELSE f[Pick(s)] + c[s \ {Pick(s)}]]
SumsUp(c, f, S) ==
    /\ \A T \in SUBSET S : c[T] \in Int
    /\ \A T \in SUBSET S : \A x \in T : c[T] = f[x] + c[T \ {x}]

LEMMA PickIn ==
  ASSUME NEW s, s # {}
  PROVE  Pick(s) \in s
BY DEF Pick

LEMMA SumExists ==
  ASSUME NEW S, IsFiniteSet(S), NEW f \in [S -> Int]
  PROVE  \E c \in [SUBSET S -> Int] : IsSum(c, f, S)
<1> DEFINE Step(c, s) == IF s = {} THEN 0 ELSE f[Pick(s)] + c[s \ {Pick(s)}]
           P(n) == \E c \in [SUBSET S -> Int] : \A s \in SUBSET S : Cardinality(s) <= n => c[s] = Step(c, s)
           n == Cardinality(S)
           T == {i \in 0 .. n : P(i)}
<1>n. n \in Nat /\ \A s \in SUBSET S : IsFiniteSet(s) /\ Cardinality(s) \in Nat /\ Cardinality(s) <= n
  BY FS_Subset, FS_CardinalityType
<1> HIDE DEF n
<1>1. 0 \in T
  <2> DEFINE c == [s \in SUBSET S |-> 0]
  <2>1. \A s \in SUBSET S : Cardinality(s) <= 0 => s = {}
    BY <1>n, FS_EmptySet
  <2>2. c \in [SUBSET S -> Int] /\ \A s \in SUBSET S : Cardinality(s) <= 0 => c[s] = Step(c, s)
    BY <2>1
  <2> HIDE DEF c
  <2>3. P(0)
    BY <2>2
  <2> HIDE DEF P
  <2> QED
    BY <2>3, <1>n
<1>2. ASSUME NEW i \in 1 .. n, i - 1 \in T PROVE i \in T
  <2>1. PICK c \in [SUBSET S -> Int] : \A s \in SUBSET S : Cardinality(s) <= i - 1 => c[s] = Step(c, s)
    BY <1>2
  <2> DEFINE g == [s \in SUBSET S |-> Step(c, s)]
  <2>2. g \in [SUBSET S -> Int]
    <3>1. ASSUME NEW s \in SUBSET S, s # {} PROVE Step(c, s) \in Int
      <4>1. Pick(s) \in S /\ s \ {Pick(s)} \in SUBSET S
        BY <3>1, PickIn
      <4> QED
        BY <4>1
    <3> QED
      BY <3>1
  <2>3. ASSUME NEW s \in SUBSET S, Cardinality(s) <= i PROVE g[s] = Step(g, s)
    <3>1. CASE s = {}
      BY <3>1
    <3>2. CASE s # {}
      <4> DEFINE u == s \ {Pick(s)}
      <4>1. Pick(s) \in s /\ u \in SUBSET S
        BY <3>2, PickIn
      <4>2. Cardinality(u) <= i - 1
        <5>1. IsFiniteSet(s) /\ Cardinality(s) \in Nat /\ i \in Int
          BY <1>n
        <5>2. Cardinality(u) = Cardinality(s) - 1
          BY <5>1, <4>1, FS_RemoveElement
        <5> HIDE DEF u
        <5> QED
          BY <5>1, <5>2, <2>3
      <4>3. g[u] = c[u]
        BY <2>1, <4>1, <4>2
      <4>4. g[s] = f[Pick(s)] + c[u]
        BY <3>2
      <4> HIDE DEF g
      <4> QED
        BY <3>2, <4>3, <4>4
    <3> QED
      BY <3>1, <3>2
  <2> HIDE DEF g
  <2>4. P(i)
    BY <2>2, <2>3
  <2> HIDE DEF P
  <2> QED
    BY <2>4
<1> HIDE DEF T, P, Step
<1>3. n \in T
  <2>1. \A i \in 0 .. n : i \in T
    BY <1>1, <1>2, <1>n, NatInd
  <2> QED
    BY <2>1, <1>n
<1>4. PICK c \in [SUBSET S -> Int] : \A s \in SUBSET S : Cardinality(s) <= n => c[s] = Step(c, s)
  BY <1>3 DEF T, P
<1>5. c = [s \in SUBSET S |-> Step(c, s)]
  BY <1>4, <1>n
<1> QED
  BY <1>5 DEF Step, IsSum

\* The order of the summands does not matter, and neither does the rest of the function.
LEMMA SumStep ==
  ASSUME NEW S, IsFiniteSet(S), NEW f \in [S -> Int], NEW c, IsSum(c, f, S)
  PROVE  SumsUp(c, f, S)
<1> DEFINE Q == {T \in SUBSET S : c[T] \in Int /\ \A x \in T : c[T] = f[x] + c[T \ {x}]}
<1>0. \A s \in SUBSET S : c[s] = IF s = {} THEN 0 ELSE f[Pick(s)] + c[s \ {Pick(s)}]
  BY DEF IsSum
<1>1. ASSUME NEW T \in SUBSET S, \A U \in SUBSET T : U # T => U \in Q PROVE T \in Q
  <2>1. CASE T = {}
    <3>1. c[T] = 0
      BY <1>0, <2>1
    <3> QED
      BY <2>1, <3>1
  <2>2. CASE T # {}
    <3> DEFINE y == Pick(T)
    <3>1. y \in T /\ c[T] = f[y] + c[T \ {y}]
      BY <1>0, <2>2, PickIn
    <3> HIDE DEF y
    <3>2. T \ {y} \in Q /\ f[y] \in Int
      BY <1>1, <3>1
    <3>3. c[T] \in Int
      BY <3>1, <3>2
    <3>4. ASSUME NEW x \in T, x # y PROVE c[T] = f[x] + c[T \ {x}]
      <4> DEFINE V == (T \ {y}) \ {x}
      <4>1. V = (T \ {x}) \ {y} /\ x \in T \ {y} /\ y \in T \ {x} /\ V \in SUBSET T /\ V # T
        BY <3>1, <3>4
      <4>2. c[T \ {y}] = f[x] + c[V]
        BY <3>2, <4>1
      <4>3. T \ {x} \in Q
        BY <1>1
      <4>4. c[T \ {x}] = f[y] + c[V]
        BY <4>1, <4>3
      <4>5. V \in Q /\ f[x] \in Int
        BY <1>1, <4>1
      <4>6. c[V] \in Int
        BY <4>5
      <4> HIDE DEF V, Q
      <4> QED
        BY <3>1, <3>2, <4>2, <4>4, <4>5, <4>6
    <3> QED
      BY <3>1, <3>3, <3>4
  <2> QED
    BY <2>1, <2>2
<1> HIDE DEF Q
<1>2. \A T \in SUBSET S : T \in Q
  BY <1>1, SetInd
<1> QED
  BY <1>2 DEF Q, SumsUp

LEMMA SumIs ==
  ASSUME NEW S, IsFiniteSet(S), NEW f \in [S -> Int]
  PROVE  \E c : IsSum(c, f, S) /\ SumFunction(f) = c[S] /\ SumsUp(c, f, S)
<1> DEFINE c == CHOOSE iter : iter = [s \in SUBSET DOMAIN f |-> IF s = {} THEN 0
                                        ELSE f[CHOOSE x \in s : TRUE] + iter[s \ {CHOOSE x \in s : TRUE}]]
<1>1. SumFunction(f) = c[DOMAIN f]
  BY DEF SumFunction, SumFunctionOnSet, FoldFunctionOnSet, MapThenFoldSet
<1>2. DOMAIN f = S
  OBVIOUS
<1>3. PICK h : IsSum(h, f, S)
  BY SumExists
<1>4. h = [s \in SUBSET DOMAIN f |-> IF s = {} THEN 0
                                        ELSE f[CHOOSE x \in s : TRUE] + h[s \ {CHOOSE x \in s : TRUE}]]
  BY <1>2, <1>3 DEF IsSum, Pick
<1>5. c = [s \in SUBSET DOMAIN f |-> IF s = {} THEN 0
                                        ELSE f[CHOOSE x \in s : TRUE] + c[s \ {CHOOSE x \in s : TRUE}]]
  BY <1>4
<1> HIDE DEF c
<1>6. IsSum(c, f, S)
  BY <1>2, <1>5 DEF IsSum, Pick
<1> QED
  BY <1>1, <1>2, <1>6, SumStep

\* Two sums over the same part of their functions.
LEMMA SumAgrees ==
  ASSUME NEW S, NEW f \in [S -> Int], NEW c, IsSum(c, f, S), IsFiniteSet(S),
         NEW R, NEW g \in [R -> Int], NEW e, IsSum(e, g, R), IsFiniteSet(R),
         NEW T, T \subseteq S, T \subseteq R, \A x \in T : f[x] = g[x]
  PROVE  c[T] = e[T]
<1> DEFINE Q == {U \in SUBSET T : c[U] = e[U]}
<1>0. IsFiniteSet(T)
  BY FS_Subset
<1>1. ASSUME NEW U \in SUBSET T, \A V \in SUBSET U : V # U => V \in Q PROVE U \in Q
  <2>1. CASE U = {}
    <3>1. c[U] = 0 /\ e[U] = 0
      BY <2>1 DEF IsSum
    <3> QED
      BY <3>1
  <2>2. CASE U # {}
    <3>1. PICK x \in U : TRUE
      BY <2>2
    <3>2. U \ {x} \in Q
      BY <1>1, <3>1
    <3>3. c[U] = f[x] + c[U \ {x}] /\ e[U] = g[x] + e[U \ {x}]
      <4>1. U \in SUBSET S /\ U \in SUBSET R
        OBVIOUS
      <4> HIDE DEF Q
      <4>2. SumsUp(c, f, S) /\ SumsUp(e, g, R)
        BY SumStep
      <4>3. c[U] = f[x] + c[U \ {x}] /\ e[U] = g[x] + e[U \ {x}]
        BY <3>1, <4>1, <4>2 DEF SumsUp
      <4> QED
        BY <4>3
    <3>4. f[x] = g[x]
      BY <3>1
    <3>5. c[U] = e[U]
      BY <3>2, <3>3, <3>4
    <3> QED
      BY <3>5
  <2> QED
    BY <2>1, <2>2
<1> HIDE DEF Q
<1>2. \A U \in SUBSET T : U \in Q
  BY <1>0, <1>1, SetInd
<1> QED
  BY <1>2 DEF Q

LEMMA SumInt ==
  ASSUME NEW S, IsFiniteSet(S), NEW f \in [S -> Int]
  PROVE  SumFunction(f) \in Int /\ (S = {} => SumFunction(f) = 0)
<1>1. PICK c : IsSum(c, f, S) /\ SumFunction(f) = c[S] /\ SumsUp(c, f, S)
  BY SumIs
<1>2. c[S] \in Int
  BY <1>1 DEF SumsUp
<1>3. S = {} => c[S] = 0
  BY <1>1 DEF IsSum
<1> QED
  BY <1>1, <1>2, <1>3

\* One summand less.
LEMMA SumLess ==
  ASSUME NEW S, IsFiniteSet(S), NEW f \in [S -> Int], NEW x \in S,
         NEW g \in [S \ {x} -> Int], \A y \in S \ {x} : g[y] = f[y]
  PROVE  SumFunction(f) = f[x] + SumFunction(g)
<1>1. PICK c : IsSum(c, f, S) /\ SumFunction(f) = c[S] /\ SumsUp(c, f, S)
  BY SumIs
<1>2. IsFiniteSet(S \ {x})
  BY FS_Subset
<1>3. PICK e : IsSum(e, g, S \ {x}) /\ SumFunction(g) = e[S \ {x}]
  BY <1>2, SumIs
<1>4. c[S \ {x}] = e[S \ {x}]
  BY <1>1, <1>2, <1>3, SumAgrees
<1>5. c[S] = f[x] + c[S \ {x}]
  BY <1>1 DEF SumsUp
<1> QED
  BY <1>1, <1>3, <1>4, <1>5

\* g is f without its value at x.
OneLess(g, f, S, x) ==
    /\ IsFiniteSet(S) /\ f \in [S -> Int] /\ x \in S
    /\ g \in [S \ {x} -> Int] /\ \A y \in S \ {x} : g[y] = f[y]

LEMMA SumOneLess ==
  ASSUME NEW S, NEW f, NEW x, NEW g, OneLess(g, f, S, x)
  PROVE  SumFunction(f) = f[x] + SumFunction(g)
BY SumLess DEF OneLess

\* The same function with one value changed.
LEMMA SumChanged ==
  ASSUME NEW S, IsFiniteSet(S), NEW f \in [S -> Int], NEW g \in [S -> Int], NEW x \in S,
         \A y \in S \ {x} : g[y] = f[y]
  PROVE  SumFunction(g) = SumFunction(f) + g[x] - f[x]
<1> DEFINE h == [y \in S \ {x} |-> f[y]]
<1>1. h \in [S \ {x} -> Int] /\ (\A y \in S \ {x} : h[y] = f[y]) /\ \A y \in S \ {x} : h[y] = g[y]
  OBVIOUS
<1> HIDE DEF h
<1>2. SumFunction(f) = f[x] + SumFunction(h)
  BY <1>1, SumLess
<1>3. SumFunction(g) = g[x] + SumFunction(h)
  BY <1>1, SumLess
<1>4. SumFunction(h) \in Int
  <2>1. IsFiniteSet(S \ {x})
    BY FS_Subset
  <2> QED
    BY <1>1, <2>1, SumInt
<1>5. f[x] \in Int /\ g[x] \in Int
  OBVIOUS
<1> QED
  BY <1>2, <1>3, <1>4, <1>5

\* A sum of natural numbers, one of which is not zero.
LEMMA SumPositive ==
  ASSUME NEW S, IsFiniteSet(S), NEW f \in [S -> Nat]
  PROVE  SumFunction(f) >= 0 /\ \A x \in S : SumFunction(f) >= f[x]
<1>0. f \in [S -> Int]
  OBVIOUS
<1>1. PICK c : IsSum(c, f, S) /\ SumFunction(f) = c[S] /\ SumsUp(c, f, S)
  BY <1>0, SumIs
<1>2. (\A T \in SUBSET S : c[T] \in Int) /\ \A T \in SUBSET S : \A x \in T : c[T] = f[x] + c[T \ {x}]
  BY <1>1 DEF SumsUp
<1>e. c[{}] = 0
  BY <1>1 DEF IsSum
<1> DEFINE Q == {T \in SUBSET S : c[T] >= 0}
<1>3. ASSUME NEW T \in SUBSET S, \A U \in SUBSET T : U # T => U \in Q PROVE T \in Q
  <2>1. CASE T = {}
    BY <1>e, <2>1
  <2>2. CASE T # {}
    <3>1. PICK x \in T : TRUE
      BY <2>2
    <3>2. T \ {x} \in Q /\ f[x] \in Nat
      BY <1>3, <3>1
    <3>3. c[T \ {x}] \in Int /\ c[T \ {x}] >= 0 /\ c[T] = f[x] + c[T \ {x}]
      BY <1>2, <3>2
    <3>4. c[T] >= 0
      BY <3>2, <3>3
    <3> QED
      BY <3>4
  <2> QED
    BY <2>1, <2>2
<1> HIDE DEF Q
<1>4. \A T \in SUBSET S : T \in Q
  BY <1>3, SetInd
<1>5. \A T \in SUBSET S : c[T] >= 0
  BY <1>4 DEF Q
<1>6. ASSUME NEW x \in S PROVE c[S] >= f[x]
  <2>1. c[S] = f[x] + c[S \ {x}] /\ c[S \ {x}] \in Int /\ c[S \ {x}] >= 0 /\ f[x] \in Nat
    BY <1>2, <1>5
  <2> QED
    BY <2>1
<1> QED
  BY <1>1, <1>5, <1>6

-----------------------------------------------------------------------------
(* Sorting.                                                                 *)

Keys(m) == [1 .. m -> Int]

\* Two keys differ at a first position.
LEMMA BeforeTotal ==
  ASSUME NEW m \in Nat, NEW a \in Keys(m), NEW b \in Keys(m), a # b
  PROVE  Before(a, b) \/ Before(b, a)
<1> DEFINE D == {i \in 1 .. m : a[i] # b[i]}
<1>1. D \subseteq Nat /\ D # {}
  BY DEF Keys
<1>2. \E i \in D : \A j \in D : i <= j
  <2> HIDE DEF D
  <2> QED
    BY <1>1, LeastNat
<1>3. PICK i \in D : \A j \in D : i <= j
  BY <1>2
<1>4. \A j \in 1 .. i - 1 : a[j] = b[j]
  <2> SUFFICES ASSUME NEW j \in 1 .. i - 1 PROVE a[j] = b[j]
    OBVIOUS
  <2>1. j \in 1 .. m /\ ~(i <= j)
    BY <1>3
  <2> QED
    BY <1>3, <2>1
<1>5. a[i] \in Int /\ b[i] \in Int /\ a[i] # b[i] /\ i \in DOMAIN a /\ i \in DOMAIN b
  BY <1>3 DEF Keys
<1>6. a[i] < b[i] \/ b[i] < a[i]
  BY <1>5
<1> QED
  BY <1>4, <1>5, <1>6 DEF Before

LEMMA BeforeTransitive ==
  ASSUME NEW m \in Nat, NEW a \in Keys(m), NEW b \in Keys(m), NEW c \in Keys(m), Before(a, b), Before(b, c)
  PROVE  Before(a, c)
<1>1. PICK i \in 1 .. m : a[i] < b[i] /\ \A j \in 1 .. i - 1 : a[j] = b[j]
  BY DEF Before, Keys
<1>2. PICK k \in 1 .. m : b[k] < c[k] /\ \A j \in 1 .. k - 1 : b[j] = c[j]
  BY DEF Before, Keys
<1> DEFINE n == IF i < k THEN i ELSE k
<1>3. n \in 1 .. m /\ n <= i /\ n <= k
  OBVIOUS
<1>4. \A j \in 1 .. n - 1 : j \in 1 .. i - 1 /\ j \in 1 .. k - 1
  BY <1>3
<1>5. \A j \in 1 .. n - 1 : a[j] = c[j]
  BY <1>1, <1>2, <1>4
<1>6. a[n] < c[n]
  <2>1. a[i] \in Int /\ b[i] \in Int /\ c[i] \in Int /\ a[k] \in Int /\ b[k] \in Int /\ c[k] \in Int
    BY DEF Keys
  <2>2. CASE i < k
    <3>1. b[i] = c[i]
      BY <1>2, <2>2
    <3> QED
      BY <1>1, <2>1, <2>2, <3>1
  <2>3. CASE k < i
    <3>1. a[k] = b[k]
      BY <1>1, <2>3
    <3> QED
      BY <1>2, <2>1, <2>3, <3>1
  <2>4. CASE i = k
    BY <1>1, <1>2, <2>1, <2>4
  <2> QED
    BY <2>2, <2>3, <2>4
<1>7. n \in DOMAIN a
  BY <1>3 DEF Keys
<1> HIDE DEF n
<1> QED
  BY <1>5, <1>6, <1>7 DEF Before

LEMMA BeforeIrreflexive ==
  ASSUME NEW m \in Nat, NEW a \in Keys(m)
  PROVE  ~Before(a, a)
BY DEF Before, Keys

\* The elements of S have keys of the same length, no two of them equal.
Keyed(S, key, m) ==
    /\ m \in Nat /\ IsFiniteSet(S)
    /\ \A d \in S : key[d] \in Keys(m)
    /\ \A d, e \in S : key[d] = key[e] => d = e

LEMMA BestExists ==
  ASSUME NEW S, NEW key, NEW m, Keyed(S, key, m), S # {}
  PROVE  \E d \in S : \A e \in S \ {d} : Before(key[d], key[e])
<1> DEFINE Q == {T \in SUBSET S : T # {} => \E d \in T : \A e \in T \ {d} : Before(key[d], key[e])}
<1>1. ASSUME NEW T \in SUBSET S, \A U \in SUBSET T : U # T => U \in Q PROVE T \in Q
  <2>1. ASSUME T # {} PROVE \E d \in T : \A e \in T \ {d} : Before(key[d], key[e])
    <3>1. PICK x \in T : TRUE
      BY <2>1
    <3>2. CASE T \ {x} = {}
      BY <3>1, <3>2
    <3>3. CASE T \ {x} # {}
      <4>1. T \ {x} \in Q
        BY <1>1, <3>1
      <4>2. PICK d \in T \ {x} : \A e \in (T \ {x}) \ {d} : Before(key[d], key[e])
        BY <3>3, <4>1
      <4>3. m \in Nat /\ key[x] \in Keys(m) /\ key[d] \in Keys(m) /\ key[x] # key[d]
        BY DEF Keyed
      <4>4. CASE Before(key[d], key[x])
        BY <4>2, <4>4
      <4>5. CASE Before(key[x], key[d])
        <5>1. ASSUME NEW e \in T \ {x} PROVE Before(key[x], key[e])
          <6>1. CASE e = d
            BY <4>5, <6>1
          <6>2. CASE e # d
            <7>1. key[e] \in Keys(m) /\ Before(key[d], key[e])
              BY <4>2, <6>2 DEF Keyed
            <7> QED
              BY <4>3, <4>5, <7>1, BeforeTransitive
          <6> QED
            BY <6>1, <6>2
        <5> QED
          BY <5>1
      <4> QED
        BY <4>3, <4>4, <4>5, BeforeTotal
    <3> QED
      BY <3>2, <3>3
  <2> QED
    BY <2>1
<1> HIDE DEF Q
<1>2. \A T \in SUBSET S : T \in Q
  BY <1>1, SetInd DEF Keyed
<1>3. S \in Q
  BY <1>2
<1> QED
  BY <1>3 DEF Q

LEMMA BestIs ==
  ASSUME NEW S, NEW key, NEW m, Keyed(S, key, m), S # {}
  PROVE  Best(S, key) \in S /\ \A e \in S \ {Best(S, key)} : Before(key[Best(S, key)], key[e])
<1>1. \E d \in S : \A e \in S \ {d} : Before(key[d], key[e])
  BY BestExists
<1> QED
  BY <1>1 DEF Best

LEMMA KeyedPart ==
  ASSUME NEW S, NEW key, NEW m, Keyed(S, key, m), NEW T, T \subseteq S
  PROVE  Keyed(T, key, m)
BY FS_Subset DEF Keyed

-----------------------------------------------------------------------------
(* A fold along a sequence is a chain.                                      *)

\* A function on the parts of 1 .. n that goes down from the largest element.
GoesDown(c, n, base, G) ==
    \A s \in SUBSET (1 .. n) : c[s] = IF s = {} THEN base ELSE G[s]
IsChain(c, n, base, G) ==
    /\ c[1 .. 0] = base
    /\ \A i \in 1 .. n : c[1 .. i] = G[1 .. i] /\ Max(1 .. i) = i /\ (1 .. i) \ {i} = 1 .. (i - 1)

LEMMA ChainOf ==
  ASSUME NEW n \in Nat, NEW c, NEW base, NEW G, GoesDown(c, n, base, G)
  PROVE  IsChain(c, n, base, G)
<1>0. \A s \in SUBSET (1 .. n) : c[s] = IF s = {} THEN base ELSE G[s]
  BY DEF GoesDown
<1>1. 1 .. 0 = {} /\ 1 .. 0 \in SUBSET (1 .. n)
  OBVIOUS
<1>2. c[1 .. 0] = base
  BY <1>0, <1>1
<1>3. ASSUME NEW i \in 1 .. n
      PROVE  c[1 .. i] = G[1 .. i] /\ Max(1 .. i) = i /\ (1 .. i) \ {i} = 1 .. (i - 1)
  <2>1. 1 .. i # {} /\ 1 .. i \in SUBSET (1 .. n) /\ i \in 1 .. i /\ i \in Nat
    OBVIOUS
  <2>2. c[1 .. i] = G[1 .. i]
    BY <1>0, <2>1
  <2>3. Max(1 .. i) = i
    BY <2>1, MaxIs
  <2>4. (1 .. i) \ {i} = 1 .. (i - 1)
    OBVIOUS
  <2> QED
    BY <2>2, <2>3, <2>4
<1> QED
  BY <1>2, <1>3 DEF IsChain

\* s lists the elements of S, each of them once.
IsList(s, S) ==
    /\ IsFiniteSet(S) /\ s \in [1 .. Cardinality(S) -> S] /\ Range(s) = S
    /\ \A i, j \in 1 .. Cardinality(S) : s[i] = s[j] => i = j

\* s is the list of the elements of S by their keys.
InOrder(s, S, key) ==
    /\ IsList(s, S)
    /\ \A i, j \in 1 .. Cardinality(S) : i < j => Before(key[s[i]], key[s[j]])

SortsBy(g, n, S, key) ==
    /\ g[0] = << >> /\ Sorted(S, key) = g[n]
    /\ \A i \in 1 .. n : g[i] = Append(g[i - 1], Best(S \ Range(g[i - 1]), key))

LEMMA SortedChain ==
  ASSUME NEW S, NEW key, NEW m, Keyed(S, key, m), NEW n, n = Cardinality(S)
  PROVE  \E g : SortsBy(g, n, S, key)
<1>n. n \in Nat
  BY FS_CardinalityType DEF Keyed
<1> DEFINE seq == [i \in 1 .. n |-> i]
           E == S \cup {Best({}, key)}
           A == Seq(E)
           F == [p \in A \X (1 .. n) |-> Append(p[1], Best(S \ Range(p[1]), key))]
           c == CHOOSE iter : iter = [s \in SUBSET DOMAIN seq |-> IF s = {} THEN << >>
                   ELSE Append(iter[s \ {Max(s)}], Best(S \ Range(iter[s \ {Max(s)}]), key))]
<1>1. Sorted(S, key) = c[DOMAIN seq]
  BY DEF Sorted, FoldLeft, MapThenFoldSet
<1>2. DOMAIN seq = 1 .. n /\ seq \in [1 .. n -> 1 .. n]
  OBVIOUS
<1>3. \A T \in SUBSET S : Best(T, key) \in E
  <2>1. ASSUME NEW T \in SUBSET S, T # {} PROVE Best(T, key) \in S
    <3>1. Keyed(T, key, m)
      BY KeyedPart
    <3> QED
      BY <2>1, <3>1, BestIs
  <2> QED
    BY <2>1
<1>4. F \in [A \X (1 .. n) -> A] /\ << >> \in A
  <2>1. ASSUME NEW p \in A \X (1 .. n) PROVE Append(p[1], Best(S \ Range(p[1]), key)) \in A
    <3>1. S \ Range(p[1]) \in SUBSET S /\ p[1] \in A
      OBVIOUS
    <3>2. Best(S \ Range(p[1]), key) \in E
      BY <1>3, <3>1
    <3> HIDE DEF E
    <3> QED
      BY <3>1, <3>2
  <2> HIDE DEF E
  <2> QED
    BY <2>1
<1>5. PICK h \in [SUBSET (1 .. n) -> A] : FoldsDown(h, n, seq, << >>, F)
  <2>1. seq \in [1 .. n -> 1 .. n] /\ << >> \in A /\ F \in [A \X (1 .. n) -> A]
    BY <1>2, <1>4
  <2> HIDE DEF A, F, seq
  <2> QED
    BY <1>n, <2>1, FoldExists
<1>6. h = [s \in SUBSET (1 .. n) |-> IF s = {} THEN << >>
                   ELSE Append(h[s \ {Max(s)}], Best(S \ Range(h[s \ {Max(s)}]), key))]
  <2>1. ASSUME NEW s \in SUBSET (1 .. n), s # {}
        PROVE  F[<<h[s \ {Max(s)}], seq[Max(s)]>>] = Append(h[s \ {Max(s)}], Best(S \ Range(h[s \ {Max(s)}]), key))
    <3>1. Max(s) \in s
      BY <1>n, <2>1, MaxIn
    <3>2. h[s \ {Max(s)}] \in A /\ seq[Max(s)] \in 1 .. n
      BY <3>1
    <3> HIDE DEF A, seq
    <3> QED
      BY <3>2
  <2> HIDE DEF F, seq, A
  <2>2. \A s \in SUBSET (1 .. n) : h[s] = IF s = {} THEN << >> ELSE F[<<h[s \ {Max(s)}], seq[Max(s)]>>]
    BY <1>5 DEF FoldsDown
  <2> QED
    BY <2>1, <2>2
<1>7. c = [s \in SUBSET DOMAIN seq |-> IF s = {} THEN << >>
                   ELSE Append(c[s \ {Max(s)}], Best(S \ Range(c[s \ {Max(s)}]), key))]
  <2>1. h = [s \in SUBSET DOMAIN seq |-> IF s = {} THEN << >>
                   ELSE Append(h[s \ {Max(s)}], Best(S \ Range(h[s \ {Max(s)}]), key))]
    BY <1>2, <1>6
  <2> HIDE DEF seq
  <2> QED
    BY <2>1
<1> HIDE DEF c, seq, F, A
<1> DEFINE G == [s \in SUBSET (1 .. n) |-> Append(c[s \ {Max(s)}], Best(S \ Range(c[s \ {Max(s)}]), key))]
           g == [i \in 0 .. n |-> c[1 .. i]]
<1>8. GoesDown(c, n, << >>, G)
  BY <1>2, <1>7 DEF GoesDown
<1>9. /\ c[1 .. 0] = << >>
      /\ \A i \in 1 .. n : c[1 .. i] = G[1 .. i] /\ Max(1 .. i) = i /\ (1 .. i) \ {i} = 1 .. (i - 1)
  <2> HIDE DEF G
  <2>1. IsChain(c, n, << >>, G)
    BY <1>n, <1>8, ChainOf
  <2> QED
    BY <2>1 DEF IsChain
<1>10. ASSUME NEW i \in 1 .. n PROVE g[i] = Append(g[i - 1], Best(S \ Range(g[i - 1]), key))
  <2>1. 1 .. i \in SUBSET (1 .. n) /\ i - 1 \in 0 .. n /\ i \in 0 .. n
    BY <1>n
  <2>2. G[1 .. i] = Append(c[1 .. (i - 1)], Best(S \ Range(c[1 .. (i - 1)]), key))
    BY <1>9, <2>1
  <2> QED
    BY <1>9, <2>1, <2>2
<1>11. g[0] = << >> /\ g[n] = c[1 .. n]
  BY <1>9, <1>n
<1> HIDE DEF g
<1>12. SortsBy(g, n, S, key)
  BY <1>1, <1>2, <1>10, <1>11 DEF SortsBy
<1> QED
  BY <1>12

\* The first i elements of S are in s.
Placed(s, i, S, key) ==
    /\ s \in [1 .. i -> S]
    /\ \A a, b \in 1 .. i : a < b => Before(key[s[a]], key[s[b]])
    /\ \A a \in 1 .. i : \A y \in S \ Range(s) : Before(key[s[a]], key[y])
    /\ Cardinality(S \ Range(s)) = Cardinality(S) - i

LEMMA PlacedNext ==
  ASSUME NEW S, NEW key, NEW m, Keyed(S, key, m), NEW i \in 1 .. Cardinality(S), NEW s,
         Placed(s, i - 1, S, key)
  PROVE  Placed(Append(s, Best(S \ Range(s), key)), i, S, key)
<1> DEFINE n == Cardinality(S)
           R == S \ Range(s)
           d == Best(R, key)
           t == Append(s, d)
<1>1. n \in Nat /\ IsFiniteSet(S) /\ i \in Nat /\ i <= n /\ i >= 1
  BY FS_CardinalityType DEF Keyed
<1> HIDE DEF n
<1>2. Cardinality(R) = n - (i - 1) /\ IsFiniteSet(R) /\ R \subseteq S /\ s \in [1 .. (i - 1) -> S]
  BY <1>1, FS_Subset DEF Placed, n
<1>3. R # {}
  BY <1>1, <1>2, FS_EmptySet
<1>4. Keyed(R, key, m)
  BY <1>2, KeyedPart
<1>5. d \in R /\ \A e \in R \ {d} : Before(key[d], key[e])
  <2> HIDE DEF R
  <2> QED
    BY <1>3, <1>4, BestIs
<1> HIDE DEF d
<1>6. t \in [1 .. i -> S] /\ (\A a \in 1 .. i - 1 : t[a] = s[a]) /\ t[i] = d
  <2>1. Len(s) = i - 1 /\ s \in Seq(S) /\ d \in S
    BY <1>1, <1>2, <1>5
  <2>2. t \in Seq(S) /\ Len(t) = i /\ t[i] = d /\ \A a \in 1 .. i - 1 : t[a] = s[a]
    BY <1>1, <2>1, AppendProperties
  <2> HIDE DEF t
  <2> QED
    BY <1>1, <2>2
<1>7. Range(t) = Range(s) \cup {d}
  <2>1. DOMAIN t = 1 .. i /\ DOMAIN s = 1 .. (i - 1) /\ 1 .. i = (1 .. (i - 1)) \cup {i}
    BY <1>1, <1>2, <1>6
  <2> HIDE DEF t
  <2> QED
    BY <1>6, <2>1 DEF Range
<1>8. S \ Range(t) = R \ {d}
  BY <1>7
<1>9. Cardinality(R \ {d}) = n - i
  <2>1. Cardinality(R \ {d}) = Cardinality(R) - 1
    BY <1>2, <1>5, FS_RemoveElement
  <2> HIDE DEF R
  <2> QED
    BY <1>1, <1>2, <2>1
<1>10. ASSUME NEW a \in 1 .. i - 1, NEW y \in R PROVE Before(key[s[a]], key[y])
  BY <1>10 DEF Placed
<1>11. ASSUME NEW a \in 1 .. i, NEW b \in 1 .. i, a < b PROVE Before(key[t[a]], key[t[b]])
  <2>1. CASE b = i
    <3>1. a \in 1 .. i - 1 /\ t[a] = s[a] /\ t[b] = d
      BY <1>6, <1>11, <2>1
    <3> HIDE DEF t, R
    <3> QED
      BY <1>5, <1>10, <3>1
  <2>2. CASE b # i
    <3>1. a \in 1 .. i - 1 /\ b \in 1 .. i - 1 /\ t[a] = s[a] /\ t[b] = s[b]
      BY <1>6, <1>11, <2>2
    <3> HIDE DEF t, R
    <3> QED
      BY <1>11, <3>1 DEF Placed
  <2> QED
    BY <2>1, <2>2
<1>12. ASSUME NEW a \in 1 .. i, NEW y \in R \ {d} PROVE Before(key[t[a]], key[y])
  <2>1. CASE a = i
    BY <1>5, <1>6, <2>1
  <2>2. CASE a # i
    <3>1. a \in 1 .. i - 1 /\ t[a] = s[a]
      BY <1>6, <2>2
    <3> HIDE DEF t, R
    <3> QED
      BY <1>10, <3>1
  <2> QED
    BY <2>1, <2>2
<1> HIDE DEF t, R
<1>13. Placed(t, i, S, key)
  BY <1>6, <1>8, <1>9, <1>11, <1>12 DEF Placed, n
<1> QED
  BY <1>13 DEF t, R, d

LEMMA SortedIs ==
  ASSUME NEW S, NEW key, NEW m, Keyed(S, key, m)
  PROVE  InOrder(Sorted(S, key), S, key)
<1> DEFINE n == Cardinality(S)
<1>1. n \in Nat /\ IsFiniteSet(S)
  BY FS_CardinalityType DEF Keyed
<1>g. PICK g : SortsBy(g, n, S, key)
  BY SortedChain
<1>2. /\ g[0] = << >> /\ Sorted(S, key) = g[n]
      /\ \A i \in 1 .. n : g[i] = Append(g[i - 1], Best(S \ Range(g[i - 1]), key))
  BY <1>g DEF SortsBy
<1> DEFINE T == {i \in 0 .. n : Placed(g[i], i, S, key)}
<1>3. 0 \in T
  <2>1. Range(<< >>) = {} /\ S \ Range(<< >>) = S /\ << >> \in [1 .. 0 -> S] /\ 1 .. 0 = {}
    BY DEF Range
  <2>3. n - 0 = n
    BY <1>1
  <2>2. Placed(<< >>, 0, S, key)
    BY <2>1, <2>3 DEF Placed
  <2> QED
    BY <1>1, <1>2, <2>2
<1>4. ASSUME NEW i \in 1 .. n, i - 1 \in T PROVE i \in T
  <2>1. Placed(Append(g[i - 1], Best(S \ Range(g[i - 1]), key)), i, S, key)
    BY <1>4, PlacedNext
  <2>2. Placed(g[i], i, S, key)
    BY <1>2, <2>1
  <2>3. i \in 0 .. n
    BY <1>1
  <2> QED
    BY <2>2, <2>3
<1> HIDE DEF T
<1>5. n \in T
  <2> HIDE DEF n
  <2>1. \A i \in 0 .. n : i \in T
    BY <1>1, <1>3, <1>4, NatInd
  <2> QED
    BY <1>1, <2>1
<1> DEFINE s == Sorted(S, key)
<1>6. Placed(s, n, S, key)
  BY <1>2, <1>5 DEF T
<1> HIDE DEF s
<1>7. s \in [1 .. n -> S] /\ \A a, b \in 1 .. n : a < b => Before(key[s[a]], key[s[b]])
  BY <1>6 DEF Placed
<1>8. Range(s) = S
  <2>1. IsFiniteSet(S \ Range(s)) /\ Cardinality(S \ Range(s)) = 0
    <3>1. Cardinality(S \ Range(s)) = n - n
      BY <1>6 DEF Placed
    <3>2. IsFiniteSet(S \ Range(s))
      BY <1>1, FS_Subset
    <3> HIDE DEF n
    <3> QED
      BY <1>1, <3>1, <3>2
  <2>2. S \ Range(s) = {}
    BY <2>1, FS_EmptySet
  <2>3. Range(s) \subseteq S
    BY <1>7 DEF Range
  <2> QED
    BY <2>2, <2>3
<1>9. ASSUME NEW i \in 1 .. n, NEW j \in 1 .. n, s[i] = s[j] PROVE i = j
  <2>1. key[s[i]] \in Keys(m) /\ m \in Nat
    BY <1>7 DEF Keyed
  <2>2. ~Before(key[s[i]], key[s[i]])
    BY <2>1, BeforeIrreflexive
  <2>3. ~(i < j) /\ ~(j < i)
    <3> HIDE DEF n
    <3> QED
      BY <1>7, <1>9, <2>2
  <2> QED
    BY <1>1, <2>3
<1> QED
  BY <1>1, <1>7, <1>8, <1>9 DEF InOrder, IsList, s

\* The elements of a list by their places.
LEMMA PlaceIs ==
  ASSUME NEW rows, NEW S, IsList(rows, S), NEW i \in 1 .. Cardinality(S)
  PROVE  Place(rows, rows[i]) = i
<1>1. DOMAIN rows = 1 .. Cardinality(S)
  BY DEF IsList
<1>2. \A j \in DOMAIN rows : rows[j] = rows[i] <=> j = i
  BY <1>1 DEF IsList
<1> QED
  BY <1>1, <1>2 DEF Place

LEMMA PlaceIn ==
  ASSUME NEW rows, NEW S, IsList(rows, S), NEW d \in S
  PROVE  Place(rows, d) \in 1 .. Cardinality(S) /\ rows[Place(rows, d)] = d
<1>1. PICK i \in 1 .. Cardinality(S) : rows[i] = d
  BY DEF IsList, Range
<1> QED
  BY <1>1, PlaceIs

LEMMA PlaceKeys ==
  ASSUME NEW rows, NEW S, IsList(rows, S)
  PROVE  Keyed(S, [d \in S |-> <<Place(rows, d)>>], 1)
<1> DEFINE key == [d \in S |-> <<Place(rows, d)>>]
<1>1. \A d \in S : Place(rows, d) \in Int /\ rows[Place(rows, d)] = d
  <2>1. Cardinality(S) \in Nat
    BY FS_CardinalityType DEF IsList
  <2> QED
    BY <2>1, PlaceIn
<1>2. \A d \in S : key[d] \in Keys(1) /\ key[d][1] = Place(rows, d)
  BY <1>1 DEF Keys
<1>3. \A d, e \in S : key[d] = key[e] => d = e
  BY <1>1, <1>2
<1> HIDE DEF key
<1>4. Keyed(S, key, 1)
  BY <1>2, <1>3 DEF Keyed, IsList
<1> QED
  BY <1>4 DEF key

LEMMA KeptIs ==
  ASSUME NEW rows, NEW S, IsList(rows, S), NEW T
  PROVE  InOrder(Kept(rows, T), S \cap T, [d \in S |-> <<Place(rows, d)>>])
<1>1. Range(rows) = S
  BY DEF IsList
<1>2. Keyed(S, [d \in S |-> <<Place(rows, d)>>], 1)
  BY PlaceKeys
<1>3. Keyed(S \cap T, [d \in S |-> <<Place(rows, d)>>], 1)
  BY <1>2, KeyedPart
<1> QED
  BY <1>1, <1>3, SortedIs DEF Kept


-----------------------------------------------------------------------------
(* The allocation of a stock.                                               *)

Ids(q) == {i.id : i \in Stock(q)}
Statuses == {"PANTRY_UNVERIFIED", "UNKNOWN_AMOUNT", "UNIT_MISMATCH", "SUFFICIENT", "SHORTAGE"}
LineRows(d) == [name : LineNames(d), status : Statuses, got : Nat, need : Nat]
Accs(q, d) == [left : [Ids(q) -> Nat], got : Nat, rows : Seq(LineRows(d)),
               unresolved : SUBSET Ids(q), linked : SUBSET Ids(q)]

LEMMA StockIs ==
  ASSUME NEW q, IsRequest(q)
  PROVE  /\ IsFiniteSet(Stock(q)) /\ Stock(q) \subseteq q.stock
         /\ \A i \in Stock(q) : i.id \in Nat /\ i.id \in Ids(q) /\ i.days \in Int /\ i.amount \in Nat /\ i.amount > 0
         /\ \A i, j \in Stock(q) : i.id = j.id => i = j
<1>1. IsFiniteSet(q.stock) /\ Stock(q) \subseteq q.stock
  BY DEF IsRequest, Stock
<1>2. IsFiniteSet(Stock(q))
  BY <1>1, FS_Subset
<1>3. \A i \in q.stock : i.id \in Nat /\ i.days \in Int /\ i.amount \in Nat /\ i.amount > 0
  BY DEF IsRequest
<1>4. \A i, j \in q.stock : i.id = j.id => i = j
  BY DEF IsRequest
<1> HIDE DEF Stock
<1> QED
  BY <1>1, <1>2, <1>3, <1>4 DEF Ids

\* A lot gives what is needed and what it has left.
Drawn(q, d, need, a, i, b) ==
    /\ b \in Accs(q, d) /\ b.got <= need /\ b.rows = a.rows
    /\ b.left[i.id] <= a.left[i.id]
    /\ \A m \in Ids(q) \ {i.id} : b.left[m] = a.left[m]
    /\ b.got = a.got + a.left[i.id] - b.left[i.id]
    /\ b.got < need => b.left[i.id] = 0
    /\ b.left[i.id] < a.left[i.id] => a.got < need

LEMMA DrawIs ==
  ASSUME NEW q, IsRequest(q), NEW d, NEW need \in Nat, NEW a \in Accs(q, d), a.got <= need, NEW i \in Stock(q)
  PROVE  Drawn(q, d, need, a, i, Draw(need, a, i))
<1> DEFINE amount == Least(need - a.got, a.left[i.id])
           more == IF amount > 0 \/ a.got + amount < need THEN {i.id} ELSE {}
           left == [a.left EXCEPT ![i.id] = a.left[i.id] - amount]
           got == a.got + amount
           linked == a.linked \cup more
           b == [a EXCEPT !.got = got, !.left = left, !.linked = linked]
<1>1. i.id \in Ids(q)
  BY StockIs
<1>2. a.got \in Nat /\ a.left \in [Ids(q) -> Nat] /\ a.left[i.id] \in Nat /\ a.linked \in SUBSET Ids(q)
  BY <1>1 DEF Accs
<1>3. amount \in Nat /\ amount <= need - a.got /\ amount <= a.left[i.id]
      /\ (amount = need - a.got \/ amount = a.left[i.id])
  BY <1>2 DEF Least
<1>4. Draw(need, a, i) = b
  BY DEF Draw, Accs
<1> HIDE DEF amount
<1>5. left \in [Ids(q) -> Nat] /\ left[i.id] = a.left[i.id] - amount /\ \A m \in Ids(q) \ {i.id} : left[m] = a.left[m]
  BY <1>1, <1>2, <1>3
<1>6. linked \in SUBSET Ids(q) /\ got \in Nat
  BY <1>1, <1>2, <1>3
<1> HIDE DEF left, more, got, linked
<1>7. b \in Accs(q, d) /\ b.got = got /\ b.left = left /\ b.rows = a.rows
  BY <1>5, <1>6 DEF Accs
<1> HIDE DEF b
<1>9. /\ got <= need /\ left[i.id] <= a.left[i.id] /\ got = a.got + a.left[i.id] - left[i.id]
      /\ got < need => left[i.id] = 0
      /\ left[i.id] < a.left[i.id] => a.got < need
  BY <1>2, <1>3, <1>5 DEF got
<1>8. Drawn(q, d, need, a, i, b)
  BY <1>5, <1>7, <1>9 DEF Drawn
<1> QED
  BY <1>4, <1>8

\* What has been used of a food.
Spent(q, left, n) == SumFunction([i \in {j \in Stock(q) : j.name = n} |-> i.amount - left[i.id]])

LEMMA SpentIs ==
  ASSUME NEW q, IsRequest(q), NEW left \in [Ids(q) -> Nat], NEW n
  PROVE  Spent(q, left, n) \in Int
<1> DEFINE S == {j \in Stock(q) : j.name = n}
           f == [i \in S |-> i.amount - left[i.id]]
<1>1. IsFiniteSet(S)
  <2>1. IsFiniteSet(Stock(q)) /\ S \subseteq Stock(q)
    BY StockIs
  <2> QED
    BY <2>1, FS_Subset
<1>2. f \in [S -> Int]
  <2>1. \A i \in S : i.amount \in Nat /\ i.id \in Ids(q)
    BY StockIs
  <2>2. \A i \in S : i.amount - left[i.id] \in Int
    BY <2>1
  <2> HIDE DEF S
  <2> QED
    BY <2>2
<1>3. Spent(q, left, n) = SumFunction(f)
  BY DEF Spent
<1> HIDE DEF S, f
<1> QED
  BY <1>1, <1>2, <1>3, SumInt

LEMMA SpentChanges ==
  ASSUME NEW q, IsRequest(q), NEW left \in [Ids(q) -> Nat], NEW rest \in [Ids(q) -> Nat], NEW i \in Stock(q),
         \A m \in Ids(q) \ {i.id} : rest[m] = left[m], NEW n
  PROVE  Spent(q, rest, n) = Spent(q, left, n) + IF n = i.name THEN left[i.id] - rest[i.id] ELSE 0
<1> DEFINE S == {j \in Stock(q) : j.name = n}
           f == [j \in S |-> j.amount - left[j.id]]
           g == [j \in S |-> j.amount - rest[j.id]]
<1>1. IsFiniteSet(S)
  <2>1. IsFiniteSet(Stock(q)) /\ S \subseteq Stock(q)
    BY StockIs
  <2> QED
    BY <2>1, FS_Subset
<1>2. \A j \in S : j.amount \in Nat /\ j.id \in Ids(q) /\ left[j.id] \in Nat /\ rest[j.id] \in Nat
  BY StockIs
<1>3. \A j \in S : j # i => j.id # i.id
  BY StockIs
<1>4. f \in [S -> Int] /\ g \in [S -> Int] /\ \A j \in S \ {i} : g[j] = f[j]
  <2> HIDE DEF S
  <2> QED
    BY <1>2, <1>3
<1>5. Spent(q, left, n) = SumFunction(f) /\ Spent(q, rest, n) = SumFunction(g)
  BY DEF Spent
<1>6. CASE n = i.name
  <2>1. i \in S /\ f[i] = i.amount - left[i.id] /\ g[i] = i.amount - rest[i.id]
    BY <1>6
  <2>2. SumFunction(f) \in Int
    <3> HIDE DEF S, f, g
    <3> QED
      BY <1>1, <1>4, SumInt
  <2>3. SumFunction(g) = SumFunction(f) + g[i] - f[i]
    <3> HIDE DEF S, f, g
    <3> QED
      BY <1>1, <1>4, <2>1, SumChanged
  <2>4. i.amount \in Nat /\ left[i.id] \in Nat /\ rest[i.id] \in Nat
    BY <1>2, <2>1
  <2> HIDE DEF S, f, g
  <2> QED
    BY <1>5, <1>6, <2>1, <2>2, <2>3, <2>4
<1>7. CASE n # i.name
  <2>1. i \notin S
    BY <1>7
  <2>2. f = g
    <3>1. \A j \in S : f[j] = g[j]
      BY <1>4, <2>1
    <3> QED
      BY <1>4, <3>1
  <2>3. SumFunction(f) \in Int
    <3> HIDE DEF S, f, g
    <3> QED
      BY <1>1, <1>4, SumInt
  <2> HIDE DEF f, g, S
  <2> QED
    BY <1>5, <1>7, <2>2, <2>3
<1> QED
  BY <1>6, <1>7

-----------------------------------------------------------------------------
(* A line takes from one lot after the other.                               *)

Within(q, d, need) == {a \in Accs(q, d) : a.got <= need}
Took(need, base, lots) == FoldLeft(LAMBDA a, i : Draw(need, a, i), base, lots)
Draws(g, n, need, lots, base) ==
    /\ g[0] = base /\ Took(need, base, lots) = g[n]
    /\ \A i \in 1 .. n : g[i] = Draw(need, g[i - 1], lots[i])

LEMMA DrawsChain ==
  ASSUME NEW q, IsRequest(q), NEW d, NEW need \in Nat, NEW n \in Nat, NEW lots \in [1 .. n -> Stock(q)],
         NEW base \in Within(q, d, need)
  PROVE  \E g : Draws(g, n, need, lots, base)
<1>n. n \in Nat /\ lots \in [1 .. n -> Stock(q)] /\ DOMAIN lots = 1 .. n /\ base \in Within(q, d, need)
  OBVIOUS
<1> DEFINE F == [p \in Within(q, d, need) \X Stock(q) |-> Draw(need, p[1], p[2])]
           c == CHOOSE iter : iter = [s \in SUBSET DOMAIN lots |-> IF s = {} THEN base
                   ELSE Draw(need, iter[s \ {Max(s)}], lots[Max(s)])]
<1>1. Took(need, base, lots) = c[1 .. n]
  BY <1>n DEF Took, FoldLeft, MapThenFoldSet
<1>2. F \in [Within(q, d, need) \X Stock(q) -> Within(q, d, need)]
  <2>1. ASSUME NEW a \in Within(q, d, need), NEW i \in Stock(q) PROVE Draw(need, a, i) \in Within(q, d, need)
    BY DrawIs DEF Within, Drawn
  <2> QED
    BY <2>1
<1>3. PICK h \in [SUBSET (1 .. n) -> Within(q, d, need)] : FoldsDown(h, n, lots, base, F)
  <2> HIDE DEF F
  <2> QED
    BY <1>n, <1>2, FoldExists
<1>4. ASSUME NEW s \in SUBSET (1 .. n), s # {}
      PROVE  h[s] = Draw(need, h[s \ {Max(s)}], lots[Max(s)])
  <2>1. Max(s) \in s
    BY <1>n, <1>4, MaxIn
  <2>2. h[s \ {Max(s)}] \in Within(q, d, need) /\ lots[Max(s)] \in Stock(q)
    BY <1>n, <2>1
  <2>3. h[s] = F[<<h[s \ {Max(s)}], lots[Max(s)]>>]
    <3> HIDE DEF F
    <3> QED
      BY <1>3, <1>4 DEF FoldsDown
  <2> HIDE DEF c
  <2> QED
    BY <2>2, <2>3
<1>5. h = [s \in SUBSET DOMAIN lots |-> IF s = {} THEN base
                   ELSE Draw(need, h[s \ {Max(s)}], lots[Max(s)])]
  <2>1. h[{}] = base
    BY <1>3 DEF FoldsDown
  <2> HIDE DEF F, c
  <2> QED
    BY <1>n, <1>4, <2>1
<1>6. c = [s \in SUBSET DOMAIN lots |-> IF s = {} THEN base
                   ELSE Draw(need, c[s \ {Max(s)}], lots[Max(s)])]
  <2> HIDE DEF F
  <2> QED
    BY <1>5
<1> HIDE DEF c, F
<1> DEFINE G == [s \in SUBSET (1 .. n) |-> Draw(need, c[s \ {Max(s)}], lots[Max(s)])]
           g == [i \in 0 .. n |-> c[1 .. i]]
<1>7. GoesDown(c, n, base, G)
  BY <1>n, <1>6 DEF GoesDown
<1>8. IsChain(c, n, base, G)
  <2> HIDE DEF G
  <2> QED
    BY <1>n, <1>7, ChainOf
<1>9. ASSUME NEW i \in 1 .. n PROVE g[i] = Draw(need, g[i - 1], lots[i])
  <2>1. 1 .. i \in SUBSET (1 .. n) /\ i - 1 \in 0 .. n /\ i \in 0 .. n
    BY <1>n
  <2>2. c[1 .. i] = G[1 .. i] /\ Max(1 .. i) = i /\ (1 .. i) \ {i} = 1 .. (i - 1)
    BY <1>8 DEF IsChain
  <2>3. G[1 .. i] = Draw(need, c[1 .. (i - 1)], lots[i])
    BY <2>1, <2>2
  <2> QED
    BY <2>1, <2>2, <2>3
<1>10. g[0] = base /\ g[n] = c[1 .. n]
  BY <1>8, <1>n DEF IsChain
<1> HIDE DEF g
<1>11. Draws(g, n, need, lots, base)
  BY <1>1, <1>9, <1>10 DEF Draws
<1> QED
  BY <1>11

\* What k lots of the food nm have given.
SoFar(q, d, need, base, lots, nm, k, a) ==
    /\ a \in Within(q, d, need) /\ a.rows = base.rows
    /\ \A m \in Ids(q) : a.left[m] <= base.left[m]
    /\ \A m \in Ids(q) : (\A x \in 1 .. k : lots[x].id # m) => a.left[m] = base.left[m]
    /\ a.got < need => \A x \in 1 .. k : a.left[lots[x].id] = 0
    /\ \A x, y \in 1 .. k : x < y /\ a.left[lots[y].id] < base.left[lots[y].id] => a.left[lots[x].id] = 0
    /\ \A m : Spent(q, a.left, m) = Spent(q, base.left, m) + IF m = nm THEN a.got ELSE 0

\* The lots of one food, in some order.
LotsOf(q, lots, nm, n) ==
    /\ lots \in [1 .. n -> Stock(q)]
    /\ \A x \in 1 .. n : lots[x].name = nm
    /\ \A x, y \in 1 .. n : lots[x].id = lots[y].id => x = y

LEMMA SoFarNext ==
  ASSUME NEW q, IsRequest(q), NEW d, NEW need \in Nat, NEW n \in Nat, NEW nm, NEW lots, LotsOf(q, lots, nm, n),
         NEW base \in Accs(q, d), NEW k \in 1 .. n, NEW a, SoFar(q, d, need, base, lots, nm, k - 1, a)
  PROVE  SoFar(q, d, need, base, lots, nm, k, Draw(need, a, lots[k]))
<1> DEFINE i == lots[k]
           b == Draw(need, a, i)
<1>1. i \in Stock(q) /\ i.name = nm /\ i.id \in Ids(q)
  BY DEF LotsOf, Ids
<1>2. a \in Accs(q, d) /\ a.got <= need
  BY DEF SoFar, Within
<1> HIDE DEF i
<1>3. Drawn(q, d, need, a, i, b)
  BY <1>1, <1>2, DrawIs
<1> HIDE DEF b
<1>4. /\ b \in Accs(q, d) /\ b.got <= need /\ b.rows = a.rows
      /\ b.left[i.id] <= a.left[i.id]
      /\ \A m \in Ids(q) \ {i.id} : b.left[m] = a.left[m]
      /\ b.got = a.got + a.left[i.id] - b.left[i.id]
      /\ b.got < need => b.left[i.id] = 0
      /\ b.left[i.id] < a.left[i.id] => a.got < need
  BY <1>3 DEF Drawn
<1>5. /\ a.left \in [Ids(q) -> Nat] /\ b.left \in [Ids(q) -> Nat] /\ base.left \in [Ids(q) -> Nat]
      /\ a.got \in Nat /\ b.got \in Nat
  BY <1>2, <1>4 DEF Accs
<1>6. /\ a.rows = base.rows
      /\ \A m \in Ids(q) : a.left[m] <= base.left[m]
      /\ \A m \in Ids(q) : (\A x \in 1 .. k - 1 : lots[x].id # m) => a.left[m] = base.left[m]
      /\ a.got < need => \A x \in 1 .. k - 1 : a.left[lots[x].id] = 0
      /\ \A x, y \in 1 .. k - 1 :
            x < y /\ a.left[lots[y].id] < base.left[lots[y].id] => a.left[lots[x].id] = 0
      /\ \A m : Spent(q, a.left, m) = Spent(q, base.left, m) + IF m = nm THEN a.got ELSE 0
  BY DEF SoFar
<1>7. \A x \in 1 .. k - 1 : x \in 1 .. n /\ lots[x].id \in Ids(q) /\ lots[x].id # i.id
  <2> SUFFICES ASSUME NEW x \in 1 .. k - 1 PROVE x \in 1 .. n /\ lots[x].id \in Ids(q) /\ lots[x].id # i.id
    OBVIOUS
  <2>1. x \in 1 .. n /\ x # k
    OBVIOUS
  <2> QED
    BY <2>1 DEF LotsOf, Ids, i
<1>8. \A x \in 1 .. k : x = k \/ x \in 1 .. k - 1
  OBVIOUS
<1>9. \A m \in Ids(q) : b.left[m] \in Nat /\ a.left[m] \in Nat /\ base.left[m] \in Nat
  BY <1>5
<1>10. \A m \in Ids(q) : b.left[m] <= a.left[m] /\ b.left[m] <= base.left[m]
  <2> SUFFICES ASSUME NEW m \in Ids(q) PROVE b.left[m] <= a.left[m] /\ b.left[m] <= base.left[m]
    OBVIOUS
  <2>1. b.left[m] <= a.left[m]
    BY <1>4, <1>9
  <2> QED
    BY <1>6, <1>9, <2>1
<1>11. \A m \in Ids(q) : (\A x \in 1 .. k : lots[x].id # m) => b.left[m] = base.left[m]
  <2> SUFFICES ASSUME NEW m \in Ids(q), \A x \in 1 .. k : lots[x].id # m PROVE b.left[m] = base.left[m]
    OBVIOUS
  <2>1. k \in 1 .. k /\ \A x \in 1 .. k - 1 : x \in 1 .. k
    OBVIOUS
  <2>2. m # i.id /\ \A x \in 1 .. k - 1 : lots[x].id # m
    BY <2>1 DEF i
  <2> QED
    BY <1>4, <1>6, <2>2
<1>12. ASSUME b.got < need, NEW x \in 1 .. k PROVE b.left[lots[x].id] = 0
  <2>1. a.got < need
    BY <1>1, <1>4, <1>5, <1>9, <1>12
  <2>2. CASE x = k
    BY <1>4, <1>12, <2>2 DEF i
  <2>3. CASE x \in 1 .. k - 1
    BY <1>4, <1>6, <1>7, <2>1, <2>3
  <2> QED
    BY <1>8, <2>2, <2>3
<1>13. ASSUME NEW x \in 1 .. k, NEW y \in 1 .. k, x < y, b.left[lots[y].id] < base.left[lots[y].id]
       PROVE  b.left[lots[x].id] = 0
  <2>1. x \in 1 .. k - 1
    BY <1>13
  <2>2. b.left[lots[x].id] = a.left[lots[x].id]
    BY <1>4, <1>7, <2>1
  <2>3. CASE y = k
    <3>1. a.left[i.id] = base.left[i.id]
      BY <1>1, <1>6, <1>7
    <3>2. b.left[i.id] < a.left[i.id]
      BY <1>13, <2>3, <3>1 DEF i
    <3> QED
      BY <1>4, <1>6, <2>1, <2>2, <3>2
  <2>4. CASE y \in 1 .. k - 1
    <3>1. b.left[lots[y].id] = a.left[lots[y].id]
      BY <1>4, <1>7, <2>4
    <3> QED
      BY <1>6, <1>13, <2>1, <2>2, <2>4, <3>1
  <2> QED
    BY <1>8, <2>3, <2>4
<1>14. ASSUME NEW m PROVE Spent(q, b.left, m) = Spent(q, base.left, m) + IF m = nm THEN b.got ELSE 0
  <2>1. Spent(q, b.left, m) = Spent(q, a.left, m) + IF m = nm THEN a.left[i.id] - b.left[i.id] ELSE 0
    BY <1>1, <1>4, <1>5, SpentChanges
  <2>2. Spent(q, a.left, m) = Spent(q, base.left, m) + IF m = nm THEN a.got ELSE 0
    BY <1>6
  <2>3. Spent(q, base.left, m) \in Int /\ a.left[i.id] \in Nat /\ b.left[i.id] \in Nat
    BY <1>1, <1>5, <1>9, SpentIs
  <2>4. b.got = a.got + a.left[i.id] - b.left[i.id]
    BY <1>4
  <2> QED
    BY <1>5, <2>1, <2>2, <2>3, <2>4
<1>15. SoFar(q, d, need, base, lots, nm, k, b)
  BY <1>4, <1>6, <1>10, <1>11, <1>12, <1>13, <1>14 DEF SoFar, Within
<1> QED
  BY <1>15 DEF b, i

LEMMA TookIs ==
  ASSUME NEW q, IsRequest(q), NEW d, NEW need \in Nat, NEW n \in Nat, NEW nm, NEW lots, LotsOf(q, lots, nm, n),
         NEW base \in Accs(q, d), base.got = 0
  PROVE  SoFar(q, d, need, base, lots, nm, n, Took(need, base, lots))
<1>1. lots \in [1 .. n -> Stock(q)] /\ base \in Within(q, d, need)
  BY DEF LotsOf, Within
<1>2. PICK g : Draws(g, n, need, lots, base)
  BY <1>1, DrawsChain
<1>3. g[0] = base /\ Took(need, base, lots) = g[n] /\ \A i \in 1 .. n : g[i] = Draw(need, g[i - 1], lots[i])
  BY <1>2 DEF Draws
<1> DEFINE T == {i \in 0 .. n : SoFar(q, d, need, base, lots, nm, i, g[i])}
<1>4. 0 \in T
  <2>1. base.left \in [Ids(q) -> Nat]
    BY DEF Accs
  <2>2. \A m \in Ids(q) : base.left[m] <= base.left[m]
    BY <2>1
  <2>3. \A m : Spent(q, base.left, m) = Spent(q, base.left, m) + IF m = nm THEN base.got ELSE 0
    BY <2>1, SpentIs
  <2>4. 1 .. 0 = {} /\ 0 \in 0 .. n
    OBVIOUS
  <2>5. SoFar(q, d, need, base, lots, nm, 0, base)
    BY <1>1, <2>2, <2>3, <2>4 DEF SoFar
  <2> QED
    BY <1>3, <2>4, <2>5
<1>5. ASSUME NEW i \in 1 .. n, i - 1 \in T PROVE i \in T
  <2>1. SoFar(q, d, need, base, lots, nm, i, Draw(need, g[i - 1], lots[i]))
    BY <1>5, SoFarNext
  <2>2. i \in 0 .. n
    OBVIOUS
  <2> QED
    BY <1>3, <2>1, <2>2
<1> HIDE DEF T
<1>6. \A i \in 0 .. n : i \in T
  BY <1>4, <1>5, NatInd
<1>7. n \in 0 .. n
  OBVIOUS
<1> QED
  BY <1>3, <1>6, <1>7 DEF T

\* The lots of a food, the soonest to expire first.
LEMMA BeforeOne ==
  ASSUME NEW a \in Int, NEW b \in Int
  PROVE  Before(<<a>>, <<b>>) <=> a < b
<1> DEFINE x == <<a>>
           y == <<b>>
<1>1. DOMAIN x = 1 .. 1 /\ x[1] = a /\ y[1] = b
  OBVIOUS
<1> HIDE DEF x, y
<1>2. 1 \in 1 .. 1 /\ 1 .. (1 - 1) = {} /\ \A i \in 1 .. 1 : i = 1
  OBVIOUS
<1>3. Before(x, y) <=> a < b
  <2>1. ASSUME a < b PROVE Before(x, y)
    <3>1. x[1] < y[1] /\ \A j \in 1 .. (1 - 1) : x[j] = y[j]
      BY <1>1, <1>2, <2>1
    <3> QED
      BY <1>1, <1>2, <3>1 DEF Before
  <2>2. ASSUME Before(x, y) PROVE a < b
    <3>1. PICK i \in DOMAIN x : x[i] < y[i]
      BY <2>2 DEF Before
    <3> QED
      BY <1>1, <1>2, <3>1
  <2> QED
    BY <2>1, <2>2
<1> QED
  BY <1>3 DEF x, y

LEMMA BeforeTwo ==
  ASSUME NEW a \in Int, NEW b \in Int, NEW c \in Int, NEW d \in Int, Before(<<a, b>>, <<c, d>>)
  PROVE  a <= c
<1> DEFINE x == <<a, b>>
           y == <<c, d>>
<1>1. DOMAIN x = 1 .. 2 /\ x[1] = a /\ x[2] = b /\ y[1] = c /\ y[2] = d
  OBVIOUS
<1>2. PICK i \in DOMAIN x : x[i] < y[i] /\ \A j \in 1 .. i - 1 : x[j] = y[j]
  BY DEF Before
<1> HIDE DEF x, y
<1>3. CASE i = 1
  BY <1>1, <1>2, <1>3
<1>4. CASE i = 2
  <2>1. x[1] = y[1]
    BY <1>2, <1>4
  <2> QED
    BY <1>1, <2>1
<1> QED
  BY <1>1, <1>2, <1>3, <1>4

LEMMA DatedIs ==
  ASSUME NEW q, IsRequest(q), NEW S, S \subseteq Stock(q)
  PROVE  /\ IsList(Dated(S), S)
         /\ \A x, y \in 1 .. Cardinality(S) : x < y => Dated(S)[x].days <= Dated(S)[y].days
<1> DEFINE key == [i \in S |-> <<i.days, i.id>>]
<1>1. \A i \in S : i \in Stock(q) /\ i.days \in Int /\ i.id \in Int
  BY StockIs
<1>2. \A i, j \in S : i.id = j.id => i = j
  BY StockIs
<1>3. IsFiniteSet(S)
  BY StockIs, FS_Subset
<1>4. \A i \in S : key[i] \in Keys(2) /\ key[i] = <<i.days, i.id>>
  BY <1>1 DEF Keys
<1>5. \A i, j \in S : key[i] = key[j] => i = j
  BY <1>2, <1>4
<1>6. Dated(S) = Sorted(S, key)
  BY DEF Dated
<1> HIDE DEF key
<1>7. Keyed(S, key, 2)
  BY <1>3, <1>4, <1>5 DEF Keyed
<1>8. InOrder(Dated(S), S, key)
  BY <1>6, <1>7, SortedIs
<1>9. ASSUME NEW x \in 1 .. Cardinality(S), NEW y \in 1 .. Cardinality(S), x < y
      PROVE  Dated(S)[x].days <= Dated(S)[y].days
  <2> DEFINE i == Dated(S)[x]
             j == Dated(S)[y]
  <2>1. i \in S /\ j \in S /\ Before(key[i], key[j])
    BY <1>8, <1>9 DEF InOrder, IsList
  <2> HIDE DEF i, j
  <2>2. Before(<<i.days, i.id>>, <<j.days, j.id>>)
    BY <1>4, <2>1
  <2>3. i.days <= j.days
    BY <1>1, <2>1, <2>2, BeforeTwo
  <2> QED
    BY <2>3 DEF i, j
<1> QED
  BY <1>8, <1>9 DEF InOrder

Fits(q, fitting, nm, S) ==
    /\ LotsOf(q, fitting, nm, Cardinality(S)) /\ Cardinality(S) \in Nat /\ Range(fitting) = S
    /\ \A x, y \in 1 .. Cardinality(S) : fitting[x].days < fitting[y].days => x < y

LEMMA FittingIs ==
  ASSUME NEW q, IsRequest(q), NEW nm, NEW unit, NEW lots, lots = Lots(q, nm),
         NEW S, S = {i \in Stock(q) : i.name = nm /\ i.unit = unit},
         NEW fitting, fitting = Kept(lots, {i \in Range(lots) : i.unit = unit})
  PROVE  Fits(q, fitting, nm, S)
<1> DEFINE R == {i \in Stock(q) : i.name = nm}
           m == Cardinality(S)
           key == [i \in R |-> <<Place(lots, i)>>]
<1>1. IsList(lots, R) /\ \A x, y \in 1 .. Cardinality(R) : x < y => lots[x].days <= lots[y].days
  <2>1. R \subseteq Stock(q) /\ lots = Dated(R)
    BY DEF Lots
  <2> QED
    BY <2>1, DatedIs
<1>2. Range(lots) = R
  BY <1>1 DEF IsList
<1>3. S = R \cap {i \in R : i.unit = unit}
  OBVIOUS
<1>4. S \subseteq R /\ S \subseteq Stock(q)
  OBVIOUS
<1> HIDE DEF R
<1>5. InOrder(fitting, S, key)
  BY <1>1, <1>2, <1>3, KeptIs
<1>6. m \in Nat
  BY <1>5, FS_CardinalityType DEF InOrder, IsList
<1>7. fitting \in [1 .. m -> S] /\ Range(fitting) = S
  BY <1>5 DEF InOrder, IsList
<1>8. \A x, y \in 1 .. m : fitting[x] = fitting[y] => x = y
  BY <1>5 DEF InOrder, IsList
<1>9. LotsOf(q, fitting, nm, m)
  <2>1. \A x, y \in 1 .. m : fitting[x].id = fitting[y].id => x = y
    <3>1. \A i, j \in S : i.id = j.id => i = j
      BY <1>4, StockIs
    <3> HIDE DEF m
    <3> QED
      BY <1>7, <1>8, <3>1
  <2>2. \A x \in 1 .. m : fitting[x].name = nm
    BY <1>7
  <2>3. fitting \in [1 .. m -> Stock(q)]
    BY <1>4, <1>7
  <2> HIDE DEF m
  <2> QED
    BY <2>1, <2>2, <2>3 DEF LotsOf
<1>10. ASSUME NEW x \in 1 .. m, NEW y \in 1 .. m, fitting[x].days < fitting[y].days PROVE x < y
  <2> SUFFICES ASSUME ~(x < y) PROVE FALSE
    OBVIOUS
  <2> DEFINE i == fitting[x]
             j == fitting[y]
  <2>0. x \in Int /\ y \in Int
    OBVIOUS
  <2>1. i \in S /\ j \in S /\ i \in R /\ j \in R /\ i.days < j.days
    BY <1>4, <1>7, <1>10
  <2>2. y < x
    <3>1. x # y
      BY <2>1, StockIs, <1>4
    <3> QED
      BY <2>0, <3>1
  <2>3. Before(key[j], key[i])
    <3> HIDE DEF m, key
    <3> QED
      BY <1>5, <2>2 DEF InOrder, m
  <2> HIDE DEF i, j
  <2>4. /\ Place(lots, i) \in 1 .. Cardinality(R) /\ Place(lots, j) \in 1 .. Cardinality(R)
        /\ lots[Place(lots, i)] = i /\ lots[Place(lots, j)] = j
    BY <1>1, <2>1, PlaceIn
  <2>5. key[i] = <<Place(lots, i)>> /\ key[j] = <<Place(lots, j)>>
    BY <2>1
  <2>6. Place(lots, i) \in Int /\ Place(lots, j) \in Int
    <3>1. Cardinality(R) \in Nat
      BY <1>1, FS_CardinalityType DEF IsList
    <3> QED
      BY <2>4, <3>1
  <2> HIDE DEF key
  <2>7. Place(lots, j) < Place(lots, i)
    BY <2>3, <2>5, <2>6, BeforeOne
  <2>8. j.days <= i.days
    BY <1>1, <2>4, <2>7
  <2>9. i.days \in Int /\ j.days \in Int
    BY <2>1, <1>4, StockIs
  <2> QED
    BY <2>1, <2>8, <2>9
<1> HIDE DEF m
<1>11. LotsOf(q, fitting, nm, m) /\ m \in Nat /\ Range(fitting) = S
  BY <1>6, <1>7, <1>9
<1> QED
  BY <1>10, <1>11 DEF m, Fits

\* What the lines have been given of a food.
Given(rows, n) == SumFunction([k \in DOMAIN rows |-> IF rows[k].name = n THEN rows[k].got ELSE 0])

LEMMA GivenMore ==
  ASSUME NEW d, NEW rows \in Seq(LineRows(d)), NEW row \in LineRows(d), NEW n
  PROVE  /\ Given(rows, n) \in Int
         /\ Given(Append(rows, row), n) = Given(rows, n) + IF row.name = n THEN row.got ELSE 0
<1> DEFINE k == Len(rows) + 1
           more == Append(rows, row)
           f == [j \in DOMAIN more |-> IF more[j].name = n THEN more[j].got ELSE 0]
           g == [j \in DOMAIN rows |-> IF rows[j].name = n THEN rows[j].got ELSE 0]
<1>1. DOMAIN rows = 1 .. Len(rows) /\ Len(rows) \in Nat /\ k \in Nat /\ \A j \in DOMAIN rows : rows[j] \in LineRows(d)
  BY LenProperties
<1>2. /\ more \in Seq(LineRows(d)) /\ Len(more) = k /\ more[k] = row
      /\ \A j \in 1 .. Len(rows) : more[j] = rows[j]
  BY AppendProperties
<1>3. DOMAIN more = 1 .. k /\ \A j \in DOMAIN more : more[j] \in LineRows(d)
  BY <1>2, LenProperties
<1> HIDE DEF more
<1>4. (1 .. k) \ {k} = DOMAIN rows /\ k \in 1 .. k /\ IsFiniteSet(1 .. k) /\ IsFiniteSet(DOMAIN rows)
  <2>1. (1 .. k) \ {k} = 1 .. Len(rows) /\ k \in 1 .. k
    BY <1>1
  <2>2. IsFiniteSet(1 .. k) /\ IsFiniteSet(1 .. Len(rows))
    BY <1>1, FS_Interval
  <2> QED
    BY <1>1, <2>1, <2>2
<1>5. \A r \in LineRows(d) : r.got \in Nat
  BY DEF LineRows
<1>6. f \in [1 .. k -> Int] /\ g \in [(1 .. k) \ {k} -> Int]
  <2>1. \A j \in DOMAIN more : more[j].got \in Int
    BY <1>3, <1>5
  <2>2. \A j \in DOMAIN rows : rows[j].got \in Int
    BY <1>1, <1>5
  <2>3. f \in [1 .. k -> Int]
    BY <1>3, <2>1
  <2> HIDE DEF k
  <2>4. g \in [DOMAIN rows -> Int]
    BY <2>2
  <2> QED
    BY <1>4, <2>3, <2>4
<1>7. \A j \in (1 .. k) \ {k} : g[j] = f[j]
  <2> SUFFICES ASSUME NEW j \in DOMAIN rows PROVE g[j] = f[j]
    BY <1>4
  <2>1. j \in DOMAIN more /\ more[j] = rows[j]
    BY <1>1, <1>2, <1>3
  <2> QED
    BY <2>1
<1>8. f[k] = IF row.name = n THEN row.got ELSE 0
  BY <1>2, <1>3, <1>4
<1>9. Given(rows, n) = SumFunction(g) /\ Given(more, n) = SumFunction(f)
  BY DEF Given
<1> HIDE DEF f, g, k
<1>10. SumFunction(f) = f[k] + SumFunction(g)
  <2>1. OneLess(g, f, 1 .. k, k)
    BY <1>4, <1>6, <1>7 DEF OneLess
  <2> QED
    BY <2>1, SumOneLess
<1>11. SumFunction(g) \in Int
  BY <1>4, <1>6, SumInt
<1>12. f[k] \in Int
  BY <1>4, <1>6
<1> QED
  BY <1>8, <1>9, <1>10, <1>11, <1>12 DEF more

\* Stock is shared fairly so far.
FairSoFar(q, d, a) ==
    /\ a \in Accs(q, d)
    /\ \A i \in Stock(q) : a.left[i.id] <= i.amount
    /\ \A k \in DOMAIN a.rows : a.rows[k].got <= a.rows[k].need
    /\ \A n : Given(a.rows, n) = Spent(q, a.left, n)
    /\ \A i, j \in Stock(q) :
          i.name = j.name /\ i.unit = j.unit /\ i.days < j.days /\ a.left[j.id] < j.amount => a.left[i.id] = 0

\* The result b of a line that has been given what it got and no more.
LineGives(q, d, a, l, b) ==
    /\ b \in Accs(q, d)
    /\ \E row \in LineRows(d) : row.name = l.name /\ row.got <= row.need /\ row.got = b.got /\ b.rows = Append(a.rows, row)
    /\ \A m \in Ids(q) : b.left[m] <= a.left[m]
    /\ \A n : Spent(q, b.left, n) = Spent(q, a.left, n) + IF n = l.name THEN b.got ELSE 0
    /\ \A i, j \in Stock(q) :
          i.name = j.name /\ i.unit = j.unit /\ i.days < j.days /\ b.left[j.id] < a.left[j.id] => b.left[i.id] = 0

LEMMA NeededIs ==
  ASSUME NEW q, IsRequest(q), NEW d \in Dish, NEW l \in Range(Recipe[d].lines), l.amount # Unknown
  PROVE  Needed(q, d, l) \in Nat
<1> DEFINE s == IF Recipe[d].servings = Unknown THEN 1 ELSE Recipe[d].servings
           p == l.amount * q.servings
<1>1. s \in Nat /\ s > 0
  BY RecipeAssumption
<1>2. l.amount \in Nat /\ q.servings \in Nat
  BY RecipeAssumption DEF IsRequest
<1>3. p \in Nat
  BY <1>2
<1>4. Needed(q, d, l) = p \div s
  BY DEF Needed
<1> HIDE DEF s, p
<1> QED
  BY <1>1, <1>3, <1>4

LEMMA LineIs ==
  ASSUME NEW q, IsRequest(q), NEW d \in Dish, NEW l \in Range(Recipe[d].lines), NEW a \in Accs(q, d)
  PROVE  LineGives(q, d, a, l, Line(q, d, a, l))
<1> DEFINE lots == Lots(q, l.name)
           fitting == Kept(lots, {i \in Range(lots) : i.unit = l.unit})
           known == l.amount # Unknown /\ l.unit # Unknown
           need == Needed(q, d, l)
           base == [a EXCEPT !.got = 0]
           took == Took(need, base, fitting)
           drawn == IF known THEN took ELSE base
           status == IF l.name \in Pantry(q) \cup Water /\ lots = << >> THEN "PANTRY_UNVERIFIED"
                     ELSE IF ~known THEN "UNKNOWN_AMOUNT"
                     ELSE IF fitting = << >> /\ lots # << >> THEN "UNIT_MISMATCH"
                     ELSE IF drawn.got >= need THEN "SUFFICIENT" ELSE "SHORTAGE"
           doubt == IF status \in {"UNKNOWN_AMOUNT", "UNIT_MISMATCH"} THEN Range(lots) ELSE {}
           row == [name |-> l.name, status |-> status, got |-> drawn.got, need |-> IF known THEN need ELSE 0]
           S == {i \in Stock(q) : i.name = l.name /\ i.unit = l.unit}
           unsure == {i.id : i \in doubt}
           b == [drawn EXCEPT !.rows = Append(drawn.rows, row), !.unresolved = drawn.unresolved \cup unsure,
                              !.linked = drawn.linked \cup unsure]
<1>1. Line(q, d, a, l) = b
  BY DEF Line, Took
<1>2. /\ LotsOf(q, fitting, l.name, Cardinality(S)) /\ Cardinality(S) \in Nat /\ Range(fitting) = S
      /\ \A x, y \in 1 .. Cardinality(S) : fitting[x].days < fitting[y].days => x < y
  <2>1. lots = Lots(q, l.name) /\ fitting = Kept(lots, {i \in Range(lots) : i.unit = l.unit})
        /\ S = {i \in Stock(q) : i.name = l.name /\ i.unit = l.unit}
    OBVIOUS
  <2> HIDE DEF lots, fitting, S
  <2>2. Fits(q, fitting, l.name, S)
    BY <2>1, FittingIs
  <2> QED
    BY <2>2 DEF Fits
<1>3. base \in Accs(q, d) /\ base.got = 0 /\ base.left = a.left /\ base.rows = a.rows
  BY DEF Accs
<1>4. known => need \in Nat
  BY NeededIs
<1>5. known => SoFar(q, d, need, base, fitting, l.name, Cardinality(S), took)
  <2> HIDE DEF base, fitting, S, need, known
  <2> QED
    BY <1>2, <1>3, <1>4, TookIs
<1>6. unsure \subseteq Ids(q)
  <2>1. Range(lots) \subseteq Stock(q)
    <3>1. {i \in Stock(q) : i.name = l.name} \subseteq Stock(q) /\ lots = Dated({i \in Stock(q) : i.name = l.name})
      BY DEF Lots
    <3> HIDE DEF lots
    <3> QED
      BY <3>1, DatedIs DEF IsList
  <2> HIDE DEF lots, status
  <2> QED
    BY <2>1 DEF Ids
<1>7. l.name \in LineNames(d) /\ status \in Statuses
  <2>1. status \in Statuses
    BY DEF Statuses
  <2> QED
    BY <2>1 DEF LineNames
<1> HIDE DEF lots, unsure, status, base, took
<1>8. /\ drawn \in Accs(q, d) /\ drawn.rows = a.rows
      /\ drawn.got \in Nat /\ (known => drawn.got <= need) /\ (~known => drawn.got = 0)
  <2>1. CASE known
    BY <1>3, <1>5, <2>1 DEF SoFar, Within, Accs
  <2>2. CASE ~known
    BY <1>3, <2>2
  <2> QED
    BY <2>1, <2>2
<1>9. /\ \A m \in Ids(q) : drawn.left[m] <= a.left[m]
      /\ \A n : Spent(q, drawn.left, n) = Spent(q, a.left, n) + IF n = l.name THEN drawn.got ELSE 0
  <2>1. CASE known
    BY <1>3, <1>5, <2>1 DEF SoFar
  <2>2. CASE ~known
    <3>1. drawn.left = a.left /\ drawn.got = 0 /\ a.left \in [Ids(q) -> Nat]
      BY <1>3, <2>2 DEF Accs
    <3>2. \A m \in Ids(q) : a.left[m] <= a.left[m]
      BY <3>1
    <3>3. \A n : Spent(q, a.left, n) \in Int
      BY <3>1, SpentIs
    <3> HIDE DEF drawn
    <3> QED
      BY <3>1, <3>2, <3>3
  <2> QED
    BY <2>1, <2>2
<1>10. ASSUME NEW i \in Stock(q), NEW j \in Stock(q), i.name = j.name, i.unit = j.unit, i.days < j.days,
              drawn.left[j.id] < a.left[j.id]
       PROVE  drawn.left[i.id] = 0
  <2>1. a.left \in [Ids(q) -> Nat] /\ i.id \in Ids(q) /\ j.id \in Ids(q) /\ a.left[j.id] \in Nat
    BY StockIs DEF Accs
  <2>2. known /\ drawn = took
    BY <1>3, <1>10, <2>1
  <2>3. /\ \A m \in Ids(q) : (\A x \in 1 .. Cardinality(S) : fitting[x].id # m) => took.left[m] = a.left[m]
        /\ \A x, y \in 1 .. Cardinality(S) :
              x < y /\ took.left[fitting[y].id] < a.left[fitting[y].id] => took.left[fitting[x].id] = 0
    BY <1>3, <1>5, <2>2 DEF SoFar
  <2> HIDE DEF drawn, known, fitting, S
  <2>4. PICK y \in 1 .. Cardinality(S) : fitting[y].id = j.id
    BY <1>10, <2>1, <2>2, <2>3
  <2>5. fitting[y] = j
    BY <1>2, <2>4, StockIs DEF LotsOf
  <2>6. j \in S
    BY <1>2, <2>5 DEF LotsOf, Range
  <2>7. i \in S
    BY <1>10, <2>6 DEF S
  <2>8. PICK x \in 1 .. Cardinality(S) : fitting[x] = i
    BY <1>2, <2>7 DEF LotsOf, Range
  <2>9. x < y
    BY <1>2, <1>10, <2>5, <2>8
  <2> QED
    BY <1>10, <2>2, <2>3, <2>5, <2>8, <2>9
<1>11. row \in LineRows(d) /\ row.name = l.name /\ row.got <= row.need /\ row.got = drawn.got
  <2>1. (IF known THEN need ELSE 0) \in Nat /\ drawn.got <= (IF known THEN need ELSE 0)
    <3> HIDE DEF drawn, need
    <3> QED
      BY <1>4, <1>8
  <2> HIDE DEF drawn, known, need
  <2> QED
    BY <1>7, <1>8, <2>1 DEF LineRows
<1> HIDE DEF drawn, row
<1>12. b \in Accs(q, d) /\ b.left = drawn.left /\ b.got = drawn.got /\ b.rows = Append(a.rows, row)
  <2>1. Append(drawn.rows, row) \in Seq(LineRows(d))
    <3>1. drawn.rows \in Seq(LineRows(d))
      BY <1>8 DEF Accs
    <3> QED
      BY <1>11, <3>1, AppendProperties
  <2>2. drawn.unresolved \cup unsure \in SUBSET Ids(q) /\ drawn.linked \cup unsure \in SUBSET Ids(q)
    BY <1>6, <1>8 DEF Accs
  <2> QED
    BY <1>8, <2>1, <2>2 DEF Accs
<1> HIDE DEF b
<1>13. LineGives(q, d, a, l, b)
  BY <1>9, <1>10, <1>11, <1>12 DEF LineGives
<1> QED
  BY <1>1, <1>13

-----------------------------------------------------------------------------
(* A recipe allocates one line after the other.                             *)

\* The whole stock, of which nothing is used.
Unused(q) == [left |-> [n \in Ids(q) |-> (CHOOSE i \in Stock(q) : i.id = n).amount],
              got |-> 0, rows |-> << >>, unresolved |-> {}, linked |-> {}]
Allocates(g, n, q, d, lines) ==
    /\ g[0] = Unused(q) /\ Allocation(q, d) = g[n]
    /\ \A i \in 1 .. n : g[i] = Line(q, d, g[i - 1], lines[i])

LEMMA UnusedIs ==
  ASSUME NEW q, IsRequest(q), NEW d
  PROVE  Unused(q) \in Accs(q, d) /\ \A i \in Stock(q) : Unused(q).left[i.id] = i.amount
<1>1. \A i \in Stock(q) : (CHOOSE j \in Stock(q) : j.id = i.id) = i
  BY StockIs
<1>2. \A i \in Stock(q) : i.amount \in Nat /\ i.id \in Ids(q)
  BY StockIs
<1>3. \A n \in Ids(q) : \E i \in Stock(q) : i.id = n
  BY DEF Ids
<1> DEFINE left == [n \in Ids(q) |-> (CHOOSE i \in Stock(q) : i.id = n).amount]
<1>4. \A n \in Ids(q) : (CHOOSE i \in Stock(q) : i.id = n).amount \in Nat
  <2> TAKE n \in Ids(q)
  <2>1. PICK i \in Stock(q) : i.id = n
    BY <1>3
  <2>2. (CHOOSE j \in Stock(q) : j.id = n) = i
    BY <1>1, <2>1
  <2> QED
    BY <1>2, <2>2
<1>5. left \in [Ids(q) -> Nat]
  BY <1>4
<1>6. \A i \in Stock(q) : left[i.id] = i.amount
  BY <1>1, <1>2
<1> HIDE DEF left
<1>7. << >> \in Seq(LineRows(d))
  BY EmptySeq
<1>8. Unused(q) = [left |-> left, got |-> 0, rows |-> << >>, unresolved |-> {}, linked |-> {}]
  BY DEF Unused, left
<1> QED
  BY <1>5, <1>6, <1>7, <1>8 DEF Accs

LEMMA AllocationChain ==
  ASSUME NEW q, IsRequest(q), NEW d \in Dish, NEW n \in Nat, NEW lines, lines = Recipe[d].lines,
         lines \in [1 .. n -> Range(Recipe[d].lines)]
  PROVE  \E g : Allocates(g, n, q, d, lines)
<1>n. n \in Nat /\ lines \in [1 .. n -> Range(Recipe[d].lines)] /\ DOMAIN lines = 1 .. n /\ Unused(q) \in Accs(q, d)
  BY UnusedIs
<1> DEFINE F == [p \in Accs(q, d) \X Range(Recipe[d].lines) |-> Line(q, d, p[1], p[2])]
           c == CHOOSE iter : iter = [s \in SUBSET DOMAIN lines |-> IF s = {} THEN Unused(q)
                   ELSE Line(q, d, iter[s \ {Max(s)}], lines[Max(s)])]
<1>1. Allocation(q, d) = c[1 .. n]
  BY <1>n DEF Allocation, Unused, Ids, FoldLeft, MapThenFoldSet
<1>2. F \in [Accs(q, d) \X Range(Recipe[d].lines) -> Accs(q, d)]
  <2>1. ASSUME NEW a \in Accs(q, d), NEW l \in Range(Recipe[d].lines) PROVE Line(q, d, a, l) \in Accs(q, d)
    BY LineIs DEF LineGives
  <2> QED
    BY <2>1
<1>3. PICK h \in [SUBSET (1 .. n) -> Accs(q, d)] : FoldsDown(h, n, lines, Unused(q), F)
  <2> HIDE DEF F
  <2> QED
    BY <1>n, <1>2, FoldExists
<1>4. ASSUME NEW s \in SUBSET (1 .. n), s # {}
      PROVE  h[s] = Line(q, d, h[s \ {Max(s)}], lines[Max(s)])
  <2>1. Max(s) \in s
    BY <1>n, <1>4, MaxIn
  <2>2. h[s \ {Max(s)}] \in Accs(q, d) /\ lines[Max(s)] \in Range(Recipe[d].lines)
    BY <1>n, <2>1
  <2>3. h[s] = F[<<h[s \ {Max(s)}], lines[Max(s)]>>]
    <3> HIDE DEF F
    <3> QED
      BY <1>3, <1>4 DEF FoldsDown
  <2> HIDE DEF c
  <2> QED
    BY <2>2, <2>3
<1>5. h = [s \in SUBSET DOMAIN lines |-> IF s = {} THEN Unused(q)
                   ELSE Line(q, d, h[s \ {Max(s)}], lines[Max(s)])]
  <2>1. h[{}] = Unused(q)
    BY <1>3 DEF FoldsDown
  <2> HIDE DEF F, c
  <2> QED
    BY <1>n, <1>4, <2>1
<1>6. c = [s \in SUBSET DOMAIN lines |-> IF s = {} THEN Unused(q)
                   ELSE Line(q, d, c[s \ {Max(s)}], lines[Max(s)])]
  <2> HIDE DEF F
  <2> QED
    BY <1>5
<1> HIDE DEF c, F
<1> DEFINE G == [s \in SUBSET (1 .. n) |-> Line(q, d, c[s \ {Max(s)}], lines[Max(s)])]
           g == [i \in 0 .. n |-> c[1 .. i]]
<1>7. GoesDown(c, n, Unused(q), G)
  BY <1>n, <1>6 DEF GoesDown
<1>8. IsChain(c, n, Unused(q), G)
  <2> HIDE DEF G
  <2> QED
    BY <1>n, <1>7, ChainOf
<1>9. ASSUME NEW i \in 1 .. n PROVE g[i] = Line(q, d, g[i - 1], lines[i])
  <2>1. 1 .. i \in SUBSET (1 .. n) /\ i - 1 \in 0 .. n /\ i \in 0 .. n
    BY <1>n
  <2>2. c[1 .. i] = G[1 .. i] /\ Max(1 .. i) = i /\ (1 .. i) \ {i} = 1 .. (i - 1)
    BY <1>8 DEF IsChain
  <2>3. G[1 .. i] = Line(q, d, c[1 .. (i - 1)], lines[i])
    BY <2>1, <2>2
  <2> QED
    BY <2>1, <2>2, <2>3
<1>10. g[0] = Unused(q) /\ g[n] = c[1 .. n]
  BY <1>8, <1>n DEF IsChain
<1> HIDE DEF g
<1>11. Allocates(g, n, q, d, lines)
  BY <1>1, <1>9, <1>10 DEF Allocates
<1> QED
  BY <1>11

LEMMA SumZero ==
  ASSUME NEW S, IsFiniteSet(S), NEW f \in [S -> Int], \A x \in S : f[x] = 0
  PROVE  SumFunction(f) = 0
<1>1. PICK c : IsSum(c, f, S) /\ SumFunction(f) = c[S] /\ SumsUp(c, f, S)
  BY SumIs
<1> DEFINE Q == {T \in SUBSET S : c[T] = 0}
<1>2. ASSUME NEW T \in SUBSET S, \A U \in SUBSET T : U # T => U \in Q PROVE T \in Q
  <2>1. CASE T = {}
    BY <1>1, <2>1 DEF IsSum
  <2>2. CASE T # {}
    <3>1. PICK x \in T : TRUE
      BY <2>2
    <3>2. T \ {x} \in Q
      BY <1>2, <3>1
    <3>3. c[T] = f[x] + c[T \ {x}]
      BY <1>1, <3>1 DEF SumsUp
    <3> QED
      BY <3>2, <3>3
  <2> QED
    BY <2>1, <2>2
<1> HIDE DEF Q
<1>3. \A T \in SUBSET S : T \in Q
  BY <1>2, SetInd
<1> QED
  BY <1>1, <1>3 DEF Q

LEMMA UnusedIsFair ==
  ASSUME NEW q, IsRequest(q), NEW d
  PROVE  FairSoFar(q, d, Unused(q))
<1> DEFINE a == Unused(q)
<1>1. a \in Accs(q, d) /\ \A i \in Stock(q) : a.left[i.id] = i.amount
  BY UnusedIs
<1>2. a.rows = << >>
  BY DEF Unused
<1> HIDE DEF a
<1>3. \A i \in Stock(q) : i.amount \in Nat /\ i.id \in Ids(q)
  BY StockIs
<1>4. a.left \in [Ids(q) -> Nat]
  BY <1>1 DEF Accs
<1>5. ASSUME NEW n PROVE Given(a.rows, n) = Spent(q, a.left, n)
  <2> DEFINE S == {j \in Stock(q) : j.name = n}
             f == [i \in S |-> i.amount - a.left[i.id]]
             g == [k \in DOMAIN a.rows |-> IF a.rows[k].name = n THEN a.rows[k].got ELSE 0]
  <2>1. IsFiniteSet(S)
    BY StockIs, FS_Subset
  <2>2. \A i \in S : i.amount - a.left[i.id] = 0
    BY <1>1, <1>3
  <2>3. f \in [S -> Int] /\ \A i \in S : f[i] = 0
    BY <2>2
  <2>4. Spent(q, a.left, n) = SumFunction(f)
    BY DEF Spent
  <2>5. DOMAIN a.rows = {}
    BY <1>2
  <2>6. g \in [{} -> Int] /\ IsFiniteSet({})
    BY <2>5, FS_EmptySet
  <2>7. Given(a.rows, n) = SumFunction(g)
    BY DEF Given
  <2> HIDE DEF f, g, S
  <2>8. SumFunction(f) = 0
    BY <2>1, <2>3, SumZero
  <2>9. SumFunction(g) = 0
    BY <2>6, SumInt
  <2> QED
    BY <2>4, <2>7, <2>8, <2>9
<1>6. \A i \in Stock(q) : a.left[i.id] <= i.amount /\ ~(a.left[i.id] < i.amount)
  BY <1>1, <1>3
<1>7. DOMAIN a.rows = {}
  BY <1>2
<1>8. FairSoFar(q, d, a)
  BY <1>1, <1>5, <1>6, <1>7 DEF FairSoFar
<1> QED
  BY <1>8 DEF a

LEMMA LineKeepsFair ==
  ASSUME NEW q, IsRequest(q), NEW d, NEW a, FairSoFar(q, d, a), NEW l, NEW b, LineGives(q, d, a, l, b)
  PROVE  FairSoFar(q, d, b)
<1>1. a \in Accs(q, d) /\ b \in Accs(q, d)
  BY DEF FairSoFar, LineGives
<1>2. PICK row \in LineRows(d) : row.name = l.name /\ row.got <= row.need /\ row.got = b.got /\ b.rows = Append(a.rows, row)
  BY DEF LineGives
<1>3. a.left \in [Ids(q) -> Nat] /\ b.left \in [Ids(q) -> Nat] /\ a.rows \in Seq(LineRows(d)) /\ b.rows \in Seq(LineRows(d))
  BY <1>1 DEF Accs
<1>4. \A m \in Ids(q) : b.left[m] <= a.left[m]
  BY DEF LineGives
<1>5. \A i \in Stock(q) : i.amount \in Nat /\ i.id \in Ids(q)
  BY StockIs
<1>6. ASSUME NEW i \in Stock(q) PROVE b.left[i.id] <= i.amount
  <2>1. a.left[i.id] <= i.amount
    BY DEF FairSoFar
  <2>2. a.left[i.id] \in Nat /\ b.left[i.id] \in Nat /\ b.left[i.id] <= a.left[i.id] /\ i.amount \in Nat
    BY <1>3, <1>4, <1>5
  <2> QED
    BY <2>1, <2>2
<1>7. ASSUME NEW k \in DOMAIN b.rows PROVE b.rows[k].got <= b.rows[k].need
  <2>1. Len(a.rows) \in Nat /\ DOMAIN a.rows = 1 .. Len(a.rows) /\ DOMAIN b.rows = 1 .. Len(b.rows)
    BY <1>3, LenProperties
  <2>2. Len(b.rows) = Len(a.rows) + 1 /\ (\A j \in 1 .. Len(a.rows) : b.rows[j] = a.rows[j]) /\ b.rows[Len(a.rows) + 1] = row
    BY <1>2, <1>3, AppendProperties
  <2>3. k \in 1 .. Len(a.rows) \/ k = Len(a.rows) + 1
    BY <2>1, <2>2
  <2>4. CASE k \in 1 .. Len(a.rows)
    BY <2>1, <2>2, <2>4 DEF FairSoFar
  <2>5. CASE k = Len(a.rows) + 1
    BY <1>2, <2>2, <2>5
  <2> QED
    BY <2>3, <2>4, <2>5
<1>8. ASSUME NEW n PROVE Given(b.rows, n) = Spent(q, b.left, n)
  <2>1. Given(b.rows, n) = Given(a.rows, n) + IF row.name = n THEN row.got ELSE 0
    BY <1>2, <1>3, GivenMore
  <2>2. Given(a.rows, n) = Spent(q, a.left, n)
    BY DEF FairSoFar
  <2>3. Spent(q, b.left, n) = Spent(q, a.left, n) + IF n = l.name THEN b.got ELSE 0
    BY DEF LineGives
  <2> QED
    BY <1>2, <2>1, <2>2, <2>3
<1>9. ASSUME NEW i \in Stock(q), NEW j \in Stock(q), i.name = j.name, i.unit = j.unit, i.days < j.days,
             b.left[j.id] < j.amount
      PROVE  b.left[i.id] = 0
  <2>1. /\ a.left[i.id] \in Nat /\ b.left[i.id] \in Nat /\ b.left[i.id] <= a.left[i.id]
        /\ a.left[j.id] \in Nat /\ b.left[j.id] \in Nat /\ b.left[j.id] <= a.left[j.id] /\ j.amount \in Nat
    BY <1>3, <1>4, <1>5
  <2>2. CASE b.left[j.id] < a.left[j.id]
    BY <1>9, <2>2 DEF LineGives
  <2>3. CASE b.left[j.id] = a.left[j.id]
    <3>1. a.left[i.id] = 0
      BY <1>9, <2>3 DEF FairSoFar
    <3> QED
      BY <2>1, <3>1
  <2> QED
    BY <2>1, <2>2, <2>3
<1> QED
  BY <1>1, <1>6, <1>7, <1>8, <1>9 DEF FairSoFar

LEMMA AllocationIs ==
  ASSUME NEW q, IsRequest(q), NEW d \in Dish
  PROVE  FairSoFar(q, d, Allocation(q, d))
<1> DEFINE lines == Recipe[d].lines
           n == Len(lines)
<1>1. n \in Nat /\ lines = Recipe[d].lines /\ lines \in [1 .. n -> Range(Recipe[d].lines)]
  <2>1. lines \in Seq(Range(lines))
    BY RecipeAssumption
  <2> QED
    BY <2>1, LenProperties
<1> HIDE DEF lines, n
<1>2. PICK g : Allocates(g, n, q, d, lines)
  BY <1>1, AllocationChain
<1> DEFINE T == {i \in 0 .. n : FairSoFar(q, d, g[i])}
<1>3. 0 \in T
  BY <1>1, <1>2, UnusedIsFair DEF Allocates
<1>4. ASSUME NEW i \in 1 .. n, i - 1 \in T PROVE i \in T
  <2>1. FairSoFar(q, d, g[i - 1])
    BY <1>4
  <2> HIDE DEF T
  <2>2. g[i] = Line(q, d, g[i - 1], lines[i]) /\ lines[i] \in Range(Recipe[d].lines)
    BY <1>1, <1>2 DEF Allocates
  <2>3. LineGives(q, d, g[i - 1], lines[i], g[i])
    BY <2>1, <2>2, LineIs DEF FairSoFar
  <2>4. FairSoFar(q, d, g[i])
    BY <2>1, <2>3, LineKeepsFair
  <2>5. i \in 0 .. n
    BY <1>1
  <2> QED
    BY <2>4, <2>5 DEF T
<1> HIDE DEF T
<1>5. \A i \in 0 .. n : i \in T
  BY <1>1, <1>3, <1>4, NatInd
<1>6. n \in 0 .. n
  BY <1>1
<1>7. n \in T
  BY <1>5, <1>6
<1> QED
  BY <1>2, <1>7 DEF T, Allocates

\* Whatever lines and lots there are, no line takes more than it needs or more than
\* is left: what assess_quantities() returns is a fair share of the stock.
THEOREM AllocationFair ==
  ASSUME NEW q, IsRequest(q), NEW d \in Dish
  PROVE  Fair(q, Allocation(q, d))
<1> DEFINE a == Allocation(q, d)
<1>1. FairSoFar(q, d, a)
  BY AllocationIs
<1> HIDE DEF a
<1>2. a \in Accs(q, d)
  BY <1>1 DEF FairSoFar
<1>3. a.left \in [Ids(q) -> Nat] /\ a.rows \in Seq(LineRows(d))
  BY <1>2 DEF Accs
<1>4. \A i \in Stock(q) : i.amount \in Nat /\ i.id \in Ids(q) /\ a.left[i.id] \in Nat /\ a.left[i.id] <= i.amount
  BY <1>1, <1>3, StockIs DEF FairSoFar
<1>5. \A i \in Stock(q) : i.amount - a.left[i.id] \in 0 .. i.amount
  BY <1>4
<1>6. ASSUME NEW k \in DOMAIN a.rows PROVE a.rows[k].got \in 0 .. a.rows[k].need
  <2>1. a.rows[k] \in LineRows(d)
    BY <1>3, LenProperties
  <2>2. a.rows[k].got \in Nat /\ a.rows[k].need \in Nat
    BY <2>1 DEF LineRows
  <2>3. a.rows[k].got <= a.rows[k].need
    BY <1>1 DEF FairSoFar
  <2> QED
    BY <2>2, <2>3
<1>7. \A n \in Names(q) : SumFunction([k \in DOMAIN a.rows |-> IF a.rows[k].name = n THEN a.rows[k].got ELSE 0])
                            = SumFunction([i \in {j \in Stock(q) : j.name = n} |-> i.amount - a.left[i.id]])
  BY <1>1 DEF FairSoFar, Given, Spent
<1>8. ASSUME NEW i \in Stock(q), NEW j \in Stock(q), i.name = j.name, i.unit = j.unit, i.days < j.days,
             j.amount - a.left[j.id] > 0
      PROVE  a.left[i.id] = 0
  <2>1. a.left[j.id] < j.amount
    BY <1>4, <1>8
  <2> QED
    BY <1>1, <1>8, <2>1 DEF FairSoFar
<1>9. Fair(q, a)
  BY <1>5, <1>6, <1>7, <1>8 DEF Fair
<1> QED
  BY <1>9 DEF a

-----------------------------------------------------------------------------
(* The facts of a recipe are finite, and its place in an order is a key.     *)

LEMMA ImageFinite ==
  ASSUME NEW S, IsFiniteSet(S), NEW f, DOMAIN f = S, NEW T, T = {f[x] : x \in S}
  PROVE  IsFiniteSet(T)
<1> DEFINE g == [x \in S |-> f[x]]
<1>1. g \in [S -> T] /\ \A y \in T : \E x \in S : g[x] = y
  OBVIOUS
<1> HIDE DEF g
<1>2. g \in Surjection(S, T)
  BY <1>1 DEF Surjection
<1> QED
  BY <1>2, FS_Surjection

LEMMA LineNamesFinite ==
  ASSUME NEW d \in Dish
  PROVE  IsFiniteSet(LineNames(d))
<1> DEFINE lines == Recipe[d].lines
           n == Len(lines)
           f == [k \in 1 .. n |-> lines[k].name]
<1>1. lines \in Seq(Range(lines))
  BY RecipeAssumption
<1>2. n \in Nat /\ DOMAIN lines = 1 .. n
  BY <1>1, LenProperties
<1>3. Range(lines) = {lines[k] : k \in 1 .. n}
  BY <1>2 DEF Range
<1>4. LineNames(d) = {f[k] : k \in 1 .. n}
  <2>1. LineNames(d) = {l.name : l \in Range(lines)}
    BY DEF LineNames
  <2> HIDE DEF lines, n
  <2> QED
    BY <1>3, <2>1
<1>5. IsFiniteSet(1 .. n) /\ DOMAIN f = 1 .. n
  BY <1>2, FS_Interval
<1> HIDE DEF f
<1> QED
  BY <1>4, <1>5, ImageFinite

LEMMA UsesFinite ==
  ASSUME NEW q, NEW d \in Dish
  PROVE  IsFiniteSet(Used(q, d)) /\ IsFiniteSet(Missing(q, d)) /\ IsFiniteSet(UrgentUse(q, d)) /\ IsFiniteSet(UrgentMain(q, d))
<1>1. /\ Used(q, d) \subseteq LineNames(d) /\ Missing(q, d) \subseteq LineNames(d)
      /\ UrgentUse(q, d) \subseteq LineNames(d) /\ UrgentMain(q, d) \subseteq LineNames(d)
  BY DEF Used, Missing, UrgentUse, UrgentMain
<1> QED
  BY <1>1, LineNamesFinite, FS_Subset

LEMMA ConsumptionIs ==
  ASSUME NEW q, IsRequest(q), NEW d \in Dish, NEW a \in Accs(q, d)
  PROVE  Consumption(q, d, a) = Unknown \/ Consumption(q, d, a) \in Int
<1> DEFINE urgent == {i \in Stock(q) : i.name \in UrgentUse(q, d) /\ i.days \in Urgent}
           real == {i \in urgent : i.amount > 0}
           groups == {<<i.name, i.unit>> : i \in real}
           In(g) == {i \in real : <<i.name, i.unit>> = g}
           spent(g) == SumFunction([i \in In(g) |-> i.amount - a.left[i.id]])
           all(g) == SumFunction([i \in In(g) |-> i.amount])
           f == [g \in groups |-> (100 * spent(g)) \div all(g)]
<1>1. IsFiniteSet(real) /\ real \subseteq Stock(q)
  <2>1. IsFiniteSet(Stock(q)) /\ real \subseteq Stock(q)
    BY StockIs
  <2> QED
    BY <2>1, FS_Subset
<1>2. \A i \in real : i.amount \in Nat /\ i.amount > 0 /\ i.id \in Ids(q) /\ a.left[i.id] \in Nat
  <2>1. a.left \in [Ids(q) -> Nat]
    BY DEF Accs
  <2>2. \A i \in Stock(q) : i.amount \in Nat /\ i.amount > 0 /\ i.id \in Ids(q)
    BY StockIs
  <2> HIDE DEF real
  <2> QED
    BY <1>1, <2>1, <2>2
<1>3. IsFiniteSet(groups)
  <2> DEFINE h == [i \in real |-> <<i.name, i.unit>>]
  <2>1. DOMAIN h = real /\ groups = {h[i] : i \in real}
    OBVIOUS
  <2> HIDE DEF h, real, groups
  <2> QED
    BY <1>1, <2>1, ImageFinite
<1>4. Consumption(q, d, a) = Unknown
        \/ (groups # {} /\ Consumption(q, d, a) = SumFunction(f) \div Cardinality(groups))
  BY DEF Consumption
<1>5. ASSUME NEW g \in groups PROVE (100 * spent(g)) \div all(g) \in Int
  <2> DEFINE s == [i \in In(g) |-> i.amount - a.left[i.id]]
             t == [i \in In(g) |-> i.amount]
  <2>1. PICK i \in real : <<i.name, i.unit>> = g
    BY <1>5
  <2>2. i \in In(g) /\ In(g) \subseteq real
    BY <2>1
  <2> HIDE DEF real, groups
  <2>3. IsFiniteSet(In(g))
    BY <1>1, <2>2, FS_Subset
  <2>4. s \in [In(g) -> Int] /\ t \in [In(g) -> Nat] /\ t[i] = i.amount
    BY <1>2, <2>2
  <2> HIDE DEF In, s, t
  <2>5. SumFunction(s) \in Int
    BY <2>3, <2>4, SumInt
  <2>6. SumFunction(t) \in Int
    BY <2>3, <2>4, SumInt
  <2>7. SumFunction(t) >= t[i]
    BY <2>2, <2>3, <2>4, SumPositive
  <2>8. SumFunction(t) > 0
    BY <1>2, <2>4, <2>6, <2>7
  <2>9. spent(g) = SumFunction(s) /\ all(g) = SumFunction(t)
    BY DEF s, t
  <2> HIDE DEF spent, all
  <2>10. \A x \in Int : \A y \in Int : y > 0 => (100 * x) \div y \in Int
    OBVIOUS
  <2> QED
    BY <2>5, <2>6, <2>8, <2>9, <2>10
<1> HIDE DEF spent, all, In
<1>6. f \in [groups -> Int]
  <2> HIDE DEF groups
  <2> QED
    BY <1>5
<1> HIDE DEF f, groups
<1>7. ASSUME groups # {} PROVE SumFunction(f) \div Cardinality(groups) \in Int
  <2>1. SumFunction(f) \in Int
    BY <1>3, <1>6, SumInt
  <2>2. Cardinality(groups) \in Nat /\ Cardinality(groups) # 0
    BY <1>3, <1>7, FS_CardinalityType, FS_EmptySet
  <2>3. \A x \in Int : \A y \in Nat : y # 0 => x \div y \in Int
    OBVIOUS
  <2> QED
    BY <2>1, <2>2, <2>3
<1> QED
  BY <1>4, <1>7

LEMMA Eighteen ==
  ASSUME NEW a1 \in Int, NEW a2 \in Int, NEW a3 \in Int, NEW a4 \in Int, NEW a5 \in Int, NEW a6 \in Int,
         NEW a7 \in Int, NEW a8 \in Int, NEW a9 \in Int, NEW a10 \in Int, NEW a11 \in Int, NEW a12 \in Int,
         NEW a13 \in Int, NEW a14 \in Int, NEW a15 \in Int, NEW a16 \in Int, NEW a17 \in Int, NEW a18 \in Int,
         NEW s, s = <<a1, a2, a3, a4, a5, a6, a7, a8, a9, a10, a11, a12, a13, a14, a15, a16, a17, a18>>
  PROVE  s \in Seq(Int) /\ Len(s) = 18
OBVIOUS

LEMMA LeastDay ==
  ASSUME NEW days, days \subseteq 0 .. 3, days # {}
  PROVE  (CHOOSE n \in days : \A k \in days : n <= k) \in Int
<1> DEFINE x == CHOOSE n \in days : \A k \in days : n <= k
<1>1. days \subseteq Nat
  OBVIOUS
<1>2. \E n \in days : \A k \in days : n <= k
  BY <1>1, LeastNat
<1>3. x \in days
  BY <1>2
<1> HIDE DEF x
<1>4. x \in Int
  BY <1>1, <1>3
<1> QED
  BY <1>4 DEF x

\* A verdict on the preferences is a triple of numbers.
LEMMA PriorityIs ==
  ASSUME NEW q, IsRequest(q), NEW d \in Dish, NEW pref, pref[1] \in Int, pref[2] \in Int, pref[3] \in Int,
         NEW fits, NEW covered
  PROVE  Priority(q, d, pref, fits, covered) \in Seq(Int) /\ Len(Priority(q, d, pref, fits, covered)) = 18
<1> DEFINE alloc == Allocation(q, d)
           spent == Consumption(q, d, alloc)
           use == "USE_EXPIRING" \in q.strategies
           main == UrgentMain(q, d)
           urgent == UrgentUse(q, d)
           gain(S) == IF covered = Unknown THEN 0 ELSE 0 - Cardinality(S \ covered)
           focus == IF main # {} THEN main ELSE urgent
           days == {i.days : i \in {j \in Stock(q) : j.name \in focus /\ j.days \in Urgent}}
           day == IF use /\ days # {} THEN CHOOSE n \in days : \A k \in days : n <= k ELSE 0
           tail == IF use /\ days # {} THEN 0 - Cardinality(main) ELSE 0
           known == IF spent = Unknown THEN 0 ELSE 0 - spent
           enough == IF Quantity(alloc) = "SUFFICIENT" THEN 0
                     ELSE IF Recipe[d].servings # Unknown THEN 1 ELSE 2
           role == UrgentRole(q, d)
           tier == Tier(q, d, alloc)
           less == Cardinality(Missing(q, d))
           few == IF less <= 5 THEN 0 ELSE 1
<1>1. spent = Unknown \/ spent \in Int
  <2>1. alloc \in Accs(q, d)
    BY AllocationIs DEF FairSoFar
  <2> HIDE DEF alloc
  <2> QED
    BY <2>1, ConsumptionIs
<1>2. IsFiniteSet(main) /\ IsFiniteSet(urgent) /\ IsFiniteSet(Missing(q, d))
  BY UsesFinite
<1>3. Cardinality(main) \in Int /\ Cardinality(urgent) \in Int /\ less \in Int
  BY <1>2, FS_CardinalityType
<1>4. gain(main) \in Int /\ gain(urgent) \in Int
  <2>1. IsFiniteSet(main \ covered) /\ IsFiniteSet(urgent \ covered)
    BY <1>2, FS_Subset
  <2>2. Cardinality(main \ covered) \in Int /\ Cardinality(urgent \ covered) \in Int
    BY <2>1, FS_CardinalityType
  <2> HIDE DEF main, urgent
  <2> QED
    BY <2>2
<1>5. day \in Int
  <2>1. days \subseteq 0 .. 3
    BY DEF Urgent
  <2> HIDE DEF days, use
  <2>2. days # {} => (CHOOSE n \in days : \A k \in days : n <= k) \in Int
    BY <2>1, LeastDay
  <2> QED
    BY <2>2
<1>6. role \in Int
  BY DEF UrgentRole
<1>7. tier \in Int
  <2> HIDE DEF alloc
  <2> QED
    BY DEF Tier
<1>8. Priority(q, d, pref, fits, covered) =
        <<pref[1], IF use /\ urgent = {} THEN 1 ELSE 0, pref[2], pref[3], role,
          gain(main), gain(urgent), IF fits THEN 0 ELSE 1,
          0 - Cardinality(main), 0 - Cardinality(urgent),
          IF spent = Unknown THEN 1 ELSE 0, known, few, less, enough, tier, day, tail>>
  BY DEF Priority, PriorityAfter, PriorityWith
<1>9. known \in Int /\ enough \in Int /\ tail \in Int
  <2> HIDE DEF spent, alloc, days, main
  <2> QED
    BY <1>1, <1>3
<1>10. few \in Int /\ 0 - Cardinality(main) \in Int /\ 0 - Cardinality(urgent) \in Int
  <2> HIDE DEF less, main, urgent
  <2> QED
    BY <1>3
<1> DEFINE b2 == IF use /\ urgent = {} THEN 1 ELSE 0
           b8 == IF fits THEN 0 ELSE 1
           b11 == IF spent = Unknown THEN 1 ELSE 0
<1>11. b2 \in Int /\ b8 \in Int /\ b11 \in Int
  OBVIOUS
<1> DEFINE c9 == 0 - Cardinality(main)
           c10 == 0 - Cardinality(urgent)
           g6 == gain(main)
           g7 == gain(urgent)
           s == <<pref[1], b2, pref[2], pref[3], role, g6, g7, b8, c9, c10, b11, known, few, less, enough, tier, day, tail>>
<1>12. Priority(q, d, pref, fits, covered) = s
  BY <1>8
<1>13. c9 \in Int /\ c10 \in Int /\ g6 \in Int /\ g7 \in Int
  BY <1>4, <1>10
<1> HIDE DEF b2, b8, b11, c9, c10, g6, g7, known, few, less, enough, tier, day, tail, role
<1>14. s \in Seq(Int) /\ Len(s) = 18
  BY <1>3, <1>5, <1>6, <1>7, <1>9, <1>10, <1>11, <1>13, Eighteen
<1> QED
  BY <1>12, <1>14

\* Keys that end with the rank of the recipe are all different.
EndsWithRank(S, key, k) ==
    \A d \in S : \E p, t : /\ p \in Seq(Int) /\ Len(p) = 18 /\ t \in Seq(Int) /\ Len(t) = k
                           /\ t[k] = Rank[d] /\ key[d] = p \o t

LEMMA RankIs ==
  /\ IsFiniteSet(Dish) /\ \A d \in Dish : Rank[d] \in Int
  /\ \A d, e \in Dish : Rank[d] = Rank[e] => d = e
BY RankAssumption, RecipeAssumption

LEMMA RankKeys ==
  ASSUME NEW S, S \subseteq Dish, NEW key, NEW k \in Nat, k > 0, EndsWithRank(S, key, k)
  PROVE  Keyed(S, key, 18 + k)
<1>1. ASSUME NEW d \in S PROVE key[d] \in Keys(18 + k) /\ key[d][18 + k] = Rank[d]
  <2>1. PICK p, t : /\ p \in Seq(Int) /\ Len(p) = 18 /\ t \in Seq(Int) /\ Len(t) = k
                    /\ t[k] = Rank[d] /\ key[d] = p \o t
    BY <1>1 DEF EndsWithRank
  <2> DEFINE s == p \o t
  <2>2. s \in Seq(Int) /\ Len(s) = 18 + k /\ s[18 + k] = t[k]
    <3>1. s \in Seq(Int) /\ Len(s) = Len(p) + Len(t)
      BY <2>1, ConcatProperties
    <3>2. \A i \in 1 .. Len(p) + Len(t) : s[i] = IF i <= Len(p) THEN p[i] ELSE t[i - Len(p)]
      BY <2>1, ConcatProperties
    <3>3. 18 + k \in 1 .. 18 + k /\ ~(18 + k <= 18) /\ (18 + k) - 18 = k
      OBVIOUS
    <3> HIDE DEF s
    <3> QED
      BY <2>1, <3>1, <3>2, <3>3
  <2> HIDE DEF s
  <2>3. s \in [1 .. 18 + k -> Int]
    BY <2>2, LenProperties
  <2>4. key[d] = s
    BY <2>1 DEF s
  <2> QED
    BY <2>1, <2>2, <2>3, <2>4 DEF Keys
<1>2. IsFiniteSet(S)
  BY RankIs, FS_Subset
<1>3. \A d, e \in S : key[d] = key[e] => d = e
  <2> SUFFICES ASSUME NEW d \in S, NEW e \in S, key[d] = key[e] PROVE d = e
    OBVIOUS
  <2>1. Rank[d] = Rank[e]
    BY <1>1
  <2> QED
    BY <2>1, RankIs
<1>4. 18 + k \in Nat
  OBVIOUS
<1> QED
  BY <1>1, <1>2, <1>3, <1>4 DEF Keyed

LEMMA OneAndThree ==
  ASSUME NEW a \in Int, NEW b \in Int, NEW c \in Int
  PROVE  <<a>> \in Seq(Int) /\ Len(<<a>>) = 1 /\ <<a>>[1] = a
         /\ <<a, b, c>> \in Seq(Int) /\ Len(<<a, b, c>>) = 3 /\ <<a, b, c>>[3] = c
OBVIOUS

\* The order of the candidates holds each of them once.
LEMMA OrderedIs ==
  ASSUME NEW q, IsRequest(q), NEW S, S \subseteq Dish
  PROVE  IsList(Ordered(q, S), S)
<1> DEFINE key == [d \in S |-> Priority(q, d, NoPreference, FALSE, Unknown) \o <<Rank[d]>>]
<1>1. ASSUME NEW d \in S PROVE \E p, t : /\ p \in Seq(Int) /\ Len(p) = 18 /\ t \in Seq(Int) /\ Len(t) = 1
                                         /\ t[1] = Rank[d] /\ key[d] = p \o t
  <2> DEFINE p == Priority(q, d, NoPreference, FALSE, Unknown)
             t == <<Rank[d]>>
  <2>1. NoPreference[1] \in Int /\ NoPreference[2] \in Int /\ NoPreference[3] \in Int /\ d \in Dish
    BY DEF NoPreference
  <2>2. p \in Seq(Int) /\ Len(p) = 18
    BY <2>1, PriorityIs
  <2>3. t \in Seq(Int) /\ Len(t) = 1 /\ t[1] = Rank[d]
    <3>1. Rank[d] \in Int
      BY <2>1, RankIs
    <3> QED
      BY <3>1, OneAndThree
  <2>4. key[d] = p \o t
    OBVIOUS
  <2> HIDE DEF p, t, key
  <2> QED
    BY <2>2, <2>3, <2>4
<1>2. Ordered(q, S) = Sorted(S, key)
  BY DEF Ordered
<1> HIDE DEF key
<1>3. EndsWithRank(S, key, 1)
  BY <1>1 DEF EndsWithRank
<1>4. Keyed(S, key, 18 + 1)
  BY <1>3, RankKeys
<1> QED
  BY <1>2, <1>4, SortedIs DEF InOrder

\* One more recipe is chosen.
Covers(q, done) == IF "USE_EXPIRING" \in q.strategies THEN UNION {UrgentUse(q, d) : d \in Range(done)} ELSE Unknown
ChoiceKey(q, S, pref, fits, done) ==
    [d \in S \ Range(done) |-> Priority(q, d, pref[d], d \in fits, Covers(q, done)) \o Tie(q, d, Range(done))]
Chooses(q, S, pref, fits, done) ==
    IF S \subseteq Range(done) THEN done ELSE Append(done, Best(S \ Range(done), ChoiceKey(q, S, pref, fits, done)))
SelectsBy(g, n, q, S, pref, fits) ==
    /\ g[0] = << >> /\ Selected(q, S, pref, fits) = g[n]
    /\ \A i \in 1 .. n : g[i] = Chooses(q, S, pref, fits, g[i - 1])

LEMMA ChoosesIn ==
  ASSUME NEW q, IsRequest(q), NEW S, S \subseteq Dish, NEW pref, NEW fits, NEW done \in Seq(S),
         \A d \in S : pref[d][1] \in Int /\ pref[d][2] \in Int /\ pref[d][3] \in Int
  PROVE  Chooses(q, S, pref, fits, done) \in Seq(S)
<1> DEFINE T == S \ Range(done)
           key == ChoiceKey(q, S, pref, fits, done)
<1>1. CASE S \subseteq Range(done)
  BY <1>1 DEF Chooses
<1>2. CASE ~(S \subseteq Range(done))
  <2>1. T # {} /\ T \subseteq Dish /\ T \subseteq S
    BY <1>2
  <2>2. ASSUME NEW d \in T PROVE \E p, t : /\ p \in Seq(Int) /\ Len(p) = 18 /\ t \in Seq(Int) /\ Len(t) = 3
                                           /\ t[3] = Rank[d] /\ key[d] = p \o t
    <3> DEFINE p == Priority(q, d, pref[d], d \in fits, Covers(q, done))
               a == IF d \in q.recent THEN 1 ELSE 0
               b == IF Signature(d) # {} /\ \E c \in Range(done) : Signature(c) = Signature(d) THEN 1 ELSE 0
               t == <<a, b, Rank[d]>>
    <3>1. d \in Dish /\ pref[d][1] \in Int /\ pref[d][2] \in Int /\ pref[d][3] \in Int
      BY <2>1
    <3>2. p \in Seq(Int) /\ Len(p) = 18
      BY <3>1, PriorityIs
    <3>3. t \in Seq(Int) /\ Len(t) = 3 /\ t[3] = Rank[d]
      <4>1. Rank[d] \in Int /\ a \in Int /\ b \in Int
        BY <3>1, RankIs
      <4> HIDE DEF a, b
      <4> QED
        BY <4>1, OneAndThree
    <3>4. key[d] = p \o t
      BY DEF ChoiceKey, Tie
    <3> HIDE DEF p, t, key
    <3> QED
      BY <3>2, <3>3, <3>4
  <2> HIDE DEF T, key
  <2>3. EndsWithRank(T, key, 3)
    BY <2>2 DEF EndsWithRank
  <2>4. Keyed(T, key, 18 + 3)
    BY <2>1, <2>3, RankKeys
  <2>5. Best(T, key) \in S
    BY <2>1, <2>4, BestIs
  <2>6. Chooses(q, S, pref, fits, done) = Append(done, Best(T, key))
    BY <1>2 DEF Chooses, T, key
  <2> QED
    BY <2>5, <2>6, AppendProperties
<1> QED
  BY <1>1, <1>2


LEMMA SelectedChain ==
  ASSUME NEW q, IsRequest(q), NEW S, S \subseteq Dish, NEW pref, NEW fits,
         \A d \in S : pref[d][1] \in Int /\ pref[d][2] \in Int /\ pref[d][3] \in Int,
         NEW n \in Nat, n = q.limit, NEW seq, seq = [i \in 1 .. n |-> i]
  PROVE  \E g : SelectsBy(g, n, q, S, pref, fits)
<1>n. n \in Nat /\ seq \in [1 .. n -> (1 .. n)] /\ DOMAIN seq = 1 .. n /\ << >> \in Seq(S)
  BY EmptySeq
<1> DEFINE F == [p \in Seq(S) \X (1 .. n) |-> Chooses(q, S, pref, fits, p[1])]
           c == CHOOSE iter : iter = [s \in SUBSET DOMAIN seq |-> IF s = {} THEN << >>
                   ELSE Chooses(q, S, pref, fits, iter[s \ {Max(s)}])]
<1>1. Selected(q, S, pref, fits) = c[1 .. n]
  BY <1>n DEF Selected, Chooses, ChoiceKey, Covers, FoldLeft, MapThenFoldSet
<1>2. F \in [Seq(S) \X (1 .. n) -> Seq(S)]
  <2>1. ASSUME NEW a \in Seq(S) PROVE Chooses(q, S, pref, fits, a) \in Seq(S)
    BY <2>1, ChoosesIn
  <2> QED
    BY <2>1
<1>3. PICK h \in [SUBSET (1 .. n) -> Seq(S)] : FoldsDown(h, n, seq, << >>, F)
  <2> HIDE DEF F
  <2> QED
    BY <1>n, <1>2, FoldExists
<1>4. ASSUME NEW s \in SUBSET (1 .. n), s # {}
      PROVE  h[s] = Chooses(q, S, pref, fits, h[s \ {Max(s)}])
  <2>1. Max(s) \in s
    BY <1>n, <1>4, MaxIn
  <2>2. h[s \ {Max(s)}] \in Seq(S) /\ seq[Max(s)] \in (1 .. n)
    BY <1>n, <2>1
  <2>3. h[s] = F[<<h[s \ {Max(s)}], seq[Max(s)]>>]
    <3> HIDE DEF F
    <3> QED
      BY <1>3, <1>4 DEF FoldsDown
  <2> HIDE DEF c
  <2> QED
    BY <2>2, <2>3
<1>5. h = [s \in SUBSET DOMAIN seq |-> IF s = {} THEN << >>
                   ELSE Chooses(q, S, pref, fits, h[s \ {Max(s)}])]
  <2>1. h[{}] = << >>
    BY <1>3 DEF FoldsDown
  <2> HIDE DEF F, c
  <2> QED
    BY <1>n, <1>4, <2>1
<1>6. c = [s \in SUBSET DOMAIN seq |-> IF s = {} THEN << >>
                   ELSE Chooses(q, S, pref, fits, c[s \ {Max(s)}])]
  <2> HIDE DEF F
  <2> QED
    BY <1>5
<1> HIDE DEF c, F
<1> DEFINE G == [s \in SUBSET (1 .. n) |-> Chooses(q, S, pref, fits, c[s \ {Max(s)}])]
           g == [i \in 0 .. n |-> c[1 .. i]]
<1>7. GoesDown(c, n, << >>, G)
  BY <1>n, <1>6 DEF GoesDown
<1>8. IsChain(c, n, << >>, G)
  <2> HIDE DEF G
  <2> QED
    BY <1>n, <1>7, ChainOf
<1>9. ASSUME NEW i \in 1 .. n PROVE g[i] = Chooses(q, S, pref, fits, g[i - 1])
  <2>1. 1 .. i \in SUBSET (1 .. n) /\ i - 1 \in 0 .. n /\ i \in 0 .. n
    BY <1>n
  <2>2. c[1 .. i] = G[1 .. i] /\ Max(1 .. i) = i /\ (1 .. i) \ {i} = 1 .. (i - 1)
    BY <1>8 DEF IsChain
  <2>3. G[1 .. i] = Chooses(q, S, pref, fits, c[1 .. (i - 1)])
    BY <2>1, <2>2
  <2> QED
    BY <2>1, <2>2, <2>3
<1>10. g[0] = << >> /\ g[n] = c[1 .. n]
  BY <1>8, <1>n DEF IsChain
<1> HIDE DEF g
<1>11. SelectsBy(g, n, q, S, pref, fits)
  BY <1>1, <1>9, <1>10 DEF SelectsBy
<1> QED
  BY <1>11

\* The choice picks rows that may be picked.
LEMMA SelectedIn ==
  ASSUME NEW q, IsRequest(q), NEW S, S \subseteq Dish, NEW pref, NEW fits,
         \A d \in S : pref[d][1] \in Int /\ pref[d][2] \in Int /\ pref[d][3] \in Int
  PROVE  Selected(q, S, pref, fits) \in Seq(S)
<1> DEFINE n == q.limit
<1>1. n \in Nat
  BY DEF IsRequest
<1> HIDE DEF n
<1>2. PICK g : SelectsBy(g, n, q, S, pref, fits)
  BY <1>1, SelectedChain DEF n
<1> DEFINE T == {i \in 0 .. n : g[i] \in Seq(S)}
<1>3. 0 \in T
  <2>1. g[0] \in Seq(S)
    <3>1. g[0] = << >>
      BY <1>2 DEF SelectsBy
    <3>2. << >> \in Seq(S)
      BY EmptySeq
    <3> QED
      BY <3>1, <3>2, Zenon
  <2>2. 0 \in 0 .. n
    BY <1>1
  <2> QED
    BY <2>1, <2>2
<1>4. ASSUME NEW i \in 1 .. n, i - 1 \in T PROVE i \in T
  <2>1. g[i - 1] \in Seq(S)
    BY <1>4
  <2>2. g[i] \in Seq(S)
    BY <1>2, <2>1, ChoosesIn DEF SelectsBy
  <2>3. i \in 0 .. n
    BY <1>1
  <2> QED
    BY <2>2, <2>3
<1> HIDE DEF T
<1>5. \A i \in 0 .. n : i \in T
  BY <1>1, <1>3, <1>4, NatInd
<1>6. n \in 0 .. n
  BY <1>1
<1>7. g[n] \in Seq(S)
  BY <1>5, <1>6 DEF T
<1> QED
  BY <1>2, <1>7 DEF SelectsBy

LEMMA PreferenceIs ==
  ASSUME NEW q, NEW v, IsFiniteSet(DOMAIN v), NEW m, NEW fallback \in BOOLEAN, NEW p, p = Preference(q, v, m, fallback)
  PROVE  p[1] \in Int /\ p[2] \in Int /\ p[3] \in Int
<1>1. \A s : TagCount(v, s) \in Nat
  <2> TAKE s
  <2>1. IsFiniteSet({t \in DOMAIN v : v[t] = s})
    BY FS_Subset
  <2> QED
    BY <2>1, FS_CardinalityType DEF TagCount
<1> DEFINE x == TagCount(v, "MATCHED")
           y == TagCount(v, "NOT_MATCHED")
           z == CASE m = "MATCHED" -> 0 [] m = "UNKNOWN" -> 1 [] OTHER -> 2
<1>2. x \in Int /\ y \in Int /\ 0 - x \in Int /\ z \in Int
  BY <1>1
<1>3. p = <<0 - x, y, 0>> \/ p = <<0, 0, 0>> \/ p = <<z, 0 - x, y>>
  BY DEF Preference
<1> HIDE DEF x, y, z
<1> QED
  BY <1>2, <1>3

-----------------------------------------------------------------------------
(* Lists that hold each of their elements once.                             *)

LEMMA SameEnd ==
  ASSUME NEW m \in Nat, NEW n \in Nat, 1 .. m = 1 .. n
  PROVE  m = n
<1>1. m <= n
  <2>1. CASE m = 0
    BY <2>1
  <2>2. CASE m # 0
    <3>1. m \in 1 .. m
      BY <2>2
    <3>2. m \in 1 .. n
      BY <3>1
    <3> QED
      BY <3>2
  <2> QED
    BY <2>1, <2>2
<1>2. n <= m
  <2>1. CASE n = 0
    BY <2>1
  <2>2. CASE n # 0
    <3>1. n \in 1 .. n
      BY <2>2
    <3>2. n \in 1 .. m
      BY <3>1
    <3> QED
      BY <3>2
  <2> QED
    BY <2>1, <2>2
<1> QED
  BY <1>1, <1>2

LEMMA ListLen ==
  ASSUME NEW s, NEW S, IsList(s, S)
  PROVE  s \in Seq(S) /\ Len(s) = Cardinality(S) /\ Cardinality(S) \in Nat
<1>1. Cardinality(S) \in Nat /\ s \in [1 .. Cardinality(S) -> S]
  BY FS_CardinalityType DEF IsList
<1>2. s \in Seq(S)
  BY <1>1, SeqDef
<1>3. Len(s) \in Nat /\ DOMAIN s = 1 .. Len(s) /\ DOMAIN s = 1 .. Cardinality(S)
  BY <1>1, <1>2, LenProperties
<1> QED
  BY <1>1, <1>2, <1>3, SameEnd

\* The converse, for a sequence without repetition.
LEMMA ListOf ==
  ASSUME NEW S, NEW s \in Seq(S), NEW n \in Nat, Len(s) = n, \A i, j \in 1 .. n : s[i] = s[j] => i = j
  PROVE  IsList(s, Range(s)) /\ Cardinality(Range(s)) = n /\ Range(s) \subseteq S
<1> DEFINE R == Range(s)
<1>1. s \in [1 .. n -> S] /\ DOMAIN s = 1 .. n
  BY LenProperties
<1>2. R = {s[i] : i \in 1 .. n} /\ R \subseteq S
  BY <1>1 DEF Range
<1> HIDE DEF R
<1>3. s \in [1 .. n -> R] /\ \A y \in R : \E i \in 1 .. n : s[i] = y
  BY <1>1, <1>2
<1>4. s \in Surjection(1 .. n, R)
  BY <1>3 DEF Surjection
<1>5. s \in Injection(1 .. n, R)
  BY <1>3 DEF Injection, IsInjective
<1>6. IsFiniteSet(1 .. n) /\ Cardinality(1 .. n) = n
  BY FS_Interval
<1>7. IsFiniteSet(R) /\ Cardinality(R) = n
  BY <1>4, <1>5, <1>6, FS_Surjection
<1>8. IsList(s, R)
  BY <1>3, <1>7 DEF IsList, R
<1> QED
  BY <1>2, <1>7, <1>8 DEF R

LEMMA EmptyList ==
  IsList(<< >>, {}) /\ Range(<< >>) = {}
<1>1. Range(<< >>) = {}
  BY DEF Range
<1>2. << >> \in [1 .. 0 -> {}]
  OBVIOUS
<1> QED
  BY <1>1, <1>2, FS_EmptySet DEF IsList

\* One list after another.
LEMMA ListConcat ==
  ASSUME NEW s, NEW S, IsList(s, S), NEW t, NEW T, IsList(t, T), S \cap T = {}
  PROVE  /\ IsList(s \o t, S \cup T) /\ Cardinality(S \cup T) = Cardinality(S) + Cardinality(T)
         /\ Len(s \o t) = Cardinality(S) + Cardinality(T)
         /\ \A i \in 1 .. Cardinality(S) : (s \o t)[i] = s[i]
<1> DEFINE U == S \cup T
           u == s \o t
           m == Cardinality(S)
           n == Cardinality(T)
<1>1. m \in Nat /\ n \in Nat /\ Len(s) = m /\ Len(t) = n /\ s \in Seq(S) /\ t \in Seq(T)
  BY ListLen
<1>2. s \in Seq(U) /\ t \in Seq(U)
  BY <1>1, SeqMonotonic
<1>3. /\ u \in Seq(U) /\ Len(u) = m + n
      /\ \A i \in 1 .. m + n : u[i] = IF i <= m THEN s[i] ELSE t[i - m]
  <2> HIDE DEF m, n, U
  <2>1. u \in Seq(U) /\ Len(u) = Len(s) + Len(t)
    BY <1>2, ConcatProperties
  <2>2. \A i \in 1 .. Len(s) + Len(t) : u[i] = IF i <= Len(s) THEN s[i] ELSE t[i - Len(s)]
    BY <1>2, ConcatProperties
  <2> QED
    BY <1>1, <2>1, <2>2
<1>4. Range(u) = U
  BY <1>2, RangeConcatenation DEF IsList
<1>5. (\A i \in 1 .. m : s[i] \in S) /\ \A i \in 1 .. n : t[i] \in T
  BY DEF IsList
<1>6. (\A i, j \in 1 .. m : s[i] = s[j] => i = j) /\ \A i, j \in 1 .. n : t[i] = t[j] => i = j
  BY DEF IsList
<1> HIDE DEF m, n, u, U
<1>7. ASSUME NEW i \in 1 .. m + n, NEW j \in 1 .. m + n, u[i] = u[j] PROVE i = j
  <2>0. i \in Int /\ j \in Int
    BY <1>1
  <2>1. CASE i <= m /\ j <= m
    <3>1. i \in 1 .. m /\ j \in 1 .. m /\ u[i] = s[i] /\ u[j] = s[j]
      BY <1>1, <1>3, <2>0, <2>1
    <3> QED
      BY <1>6, <1>7, <3>1
  <2>2. CASE i <= m /\ ~(j <= m)
    <3>1. i \in 1 .. m /\ j - m \in 1 .. n /\ u[i] = s[i] /\ u[j] = t[j - m]
      BY <1>1, <1>3, <2>0, <2>2
    <3> QED
      BY <1>5, <1>7, <3>1
  <2>3. CASE ~(i <= m) /\ j <= m
    <3>1. j \in 1 .. m /\ i - m \in 1 .. n /\ u[j] = s[j] /\ u[i] = t[i - m]
      BY <1>1, <1>3, <2>0, <2>3
    <3> QED
      BY <1>5, <1>7, <3>1
  <2>4. CASE ~(i <= m) /\ ~(j <= m)
    <3>1. j - m \in 1 .. n /\ i - m \in 1 .. n /\ u[j] = t[j - m] /\ u[i] = t[i - m]
      BY <1>1, <1>3, <2>0, <2>4
    <3>2. i - m = j - m
      BY <1>6, <1>7, <3>1
    <3> QED
      BY <1>1, <2>0, <3>2
  <2> QED
    BY <2>1, <2>2, <2>3, <2>4
<1>8. IsList(u, U) /\ Cardinality(U) = m + n
  <2>1. m + n \in Nat
    BY <1>1
  <2> QED
    BY <1>3, <1>4, <1>7, <2>1, ListOf
<1>9. \A i \in 1 .. m : u[i] = s[i]
  <2> TAKE i \in 1 .. m
  <2>1. i \in 1 .. m + n /\ i <= m
    BY <1>1
  <2> QED
    BY <1>3, <2>1
<1> QED
  BY <1>3, <1>8, <1>9 DEF m, n, u, U

LEMMA ListAppend ==
  ASSUME NEW s, NEW S, IsList(s, S), NEW d, d \notin S
  PROVE  IsList(Append(s, d), S \cup {d}) /\ Cardinality(S \cup {d}) = Cardinality(S) + 1
<1> DEFINE t == <<d>>
           T == {d}
<1>1. t \in Seq(T) /\ Len(t) = 1
  OBVIOUS
<1>2. \A i, j \in 1 .. 1 : t[i] = t[j] => i = j
  OBVIOUS
<1>3. Range(t) = T
  BY DEF Range
<1> HIDE DEF t
<1>4. IsList(t, T) /\ Cardinality(T) = 1
  BY <1>1, <1>2, <1>3, ListOf
<1>5. S \cap T = {}
  OBVIOUS
<1> HIDE DEF T
<1>6. IsList(s \o t, S \cup T) /\ Cardinality(S \cup T) = Cardinality(S) + Cardinality(T)
  BY <1>4, <1>5, ListConcat
<1>7. Append(s, d) = s \o t
  <2>1. s \in Seq(S \cup {d}) /\ d \in S \cup {d}
    BY ListLen, SeqMonotonic
  <2> QED
    BY <2>1, AppendIsConcat DEF t
<1> QED
  BY <1>4, <1>6, <1>7 DEF T

\* The first elements of a list.
LEMMA ListPrefix ==
  ASSUME NEW s, NEW S, IsList(s, S), NEW n \in Nat, n <= Cardinality(S), NEW p, p = SubSeq(s, 1, n)
  PROVE  /\ IsList(p, Range(p)) /\ Range(p) \subseteq S /\ Len(p) = n /\ Cardinality(Range(p)) = n
         /\ \A i \in 1 .. n : p[i] = s[i]
<1> DEFINE m == Cardinality(S)
<1>1. m \in Nat /\ s \in Seq(S) /\ Len(s) = m
  BY ListLen
<1>2. \A i, j \in 1 .. m : s[i] = s[j] => i = j
  BY DEF IsList
<1> HIDE DEF m
<1>3. n <= m
  BY DEF m
<1>4. p \in Seq(S) /\ Len(p) = n /\ \A i \in 1 .. n : p[i] = s[i]
  <2>1. 1 \in 1 .. Len(s) + 1 /\ n \in 0 .. Len(s)
    BY <1>1, <1>3
  <2>2. \A i \in 1 .. Len(s) : s[i] \in S
    BY <1>1
  <2>3. p = [i \in 1 .. n |-> s[i]]
    BY <1>1
  <2>4. p \in [1 .. n -> S]
    <3> SUFFICES ASSUME NEW i \in 1 .. n PROVE s[i] \in S
      BY <2>3
    <3>1. i \in 1 .. Len(s)
      BY <1>1, <1>3
    <3> QED
      BY <2>2, <3>1
  <2>5. p \in Seq(S)
    BY <2>4, SeqDef
  <2>6. Len(p) = n
    BY <2>3
  <2> QED
    BY <2>3, <2>5, <2>6
<1>5. ASSUME NEW i \in 1 .. n, NEW j \in 1 .. n, p[i] = p[j] PROVE i = j
  <2>1. i \in 1 .. m /\ j \in 1 .. m
    BY <1>1, <1>3
  <2> QED
    BY <1>2, <1>4, <1>5, <2>1
<1>6. IsList(p, Range(p)) /\ Cardinality(Range(p)) = n /\ Range(p) \subseteq S
  BY <1>4, <1>5, ListOf
<1> QED
  BY <1>4, <1>6

LEMMA KeptList ==
  ASSUME NEW rows, NEW S, IsList(rows, S), NEW T
  PROVE  IsList(Kept(rows, T), S \cap T)
BY KeptIs DEF InOrder

-----------------------------------------------------------------------------
(* The window of rows that the model gets to see.                           *)

\* The urgent foods that rows use as a main ingredient.
Food(q, S) == UNION {UrgentMain(q, d) : d \in S}

LEMMA FoodIs ==
  ASSUME NEW q, NEW S, S \subseteq Dish
  PROVE  IsFiniteSet(Food(q, S)) /\ \A n \in Food(q, S) : n \in DOMAIN Rank
<1> DEFINE f == [d \in S |-> UrgentMain(q, d)]
           T == {UrgentMain(q, d) : d \in S}
<1>1. DOMAIN f = S /\ T = {f[d] : d \in S}
  OBVIOUS
<1>2. IsFiniteSet(S)
  BY RankIs, FS_Subset
<1>3. IsFiniteSet(T)
  <2> HIDE DEF f, T
  <2> QED
    BY <1>1, <1>2, ImageFinite
<1>4. \A U \in T : IsFiniteSet(U)
  BY UsesFinite
<1>5. IsFiniteSet(UNION T)
  <2> HIDE DEF T
  <2> QED
    BY <1>3, <1>4, FS_UNION
<1>6. ASSUME NEW d \in S, NEW n \in UrgentMain(q, d) PROVE n \in DOMAIN Rank
  <2>1. Role(d, n) = "MAIN"
    BY DEF UrgentMain
  <2>2. n \in Recipe[d].title \/ n \in MainFood
    BY <2>1 DEF Role
  <2>3. d \in Dish
    OBVIOUS
  <2>4. Recipe[d].title \in {Recipe[e].title : e \in Dish}
    BY <2>3
  <2> HIDE DEF f, T
  <2>5. n \in MainFood \cup UNION {Recipe[e].title : e \in Dish}
    BY <2>2, <2>4
  <2> QED
    BY <2>5, RankAssumption
<1> QED
  BY <1>5, <1>6 DEF Food

LEMMA WithIs ==
  ASSUME NEW q, NEW rows, NEW S, IsList(rows, S), NEW n
  PROVE  IsList(With(q, rows, n), {d \in S : n \in UrgentMain(q, d)})
<1>1. Range(rows) = S
  BY DEF IsList
<1>2. S \cap {d \in S : n \in UrgentMain(q, d)} = {d \in S : n \in UrgentMain(q, d)}
  OBVIOUS
<1> QED
  BY <1>1, <1>2, KeptList DEF With

LEMMA WithoutIs ==
  ASSUME NEW rows, NEW S, IsList(rows, S), NEW D
  PROVE  IsList(Without(rows, D), S \ D)
<1>1. Range(rows) = S
  BY DEF IsList
<1>2. S \cap (S \ D) = S \ D
  OBVIOUS
<1> QED
  BY <1>1, <1>2, KeptList DEF Without

LEMMA CountIs ==
  ASSUME NEW q, NEW rows, NEW S, IsList(rows, S), NEW n
  PROVE  Count(q, rows, n) \in Nat /\ (n \in Food(q, S) => Count(q, rows, n) > 0)
<1> DEFINE T == {d \in S : n \in UrgentMain(q, d)}
<1>1. IsList(With(q, rows, n), T)
  BY WithIs
<1>2. n \in Food(q, S) => T # {}
  BY DEF Food
<1> HIDE DEF T
<1>3. Count(q, rows, n) = Cardinality(T) /\ Cardinality(T) \in Nat
  BY <1>1, ListLen DEF Count
<1>4. T # {} => Cardinality(T) # 0
  BY <1>1, FS_EmptySet DEF IsList
<1> QED
  BY <1>2, <1>3, <1>4

LEMMA RarestIs ==
  ASSUME NEW q, NEW rows, NEW S, IsList(rows, S), S \subseteq Dish
  PROVE  IsList(Rarest(q, rows), Food(q, S))
<1> DEFINE F == Food(q, S)
           key == [n \in F |-> <<Count(q, rows, n), Rank[n]>>]
<1>1. Foods(q, rows) = F
  BY DEF Foods, Food, IsList
<1>2. IsFiniteSet(F) /\ \A n \in F : Rank[n] \in Int /\ n \in DOMAIN Rank
  BY FoodIs, RankAssumption
<1>3. \A n \in F : Count(q, rows, n) \in Int
  BY CountIs
<1>4. Rarest(q, rows) = Sorted(F, key)
  BY <1>1 DEF Rarest
<1> HIDE DEF F
<1>5. \A n \in F : key[n] \in Keys(2) /\ key[n][2] = Rank[n]
  BY <1>2, <1>3 DEF Keys
<1>6. \A m, n \in F : key[m] = key[n] => m = n
  <2> SUFFICES ASSUME NEW m \in F, NEW n \in F, key[m] = key[n] PROVE m = n
    OBVIOUS
  <2>1. Rank[m] = Rank[n]
    BY <1>5
  <2> QED
    BY <1>2, <2>1, RankAssumption
<1> HIDE DEF key
<1>7. Keyed(F, key, 2)
  BY <1>2, <1>5, <1>6 DEF Keyed
<1> QED
  BY <1>4, <1>7, SortedIs DEF InOrder, F

LEMMA RarityKeys ==
  ASSUME NEW q, NEW rows, NEW S, IsList(rows, S), S \subseteq Dish, NEW T, T \subseteq S, NEW acc
  PROVE  Keyed(T, Rarity(q, rows, acc, T), 2)
<1> DEFINE key == Rarity(q, rows, acc, T)
<1>1. ASSUME NEW d \in T PROVE key[d] \in Keys(2) /\ key[d][2] = Place(rows, d)
  <2> DEFINE U == UrgentMain(q, d) \ acc.covered
             f == [n \in U |-> 60 \div Count(q, rows, n)]
             a == 0 - SumFunction(f)
             p == Place(rows, d)
  <2>1. IsFiniteSet(U)
    <3>1. IsFiniteSet(UrgentMain(q, d))
      BY UsesFinite
    <3> QED
      BY <3>1, FS_Subset
  <2>2. \A n \in U : Count(q, rows, n) \in Nat /\ Count(q, rows, n) > 0
    <3>1. \A n \in U : n \in Food(q, S)
      BY DEF Food
    <3> QED
      BY <3>1, CountIs
  <2>3. \A x \in Nat : x > 0 => 60 \div x \in Int
    OBVIOUS
  <2>4. f \in [U -> Int]
    <3> HIDE DEF U
    <3> QED
      BY <2>2, <2>3
  <2>5. p \in Int
    <3>1. p \in 1 .. Cardinality(S) /\ Cardinality(S) \in Nat
      BY PlaceIn, ListLen
    <3> HIDE DEF p
    <3> QED
      BY <3>1
  <2>6. key[d] = <<a, p>>
    BY DEF Rarity
  <2> HIDE DEF f, U, p, key
  <2>7. a \in Int
    <3>1. SumFunction(f) \in Int
      BY <2>1, <2>4, SumInt
    <3> QED
      BY <3>1
  <2> HIDE DEF a
  <2> QED
    BY <2>5, <2>6, <2>7 DEF Keys, p
<1> HIDE DEF key
<1>2. ASSUME NEW d \in T, NEW e \in T, key[d] = key[e] PROVE d = e
  <2>1. Place(rows, d) = Place(rows, e)
    BY <1>1, <1>2
  <2>2. rows[Place(rows, d)] = d /\ rows[Place(rows, e)] = e
    BY PlaceIn
  <2> QED
    BY <2>1, <2>2
<1>3. IsFiniteSet(T)
  BY FS_Subset DEF IsList
<1> QED
  BY <1>1, <1>2, <1>3 DEF Keyed, key

\* The rows are in two lists, those that are shown and those that are left.
Views(q, S) == [out : Seq(S), left : Seq(S), covered : SUBSET Food(q, S)]
Halves(S, limit, a) ==
    /\ Range(a.out) \subseteq S /\ IsList(a.out, Range(a.out))
    /\ IsList(a.left, S \ Range(a.out)) /\ Len(a.out) <= limit
Covering(q, S, limit) ==
    {a \in Views(q, S) : /\ Halves(S, limit, a) /\ a.covered = Food(q, Range(a.out))
                         /\ Len(a.out) <= Cardinality(a.covered)}
Open(q, S, a) == Food(q, S \ Range(a.out)) \ a.covered
CoverStep(q, S, limit, a, b) ==
    /\ b \in Covering(q, S, limit)
    /\ Open(q, S, a) = {} \/ Len(a.out) >= limit => b = a
    /\ ~(Open(q, S, a) = {} \/ Len(a.out) >= limit) => Len(b.out) = Len(a.out) + 1

LEMMA CoverIs ==
  ASSUME NEW q, NEW rows, NEW S, IsList(rows, S), S \subseteq Dish, NEW limit \in Nat, NEW a \in Covering(q, S, limit)
  PROVE  CoverStep(q, S, limit, a, Cover(q, rows, limit, a))
<1> DEFINE X == Range(a.out)
           Y == S \ X
           open == Open(q, S, a)
           F == Food(q, S)
<1>1. /\ a \in Views(q, S) /\ X \subseteq S /\ IsList(a.out, X) /\ IsList(a.left, Y) /\ Len(a.out) <= limit
      /\ a.covered = Food(q, X) /\ Len(a.out) <= Cardinality(a.covered)
  BY DEF Covering, Halves
<1>2. Foods(q, a.left) \ a.covered = open
  BY <1>1 DEF Foods, Food, IsList, Open
<1>3. open = Food(q, Y) \ a.covered
  BY DEF Open
<1> HIDE DEF open
<1>4. CASE open = {} \/ Len(a.out) >= limit
  <2>1. Cover(q, rows, limit, a) = a
    BY <1>2, <1>4 DEF Cover
  <2> QED
    BY <1>4, <2>1 DEF CoverStep, open
<1>5. CASE ~(open = {} \/ Len(a.out) >= limit)
  <2> DEFINE rare == Kept(Rarest(q, rows), open)[1]
             T == {d \in Y : rare \in UrgentMain(q, d)}
             best == Best(T, Rarity(q, rows, a, T))
             b == [out |-> Append(a.out, best), left |-> Without(a.left, {best}), covered |-> a.covered \cup UrgentMain(q, best)]
  <2>1. rare \in open
    <3>1. F \cap open = open
      BY <1>3 DEF Food
    <3>2. IsList(Kept(Rarest(q, rows), open), open)
      <4>1. IsList(Rarest(q, rows), F)
        BY RarestIs
      <4> HIDE DEF F
      <4> QED
        BY <3>1, <4>1, KeptList
    <3>3. 1 \in 1 .. Cardinality(open)
      <4>1. Cardinality(open) \in Nat /\ Cardinality(open) # 0
        BY <1>5, <3>2, FS_CardinalityType, FS_EmptySet DEF IsList
      <4> QED
        BY <4>1
    <3> QED
      BY <3>2, <3>3 DEF IsList
  <2> HIDE DEF rare
  <2>2. T # {} /\ T \subseteq S /\ T \subseteq Y
    BY <1>3, <2>1 DEF Food
  <2>3. Range(With(q, a.left, rare)) = T
    <3>1. IsList(With(q, a.left, rare), T)
      BY <1>1, WithIs
    <3> QED
      BY <3>1 DEF IsList
  <2>4. Cover(q, rows, limit, a) = b
    BY <1>2, <1>5, <2>3 DEF Cover, Shows, rare
  <2>5. best \in T
    <3>1. Keyed(T, Rarity(q, rows, a, T), 2)
      BY <2>2, RarityKeys
    <3> HIDE DEF T
    <3> QED
      BY <2>2, <3>1, BestIs
  <2>6. rare \in UrgentMain(q, best) /\ best \in Y /\ rare \notin a.covered
    BY <1>3, <2>1, <2>5
  <2> HIDE DEF best, T
  <2> DEFINE Z == X \cup {best}
  <2>7. /\ IsList(b.out, Z) /\ Cardinality(Z) = Cardinality(X) + 1
        /\ Range(b.out) = Z /\ Len(b.out) = Len(a.out) + 1
    <3>1. best \notin X
      BY <2>6
    <3> HIDE DEF X
    <3>2. IsList(b.out, Z) /\ Cardinality(Z) = Cardinality(X) + 1
      BY <1>1, <3>1, ListAppend
    <3> HIDE DEF Z, b
    <3>3. Len(a.out) = Cardinality(X) /\ Len(b.out) = Cardinality(Z)
      BY <1>1, <3>2, ListLen
    <3>4. Range(b.out) = Z
      BY <3>2 DEF IsList
    <3> QED
      BY <3>2, <3>3, <3>4
  <2>8. IsList(b.left, S \ Z)
    <3>1. S \ Z = Y \ {best}
      OBVIOUS
    <3>2. IsList(b.left, Y \ {best})
      BY <1>1, WithoutIs
    <3> QED
      BY <3>1, <3>2
  <2>9. b.covered = Food(q, Z) /\ Z \subseteq S
    <3>1. b.covered = Food(q, X) \cup UrgentMain(q, best)
      BY <1>1
    <3>2. Food(q, Z) = Food(q, X) \cup UrgentMain(q, best)
      BY DEF Food
    <3> QED
      BY <1>1, <2>6, <3>1, <3>2
  <2>10. Len(b.out) <= limit /\ Len(a.out) \in Nat
    <3>1. Len(a.out) \in Nat
      BY <1>1, ListLen
    <3> QED
      BY <1>5, <2>7, <3>1
  <2>11. Len(b.out) <= Cardinality(b.covered)
    <3>1. IsFiniteSet(b.covered) /\ IsFiniteSet(a.covered)
      BY <1>1, <2>9, FoodIs
    <3>2. a.covered \cup {rare} \subseteq b.covered
      BY <2>6
    <3>3. Cardinality(a.covered \cup {rare}) = Cardinality(a.covered) + 1
      BY <2>6, <3>1, FS_AddElement
    <3>4. Cardinality(a.covered \cup {rare}) <= Cardinality(b.covered)
      BY <3>1, <3>2, FS_Subset
    <3>5. Cardinality(a.covered) \in Nat /\ Cardinality(b.covered) \in Nat
      BY <3>1, FS_CardinalityType
    <3> HIDE DEF b
    <3> QED
      BY <1>1, <2>7, <2>10, <3>3, <3>4, <3>5
  <2>12. b \in Views(q, S)
    <3>1. b.out \in Seq(S)
      BY <2>7, <2>9, ListLen, SeqMonotonic
    <3>2. b.left \in Seq(S)
      <4>1. S \ Z \subseteq S
        OBVIOUS
      <4> HIDE DEF Z, b
      <4> QED
        BY <2>8, <4>1, ListLen, SeqMonotonic
    <3>3. b.covered \in SUBSET Food(q, S)
      <4>1. Food(q, Z) \subseteq Food(q, S)
        BY <2>9 DEF Food
      <4> HIDE DEF Z, b
      <4> QED
        BY <2>9, <4>1
    <3>4. b = [out |-> b.out, left |-> b.left, covered |-> b.covered]
      OBVIOUS
    <3> HIDE DEF b, Z
    <3> QED
      BY <3>1, <3>2, <3>3, <3>4 DEF Views
  <2> HIDE DEF b, Z
  <2>13. b \in Covering(q, S, limit)
    BY <2>7, <2>8, <2>9, <2>10, <2>11, <2>12 DEF Covering, Halves
  <2>14. CoverStep(q, S, limit, a, b)
    BY <1>5, <2>7, <2>13 DEF CoverStep, open
  <2> QED
    BY <2>4, <2>14
<1> QED
  BY <1>4, <1>5

NoView(rows) == [out |-> << >>, left |-> rows, covered |-> {}]
CoverAll(q, rows, limit) == FoldLeft(LAMBDA acc, n : Cover(q, rows, limit, acc), NoView(rows), Rarest(q, rows))
CoversBy(g, n, q, rows, limit) ==
    /\ g[0] = NoView(rows) /\ CoverAll(q, rows, limit) = g[n]
    /\ \A i \in 1 .. n : g[i] = Cover(q, rows, limit, g[i - 1])

LEMMA NoViewIs ==
  ASSUME NEW q, NEW rows, NEW S, IsList(rows, S), S \subseteq Dish, NEW limit \in Nat
  PROVE  NoView(rows) \in Covering(q, S, limit) /\ Len(NoView(rows).out) = 0
<1> DEFINE a == NoView(rows)
<1>1. a = [out |-> << >>, left |-> rows, covered |-> {}]
  BY DEF NoView
<1> DEFINE e == << >>
<1>2. e \in Seq(S) /\ Len(e) = 0 /\ IsList(e, {}) /\ Range(e) = {}
  BY EmptySeq, EmptyList
<1> HIDE DEF e
<1>3. a.out = e /\ a.left = rows /\ a.covered = {} /\ a = [out |-> e, left |-> rows, covered |-> {}]
  BY <1>1 DEF e
<1>4. rows \in Seq(S)
  BY ListLen
<1>5. Range(a.out) = {} /\ S \ {} = S /\ Food(q, {}) = {} /\ Len(a.out) = 0 /\ 0 <= limit /\ IsList(a.out, {})
  BY <1>2, <1>3 DEF Food
<1> HIDE DEF a
<1>6. a \in Views(q, S)
  BY <1>2, <1>3, <1>4 DEF Views
<1>7. Halves(S, limit, a)
  <2>1. Range(a.out) \subseteq S /\ IsList(a.out, Range(a.out))
    BY <1>5
  <2>2. IsList(a.left, S \ Range(a.out))
    BY <1>3, <1>5
  <2>3. Len(a.out) <= limit
    BY <1>5
  <2> QED
    BY <2>1, <2>2, <2>3 DEF Halves
<1>8. Cardinality({}) = 0
  BY FS_EmptySet
<1>9. a \in Covering(q, S, limit)
  <2>1. a.covered = Food(q, Range(a.out))
    BY <1>3, <1>5
  <2>2. Len(a.out) <= Cardinality(a.covered)
    BY <1>3, <1>5, <1>8
  <2> QED
    BY <1>6, <1>7, <2>1, <2>2 DEF Covering
<1> QED
  BY <1>5, <1>9 DEF a

LEMMA CoverChain ==
  ASSUME NEW q, NEW rows, NEW S, IsList(rows, S), S \subseteq Dish, NEW limit \in Nat,
         NEW n \in Nat, NEW seq, seq = Rarest(q, rows), seq \in [1 .. n -> Food(q, S)]
  PROVE  \E g : CoversBy(g, n, q, rows, limit)
<1>n. n \in Nat /\ seq \in [1 .. n -> Food(q, S)] /\ DOMAIN seq = 1 .. n /\ NoView(rows) \in Covering(q, S, limit)
  BY NoViewIs
<1> DEFINE F == [p \in Covering(q, S, limit) \X Food(q, S) |-> Cover(q, rows, limit, p[1])]
           c == CHOOSE iter : iter = [s \in SUBSET DOMAIN seq |-> IF s = {} THEN NoView(rows)
                   ELSE Cover(q, rows, limit, iter[s \ {Max(s)}])]
<1>1. CoverAll(q, rows, limit) = c[1 .. n]
  BY <1>n DEF CoverAll, FoldLeft, MapThenFoldSet
<1>2. F \in [Covering(q, S, limit) \X Food(q, S) -> Covering(q, S, limit)]
  <2>1. ASSUME NEW a \in Covering(q, S, limit) PROVE Cover(q, rows, limit, a) \in Covering(q, S, limit)
    BY CoverIs DEF CoverStep
  <2> QED
    BY <2>1
<1>3. PICK h \in [SUBSET (1 .. n) -> Covering(q, S, limit)] : FoldsDown(h, n, seq, NoView(rows), F)
  <2> HIDE DEF F
  <2> QED
    BY <1>n, <1>2, FoldExists
<1>4. ASSUME NEW s \in SUBSET (1 .. n), s # {}
      PROVE  h[s] = Cover(q, rows, limit, h[s \ {Max(s)}])
  <2>1. Max(s) \in s
    BY <1>n, <1>4, MaxIn
  <2>2. h[s \ {Max(s)}] \in Covering(q, S, limit) /\ seq[Max(s)] \in Food(q, S)
    BY <1>n, <2>1
  <2>3. h[s] = F[<<h[s \ {Max(s)}], seq[Max(s)]>>]
    <3> HIDE DEF F
    <3> QED
      BY <1>3, <1>4 DEF FoldsDown
  <2> HIDE DEF c
  <2> QED
    BY <2>2, <2>3
<1>5. h = [s \in SUBSET DOMAIN seq |-> IF s = {} THEN NoView(rows)
                   ELSE Cover(q, rows, limit, h[s \ {Max(s)}])]
  <2>1. h[{}] = NoView(rows)
    BY <1>3 DEF FoldsDown
  <2> HIDE DEF F, c
  <2> QED
    BY <1>n, <1>4, <2>1
<1>6. c = [s \in SUBSET DOMAIN seq |-> IF s = {} THEN NoView(rows)
                   ELSE Cover(q, rows, limit, c[s \ {Max(s)}])]
  <2> HIDE DEF F
  <2> QED
    BY <1>5
<1> HIDE DEF c, F
<1> DEFINE G == [s \in SUBSET (1 .. n) |-> Cover(q, rows, limit, c[s \ {Max(s)}])]
           g == [i \in 0 .. n |-> c[1 .. i]]
<1>7. GoesDown(c, n, NoView(rows), G)
  BY <1>n, <1>6 DEF GoesDown
<1>8. IsChain(c, n, NoView(rows), G)
  <2> HIDE DEF G
  <2> QED
    BY <1>n, <1>7, ChainOf
<1>9. ASSUME NEW i \in 1 .. n PROVE g[i] = Cover(q, rows, limit, g[i - 1])
  <2>1. 1 .. i \in SUBSET (1 .. n) /\ i - 1 \in 0 .. n /\ i \in 0 .. n
    BY <1>n
  <2>2. c[1 .. i] = G[1 .. i] /\ Max(1 .. i) = i /\ (1 .. i) \ {i} = 1 .. (i - 1)
    BY <1>8 DEF IsChain
  <2>3. G[1 .. i] = Cover(q, rows, limit, c[1 .. (i - 1)])
    BY <2>1, <2>2
  <2> QED
    BY <2>1, <2>2, <2>3
<1>10. g[0] = NoView(rows) /\ g[n] = c[1 .. n]
  BY <1>8, <1>n DEF IsChain
<1> HIDE DEF g
<1>11. CoversBy(g, n, q, rows, limit)
  BY <1>1, <1>9, <1>10 DEF CoversBy
<1> QED
  BY <1>11

\* After i steps there are i rows, unless no food is open or no room is left.
CoverProgress(q, S, limit, i, a) ==
    a \in Covering(q, S, limit) /\ (Open(q, S, a) = {} \/ Len(a.out) >= limit \/ Len(a.out) = i)

LEMMA CoverAllIs ==
  ASSUME NEW q, NEW rows, NEW S, IsList(rows, S), S \subseteq Dish, NEW limit \in Nat,
         NEW a, a = CoverAll(q, rows, limit)
  PROVE  a \in Covering(q, S, limit) /\ (Cardinality(Food(q, S)) <= limit => Open(q, S, a) = {})
<1> DEFINE n == Cardinality(Food(q, S))
           seq == Rarest(q, rows)
<1>1. n \in Nat /\ seq \in [1 .. n -> Food(q, S)]
  <2>1. IsList(seq, Food(q, S))
    BY RarestIs
  <2> HIDE DEF seq
  <2> QED
    BY <2>1, FS_CardinalityType DEF IsList
<1>2. PICK g : CoversBy(g, n, q, rows, limit)
  <2> HIDE DEF n
  <2> QED
    BY <1>1, CoverChain
<1> HIDE DEF n, seq
<1> DEFINE T == {i \in 0 .. n : CoverProgress(q, S, limit, i, g[i])}
<1>3. 0 \in T
  <2>1. CoverProgress(q, S, limit, 0, g[0])
    BY <1>2, NoViewIs DEF CoversBy, CoverProgress
  <2>2. 0 \in 0 .. n
    BY <1>1
  <2> QED
    BY <2>1, <2>2
<1>4. ASSUME NEW i \in 1 .. n, i - 1 \in T PROVE i \in T
  <2> DEFINE b == g[i - 1]
  <2>1. CoverProgress(q, S, limit, i - 1, b)
    BY <1>4
  <2> HIDE DEF T
  <2>2. b \in Covering(q, S, limit) /\ (Open(q, S, b) = {} \/ Len(b.out) >= limit \/ Len(b.out) = i - 1)
    BY <2>1 DEF CoverProgress
  <2>3. g[i] = Cover(q, rows, limit, b)
    BY <1>2 DEF CoversBy
  <2> HIDE DEF b
  <2>4. CoverStep(q, S, limit, b, g[i])
    BY <2>2, <2>3, CoverIs
  <2>5. i - 1 + 1 = i /\ i \in 0 .. n
    BY <1>1
  <2>6. ASSUME Open(q, S, b) = {} \/ Len(b.out) >= limit PROVE CoverProgress(q, S, limit, i, g[i])
    BY <2>2, <2>4, <2>6 DEF CoverStep, CoverProgress
  <2>7. ASSUME ~(Open(q, S, b) = {} \/ Len(b.out) >= limit) PROVE CoverProgress(q, S, limit, i, g[i])
    BY <2>2, <2>4, <2>5, <2>7 DEF CoverStep, CoverProgress
  <2>8. CoverProgress(q, S, limit, i, g[i])
    BY <2>6, <2>7
  <2> QED
    BY <2>5, <2>8 DEF T
<1> HIDE DEF T
<1>5. \A i \in 0 .. n : i \in T
  BY <1>1, <1>3, <1>4, NatInd
<1>6. n \in 0 .. n
  BY <1>1
<1>7. CoverProgress(q, S, limit, n, a)
  <2>1. n \in T
    BY <1>5, <1>6
  <2>2. a = g[n]
    BY <1>2 DEF CoversBy
  <2> QED
    BY <2>1, <2>2 DEF T
<1>8. a \in Covering(q, S, limit) /\ (Open(q, S, a) = {} \/ Len(a.out) >= limit \/ Len(a.out) = n)
  BY <1>7 DEF CoverProgress
<1>9. ASSUME n <= limit PROVE Open(q, S, a) = {}
  <2> SUFFICES ASSUME Len(a.out) >= limit \/ Len(a.out) = n PROVE Open(q, S, a) = {}
    BY <1>8
  <2>1. Range(a.out) \subseteq S /\ a.covered = Food(q, Range(a.out)) /\ Len(a.out) <= Cardinality(a.covered)
        /\ IsList(a.out, Range(a.out))
    BY <1>8 DEF Covering, Halves
  <2>2. a.covered \subseteq Food(q, S) /\ Open(q, S, a) \subseteq Food(q, S) \ a.covered
    BY <2>1 DEF Food, Open
  <2>3. IsFiniteSet(Food(q, S))
    BY FoodIs
  <2>4. Cardinality(a.covered) \in Nat /\ Cardinality(a.covered) <= n
    BY <2>2, <2>3, FS_Subset, FS_CardinalityType DEF n
  <2>5. Len(a.out) \in Nat
    BY <2>1, ListLen
  <2>6. Cardinality(a.covered) = n
    BY <1>1, <1>9, <2>1, <2>4, <2>5
  <2>7. a.covered = Food(q, S)
    BY <2>2, <2>3, <2>6, FS_Subset DEF n
  <2> QED
    BY <2>2, <2>7
<1> QED
  BY <1>8, <1>9 DEF n

\* All rows with a food are shown, if they fit.
Halved(q, S, limit) == {a \in Views(q, S) : Halves(S, limit, a)}
Fills(q, limit, a, n) ==
    IF Len(With(q, a.left, n)) <= limit - Len(a.out)
    THEN [a EXCEPT !.out = @ \o With(q, a.left, n), !.left = Without(@, Range(With(q, a.left, n)))]
    ELSE a
FillAll(q, rows, limit, acc) == FoldLeft(LAMBDA a, n : Fills(q, limit, a, n), acc, Rarest(q, rows))
FillsBy(g, n, q, rows, limit, acc, seq) ==
    /\ g[0] = acc /\ FillAll(q, rows, limit, acc) = g[n]
    /\ \A i \in 1 .. n : g[i] = Fills(q, limit, g[i - 1], seq[i])

LEMMA FillIs ==
  ASSUME NEW q, NEW S, S \subseteq Dish, NEW limit \in Nat, NEW a \in Halved(q, S, limit), NEW n
  PROVE  Fills(q, limit, a, n) \in Halved(q, S, limit) /\ Range(a.out) \subseteq Range(Fills(q, limit, a, n).out)
<1> DEFINE X == Range(a.out)
           Y == S \ X
           more == With(q, a.left, n)
           T == {d \in Y : n \in UrgentMain(q, d)}
           out == a.out \o more
           left == Without(a.left, Range(more))
           b == [a EXCEPT !.out = out, !.left = left]
<1>1. a \in Views(q, S) /\ X \subseteq S /\ IsList(a.out, X) /\ IsList(a.left, Y) /\ Len(a.out) <= limit
  BY DEF Halved, Halves
<1>2. IsList(more, T)
  BY <1>1, WithIs
<1>3. CASE ~(Len(more) <= limit - Len(a.out))
  <2>1. Fills(q, limit, a, n) = a
    BY <1>3 DEF Fills
  <2> QED
    BY <2>1
<1>4. CASE Len(more) <= limit - Len(a.out)
  <2> DEFINE Z == X \cup T
  <2>1. Fills(q, limit, a, n) = b
    BY <1>4 DEF Fills
  <2>2. X \cap T = {} /\ Z \subseteq S
    BY <1>1
  <2>3. Len(a.out) = Cardinality(X) /\ Len(more) = Cardinality(T) /\ Cardinality(X) \in Nat /\ Cardinality(T) \in Nat
    <3> HIDE DEF X, T, more
    <3> QED
      BY <1>1, <1>2, ListLen
  <2>4. IsList(out, Z) /\ Len(out) = Cardinality(X) + Cardinality(T)
    <3> HIDE DEF X, T, more
    <3> QED
      BY <1>1, <1>2, <2>2, ListConcat
  <2>5. Range(out) = Z /\ Range(more) = T
    BY <1>2, <2>4 DEF IsList
  <2>6. IsList(left, S \ Z)
    <3>1. IsList(left, Y \ Range(more))
      BY <1>1, WithoutIs
    <3>2. Y \ Range(more) = S \ Z
      BY <2>5
    <3> QED
      BY <3>1, <3>2
  <2>7. Len(out) <= limit
    <3> HIDE DEF X, T, more, out
    <3> QED
      BY <1>4, <2>3, <2>4
  <2>8. out \in Seq(S) /\ left \in Seq(S)
    <3>1. S \ Z \subseteq S
      OBVIOUS
    <3> HIDE DEF Z, out, left
    <3> QED
      BY <2>2, <2>4, <2>6, <3>1, ListLen, SeqMonotonic
  <2>9. X \subseteq Z
    OBVIOUS
  <2> HIDE DEF out, left, more, T, Y, Z
  <2>10. b \in Views(q, S) /\ b.out = out /\ b.left = left
    BY <1>1, <2>8 DEF Views
  <2> HIDE DEF b
  <2>11. Halves(S, limit, b)
    BY <2>2, <2>4, <2>5, <2>6, <2>7, <2>10 DEF Halves
  <2> QED
    BY <2>1, <2>5, <2>9, <2>10, <2>11 DEF Halved
<1> QED
  BY <1>3, <1>4

LEMMA FillChain ==
  ASSUME NEW q, NEW rows, NEW S, S \subseteq Dish, NEW limit \in Nat, NEW acc \in Halved(q, S, limit),
         NEW n \in Nat, NEW E, NEW seq, seq = Rarest(q, rows), seq \in [1 .. n -> E]
  PROVE  \E g : FillsBy(g, n, q, rows, limit, acc, seq)
<1>n. n \in Nat /\ seq \in [1 .. n -> E] /\ DOMAIN seq = 1 .. n /\ acc \in Halved(q, S, limit)
  OBVIOUS
<1> DEFINE F == [p \in Halved(q, S, limit) \X E |-> Fills(q, limit, p[1], p[2])]
           c == CHOOSE iter : iter = [s \in SUBSET DOMAIN seq |-> IF s = {} THEN acc
                   ELSE Fills(q, limit, iter[s \ {Max(s)}], seq[Max(s)])]
<1>1. FillAll(q, rows, limit, acc) = c[1 .. n]
  BY <1>n DEF FillAll, FoldLeft, MapThenFoldSet
<1>2. F \in [Halved(q, S, limit) \X E -> Halved(q, S, limit)]
  <2>1. ASSUME NEW a \in Halved(q, S, limit), NEW x \in E PROVE Fills(q, limit, a, x) \in Halved(q, S, limit)
    BY FillIs
  <2> QED
    BY <2>1
<1>3. PICK h \in [SUBSET (1 .. n) -> Halved(q, S, limit)] : FoldsDown(h, n, seq, acc, F)
  <2> HIDE DEF F
  <2> QED
    BY <1>n, <1>2, FoldExists
<1>4. ASSUME NEW s \in SUBSET (1 .. n), s # {}
      PROVE  h[s] = Fills(q, limit, h[s \ {Max(s)}], seq[Max(s)])
  <2>1. Max(s) \in s
    BY <1>n, <1>4, MaxIn
  <2>2. h[s \ {Max(s)}] \in Halved(q, S, limit) /\ seq[Max(s)] \in E
    BY <1>n, <2>1
  <2>3. h[s] = F[<<h[s \ {Max(s)}], seq[Max(s)]>>]
    <3> HIDE DEF F
    <3> QED
      BY <1>3, <1>4 DEF FoldsDown
  <2> HIDE DEF c
  <2> QED
    BY <2>2, <2>3
<1>5. h = [s \in SUBSET DOMAIN seq |-> IF s = {} THEN acc
                   ELSE Fills(q, limit, h[s \ {Max(s)}], seq[Max(s)])]
  <2>1. h[{}] = acc
    BY <1>3 DEF FoldsDown
  <2> HIDE DEF F, c
  <2> QED
    BY <1>n, <1>4, <2>1
<1>6. c = [s \in SUBSET DOMAIN seq |-> IF s = {} THEN acc
                   ELSE Fills(q, limit, c[s \ {Max(s)}], seq[Max(s)])]
  <2> HIDE DEF F
  <2> QED
    BY <1>5
<1> HIDE DEF c, F
<1> DEFINE G == [s \in SUBSET (1 .. n) |-> Fills(q, limit, c[s \ {Max(s)}], seq[Max(s)])]
           g == [i \in 0 .. n |-> c[1 .. i]]
<1>7. GoesDown(c, n, acc, G)
  BY <1>n, <1>6 DEF GoesDown
<1>8. IsChain(c, n, acc, G)
  <2> HIDE DEF G
  <2> QED
    BY <1>n, <1>7, ChainOf
<1>9. ASSUME NEW i \in 1 .. n PROVE g[i] = Fills(q, limit, g[i - 1], seq[i])
  <2>1. 1 .. i \in SUBSET (1 .. n) /\ i - 1 \in 0 .. n /\ i \in 0 .. n
    BY <1>n
  <2>2. c[1 .. i] = G[1 .. i] /\ Max(1 .. i) = i /\ (1 .. i) \ {i} = 1 .. (i - 1)
    BY <1>8 DEF IsChain
  <2>3. G[1 .. i] = Fills(q, limit, c[1 .. (i - 1)], seq[i])
    BY <2>1, <2>2
  <2> QED
    BY <2>1, <2>2, <2>3
<1>10. g[0] = acc /\ g[n] = c[1 .. n]
  BY <1>8, <1>n DEF IsChain
<1> HIDE DEF g
<1>11. FillsBy(g, n, q, rows, limit, acc, seq)
  BY <1>1, <1>9, <1>10 DEF FillsBy
<1> QED
  BY <1>11

LEMMA FillAllIs ==
  ASSUME NEW q, NEW rows, NEW S, IsList(rows, S), S \subseteq Dish, NEW limit \in Nat, NEW acc \in Halved(q, S, limit),
         NEW a, a = FillAll(q, rows, limit, acc)
  PROVE  a \in Halved(q, S, limit) /\ Range(acc.out) \subseteq Range(a.out)
<1> DEFINE n == Cardinality(Food(q, S))
           seq == Rarest(q, rows)
<1>1. n \in Nat /\ seq \in [1 .. n -> Food(q, S)]
  <2>1. IsList(seq, Food(q, S))
    BY RarestIs
  <2> HIDE DEF seq
  <2> QED
    BY <2>1, FS_CardinalityType DEF IsList
<1>2. PICK g : FillsBy(g, n, q, rows, limit, acc, seq)
  <2> HIDE DEF n
  <2> QED
    BY <1>1, FillChain
<1> HIDE DEF n, seq
<1> DEFINE T == {i \in 0 .. n : g[i] \in Halved(q, S, limit) /\ Range(acc.out) \subseteq Range(g[i].out)}
<1>3. 0 \in T
  <2>1. g[0] = acc
    BY <1>2 DEF FillsBy
  <2>2. 0 \in 0 .. n
    BY <1>1
  <2> QED
    BY <2>1, <2>2
<1>4. ASSUME NEW i \in 1 .. n, i - 1 \in T PROVE i \in T
  <2> DEFINE b == g[i - 1]
  <2>1. b \in Halved(q, S, limit) /\ Range(acc.out) \subseteq Range(b.out)
    BY <1>4
  <2> HIDE DEF T
  <2>2. g[i] = Fills(q, limit, b, seq[i])
    BY <1>2 DEF FillsBy
  <2> HIDE DEF b
  <2>3. g[i] \in Halved(q, S, limit) /\ Range(b.out) \subseteq Range(g[i].out)
    BY <2>1, <2>2, FillIs
  <2>4. i \in 0 .. n
    BY <1>1
  <2> QED
    BY <2>1, <2>3, <2>4 DEF T
<1> HIDE DEF T
<1>5. \A i \in 0 .. n : i \in T
  BY <1>1, <1>3, <1>4, NatInd
<1>6. n \in 0 .. n
  BY <1>1
<1>7. g[n] \in Halved(q, S, limit) /\ Range(acc.out) \subseteq Range(g[n].out)
  BY <1>5, <1>6 DEF T
<1> QED
  BY <1>2, <1>7 DEF FillsBy

\* A list u of S that begins with the list s of its part X.
Extends(S, X, s, u) ==
    /\ IsList(u, S) /\ Cardinality(S) = Cardinality(X) + Cardinality(S \ X)
    /\ \A i \in 1 .. Cardinality(X) : u[i] = s[i]

LEMMA SplitList ==
  ASSUME NEW S, NEW X, X \subseteq S, NEW s, IsList(s, X), NEW t, IsList(t, S \ X)
  PROVE  Extends(S, X, s, s \o t)
<1> DEFINE Y == S \ X
           U == X \cup Y
<1>1. U = S /\ X \cap Y = {} /\ IsList(t, Y)
  OBVIOUS
<1> HIDE DEF Y
<1>2. IsList(s \o t, U) /\ Cardinality(U) = Cardinality(X) + Cardinality(Y)
  BY <1>1, ListConcat
<1>3. \A i \in 1 .. Cardinality(X) : (s \o t)[i] = s[i]
  BY <1>1, ListConcat
<1> HIDE DEF U
<1> QED
  BY <1>1, <1>2, <1>3 DEF Y, Extends

\* The rows representative_candidates() picks are rows of the list, none twice, and
\* an urgent food that the list can serve goes without a row only if there are more
\* such foods than places.
THEOREM RepresentativeIs ==
  ASSUME NEW q, NEW rows, NEW S, IsList(rows, S), S \subseteq Dish, NEW limit \in Nat,
         NEW s, s = Representative(q, rows, limit)
  PROVE  Represented(q, S, s, limit) /\ IsList(s, Range(s)) /\ Range(s) \subseteq S
<1> DEFINE a == CoverAll(q, rows, limit)
           b == FillAll(q, rows, limit, a)
           all == b.out \o b.left
           m == Least(limit, Len(all))
           X == Range(b.out)
<1>1. s = SubSeq(all, 1, m)
  BY DEF Representative, Finish, CoverAll, FillAll, Fills, NoView
<1>2. a \in Covering(q, S, limit) /\ (Cardinality(Food(q, S)) <= limit => Open(q, S, a) = {})
  BY CoverAllIs
<1> HIDE DEF a
<1>3. b \in Halved(q, S, limit) /\ Range(a.out) \subseteq X
  <2>1. a \in Halved(q, S, limit)
    BY <1>2 DEF Covering, Halved
  <2> QED
    BY <2>1, FillAllIs
<1> HIDE DEF b
<1>4. X \subseteq S /\ IsList(b.out, X) /\ IsList(b.left, S \ X) /\ Len(b.out) <= limit
  BY <1>3 DEF Halved, Halves
<1>5. /\ IsList(all, S) /\ Cardinality(S) = Cardinality(X) + Cardinality(S \ X)
      /\ \A i \in 1 .. Cardinality(X) : all[i] = b.out[i]
  <2>1. Extends(S, X, b.out, all)
    <3> HIDE DEF X
    <3> QED
      BY <1>4, SplitList
  <2> QED
    BY <2>1 DEF Extends
<1>6. /\ Cardinality(X) \in Nat /\ Len(b.out) = Cardinality(X) /\ Cardinality(S \ X) \in Nat
      /\ Len(all) = Cardinality(S) /\ Cardinality(S) \in Nat
  <2> HIDE DEF X, all
  <2> QED
    BY <1>4, <1>5, ListLen
<1> HIDE DEF all
<1>7. m \in Nat /\ m <= Cardinality(S) /\ Cardinality(X) <= m /\ m = Least(limit, Cardinality(S))
  <2> HIDE DEF X
  <2> QED
    BY <1>4, <1>5, <1>6 DEF Least
<1> HIDE DEF m
<1>8. /\ IsList(s, Range(s)) /\ Range(s) \subseteq S /\ Len(s) = m /\ Cardinality(Range(s)) = m
      /\ \A i \in 1 .. m : s[i] = all[i]
  <2>1. IsList(all, S) /\ m \in Nat /\ m <= Cardinality(S) /\ s = SubSeq(all, 1, m)
    BY <1>1, <1>5, <1>7
  <2>2. IsList(s, Range(s)) /\ Range(s) \subseteq S /\ Len(s) = m /\ Cardinality(Range(s)) = m
    BY <2>1, ListPrefix
  <2>3. \A i \in 1 .. m : s[i] = all[i]
    BY <2>1, ListPrefix
  <2> QED
    BY <2>2, <2>3
<1>9. X \subseteq Range(s)
  <2> SUFFICES ASSUME NEW d \in X PROVE d \in Range(s)
    OBVIOUS
  <2>1. PICK i \in 1 .. Cardinality(X) : b.out[i] = d
    BY <1>4 DEF IsList, Range
  <2>2. i \in 1 .. m
    <3> HIDE DEF X
    <3> QED
      BY <1>6, <1>7
  <2>a. s[i] = d
    <3>1. s[i] = all[i]
      BY <1>8, <2>2
    <3>2. all[i] = b.out[i]
      BY <1>5
    <3> QED
      BY <2>1, <3>1, <3>2
  <2>3. DOMAIN s = 1 .. m
    BY <1>8 DEF IsList
  <2> QED
    BY <2>2, <2>a, <2>3 DEF Range
<1>10. IsInjective(s)
  BY <1>8 DEF IsInjective, IsList
<1>11. ASSUME Cardinality(Food(q, S)) <= limit PROVE Foods(q, s) = Food(q, S)
  <2>1. a.covered = Food(q, Range(a.out)) /\ Open(q, S, a) = {} /\ Range(a.out) \subseteq S
    BY <1>2, <1>11 DEF Covering, Halves
  <2>2. Food(q, S) = Food(q, Range(a.out))
    BY <2>1 DEF Open, Food
  <2>3. Food(q, Range(a.out)) \subseteq Food(q, Range(s)) /\ Food(q, Range(s)) \subseteq Food(q, S)
    BY <1>3, <1>8, <1>9 DEF Food
  <2> QED
    BY <2>2, <2>3 DEF Foods, Food
<1> QED
  BY <1>7, <1>8, <1>10, <1>11 DEF Represented, Food

\* The shortlist is a window over the rows, those that promise most first.
LEMMA ShortlistIs ==
  ASSUME NEW q, NEW rows, NEW S, IsList(rows, S), S \subseteq Dish, NEW limit \in Nat, NEW web,
         NEW s, s = Shortlist(q, rows, web, limit)
  PROVE  Represented(q, S, s, limit) /\ IsList(s, Range(s)) /\ Range(s) \subseteq S
<1> DEFINE key == [d \in S |->
                  <<IF "USE_EXPIRING" \in q.strategies /\ UrgentUse(q, d) = {} THEN 1 ELSE 0,
                    IF d \in web THEN 0 ELSE 1, IF Signal(q, d) THEN 0 ELSE 1, Place(rows, d)>>]
           list == IF q.tags # {} THEN Sorted(S, key) ELSE rows
<1>1. s = Representative(q, list, limit)
  BY DEF Shortlist, IsList
<1>2. ASSUME NEW d \in S PROVE key[d] \in Keys(4) /\ key[d][4] = Place(rows, d)
  <2> DEFINE a == IF "USE_EXPIRING" \in q.strategies /\ UrgentUse(q, d) = {} THEN 1 ELSE 0
             b == IF d \in web THEN 0 ELSE 1
             c == IF Signal(q, d) THEN 0 ELSE 1
             p == Place(rows, d)
  <2>1. a \in Int /\ b \in Int /\ c \in Int
    OBVIOUS
  <2>2. p \in Int
    <3>1. p \in 1 .. Cardinality(S) /\ Cardinality(S) \in Nat
      BY PlaceIn, ListLen
    <3> HIDE DEF p
    <3> QED
      BY <3>1
  <2>3. key[d] = <<a, b, c, p>>
    OBVIOUS
  <2> HIDE DEF a, b, c, p, key
  <2> QED
    BY <2>1, <2>2, <2>3 DEF Keys, p
<1> HIDE DEF key
<1>3. ASSUME NEW d \in S, NEW e \in S, key[d] = key[e] PROVE d = e
  <2>1. Place(rows, d) = Place(rows, e)
    BY <1>2, <1>3
  <2>2. rows[Place(rows, d)] = d /\ rows[Place(rows, e)] = e
    BY PlaceIn
  <2> QED
    BY <2>1, <2>2
<1>4. Keyed(S, key, 4)
  BY <1>2, <1>3 DEF Keyed, IsList
<1>5. IsList(Sorted(S, key), S)
  BY <1>4, SortedIs DEF InOrder
<1>6. IsList(list, S)
  BY <1>5
<1> HIDE DEF list
<1> QED
  BY <1>1, <1>6, RepresentativeIs
=============================================================================
