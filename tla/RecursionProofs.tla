-------------------------- MODULE RecursionProofs --------------------------
(***************************************************************************)
(* Recursive functions and sums.  An induction theorem with a predicate as *)
(* its parameter cannot be instantiated, so induction over numbers is done *)
(* by taking the least counterexample (WFMin), and a recursive definition  *)
(* is shown to define what it says by constructing a function that         *)
(* satisfies its equation.                                                 *)
(***************************************************************************)
EXTENDS Integers, FiniteSets, Functions, TLAPS, WellFoundedInduction,
        FiniteSetTheorems

-----------------------------------------------------------------------------
\* Recursion over 0 .. N, with the step given as a function

\* Every nonempty set of natural numbers has a least element.
LEMMA LeastElement ==
  ASSUME NEW T, T \subseteq Nat, T # {}
  PROVE  \E m \in T : \A k \in T : m <= k
<1>1. PICK m \in T : \A k \in T : ~ (<<k, m>> \in OpToRel(<, Nat))
  BY NatLessThanWellFounded, WFMin, Zenon
<1>2. \A k \in T : (k < m) => <<k, m>> \in OpToRel(<, Nat)
  BY DEF OpToRel
<1>3. \A k \in T : ~ (k < m)
  BY <1>1, <1>2, Zenon
<1>4. \A k \in T : m <= k
  BY <1>3
<1> QED  BY <1>4

\* A bounded set of natural numbers without gaps is counted by its upper end.
LEMMA InitialSegment ==
  ASSUME NEW S, NEW N \in Nat, S \subseteq 0 .. N, \A h \in S : \A g \in 0 .. h : g \in S
  PROVE  /\ Cardinality(S) \in Nat /\ Cardinality(S) <= N + 1
         /\ \A h \in Nat : h \in S <=> h < Cardinality(S)
<1>1. Nat \ S \subseteq Nat /\ N + 1 \in Nat \ S
  OBVIOUS
<1>2. PICK m \in Nat \ S : \A k \in Nat \ S : m <= k
  <2>1. Nat \ S # {}
    BY <1>1
  <2> QED  BY <1>1, <2>1, LeastElement
<1>3. \A h \in Nat : h \in S <=> h < m
  BY <1>2
<1>4. S = 0 .. m - 1
  <2>1. \A h \in S : h \in Nat /\ h \in 0 .. m - 1
    BY <1>2, <1>3
  <2>2. \A h \in 0 .. m - 1 : h \in S
    BY <1>2, <1>3
  <2> QED  BY <2>1, <2>2
<1>5. Cardinality(S) = m
  BY <1>4, FS_Interval
<1>6. m <= N + 1
  BY <1>1, <1>2
<1> QED  BY <1>3, <1>5, <1>6

\* f runs from v0 through the steps F up to N.
Computes(f, N, V, v0, F) ==
  /\ f \in [0 .. N -> V]
  /\ f[0] = v0
  /\ \A n \in 1 .. N : f[n] = F[<<n, f[n - 1]>>]

\* A first value and a step function determine a function on 0 .. N.
LEMMA RecursionExists ==
  ASSUME NEW N \in Nat, NEW V, NEW v0 \in V, NEW F \in [(1 .. N) \X V -> V]
  PROVE  \E f : Computes(f, N, V, v0, F)
<1> DEFINE Bad == {k \in 0 .. N : ~ \E f : Computes(f, k, V, v0, F)}
<1>1. SUFFICES ASSUME Bad # {} PROVE FALSE
  <2>1. N \notin Bad  BY <1>1
  <2> QED  BY <2>1
<1>2. PICK m \in Bad : \A k \in Bad : m <= k
  <2>1. Bad \subseteq Nat  OBVIOUS
  <2> QED  BY <1>1, <2>1, LeastElement, Zenon
<1>3. CASE m = 0
  <2> DEFINE f == [n \in 0 .. 0 |-> v0]
  <2>1. Computes(f, 0, V, v0, F)  BY DEF Computes
  <2> QED  BY <2>1, <1>2, <1>3
<1>4. CASE m # 0
  <2>1. m - 1 \in 0 .. N /\ m - 1 \notin Bad /\ m \in 1 .. N
    BY <1>2, <1>4
  <2>2. PICK g : Computes(g, m - 1, V, v0, F)
    BY <2>1
  <2> DEFINE f == [n \in 0 .. m |-> IF n = m THEN F[<<m, g[m - 1]>>] ELSE g[n]]
  <2>3. g[m - 1] \in V /\ F[<<m, g[m - 1]>>] \in V
    BY <2>1, <2>2 DEF Computes
  <2>4. f \in [0 .. m -> V]
    BY <2>1, <2>2, <2>3 DEF Computes
  <2>5. f[0] = v0
    BY <2>1, <2>2 DEF Computes
  <2>6. ASSUME NEW n \in 1 .. m PROVE f[n] = F[<<n, f[n - 1]>>]
    <3>1. n - 1 \in 0 .. m /\ n - 1 # m /\ n \in 0 .. m
      BY <2>1
    <3>2. f[n - 1] = g[n - 1]
      BY <3>1
    <3>3. CASE n = m  BY <3>1, <3>2, <3>3
    <3>4. CASE n # m
      <4>1. n \in 1 .. m - 1  BY <2>1, <3>4
      <4>2. g[n] = F[<<n, g[n - 1]>>]  BY <4>1, <2>2 DEF Computes
      <4> QED  BY <3>1, <3>2, <3>4, <4>2
    <3> QED  BY <3>3, <3>4
  <2>7. Computes(f, m, V, v0, F)  BY <2>4, <2>5, <2>6 DEF Computes
  <2> QED  BY <2>7, <1>2
<1> QED  BY <1>3, <1>4

\* Two functions that take the same steps agree where both are defined.
SameSteps(f, g, M) ==
  f[0] = g[0] /\ \A n \in 1 .. M : f[n - 1] = g[n - 1] => f[n] = g[n]
Agree(f, g, M) == \A n \in 0 .. M : f[n] = g[n]

LEMMA RecursionUnique ==
  ASSUME NEW M \in Nat, NEW f, NEW g, SameSteps(f, g, M)
  PROVE  Agree(f, g, M)
<1> USE DEF SameSteps, Agree
<1> DEFINE Bad == {k \in 0 .. M : f[k] # g[k]}
<1>1. SUFFICES ASSUME Bad # {} PROVE FALSE  OBVIOUS
<1>2. PICK m \in Bad : \A k \in Bad : m <= k
  <2>1. Bad \subseteq Nat  OBVIOUS
  <2> QED  BY <1>1, <2>1, LeastElement, Zenon
<1>3. m \in 0 .. M /\ f[m] # g[m]
  BY <1>2
<1>4. m # 0
  BY <1>3
<1>5. m \in 1 .. M /\ m - 1 \in 0 .. M /\ m - 1 \notin Bad
  BY <1>2, <1>3, <1>4
<1> QED  BY <1>3, <1>5

\* A recursive definition over 0 .. N has a solution.
Solves(f, N, V, v0, F) ==
  /\ f \in [0 .. N -> V]
  /\ f = [i \in 0 .. N |-> IF i = 0 THEN v0 ELSE F[<<i, f[i - 1]>>]]

LEMMA RecursionSolved ==
  ASSUME NEW N \in Nat, NEW V, NEW v0 \in V, NEW F \in [(1 .. N) \X V -> V]
  PROVE  \E f : Solves(f, N, V, v0, F)
<1>1. PICK f : Computes(f, N, V, v0, F)
  BY RecursionExists
<1> DEFINE g == [i \in 0 .. N |-> IF i = 0 THEN v0 ELSE F[<<i, f[i - 1]>>]]
<1>2. \A i \in 0 .. N : i # 0 => i \in 1 .. N
  OBVIOUS
<1>3. \A i \in 0 .. N : f[i] = g[i]
  BY <1>1, <1>2 DEF Computes
<1>4. f \in [0 .. N -> V]
  BY <1>1 DEF Computes
<1>5. f = g
  BY <1>3, <1>4
<1> QED  BY <1>4, <1>5 DEF Solves

-----------------------------------------------------------------------------
\* Sums over finite sets

\* The element a fold takes next.
Pick(s) == CHOOSE x \in s : TRUE

LEMMA PickIn == ASSUME NEW s, s # {} PROVE Pick(s) \in s
BY DEF Pick

\* g is the table of the sums of f over the subsets of S.
SumStep(f, g, s) == IF s = {} THEN 0 ELSE f[Pick(s)] + g[s \ {Pick(s)}]
IsSumTable(g, f, S) == g = [s \in SUBSET S |-> SumStep(f, g, s)]

\* A subset without one of its elements is a smaller subset.
LEMMA SmallerSubset ==
  ASSUME NEW S, IsFiniteSet(S), NEW x \in S
  PROVE  /\ IsFiniteSet(S \ {x}) /\ Cardinality(S) \in Nat \ {0}
         /\ Cardinality(S \ {x}) = Cardinality(S) - 1
<1>1. IsFiniteSet(S \ {x}) /\ Cardinality(S \ {x}) = Cardinality(S) - 1
  BY FS_RemoveElement
<1>2. Cardinality(S) \in Nat /\ Cardinality(S \ {x}) \in Nat
  BY <1>1, FS_CardinalityType
<1> QED  BY <1>1, <1>2

LEMMA SumTableExists ==
  ASSUME NEW S, IsFiniteSet(S), NEW f, \A x \in S : f[x] \in Int
  PROVE  \E g : g \in [SUBSET S -> Int] /\ IsSumTable(g, f, S)
<1> DEFINE V == [SUBSET S -> Int]
           N == Cardinality(S)
           M == N + 1
           v0 == [s \in SUBSET S |-> 0]
           F == [p \in (1 .. M) \X V |-> [s \in SUBSET S |-> SumStep(f, p[2], s)]]
<1>1. N \in Nat /\ M \in Nat
  BY FS_CardinalityType
<1>2. ASSUME NEW g \in V PROVE [s \in SUBSET S |-> SumStep(f, g, s)] \in V
  <2>1. ASSUME NEW s \in SUBSET S PROVE SumStep(f, g, s) \in Int
    <3>1. CASE s = {}
      BY <3>1 DEF SumStep
    <3>2. CASE s # {}
      <4>1. Pick(s) \in S /\ s \ {Pick(s)} \in SUBSET S
        BY <3>2, PickIn
      <4>2. f[Pick(s)] \in Int /\ g[s \ {Pick(s)}] \in Int
        BY <4>1
      <4> QED  BY <3>2, <4>2 DEF SumStep
    <3> QED  BY <3>1, <3>2
  <2> QED  BY <2>1
<1>3. F \in [(1 .. M) \X V -> V] /\ v0 \in V
  <2>1. \A p \in (1 .. M) \X V : p[2] \in V
    OBVIOUS
  <2>2. \A p \in (1 .. M) \X V : [s \in SUBSET S |-> SumStep(f, p[2], s)] \in V
    BY <1>2, <2>1, Zenon
  <2>3. F \in [(1 .. M) \X V -> V]
    BY <2>2, Zenon
  <2>4. v0 \in V
    OBVIOUS
  <2> QED  BY <2>3, <2>4
<1>4. PICK h : Computes(h, M, V, v0, F)
  <2> HIDE DEF V, M, v0, F
  <2> QED  BY <1>1, <1>3, RecursionExists
<1>5. h \in [0 .. M -> V] /\ h[0] = v0
  BY <1>4 DEF Computes
<1>6. ASSUME NEW n \in 1 .. M PROVE h[n] = [s \in SUBSET S |-> SumStep(f, h[n - 1], s)]
  <2>1. n - 1 \in 0 .. M
    BY <1>1
  <2>2. h[n - 1] \in V
    BY <1>5, <2>1, Zenon
  <2>3. <<n, h[n - 1]>> \in (1 .. M) \X V
    BY <2>2
  <2>4. h[n] = F[<<n, h[n - 1]>>]
    BY <1>4 DEF Computes
  <2>5. F[<<n, h[n - 1]>>] = [s \in SUBSET S |-> SumStep(f, <<n, h[n - 1]>>[2], s)]
    BY <2>3, Zenon
  <2> QED  BY <2>4, <2>5
<1> HIDE DEF V, F, v0
<1> DEFINE Settled(n) == \A s \in SUBSET S : Cardinality(s) <= n => h[n + 1][s] = h[n][s]
           Bad == {n \in 0 .. N : ~ Settled(n)}
<1>7. ASSUME NEW n \in 0 .. N, n # 0 => Settled(n - 1) PROVE Settled(n)
  <2> SUFFICES ASSUME NEW s \in SUBSET S, Cardinality(s) <= n
               PROVE  h[n + 1][s] = h[n][s]
    OBVIOUS
  <2>0. n + 1 \in 1 .. M
    BY <1>1
  <2>1. h[n + 1][s] = SumStep(f, h[n], s)
    <3>1. h[n + 1] = [r \in SUBSET S |-> SumStep(f, h[(n + 1) - 1], r)]
      BY <1>6, <2>0, Zenon
    <3>2. (n + 1) - 1 = n
      BY <1>1
    <3> QED  BY <3>1, <3>2
  <2>2. CASE s = {}
    <3>1. h[n + 1][s] = 0
      BY <2>1, <2>2 DEF SumStep
    <3>2. CASE n = 0
      BY <1>5, <3>1, <3>2 DEF v0
    <3>3. CASE n # 0
      <4>1. n \in 1 .. M
        BY <1>1, <3>3
      <4>2. h[n][s] = SumStep(f, h[n - 1], s)
        BY <1>6, <4>1
      <4> QED  BY <2>2, <3>1, <4>2 DEF SumStep
    <3> QED  BY <3>2, <3>3
  <2>3. CASE s # {}
    <3> DEFINE x == Pick(s)
    <3>1. x \in s /\ IsFiniteSet(s)
      BY <2>3, PickIn, FS_Subset
    <3>2. Cardinality(s) \in Nat \ {0} /\ Cardinality(s \ {x}) = Cardinality(s) - 1
      BY <3>1, SmallerSubset
    <3>3. n \in 1 .. M /\ n # 0 /\ Cardinality(s \ {x}) <= n - 1 /\ (n - 1) + 1 = n
      BY <1>1, <3>2
    <3>4. h[n][s] = SumStep(f, h[n - 1], s)
      BY <1>6, <3>3
    <3>5. h[n][s \ {x}] = h[n - 1][s \ {x}]
      <4>1. Settled(n - 1) /\ s \ {x} \in SUBSET S
        BY <1>7, <3>3
      <4> QED  BY <3>3, <4>1
    <3> QED  BY <2>1, <2>3, <3>4, <3>5 DEF SumStep
  <2> QED  BY <2>2, <2>3
<1>8. Bad = {}
  <2> SUFFICES ASSUME Bad # {} PROVE FALSE
    OBVIOUS
  <2>1. Bad \subseteq Nat
    BY <1>1
  <2>2. PICK m \in Bad : \A k \in Bad : m <= k
    <3> HIDE DEF Bad
    <3> QED  BY <2>1, LeastElement, Zenon
  <2>3. m \in 0 .. N /\ ~ Settled(m)
    BY <2>2
  <2>4. m # 0 => m - 1 \in 0 .. N /\ m - 1 \notin Bad
    BY <1>1, <2>2, <2>3
  <2>5. m # 0 => Settled(m - 1)
    BY <2>4
  <2> HIDE DEF Settled
  <2> QED  BY <1>7, <2>3, <2>5
<1>9. Settled(N)
  <2>1. N \in 0 .. N
    BY <1>1
  <2> QED  BY <1>8, <2>1
<1>10. \A s \in SUBSET S : h[N + 1][s] = h[N][s]
  <2>1. \A s \in SUBSET S : Cardinality(s) <= N
    BY FS_Subset
  <2> QED  BY <1>9, <2>1
<1>11. h[N] \in [SUBSET S -> Int] /\ h[N + 1] \in [SUBSET S -> Int]
  <2>1. N \in 0 .. M /\ N + 1 \in 0 .. M
    BY <1>1
  <2> QED  BY <1>5, <2>1 DEF V
<1>12. h[N + 1] = [s \in SUBSET S |-> SumStep(f, h[N], s)]
  <2>1. N + 1 \in 1 .. M /\ (N + 1) - 1 = N
    BY <1>1
  <2>2. h[N + 1] = [s \in SUBSET S |-> SumStep(f, h[(N + 1) - 1], s)]
    BY <1>6, <2>1, Zenon
  <2> QED  BY <2>1, <2>2
<1>13. h[N + 1] = h[N]
  BY <1>10, <1>11
<1> QED  BY <1>11, <1>12, <1>13 DEF IsSumTable

\* Two tables, for functions that agree, agree where both are defined.
LEMMA SumTableUnique ==
  ASSUME NEW S, NEW T, NEW f, NEW e, NEW g, NEW h, NEW R, R \subseteq S, R \subseteq T,
         IsFiniteSet(R), \A x \in R : f[x] = e[x],
         IsSumTable(g, f, S), IsSumTable(h, e, T)
  PROVE  g[R] = h[R]
<1> DEFINE Bad == {Cardinality(s) : s \in {s \in SUBSET R : g[s] # h[s]}}
<1>1. SUFFICES ASSUME g[R] # h[R] PROVE FALSE
  OBVIOUS
<1>2. Bad # {} /\ Bad \subseteq Nat
  <2>1. Cardinality(R) \in Bad
    BY <1>1
  <2>2. \A s \in SUBSET R : Cardinality(s) \in Nat
    BY FS_Subset, FS_CardinalityType
  <2> QED  BY <2>1, <2>2
<1>3. PICK m \in Bad : \A k \in Bad : m <= k
  <2> HIDE DEF Bad
  <2> QED  BY <1>2, LeastElement, Zenon
<1>4. PICK s \in SUBSET R : g[s] # h[s] /\ m = Cardinality(s)
  BY <1>3
<1>5. g[s] = SumStep(f, g, s) /\ h[s] = SumStep(e, h, s)
  BY DEF IsSumTable
<1>6. s # {}
  BY <1>4, <1>5 DEF SumStep
<1> DEFINE x == Pick(s)
<1>7. x \in s /\ IsFiniteSet(s)
  BY <1>6, PickIn, FS_Subset
<1>8. Cardinality(s) \in Nat \ {0} /\ Cardinality(s \ {x}) = Cardinality(s) - 1
  BY <1>7, SmallerSubset
<1>9. g[s \ {x}] = h[s \ {x}]
  <2>1. s \ {x} \in SUBSET R /\ Cardinality(s \ {x}) \notin Bad
    BY <1>3, <1>4, <1>8
  <2> QED  BY <2>1
<1>10. f[x] = e[x]
  BY <1>7
<1> QED  BY <1>4, <1>5, <1>6, <1>9, <1>10 DEF SumStep

\* The sum of f over S is an entry of every table that has one for S.
LEMMA SumIsEntry ==
  ASSUME NEW S, IsFiniteSet(S), NEW f, \A x \in S : f[x] \in Int,
         NEW T, NEW e, NEW g, S \subseteq T, IsSumTable(g, e, T),
         \A x \in S : f[x] = e[x]
  PROVE  SumFunctionOnSet(f, S) = g[S] /\ SumFunctionOnSet(f, S) \in Int
<1> DEFINE iter[s \in SUBSET S] ==
              IF s = {} THEN 0
              ELSE f[CHOOSE x \in s : TRUE] + iter[s \ {CHOOSE x \in s : TRUE}]
<1>1. PICK h : h \in [SUBSET S -> Int] /\ IsSumTable(h, f, S)
  BY SumTableExists
<1>2. h = [s \in SUBSET S |->
             IF s = {} THEN 0
             ELSE f[CHOOSE x \in s : TRUE] + h[s \ {CHOOSE x \in s : TRUE}]]
  BY <1>1 DEF IsSumTable, SumStep, Pick
<1>3. iter = [s \in SUBSET S |->
                IF s = {} THEN 0
                ELSE f[CHOOSE x \in s : TRUE] + iter[s \ {CHOOSE x \in s : TRUE}]]
  BY <1>2, Zenon DEF iter
<1>4. SumFunctionOnSet(f, S) = iter[S]
  BY DEF SumFunctionOnSet, FoldFunctionOnSet, MapThenFoldSet
<1> HIDE DEF iter
<1>5. IsSumTable(iter, f, S)
  BY <1>3 DEF IsSumTable, SumStep, Pick
<1>6. iter[S] = h[S] /\ iter[S] = g[S]
  <2>1. S \subseteq S
    OBVIOUS
  <2>2. iter[S] = h[S]
    BY <1>1, <1>5, <2>1, SumTableUnique
  <2>3. iter[S] = g[S]
    <3>1. S \subseteq T /\ IsSumTable(g, e, T) /\ \A x \in S : f[x] = e[x]
      OBVIOUS
    <3> HIDE DEF IsSumTable
    <3> QED  BY <1>5, <2>1, <3>1, SumTableUnique
  <2> QED  BY <2>2, <2>3
<1> QED  BY <1>1, <1>4, <1>6

LEMMA SumOfNone == ASSUME NEW f PROVE SumFunctionOnSet(f, {}) = 0
<1>1. IsFiniteSet({}) /\ \A x \in {} : f[x] \in Int
  BY FS_EmptySet
<1>2. PICK g : IsSumTable(g, f, {})
  BY <1>1, SumTableExists
<1>3. SumFunctionOnSet(f, {}) = g[{}]
  BY <1>1, <1>2, SumIsEntry
<1>4. g[{}] = SumStep(f, g, {})
  BY <1>2 DEF IsSumTable
<1> QED  BY <1>3, <1>4 DEF SumStep

\* Functions that agree have the same sum.
LEMMA SumAgree ==
  ASSUME NEW S, IsFiniteSet(S), NEW f, NEW e, \A x \in S : f[x] \in Int /\ f[x] = e[x]
  PROVE  SumFunctionOnSet(f, S) = SumFunctionOnSet(e, S)
<1>1. \A x \in S : f[x] \in Int /\ e[x] \in Int /\ f[x] = e[x] /\ e[x] = e[x]
  OBVIOUS
<1>2. PICK g : IsSumTable(g, e, S)
  BY <1>1, SumTableExists
<1>3. SumFunctionOnSet(f, S) = g[S]
  BY <1>1, <1>2, SumIsEntry
<1>4. SumFunctionOnSet(e, S) = g[S]
  BY <1>1, <1>2, SumIsEntry
<1> QED  BY <1>3, <1>4

\* Any element may be added last, not just the one the fold takes.
LEMMA SumRemove ==
  ASSUME NEW S, IsFiniteSet(S), NEW f, \A y \in S : f[y] \in Int, NEW x \in S
  PROVE  /\ SumFunctionOnSet(f, S \ {x}) \in Int
         /\ SumFunctionOnSet(f, S) = f[x] + SumFunctionOnSet(f, S \ {x})
<1>1. PICK g : g \in [SUBSET S -> Int] /\ IsSumTable(g, f, S)
  BY SumTableExists
<1>2. ASSUME NEW s \in SUBSET S
      PROVE  SumFunctionOnSet(f, s) = g[s] /\ g[s] \in Int /\ g[s] = SumStep(f, g, s)
  <2>1. IsFiniteSet(s) /\ s \subseteq S /\ \A y \in s : f[y] \in Int /\ f[y] = f[y]
    BY FS_Subset
  <2>2. SumFunctionOnSet(f, s) = g[s]
    <3> HIDE DEF IsSumTable
    <3>1. IsSumTable(g, f, S)
      BY <1>1
    <3> QED  BY <2>1, <3>1, SumIsEntry
  <2>3. g[s] = SumStep(f, g, s)
    BY <1>1 DEF IsSumTable
  <2> QED  BY <1>1, <2>2, <2>3
<1> DEFINE Wrong(s) == \E y \in s : g[s] # f[y] + g[s \ {y}]
           Bad == {Cardinality(s) : s \in {s \in SUBSET S : Wrong(s)}}
<1>3. Bad = {}
  <2> SUFFICES ASSUME Bad # {} PROVE FALSE
    OBVIOUS
  <2>1. Bad \subseteq Nat
    <3>1. \A s \in SUBSET S : Cardinality(s) \in Nat
      BY FS_Subset, FS_CardinalityType
    <3> QED  BY <3>1
  <2>2. PICK m \in Bad : \A k \in Bad : m <= k
    <3> HIDE DEF Bad
    <3> QED  BY <2>1, LeastElement, Zenon
  <2>3. PICK s \in SUBSET S : Wrong(s) /\ m = Cardinality(s)
    BY <2>2
  <2>4. PICK y \in s : g[s] # f[y] + g[s \ {y}]
    BY <2>3
  <2>5. ASSUME NEW r \in SUBSET S, Cardinality(r) < Cardinality(s), NEW z \in r
        PROVE  g[r] = f[z] + g[r \ {z}]
    <3>1. Cardinality(r) \in Nat /\ Cardinality(s) \in Nat
      BY FS_Subset, FS_CardinalityType
    <3>2. Cardinality(r) \notin Bad
      BY <2>2, <2>3, <2>5, <3>1
    <3> QED  BY <2>5, <3>2
  <2> DEFINE p == Pick(s)
  <2>6. p \in s /\ IsFiniteSet(s)
    BY <2>4, PickIn, FS_Subset
  <2>7. g[s] = f[p] + g[s \ {p}]
    BY <1>2, <2>6 DEF SumStep
  <2> HIDE DEF p
  <2>8. p # y
    BY <2>4, <2>7
  <2>9. /\ Cardinality(s \ {p}) < Cardinality(s) /\ Cardinality(s \ {y}) < Cardinality(s)
        /\ s \ {p} \in SUBSET S /\ s \ {y} \in SUBSET S
        /\ (s \ {p}) \ {y} \in SUBSET S
    <3> HIDE DEF Bad
    <3>1. Cardinality(s) \in Nat /\ Cardinality(s \ {p}) = Cardinality(s) - 1
      BY <2>6, SmallerSubset
    <3>2. Cardinality(s \ {y}) = Cardinality(s) - 1
      BY <2>6, SmallerSubset
    <3> QED  BY <3>1, <3>2
  <2>10. g[s \ {p}] = f[y] + g[(s \ {p}) \ {y}]
    BY <2>5, <2>8, <2>9
  <2>11. g[s \ {y}] = f[p] + g[(s \ {y}) \ {p}]
    BY <2>5, <2>6, <2>8, <2>9
  <2>12. (s \ {y}) \ {p} = (s \ {p}) \ {y}
    OBVIOUS
  <2>13. f[p] \in Int /\ f[y] \in Int /\ g[(s \ {p}) \ {y}] \in Int
    BY <1>1, <2>6, <2>9
  <2>14. g[s \ {y}] = f[p] + g[(s \ {p}) \ {y}]
    BY <2>11, <2>12, Zenon
  <2> HIDE DEF Bad
  <2>15. g[s] = f[p] + (f[y] + g[(s \ {p}) \ {y}])
    BY <2>7, <2>10, Zenon
  <2>16. g[s] # f[y] + (f[p] + g[(s \ {p}) \ {y}])
    BY <2>4, <2>14, Zenon
  <2> QED  BY <2>13, <2>15, <2>16
<1>4. S \in SUBSET S /\ S \ {x} \in SUBSET S
  OBVIOUS
<1>5. g[S] = f[x] + g[S \ {x}]
  <2>1. Cardinality(S) \notin Bad
    BY <1>3
  <2> QED  BY <1>4, <2>1
<1>6. SumFunctionOnSet(f, S) = g[S] /\ SumFunctionOnSet(f, S \ {x}) = g[S \ {x}]
  BY <1>2, <1>4
<1>7. g[S \ {x}] \in Int
  BY <1>1, <1>4
<1> QED  BY <1>5, <1>6, <1>7

LEMMA SumType ==
  ASSUME NEW S, IsFiniteSet(S), NEW f, \A x \in S : f[x] \in Int
  PROVE  SumFunctionOnSet(f, S) \in Int
<1>1. CASE S = {}
  BY <1>1, SumOfNone
<1>2. CASE S # {}
  <2>1. PICK x : x \in S
    BY <1>2
  <2>2. f[x] \in Int /\ SumFunctionOnSet(f, S \ {x}) \in Int
    BY <2>1, SumRemove
  <2> QED  BY <2>1, <2>2, SumRemove
<1> QED  BY <1>1, <1>2

\* A sum of natural numbers is one, and at least each of them.
LEMMA SumOfNat ==
  ASSUME NEW S, IsFiniteSet(S), NEW f, \A x \in S : f[x] \in Nat
  PROVE  SumFunctionOnSet(f, S) \in Nat /\ \A x \in S : f[x] <= SumFunctionOnSet(f, S)
<1> DEFINE Bad == {Cardinality(s) : s \in {s \in SUBSET S : SumFunctionOnSet(f, s) \notin Nat}}
<1>1. Bad = {}
  <2> SUFFICES ASSUME Bad # {} PROVE FALSE
    OBVIOUS
  <2>1. \A s \in SUBSET S : IsFiniteSet(s) /\ Cardinality(s) \in Nat
    BY FS_Subset, FS_CardinalityType
  <2>2. PICK m \in Bad : \A k \in Bad : m <= k
    <3>1. Bad \subseteq Nat
      BY <2>1
    <3> HIDE DEF Bad
    <3> QED  BY <3>1, LeastElement, Zenon
  <2>3. PICK s \in SUBSET S : SumFunctionOnSet(f, s) \notin Nat /\ m = Cardinality(s)
    BY <2>2
  <2>4. PICK x : x \in s
    <3>1. s # {}
      BY <2>3, SumOfNone
    <3> QED  BY <3>1
  <2>5. SumFunctionOnSet(f, s) = f[x] + SumFunctionOnSet(f, s \ {x})
    <3>1. IsFiniteSet(s) /\ \A y \in s : f[y] \in Int
      BY <2>1
    <3> QED  BY <2>4, <3>1, SumRemove
  <2>6. Cardinality(s \ {x}) < Cardinality(s) /\ Cardinality(s \ {x}) \in Nat
        /\ s \ {x} \in SUBSET S
    BY <2>1, <2>4, SmallerSubset
  <2>7. SumFunctionOnSet(f, s \ {x}) \in Nat
    <3>1. Cardinality(s \ {x}) \notin Bad
      <4> HIDE DEF Bad
      <4>1. Cardinality(s) \in Nat /\ m = Cardinality(s)
        BY <2>1, <2>3
      <4> QED  BY <2>2, <2>6, <4>1
    <3> QED  BY <2>6, <3>1
  <2>8. f[x] \in Nat
    BY <2>4
  <2> QED  BY <2>3, <2>5, <2>7, <2>8
<1>2. \A s \in SUBSET S : SumFunctionOnSet(f, s) \in Nat
  BY <1>1
<1>3. ASSUME NEW x \in S PROVE f[x] <= SumFunctionOnSet(f, S)
  <2>1. SumFunctionOnSet(f, S) = f[x] + SumFunctionOnSet(f, S \ {x})
    BY SumRemove
  <2>2. SumFunctionOnSet(f, S \ {x}) \in Nat /\ f[x] \in Nat
    BY <1>2
  <2> QED  BY <2>1, <2>2
<1> QED  BY <1>2, <1>3

\* A change of one value changes the sum by as much.
LEMMA SumChange ==
  ASSUME NEW S, IsFiniteSet(S), NEW f, NEW e, NEW x \in S,
         \A y \in S : f[y] \in Int /\ e[y] \in Int, \A y \in S \ {x} : f[y] = e[y]
  PROVE  SumFunctionOnSet(e, S) = SumFunctionOnSet(f, S) - f[x] + e[x]
<1>1. /\ SumFunctionOnSet(f, S) = f[x] + SumFunctionOnSet(f, S \ {x})
      /\ SumFunctionOnSet(e, S) = e[x] + SumFunctionOnSet(e, S \ {x})
      /\ SumFunctionOnSet(f, S \ {x}) \in Int
  BY SumRemove
<1>2. SumFunctionOnSet(f, S \ {x}) = SumFunctionOnSet(e, S \ {x})
  <2>1. IsFiniteSet(S \ {x})
    BY SmallerSubset
  <2> QED  BY <2>1, SumAgree
<1>3. f[x] \in Int /\ e[x] \in Int
  OBVIOUS
<1> QED  BY <1>1, <1>2, <1>3

\* The same, for two functions that differ at one place only.
DifferAt(f, e, x, S) ==
  \A y \in S : f[y] \in Int /\ e[y] \in Int /\ (y # x => f[y] = e[y])
LEMMA SumChangeAt ==
  ASSUME NEW S, IsFiniteSet(S), NEW f, NEW e, NEW x \in S, DifferAt(f, e, x, S)
  PROVE  SumFunctionOnSet(e, S) = SumFunctionOnSet(f, S) - f[x] + e[x]
BY SumChange DEF DifferAt

\* A sum of zeros is zero.
LEMMA SumOfZeros ==
  ASSUME NEW S, IsFiniteSet(S), NEW f, \A x \in S : f[x] = 0
  PROVE  SumFunctionOnSet(f, S) = 0
<1> DEFINE g == [s \in SUBSET S |-> 0]
<1>1. ASSUME NEW s \in SUBSET S PROVE SumStep(f, g, s) = 0
  <2>1. CASE s = {}
    BY <2>1 DEF SumStep
  <2>2. CASE s # {}
    <3>1. Pick(s) \in S /\ s \ {Pick(s)} \in SUBSET S
      BY <2>2, PickIn
    <3>2. f[Pick(s)] = 0 /\ g[s \ {Pick(s)}] = 0
      BY <3>1
    <3> HIDE DEF g
    <3> QED  BY <2>2, <3>2 DEF SumStep
  <2> QED  BY <2>1, <2>2
<1>2. IsSumTable(g, f, S)
  <2>1. [s \in SUBSET S |-> SumStep(f, g, s)] = [s \in SUBSET S |-> 0]
    <3> HIDE DEF g
    <3> QED  BY <1>1
  <2> QED  BY <2>1 DEF IsSumTable
<1>3. g[S] = 0
  OBVIOUS
<1> HIDE DEF g
<1>4. SumFunctionOnSet(f, S) = g[S]
  BY <1>2, SumIsEntry
<1> QED  BY <1>3, <1>4

\* The sum over two sets that have nothing in common.
LEMMA SumUnion ==
  ASSUME NEW A, NEW B, IsFiniteSet(A), IsFiniteSet(B), A \cap B = {}, NEW f,
         \A x \in A \cup B : f[x] \in Int
  PROVE  SumFunctionOnSet(f, A \cup B) = SumFunctionOnSet(f, A) + SumFunctionOnSet(f, B)
<1> DEFINE Sum(s) == SumFunctionOnSet(f, s)
           Good(s) == Sum(A \cup s) = Sum(A) + Sum(s)
           Bad == {Cardinality(s) : s \in {s \in SUBSET B : ~ Good(s)}}
<1>1. \A s \in SUBSET B : IsFiniteSet(s) /\ IsFiniteSet(A \cup s) /\ Cardinality(s) \in Nat
  BY FS_Subset, FS_Union, FS_CardinalityType
<1>2. \A s \in SUBSET B : Sum(s) \in Int /\ Sum(A \cup s) \in Int
  BY <1>1, SumType
<1>3. Sum(A) \in Int
  BY SumType
<1>4. Good({})
  <2>1. A \cup {} = A
    OBVIOUS
  <2> QED  BY <1>3, <2>1, SumOfNone
<1>5. ASSUME NEW s \in SUBSET B, NEW x \in s, Good(s \ {x}) PROVE Good(s)
  <2>1. x \notin A /\ (A \cup s) \ {x} = A \cup (s \ {x})
    OBVIOUS
  <2>2. Sum(A \cup s) = f[x] + Sum(A \cup (s \ {x}))
    <3> DEFINE T == A \cup s
    <3>1. IsFiniteSet(T) /\ x \in T /\ (\A y \in T : f[y] \in Int) /\ T \ {x} = A \cup (s \ {x})
      BY <1>1, <2>1
    <3> HIDE DEF T
    <3>2. SumFunctionOnSet(f, T) = f[x] + SumFunctionOnSet(f, T \ {x})
      BY <3>1, SumRemove
    <3> QED  BY <3>1, <3>2, Zenon DEF T
  <2>3. Sum(s) = f[x] + Sum(s \ {x})
    BY <1>1, SumRemove
  <2>4. f[x] \in Int /\ Sum(s \ {x}) \in Int /\ Sum(A \cup (s \ {x})) \in Int
    BY <1>2
  <2> QED  BY <1>3, <1>5, <2>2, <2>3, <2>4
<1> HIDE DEF Good
<1>6. Bad = {}
  <2> SUFFICES ASSUME Bad # {} PROVE FALSE
    OBVIOUS
  <2>1. PICK m \in Bad : \A k \in Bad : m <= k
    <3>1. Bad \subseteq Nat
      BY <1>1
    <3> HIDE DEF Bad
    <3> QED  BY <3>1, LeastElement, Zenon
  <2>2. PICK s \in SUBSET B : ~ Good(s) /\ m = Cardinality(s)
    BY <2>1
  <2>3. PICK x : x \in s
    BY <1>4, <2>2
  <2>4. Cardinality(s \ {x}) = Cardinality(s) - 1 /\ Cardinality(s) \in Nat
    BY <1>1, <2>3, SmallerSubset
  <2>5. ~ (m <= Cardinality(s \ {x}))
    BY <2>2, <2>4
  <2>6. s \ {x} \in SUBSET B
    OBVIOUS
  <2>7. Good(s \ {x})
    BY <2>1, <2>5, <2>6
  <2> QED  BY <1>5, <2>2, <2>3, <2>7
<1>7. Good(B)
  BY <1>6
<1> QED  BY <1>7 DEF Good

\* Sums of natural numbers grow with the set.
LEMMA SumSubset ==
  ASSUME NEW B, IsFiniteSet(B), NEW A, A \subseteq B, NEW f, \A x \in B : f[x] \in Nat
  PROVE  /\ SumFunctionOnSet(f, A) \in Nat /\ SumFunctionOnSet(f, B) \in Nat
         /\ SumFunctionOnSet(f, A) <= SumFunctionOnSet(f, B)
         /\ SumFunctionOnSet(f, B) = SumFunctionOnSet(f, A) + SumFunctionOnSet(f, B \ A)
         /\ SumFunctionOnSet(f, B \ A) \in Nat
<1>1. IsFiniteSet(A) /\ IsFiniteSet(B \ A)
  BY FS_Subset
<1>2. /\ SumFunctionOnSet(f, A) \in Nat /\ SumFunctionOnSet(f, B) \in Nat
      /\ SumFunctionOnSet(f, B \ A) \in Nat
  BY <1>1, SumOfNat
<1>3. A \cup (B \ A) = B /\ A \cap (B \ A) = {}
  OBVIOUS
<1>4. \A x \in A \cup (B \ A) : f[x] \in Int
  OBVIOUS
<1>5. SumFunctionOnSet(f, A \cup (B \ A)) = SumFunctionOnSet(f, A) + SumFunctionOnSet(f, B \ A)
  BY <1>1, <1>3, <1>4, SumUnion
<1>6. SumFunctionOnSet(f, B) = SumFunctionOnSet(f, A) + SumFunctionOnSet(f, B \ A)
  BY <1>3, <1>5, Zenon
<1> QED  BY <1>2, <1>6

\* What two sets have in common counts once in their union.
LEMMA SumOfUnion ==
  ASSUME NEW A, NEW B, IsFiniteSet(A), IsFiniteSet(B), NEW f, \A x \in A \cup B : f[x] \in Nat
  PROVE  /\ SumFunctionOnSet(f, A \cup B) \in Nat
         /\ SumFunctionOnSet(f, A) \in Nat /\ SumFunctionOnSet(f, B) \in Nat
         /\ SumFunctionOnSet(f, A \cup B) <= SumFunctionOnSet(f, A) + SumFunctionOnSet(f, B)
<1>1. IsFiniteSet(A \cup B)
  BY FS_Union
<1>2. A \subseteq A \cup B /\ (A \cup B) \ A \subseteq B
  OBVIOUS
<1>3. /\ SumFunctionOnSet(f, A) \in Nat /\ SumFunctionOnSet(f, A \cup B) \in Nat
      /\ SumFunctionOnSet(f, A \cup B)
           = SumFunctionOnSet(f, A) + SumFunctionOnSet(f, (A \cup B) \ A)
  BY <1>1, <1>2, SumSubset
<1>4. /\ SumFunctionOnSet(f, (A \cup B) \ A) \in Nat /\ SumFunctionOnSet(f, B) \in Nat
      /\ SumFunctionOnSet(f, (A \cup B) \ A) <= SumFunctionOnSet(f, B)
  BY <1>2, SumSubset
<1> QED  BY <1>3, <1>4

\* The sum over the image of a set under an injection: what f gives the values
\* of g on S is what e gives the elements of S.
Values(g, S) == {g[x] : x \in S}
PullsBack(e, f, g, S) ==
    /\ \A x, y \in S : g[x] = g[y] => x = y
    /\ \A x \in S : f[g[x]] \in Nat /\ e[x] = f[g[x]]

LEMMA SumImage ==
  ASSUME NEW S, IsFiniteSet(S), NEW g, NEW f, NEW e, PullsBack(e, f, g, S)
  PROVE  /\ IsFiniteSet(Values(g, S))
         /\ SumFunctionOnSet(f, Values(g, S)) = SumFunctionOnSet(e, S)
         /\ SumFunctionOnSet(f, Values(g, S)) \in Nat
<1> DEFINE Image(s) == Values(g, s)
           Good(s) == /\ IsFiniteSet(Image(s))
                      /\ SumFunctionOnSet(f, Image(s)) = SumFunctionOnSet(e, s)
           Bad == {Cardinality(s) : s \in {s \in SUBSET S : ~ Good(s)}}
<1>1. \A s \in SUBSET S : IsFiniteSet(s) /\ Cardinality(s) \in Nat
  BY FS_Subset, FS_CardinalityType
<1>2. Good({})
  <2>1. Image({}) = {}
    BY DEF Values
  <2>2. /\ SumFunctionOnSet(f, {}) = 0 /\ SumFunctionOnSet(e, {}) = 0
    BY SumOfNone
  <2> QED  BY <2>1, <2>2, FS_EmptySet
<1>3. ASSUME NEW s \in SUBSET S, NEW x \in s, Good(s \ {x}) PROVE Good(s)
  <2>1. Image(s) = Image(s \ {x}) \cup {g[x]} /\ g[x] \in Image(s)
        /\ Image(s) \ {g[x]} = Image(s \ {x})
    BY DEF PullsBack, Values
  <2>2. /\ \A y \in Image(s) : f[y] \in Int
        /\ \A y \in s : e[y] \in Int
        /\ e[x] = f[g[x]]
    BY DEF PullsBack, Values
  <2> HIDE DEF Image
  <2>3. IsFiniteSet(Image(s))
    <3>1. IsFiniteSet(Image(s \ {x}) \cup {g[x]})
      BY <1>3, FS_AddElement
    <3> QED  BY <2>1, <3>1, Zenon
  <2>4. SumFunctionOnSet(f, Image(s)) = f[g[x]] + SumFunctionOnSet(f, Image(s \ {x}))
    <3> DEFINE T == Image(s)
               y == g[x]
    <3>1. IsFiniteSet(T) /\ y \in T /\ (\A z \in T : f[z] \in Int) /\ T \ {y} = Image(s \ {x})
      BY <2>1, <2>2, <2>3
    <3> HIDE DEF T, y
    <3>2. SumFunctionOnSet(f, T) = f[y] + SumFunctionOnSet(f, T \ {y})
      BY <3>1, SumRemove
    <3> QED  BY <3>1, <3>2, Zenon DEF T, y
  <2>5. SumFunctionOnSet(e, s) = e[x] + SumFunctionOnSet(e, s \ {x})
    <3>1. IsFiniteSet(s)
      BY <1>1
    <3> QED  BY <2>2, <3>1, SumRemove
  <2> QED  BY <1>3, <2>2, <2>3, <2>4, <2>5
<1> HIDE DEF Good
<1>4. Bad = {}
  <2> SUFFICES ASSUME Bad # {} PROVE FALSE
    OBVIOUS
  <2>1. PICK m \in Bad : \A k \in Bad : m <= k
    <3>1. Bad \subseteq Nat
      BY <1>1
    <3> HIDE DEF Bad
    <3> QED  BY <3>1, LeastElement, Zenon
  <2>2. PICK s \in SUBSET S : ~ Good(s) /\ m = Cardinality(s)
    BY <2>1
  <2>3. PICK x : x \in s
    BY <1>2, <2>2
  <2>4. Cardinality(s \ {x}) = Cardinality(s) - 1 /\ Cardinality(s) \in Nat
    BY <1>1, <2>3, SmallerSubset
  <2>5. ~ (m <= Cardinality(s \ {x})) /\ s \ {x} \in SUBSET S
    BY <2>2, <2>4
  <2>6. Good(s \ {x})
    BY <2>1, <2>5
  <2> QED  BY <1>3, <2>2, <2>3, <2>6
<1>5. Good(S)
  BY <1>4
<1>6. \A x \in S : e[x] \in Nat
  BY DEF PullsBack
<1>7. SumFunctionOnSet(e, S) \in Nat
  BY <1>6, SumOfNat
<1> QED  BY <1>5, <1>7, Zenon DEF Good

\* What holds of the empty set, and of a subset of S if it holds of the subset
\* without one of its elements, holds of every subset of S.
LEMMA SubsetInduction ==
  ASSUME NEW S, IsFiniteSet(S), NEW G, {} \in G,
         \A s \in SUBSET S : \A x \in s : s \ {x} \in G => s \in G
  PROVE  \A s \in SUBSET S : s \in G
<1> DEFINE Bad == {Cardinality(s) : s \in {s \in SUBSET S : s \notin G}}
<1>1. \A s \in SUBSET S : IsFiniteSet(s) /\ Cardinality(s) \in Nat
  BY FS_Subset, FS_CardinalityType
<1>2. Bad = {}
  <2> SUFFICES ASSUME Bad # {} PROVE FALSE
    OBVIOUS
  <2>1. PICK m \in Bad : \A k \in Bad : m <= k
    <3>1. Bad \subseteq Nat
      BY <1>1
    <3> HIDE DEF Bad
    <3> QED  BY <3>1, LeastElement, Zenon
  <2>2. PICK s \in SUBSET S : s \notin G /\ m = Cardinality(s)
    BY <2>1
  <2>3. PICK x : x \in s
    BY <2>2
  <2>4. Cardinality(s \ {x}) = Cardinality(s) - 1 /\ Cardinality(s) \in Nat
    BY <1>1, <2>3, SmallerSubset
  <2>5. ~ (m <= Cardinality(s \ {x})) /\ s \ {x} \in SUBSET S
    BY <2>2, <2>4
  <2>6. s \ {x} \in G
    BY <2>1, <2>5
  <2> QED  BY <2>2, <2>3, <2>6
<1> QED  BY <1>2

\* A sum by classes: e gives each m the sum of f over its class k[m].
Classes(S, M, f, e, c, k) ==
    /\ \A x \in S : f[x] \in Nat /\ c[x] \in M
    /\ \A m \in M : /\ k[m] = {x \in S : c[x] = m}
                    /\ e[m] = SumFunctionOnSet(f, k[m])

LEMMA SumPartition ==
  ASSUME NEW S, IsFiniteSet(S), NEW M, IsFiniteSet(M), NEW f, NEW e, NEW c, NEW k,
         Classes(S, M, f, e, c, k)
  PROVE  /\ \A m \in M : e[m] \in Nat
         /\ SumFunctionOnSet(e, M) = SumFunctionOnSet(f, S)
<1> DEFINE Part(s) == {x \in S : c[x] \in s}
           G == {s \in SUBSET M : SumFunctionOnSet(e, s) = SumFunctionOnSet(f, Part(s))}
<1> USE DEF Classes
<1>1. \A m \in M : e[m] \in Nat
  <2> SUFFICES ASSUME NEW m \in M PROVE e[m] \in Nat
    OBVIOUS
  <2> DEFINE C == k[m]
  <2>1. IsFiniteSet(C) /\ \A x \in C : f[x] \in Nat
    BY FS_Subset
  <2>2. SumFunctionOnSet(f, C) \in Nat
    <3> HIDE DEF C
    <3> QED  BY <2>1, SumOfNat
  <2> QED  BY <2>2
<1>2. {} \in G
  <2>1. Part({}) = {}
    OBVIOUS
  <2>2. SumFunctionOnSet(e, {}) = 0 /\ SumFunctionOnSet(f, {}) = 0
    BY SumOfNone
  <2> QED  BY <2>1, <2>2
<1>3. ASSUME NEW s \in SUBSET M, NEW m \in s, s \ {m} \in G PROVE s \in G
  <2> DEFINE A == Part(s \ {m})
             B == k[m]
  <2>1. Part(s) = A \cup B /\ A \cap B = {} /\ A \subseteq S /\ B \subseteq S
    OBVIOUS
  <2>2. IsFiniteSet(A) /\ IsFiniteSet(B) /\ (\A x \in A \cup B : f[x] \in Int) /\ IsFiniteSet(s)
    BY <2>1, FS_Subset
  <2>3. SumFunctionOnSet(e, s \ {m}) = SumFunctionOnSet(f, A)
    BY <1>3
  <2>4. e[m] = SumFunctionOnSet(f, B)
    OBVIOUS
  <2>5. SumFunctionOnSet(e, s) = e[m] + SumFunctionOnSet(e, s \ {m})
    <3>1. IsFiniteSet(s) /\ \A y \in s : e[y] \in Int
      BY <1>1, <2>2
    <3> HIDE DEF Classes, A, B
    <3> QED  BY <3>1, SumRemove
  <2>6. SumFunctionOnSet(f, A) \in Int /\ SumFunctionOnSet(f, B) \in Int
    <3> HIDE DEF A, B
    <3> QED  BY <2>2, SumType
  <2>7. SumFunctionOnSet(f, A \cup B) = SumFunctionOnSet(f, A) + SumFunctionOnSet(f, B)
    <3> HIDE DEF A, B
    <3> QED  BY <2>1, <2>2, SumUnion
  <2>8. SumFunctionOnSet(e, s) = SumFunctionOnSet(f, A \cup B)
    <3> HIDE DEF A, B
    <3> QED  BY <2>3, <2>4, <2>5, <2>6, <2>7
  <2> QED  BY <2>1, <2>8
<1>4. M \in G
  <2> HIDE DEF G
  <2>1. \A s \in SUBSET M : s \in G
    BY <1>2, <1>3, SubsetInduction
  <2> QED  BY <2>1
<1>5. Part(M) = S
  OBVIOUS
<1> QED  BY <1>1, <1>4, <1>5

\* The rounding of a division into parts: if every part p[x] is the quotient of
\* G * w[x] by T, less than T is lost with each.
LEMMA SumOfQuotients ==
  ASSUME NEW S, IsFiniteSet(S), NEW p, NEW w, NEW G \in Nat, NEW T \in Nat \ {0},
         \A x \in S : /\ p[x] \in Nat /\ w[x] \in Nat
                      /\ T * p[x] <= G * w[x] /\ G * w[x] <= T * p[x] + T - 1
  PROVE  /\ SumFunctionOnSet(p, S) \in Nat /\ SumFunctionOnSet(w, S) \in Nat
         /\ Cardinality(S) \in Nat
         /\ T * SumFunctionOnSet(p, S) <= G * SumFunctionOnSet(w, S)
         /\ G * SumFunctionOnSet(w, S)
              <= T * SumFunctionOnSet(p, S) + Cardinality(S) * (T - 1)
<1> DEFINE P(s) == SumFunctionOnSet(p, s)
           W(s) == SumFunctionOnSet(w, s)
           Good == {s \in SUBSET S : /\ T * P(s) <= G * W(s)
                                     /\ G * W(s) <= T * P(s) + Cardinality(s) * (T - 1)}
<1>1. \A s \in SUBSET S : /\ IsFiniteSet(s) /\ Cardinality(s) \in Nat
                          /\ P(s) \in Nat /\ W(s) \in Nat
  <2> SUFFICES ASSUME NEW s \in SUBSET S
               PROVE  /\ IsFiniteSet(s) /\ Cardinality(s) \in Nat
                      /\ P(s) \in Nat /\ W(s) \in Nat
    OBVIOUS
  <2>1. IsFiniteSet(s) /\ Cardinality(s) \in Nat
    BY FS_Subset, FS_CardinalityType
  <2>2. \A x \in s : p[x] \in Nat /\ w[x] \in Nat
    OBVIOUS
  <2> QED  BY <2>1, <2>2, SumOfNat
<1>2. {} \in Good
  <2>1. P({}) = 0 /\ W({}) = 0 /\ Cardinality({}) = 0
    BY SumOfNone, FS_EmptySet
  <2> HIDE DEF P, W
  <2> QED  BY <2>1
<1>3. ASSUME NEW s \in SUBSET S, NEW x \in s, s \ {x} \in Good PROVE s \in Good
  <2> DEFINE r == s \ {x}
  <2>1. r \in SUBSET S /\ Cardinality(s) = Cardinality(r) + 1
    BY <1>1, SmallerSubset
  <2>2. P(s) = p[x] + P(r)
    <3>1. \A y \in s : p[y] \in Int
      OBVIOUS
    <3> QED  BY <1>1, <3>1, SumRemove
  <2>3. W(s) = w[x] + W(r)
    <3>1. \A y \in s : w[y] \in Int
      OBVIOUS
    <3> QED  BY <1>1, <3>1, SumRemove
  <2>4. /\ p[x] \in Nat /\ w[x] \in Nat /\ P(r) \in Nat /\ W(r) \in Nat
        /\ Cardinality(r) \in Nat
        /\ T * p[x] <= G * w[x] /\ G * w[x] <= T * p[x] + T - 1
        /\ T * P(r) <= G * W(r) /\ G * W(r) <= T * P(r) + Cardinality(r) * (T - 1)
    BY <1>1, <1>3, <2>1
  <2>5. ASSUME NEW a \in Nat, NEW b \in Nat, NEW u \in Nat, NEW v \in Nat, NEW n \in Nat,
               T * a <= G * b, G * b <= T * a + T - 1,
               T * u <= G * v, G * v <= T * u + n * (T - 1)
        PROVE  /\ T * (a + u) <= G * (b + v)
               /\ G * (b + v) <= T * (a + u) + (n + 1) * (T - 1)
    <3>1. /\ T * (a + u) = T * a + T * u /\ G * (b + v) = G * b + G * v
          /\ (n + 1) * (T - 1) = n * (T - 1) + T - 1
      OBVIOUS
    <3>2. /\ T * a \in Int /\ T * u \in Int /\ G * b \in Int /\ G * v \in Int
          /\ n * (T - 1) \in Int
      OBVIOUS
    <3> QED  BY <2>5, <3>1, <3>2
  <2> HIDE DEF P, W, r
  <2>6. /\ T * P(s) <= G * W(s)
        /\ G * W(s) <= T * P(s) + Cardinality(s) * (T - 1)
    BY <2>1, <2>2, <2>3, <2>4, <2>5
  <2> QED  BY <2>6
<1>4. S \in Good
  <2> HIDE DEF Good
  <2>1. \A s \in SUBSET S : s \in Good
    BY <1>2, <1>3, SubsetInduction
  <2> QED  BY <2>1
<1> QED  BY <1>1, <1>4
=============================================================================
