------------------------------- MODULE Recursion -------------------------------
(***************************************************************************)
(* Facts for the proofs about recursive functions of the specifications,   *)
(* which TLA+ defines with CHOOSE: when there is a function that satisfies *)
(* the equation, and what sums and least elements of finite sets are.      *)
(* Induction is by a least counterexample, which WFMin provides.           *)
(***************************************************************************)
EXTENDS Integers, FiniteSets, FiniteSetsExt, TLAPS,
        WellFoundedInduction, FiniteSetTheorems, SequenceTheorems

\* A set of natural numbers that is not empty has a least element.
LEMMA LeastNat ==
    ASSUME NEW T, T \subseteq Nat, T # {}
    PROVE  \E x \in T : \A y \in T : x <= y
<1> DEFINE R == {ss \in Nat \X Nat : ss[1] < ss[2]}
<1>1. IsWellFoundedOn(R, Nat)
  BY NatLessThanWellFounded DEF OpToRel
<1> HIDE DEF R
<1>2. PICK x \in T : \A y \in T : ~(<<y, x>> \in R)
  BY <1>1, WFMin
<1>3. ASSUME NEW y \in T
      PROVE  x <= y
  <2>1. x \in Nat /\ y \in Nat
    OBVIOUS
  <2>2. <<y, x>> \notin R
    BY <1>2
  <2>3. ~(y < x)
    BY <2>1, <2>2 DEF R
  <2> QED
    BY <2>1, <2>3
<1> QED
  BY <1>3

\* A set that is not empty has an element whose measure is least.
LEMMA LeastMeasure ==
    ASSUME NEW S, NEW m \in [S -> Nat], NEW T, T \subseteq S, T # {}
    PROVE  \E x \in T : \A y \in S : m[y] < m[x] => y \notin T
<1> DEFINE M == {m[x] : x \in T}
<1>1. PICK n \in M : \A k \in M : n <= k
  <2>1. M \subseteq Nat /\ M # {}
    OBVIOUS
  <2> HIDE DEF M
  <2> QED
    BY <2>1, LeastNat
<1>2. PICK x \in T : m[x] = n
  BY <1>1
<1>3. \A y \in T : m[x] <= m[y]
  BY <1>1, <1>2
<1> QED
  BY <1>3

\* What holds of k whenever it holds of all that come before holds of all.
LEMMA TypedByMeasure ==
    ASSUME NEW S, NEW m \in [S -> Nat], NEW V, NEW F,
           \A k \in S : (\A j \in S : m[j] < m[k] => F[j] \in V) => F[k] \in V
    PROVE  \A k \in S : F[k] \in V
<1> DEFINE Bad == {k \in S : F[k] \notin V}
<1>1. SUFFICES ASSUME Bad # {}
               PROVE  FALSE
  OBVIOUS
<1>2. Bad \subseteq S
  OBVIOUS
<1>3. PICK k \in Bad : \A j \in S : m[j] < m[k] => j \notin Bad
  <2> HIDE DEF Bad
  <2> QED
    BY <1>1, <1>2, LeastMeasure
<1> QED
  BY <1>3

\* G[k][f] is a value, and looks only at those values of f that come before k in
\* the measure m.
Defines(G, m, S, V) ==
    /\ \A k \in S : \A f \in [S -> V] : G[k][f] \in V
    /\ \A k \in S : \A f, g \in [S -> V] :
          (\A j \in S : m[j] < m[k] => f[j] = g[j]) => G[k][f] = G[k][g]

Bounded(m, S) == \E B \in Nat : m \in [S -> 0..B]

Solvable(G, S, V) == \E f \in [S -> V] : \A k \in S : f[k] = G[k][f]

\* Then f[k] = G[k][f] has a solution, if the measure is bounded.
LEMMA Recursion ==
    ASSUME NEW S, NEW V, V # {}, NEW m, Bounded(m, S), NEW G, Defines(G, m, S, V)
    PROVE  Solvable(G, S, V)
<1> DEFINE Upto(b) == \E f \in [S -> V] : \A k \in S : m[k] < b => f[k] = G[k][f]
           Bad == {b \in Nat : ~Upto(b)}
<1>0. PICK B \in Nat : m \in [S -> 0..B]
  BY DEF Bounded
<1>1. Upto(0)
  <2>0. PICK v : v \in V
    OBVIOUS
  <2>1. [k \in S |-> v] \in [S -> V]
    BY <2>0
  <2>2. \A k \in S : ~(m[k] < 0)
    BY <1>0
  <2> QED
    BY <2>1, <2>2
<1>2. ASSUME NEW b \in Nat, Upto(b)
      PROVE  Upto(b + 1)
  <2>1. PICK f \in [S -> V] : \A k \in S : m[k] < b => f[k] = G[k][f]
    BY <1>2
  <2> DEFINE g == [k \in S |-> IF m[k] < b THEN f[k] ELSE G[k][f]]
  <2>2. g \in [S -> V]
    BY DEF Defines
  <2>3. ASSUME NEW k \in S, m[k] < b + 1
        PROVE  g[k] = G[k][g]
    <3>1. \A j \in S : m[j] < m[k] => f[j] = g[j]
      BY <2>3, <1>0
    <3>2. G[k][f] = G[k][g]
      BY <3>1, <2>2 DEF Defines
    <3>3. g[k] = G[k][f]
      BY <2>1
    <3> QED
      BY <3>2, <3>3
  <2> QED
    BY <2>2, <2>3
<1> HIDE DEF Upto
<1>3. Bad = {}
  <2>1. SUFFICES ASSUME Bad # {}
                 PROVE  FALSE
    OBVIOUS
  <2>2. PICK b \in Bad : \A c \in Bad : b <= c
    BY <2>1, LeastNat
  <2>3. b \in Nat /\ b # 0 /\ b - 1 \in Nat /\ b - 1 \notin Bad
    BY <1>1, <2>2
  <2>4. Upto(b - 1)
    BY <2>3
  <2>5. Upto((b - 1) + 1)
    BY <2>3, <2>4, <1>2
  <2> QED
    BY <2>2, <2>3, <2>5
<1>4. Upto(B + 1)
  BY <1>3
<1>5. \A k \in S : m[k] < B + 1
  BY <1>0
<1> QED
  BY <1>4, <1>5 DEF Upto, Solvable

\* Min and Max of finite sets of integers.
LEMMA MinNat ==
    ASSUME NEW T, T \subseteq Nat, T # {}
    PROVE  Min(T) \in T /\ \A y \in T : Min(T) <= y
BY LeastNat DEF Min

\* Of two integers, Min is the smaller
LEMMA MinOfTwo ==
    ASSUME NEW a \in Int, NEW b \in Int
    PROVE  Min({a, b}) = IF a <= b THEN a ELSE b
<1>1. \E x \in {a, b} : \A y \in {a, b} : x <= y
  OBVIOUS
<1>2. Min({a, b}) \in {a, b} /\ \A y \in {a, b} : Min({a, b}) <= y
  BY <1>1 DEF Min
<1> QED
  BY <1>2

\* and Max the greater.
LEMMA MaxOfTwo ==
    ASSUME NEW a \in Int, NEW b \in Int
    PROVE  Max({a, b}) = IF a >= b THEN a ELSE b
<1>1. \E x \in {a, b} : \A y \in {a, b} : x >= y
  OBVIOUS
<1>2. Max({a, b}) \in {a, b} /\ \A y \in {a, b} : Max({a, b}) >= y
  BY <1>1 DEF Max
<1> QED
  BY <1>2

\* What a function makes of a finite set is finite.
LEMMA ImageFinite ==
    ASSUME NEW S, IsFiniteSet(S), NEW f
    PROVE  IsFiniteSet({f[x] : x \in S})
<1> DEFINE T == {f[x] : x \in S}
           g == [x \in S |-> f[x]]
<1>1. g \in [S -> T] /\ \A y \in T : \E x \in S : g[x] = y
  OBVIOUS
<1>2. g \in Surjection(S, T)
  BY <1>1 DEF Surjection
<1> HIDE DEF g, T
<1>3. IsFiniteSet(T)
  BY <1>2, FS_Surjection
<1> QED
  BY <1>3 DEF T

\* A finite set of integers that is not empty has a greatest element.
LEMMA MaxInt ==
    ASSUME NEW T, T \subseteq Int, T # {}, IsFiniteSet(T)
    PROVE  Max(T) \in T /\ \A y \in T : Max(T) >= y
<1> DEFINE Has(U) == \E x \in U : \A y \in U : x >= y
           Bad == {c \in Nat : \E U \in SUBSET Int : /\ IsFiniteSet(U) /\ U # {}
                                                     /\ Cardinality(U) = c /\ ~Has(U)}
<1>1. Bad = {}
  <2>1. SUFFICES ASSUME Bad # {}
                 PROVE  FALSE
    OBVIOUS
  <2>2. PICK c \in Bad : \A d \in Bad : c <= d
    BY <2>1, LeastNat
  <2>3. PICK U \in SUBSET Int : /\ IsFiniteSet(U) /\ U # {}
                                /\ Cardinality(U) = c /\ ~Has(U)
    BY <2>2
  <2>4. PICK x \in U : TRUE
    BY <2>3
  <2> DEFINE W == U \ {x}
  <2>5. IsFiniteSet(W) /\ Cardinality(W) = c - 1 /\ W \in SUBSET Int /\ c - 1 \in Nat
    <3>1. IsFiniteSet(W) /\ Cardinality(W) = c - 1
      BY <2>3, <2>4, FS_RemoveElement
    <3>2. c - 1 \in Nat
      BY <3>1, FS_CardinalityType
    <3> QED
      BY <3>1, <3>2
  <2>6. CASE W = {}
    <3>1. \A y \in U : y = x
      BY <2>6
    <3> QED
      BY <2>3, <3>1
  <2>7. CASE W # {}
    <3>1. Has(W)
      BY <2>2, <2>5, <2>7
    <3>2. PICK w \in W : \A y \in W : w >= y
      BY <3>1
    <3>3. \A y \in U : y = x \/ w >= y
      BY <3>2
    <3>4. w \in Int /\ x \in Int /\ w \in U /\ U \subseteq Int
      BY <2>3
    <3>5. CASE w >= x
      <4>1. \A y \in U : w >= y
        BY <3>3, <3>5
      <4> QED
        BY <4>1, <3>4, <2>3
    <3>6. CASE x >= w
      <4>1. \A y \in U : x >= y
        BY <3>3, <3>4, <3>6
      <4> QED
        BY <4>1, <3>4, <2>3
    <3> QED
      BY <3>4, <3>5, <3>6
  <2> QED
    BY <2>6, <2>7
<1>2. Has(T)
  BY <1>1, FS_CardinalityType
<1> QED
  BY <1>2 DEF Max

\* The greatest of a set of numbers up to n.
LEMMA MaxUpTo ==
    ASSUME NEW n \in Nat, NEW t \in SUBSET (1..n), t # {}
    PROVE  Max(t) \in t /\ Max(t) \in 1..n /\ (n \in t => Max(t) = n)
<1>1. IsFiniteSet(1..n)
  BY FS_Interval
<1>2. IsFiniteSet(t)
  BY <1>1, FS_Subset
<1>3. t \subseteq Int
  OBVIOUS
<1>4. Max(t) \in t /\ \A y \in t : Max(t) >= y
  BY <1>2, <1>3, MaxInt
<1>5. ASSUME n \in t
      PROVE  Max(t) = n
  <2>1. Max(t) >= n /\ Max(t) \in 1..n
    BY <1>4, <1>5
  <2> QED
    BY <2>1
<1> QED
  BY <1>4, <1>5

\* The element that a sum takes next.
Taken(s) == CHOOSE x \in s : TRUE

\* it[s] is the sum of the values that f has in s.
SumsUp(it, f, S) ==
    /\ it \in [SUBSET S -> Nat]
    /\ \A s \in SUBSET S : it[s] = IF s = {} THEN 0 ELSE f[Taken(s)] + it[s \ {Taken(s)}]

\* The equation by which a fold defines it.
SumRule(it, f, S) ==
    it = [s \in SUBSET S |-> IF s = {} THEN 0 ELSE f[Taken(s)] + it[s \ {Taken(s)}]]

\* A set loses an element with each step of a sum.
LEMMA TakenSmaller ==
    ASSUME NEW S, IsFiniteSet(S)
    PROVE  /\ [s \in SUBSET S |-> Cardinality(s)] \in [SUBSET S -> 0..Cardinality(S)]
           /\ Cardinality(S) \in Nat
           /\ \A s \in SUBSET S : s # {} =>
                 /\ Taken(s) \in s
                 /\ s \ {Taken(s)} \in SUBSET S
                 /\ Cardinality(s \ {Taken(s)}) < Cardinality(s)
<1>1. \A s \in SUBSET S : Cardinality(s) \in 0..Cardinality(S)
  BY FS_Subset, FS_CardinalityType
<1>2. ASSUME NEW s \in SUBSET S, s # {}
      PROVE  Taken(s) \in s /\ Cardinality(s \ {Taken(s)}) < Cardinality(s)
  <2>1. IsFiniteSet(s)
    BY FS_Subset
  <2>2. Taken(s) \in s
    BY <1>2 DEF Taken
  <2>3. Cardinality(s \ {Taken(s)}) = Cardinality(s) - 1 /\ Cardinality(s) \in Nat
    BY <2>1, <2>2, FS_RemoveElement, FS_CardinalityType
  <2> QED
    BY <2>2, <2>3
<1> QED
  BY <1>1, <1>2, FS_CardinalityType

\* The sums exist,
LEMMA SumExists ==
    ASSUME NEW D, NEW f \in [D -> Nat], NEW S, S \subseteq D, IsFiniteSet(S)
    PROVE  \E it : SumsUp(it, f, S)
<1> DEFINE Sets == SUBSET S
           Sums == [Sets -> Nat]
           Rule(s, g) == IF s = {} THEN 0 ELSE f[Taken(s)] + g[s \ {Taken(s)}]
           G == [s \in Sets |-> [g \in Sums |-> Rule(s, g)]]
           m == [s \in Sets |-> Cardinality(s)]
<1>1. ASSUME NEW s \in Sets, NEW g \in Sums
      PROVE  Rule(s, g) \in Nat
  <2>1. CASE s # {}
    <3>1. Taken(s) \in s /\ s \ {Taken(s)} \in Sets
      BY <2>1, TakenSmaller
    <3>2. f[Taken(s)] \in Nat /\ g[s \ {Taken(s)}] \in Nat
      BY <3>1
    <3> QED
      BY <3>2, <2>1
  <2> QED
    BY <2>1
<1>2. ASSUME NEW s \in Sets, NEW g \in Sums, NEW h \in Sums,
             \A r \in Sets : m[r] < m[s] => g[r] = h[r]
      PROVE  Rule(s, g) = Rule(s, h)
  <2>1. CASE s # {}
    <3>1. s \ {Taken(s)} \in Sets /\ m[s \ {Taken(s)}] < m[s]
      BY <2>1, TakenSmaller
    <3>2. g[s \ {Taken(s)}] = h[s \ {Taken(s)}]
      BY <1>2, <3>1
    <3> QED
      BY <3>2
  <2> QED
    BY <2>1
<1>3. Bounded(m, Sets)
  BY TakenSmaller DEF Bounded
<1>4. Solvable(G, Sets, Nat)
  <2> HIDE DEF m, Rule, Sets
  <2>1. \A s \in Sets : \A g \in Sums : G[s][g] = Rule(s, g)
    OBVIOUS
  <2> HIDE DEF G
  <2>2. Defines(G, m, Sets, Nat)
    BY <1>1, <1>2, <2>1 DEF Defines
  <2> QED
    BY <1>3, <2>2, Recursion, Nat # {}
<1>5. PICK it \in Sums : \A s \in Sets : it[s] = Rule(s, it)
  <2> HIDE DEF Rule
  <2>1. PICK it \in Sums : \A s \in Sets : it[s] = G[s][it]
    BY <1>4 DEF Solvable
  <2>2. \A s \in Sets : it[s] = Rule(s, it)
    <3> HIDE DEF Sets, Sums
    <3> QED
      BY <2>1
  <2> QED
    BY <2>2
<1>6. SumsUp(it, f, S)
  BY <1>5 DEF SumsUp
<1> QED
  BY <1>6

\* a function that agrees with f on the set has the same,
LEMMA SumsAgree ==
    ASSUME NEW D, NEW f \in [D -> Nat], NEW S, S \subseteq D, IsFiniteSet(S),
           NEW g, \A x \in S : f[x] = g[x],
           NEW F, SumsUp(F, f, S),
           NEW H, SumRule(H, g, S)
    PROVE  F = H
<1> DEFINE m == [s \in SUBSET S |-> Cardinality(s)]
           Bad == {s \in SUBSET S : F[s] # H[s]}
<1>1. Bad = {}
  <2>1. SUFFICES ASSUME Bad # {}
                 PROVE  FALSE
    OBVIOUS
  <2>2. m \in [SUBSET S -> Nat] /\ Bad \subseteq SUBSET S
    BY TakenSmaller
  <2> HIDE DEF Bad, m
  <2>3. PICK s \in Bad : \A r \in SUBSET S : m[r] < m[s] => r \notin Bad
    BY <2>1, <2>2, LeastMeasure
  <2>4. s \in SUBSET S /\ F[s] # H[s]
    BY <2>3 DEF Bad
  <2>5. H[s] = IF s = {} THEN 0 ELSE g[Taken(s)] + H[s \ {Taken(s)}]
    BY <2>4 DEF SumRule
  <2>6. s # {}
    BY <2>4, <2>5 DEF SumsUp
  <2>7. Taken(s) \in S /\ Taken(s) \in s /\ s \ {Taken(s)} \in SUBSET S /\ m[s \ {Taken(s)}] < m[s]
    BY <2>4, <2>6, TakenSmaller DEF m
  <2>8. F[s \ {Taken(s)}] = H[s \ {Taken(s)}] /\ f[Taken(s)] = g[Taken(s)]
    BY <2>3, <2>7 DEF Bad
  <2> QED
    BY <2>4, <2>5, <2>6, <2>8 DEF SumsUp
<1>2. DOMAIN F = SUBSET S /\ F = [s \in SUBSET S |-> F[s]]
  BY DEF SumsUp
<1>3. \A s \in SUBSET S : F[s] = H[s]
  BY <1>1
<1>4. H = [s \in SUBSET S |-> H[s]]
  BY DEF SumRule
<1> HIDE DEF Bad
<1> QED
  BY <1>2, <1>3, <1>4

\* and SumFunctionOnSet is the one of the whole set.
LEMMA SumIs ==
    ASSUME NEW D, NEW f \in [D -> Nat], NEW S, S \subseteq D, IsFiniteSet(S),
           NEW g, \A x \in S : f[x] = g[x],
           NEW F, SumsUp(F, f, S)
    PROVE  SumFunctionOnSet(g, S) = F[S]
<1> DEFINE sum == CHOOSE it : SumRule(it, g, S)
<1>1. SumRule(F, g, S)
  <2>1. ASSUME NEW s \in SUBSET S
        PROVE  F[s] = IF s = {} THEN 0 ELSE g[Taken(s)] + F[s \ {Taken(s)}]
    <3>1. s # {} => Taken(s) \in s
      BY TakenSmaller
    <3>2. s # {} => f[Taken(s)] = g[Taken(s)]
      BY <3>1
    <3> QED
      BY <3>2 DEF SumsUp
  <2>2. F = [s \in SUBSET S |-> F[s]]
    BY DEF SumsUp
  <2> QED
    BY <2>1, <2>2 DEF SumRule
<1>2. SumRule(sum, g, S)
  BY <1>1
<1>3. SumFunctionOnSet(g, S) = sum[S]
  BY DEF SumFunctionOnSet, FoldFunctionOnSet, MapThenFoldSet, Taken, SumRule
<1> HIDE DEF sum
<1>4. F = sum
  BY <1>2, SumsAgree
<1> QED
  BY <1>3, <1>4

\* Hence a sum is a natural number,
LEMMA SumType ==
    ASSUME NEW D, NEW f \in [D -> Nat], NEW S, S \subseteq D, IsFiniteSet(S)
    PROVE  SumFunctionOnSet(f, S) \in Nat
<1>1. PICK F : SumsUp(F, f, S)
  BY SumExists
<1>2. SumFunctionOnSet(f, S) = F[S]
  BY <1>1, SumIs
<1>3. F[S] \in Nat
  BY <1>1 DEF SumsUp
<1> QED
  BY <1>2, <1>3

\* and looks only at the values in the set, whatever g is elsewhere.
LEMMA SumAgree ==
    ASSUME NEW D, NEW f \in [D -> Nat], NEW S, S \subseteq D, IsFiniteSet(S),
           NEW g, \A x \in S : f[x] = g[x]
    PROVE  SumFunctionOnSet(f, S) = SumFunctionOnSet(g, S)
<1>1. PICK F : SumsUp(F, f, S)
  BY SumExists
<1>2. SumFunctionOnSet(f, S) = F[S]
  BY <1>1, SumIs
<1>3. SumFunctionOnSet(g, S) = F[S]
  BY <1>1, SumIs
<1> QED
  BY <1>2, <1>3

-----------------------------------------------------------------------------
(* Functions of the numbers up to a bound *)

\* Induction up to a bound.
LEMMA UpTo ==
    ASSUME NEW N \in Nat, NEW T, 0 \in T, \A n \in 1..N : n - 1 \in T => n \in T
    PROVE  0..N \subseteq T
<1> DEFINE Bad == (0..N) \ T
<1>1. SUFFICES ASSUME Bad # {}
               PROVE  FALSE
  OBVIOUS
<1>2. Bad \subseteq Nat
  OBVIOUS
<1> HIDE DEF Bad
<1>3. PICK n \in Bad : \A k \in Bad : n <= k
  BY <1>1, <1>2, LeastNat
<1>4. n \in 1..N /\ n \notin T
  BY <1>3 DEF Bad
<1>5. n - 1 \in 0..N /\ n - 1 \notin Bad
  BY <1>3, <1>4, <1>2
<1> QED
  BY <1>4, <1>5 DEF Bad

\* Two functions that begin alike and go on alike agree.
LEMMA Agree ==
    ASSUME NEW N \in Nat, NEW f, NEW g, f[0] = g[0],
           \A n \in 1..N : f[n - 1] = g[n - 1] => f[n] = g[n]
    PROVE  \A n \in 0..N : f[n] = g[n]
<1> DEFINE T == {n \in 0..N : f[n] = g[n]}
<1>1. 0 \in T
  OBVIOUS
<1>2. \A n \in 1..N : n - 1 \in T => n \in T
  OBVIOUS
<1> HIDE DEF T
<1>3. 0..N \subseteq T
  BY <1>1, <1>2, UpTo
<1> QED
  BY <1>3 DEF T

\* f begins with x, and G makes a value of the last one.
Iterates(f, x, G, N) == f[0] = x /\ \A n \in 1..N : f[n] = G[n][f[n - 1]]

\* Any rule that makes a value of the last one can be iterated.
LEMMA Iterate ==
    ASSUME NEW N \in Nat, NEW V, NEW x \in V, NEW G \in [1..N -> [V -> V]]
    PROVE  \E f \in [0..N -> V] : Iterates(f, x, G, N)
<1> DEFINE Good(k) == \E f \in [0..N -> V] : f[0] = x /\ \A n \in 1..k : f[n] = G[n][f[n - 1]]
           T == {k \in 0..N : Good(k)}
<1>1. 0 \in T
  <2>1. [n \in 0..N |-> x] \in [0..N -> V] /\ [n \in 0..N |-> x][0] = x
    OBVIOUS
  <2>2. 1..0 = {}
    OBVIOUS
  <2>3. Good(0)
    BY <2>1, <2>2
  <2> HIDE DEF Good
  <2> QED
    BY <2>3
<1>2. ASSUME NEW k \in 1..N, k - 1 \in T
      PROVE  k \in T
  <2>1. PICK f \in [0..N -> V] : f[0] = x /\ \A n \in 1..(k - 1) : f[n] = G[n][f[n - 1]]
    BY <1>2
  <2> DEFINE g == [f EXCEPT ![k] = G[k][f[k - 1]]]
  <2>2. k - 1 \in 0..N /\ k \in 0..N /\ k # 0
    OBVIOUS
  <2>3. G[k][f[k - 1]] \in V
    BY <2>2
  <2>4. g \in [0..N -> V] /\ g[0] = x
    BY <2>1, <2>2, <2>3
  <2>5. ASSUME NEW n \in 1..k
        PROVE  g[n] = G[n][g[n - 1]]
    <3>1. n - 1 \in 0..N /\ n - 1 # k /\ n \in 0..N
      OBVIOUS
    <3>2. g[n - 1] = f[n - 1]
      BY <3>1
    <3>3. CASE n = k
      BY <3>2, <3>3, <3>1
    <3>4. CASE n # k
      <4>1. n \in 1..(k - 1) /\ g[n] = f[n]
        BY <3>1, <3>4
      <4> QED
        BY <4>1, <3>2, <2>1
    <3> QED
      BY <3>3, <3>4
  <2>6. Good(k)
    <3> HIDE DEF g
    <3> QED
      BY <2>4, <2>5
  <2> HIDE DEF Good
  <2> QED
    BY <2>6
<1>3. Good(N)
  <2> HIDE DEF T
  <2>1. 0..N \subseteq T
    BY <1>1, <1>2, UpTo
  <2>2. N \in T
    BY <2>1
  <2> QED
    BY <2>2 DEF T
<1> QED
  BY <1>3 DEF Iterates

-----------------------------------------------------------------------------
(* Sequences *)

\* The elements of a concatenation, by their part.
LEMMA Joined ==
    ASSUME NEW S, NEW u \in Seq(S), NEW v \in Seq(S)
    PROVE  /\ u \o v \in Seq(S) /\ Len(u) \in Nat /\ Len(v) \in Nat /\ Len(u \o v) = Len(u) + Len(v)
           /\ \A i \in 1..Len(u) : (u \o v)[i] = u[i]
           /\ \A i \in 1..Len(v) : (u \o v)[Len(u) + i] = v[i]
<1> DEFINE w == u \o v
<1>1. Len(u) \in Nat /\ Len(v) \in Nat
  BY LenProperties
<1>2. /\ w \in Seq(S) /\ Len(w) = Len(u) + Len(v)
      /\ \A i \in 1..(Len(u) + Len(v)) : w[i] = IF i <= Len(u) THEN u[i] ELSE v[i - Len(u)]
  BY ConcatProperties
<1> HIDE DEF w
<1>3. \A i \in 1..Len(u) : w[i] = u[i]
  BY <1>1, <1>2
<1>4. ASSUME NEW i \in 1..Len(v)
      PROVE  w[Len(u) + i] = v[i]
  <2>1. Len(u) + i \in 1..(Len(u) + Len(v)) /\ ~(Len(u) + i <= Len(u)) /\ (Len(u) + i) - Len(u) = i
    BY <1>1
  <2> QED
    BY <2>1, <1>2
<1> QED
  BY <1>1, <1>2, <1>3, <1>4 DEF w

\* A sequence with one element more.
LEMMA JoinedOne ==
    ASSUME NEW S, NEW a \in Seq(S), NEW x \in S
    PROVE  /\ a \o <<x>> \in Seq(S) /\ Len(a) \in Nat /\ Len(a \o <<x>>) = Len(a) + 1
           /\ (\A i \in 1..Len(a) : (a \o <<x>>)[i] = a[i]) /\ (a \o <<x>>)[Len(a) + 1] = x
<1> DEFINE w == a \o <<x>>
<1>1. Len(a) \in Nat /\ <<x>> \in Seq(S) /\ Len(<<x>>) = 1 /\ <<x>>[1] = x
  BY LenProperties
<1>2. /\ w \in Seq(S) /\ Len(w) = Len(a) + Len(<<x>>)
      /\ \A i \in 1..(Len(a) + Len(<<x>>)) : w[i] = IF i <= Len(a) THEN a[i] ELSE <<x>>[i - Len(a)]
  BY <1>1, ConcatProperties
<1> HIDE DEF w
<1>3. w[Len(a) + 1] = x
  BY <1>1, <1>2
<1>4. \A i \in 1..Len(a) : w[i] = a[i]
  BY <1>1, <1>2
<1>5. Len(w) = Len(a) + 1
  BY <1>1, <1>2
<1> QED
  BY <1>1, <1>2, <1>3, <1>4, <1>5 DEF w

\* A tuple is put together.
LEMMA Tuples ==
    ASSUME NEW S, NEW x \in S, NEW y \in S, NEW z \in S
    PROVE  <<x>> \o <<y>> = <<x, y>> /\ <<x>> \o <<y, z>> = <<x, y, z>>
<1>1. /\ <<x>> \in Seq(S) /\ Len(<<x>>) = 1 /\ <<x>>[1] = x
      /\ <<y>> \in Seq(S) /\ Len(<<y>>) = 1 /\ <<y>>[1] = y
      /\ <<y, z>> \in Seq(S) /\ Len(<<y, z>>) = 2 /\ <<y, z>>[1] = y /\ <<y, z>>[2] = z
      /\ <<x, y>> \in Seq(S) /\ Len(<<x, y>>) = 2 /\ <<x, y>>[1] = x /\ <<x, y>>[2] = y
  OBVIOUS
<1>2. /\ <<x, y, z>> \in Seq(S) /\ Len(<<x, y, z>>) = 3
      /\ <<x, y, z>>[1] = x /\ <<x, y, z>>[2] = y /\ <<x, y, z>>[3] = z
  OBVIOUS
<1> DEFINE a == <<x>>
           b == <<y>>
           c == <<y, z>>
           d == <<x, y>>
           e == <<x, y, z>>
<1> HIDE DEF a, b, c, d, e
<1>3. a \in Seq(S) /\ b \in Seq(S) /\ c \in Seq(S) /\ d \in Seq(S) /\ e \in Seq(S)
  BY <1>1, <1>2 DEF a, b, c, d, e
<1>4. /\ Len(a) = 1 /\ Len(b) = 1 /\ Len(c) = 2 /\ Len(d) = 2 /\ Len(e) = 3
      /\ a[1] = x /\ b[1] = y /\ c[1] = y /\ c[2] = z /\ d[1] = x /\ d[2] = y
      /\ e[1] = x /\ e[2] = y /\ e[3] = z
  BY <1>1, <1>2 DEF a, b, c, d, e
<1>5. a \o b = d
  <2> DEFINE w == a \o b
  <2>1. /\ w \in Seq(S) /\ Len(w) = Len(a) + Len(b)
        /\ (\A i \in 1..Len(a) : w[i] = a[i]) /\ \A i \in 1..Len(b) : w[Len(a) + i] = b[i]
    BY <1>3, Joined
  <2> HIDE DEF w
  <2>2. Len(w) = 2 /\ w[1] = x /\ w[2] = y
    BY <2>1, <1>4
  <2>3. \A i \in 1..Len(w) : w[i] = d[i]
    BY <2>2, <1>4
  <2> QED
    BY <2>1, <2>2, <2>3, <1>3, <1>4, SeqEqual DEF w
<1>6. a \o c = e
  <2> DEFINE w == a \o c
  <2>1. /\ w \in Seq(S) /\ Len(w) = Len(a) + Len(c)
        /\ (\A i \in 1..Len(a) : w[i] = a[i]) /\ \A i \in 1..Len(c) : w[Len(a) + i] = c[i]
    BY <1>3, Joined
  <2> HIDE DEF w
  <2>2. Len(w) = 3 /\ w[1] = x /\ w[2] = y /\ w[3] = z
    <3>1. 1 \in 1..Len(a) /\ 1 \in 1..Len(c) /\ 2 \in 1..Len(c)
      BY <1>4
    <3>2. w[1] = a[1] /\ w[Len(a) + 1] = c[1] /\ w[Len(a) + 2] = c[2]
      BY <2>1, <3>1
    <3> QED
      BY <2>1, <3>2, <1>4
  <2>3. \A i \in 1..Len(w) : w[i] = e[i]
    BY <2>2, <1>4
  <2> QED
    BY <2>1, <2>2, <2>3, <1>3, <1>4, SeqEqual DEF w
<1> QED
  BY <1>5, <1>6 DEF a, b, c, d, e
=============================================================================
