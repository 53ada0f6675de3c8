-------------------------------- MODULE Folding --------------------------------
(***************************************************************************)
(* What FoldLeft of the community modules computes, for any operator Op:   *)
(* a sequence of intermediate results, each made of the one before.  The   *)
(* proofs about a fold instantiate this module with the fold's operator.   *)
(***************************************************************************)
EXTENDS Recursion

CONSTANT Op(_, _)

\* The equation by which FoldLeft is defined, for a sequence s of N elements.
Rule(F, base, s, N) ==
    F = [t \in SUBSET (1..N) |-> IF t = {} THEN base ELSE Op(F[t \ {Max(t)}], s[Max(t)])]

\* The intermediate results.
Steps(f, base, s, N) ==
    /\ f = [n \in 0..N |-> f[n]]
    /\ f[0] = base
    /\ \A n \in 1..N : f[n] = Op(f[n - 1], s[n])

\* The equation has a solution.
LEMMA FoldExists ==
    ASSUME NEW N \in Nat, NEW base, NEW s
    PROVE  \E F : Rule(F, base, s, N)
<1> DEFINE T == {k \in 0..N : \E F : Rule(F, base, s, k)}
<1>1. 0 \in T
  <2> DEFINE F == [t \in SUBSET (1..0) |-> base]
  <2>1. \A t \in SUBSET (1..0) : t = {}
    OBVIOUS
  <2>2. Rule(F, base, s, 0)
    BY <2>1 DEF Rule
  <2> HIDE DEF F
  <2> QED
    BY <2>2
<1>2. ASSUME NEW k \in 1..N, k - 1 \in T
      PROVE  k \in T
  <2>1. PICK F : Rule(F, base, s, k - 1)
    BY <1>2
  <2> DEFINE G == [t \in SUBSET (1..k) |-> IF k \in t THEN Op(F[t \ {k}], s[k]) ELSE F[t]]
  <2>2. ASSUME NEW t \in SUBSET (1..k)
        PROVE  G[t] = IF t = {} THEN base ELSE Op(G[t \ {Max(t)}], s[Max(t)])
    <3>1. CASE k \in t
      <4>1. Max(t) = k
        BY <3>1, MaxUpTo
      <4>2. t \ {k} \in SUBSET (1..k) /\ k \notin t \ {k}
        OBVIOUS
      <4>3. G[t \ {k}] = F[t \ {k}]
        BY <4>2
      <4> QED
        BY <3>1, <4>1, <4>3
    <3>2. CASE k \notin t
      <4>1. t \in SUBSET (1..(k - 1)) /\ k - 1 \in Nat
        BY <3>2
      <4>2. F[t] = IF t = {} THEN base ELSE Op(F[t \ {Max(t)}], s[Max(t)])
        BY <2>1, <4>1 DEF Rule
      <4>3. t \ {Max(t)} \in SUBSET (1..k) /\ k \notin t \ {Max(t)}
        BY <3>2
      <4>4. G[t \ {Max(t)}] = F[t \ {Max(t)}] /\ G[t] = F[t]
        BY <4>3, <3>2
      <4> QED
        BY <4>2, <4>4
    <3> QED
      BY <3>1, <3>2
  <2>3. Rule(G, base, s, k)
    <3>1. G = [t \in SUBSET (1..k) |-> G[t]]
      OBVIOUS
    <3> HIDE DEF G
    <3> QED
      BY <2>2, <3>1 DEF Rule
  <2> HIDE DEF G
  <2> QED
    BY <2>3
<1>3. N \in T
  <2> HIDE DEF T
  <2>1. 0..N \subseteq T
    BY <1>1, <1>2, UpTo
  <2> QED
    BY <2>1
<1> QED
  BY <1>3

\* A solution goes step by step.
LEMMA FoldSteps ==
    ASSUME NEW N \in Nat, NEW base, NEW s, NEW F, Rule(F, base, s, N)
    PROVE  \E f : Steps(f, base, s, N) /\ f[N] = F[1..N]
<1> DEFINE f == [n \in 0..N |-> F[1..n]]
<1>1. f[0] = base
  <2>1. 1..0 = {} /\ {} \in SUBSET (1..N)
    OBVIOUS
  <2>2. F[{}] = base
    BY <2>1 DEF Rule
  <2> QED
    BY <2>1, <2>2
<1>2. ASSUME NEW n \in 1..N
      PROVE  f[n] = Op(f[n - 1], s[n])
  <2>1. n \in 1..n /\ 1..n \in SUBSET (1..n) /\ 1..n \in SUBSET (1..N) /\ 1..n # {} /\ n \in Nat
    OBVIOUS
  <2>2. Max(1..n) = n
    BY <2>1, MaxUpTo
  <2>3. (1..n) \ {n} = 1..(n - 1)
    OBVIOUS
  <2>4. F[1..n] = Op(F[1..(n - 1)], s[n])
    BY <2>1, <2>2, <2>3 DEF Rule
  <2> QED
    BY <2>4
<1>3. f = [n \in 0..N |-> f[n]] /\ f[N] = F[1..N]
  OBVIOUS
<1> HIDE DEF f
<1> QED
  BY <1>1, <1>2, <1>3 DEF Steps

-----------------------------------------------------------------------------
(* What the first N elements of a sequence fold to *)

FoldsTo(base, s, N, r) == \E f : Steps(f, base, s, N) /\ f[N] = r

LEMMA FoldsNothing ==
    ASSUME NEW base, NEW s
    PROVE  FoldsTo(base, s, 0, base)
<1> DEFINE f == [n \in 0..0 |-> base]
<1>1. f[0] = base /\ 1..0 = {}
  OBVIOUS
<1>2. f = [n \in 0..0 |-> f[n]]
  BY Zenon
<1> HIDE DEF f
<1>3. Steps(f, base, s, 0)
  BY <1>1, <1>2 DEF Steps
<1> QED
  BY <1>1, <1>3 DEF FoldsTo

\* One element more is one operation more.
LEMMA FoldsMore ==
    ASSUME NEW N \in Nat, NEW base, NEW s, NEW r, FoldsTo(base, s, N, r),
           NEW s2, \A i \in 1..N : s2[i] = s[i]
    PROVE  FoldsTo(base, s2, N + 1, Op(r, s2[N + 1]))
<1>1. PICK f : Steps(f, base, s, N) /\ f[N] = r
  BY DEF FoldsTo
<1> DEFINE v == Op(r, s2[N + 1])
           g == [n \in 0..(N + 1) |-> IF n = N + 1 THEN v ELSE f[n]]
<1>2. g = [n \in 0..(N + 1) |-> g[n]]
  OBVIOUS
<1>3. g[N + 1] = v /\ \A n \in 0..N : g[n] = f[n]
  OBVIOUS
<1> HIDE DEF g
<1>4. g[0] = base
  BY <1>1, <1>3 DEF Steps
<1>5. ASSUME NEW n \in 1..(N + 1)
      PROVE  g[n] = Op(g[n - 1], s2[n])
  <2>1. CASE n = N + 1
    <3>1. n - 1 = N /\ N \in 0..N
      BY <2>1
    <3> QED
      BY <1>1, <1>3, <2>1, <3>1
  <2>2. CASE n # N + 1
    <3>1. n \in 1..N /\ n \in 0..N /\ n - 1 \in 0..N
      BY <2>2
    <3>2. f[n] = Op(f[n - 1], s[n]) /\ s2[n] = s[n]
      BY <1>1, <3>1 DEF Steps
    <3> QED
      BY <1>3, <3>1, <3>2
  <2> QED
    BY <2>1, <2>2
<1>6. Steps(g, base, s2, N + 1)
  BY <1>2, <1>4, <1>5 DEF Steps
<1> QED
  BY <1>3, <1>6 DEF FoldsTo

\* There is one result.
LEMMA FoldsOnce ==
    ASSUME NEW N \in Nat, NEW base, NEW s, NEW a, NEW b,
           FoldsTo(base, s, N, a), FoldsTo(base, s, N, b)
    PROVE  a = b
<1>1. PICK f : Steps(f, base, s, N) /\ f[N] = a
  BY DEF FoldsTo
<1>2. PICK g : Steps(g, base, s, N) /\ g[N] = b
  BY DEF FoldsTo
<1> DEFINE T == {k \in 0..N : f[k] = g[k]}
<1>3. 0 \in T
  BY <1>1, <1>2 DEF Steps
<1>4. ASSUME NEW k \in 1..N, k - 1 \in T
      PROVE  k \in T
  <2>1. f[k - 1] = g[k - 1]
    BY <1>4
  <2>2. f[k] = Op(f[k - 1], s[k]) /\ g[k] = Op(g[k - 1], s[k])
    BY <1>1, <1>2 DEF Steps
  <2> QED
    BY <2>1, <2>2
<1> HIDE DEF T
<1>5. 0..N \subseteq T
  BY <1>3, <1>4, UpTo
<1> QED
  BY <1>1, <1>2, <1>5 DEF T

\* What a recursive function in the manner of FoldLeft computes.
LEMMA FoldsRule ==
    ASSUME NEW N \in Nat, NEW base, NEW s, NEW F, Rule(F, base, s, N)
    PROVE  FoldsTo(base, s, N, F[1..N])
BY FoldSteps DEF FoldsTo

================================================================================
