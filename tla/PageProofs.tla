------------------------------- MODULE PageProofs -------------------------------
(***************************************************************************)
(* Proofs about Page: what a source is made into, and what the client is   *)
(* shown of it.                                                            *)
(***************************************************************************)
EXTENDS Page, Recursion, TLAPS

-----------------------------------------------------------------------------
(* Lists *)

\* A list is a sequence of whatever it has.
LEMMA ListIsSeq ==
    ASSUME NEW s, IsList(s), NEW S
    PROVE  /\ s \in Seq({s[i] : i \in 1..Len(s)} \cup S)
           /\ DOMAIN s = 1..Len(s) /\ Len(s) \in Nat
<1> DEFINE N == Len(s)
           V == {s[i] : i \in 1..N} \cup S
<1>1. N \in Nat /\ s = [i \in 1..N |-> s[i]]
  BY DEF IsList
<1> HIDE DEF N
<1>2. s \in [1..N -> V]
  BY <1>1
<1>3. s \in Seq(V)
  <2> HIDE DEF V
  <2> QED
    BY <1>1, <1>2, SeqDef
<1> QED
  BY <1>1, <1>3 DEF N

\* And a sequence is a list.
LEMMA SeqIsList ==
    ASSUME NEW S, NEW s \in Seq(S)
    PROVE  IsList(s)
BY LenProperties DEF IsList

\* A list of the elements of S is a sequence of them.
LEMMA ListOf ==
    ASSUME NEW s, IsList(s), NEW S, \A i \in 1..Len(s) : s[i] \in S
    PROVE  s \in Seq(S)
<1> DEFINE N == Len(s)
<1>1. N \in Nat /\ s = [i \in 1..N |-> s[i]]
  BY DEF IsList
<1>2. \A i \in 1..N : s[i] \in S
  OBVIOUS
<1> HIDE DEF N
<1>3. s \in [1..N -> S]
  BY <1>1, <1>2
<1> QED
  BY <1>1, <1>3, SeqDef

\* One more element.
LEMMA ListAppend ==
    ASSUME NEW s, IsList(s), NEW x
    PROVE  /\ IsList(Append(s, x)) /\ Len(Append(s, x)) = Len(s) + 1
           /\ Append(s, x)[Len(s) + 1] = x
           /\ \A i \in 1..Len(s) : Append(s, x)[i] = s[i]
<1> DEFINE V == {s[i] : i \in 1..Len(s)} \cup {x}
<1>1. s \in Seq(V) /\ x \in V /\ Len(s) \in Nat
  BY ListIsSeq
<1> HIDE DEF V
<1>2. /\ Append(s, x) \in Seq(V) /\ Len(Append(s, x)) = Len(s) + 1
      /\ \A i \in 1..Len(s) : Append(s, x)[i] = s[i]
      /\ Append(s, x)[Len(s) + 1] = x
  BY <1>1, AppendProperties
<1>3. IsList(Append(s, x))
  BY <1>2, SeqIsList
<1> QED
  BY <1>2, <1>3

\* One element changed.
LEMMA ListExcept ==
    ASSUME NEW s, IsList(s), NEW k \in 1..Len(s), NEW x
    PROVE  /\ IsList([s EXCEPT ![k] = x]) /\ Len([s EXCEPT ![k] = x]) = Len(s)
           /\ \A i \in 1..Len(s) : [s EXCEPT ![k] = x][i] = IF i = k THEN x ELSE s[i]
<1> DEFINE V == {s[i] : i \in 1..Len(s)} \cup {x}
<1>1. s \in Seq(V) /\ x \in V
  BY ListIsSeq
<1> HIDE DEF V
<1>2. /\ [s EXCEPT ![k] = x] \in Seq(V) /\ Len([s EXCEPT ![k] = x]) = Len(s)
      /\ \A i \in 1..Len(s) : [s EXCEPT ![k] = x][i] = IF i = k THEN x ELSE s[i]
  BY <1>1, ExceptSeq
<1>3. IsList([s EXCEPT ![k] = x])
  BY <1>2, SeqIsList
<1> QED
  BY <1>2, <1>3

\* A function of the numbers from one on is a list.
LEMMA ListOfFunction ==
    ASSUME NEW N \in Nat, NEW s, s = [i \in 1..N |-> s[i]]
    PROVE  IsList(s) /\ Len(s) = N /\ DOMAIN s = 1..N
<1> DEFINE V == {s[i] : i \in 1..N}
<1>1. s \in [1..N -> V]
  OBVIOUS
<1> HIDE DEF V
<1>2. s \in Seq(V)
  BY <1>1, SeqDef
<1>3. DOMAIN s = 1..Len(s) /\ Len(s) \in Nat /\ DOMAIN s = 1..N
  BY <1>1, <1>2, LenProperties
<1>4. Len(s) = N
  <2> DEFINE n == Len(s)
  <2> HIDE DEF n
  <2>1. n \in Nat /\ 1..n = 1..N
    BY <1>3 DEF n
  <2>2. n <= N /\ N <= n
    <3>1. CASE n > N
      <4>1. n \in 1..n
        BY <2>1, <3>1
      <4> QED
        BY <4>1, <2>1, <3>1
    <3>2. CASE N > n
      <4>1. N \in 1..N
        BY <2>1, <3>2
      <4> QED
        BY <4>1, <2>1, <3>2
    <3> QED
      BY <3>1, <3>2, <2>1
  <2> QED
    BY <2>1, <2>2 DEF n
<1>5. IsList(s)
  BY <1>2, SeqIsList
<1> QED
  BY <1>3, <1>4, <1>5

\* The first elements.
LEMMA ListPrefix ==
    ASSUME NEW s, IsList(s), NEW k \in Nat, k <= Len(s)
    PROVE  /\ IsList(SubSeq(s, 1, k)) /\ Len(SubSeq(s, 1, k)) = k
           /\ \A i \in 1..k : SubSeq(s, 1, k)[i] = s[i]
<1> DEFINE V == {s[i] : i \in 1..Len(s)}
<1>1. Len(s) \in Nat
  BY DEF IsList
<1>2. \A i \in 1..k : s[i] \in V
  BY <1>1
<1> HIDE DEF V
<1>3. 1 \in Int /\ k \in Int
  OBVIOUS
<1>4. /\ SubSeq(s, 1, k) \in Seq(V)
      /\ Len(SubSeq(s, 1, k)) = IF 1 <= k THEN k - 1 + 1 ELSE 0
      /\ \A i \in 1..(k - 1 + 1) : SubSeq(s, 1, k)[i] = s[1 + i - 1]
  BY <1>2, <1>3, SubSeqProperties
<1>5. IsList(SubSeq(s, 1, k))
  BY <1>4, SeqIsList
<1>6. Len(SubSeq(s, 1, k)) = k
  BY <1>4
<1>7. \A i \in 1..k : SubSeq(s, 1, k)[i] = s[i]
  BY <1>4
<1> QED
  BY <1>5, <1>6, <1>7

\* What is left of a list before its first element of some kind.
LEMMA ListUntil ==
    ASSUME NEW s, IsList(s), NEW I, I \subseteq 1..Len(s),
           NEW good, I = {} => good = s, I # {} => good = SubSeq(s, 1, Min(I) - 1)
    PROVE  /\ IsList(good) /\ Len(good) <= Len(s)
           /\ \A i \in 1..Len(good) : i \in 1..Len(s) /\ good[i] = s[i]
<1>1. Len(s) \in Nat
  BY DEF IsList
<1>2. CASE I = {}
  BY <1>1, <1>2
<1>3. CASE I # {}
  <2> DEFINE k == Min(I) - 1
  <2>1. I \subseteq Nat
    OBVIOUS
  <2>2. Min(I) \in I
    BY <1>3, <2>1, MinNat
  <2>3. Min(I) \in 1..Len(s)
    BY <2>2
  <2>4. k \in Nat /\ k <= Len(s)
    BY <1>1, <2>3
  <2>5. good = SubSeq(s, 1, k)
    BY <1>3
  <2> HIDE DEF k
  <2>6. IsList(good) /\ Len(good) = k /\ \A i \in 1..k : good[i] = s[i]
    BY <2>4, <2>5, ListPrefix
  <2> QED
    BY <1>1, <2>4, <2>6
<1> QED
  BY <1>2, <1>3

\* The intermediate results of FlattenSeq.
Flattens(f, ss, N) == f[1] = ss[1] /\ \A n \in 2..N : f[n] = f[n - 1] \o ss[n]

LEMMA FlattenSteps ==
    ASSUME NEW ss, IsList(ss), Len(ss) # 0, NEW V, \A i \in 1..Len(ss) : ss[i] \in Seq(V)
    PROVE  \E f : /\ f \in [1..Len(ss) -> Seq(V)] /\ Flattens(f, ss, Len(ss))
                  /\ FlattenSeq(ss) = f[Len(ss)]
<1> DEFINE N == Len(ss)
           S == 1..N
           T == Seq(V)
           m == [i \in S |-> i]
           Value(i, g) == IF i = 1 THEN ss[i] ELSE g[i - 1] \o ss[i]
           G == [i \in S |-> [g \in [S -> T] |-> Value(i, g)]]
           IsFlat(F) == F = [i \in S |-> Value(i, F)]
           flatten == CHOOSE F : IsFlat(F)
<1>1. N \in Nat /\ N >= 1
  BY DEF IsList
<1>2. Bounded(m, S)
  <2>1. m \in [S -> 0..N]
    BY <1>1
  <2> QED
    BY <1>1, <2>1 DEF Bounded
<1>3. ASSUME NEW i \in S, NEW g \in [S -> T]
      PROVE  Value(i, g) \in T
  <2>1. CASE i # 1
    <3>1. i - 1 \in S
      BY <1>1, <2>1
    <3>2. g[i - 1] \in T /\ ss[i] \in T
      BY <3>1
    <3> QED
      BY <2>1, <3>2, ConcatProperties
  <2> QED
    BY <2>1
<1>4. ASSUME NEW i \in S, NEW g \in [S -> T], NEW h \in [S -> T],
             \A j \in S : m[j] < m[i] => g[j] = h[j]
      PROVE  Value(i, g) = Value(i, h)
  <2>1. CASE i # 1
    <3>1. i - 1 \in S /\ i - 1 < i
      BY <1>1, <2>1
    <3>2. g[i - 1] = h[i - 1]
      BY <1>4, <3>1
    <3> QED
      BY <2>1, <3>2
  <2> QED
    BY <2>1
<1>5. Defines(G, m, S, T)
  <2>1. \A i \in S : \A g \in [S -> T] : G[i][g] = Value(i, g)
    OBVIOUS
  <2> HIDE DEF m, S, T, Value, G
  <2> QED
    BY <2>1, <1>3, <1>4 DEF Defines
<1>6. PICK f \in [S -> T] : \A i \in S : f[i] = Value(i, f)
  <2>1. T # {}
    BY <1>1
  <2>2. Solvable(G, S, T)
    <3> HIDE DEF m, S, T, G
    <3> QED
      BY <1>2, <1>5, <2>1, Recursion
  <2>3. PICK f \in [S -> T] : \A i \in S : f[i] = G[i][f]
    <3> HIDE DEF m, S, T, G
    <3> QED
      BY <2>2 DEF Solvable
  <2> HIDE DEF Value
  <2>4. \A i \in S : f[i] = Value(i, f)
    BY <2>3
  <2> QED
    BY <2>4
<1>7. IsFlat(flatten)
  <2>1. IsFlat(f)
    <3> HIDE DEF Value
    <3> QED
      BY <1>6
  <2> HIDE DEF IsFlat
  <2> QED
    BY <2>1
<1>8. FlattenSeq(ss) = flatten[N]
  <2> HIDE DEF N
  <2>1. N # 0
    BY <1>1
  <2> QED
    BY <2>1 DEF FlattenSeq, N
<1> HIDE DEF flatten
<1>9. \A i \in S : flatten[i] = Value(i, flatten)
  <2> HIDE DEF Value
  <2> QED
    BY <1>7
<1>10. flatten = [i \in S |-> flatten[i]]
  <2> HIDE DEF Value
  <2> QED
    BY <1>7
<1>11. \A i \in S : flatten[i] \in T
  <2>1. m \in [S -> Nat]
    BY <1>1
  <2>2. ASSUME NEW i \in S, \A j \in S : m[j] < m[i] => flatten[j] \in T
        PROVE  flatten[i] \in T
    <3>1. CASE i # 1
      <4>1. i - 1 \in S /\ i - 1 < i
        BY <1>1, <3>1
      <4>2. flatten[i - 1] \in T /\ ss[i] \in T
        BY <2>2, <4>1
      <4>3. flatten[i - 1] \o ss[i] \in T
        BY <4>2, ConcatProperties
      <4> QED
        BY <1>9, <3>1, <4>3
    <3>2. CASE i = 1
      BY <1>9, <3>2
    <3> QED
      BY <3>1, <3>2
  <2> HIDE DEF m, S, T
  <2> QED
    BY <2>1, <2>2, TypedByMeasure
<1>12. Flattens(flatten, ss, N)
  <2>1. 1 \in S /\ \A n \in 2..N : n \in S /\ n # 1
    BY <1>1
  <2> HIDE DEF S
  <2> QED
    BY <2>1, <1>9 DEF Flattens
<1> QED
  BY <1>8, <1>10, <1>11, <1>12

\* What all steps of FlattenSeq keep, its result has.
LEMMA FlattenSeqOf ==
    ASSUME NEW ss, IsList(ss), NEW V, \A i \in 1..Len(ss) : ss[i] \in Seq(V)
    PROVE  FlattenSeq(ss) \in Seq(V)
<1>1. CASE Len(ss) # 0
  <2>1. Len(ss) \in 1..Len(ss)
    BY <1>1 DEF IsList
  <2> QED
    BY <1>1, <2>1, FlattenSteps
<1>2. CASE Len(ss) = 0
  <2>1. FlattenSeq(ss) = ss
    BY <1>2 DEF FlattenSeq
  <2>2. \A i \in 1..Len(ss) : ss[i] \in V
    BY <1>2
  <2>3. ss \in Seq(V)
    BY <2>2, ListOf
  <2> QED
    BY <2>1, <2>3
<1> QED
  BY <1>1, <1>2

-----------------------------------------------------------------------------
(* Documents *)

Unconditional(attrs) == attrs.show = ""

\* The children of a node come after it, as they are allocated.
IsTree(nodes) ==
    /\ IsList(nodes) /\ Len(nodes) >= 1
    /\ nodes[1].parent = 0 /\ Unconditional(nodes[1].attrs)
    /\ \A n \in 1..Len(nodes) : n # 1 =>
          nodes[n].parent \in Nat /\ 1 <= nodes[n].parent /\ nodes[n].parent < n

\* parse_attributes reads pair by pair.
AttrsOp(attrs, pair) ==
    IF pair[1] \in DOMAIN attrs THEN [attrs EXCEPT ![pair[1]] = pair[2]] ELSE attrs
Attributing == INSTANCE Folding WITH Op <- AttrsOp

LEMMA AttrsSteps ==
    ASSUME NEW s, NEW N \in Nat, DOMAIN s = 1..N
    PROVE  \E f : Attributing!Steps(f, NoAttrs, s, N) /\ Attrs(s) = f[N]
<1> DEFINE IsFold(F) == F = [t \in SUBSET DOMAIN s |->
                               IF t = {} THEN NoAttrs ELSE AttrsOp(F[t \ {Max(t)}], s[Max(t)])]
           fold == CHOOSE F : IsFold(F)
<1>1. \A F : IsFold(F) <=> Attributing!Rule(F, NoAttrs, s, N)
  <2>1. \A t : Attributing!Max(t) = Max(t)
    BY DEF Max, Attributing!Max
  <2> QED
    BY <2>1 DEF Attributing!Rule
<1>2. IsFold(fold)
  BY <1>1, Attributing!FoldExists
<1>3. Attrs(s) = fold[DOMAIN s]
  BY DEF Attrs, FoldLeft, MapThenFoldSet, AttrsOp
<1> HIDE DEF fold, IsFold
<1> QED
  BY <1>1, <1>2, <1>3, Attributing!FoldSteps

\* The attribute `style' has declarations.
HasDeclarations(attrs) == "style" \in DOMAIN attrs /\ AreDeclarations(attrs.style)

LEMMA NoDeclarations == HasDeclarations(NoAttrs)
<1>1. NoAttrs.style = << >> /\ "style" \in DOMAIN NoAttrs
  BY Zenon DEF NoAttrs
<1>2. AreDeclarations(<< >>)
  BY DEF AreDeclarations, IsList
<1> QED
  BY <1>1, <1>2 DEF HasDeclarations

LEMMA AttrsOK ==
    ASSUME NEW pairs, IsList(pairs),
           \A i \in DOMAIN pairs : pairs[i][1] = "style" => AreDeclarations(pairs[i][2])
    PROVE  HasDeclarations(Attrs(pairs))
<1> DEFINE N == Len(pairs)
<1>1. N \in Nat /\ DOMAIN pairs = 1..N
  BY ListIsSeq
<1>2. PICK f : Attributing!Steps(f, NoAttrs, pairs, N) /\ Attrs(pairs) = f[N]
  <2> HIDE DEF N
  <2> QED
    BY <1>1, AttrsSteps
<1> DEFINE T == {n \in 0..N : HasDeclarations(f[n])}
<1>3. 0 \in T
  BY <1>1, <1>2, NoDeclarations DEF Attributing!Steps
<1>4. ASSUME NEW n \in 1..N, n - 1 \in T
      PROVE  n \in T
  <2> DEFINE a == f[n - 1]
             x == pairs[n]
  <2>1. f[n] = IF x[1] \in DOMAIN a THEN [a EXCEPT ![x[1]] = x[2]] ELSE a
    BY <1>2 DEF Attributing!Steps, AttrsOp
  <2>2. HasDeclarations(a) /\ (x[1] = "style" => AreDeclarations(x[2]))
    BY <1>1, <1>4
  <2> HIDE DEF a, x
  <2>3. HasDeclarations(f[n])
    BY <2>1, <2>2 DEF HasDeclarations
  <2> QED
    BY <2>3, <1>1
<1> HIDE DEF T, N
<1>5. 0..N \subseteq T
  BY <1>1, <1>3, <1>4, UpTo
<1> QED
  BY <1>1, <1>2, <1>5 DEF T

ScanOp(s, e) == Scan(s, e.source, e.i)
Scanning == INSTANCE Folding WITH Op <- ScanOp

ScanStart == [nodes |-> << Root >>, open |-> << >>, at |-> "body"]

\* The parser reads token by token.
LEMMA ScannedSteps ==
    ASSUME NEW s, NEW N \in Nat, DOMAIN s = 1..N
    PROVE  \E f : /\ f[0] = ScanStart
                  /\ \A n \in 1..N : f[n] = Scan(f[n - 1], s, n)
                  /\ Scanned(s) = f[N]
<1> DEFINE e == [i \in 1..N |-> [source |-> s, i |-> i]]
           id == [i \in DOMAIN s |-> i]
           IsFold(F) == F = [t \in SUBSET DOMAIN id |->
                               IF t = {} THEN ScanStart ELSE Scan(F[t \ {Max(t)}], s, id[Max(t)])]
           fold == CHOOSE F : IsFold(F)
<1>1. \A F : IsFold(F) <=> Scanning!Rule(F, ScanStart, e, N)
  <2>1. \A t \in SUBSET (1..N) : t # {} => Max(t) \in 1..N
    BY MaxUpTo
  <2>2. \A t : Scanning!Max(t) = Max(t)
    BY DEF Max, Scanning!Max
  <2> QED
    BY <2>1, <2>2 DEF Scanning!Rule, ScanOp
<1>2. IsFold(fold)
  BY <1>1, Scanning!FoldExists
<1>3. Scanned(s) = fold[DOMAIN id]
  BY DEF Scanned, FoldLeftDomain, FoldLeft, MapThenFoldSet, ScanStart
<1>4. DOMAIN id = 1..N
  OBVIOUS
<1> HIDE DEF fold, IsFold, e
<1>5. PICK f : Scanning!Steps(f, ScanStart, e, N) /\ f[N] = fold[1..N]
  BY <1>1, <1>2, Scanning!FoldSteps
<1> QED
  BY <1>3, <1>4, <1>5 DEF Scanning!Steps, ScanOp, e

\* A node as the parser makes it.
IsNode(node) ==
    /\ DOMAIN node = {"tag", "parent", "attrs", "text"}
    /\ HasDeclarations(node.attrs)

\* What the parser has after some tokens: a tree, and the elements that are open.
ScanOK(s) ==
    /\ DOMAIN s = {"nodes", "open", "at"}
    /\ IsTree(s.nodes)
    /\ \A n \in 1..Len(s.nodes) : IsNode(s.nodes[n])
    /\ s.open \in Seq(Nat)
    /\ \A i \in 1..Len(s.open) : 1 <= s.open[i] /\ s.open[i] <= Len(s.nodes)

LEMMA OpenElementOK ==
    ASSUME NEW s, ScanOK(s), NEW token, token.kind = "open", IsToken(token)
    PROVE  ScanOK(OpenElement(s, token))
<1> DEFINE N == Len(s.nodes)
           parent == IF s.open = << >> THEN 1 ELSE Last(s.open)
           node == Node(token.tag, parent, Attrs(token.attrs))
           nodes == Append(s.nodes, node)
           open == IF token.self THEN s.open ELSE Append(s.open, N + 1)
           t == OpenElement(s, token)
<1>1. N \in Nat /\ N >= 1 /\ IsList(s.nodes) /\ s.open \in Seq(Nat)
  BY DEF ScanOK, IsTree, IsList
<1>2. parent \in Nat /\ 1 <= parent /\ parent <= N
  <2>1. CASE s.open # << >>
    <3>1. Len(s.open) \in 1..Len(s.open)
      BY <2>1, <1>1, EmptySeq
    <3>2. s.open[Len(s.open)] \in Nat
      BY <3>1, <1>1, ElementOfSeq
    <3> QED
      BY <2>1, <3>1, <3>2, <1>1 DEF ScanOK, Last
  <2> QED
    BY <2>1, <1>1
<1>3. t.nodes = nodes /\ t.open = open /\ DOMAIN t = {"nodes", "open", "at"}
  <2> HIDE DEF nodes, open
  <2>1. t = [s EXCEPT !.nodes = nodes, !.open = open]
    <3>1. \A x : [s EXCEPT !.nodes = x].open = s.open
      BY DEF ScanOK
    <3> QED
      BY DEF OpenElement, nodes, open, ScanOK
  <2> HIDE DEF t
  <2> QED
    BY <2>1 DEF ScanOK
<1>4. /\ IsList(nodes) /\ Len(nodes) = N + 1 /\ nodes[N + 1] = node
      /\ \A i \in 1..N : nodes[i] = s.nodes[i]
  BY <1>1, ListAppend
<1>5. node.parent = parent /\ IsNode(node)
  <2>1. HasDeclarations(Attrs(token.attrs))
    BY AttrsOK DEF IsToken
  <2> QED
    BY <2>1 DEF Node, IsNode
<1>6. open \in Seq(Nat) /\ \A i \in 1..Len(open) : 1 <= open[i] /\ open[i] <= N + 1
  <2>1. CASE token.self
    <3>1. \A i \in 1..Len(s.open) : s.open[i] \in Nat
      BY <1>1, ElementOfSeq
    <3> QED
      BY <2>1, <3>1, <1>1 DEF ScanOK
  <2>2. CASE ~token.self
    <3> DEFINE k == Len(s.open)
    <3>1. /\ Append(s.open, N + 1) \in Seq(Nat) /\ Len(Append(s.open, N + 1)) = k + 1
          /\ \A i \in 1..k : Append(s.open, N + 1)[i] = s.open[i]
          /\ Append(s.open, N + 1)[k + 1] = N + 1
      BY <1>1, AppendProperties
    <3>2. \A i \in 1..k : s.open[i] \in Nat /\ 1 <= s.open[i] /\ s.open[i] <= N
      BY <1>1, ElementOfSeq DEF ScanOK
    <3>3. k \in Nat
      BY <1>1, LenProperties
    <3>4. open = Append(s.open, N + 1)
      BY <2>2
    <3> HIDE DEF open, k, N
    <3>5. ASSUME NEW i \in 1..(k + 1)
          PROVE  1 <= open[i] /\ open[i] <= N + 1
      <4>1. i = k + 1 \/ i \in 1..k
        BY <3>3
      <4> QED
        BY <4>1, <3>1, <3>2, <3>4, <1>1
    <3> QED
      BY <3>1, <3>4, <3>5
  <2> QED
    BY <2>1, <2>2
<1>7. IsTree(nodes) /\ \A n \in 1..Len(nodes) : IsNode(nodes[n])
  <2> HIDE DEF nodes, N, parent, node
  <2>1. nodes[1].parent = 0 /\ Unconditional(nodes[1].attrs)
    BY <1>1, <1>4 DEF ScanOK, IsTree, N
  <2>2. ASSUME NEW n \in 1..(N + 1)
        PROVE  /\ n # 1 => nodes[n].parent \in Nat /\ 1 <= nodes[n].parent /\ nodes[n].parent < n
               /\ IsNode(nodes[n])
    <3>1. CASE n = N + 1
      BY <3>1, <1>1, <1>2, <1>4, <1>5
    <3>2. CASE n # N + 1
      <4>1. n \in 1..N
        BY <3>2, <1>1
      <4> QED
        BY <4>1, <1>4 DEF ScanOK, IsTree, N
    <3> QED
      BY <3>1, <3>2
  <2> QED
    BY <2>1, <2>2, <1>4, <1>1 DEF IsTree
<1> HIDE DEF nodes, open, N, t
<1> QED
  BY <1>3, <1>4, <1>6, <1>7 DEF ScanOK, t


\* A step that leaves the nodes and the open elements alone.
LEMMA AtOnlyOK ==
    ASSUME NEW s, ScanOK(s), NEW at
    PROVE  ScanOK([s EXCEPT !.at = at])
<1> DEFINE t == [s EXCEPT !.at = at]
<1>1. t.nodes = s.nodes /\ t.open = s.open /\ DOMAIN t = {"nodes", "open", "at"}
  BY DEF ScanOK
<1> HIDE DEF t
<1>2. ScanOK(t)
  BY <1>1 DEF ScanOK
<1> QED
  BY <1>2 DEF t

LEMMA InsideOK ==
    ASSUME NEW s, ScanOK(s), s.open # << >>, NEW token, IsToken(token)
    PROVE  ScanOK(Inside(s, token))
<1> DEFINE k == Len(s.open)
           N == Len(s.nodes)
<1>1. s.open \in Seq(Nat) /\ k \in Nat /\ k >= 1 /\ N \in Nat /\ IsList(s.nodes)
  BY EmptySeq DEF ScanOK, IsTree, IsList
<1>2. \A i \in 1..k : s.open[i] \in Nat /\ 1 <= s.open[i] /\ s.open[i] <= N
  BY <1>1, ElementOfSeq DEF ScanOK
<1>3. Last(s.open) \in 1..N
  <2>1. k \in 1..k
    BY <1>1
  <2> QED
    BY <1>2, <2>1 DEF Last
<1>4. ScanOK([s EXCEPT !.open = Front(@)])
  <2> DEFINE t == [s EXCEPT !.open = Front(@)]
             o == Front(s.open)
  <2>1. t.nodes = s.nodes /\ t.open = o /\ DOMAIN t = {"nodes", "open", "at"}
    BY DEF ScanOK
  <2>2. o = SubSeq(s.open, 1, k - 1)
    BY DEF Front
  <2>3. \A i \in 1..(k - 1) : s.open[i] \in Nat
    BY <1>1, <1>2
  <2>4. /\ o \in Seq(Nat) /\ Len(o) = k - 1
        /\ \A i \in 1..(k - 1) : o[i] = s.open[i]
    <3>1. /\ SubSeq(s.open, 1, k - 1) \in Seq(Nat)
          /\ Len(SubSeq(s.open, 1, k - 1)) = IF 1 <= k - 1 THEN (k - 1) - 1 + 1 ELSE 0
          /\ \A i \in 1..((k - 1) - 1 + 1) : SubSeq(s.open, 1, k - 1)[i] = s.open[1 + i - 1]
      <4>1. k - 1 \in Int /\ 1 \in Int
        BY <1>1
      <4> HIDE DEF k
      <4> QED
        BY <2>3, <4>1, SubSeqProperties
    <3> HIDE DEF k, o
    <3> QED
      BY <1>1, <2>2, <3>1
  <2> HIDE DEF t, o, k, N
  <2>5. ASSUME NEW i \in 1..Len(o)
        PROVE  1 <= o[i] /\ o[i] <= N
    <3>1. i \in 1..(k - 1) /\ i \in 1..k
      BY <1>1, <2>4
    <3> QED
      BY <1>2, <2>4, <3>1
  <2>6. ScanOK(t)
    BY <2>1, <2>4, <2>5 DEF ScanOK, N
  <2> QED
    BY <2>6 DEF t
<1>5. ASSUME NEW text
      PROVE  ScanOK([s EXCEPT !.nodes[Last(s.open)].text = text])
  <2> DEFINE i == Last(s.open)
             t == [s EXCEPT !.nodes[i].text = text]
             node == [s.nodes[i] EXCEPT !.text = text]
             nodes == [s.nodes EXCEPT ![i] = node]
  <2>1. t.nodes = nodes /\ t.open = s.open /\ DOMAIN t = {"nodes", "open", "at"}
    BY DEF ScanOK
  <2>2. IsNode(s.nodes[i])
    BY <1>3 DEF ScanOK
  <2>3. IsNode(node) /\ node.parent = s.nodes[i].parent
        /\ node.attrs = s.nodes[i].attrs
    BY <2>2 DEF IsNode
  <2> HIDE DEF node, t
  <2>4. /\ IsList(nodes) /\ Len(nodes) = N
        /\ \A j \in 1..N : nodes[j] = IF j = i THEN node ELSE s.nodes[j]
    <3>1. IsList(s.nodes) /\ i \in 1..Len(s.nodes)
      BY <1>1, <1>3
    <3> HIDE DEF i
    <3> QED
      BY <3>1, ListExcept
  <2> HIDE DEF nodes, i, N
  <2>5. \A j \in 1..N : nodes[j].parent = s.nodes[j].parent /\ nodes[j].attrs = s.nodes[j].attrs
    BY <2>3, <2>4
  <2>6. IsTree(nodes)
    BY <2>4, <2>5, <1>1 DEF IsTree, ScanOK, N
  <2>7. \A j \in 1..N : IsNode(nodes[j])
    BY <2>3, <2>4 DEF ScanOK, N
  <2>8. ScanOK(t)
    BY <2>1, <2>4, <2>6, <2>7 DEF ScanOK, N
  <2> QED
    BY <2>8 DEF t, i
<1>6. token.kind = "open" => ScanOK(OpenElement(s, token))
  BY OpenElementOK
<1>7. \/ Inside(s, token) = [s EXCEPT !.open = Front(@)]
      \/ token.kind = "open" /\ Inside(s, token) = OpenElement(s, token)
      \/ \E text : Inside(s, token) = [s EXCEPT !.nodes[Last(s.open)].text = text]
  <2> DEFINE text == s.nodes[Last(s.open)].text \o Chars(token)
  <2>1. [s EXCEPT !.nodes[Last(s.open)].text = @ \o Chars(token)]
            = [s EXCEPT !.nodes[Last(s.open)].text = text]
    OBVIOUS
  <2> HIDE DEF text
  <2> QED
    BY <2>1 DEF Inside
<1> QED
  BY <1>4, <1>5, <1>6, <1>7

LEMMA ScanKeeps ==
    ASSUME NEW s, ScanOK(s), NEW source0, NEW i, IsToken(source0[i])
    PROVE  ScanOK(Scan(s, source0, i))
<1>1. ASSUME s.open = << >>
      PROVE  ScanOK(AtTop(s, source0, i))
  <2> DEFINE failed == [s EXCEPT !.at = "failed"]
             comment == [s EXCEPT !.at = "comment"]
             ended == [s EXCEPT !.at = "end"]
             open == OpenElement(s, source0[i])
  <2>1. \/ AtTop(s, source0, i) \in {s, failed, comment, ended}
        \/ source0[i].kind = "open" /\ AtTop(s, source0, i) = open
    <3> HIDE DEF failed, comment, ended, open
    <3> QED
      BY Zenon DEF AtTop, failed, comment, ended, open
  <2>2. (source0[i].kind = "open" => ScanOK(open)) /\ ScanOK(failed) /\ ScanOK(comment) /\ ScanOK(ended)
    BY OpenElementOK, AtOnlyOK
  <2> HIDE DEF failed, comment, ended, open
  <2> QED
    BY <2>1, <2>2
<1> QED
  BY <1>1, InsideOK, AtOnlyOK DEF Scan

\* A document's nodes: a tree, and what is to be shown is valid.
IsDocument(nodes) ==
    /\ IsTree(nodes)
    /\ \A n \in 1..Len(nodes) : Valid(nodes[n]) /\ nodes[n].style.z \in Int

\* What the parser makes of any source is a tree.
LEMMA ParsedTree ==
    ASSUME NEW s, IsSource(s)
    PROVE  /\ IsTree(Parsed(s).nodes)
           /\ \A n \in 1..Len(Parsed(s).nodes) : AreDeclarations(Parsed(s).nodes[n].attrs.style)
<1> DEFINE N == Len(s)
           last == Scanned(s)
           nodes == [n \in DOMAIN last.nodes |-> [last.nodes[n] EXCEPT !.text = Trim(@)]]
<1>1. N \in Nat /\ DOMAIN s = 1..N
  BY ListIsSeq DEF IsSource
<1>2. PICK f : /\ f[0] = ScanStart /\ \A n \in 1..N : f[n] = Scan(f[n - 1], s, n)
               /\ last = f[N]
  <2> HIDE DEF N
  <2> QED
    BY <1>1, ScannedSteps
<1>3. ScanOK(ScanStart)
  <2>1. IsList(<< Root >>) /\ Len(<< Root >>) = 1 /\ << Root >>[1] = Root
    BY DEF IsList
  <2>2. Root.parent = 0 /\ Unconditional(Root.attrs) /\ IsNode(Root)
    <3>1. NoAttrs.show = ""
      BY Zenon DEF NoAttrs
    <3> QED
      BY <3>1, NoDeclarations DEF Root, Node, Unconditional, IsNode
  <2>3. ScanStart.nodes = << Root >> /\ ScanStart.open = << >>
        /\ DOMAIN ScanStart = {"nodes", "open", "at"}
    BY DEF ScanStart
  <2>4. << >> \in Seq(Nat) /\ Len(<< >>) = 0
    OBVIOUS
  <2>5. IsTree(<< Root >>)
    BY <2>1, <2>2 DEF IsTree
  <2> HIDE DEF N, last
  <2> QED
    BY <2>1, <2>2, <2>3, <2>4, <2>5 DEF ScanOK
<1>4. ScanOK(f[N])
  <2> DEFINE T == {n \in 0..N : ScanOK(f[n])}
  <2>1. 0 \in T
    BY <1>1, <1>2, <1>3
  <2>2. ASSUME NEW n \in 1..N, n - 1 \in T
        PROVE  n \in T
    <3>1. IsToken(s[n])
      BY <1>1 DEF IsSource
    <3>2. ScanOK(Scan(f[n - 1], s, n))
      BY <2>2, <3>1, ScanKeeps
    <3> QED
      BY <3>2, <1>2, <1>1
  <2> HIDE DEF T, N
  <2>3. 0..N \subseteq T
    BY <1>1, <2>1, <2>2, UpTo
  <2> QED
    BY <2>3, <1>1 DEF T
<1>5. ScanOK(last)
  BY <1>2, <1>4
<1> DEFINE M == Len(last.nodes)
<1> HIDE DEF last
<1>6. M \in Nat /\ DOMAIN last.nodes = 1..M /\ M >= 1 /\ IsTree(last.nodes)
  BY <1>5, ListIsSeq DEF ScanOK, IsTree
<1>7. nodes = [n \in 1..M |-> nodes[n]] /\ DOMAIN nodes = 1..M
  BY <1>6
<1>8. \A n \in 1..M : nodes[n].parent = last.nodes[n].parent /\ nodes[n].attrs = last.nodes[n].attrs
  <2> SUFFICES ASSUME NEW n \in 1..M
               PROVE  nodes[n].parent = last.nodes[n].parent /\ nodes[n].attrs = last.nodes[n].attrs
    OBVIOUS
  <2>1. nodes[n] = [last.nodes[n] EXCEPT !.text = Trim(@)]
    BY <1>6
  <2>2. DOMAIN last.nodes[n] = {"tag", "parent", "attrs", "text"}
    BY <1>5 DEF ScanOK, IsNode
  <2> HIDE DEF nodes, M
  <2> QED
    BY <2>1, <2>2
<1>9. Parsed(s).nodes = nodes
  BY DEF Parsed, last
<1> HIDE DEF nodes
<1>10. IsList(nodes) /\ Len(nodes) = M
  <2> HIDE DEF M
  <2> QED
    BY <1>6, <1>7, ListOfFunction
<1>11. IsTree(nodes)
  BY <1>6, <1>8, <1>10 DEF IsTree, M
<1>12. \A n \in 1..M : AreDeclarations(nodes[n].attrs.style)
  BY <1>5, <1>8 DEF ScanOK, IsNode, HasDeclarations, M
<1> QED
  BY <1>9, <1>10, <1>11, <1>12

\* Styles leave the tree as it is.
LEMMA StylesTree ==
    ASSUME NEW nodes, IsTree(nodes), NEW rules
    PROVE  IsTree(Styles(nodes, rules))
<1> DEFINE N == Len(nodes)
           styled == Styles(nodes, rules)
<1>1. N \in Nat /\ N >= 1 /\ DOMAIN nodes = 1..N
  BY ListIsSeq DEF IsTree
<1>2. styled = [n \in 1..N |-> styled[n]]
  BY <1>1 DEF Styles
<1>3. \A n \in 1..N : styled[n].parent = nodes[n].parent /\ styled[n].attrs = nodes[n].attrs
  BY <1>1 DEF Styles
<1> HIDE DEF styled, N
<1>4. IsList(styled) /\ Len(styled) = N
  BY <1>1, <1>2, ListOfFunction
<1>5. IsTree(styled)
  BY <1>1, <1>3, <1>4 DEF IsTree, N
<1> QED
  BY <1>5 DEF styled

-----------------------------------------------------------------------------
(* Styles *)

\* A declaration has a number where one belongs.
Numbered(d) == d.key \in Numeric => d.value \in Int

Declared(ds) == IsList(ds) /\ \A i \in 1..Len(ds) : Numbered(ds[i])

AreRules(rules) == IsList(rules) /\ \A i \in 1..Len(rules) : Declared(rules[i].decls)

LEMMA ReadOK ==
    ASSUME NEW d, d = [key |-> d.key, side |-> d.side, value |-> d.value],
           d.key \in Numeric => d.value \in Int
    PROVE  Numbered(Read(d))
<1> DEFINE r == Read(d)
<1>1. CASE d.key \in Numeric
  <2>1. r \in {Unknown, d}
    BY <1>1 DEF Read, Numeric, Coloured
  <2>2. Unknown.key \notin Numeric
    BY DEF Unknown, Numeric
  <2> HIDE DEF r
  <2>3. Numbered(r)
    BY <1>1, <2>1, <2>2 DEF Numbered
  <2> QED
    BY <2>3 DEF r
<1>2. CASE d.key \notin Numeric
  <2>1. \/ r.key = d.key
        \/ r = Unknown
    <3>1. PICK k, s, v : d = [key |-> k, side |-> s, value |-> v]
      OBVIOUS
    <3>2. \A w : [d EXCEPT !.value = w].key = d.key
      BY <3>1
    <3> QED
      BY <1>2, <3>2 DEF Read, Coloured
  <2>2. Unknown.key \notin Numeric
    BY DEF Unknown, Numeric
  <2> QED
    BY <1>2, <2>1, <2>2 DEF Numbered
<1> QED
  BY <1>1, <1>2

LEMMA DeclarationsOK ==
    ASSUME NEW raw, AreDeclarations(raw)
    PROVE  Declared(Declarations(raw))
<1> DEFINE I == {i \in 1..Len(raw) : Bad(raw[i])}
           first == IF I # {} THEN Min(I) ELSE 0
           good == IF first = 0 THEN raw ELSE SubSeq(raw, 1, first - 1)
           ds == [i \in DOMAIN good |-> Read(good[i])]
<1>1. Declarations(raw) = ds
  BY DEF Declarations, SelectInSeq
<1>2. IsList(raw) /\ I \subseteq 1..Len(raw)
  BY DEF AreDeclarations
<1> HIDE DEF I
<1>3. /\ IsList(good) /\ Len(good) <= Len(raw)
      /\ \A i \in 1..Len(good) : i \in 1..Len(raw) /\ good[i] = raw[i]
  <2>1. I \subseteq Nat
    BY <1>2
  <2>2. I # {} => Min(I) \in I
    BY <2>1, MinNat
  <2>3. I # {} => first = Min(I) /\ first # 0
    BY <1>2, <2>2
  <2>4. (I = {} => good = raw) /\ (I # {} => good = SubSeq(raw, 1, Min(I) - 1))
    BY <2>3
  <2> HIDE DEF first, good
  <2> QED
    BY <1>2, <2>4, ListUntil
<1> HIDE DEF first, good
<1>4. Len(good) \in Nat /\ DOMAIN good = 1..Len(good) /\ DOMAIN raw = 1..Len(raw)
  BY <1>2, <1>3, ListIsSeq
<1>5. ds = [i \in 1..Len(good) |-> ds[i]]
  BY <1>4
<1>6. \A i \in 1..Len(good) : Numbered(ds[i])
  <2> SUFFICES ASSUME NEW i \in 1..Len(good)
               PROVE  Numbered(ds[i])
    OBVIOUS
  <2>1. ds[i] = Read(raw[i])
    BY <1>3, <1>4
  <2> HIDE DEF ds
  <2>2. i \in DOMAIN raw
    BY <1>3, <1>4
  <2>3. /\ raw[i] = [key |-> raw[i].key, side |-> raw[i].side, value |-> raw[i].value]
        /\ raw[i].key \in Numeric => raw[i].value \in Int
    BY <2>2, Zenon DEF AreDeclarations
  <2>4. Numbered(Read(raw[i]))
    BY <2>3, ReadOK
  <2> QED
    BY <2>1, <2>4
<1> HIDE DEF ds
<1>7. IsList(ds) /\ Len(ds) = Len(good)
  BY <1>4, <1>5, ListOfFunction
<1> QED
  BY <1>1, <1>6, <1>7 DEF Declared

\* The rules of a source.
LEMMA SheetOK ==
    ASSUME NEW s, IsSource(s)
    PROVE  IsList(Sheet(s)) /\ \A i \in 1..Len(Sheet(s)) : AreDeclarations(Sheet(s)[i].raw)
<1> DEFINE N == Len(s)
           styles == {i \in 1..N : s[i].kind = "style"}
           V == UNION {{s[i].rules[j] : j \in DOMAIN s[i].rules} : i \in styles}
           ss == [i \in DOMAIN s |-> IF s[i].kind = "style" THEN s[i].rules ELSE << >>]
<1>1. N \in Nat /\ DOMAIN s = 1..N
  BY ListIsSeq DEF IsSource
<1>2. ASSUME NEW i \in styles
      PROVE  IsList(s[i].rules) /\ \A j \in DOMAIN s[i].rules : AreDeclarations(s[i].rules[j].raw)
  BY <1>1 DEF IsSource, IsToken
<1>3. \A r \in V : AreDeclarations(r.raw)
  BY <1>2
<1>4. ASSUME NEW i \in 1..N
      PROVE  ss[i] \in Seq(V)
  <2>1. CASE s[i].kind = "style"
    <3>1. i \in styles /\ ss[i] = s[i].rules
      BY <1>1, <2>1
    <3>2. IsList(s[i].rules) /\ DOMAIN s[i].rules = 1..Len(s[i].rules)
      BY <1>2, <3>1, ListIsSeq
    <3>3. \A j \in 1..Len(s[i].rules) : s[i].rules[j] \in V
      BY <3>1, <3>2
    <3> HIDE DEF V, ss
    <3> QED
      BY <3>1, <3>2, <3>3, ListOf
  <2>2. CASE s[i].kind # "style"
    <3>1. ss[i] = << >>
      BY <1>1, <2>2
    <3> HIDE DEF ss, V
    <3> QED
      BY <3>1
  <2> QED
    BY <2>1, <2>2
<1>5. ss = [i \in 1..N |-> ss[i]]
  BY <1>1
<1>6. Sheet(s) = FlattenSeq(ss)
  BY DEF Sheet
<1> HIDE DEF ss, V
<1>7. IsList(ss) /\ Len(ss) = N
  <2> HIDE DEF N
  <2> QED
    BY <1>1, <1>5, ListOfFunction
<1>8. Sheet(s) \in Seq(V)
  BY <1>4, <1>6, <1>7, FlattenSeqOf
<1> QED
  BY <1>3, <1>8, SeqIsList, ElementOfSeq

LEMMA RulesOK ==
    ASSUME NEW sheet, IsList(sheet), \A i \in 1..Len(sheet) : AreDeclarations(sheet[i].raw)
    PROVE  AreRules(Rules(sheet))
<1> DEFINE I == {i \in 1..Len(sheet) : SelectInSeq(sheet[i].raw, Bad) # 0}
           first == IF I # {} THEN Min(I) ELSE 0
           good == IF first = 0 THEN sheet ELSE SubSeq(sheet, 1, first - 1)
           rules == [i \in DOMAIN good |->
                       [kind |-> good[i].kind, name |-> good[i].name, decls |-> Declarations(good[i].raw)]]
<1>1. Rules(sheet) = rules
  BY DEF Rules, SelectInSeq
<1>2. I \subseteq 1..Len(sheet)
  OBVIOUS
<1> HIDE DEF I
<1>3. /\ IsList(good) /\ Len(good) <= Len(sheet)
      /\ \A i \in 1..Len(good) : i \in 1..Len(sheet) /\ good[i] = sheet[i]
  <2>1. I \subseteq Nat
    BY <1>2
  <2>2. I # {} => Min(I) \in I
    BY <2>1, MinNat
  <2>3. I # {} => first = Min(I) /\ first # 0
    BY <1>2, <2>2
  <2>4. (I = {} => good = sheet) /\ (I # {} => good = SubSeq(sheet, 1, Min(I) - 1))
    BY <2>3
  <2> HIDE DEF first, good
  <2> QED
    BY <1>2, <2>4, ListUntil
<1> HIDE DEF first, good
<1>4. Len(good) \in Nat /\ DOMAIN good = 1..Len(good)
  BY <1>3, ListIsSeq
<1>5. rules = [i \in 1..Len(good) |-> rules[i]]
  BY <1>4
<1>6. \A i \in 1..Len(good) : Declared(rules[i].decls)
  <2> SUFFICES ASSUME NEW i \in 1..Len(good)
               PROVE  Declared(rules[i].decls)
    OBVIOUS
  <2>1. rules[i].decls = Declarations(sheet[i].raw)
    BY <1>3, <1>4
  <2> QED
    BY <1>3, <2>1, DeclarationsOK
<1> HIDE DEF rules
<1>7. IsList(rules) /\ Len(rules) = Len(good)
  BY <1>4, <1>5, ListOfFunction
<1> QED
  BY <1>1, <1>6, <1>7 DEF AreRules

\* The declarations of the rules that match.
LEMMA MatchingOK ==
    ASSUME NEW rules, AreRules(rules), NEW kind, NEW names
    PROVE  Declared(Matching(rules, kind, names))
<1> DEFINE N == Len(rules)
           V == {d \in UNION {{rules[i].decls[j] : j \in 1..Len(rules[i].decls)} : i \in 1..N} : Numbered(d)}
           ss == [i \in DOMAIN rules |->
                    IF rules[i].kind = kind /\ rules[i].name \in names THEN rules[i].decls ELSE << >>]
<1>1. N \in Nat /\ DOMAIN rules = 1..N
  BY ListIsSeq DEF AreRules
<1>2. ASSUME NEW i \in 1..N
      PROVE  ss[i] \in Seq(V)
  <2>1. ss[i] \in {rules[i].decls, << >>}
    BY <1>1
  <2>2. Declared(rules[i].decls)
    BY DEF AreRules
  <2>3. \A j \in 1..Len(rules[i].decls) : rules[i].decls[j] \in V
    BY <2>2 DEF Declared
  <2> HIDE DEF V, ss
  <2>4. rules[i].decls \in Seq(V)
    BY <2>2, <2>3, ListOf DEF Declared
  <2>5. << >> \in Seq(V)
    OBVIOUS
  <2> QED
    BY <2>1, <2>4, <2>5
<1>3. ss = [i \in 1..N |-> ss[i]]
  BY <1>1
<1>4. Matching(rules, kind, names) = FlattenSeq(ss)
  BY DEF Matching
<1>5. \A d \in V : Numbered(d)
  OBVIOUS
<1> HIDE DEF ss, V
<1>6. IsList(ss) /\ Len(ss) = N
  <2> HIDE DEF N
  <2> QED
    BY <1>1, <1>3, ListOfFunction
<1>7. Matching(rules, kind, names) \in Seq(V)
  BY <1>2, <1>4, <1>6, FlattenSeqOf
<1> QED
  BY <1>5, <1>7, SeqIsList, ElementOfSeq DEF Declared

\* Two lists of declarations are one.
LEMMA DeclaredJoined ==
    ASSUME NEW a, Declared(a), NEW b, Declared(b)
    PROVE  Declared(a \o b)
<1> DEFINE V == {d \in {a[i] : i \in 1..Len(a)} \cup {b[i] : i \in 1..Len(b)} : Numbered(d)}
<1>1. (\A i \in 1..Len(a) : a[i] \in V) /\ (\A i \in 1..Len(b) : b[i] \in V)
  BY DEF Declared
<1>2. \A d \in V : Numbered(d)
  OBVIOUS
<1> HIDE DEF V
<1>3. a \in Seq(V) /\ b \in Seq(V)
  BY <1>1, ListOf DEF Declared
<1>4. a \o b \in Seq(V)
  BY <1>3, ConcatProperties
<1> QED
  BY <1>2, <1>4, SeqIsList, ElementOfSeq DEF Declared

\* The style is the fold of the declarations.
AppliedOp(style, d) == Applied(style, d)
Applying == INSTANCE Folding WITH Op <- AppliedOp

LEMMA AppliedSteps ==
    ASSUME NEW base, NEW s, NEW N \in Nat, DOMAIN s = 1..N
    PROVE  \E f : Applying!Steps(f, base, s, N) /\ FoldLeft(Applied, base, s) = f[N]
<1> DEFINE IsFold(F) == F = [t \in SUBSET DOMAIN s |->
                               IF t = {} THEN base ELSE Applied(F[t \ {Max(t)}], s[Max(t)])]
           fold == CHOOSE F : IsFold(F)
<1>1. \A F : IsFold(F) <=> Applying!Rule(F, base, s, N)
  <2>1. \A t : Applying!Max(t) = Max(t)
    BY DEF Max, Applying!Max
  <2> QED
    BY <2>1 DEF Applying!Rule, AppliedOp
<1>2. IsFold(fold)
  BY <1>1, Applying!FoldExists
<1>3. FoldLeft(Applied, base, s) = fold[DOMAIN s]
  BY DEF FoldLeft, MapThenFoldSet
<1> HIDE DEF fold, IsFold
<1> QED
  BY <1>1, <1>2, <1>3, Applying!FoldSteps

\* All declarations for a node, in the order in which apply_styles applies them.
AllDeclarations(rules, node) ==
    Matching(rules, "tag", {node.tag})
       \o Matching(rules, "class", node.attrs.class)
       \o Matching(rules, "id", {node.attrs.id})
       \o Declarations(node.attrs.style)

LEMMA StyledSteps ==
    ASSUME NEW rules, AreRules(rules), NEW node, AreDeclarations(node.attrs.style)
    PROVE  LET ds == AllDeclarations(rules, node)
           IN  /\ Declared(ds)
               /\ \E f : Applying!Steps(f, DefaultStyle, ds, Len(ds)) /\ Styled(rules, node) = f[Len(ds)]
<1> DEFINE ds == AllDeclarations(rules, node)
<1>1. Declared(ds)
  BY MatchingOK, DeclarationsOK, DeclaredJoined DEF AllDeclarations
<1>2. Styled(rules, node) = FoldLeft(Applied, DefaultStyle, ds)
  BY Zenon DEF Styled, AllDeclarations
<1> HIDE DEF ds
<1>3. Len(ds) \in Nat /\ DOMAIN ds = 1..Len(ds)
  BY <1>1, ListIsSeq DEF Declared
<1>4. \E f : Applying!Steps(f, DefaultStyle, ds, Len(ds)) /\ FoldLeft(Applied, DefaultStyle, ds) = f[Len(ds)]
  BY <1>3, AppliedSteps
<1> QED
  BY <1>1, <1>2, <1>4 DEF ds

\* The z-index of a node is a number.
LEMMA StyledLevel ==
    ASSUME NEW rules, AreRules(rules), NEW node, AreDeclarations(node.attrs.style)
    PROVE  Styled(rules, node).z \in Int
<1> DEFINE ds == AllDeclarations(rules, node)
           N == Len(ds)
<1>1. Declared(ds)
  BY StyledSteps
<1>2. PICK f : Applying!Steps(f, DefaultStyle, ds, N) /\ Styled(rules, node) = f[N]
  BY StyledSteps
<1> HIDE DEF ds
<1>3. N \in Nat
  BY <1>1 DEF Declared, IsList
<1> DEFINE T == {n \in 0..N : "z" \in DOMAIN f[n] /\ f[n].z \in Int}
<1>4. 0 \in T
  BY <1>2, <1>3 DEF Applying!Steps, DefaultStyle
<1>5. ASSUME NEW n \in 1..N, n - 1 \in T
      PROVE  n \in T
  <2> DEFINE a == f[n - 1]
             d == ds[n]
             r == f[n]
  <2>1. r = Applied(a, d)
    BY <1>2 DEF Applying!Steps, AppliedOp
  <2>2. "z" \in DOMAIN a /\ a.z \in Int /\ Numbered(d)
    BY <1>1, <1>5 DEF Declared
  <2> HIDE DEF a, d, r
  <2>3. "z" \in DOMAIN r /\ r.z \in Int
    BY <2>1, <2>2 DEF Applied, Numbered, Numeric
  <2> QED
    BY <2>3, <1>3 DEF r
<1> HIDE DEF T, N
<1>6. 0..N \subseteq T
  BY <1>3, <1>4, <1>5, UpTo
<1> QED
  BY <1>2, <1>3, <1>6 DEF T

\* The document of a page that is loaded.
LEMMA LoadedDocument ==
    ASSUME NEW s, IsSource(s), Document(s).ok
    PROVE  IsDocument(Document(s).nodes)
<1> DEFINE bare == Parsed(s).nodes
           rules == Rules(Sheet(s))
           nodes == Document(s).nodes
<1>1. nodes = Styles(bare, rules)
  BY DEF Document
<1>2. \A n \in DOMAIN nodes : Valid(nodes[n])
  BY DEF Document
<1>3. IsTree(bare) /\ \A n \in 1..Len(bare) : AreDeclarations(bare[n].attrs.style)
  BY ParsedTree
<1>4. AreRules(rules)
  BY SheetOK, RulesOK
<1> HIDE DEF nodes, bare, rules
<1>5. IsTree(nodes)
  BY <1>1, <1>3, StylesTree
<1>6. DOMAIN nodes = 1..Len(nodes) /\ DOMAIN bare = 1..Len(bare) /\ DOMAIN nodes = DOMAIN bare
  BY <1>1, <1>3, <1>5, ListIsSeq DEF IsTree, Styles
<1>7. \A n \in DOMAIN nodes : nodes[n].style = Styled(rules, bare[n])
  BY <1>1, <1>6 DEF Styles
<1>8. \A n \in DOMAIN nodes : nodes[n].style.z \in Int
  BY <1>3, <1>4, <1>6, <1>7, StyledLevel
<1>9. IsDocument(nodes)
  BY <1>2, <1>5, <1>6, <1>8 DEF IsDocument
<1> QED
  BY <1>9 DEF nodes

\* The document that a session begins with.
LEMMA FirstDocument == IsDocument(Styles(<< Root >>, << >>))
<1> DEFINE nodes == Styles(<< Root >>, << >>)
<1>1. IsList(<< Root >>) /\ Len(<< Root >>) = 1 /\ << Root >>[1] = Root /\ DOMAIN << Root >> = {1}
  BY DEF IsList
<1>2. Root.parent = 0 /\ Unconditional(Root.attrs) /\ Root.tag = "screen"
      /\ AreDeclarations(Root.attrs.style)
  <2>1. NoAttrs.show = ""
    BY Zenon DEF NoAttrs
  <2> QED
    BY <2>1, NoDeclarations DEF Root, Node, Unconditional, HasDeclarations
<1>3. IsTree(<< Root >>)
  BY <1>1, <1>2 DEF IsTree
<1>4. IsTree(nodes)
  BY <1>3, StylesTree
<1>5. /\ DOMAIN nodes = {1} /\ nodes[1].tag = "screen"
      /\ nodes[1].style = Styled(<< >>, Root)
  BY <1>1, <1>2 DEF Styles
<1>6. DOMAIN nodes = 1..Len(nodes)
  BY <1>4, ListIsSeq DEF IsTree
<1>7. AreRules(<< >>)
  BY DEF AreRules, IsList
<1>8. nodes[1].style.z \in Int
  BY <1>2, <1>5, <1>7, StyledLevel
<1> HIDE DEF nodes
<1>9. \A n \in 1..Len(nodes) : Valid(nodes[n]) /\ nodes[n].style.z \in Int
  BY <1>5, <1>6, <1>8 DEF Valid
<1>10. IsDocument(nodes)
  BY <1>4, <1>9 DEF IsDocument
<1> QED
  BY <1>10 DEF nodes

-----------------------------------------------------------------------------
(* Boxes *)

\* What is shown is shown with its parent, and the root always is.
LEMMA ShownOK ==
    ASSUME NEW nodes, IsTree(nodes), NEW b
    PROVE  /\ Shown(nodes, b) \subseteq DOMAIN nodes
           /\ 1 \in Shown(nodes, b)
           /\ \A n \in Shown(nodes, b) : n # 1 => nodes[n].parent \in Shown(nodes, b)
<1> DEFINE N == Len(nodes)
           S == 1..N
           Sees(n) == Evaluates(nodes[n].attrs.show, b)
           Value(n, g) == Sees(n) /\ (n = 1 \/ g[nodes[n].parent])
           G == [n \in S |-> [g \in [S -> BOOLEAN] |-> Value(n, g)]]
           m == [n \in S |-> n]
           IsShown(F) == F = [n \in DOMAIN nodes |-> Value(n, F)]
           shown == CHOOSE F : IsShown(F)
<1>1. N \in Nat /\ N >= 1 /\ DOMAIN nodes = 1..N
  BY ListIsSeq DEF IsTree
<1>2. \A n \in S : n # 1 => nodes[n].parent \in S /\ nodes[n].parent < n
  BY <1>1 DEF IsTree
<1>3. Bounded(m, S)
  BY <1>1 DEF Bounded
<1>4. Defines(G, m, S, BOOLEAN)
  <2>1. ASSUME NEW n \in S, NEW g \in [S -> BOOLEAN]
        PROVE  G[n][g] \in BOOLEAN
    BY DEF Evaluates
  <2>2. ASSUME NEW n \in S, NEW g \in [S -> BOOLEAN], NEW h \in [S -> BOOLEAN],
               \A j \in S : m[j] < m[n] => g[j] = h[j]
        PROVE  G[n][g] = G[n][h]
    <3>1. CASE n = 1
      BY <3>1
    <3>2. CASE n # 1
      <4>1. g[nodes[n].parent] = h[nodes[n].parent]
        BY <1>2, <2>2, <3>2
      <4>2. G[n][g] = (Sees(n) /\ g[nodes[n].parent]) /\ G[n][h] = (Sees(n) /\ h[nodes[n].parent])
        BY <3>2
      <4> QED
        BY <4>1, <4>2
    <3> QED
      BY <3>1, <3>2
  <2> HIDE DEF G, m, S
  <2> QED
    BY <2>1, <2>2 DEF Defines
<1>5. \E F : IsShown(F)
  <2>1. PICK f \in [S -> BOOLEAN] : \A n \in S : f[n] = G[n][f]
    <3> HIDE DEF G, m, S
    <3>1. BOOLEAN # {}
      OBVIOUS
    <3>2. Solvable(G, S, BOOLEAN)
      BY <1>3, <1>4, <3>1, Recursion
    <3> QED
      BY <3>2 DEF Solvable
  <2>2. \A n \in S : f[n] = Value(n, f)
    BY <2>1
  <2>3. IsShown(f)
    <3> HIDE DEF Value
    <3> QED
      BY <2>1, <2>2, <1>1
  <2> QED
    BY <2>3
<1>6. IsShown(shown)
  <2> HIDE DEF IsShown
  <2> QED
    BY <1>5
<1>7. Shown(nodes, b) = {n \in DOMAIN nodes : shown[n]}
  BY DEF Shown
<1> HIDE DEF shown
<1>8. \A n \in S : shown[n] = Value(n, shown)
  BY <1>1, <1>6
<1>9. Sees(1)
  <2>1. nodes[1].attrs.show = ""
    BY DEF IsTree, Unconditional
  <2> QED
    BY <2>1 DEF Evaluates
<1>10. shown[1]
  <2>1. 1 \in S /\ shown[1] = Value(1, shown)
    BY <1>1, <1>8
  <2> QED
    BY <2>1, <1>9
<1>11. ASSUME NEW n \in S, shown[n], n # 1
       PROVE  shown[nodes[n].parent]
  <2>1. Value(n, shown)
    BY <1>8, <1>11
  <2> QED
    BY <2>1, <1>11
<1> HIDE DEF Sees, G, m, IsShown
<1> QED
  BY <1>1, <1>2, <1>7, <1>10, <1>11

Places == [x : Nat, y : Nat, w : Nat, h : Nat]

\* Every rectangle has its place in natural numbers, whatever Taffy says.
LEMMA RectsOK ==
    ASSUME NEW nodes, IsTree(nodes), NEW local,
           DOMAIN local \subseteq 1..Len(nodes),
           \A n \in DOMAIN local : n # 1 => nodes[n].parent \in DOMAIN local
    PROVE  Rects(nodes, local) \in [DOMAIN local -> Places]
<1> DEFINE N == Len(nodes)
           S == DOMAIN local
           fixed(n) == n = 1 \/ nodes[n].style.position = "fixed"
           X(n) == Clamped(local[n].x)
           Y(n) == Clamped(local[n].y)
           W(n) == Clamped(local[n].w)
           H(n) == Clamped(local[n].h)
           Value(n, g) == [x |-> X(n) + IF fixed(n) THEN 0 ELSE g[nodes[n].parent].x,
                           y |-> Y(n) + IF fixed(n) THEN 0 ELSE g[nodes[n].parent].y,
                           w |-> W(n), h |-> H(n)]
           G == [n \in S |-> [g \in [S -> Places] |-> Value(n, g)]]
           m == [n \in S |-> n]
           IsRects(F) == F = [n \in DOMAIN local |-> Value(n, F)]
           rects == CHOOSE F : IsRects(F)
<1>1. N \in Nat
  BY ListIsSeq DEF IsTree
<1>2. \A n \in S : n # 1 => nodes[n].parent \in S /\ nodes[n].parent < n
  BY DEF IsTree
<1>3. Bounded(m, S)
  <2>1. m \in [S -> 0..N]
    BY <1>1
  <2> QED
    BY <1>1, <2>1 DEF Bounded
<1>4. \A n \in S : X(n) \in Nat /\ Y(n) \in Nat /\ W(n) \in Nat /\ H(n) \in Nat
  BY DEF Clamped
<1> HIDE DEF X, Y, W, H
<1>5. ASSUME NEW n \in S, NEW g \in [S -> Places]
      PROVE  Value(n, g) \in Places
  <2>1. ~fixed(n) => g[nodes[n].parent] \in Places
    BY <1>2
  <2>2. ~fixed(n) => g[nodes[n].parent].x \in Nat /\ g[nodes[n].parent].y \in Nat
    BY <2>1 DEF Places
  <2>3. Value(n, g).x \in Nat /\ Value(n, g).y \in Nat
    <3> HIDE DEF fixed
    <3>1. CASE fixed(n)
      BY <1>4, <3>1
    <3>2. CASE ~fixed(n)
      <4> DEFINE p == g[nodes[n].parent]
      <4>1. p.x \in Nat /\ p.y \in Nat
        BY <2>2, <3>2
      <4>2. Value(n, g).x = X(n) + p.x /\ Value(n, g).y = Y(n) + p.y
        BY <3>2
      <4> HIDE DEF p, Value
      <4> QED
        BY <1>4, <4>1, <4>2
    <3> QED
      BY <3>1, <3>2
  <2> QED
    BY <1>4, <2>3 DEF Places
<1>6. ASSUME NEW n \in S, NEW g \in [S -> Places], NEW h \in [S -> Places],
             \A j \in S : m[j] < m[n] => g[j] = h[j]
      PROVE  Value(n, g) = Value(n, h)
  <2>1. ~fixed(n) => g[nodes[n].parent] = h[nodes[n].parent]
    BY <1>2, <1>6
  <2> HIDE DEF fixed
  <2> QED
    BY <2>1
<1>7. \A n \in S : \A g \in [S -> Places] : G[n][g] = Value(n, g)
  OBVIOUS
<1> HIDE DEF Value, G
<1>8. Defines(G, m, S, Places)
  <2> HIDE DEF m, S
  <2> QED
    BY <1>5, <1>6, <1>7 DEF Defines
<1>9. PICK f \in [S -> Places] : \A n \in S : f[n] = Value(n, f)
  <2>1. Places # {}
    <3>1. [x |-> 0, y |-> 0, w |-> 0, h |-> 0] \in Places
      BY DEF Places
    <3> QED
      BY <3>1
  <2>2. Solvable(G, S, Places)
    <3> HIDE DEF m, S
    <3> QED
      BY <1>3, <1>8, <2>1, Recursion
  <2>3. PICK f \in [S -> Places] : \A n \in S : f[n] = G[n][f]
    BY <2>2 DEF Solvable
  <2>4. \A n \in S : f[n] = Value(n, f)
    BY <1>7, <2>3
  <2> QED
    BY <2>4
<1>10. IsRects(f)
  BY <1>9
<1>11. IsRects(rects)
  <2> HIDE DEF IsRects
  <2> QED
    BY <1>10
<1>12. Rects(nodes, local) = rects
  BY DEF Rects, Value, X, Y, W, H
<1> HIDE DEF rects
<1>13. \A n \in S : rects[n] = Value(n, rects)
  BY <1>11
<1>14. rects = [n \in S |-> rects[n]]
  BY <1>11
<1>15. \A n \in S : rects[n] \in Places
  <2> DEFINE V == Places
  <2>1. m \in [S -> Nat]
    BY <1>1
  <2>2. ASSUME NEW n \in S, \A j \in S : m[j] < m[n] => rects[j] \in Places
        PROVE  rects[n] \in Places
    <3>1. n # 1 => rects[nodes[n].parent] \in Places
      BY <1>2, <2>2
    <3>2. ~fixed(n) => rects[nodes[n].parent].x \in Nat /\ rects[nodes[n].parent].y \in Nat
      BY <3>1 DEF Places
    <3>3. Value(n, rects).x \in Nat /\ Value(n, rects).y \in Nat
      <4> HIDE DEF fixed
      <4>1. CASE fixed(n)
        BY <1>4, <4>1 DEF Value
      <4>2. CASE ~fixed(n)
        BY <1>4, <3>2, <4>2 DEF Value
      <4> QED
        BY <4>1, <4>2
    <3>4. Value(n, rects) \in Places
      BY <1>4, <3>3 DEF Places, Value
    <3> QED
      BY <1>13, <3>4
  <2> HIDE DEF m, S
  <2> QED
    BY <2>1, <2>2, TypedByMeasure
<1> QED
  BY <1>12, <1>14, <1>15

\* The order of siblings.
Below(z, a, b) == z[a] < z[b] \/ (z[a] = z[b] /\ a < b)

InOrder(s, z, n) == \A i, j \in 1..n : i < j => Below(z, s[i], s[j])

\* Some node is painted last of any,
LEMMA Uppermost ==
    ASSUME NEW S, IsFiniteSet(S), S \subseteq Int, S # {}, NEW z \in [S -> Int]
    PROVE  \E m \in S : \A k \in S : k # m => Below(z, k, m)
<1> DEFINE Z == {z[k] : k \in S}
           T == {k \in S : z[k] = Max(Z)}
<1>1. IsFiniteSet(Z) /\ Z # {}
  BY ImageFinite
<1>2. Z \subseteq Int
  OBVIOUS
<1>3. Max(Z) \in Z /\ \A y \in Z : Max(Z) >= y
  <2> HIDE DEF Z
  <2> QED
    BY <1>1, <1>2, MaxInt
<1>4. T # {} /\ T \subseteq Int /\ T \subseteq S
  BY <1>3
<1>5. IsFiniteSet(T)
  BY <1>4, FS_Subset
<1>6. Max(T) \in T /\ \A y \in T : Max(T) >= y
  <2> HIDE DEF T
  <2> QED
    BY <1>4, <1>5, MaxInt
<1>7. ASSUME NEW k \in S, k # Max(T)
      PROVE  Below(z, k, Max(T))
  <2> DEFINE m == Max(T)
  <2>1. m \in S /\ z[m] = Max(Z) /\ z[k] <= z[m] /\ (k \in T => k <= m)
    BY <1>2, <1>3, <1>4, <1>6
  <2>2. z[k] \in Int /\ z[m] \in Int /\ k \in Int /\ m \in Int
    BY <2>1
  <2>3. z[k] = z[m] => k \in T
    BY <2>1
  <2> HIDE DEF m, T, Z
  <2>4. Below(z, k, m)
    BY <1>7, <2>1, <2>2, <2>3 DEF Below, m
  <2> QED
    BY <2>4 DEF m
<1> QED
  BY <1>4, <1>6, <1>7

\* and so they can be put in order.
LEMMA OrderExists ==
    ASSUME NEW S, IsFiniteSet(S), S \subseteq Int, NEW z \in [S -> Int]
    PROVE  \E s \in [1..Cardinality(S) -> S] : InOrder(s, z, Cardinality(S))
<1> DEFINE Ordered(U) == \E s \in [1..Cardinality(U) -> U] : InOrder(s, z, Cardinality(U))
           M == [U \in SUBSET S |-> Cardinality(U)]
           Worse == {U \in SUBSET S : ~Ordered(U)}
<1>1. \A U \in SUBSET S : IsFiniteSet(U) /\ Cardinality(U) \in Nat
  BY FS_Subset, FS_CardinalityType
<1>2. SUFFICES ASSUME Worse # {}
               PROVE  FALSE
  <2>1. Worse = {} => Ordered(S)
    OBVIOUS
  <2> QED
    BY <2>1
<1>3. PICK U \in Worse : \A V \in SUBSET S : M[V] < M[U] => V \notin Worse
  <2>1. M \in [SUBSET S -> Nat] /\ Worse \subseteq SUBSET S
    BY <1>1
  <2> HIDE DEF M, Worse
  <2> QED
    BY <1>2, <2>1, LeastMeasure
<1>4. U \in SUBSET S /\ ~Ordered(U)
  OBVIOUS
<1>5. U # {}
  <2>1. ASSUME U = {}
        PROVE  Ordered({})
    <3>1. Cardinality({}) = 0
      BY FS_EmptySet
    <3>2. << >> \in [1..0 -> {}] /\ InOrder(<< >>, z, 0)
      BY DEF InOrder
    <3> QED
      BY <3>1, <3>2
  <2> HIDE DEF Ordered
  <2> QED
    BY <1>4, <2>1
<1>6. PICK m \in U : \A k \in U : k # m => Below(z, k, m)
  <2>1. IsFiniteSet(U) /\ U \subseteq Int
    BY <1>1, <1>4
  <2> DEFINE y == [k \in U |-> z[k]]
  <2>2. y \in [U -> Int] /\ \A k \in U : y[k] = z[k]
    BY <1>4
  <2> HIDE DEF y
  <2>3. PICK m \in U : \A k \in U : k # m => Below(y, k, m)
    BY <1>5, <2>1, <2>2, Uppermost
  <2> QED
    BY <2>2, <2>3 DEF Below
<1> DEFINE V == U \ {m}
           n == Cardinality(U)
<1>7. Cardinality(V) = n - 1 /\ n \in Nat /\ n >= 1 /\ V \in SUBSET S
  <2>1. IsFiniteSet(U)
    BY <1>1, <1>4
  <2>2. Cardinality(V) = Cardinality(U) - 1
    BY <2>1, FS_RemoveElement
  <2>3. Cardinality(V) \in Nat /\ Cardinality(U) \in Nat /\ V \in SUBSET S
    BY <1>1, <1>4
  <2> QED
    BY <2>2, <2>3
<1>8. Ordered(V)
  <2>1. M[V] < M[U]
    BY <1>4, <1>7
  <2> HIDE DEF V, M, Ordered
  <2> QED
    BY <1>3, <1>7, <2>1
<1>9. PICK s \in [1..(n - 1) -> V] : InOrder(s, z, n - 1)
  <2> HIDE DEF V, n
  <2> QED
    BY <1>7, <1>8
<1> DEFINE t == [i \in 1..n |-> IF i = n THEN m ELSE s[i]]
<1>10. t \in [1..n -> U]
  <2>1. \A i \in 1..n : i # n => i \in 1..(n - 1)
    BY <1>7
  <2> HIDE DEF n
  <2> QED
    BY <2>1
<1>11. ASSUME NEW i \in 1..n, NEW j \in 1..n, i < j
       PROVE  Below(z, t[i], t[j])
  <2>1. i # n /\ i \in 1..(n - 1) /\ (j # n => j \in 1..(n - 1))
    BY <1>7, <1>11
  <2> HIDE DEF n
  <2>2. t[i] = s[i] /\ s[i] \in V
    BY <2>1
  <2>3. CASE j = n
    BY <1>6, <2>2, <2>3
  <2>4. CASE j # n
    <3>1. t[j] = s[j]
      BY <2>4
    <3> QED
      BY <1>9, <1>11, <2>1, <2>2, <2>4, <3>1 DEF InOrder
  <2> QED
    BY <2>3, <2>4
<1>12. Ordered(U)
  <2> HIDE DEF t
  <2>1. InOrder(t, z, n)
    BY <1>11 DEF InOrder
  <2> QED
    BY <1>10, <2>1
<1> QED
  BY <1>4, <1>12

\* All that is shown is painted in some order.
LEMMA PaintOrderOK ==
    ASSUME NEW nodes, IsTree(nodes), NEW shown, shown \subseteq 1..Len(nodes), 1 \in shown,
           \A n \in shown : nodes[n].style.z \in Int
    PROVE  PaintOrder(nodes, shown) \in Seq(shown)
<1> DEFINE N == Len(nodes)
           T == Seq(shown)
           m == [n \in shown |-> N - n]
           Kids(n) == {k \in shown : nodes[k].parent = n}
           z(n) == nodes[n].style.z
           kids(n) == CHOOSE s \in [1..Cardinality(Kids(n)) -> Kids(n)] :
                         \A i, j \in 1..Cardinality(Kids(n)) :
                            i < j => z(s[i]) < z(s[j]) \/ (z(s[i]) = z(s[j]) /\ s[i] < s[j])
           Value(n, g) == << n >> \o FlattenSeq([i \in DOMAIN kids(n) |-> g[kids(n)[i]]])
           G == [n \in shown |-> [g \in [shown -> T] |-> Value(n, g)]]
           IsOrder(F) == F = [n \in shown |-> Value(n, F)]
           order == CHOOSE F : IsOrder(F)
<1>1. N \in Nat /\ shown \subseteq 1..N
  BY DEF IsTree, IsList
<1>2. Bounded(m, shown)
  <2>1. m \in [shown -> 0..N]
    BY <1>1
  <2> QED
    BY <1>1, <2>1 DEF Bounded
<1>3. ASSUME NEW n \in shown
      PROVE  \A k \in Kids(n) : k \in shown /\ m[k] < m[n]
  <2> SUFFICES ASSUME NEW k \in Kids(n)
               PROVE  k \in shown /\ m[k] < m[n]
    OBVIOUS
  <2>1. k \in shown /\ nodes[k].parent = n /\ k \in 1..N /\ n \in 1..N
    OBVIOUS
  <2> HIDE DEF Kids
  <2>2. k # 1
    BY <2>1 DEF IsTree
  <2>3. n < k
    BY <2>1, <2>2 DEF IsTree
  <2> HIDE DEF N
  <2>4. m[k] = N - k /\ m[n] = N - n
    BY <2>1
  <2> QED
    BY <1>1, <2>1, <2>3, <2>4
<1> HIDE DEF N
<1>4. ASSUME NEW n \in shown
      PROVE  \E c \in Nat : kids(n) \in [1..c -> Kids(n)]
  <2> DEFINE c == Cardinality(Kids(n))
             level == [k \in Kids(n) |-> z(k)]
             Fits(s) == \A i, j \in 1..c :
                           i < j => z(s[i]) < z(s[j]) \/ (z(s[i]) = z(s[j]) /\ s[i] < s[j])
  <2>1. IsFiniteSet(Kids(n)) /\ c \in Nat /\ Kids(n) \subseteq Int
    <3>0. Kids(n) \subseteq 1..N
      BY <1>1
    <3>1. Kids(n) \subseteq 1..N /\ Kids(n) \subseteq Int
      BY <3>0
    <3>2. IsFiniteSet(1..N)
      BY <1>1, FS_Interval
    <3>3. IsFiniteSet(Kids(n))
      BY <3>1, <3>2, FS_Subset
    <3> HIDE DEF Kids
    <3> QED
      BY <3>1, <3>3, FS_CardinalityType
  <2>2. level \in [Kids(n) -> Int] /\ \A k \in Kids(n) : level[k] = z(k)
    OBVIOUS
  <2> HIDE DEF level, Kids
  <2>3. PICK s \in [1..c -> Kids(n)] : InOrder(s, level, c)
    BY <2>1, <2>2, OrderExists
  <2>4. Fits(s)
    BY <2>2, <2>3 DEF InOrder, Below
  <2> HIDE DEF c, Fits
  <2>5. kids(n) = CHOOSE q \in [1..c -> Kids(n)] : Fits(q)
    BY DEF c, Fits
  <2>6. kids(n) \in [1..c -> Kids(n)]
    <3> HIDE DEF kids
    <3> QED
      BY <2>4, <2>5
  <2> QED
    BY <2>1, <2>6
<1> HIDE DEF kids
<1>5. ASSUME NEW n \in shown
      PROVE  \E c \in Nat : DOMAIN kids(n) = 1..c /\ \A i \in 1..c : kids(n)[i] \in Kids(n)
  <2> HIDE DEF Kids
  <2> QED
    BY <1>4
<1>6. ASSUME NEW n \in shown, NEW g, \A k \in Kids(n) : g[k] \in T
      PROVE  Value(n, g) \in T
  <2>1. PICK c \in Nat : DOMAIN kids(n) = 1..c /\ \A i \in 1..c : kids(n)[i] \in Kids(n)
    BY <1>5
  <2> DEFINE ss == [i \in DOMAIN kids(n) |-> g[kids(n)[i]]]
  <2> HIDE DEF Kids
  <2>2. ss = [i \in 1..c |-> ss[i]] /\ \A i \in 1..c : ss[i] \in T
    BY <1>6, <2>1
  <2>3. Value(n, g) = << n >> \o FlattenSeq(ss)
    OBVIOUS
  <2> HIDE DEF ss
  <2>4. IsList(ss) /\ Len(ss) = c
    BY <2>2, ListOfFunction
  <2>5. FlattenSeq(ss) \in Seq(shown)
    BY <2>2, <2>4, FlattenSeqOf
  <2>6. << n >> \in Seq(shown)
    OBVIOUS
  <2> HIDE DEF Value
  <2> QED
    BY <2>3, <2>5, <2>6, ConcatProperties
<1>7. ASSUME NEW n \in shown, NEW g, NEW h, \A k \in Kids(n) : g[k] = h[k]
      PROVE  Value(n, g) = Value(n, h)
  <2>1. PICK c \in Nat : DOMAIN kids(n) = 1..c /\ \A i \in 1..c : kids(n)[i] \in Kids(n)
    BY <1>5
  <2> HIDE DEF Kids
  <2>2. [i \in DOMAIN kids(n) |-> g[kids(n)[i]]] = [i \in DOMAIN kids(n) |-> h[kids(n)[i]]]
    BY <1>7, <2>1
  <2> QED
    BY <2>2
<1>8. \A n \in shown : \A g \in [shown -> T] : G[n][g] = Value(n, g)
  OBVIOUS
<1> HIDE DEF Value, G
<1>9. Defines(G, m, shown, T)
  <2>1. ASSUME NEW n \in shown, NEW g \in [shown -> T]
        PROVE  G[n][g] \in T
    <3>1. \A k \in Kids(n) : g[k] \in T
      BY <1>3
    <3> QED
      BY <1>6, <1>8, <3>1
  <2>2. ASSUME NEW n \in shown, NEW g \in [shown -> T], NEW h \in [shown -> T],
               \A j \in shown : m[j] < m[n] => g[j] = h[j]
        PROVE  G[n][g] = G[n][h]
    <3>1. \A k \in Kids(n) : g[k] = h[k]
      BY <1>3, <2>2
    <3>2. Value(n, g) = Value(n, h)
      BY <1>7, <3>1
    <3> HIDE DEF T
    <3> QED
      BY <1>8, <3>2
  <2> HIDE DEF m, T, Kids
  <2> QED
    BY <2>1, <2>2 DEF Defines
<1>10. PICK f \in [shown -> T] : \A n \in shown : f[n] = Value(n, f)
  <2>1. << >> \in T
    OBVIOUS
  <2>2. Solvable(G, shown, T)
    <3> HIDE DEF m, T
    <3> QED
      BY <1>2, <1>9, <2>1, Recursion
  <2> HIDE DEF T
  <2>3. PICK f \in [shown -> T] : \A n \in shown : f[n] = G[n][f]
    BY <2>2 DEF Solvable
  <2>4. \A n \in shown : f[n] = Value(n, f)
    BY <1>8, <2>3
  <2> QED
    BY <2>4
<1>11. IsOrder(order)
  <2>1. IsOrder(f)
    BY <1>10
  <2> HIDE DEF IsOrder
  <2> QED
    BY <2>1
<1>12. PaintOrder(nodes, shown) = order[1]
  BY DEF PaintOrder, Sorted, Value, kids
<1> HIDE DEF order
<1>13. \A n \in shown : order[n] = Value(n, order)
  BY <1>11
<1>14. \A n \in shown : order[n] \in T
  <2>1. m \in [shown -> Nat]
    BY <1>1
  <2>2. ASSUME NEW n \in shown, \A j \in shown : m[j] < m[n] => order[j] \in T
        PROVE  order[n] \in T
    <3>1. \A k \in Kids(n) : order[k] \in T
      BY <1>3, <2>2
    <3>2. Value(n, order) \in T
      BY <1>6, <3>1
    <3> QED
      BY <1>13, <3>2
  <2> DEFINE S == shown
  <2> HIDE DEF m, T
  <2>3. m \in [S -> Nat] /\ \A n \in S : (\A j \in S : m[j] < m[n] => order[j] \in T) => order[n] \in T
    BY <2>1, <2>2
  <2> HIDE DEF S
  <2>4. \A n \in S : order[n] \in T
    BY ONLY <2>3, TypedByMeasure
  <2> QED
    BY <2>4 DEF S
<1> QED
  BY <1>12, <1>14

\* The result of the engine.
IsLayout(layout, nodes) ==
    /\ DOMAIN layout = {"rects", "order", "total"}
    /\ DOMAIN layout.rects \subseteq DOMAIN nodes
    /\ layout.rects \in [DOMAIN layout.rects -> Places]
    /\ layout.order \in Seq(DOMAIN layout.rects)
    /\ layout.total \in Nat

LEMMA ComputeOK ==
    ASSUME NEW nodes, IsDocument(nodes), NEW cols, NEW b
    PROVE  IsLayout(Compute(nodes, cols, b), nodes)
<1> DEFINE local == Flexbox(nodes, cols, b)
           rects == Rects(nodes, local)
           scrolling == {n \in DOMAIN rects \ {1} : nodes[n].style.position # "fixed"}
           ends == [n \in scrolling |-> rects[n].y + rects[n].h]
           all == {0} \cup {ends[n] : n \in scrolling}
           layout == Compute(nodes, cols, b)
<1>1. DOMAIN nodes = 1..Len(nodes) /\ Len(nodes) \in Nat /\ IsTree(nodes)
  BY ListIsSeq DEF IsDocument, IsTree
<1>2. DOMAIN local = Shown(nodes, b)
  BY DEF Flexbox
<1> HIDE DEF local
<1>3. rects \in [DOMAIN local -> Places]
  BY <1>1, <1>2, ShownOK, RectsOK
<1>4. DOMAIN rects \subseteq DOMAIN nodes
  BY <1>1, <1>2, <1>3, ShownOK
<1> HIDE DEF rects
<1>5. \A n \in scrolling : ends[n] \in Nat
  <2>1. \A n \in scrolling : rects[n] \in Places
    BY <1>3
  <2>2. \A n \in scrolling : rects[n].y \in Nat /\ rects[n].h \in Nat
    BY <2>1 DEF Places
  <2> QED
    BY <2>2
<1>6. IsFiniteSet(scrolling)
  <2>1. scrolling \subseteq 1..Len(nodes)
    BY <1>1, <1>4
  <2>2. IsFiniteSet(1..Len(nodes))
    BY <1>1, FS_Interval
  <2> QED
    BY <2>1, <2>2, FS_Subset
<1>7. {0} \cup {rects[n].y + rects[n].h : n \in scrolling} = all
  OBVIOUS
<1> HIDE DEF scrolling, ends
<1>8. IsFiniteSet(all)
  <2>1. IsFiniteSet({ends[n] : n \in scrolling})
    BY <1>6, ImageFinite
  <2>2. IsFiniteSet({0})
    BY FS_Singleton
  <2> QED
    BY <2>1, <2>2, FS_Union
<1>9. all \subseteq Nat /\ all # {}
  BY <1>5
<1>10. all \subseteq Int
  BY <1>9
<1> HIDE DEF all
<1>11. Max(all) \in Nat
  BY <1>8, <1>9, <1>10, MaxInt
<1>12. layout = [rects |-> rects, order |-> PaintOrder(nodes, DOMAIN rects), total |-> Max(all)]
  BY <1>7 DEF Compute, Layout, rects, local, scrolling
<1> HIDE DEF layout
<1>13. PaintOrder(nodes, DOMAIN rects) \in Seq(DOMAIN rects)
  <2> DEFINE shown == DOMAIN rects
  <2>1. shown \subseteq 1..Len(nodes) /\ 1 \in shown
    BY <1>1, <1>2, <1>3, ShownOK
  <2>2. \A n \in shown : nodes[n].style.z \in Int
    BY <2>1 DEF IsDocument
  <2> HIDE DEF shown
  <2>3. PaintOrder(nodes, shown) \in Seq(shown)
    BY <1>1, <2>1, <2>2, PaintOrderOK
  <2> QED
    BY <2>3 DEF shown
<1>14. IsLayout(layout, nodes)
  BY <1>3, <1>4, <1>11, <1>12, <1>13 DEF IsLayout
<1> QED
  BY <1>14 DEF layout

\* A page is centered by natural numbers.
LEMMA CenteringOK ==
    ASSUME NEW nodes, NEW layout, IsLayout(layout, nodes)
    PROVE  /\ CenteringOffset(nodes, layout, Cols, Rows)[1] \in Nat
           /\ CenteringOffset(nodes, layout, Cols, Rows)[2] \in Nat
<1> DEFINE kids == {n \in DOMAIN nodes : nodes[n].parent = 1}
           target == IF kids = {} THEN 1 ELSE Min(kids)
           w == IF target \in DOMAIN layout.rects THEN layout.rects[target].w ELSE Cols
<1>1. w \in Nat
  <2>1. CASE target \in DOMAIN layout.rects
    <3>1. layout.rects[target] \in Places
      BY <2>1 DEF IsLayout
    <3> HIDE DEF target
    <3> QED
      BY <2>1, <3>1 DEF Places
  <2>2. CASE target \notin DOMAIN layout.rects
    BY <2>2, PageAssumption
  <2> QED
    BY <2>1, <2>2
<1>2. CenteringOffset(nodes, layout, Cols, Rows)
         = << Larger(Cols - w, 0) \div 2, Larger(Rows - layout.total, 0) \div 2 >>
  BY DEF CenteringOffset
<1> HIDE DEF w
<1>3. \A v \in Int : Larger(v, 0) \div 2 \in Nat
  BY DEF Larger
<1>4. Cols - w \in Int /\ Rows - layout.total \in Int
  BY <1>1, PageAssumption DEF IsLayout
<1> QED
  BY <1>2, <1>3, <1>4

-----------------------------------------------------------------------------
(* What is painted where *)

\* A frame as the painter has it.
IsFrame(f) == DOMAIN f = {"cells", "graphics", "owner"}

\* Painting something over the cells changes the cells only,
LEMMA OverOnly ==
    ASSUME NEW f, IsFrame(f), NEW layer
    PROVE  IsFrame(Over(f, layer)) /\ Over(f, layer).owner = f.owner
BY DEF Over, IsFrame

\* and a graphic nothing but the cells and the graphics.
LEMMA GraphicOnly ==
    ASSUME NEW f, IsFrame(f), NEW src, NEW box
    PROVE  IsFrame(Graphic(f, src, box)) /\ Graphic(f, src, box).owner = f.owner
<1> DEFINE cells == [p \in Screen |-> IF p \in Within(box) THEN [f.cells[p] EXCEPT !.skip = TRUE]
                                                           ELSE f.cells[p]]
           graphics == IF box.x >= 0 /\ box.y >= 0
                         THEN Append(f.graphics, [src |-> src, box |-> box]) ELSE f.graphics
           r == Graphic(f, src, box)
<1>1. r = [f EXCEPT !.cells = cells, !.graphics = graphics]
  BY DEF Graphic, IsFrame
<1> HIDE DEF cells, graphics, r
<1>2. IsFrame(r) /\ r.owner = f.owner
  BY <1>1 DEF IsFrame
<1> QED
  BY <1>2 DEF r

\* So do pictures and diagrams.
LEMMA MediaOnly ==
    ASSUME NEW f, IsFrame(f), NEW node, NEW box, NEW p
    PROVE  /\ IsFrame(Picture(f, node, box, p)) /\ Picture(f, node, box, p).owner = f.owner
           /\ IsFrame(Diagram(f, node, box)) /\ Diagram(f, node, box).owner = f.owner
<1>1. IsFrame(Picture(f, node, box, p)) /\ Picture(f, node, box, p).owner = f.owner
  <2>1. \/ Picture(f, node, box, p) = f
        \/ \E layer : Picture(f, node, box, p) = Over(f, layer)
        \/ \E src : Picture(f, node, box, p) = Graphic(f, src, box)
    BY Zenon DEF Picture
  <2> QED
    BY <2>1, OverOnly, GraphicOnly
<1>2. IsFrame(Diagram(f, node, box)) /\ Diagram(f, node, box).owner = f.owner
  <2>1. Diagram(f, node, box) = f \/ \E layer : Diagram(f, node, box) = Over(f, layer)
    BY Zenon DEF Diagram
  <2> QED
    BY <2>1, OverOnly
<1> QED
  BY <1>1, <1>2

LEMMA FilledOnly ==
    ASSUME NEW f, IsFrame(f), NEW node, NEW box, NEW fg, NEW bg, NEW p
    PROVE  IsFrame(Filled(f, node, box, fg, bg, p)) /\ Filled(f, node, box, fg, bg, p).owner = f.owner
<1> DEFINE r == Filled(f, node, box, fg, bg, p)
<1>1. \/ \E layer : r = Over(f, layer)
      \/ r = Picture(f, node, box, p)
      \/ r = Diagram(f, node, box)
      \/ r = f
  BY DEF Filled, HasText
<1> QED
  BY <1>1, OverOnly, MediaOnly

\* A node is the owner of its box, and of nothing else.
LEMMA PaintedOwner ==
    ASSUME NEW f, IsFrame(f), DOMAIN f.owner = Screen, NEW n, NEW node, NEW rect,
           NEW fg, NEW bg, NEW mode
    PROVE  LET r == Painted(f, n, node, rect, fg, bg, mode)
           IN  /\ IsFrame(r) /\ DOMAIN r.owner = Screen
               /\ \A q \in Screen \cap Within(rect) : r.owner[q] = n
               /\ \A q \in Screen \ Within(rect) : r.owner[q] = f.owner[q]
<1> DEFINE box == Content(node, rect)
           borderFg == IF node.style.border.fg = "reset" THEN fg ELSE node.style.border.fg
           edge == IF node.style.border.on THEN Border(node, rect, borderFg, bg) ELSE << >>
           ground == [p \in Within(rect) |-> Cell(Space, fg, bg)]
           over == Over(f, Atop(edge, ground))
           owner == [p \in Screen |-> IF p \in Within(rect) THEN n ELSE over.owner[p]]
           base == [over EXCEPT !.owner = owner]
           r == Painted(f, n, node, rect, fg, bg, mode)
<1>1. IsFrame(over) /\ over.owner = f.owner
  BY OverOnly
<1>2. r = Filled(base, node, box, fg, bg, mode)
  BY Zenon DEF Painted
<1> HIDE DEF box, edge, ground, over, r
<1>3. IsFrame(base) /\ base.owner = owner
  <2> HIDE DEF owner
  <2> QED
    BY <1>1 DEF IsFrame
<1> HIDE DEF base
<1>4. IsFrame(r) /\ r.owner = owner
  BY <1>2, <1>3, FilledOnly
<1>5. /\ DOMAIN owner = Screen
      /\ \A q \in Screen \cap Within(rect) : owner[q] = n
      /\ \A q \in Screen \ Within(rect) : owner[q] = f.owner[q]
  BY <1>1
<1> QED
  BY <1>4, <1>5 DEF r

\* What the painter does with a node, as one operation on the frame.
DrawOp(f, e) == Painted(f, e.n, e.node, e.rect, e.fg, e.bg, e.profile)
Drawing == INSTANCE Folding WITH Op <- DrawOp

NoneOwned == [cells |-> [p \in Screen |-> Cell(Space, "c15", "c0")],
              graphics |-> << >>, owner |-> [p \in Screen |-> 0]]

LEMMA DrawnSteps ==
    ASSUME NEW nodes, NEW layout, IsLayout(layout, nodes), NEW scroll, NEW profile0
    PROVE  LET order == layout.order
               offset == CenteringOffset(nodes, layout, Cols, Rows)
           IN  \E f, e :
                  /\ Drawing!Steps(f, NoneOwned, e, Len(order))
                  /\ Drawn(nodes, layout, scroll, profile0) = f[Len(order)]
                  /\ \A i \in 1..Len(order) :
                        /\ e[i].n = order[i] /\ e[i].profile = profile0
                        /\ e[i].rect = ScreenRect(nodes[order[i]], layout.rects[order[i]], offset, scroll)
<1> DEFINE order == layout.order
           N == Len(order)
           offset == CenteringOffset(nodes, layout, Cols, Rows)
           fg == Inherited(nodes, "fg", "c15")
           bg == Inherited(nodes, "bg", "c0")
           rect(n) == ScreenRect(nodes[n], layout.rects[n], offset, scroll)
           Item(n) == [n |-> n, node |-> nodes[n], rect |-> rect(n), fg |-> fg[n], bg |-> bg[n],
                       profile |-> profile0]
           e == [i \in 1..N |-> Item(order[i])]
           Op0(f, n) == Painted(f, n, nodes[n], rect(n), fg[n], bg[n], profile0)
           IsFold(F) == F = [t \in SUBSET DOMAIN order |->
                               IF t = {} THEN NoneOwned ELSE Op0(F[t \ {Max(t)}], order[Max(t)])]
           fold == CHOOSE F : IsFold(F)
<1>1. N \in Nat /\ DOMAIN order = 1..N
  BY DEF IsLayout
<1>2. Drawn(nodes, layout, scroll, profile0) = fold[DOMAIN order]
  BY DEF Drawn, FoldLeft, MapThenFoldSet, NoneOwned
<1> HIDE DEF fg, bg, rect, offset
<1>3. \A f, n : Op0(f, n) = DrawOp(f, Item(n))
  BY DEF DrawOp
<1> HIDE DEF Op0, Item
<1>4. \A F : IsFold(F) <=> Drawing!Rule(F, NoneOwned, e, N)
  <2>1. \A t : Drawing!Max(t) = Max(t)
    BY DEF Max, Drawing!Max
  <2>2. \A t \in SUBSET (1..N) : t # {} => Max(t) \in 1..N
    BY <1>1, MaxUpTo
  <2>3. \A t \in SUBSET (1..N) : t # {} => e[Max(t)] = Item(order[Max(t)])
    BY <2>2
  <2> HIDE DEF e, order, N
  <2> QED
    BY <1>1, <1>3, <2>1, <2>3 DEF Drawing!Rule
<1>5. IsFold(fold)
  BY <1>1, <1>4, Drawing!FoldExists
<1>6. \A i \in 1..N : e[i].n = order[i] /\ e[i].profile = profile0 /\ e[i].rect = rect(order[i])
  BY DEF Item
<1> HIDE DEF fold, IsFold, e, N
<1>7. \E f : Drawing!Steps(f, NoneOwned, e, N) /\ f[N] = fold[1..N]
  BY <1>1, <1>4, <1>5, Drawing!FoldSteps
<1> QED
  BY <1>1, <1>2, <1>6, <1>7 DEF rect, offset, N

\* The owner of a place: the node in the order that was painted there last.
OwnerAt(o, p, boxes, order, k) ==
    \/ o = 0 /\ \A i \in 1..k : p \notin Within(boxes[i])
    \/ \E i \in 1..k : /\ o = order[i] /\ p \in Within(boxes[i])
                       /\ \A j \in (i + 1)..k : p \notin Within(boxes[j])

LEMMA DrawnOwners ==
    ASSUME NEW nodes, NEW layout, IsLayout(layout, nodes), NEW scroll, NEW profile0
    PROVE  LET order == layout.order
               offset == CenteringOffset(nodes, layout, Cols, Rows)
               drawn == Drawn(nodes, layout, scroll, profile0)
               boxes == [i \in 1..Len(order) |->
                           ScreenRect(nodes[order[i]], layout.rects[order[i]], offset, scroll)]
           IN  /\ IsFrame(drawn) /\ DOMAIN drawn.owner = Screen
               /\ \A p \in Screen : OwnerAt(drawn.owner[p], p, boxes, order, Len(order))
<1> DEFINE order == layout.order
           N == Len(order)
           offset == CenteringOffset(nodes, layout, Cols, Rows)
           boxes == [i \in 1..N |-> ScreenRect(nodes[order[i]], layout.rects[order[i]], offset, scroll)]
<1>1. PICK f, e :
         /\ Drawing!Steps(f, NoneOwned, e, N)
         /\ Drawn(nodes, layout, scroll, profile0) = f[N]
         /\ \A i \in 1..N : e[i].n = order[i] /\ e[i].rect = boxes[i]
  BY DrawnSteps
<1>2. N \in Nat
  BY DEF IsLayout
<1> HIDE DEF order, N, offset, boxes
<1> DEFINE Owned(g, k) == /\ IsFrame(g) /\ DOMAIN g.owner = Screen
                          /\ \A p \in Screen : OwnerAt(g.owner[p], p, boxes, order, k)
           T == {k \in 0..N : Owned(f[k], k)}
<1>3. 0 \in T
  <2>1. f[0] = NoneOwned
    BY <1>1 DEF Drawing!Steps
  <2>2. IsFrame(NoneOwned) /\ DOMAIN NoneOwned.owner = Screen /\ \A p \in Screen : NoneOwned.owner[p] = 0
    BY DEF NoneOwned, IsFrame
  <2> QED
    BY <1>2, <2>1, <2>2 DEF OwnerAt
<1>4. ASSUME NEW k \in 1..N, k - 1 \in T
      PROVE  k \in T
  <2> DEFINE g == f[k - 1]
             h == f[k]
  <2>1. h = DrawOp(g, e[k])
    BY <1>1 DEF Drawing!Steps
  <2>2. e[k].n = order[k] /\ e[k].rect = boxes[k]
    BY <1>1
  <2>3. Owned(g, k - 1)
    BY <1>4
  <2> HIDE DEF g, h
  <2>4. /\ IsFrame(h) /\ DOMAIN h.owner = Screen
        /\ \A p \in Screen \cap Within(boxes[k]) : h.owner[p] = order[k]
        /\ \A p \in Screen \ Within(boxes[k]) : h.owner[p] = g.owner[p]
    BY <2>1, <2>2, <2>3, PaintedOwner DEF DrawOp
  <2>5. ASSUME NEW p \in Screen
        PROVE  OwnerAt(h.owner[p], p, boxes, order, k)
    <3>1. CASE p \in Within(boxes[k])
      BY <1>2, <2>4, <3>1 DEF OwnerAt
    <3>2. CASE p \notin Within(boxes[k])
      <4>1. h.owner[p] = g.owner[p] /\ OwnerAt(g.owner[p], p, boxes, order, k - 1)
        BY <2>3, <2>4, <3>2
      <4> QED
        BY <1>2, <3>2, <4>1 DEF OwnerAt
    <3> QED
      BY <3>1, <3>2
  <2> QED
    BY <2>4, <2>5 DEF h
<1> HIDE DEF T
<1>5. N \in T
  <2>1. 0..N \subseteq T
    BY <1>2, <1>3, <1>4, UpTo
  <2> QED
    BY <1>2, <2>1
<1>6. Owned(f[N], N)
  BY <1>5 DEF T
<1> QED
  BY <1>1, <1>6 DEF order, N, offset, boxes

\* What is drawn over the page owns nothing.
LEMMA ComposedOwner ==
    ASSUME NEW nodes, NEW layout, IsLayout(layout, nodes), NEW scroll, NEW focus, NEW typed, NEW profile0
    PROVE  Composed(nodes, layout, scroll, focus, typed, profile0).owner
              = Drawn(nodes, layout, scroll, profile0).owner
<1> DEFINE page == Drawn(nodes, layout, scroll, profile0)
           ringed == Over(page, Ring(nodes, layout, scroll, focus))
           echoed == Over(ringed, Echo(nodes, layout, scroll, focus, typed))
           r == Over(echoed, StatusBar(layout, scroll))
<1>1. IsFrame(page)
  BY DrawnOwners
<1>2. Composed(nodes, layout, scroll, focus, typed, profile0) = r
  BY Zenon DEF Composed
<1> HIDE DEF page
<1>3. IsFrame(ringed) /\ ringed.owner = page.owner
  BY <1>1, OverOnly
<1> HIDE DEF ringed
<1>4. IsFrame(echoed) /\ echoed.owner = page.owner
  BY <1>3, OverOnly
<1> HIDE DEF echoed
<1>5. IsFrame(r) /\ r.owner = page.owner
  BY <1>4, OverOnly
<1> QED
  BY <1>2, <1>5 DEF page

-----------------------------------------------------------------------------
(* The state of a page *)

\* The frame is a frame of this document.
IsShown ==
    /\ IsLayout(frame.layout, doc)
    /\ frame.scroll \in 0..MaxScroll(frame.layout)
    /\ frame.owner = Drawn(doc, frame.layout, frame.scroll, profile).owner

\* The document is one that the parser made, and what is shown is of this document.
PageOK ==
    /\ IsDocument(doc)
    /\ frame # NoFrame => IsShown
    /\ DOMAIN client = {"display", "pictures", "assets"}

\* What the elements over the canvas show after a frame.
Ready(m) == Files[m.src].where = "there"

\* After a frame a browser shows the pictures of this frame that have arrived; a
\* terminal without graphics in its front buffer shows only what was orphaned.
Media ==
    /\ (frame # NoFrame /\ profile = "web" /\ ~changed) =>
          /\ client.pictures = {m \in ActiveMedia(doc, frame.layout, frame.scroll) : Ready(m)}
          /\ \A m \in client.pictures : m.src \in client.assets
    /\ (profile = "kitty" /\ front.graphics = << >> /\ ~orphans) => client.pictures = {}

\* What a frame does to the pictures of a browser,
LEMMA WebSentMedia ==
    ASSUME NEW c, DOMAIN c = {"display", "pictures", "assets"}, NEW prev, NEW back, NEW active
    PROVE  LET result == WebSent(c, prev, back, active).client
           IN  /\ DOMAIN result = {"display", "pictures", "assets"}
               /\ result.pictures = {m \in active : Ready(m)}
               /\ \A m \in result.pictures : m.src \in result.assets
<1> DEFINE d == OnCanvas(c.display, DecodeBinary(EncodeBinary(Diff(prev.cells, back.cells))))
           ready == {m \in active : Ready(m)}
           assets == c.assets \cup {m.src : m \in ready}
           result == WebSent(c, prev, back, active).client
<1>1. result = [c EXCEPT !.display = d, !.assets = assets, !.pictures = ready]
  BY Zenon DEF WebSent, Ready
<1> HIDE DEF d, result
<1>2. DOMAIN result = {"display", "pictures", "assets"}
      /\ result.pictures = ready /\ result.assets = assets
  <2> HIDE DEF ready, assets
  <2> QED
    BY <1>1
<1>3. \A m \in ready : m.src \in assets
  OBVIOUS
<1> QED
  BY <1>2, <1>3 DEF result

\* and of a terminal.
LEMMA AnsiSentMedia ==
    ASSUME NEW c, DOMAIN c = {"display", "pictures", "assets"}, NEW old, NEW back
    PROVE  LET result == AnsiSent(c, old, back)
               cleanup == old.graphics # << >> /\ back.graphics = << >>
           IN  /\ DOMAIN result.client = {"display", "pictures", "assets"}
               /\ result.client.pictures = (IF cleanup THEN {} ELSE c.pictures) \cup ToSet(back.graphics)
               /\ ~result.sent => back.graphics = << >> /\ old.graphics = << >>
<1> DEFINE commands == Diff(old.cells, back.cells)
           d == OnTerminal(c.display, EncodeAnsi(commands))
           cleanup == old.graphics # << >> /\ back.graphics = << >>
           pictures == (IF cleanup THEN {} ELSE c.pictures) \cup ToSet(back.graphics)
           result == AnsiSent(c, old, back)
<1>1. result = [sent |-> commands # << >> \/ back.graphics # << >> \/ cleanup,
                client |-> [c EXCEPT !.display = d, !.pictures = pictures]]
  BY Zenon DEF AnsiSent
<1> HIDE DEF d, commands, result
<1>2. ~result.sent => back.graphics = << >> /\ old.graphics = << >>
  BY <1>1
<1>3. result.client = [c EXCEPT !.display = d, !.pictures = pictures]
  BY <1>1
<1> DEFINE after == result.client
<1>4. DOMAIN after = {"display", "pictures", "assets"} /\ after.pictures = pictures
  <2>1. after = [c EXCEPT !.display = d, !.pictures = pictures]
    BY <1>3
  <2> HIDE DEF after, pictures, cleanup
  <2> QED
    BY <2>1
<1> QED
  BY <1>2, <1>4 DEF result

\* What becomes of a page that was composed.
Draws(layout, scroll, page) ==
    LET prev == IF changed THEN [front EXCEPT !.cells = DirtyCells] ELSE front
        back == [cells |-> page.cells, graphics |-> page.graphics]
        active == ActiveMedia(doc, layout, scroll)
        result == IF profile = "web" THEN WebSent(client, prev, back, active)
                                     ELSE AnsiSent(client, front, back)
    IN  /\ client' = result.client
        /\ front' = IF result.sent THEN back ELSE front
        /\ frame' = [layout |-> layout, scroll |-> scroll, owner |-> page.owner]
        /\ changed' = FALSE
        /\ whole' = ((whole \/ changed) /\ Whole(page.cells))
        /\ narrow' = ((narrow \/ changed) /\ Narrow(page.cells))
        /\ orphans' = (orphans /\ result.client.pictures # {})
        /\ UNCHANGED << source, doc, on, profile, reconnects >>

\* What Render does, in names.
LEMMA Rendered ==
    ASSUME Render
    PROVE  \E layout, scroll, focus, page :
              /\ layout = Compute(doc, Cols, on) /\ scroll \in 0..MaxScroll(layout)
              /\ page = Composed(doc, layout, scroll, focus, Typed(profile), profile)
              /\ Draws(layout, scroll, page)
<1>1. \E layout \in {Compute(doc, Cols, on)} :
         \E scroll \in Offsets \cap (0..MaxScroll(layout)), focus \in {0} \cup Focusable(layout) :
            \E page \in {Composed(doc, layout, scroll, focus, Typed(profile), profile)} :
               Draws(layout, scroll, page)
  BY Zenon DEF Render, Draws
<1> QED
  BY <1>1

LEMMA PageOKInit == Init => PageOK /\ Media
<1> SUFFICES ASSUME Init
             PROVE  PageOK /\ Media
  OBVIOUS
<1>1. doc = Styles(<< Root >>, << >>) /\ frame = NoFrame /\ client = NewClient
  BY DEF Init
<1>2. IsDocument(doc)
  BY <1>1, FirstDocument
<1>3. DOMAIN client = {"display", "pictures", "assets"} /\ client.pictures = {}
  BY <1>1 DEF NewClient
<1> QED
  BY <1>1, <1>2, <1>3 DEF PageOK, Media

LEMMA PageOKStep ==
    ASSUME PageOK, Media, [Next]_vars
    PROVE  PageOK' /\ Media'
<1>1. ASSUME NEW s \in Sources, Load(s)
      PROVE  PageOK' /\ Media'
  <2>1. IsSource(s)
    BY PageAssumption
  <2>2. CASE Document(s).ok
    <3>1. /\ doc' = Document(s).nodes /\ frame' = NoFrame /\ client' = client
          /\ orphans' = (orphans \/ client.pictures # {})
      BY <1>1, <2>2 DEF Load
    <3>2. IsDocument(doc')
      BY <2>1, <2>2, <3>1, LoadedDocument
    <3>3. ~orphans' => client'.pictures = {}
      BY <3>1
    <3> QED
      BY <3>1, <3>2, <3>3 DEF PageOK, Media
  <2>3. CASE ~Document(s).ok
    <3>1. UNCHANGED << doc, front, frame, orphans, profile, client, changed >>
      BY <1>1, <2>3 DEF Load
    <3> QED
      BY <3>1 DEF PageOK, Media, IsShown
  <2> QED
    BY <2>2, <2>3
<1>2. ASSUME Toggle
      PROVE  PageOK' /\ Media'
  BY <1>2 DEF Toggle, PageOK, Media, IsShown
<1>3. ASSUME Render
      PROVE  PageOK' /\ Media'
  <2>1. PICK layout, scroll, focus, page :
           /\ layout = Compute(doc, Cols, on) /\ scroll \in 0..MaxScroll(layout)
           /\ page = Composed(doc, layout, scroll, focus, Typed(profile), profile)
           /\ Draws(layout, scroll, page)
    BY <1>3, Rendered
  <2> DEFINE back == [cells |-> page.cells, graphics |-> page.graphics]
             active == ActiveMedia(doc, layout, scroll)
  <2>10. /\ frame' = [layout |-> layout, scroll |-> scroll, owner |-> page.owner]
         /\ changed' = FALSE
         /\ UNCHANGED << source, doc, on, profile >>
    BY <2>1 DEF Draws
  <2>2. IsLayout(layout, doc)
    BY <2>1, ComputeOK DEF PageOK
  <2>3. frame'.layout = layout /\ frame'.scroll = scroll /\ scroll \in 0..MaxScroll(layout)
    BY <2>1, <2>10
  <2>8. frame'.owner = Drawn(doc', layout, scroll, profile').owner
    <3>1. page.owner = Drawn(doc, layout, scroll, profile).owner
      BY <2>1, <2>2, ComposedOwner
    <3> QED
      BY <2>10, <3>1
  <2>9. \E prev :
           LET result == IF profile = "web" THEN WebSent(client, prev, back, active)
                                            ELSE AnsiSent(client, front, back)
           IN  /\ client' = result.client
               /\ front' = IF result.sent THEN back ELSE front
               /\ orphans' = (orphans /\ result.client.pictures # {})
    BY <2>1 DEF Draws
  <2> HIDE DEF back
  <2>4. CASE profile = "web"
    <3>1. PICK prev : client' = WebSent(client, prev, back, active).client
      BY <2>9, <2>4
    <3>2. /\ DOMAIN client' = {"display", "pictures", "assets"}
          /\ client'.pictures = {m \in active : Ready(m)}
          /\ \A m \in client'.pictures : m.src \in client'.assets
      BY <3>1, WebSentMedia DEF PageOK
    <3>3. active = ActiveMedia(doc', frame'.layout, frame'.scroll) /\ profile' # "kitty"
      BY <2>3, <2>4, <2>10
    <3>4. PageOK'
      BY <2>2, <2>3, <2>8, <2>10, <3>2 DEF PageOK, IsShown
    <3>5. Media'
      BY <3>2, <3>3 DEF Media
    <3> QED
      BY <3>4, <3>5
  <2>5. CASE profile # "web"
    <3> DEFINE result == AnsiSent(client, front, back)
    <3>1. /\ client' = result.client
          /\ front' = IF result.sent THEN back ELSE front
          /\ orphans' = (orphans /\ result.client.pictures # {})
      BY <2>9, <2>5
    <3>2. /\ DOMAIN client' = {"display", "pictures", "assets"}
          /\ client'.pictures = (IF front.graphics # << >> /\ back.graphics = << >>
                                   THEN {} ELSE client.pictures) \cup ToSet(back.graphics)
          /\ ~result.sent => back.graphics = << >> /\ front.graphics = << >>
      BY <3>1, AnsiSentMedia DEF PageOK
    <3> HIDE DEF result
    <3>3. front'.graphics = << >> => back.graphics = << >>
      BY <3>1, <3>2
    <3>4. ToSet(<< >>) = {}
      BY DEF ToSet
    <3>5. (profile = "kitty" /\ front'.graphics = << >> /\ ~orphans') => client'.pictures = {}
      <4> SUFFICES ASSUME profile = "kitty", front'.graphics = << >>, ~orphans'
                   PROVE  client'.pictures = {}
        OBVIOUS
      <4>1. CASE orphans
        BY <3>1, <4>1
      <4>2. CASE ~orphans
        <5>1. front.graphics = << >> => client.pictures = {}
          BY <4>2 DEF Media
        <5> QED
          BY <3>2, <3>3, <3>4, <5>1
      <4> QED
        BY <4>1, <4>2
    <3>6. PageOK'
      BY <2>2, <2>3, <2>8, <2>10, <3>2 DEF PageOK, IsShown
    <3>7. Media'
      BY <2>5, <2>10, <3>5 DEF Media
    <3> QED
      BY <3>6, <3>7
  <2> QED
    BY <2>4, <2>5
<1>4. ASSUME Reconnect
      PROVE  PageOK' /\ Media'
  <2>1. /\ client' = NewClient /\ changed' = TRUE /\ profile = "web"
        /\ UNCHANGED << doc, front, frame, profile, orphans >>
    BY <1>4 DEF Reconnect
  <2>2. DOMAIN client' = {"display", "pictures", "assets"}
    BY <2>1 DEF NewClient
  <2> QED
    BY <2>1, <2>2 DEF PageOK, Media, IsShown
<1>5. ASSUME UNCHANGED vars
      PROVE  PageOK' /\ Media'
  BY <1>5 DEF vars, PageOK, Media, IsShown
<1> QED
  BY <1>1, <1>2, <1>3, <1>4, <1>5 DEF Next

\* A valid picture has a source.
Sourced(node) == node.attrs.src # ""

LEMMA ValidSourced ==
    ASSUME NEW node, Valid(node), node.tag \in {"img", "video"}
    PROVE  Sourced(node)
BY Zenon DEF Valid, Sourced

\* What active_media has: each picture that is in a list of its own, with its box;
\* that box is the one that the painter leaves for it, if it does not begin above
\* the screen and is not fixed.
LEMMA MediaHas ==
    ASSUME NEW nodes, NEW layout, IsLayout(layout, nodes), NEW scroll \in Nat,
           NEW n \in DOMAIN layout.rects,
           nodes[n].tag \in {"img", "video"}, Sourced(nodes[n]),
           nodes[n].style.position # "fixed",
           NEW room, room = Content(nodes[n], ScreenRect(nodes[n], layout.rects[n],
                               CenteringOffset(nodes, layout, Cols, Rows), scroll)),
           room.y >= 0
    PROVE  [src |-> nodes[n].attrs.src, box |-> room] \in ActiveMedia(nodes, layout, scroll)
<1> DEFINE offset == CenteringOffset(nodes, layout, Cols, Rows)
           Rect(k) == IF k \in DOMAIN layout.rects THEN layout.rects[k]
                      ELSE [x |-> 0, y |-> 0, w |-> 0, h |-> 0]
           Box(k) == Content(nodes[k], [Rect(k) EXCEPT !.x = @ + offset[1],
                                                       !.y = @ + offset[2] - scroll])
           media == {k \in DOMAIN nodes : nodes[k].tag \in {"img", "video"} /\ nodes[k].attrs.src # ""}
           Picture0(k) == [src |-> nodes[k].attrs.src,
                           box |-> [Box(k) EXCEPT !.x = Larger(0, @), !.y = Larger(0, @)]]
           rect == layout.rects[n]
           moved == [rect EXCEPT !.x = @ + offset[1], !.y = @ + offset[2] - scroll]
<1>1. offset[1] \in Nat /\ offset[2] \in Nat
  BY CenteringOK
<1> HIDE DEF offset
<1>2. rect \in Places
  BY DEF IsLayout
<1>3. rect.x \in Nat /\ rect.y \in Nat /\ DOMAIN rect = {"x", "y", "w", "h"}
  BY <1>2 DEF Places
<1>4. ScreenRect(nodes[n], rect, offset, scroll) = moved
  BY DEF ScreenRect
<1>5. moved.x \in Nat /\ moved.y \in Int
  <2>1. moved.x = rect.x + offset[1] /\ moved.y = rect.y + offset[2] - scroll
    <3> HIDE DEF rect
    <3> QED
      BY <1>3
  <2> HIDE DEF moved, rect
  <2> QED
    BY <1>1, <1>3, <2>1
<1>6. room = Content(nodes[n], moved)
  BY <1>4 DEF offset
<1> HIDE DEF moved
<1>7. /\ room.x \in Nat /\ room.y \in Int /\ DOMAIN room = {"x", "y", "w", "h"}
  <2>1. BorderOf(nodes[n]) \in Nat
    BY DEF BorderOf
  <2>2. /\ room.x = moved.x + BorderOf(nodes[n]) /\ room.y = moved.y + BorderOf(nodes[n])
        /\ DOMAIN room = {"x", "y", "w", "h"}
    BY <1>6 DEF Content
  <2> QED
    BY <1>5, <2>1, <2>2
<1>8. Larger(0, room.x) = room.x /\ Larger(0, room.y) = room.y
  BY <1>7 DEF Larger
<1>9. Box(n) = room
  BY <1>6 DEF moved
<1> DEFINE cut == [room EXCEPT !.x = Larger(0, @), !.y = Larger(0, @)]
<1>10. cut = room
  <2>1. cut = [room EXCEPT !.x = room.x, !.y = room.y]
    BY <1>7, <1>8
  <2>2. room = [i \in DOMAIN room |-> room[i]]
    BY <1>6 DEF Content
  <2>3. cut = [i \in DOMAIN room |-> room[i]]
    <3> DEFINE c == cut
    <3>1. c = [room EXCEPT !.x = room.x, !.y = room.y]
      BY <2>1
    <3> HIDE DEF c, cut
    <3>2. DOMAIN c = DOMAIN room /\ \A i \in DOMAIN room : c[i] = room[i]
      BY <1>7, <3>1
    <3>3. c = [i \in DOMAIN room |-> c[i]]
      BY <3>1
    <3>4. c = [i \in DOMAIN room |-> room[i]]
      BY <3>2, <3>3
    <3> QED
      BY <3>4 DEF c
  <2> QED
    BY <2>2, <2>3
<1>11. n \in media
  BY Zenon DEF IsLayout, Sourced
<1>12. Picture0(n) = [src |-> nodes[n].attrs.src, box |-> room]
  <2> HIDE DEF Box
  <2> QED
    BY <1>9, <1>10
<1>13. ActiveMedia(nodes, layout, scroll) = {Picture0(k) : k \in media}
  BY DEF ActiveMedia, offset
<1> HIDE DEF Picture0, media
<1> QED
  BY <1>11, <1>12, <1>13

\* Pictures are those of nodes.
LEMMA MediaOfNodes ==
    ASSUME NEW nodes, NEW layout, NEW scroll, NEW m \in ActiveMedia(nodes, layout, scroll)
    PROVE  \E n \in DOMAIN nodes : nodes[n].attrs.src = m.src
<1> DEFINE offset == CenteringOffset(nodes, layout, Cols, Rows)
           Rect(k) == IF k \in DOMAIN layout.rects THEN layout.rects[k]
                      ELSE [x |-> 0, y |-> 0, w |-> 0, h |-> 0]
           Box(k) == Content(nodes[k], [Rect(k) EXCEPT !.x = @ + offset[1],
                                                       !.y = @ + offset[2] - scroll])
           Cut(k) == [Box(k) EXCEPT !.x = Larger(0, @), !.y = Larger(0, @)]
           media == {k \in DOMAIN nodes : nodes[k].tag \in {"img", "video"} /\ nodes[k].attrs.src # ""}
<1>1. ActiveMedia(nodes, layout, scroll) = {[src |-> nodes[k].attrs.src, box |-> Cut(k)] : k \in media}
  BY DEF ActiveMedia
<1>2. media \subseteq DOMAIN nodes
  OBVIOUS
<1> HIDE DEF Cut, media
<1> QED
  BY <1>1, <1>2

LEMMA PicturesFollowNow ==
    ASSUME PageOK, Media
    PROVE  PicturesFollow
<1> DEFINE offset == CenteringOffset(doc, frame.layout, Cols, Rows)
           Room(n) == Content(doc[n], ScreenRect(doc[n], frame.layout.rects[n], offset, frame.scroll))
<1> SUFFICES ASSUME frame # NoFrame
             PROVE  PicturesFollow
  BY DEF PicturesFollow
<1>1. IsLayout(frame.layout, doc) /\ frame.scroll \in Nat
  BY DEF PageOK, IsShown
<1>2. ASSUME NEW n \in DOMAIN frame.layout.rects, profile = "web", ~changed,
             doc[n].tag \in {"img", "video"}, Files[doc[n].attrs.src].where = "there",
             doc[n].style.position # "fixed", Room(n).y >= 0
      PROVE  /\ [src |-> doc[n].attrs.src, box |-> Room(n)] \in client.pictures
             /\ doc[n].attrs.src \in client.assets
  <2> DEFINE m == [src |-> doc[n].attrs.src, box |-> Room(n)]
  <2>1. n \in 1..Len(doc)
    <3>1. DOMAIN doc = 1..Len(doc)
      BY ListIsSeq DEF PageOK, IsDocument, IsTree
    <3> QED
      BY <1>1, <3>1 DEF IsLayout
  <2>2. Sourced(doc[n])
    BY <1>2, <2>1, ValidSourced DEF PageOK, IsDocument
  <2>3. m \in ActiveMedia(doc, frame.layout, frame.scroll)
    <3> DEFINE room == Room(n)
    <3>1. room = Content(doc[n], ScreenRect(doc[n], frame.layout.rects[n], offset, frame.scroll))
          /\ room.y >= 0
      BY <1>2
    <3> HIDE DEF room
    <3>2. [src |-> doc[n].attrs.src, box |-> room] \in ActiveMedia(doc, frame.layout, frame.scroll)
      BY <1>1, <1>2, <2>2, <3>1, MediaHas
    <3> QED
      BY <3>2 DEF room
  <2>4. m.src = doc[n].attrs.src
    OBVIOUS
  <2> HIDE DEF m
  <2>5. m \in client.pictures /\ m.src \in client.assets
    BY <1>2, <2>3, <2>4 DEF Media, Ready
  <2> QED
    BY <2>4, <2>5 DEF m
<1>3. ASSUME profile = "web", ~changed, NEW m \in client.pictures
      PROVE  \E n \in DOMAIN doc : doc[n].attrs.src = m.src
  BY <1>3, MediaOfNodes DEF Media
<1>4. (profile = "kitty" /\ front.graphics = << >> /\ ~orphans) => client.pictures = {}
  BY DEF Media
<1> HIDE DEF offset, Room
<1> QED
  BY <1>2, <1>3, <1>4, Zenon DEF PicturesFollow, Room, offset

\* PROPERTY.  Pictures follow the page, for any pages, files and screen: what a
\* browser shows over its canvas is where the painter left room for it, and a
\* terminal is left with no picture that the front buffer does not know of, unless
\* a page was loaded over it.
THEOREM PicturesFollowAlways == Spec => []PicturesFollow
<1>1. Spec => [](PageOK /\ Media)
  BY PageOKInit, PageOKStep, PTL DEF Spec
<1>2. PageOK /\ Media => PicturesFollow
  BY PicturesFollowNow
<1> QED
  BY <1>1, <1>2, PTL

-----------------------------------------------------------------------------
(* Where clicks go *)

\* The coordinates that a click has in the layout.
Unmoved(v, o) == Larger(0, Larger(0, v - o) - 1)

\* The screen is centered only if it has room, and then nothing scrolls.
LEMMA CenteredAtRest ==
    ASSUME NEW nodes, NEW layout, IsLayout(layout, nodes), NEW scroll \in 0..MaxScroll(layout)
    PROVE  /\ MaxScroll(layout) \in Nat
           /\ CenteringOffset(nodes, layout, Cols, Rows)[2] > 0 => scroll = 0
<1>1. layout.total \in Nat /\ Rows \in Nat
  BY PageAssumption DEF IsLayout
<1>2. MaxScroll(layout) \in Nat /\ (layout.total <= Rows => MaxScroll(layout) = 0)
  BY <1>1 DEF MaxScroll, Larger, Viewport
<1>3. CenteringOffset(nodes, layout, Cols, Rows)[2] = Larger(Rows - layout.total, 0) \div 2
  BY DEF CenteringOffset
<1>4. layout.total > Rows => Larger(Rows - layout.total, 0) = 0
  BY <1>1 DEF Larger
<1>5. 0 \div 2 = 0
  OBVIOUS
<1> QED
  BY <1>1, <1>2, <1>3, <1>4, <1>5

\* On a page where nothing is fixed, a place of the screen where something was
\* painted is in a node's box on the screen if what a click there finds is in the
\* node's box of the layout, and conversely.
LEMMA SameBox ==
    ASSUME NEW a \in Nat, NEW b \in Nat, NEW scroll \in Nat, b > 0 => scroll = 0,
           NEW p1 \in Nat, NEW p2 \in Nat, NEW r \in Places, NEW t \in Places, NEW node,
           NEW other, node.style.position # "fixed", other.style.position # "fixed",
           Contains2D(ScreenRect(other, t, << a, b >>, scroll), p1, p2)
    PROVE  Contains2D(ScreenRect(node, r, << a, b >>, scroll), p1, p2)
              <=> Contains2D(r, Unmoved(p1 + 1, a), Unmoved(p2 + 1, b) + scroll)
<1>1. ASSUME NEW q \in Places, NEW n, n.style.position # "fixed"
      PROVE  LET s == ScreenRect(n, q, << a, b >>, scroll)
             IN  /\ s.x = q.x + a /\ s.y = q.y + b - scroll /\ s.w = q.w /\ s.h = q.h
                 /\ q.x \in Nat /\ q.y \in Nat /\ q.w \in Nat /\ q.h \in Nat
  <2>1. /\ q.x \in Nat /\ q.y \in Nat /\ q.w \in Nat /\ q.h \in Nat
        /\ DOMAIN q = {"x", "y", "w", "h"}
    BY DEF Places
  <2> DEFINE s == ScreenRect(n, q, << a, b >>, scroll)
  <2>2. s = [q EXCEPT !.x = q.x + a, !.y = q.y + b - scroll]
    BY <1>1, <2>1 DEF ScreenRect
  <2> HIDE DEF s
  <2>3. s.x = q.x + a /\ s.y = q.y + b - scroll /\ s.w = q.w /\ s.h = q.h
    BY <2>1, <2>2
  <2> QED
    BY <2>1, <2>3 DEF s
<1>2. p1 >= a /\ p2 >= b
  BY <1>1 DEF Contains2D
<1>3. Unmoved(p1 + 1, a) = p1 - a /\ Unmoved(p2 + 1, b) = p2 - b
  BY <1>2 DEF Unmoved, Larger
<1> QED
  BY <1>1, <1>2, <1>3 DEF Contains2D

\* The last node of the order whose box has a place is the one that is found there.
LEMMA LastFound ==
    ASSUME NEW layout, NEW S, layout.order \in Seq(S), NEW x, NEW y,
           NEW i \in 1..Len(layout.order),
           Contains2D(layout.rects[layout.order[i]], x, y),
           \A j \in (i + 1)..Len(layout.order) : ~Contains2D(layout.rects[layout.order[j]], x, y)
    PROVE  FindNode(layout, x, y) = layout.order[i]
<1> DEFINE order == layout.order
           N == Len(order)
           I == {j \in 1..N : Contains2D(layout.rects[order[j]], x, y)}
<1>1. N \in Nat
  OBVIOUS
<1>2. FindNode(layout, x, y) = LET k == IF I # {} THEN Max(I) ELSE 0
                               IN  IF k = 0 THEN 0 ELSE order[k]
  BY DEF FindNode, SelectLastInSeq
<1>3. i \in I /\ I \in SUBSET (1..i) /\ i \in Nat
  BY <1>1
<1> HIDE DEF I, N
<1>4. Max(I) = i
  BY <1>3, MaxUpTo
<1> QED
  BY <1>2, <1>3, <1>4

LEMMA HitsNow == PageOK => HitsTopmost
<1> SUFFICES ASSUME PageOK, \A n \in DOMAIN frame.layout.rects : doc[n].style.position # "fixed",
                    NEW p \in DOMAIN frame.owner, frame.owner[p] # 0
             PROVE  HitAt(p) = frame.owner[p]
  BY DEF HitsTopmost
<1>1. frame # NoFrame
  <2>1. DOMAIN NoFrame.owner = {}
    BY DEF NoFrame
  <2> QED
    BY <2>1
<1> DEFINE layout == frame.layout
           scroll == frame.scroll
           order == layout.order
           N == Len(order)
           offset == CenteringOffset(doc, layout, Cols, Rows)
           a == offset[1]
           b == offset[2]
           x == Unmoved(p[1] + 1, a)
           y == Unmoved(p[2] + 1, b) + scroll
           box(i) == ScreenRect(doc[order[i]], layout.rects[order[i]], offset, scroll)
           boxes == [i \in 1..N |-> box(i)]
<1>2. IsLayout(layout, doc) /\ scroll \in 0..MaxScroll(layout)
      /\ frame.owner = Drawn(doc, layout, scroll, profile).owner
  BY <1>1 DEF PageOK, IsShown
<1>3. a \in Nat /\ b \in Nat /\ scroll \in Nat /\ (b > 0 => scroll = 0)
  BY <1>2, CenteringOK, CenteredAtRest
<1>4. offset = << a, b >>
  BY DEF CenteringOffset
<1>5. N \in Nat /\ \A i \in 1..N : order[i] \in DOMAIN layout.rects /\ layout.rects[order[i]] \in Places
  BY <1>2 DEF IsLayout
<1>6. p \in Screen /\ OwnerAt(frame.owner[p], p, boxes, order, N)
  BY <1>2, DrawnOwners
<1>7. p[1] \in Nat /\ p[2] \in Nat
  BY <1>6, PageAssumption DEF Screen
<1>8. HitAt(p) = FindNode(layout, x, y)
  BY DEF HitAt, Unmoved
<1> HIDE DEF offset, a, b, x, y
<1>9. PICK i \in 1..N : /\ frame.owner[p] = order[i] /\ p \in Within(box(i))
                        /\ \A j \in (i + 1)..N : p \notin Within(box(j))
  <2>1. PICK i \in 1..N : /\ frame.owner[p] = order[i] /\ p \in Within(boxes[i])
                          /\ \A j \in (i + 1)..N : p \notin Within(boxes[j])
    BY <1>6 DEF OwnerAt
  <2>2. \A j \in 1..N : boxes[j] = box(j)
    OBVIOUS
  <2>3. \A j \in (i + 1)..N : j \in 1..N
    BY <1>5
  <2> HIDE DEF box, boxes
  <2>4. p \in Within(box(i)) /\ \A j \in (i + 1)..N : p \notin Within(box(j))
    BY <2>1, <2>2, <2>3
  <2> QED
    BY <2>1, <2>4
<1>10. \A j \in 1..N : p \in Within(box(j)) <=> Contains2D(layout.rects[order[j]], x, y)
  <2>1. \A j \in 1..N : p \in Within(box(j)) <=> Contains2D(box(j), p[1], p[2])
    BY <1>6 DEF Within
  <2> SUFFICES ASSUME NEW j \in 1..N
               PROVE  Contains2D(box(j), p[1], p[2]) <=> Contains2D(layout.rects[order[j]], x, y)
    BY <2>1
  <2> DEFINE node == doc[order[j]]
             other == doc[order[i]]
             r == layout.rects[order[j]]
             t == layout.rects[order[i]]
             p1 == p[1]
             p2 == p[2]
  <2>2. /\ node.style.position # "fixed" /\ other.style.position # "fixed"
        /\ r \in Places /\ t \in Places /\ p1 \in Nat /\ p2 \in Nat
    BY <1>5, <1>7
  <2>3. Contains2D(ScreenRect(other, t, << a, b >>, scroll), p1, p2)
    BY <1>4, <1>9, <2>1
  <2>4. box(j) = ScreenRect(node, r, << a, b >>, scroll)
    BY <1>4
  <2> HIDE DEF node, other, r, t, p1, p2, box, scroll
  <2>5. Contains2D(ScreenRect(node, r, << a, b >>, scroll), p1, p2)
           <=> Contains2D(r, Unmoved(p1 + 1, a), Unmoved(p2 + 1, b) + scroll)
    BY <1>3, <2>2, <2>3, SameBox
  <2> QED
    BY <2>4, <2>5 DEF r, p1, p2, x, y
<1>11. \A j \in (i + 1)..N : j \in 1..N
  BY <1>5
<1> HIDE DEF box
<1>12. /\ Contains2D(layout.rects[order[i]], x, y)
       /\ \A j \in (i + 1)..N : ~Contains2D(layout.rects[order[j]], x, y)
  BY <1>9, <1>10, <1>11
<1>13. order \in Seq(DOMAIN layout.rects)
  BY <1>2 DEF IsLayout
<1> HIDE DEF layout
<1>14. FindNode(layout, x, y) = order[i]
  BY <1>12, <1>13, LastFound
<1> QED
  BY <1>8, <1>9, <1>14

\* PROPERTY.  A click hits the node that was painted last at its place, on pages
\* where nothing is fixed: the hit test, which takes the centering and the scroll
\* offset off the click, undoes what the painter did to the boxes.
THEOREM HitsTopmostAlways == Spec => []HitsTopmost
<1>1. Spec => [](PageOK /\ Media)
  BY PageOKInit, PageOKStep, PTL DEF Spec
<1>2. PageOK /\ Media => HitsTopmost
  BY HitsNow
<1> QED
  BY <1>1, <1>2, PTL

-----------------------------------------------------------------------------
(* The cascade *)

\* The parts of a list that is joined of two.
Parts(w, u, m, v, n) ==
    /\ m \in Nat /\ n \in Nat /\ IsList(w) /\ Len(w) = m + n
    /\ \A i \in 1..m : w[i] = u[i]
    /\ \A i \in 1..n : w[m + i] = v[i]

LEMMA JoinedLists ==
    ASSUME NEW u, IsList(u), NEW v, IsList(v)
    PROVE  Parts(u \o v, u, Len(u), v, Len(v))
<1> DEFINE V == {u[i] : i \in 1..Len(u)} \cup {v[i] : i \in 1..Len(v)}
<1>1. u \in Seq(V) /\ v \in Seq(V)
  <2>1. (\A i \in 1..Len(u) : u[i] \in V) /\ (\A i \in 1..Len(v) : v[i] \in V)
    OBVIOUS
  <2> HIDE DEF V
  <2> QED
    BY <2>1, ListOf
<1> HIDE DEF V
<1>2. /\ u \o v \in Seq(V) /\ Len(u) \in Nat /\ Len(v) \in Nat /\ Len(u \o v) = Len(u) + Len(v)
      /\ \A i \in 1..Len(u) : (u \o v)[i] = u[i]
      /\ \A i \in 1..Len(v) : (u \o v)[Len(u) + i] = v[i]
  BY <1>1, Joined
<1>3. IsList(u \o v)
  BY <1>2, SeqIsList
<1> QED
  BY <1>2, <1>3 DEF Parts

\* Each step sets a value or leaves it.
SetBy(v, hit, val, N) ==
    \A n \in 1..N : (n \in hit => v[n] = val[n]) /\ (n \notin hit => v[n] = v[n - 1])

\* The value after N steps.
LEMMA LastHit ==
    ASSUME NEW N \in Nat, NEW v, NEW hit \in SUBSET (1..N), NEW val, SetBy(v, hit, val, N)
    PROVE  /\ hit = {} => v[N] = v[0]
           /\ \A i \in hit : (\A j \in hit : j <= i) => v[N] = val[i]
<1> DEFINE Last0(i, k) == i <= k /\ \A j \in hit : j <= k => j <= i
           T == {k \in 0..N : /\ (\A j \in hit : j > k) => v[k] = v[0]
                              /\ \A i \in hit : Last0(i, k) => v[k] = val[i]}
<1>1. 0 \in T
  OBVIOUS
<1>2. ASSUME NEW k \in 1..N, k - 1 \in T
      PROVE  k \in T
  <2>1. CASE k \in hit
    BY <2>1 DEF SetBy
  <2>2. CASE k \notin hit
    <3>1. v[k] = v[k - 1]
      BY <2>2 DEF SetBy
    <3>2. \A j \in hit : j > k => j > k - 1
      OBVIOUS
    <3>3. \A i \in hit : Last0(i, k) => Last0(i, k - 1)
      BY <2>2
    <3>4. /\ (\A j \in hit : j > k - 1) => v[k - 1] = v[0]
          /\ \A i \in hit : Last0(i, k - 1) => v[k - 1] = val[i]
      BY <1>2
    <3> HIDE DEF Last0
    <3> QED
      BY <3>1, <3>2, <3>3, <3>4
  <2> QED
    BY <2>1, <2>2
<1>3. N \in T
  <2> HIDE DEF T
  <2>1. 0..N \subseteq T
    BY <1>1, <1>2, UpTo
  <2> QED
    BY <2>1
<1> QED
  BY <1>3

\* A set of numbers up to N is empty or has a greatest one.
LEMMA Greatest ==
    ASSUME NEW N \in Nat, NEW hit \in SUBSET (1..N), hit # {}
    PROVE  \E i \in hit : \A j \in hit : j <= i
<1>1. IsFiniteSet(hit)
  <2>1. IsFiniteSet(1..N)
    BY FS_Interval
  <2> QED
    BY <2>1, FS_Subset
<1>2. hit \subseteq Int
  OBVIOUS
<1>3. Max(hit) \in hit /\ \A y \in hit : Max(hit) >= y
  BY <1>1, <1>2, MaxInt
<1> QED
  BY <1>3

\* Ranks are three integers each, and in this order.
IsRank(a) == a = << a[1], a[2], a[3] >> /\ a[1] \in Int /\ a[2] \in Int /\ a[3] \in Int

Item(r, ds, i) == [rank |-> r[i], d |-> ds[i]]

\* A list of declarations with their ranks, the higher the later, makes up a set.
Ranked(ds, r, X) ==
    /\ IsList(ds) /\ IsList(r) /\ Len(r) = Len(ds)
    /\ \A i \in 1..Len(ds) : IsRank(r[i])
    /\ \A i, j \in 1..Len(ds) : i < j => Outranks(r[j], r[i])
    /\ X = {Item(r, ds, i) : i \in 1..Len(ds)}

\* The last of some declarations in the list is the top of them.
LEMMA LastIsTop ==
    ASSUME NEW ds, NEW r, NEW X, Ranked(ds, r, X), NEW hit \in SUBSET (1..Len(ds)),
           NEW i \in hit, \A j \in hit : j <= i
    PROVE  Top({Item(r, ds, j) : j \in hit}).d = ds[i]
<1> DEFINE N == Len(ds)
           S == {Item(r, ds, j) : j \in hit}
           t == Item(r, ds, i)
           IsTop(x) == \A y \in S \ {x} : Outranks(x.rank, y.rank)
<1>1. N \in Nat /\ hit \in SUBSET (1..N)
  BY DEF Ranked, IsList
<1>2. \A j \in 1..N : Item(r, ds, j).rank = r[j] /\ Item(r, ds, j).d = ds[j]
  BY DEF Item
<1>3. IsTop(t)
  <2> SUFFICES ASSUME NEW j \in hit, Item(r, ds, j) # t
               PROVE  Outranks(t.rank, Item(r, ds, j).rank)
    OBVIOUS
  <2>1. j # i
    OBVIOUS
  <2>2. j < i /\ i \in 1..N /\ j \in 1..N
    BY <1>1, <2>1
  <2>3. Outranks(r[i], r[j])
    BY <2>2 DEF Ranked
  <2> QED
    BY <1>2, <2>2, <2>3
<1>4. ASSUME NEW x \in S, IsTop(x)
      PROVE  x = t
  <2> SUFFICES ASSUME x # t
               PROVE  FALSE
    OBVIOUS
  <2>1. Outranks(x.rank, t.rank) /\ Outranks(t.rank, x.rank)
    BY <1>3, <1>4
  <2>2. PICK j \in hit : x = Item(r, ds, j)
    OBVIOUS
  <2>3. x.rank = r[j] /\ t.rank = r[i] /\ IsRank(r[i]) /\ IsRank(r[j])
    BY <1>1, <1>2, <2>2 DEF Ranked
  <2> QED
    BY <2>1, <2>3 DEF Outranks, IsRank
<1>5. Top(S) = CHOOSE x \in S : IsTop(x)
  BY DEF Top
<1>6. t \in S
  OBVIOUS
<1> HIDE DEF S, t, IsTop
<1>7. Top(S) = t
  BY <1>3, <1>4, <1>5, <1>6
<1>8. t.d = ds[i]
  BY <1>1, <1>2 DEF t
<1> QED
  BY <1>7, <1>8 DEF S

\* What each declaration of some kind sets, and nothing else, is decided by the
\* ranks.
LEMMA LastDecides ==
    ASSUME NEW ds, NEW r, NEW X, Ranked(ds, r, X), NEW hit \in SUBSET (1..Len(ds)), NEW v,
           SetBy(v, hit, [n \in 1..Len(ds) |-> ds[n].value], Len(ds))
    PROVE  Decides({Item(r, ds, j) : j \in hit}, v[Len(ds)], v[0])
<1> DEFINE N == Len(ds)
           S == {Item(r, ds, j) : j \in hit}
           val == [n \in 1..N |-> ds[n].value]
<1>1. N \in Nat /\ hit \in SUBSET (1..N)
  BY DEF Ranked, IsList
<1>2. SetBy(v, hit, val, N)
  OBVIOUS
<1> HIDE DEF N, val
<1>3. hit = {} => v[N] = v[0]
  BY ONLY <1>1, <1>2, LastHit
<1>4. \A i \in hit : (\A j \in hit : j <= i) => v[N] = val[i]
  BY ONLY <1>1, <1>2, LastHit
<1>5. CASE hit = {}
  <2>1. S = {} /\ v[N] = v[0]
    BY <1>3, <1>5
  <2> QED
    BY <2>1 DEF Decides, N
<1>6. CASE hit # {}
  <2>1. PICK i \in hit : \A j \in hit : j <= i
    BY <1>1, <1>6, Greatest
  <2>2. v[N] = val[i] /\ val[i] = ds[i].value
    BY <1>1, <1>4, <2>1 DEF val, N
  <2>3. Top(S).d = ds[i]
    BY <2>1, LastIsTop
  <2>4. S # {}
    BY <2>1
  <2> HIDE DEF S
  <2>5. Decides(S, v[N], v[0])
    BY <2>2, <2>3, <2>4 DEF Decides
  <2> QED
    BY <2>5 DEF S, N
<1> QED
  BY <1>5, <1>6

\* Two lists with their ranks are one, if all of the second outranks all of the
\* first.
LEMMA RankedJoined ==
    ASSUME NEW u, NEW p, NEW X, Ranked(u, p, X), NEW v, NEW q, NEW Y, Ranked(v, q, Y),
           \A x \in X, y \in Y : Outranks(y.rank, x.rank)
    PROVE  Ranked(u \o v, p \o q, X \cup Y)
<1> DEFINE M == Len(u)
           N == Len(v)
           w == u \o v
           r == p \o q
<1>0. Len(p) = M /\ Len(q) = N
  BY DEF Ranked
<1>1. Parts(w, u, M, v, N)
  BY JoinedLists DEF Ranked
<1>2. Parts(r, p, M, q, N)
  <2>1. IsList(p) /\ IsList(q)
    BY DEF Ranked
  <2>2. Parts(r, p, Len(p), q, Len(q))
    BY <2>1, JoinedLists
  <2> HIDE DEF M, N
  <2> QED
    BY <1>0, <2>2
<1> HIDE DEF M, N, w, r
<1>3. \A i \in 1..(M + N) : i \in 1..M \/ (i - M \in 1..N /\ i = M + (i - M))
  BY <1>1 DEF Parts
<1>4. /\ \A i \in 1..M : IsRank(p[i]) /\ Item(r, w, i) = Item(p, u, i) /\ Item(p, u, i) \in X
      /\ \A i \in 1..N : IsRank(q[i]) /\ Item(r, w, M + i) = Item(q, v, i) /\ Item(q, v, i) \in Y
  BY <1>1, <1>2 DEF Ranked, M, N, Item, Parts
<1>5. \A i \in 1..(M + N) : IsRank(r[i])
  BY <1>2, <1>3, <1>4 DEF Parts
<1>6. ASSUME NEW i \in 1..(M + N), NEW j \in 1..(M + N), i < j
      PROVE  Outranks(r[j], r[i])
  <2>1. CASE i \in 1..M /\ j \in 1..M
    <3>1. Outranks(p[j], p[i])
      BY <1>6, <2>1 DEF Ranked, M
    <3> QED
      BY <1>2, <2>1, <3>1 DEF Parts
  <2>2. CASE i \in 1..M /\ j \notin 1..M
    <3>1. j - M \in 1..N /\ r[j] = q[j - M] /\ r[i] = p[i]
      BY <1>2, <1>3, <2>2 DEF Parts
    <3>2. Item(p, u, i) \in X /\ Item(q, v, j - M) \in Y
      BY <1>4, <2>2, <3>1
    <3>3. Item(p, u, i).rank = p[i] /\ Item(q, v, j - M).rank = q[j - M]
      BY DEF Item
    <3> QED
      BY <3>1, <3>2, <3>3
  <2>3. CASE i \notin 1..M
    <3>1. /\ i - M \in 1..N /\ j - M \in 1..N /\ i - M < j - M
          /\ r[i] = q[i - M] /\ r[j] = q[j - M]
      BY <1>1, <1>2, <1>3, <1>6, <2>3 DEF Parts
    <3>2. Outranks(q[j - M], q[i - M])
      BY <3>1 DEF Ranked, N
    <3> QED
      BY <3>1, <3>2
  <2> QED
    BY <2>1, <2>2, <2>3
<1>7. X \cup Y = {Item(r, w, i) : i \in 1..(M + N)}
  <2>1. X = {Item(p, u, i) : i \in 1..M} /\ Y = {Item(q, v, i) : i \in 1..N}
    BY DEF Ranked, M, N
  <2>2. \A i \in 1..M : i \in 1..(M + N)
    BY <1>1 DEF Parts
  <2>3. \A i \in 1..N : M + i \in 1..(M + N)
    BY <1>1 DEF Parts
  <2>4. ASSUME NEW x \in X \cup Y
        PROVE  x \in {Item(r, w, i) : i \in 1..(M + N)}
    <3>1. CASE x \in X
      BY <1>4, <2>1, <2>2, <3>1
    <3>2. CASE x \in Y
      <4>1. PICK i \in 1..N : x = Item(q, v, i)
        BY <2>1, <3>2
      <4>2. x = Item(r, w, M + i)
        BY <1>4, <4>1
      <4> QED
        BY <2>3, <4>2
    <3> QED
      BY <3>1, <3>2
  <2>5. ASSUME NEW i \in 1..(M + N)
        PROVE  Item(r, w, i) \in X \cup Y
    <3>1. CASE i \in 1..M
      BY <1>4, <3>1
    <3>2. CASE i \notin 1..M
      <4>1. i - M \in 1..N /\ i = M + (i - M)
        BY <1>3, <3>2
      <4>2. Item(r, w, M + (i - M)) = Item(q, v, i - M) /\ Item(q, v, i - M) \in Y
        BY <1>4, <4>1
      <4> QED
        BY <4>1, <4>2
    <3> QED
      BY <3>1, <3>2
  <2> QED
    BY <2>4, <2>5
<1> QED
  BY <1>1, <1>2, <1>5, <1>6, <1>7 DEF Ranked, w, r, Parts

\* The declarations of one rule, of some specificity and at some place.
RuleItems(c, i, ds) == {[rank |-> << c, i, j >>, d |-> ds[j]] : j \in DOMAIN ds}

LEMMA RankedRule ==
    ASSUME NEW ds, IsList(ds), NEW c \in Int, NEW i \in Int
    PROVE  Ranked(ds, [j \in 1..Len(ds) |-> << c, i, j >>], RuleItems(c, i, ds))
<1> DEFINE N == Len(ds)
           r == [j \in 1..N |-> << c, i, j >>]
<1>1. N \in Nat /\ DOMAIN ds = 1..N
  BY ListIsSeq
<1>2. r = [j \in 1..N |-> r[j]] /\ \A j \in 1..N : r[j] = << c, i, j >>
  OBVIOUS
<1> HIDE DEF r, N
<1>3. IsList(r) /\ Len(r) = N
  BY <1>1, <1>2, ListOfFunction
<1>4. \A j \in 1..N : IsRank(r[j]) /\ r[j][1] = c /\ r[j][2] = i /\ r[j][3] = j
  BY <1>1, <1>2 DEF IsRank
<1>5. \A j, k \in 1..N : j < k => Outranks(r[k], r[j])
  BY <1>1, <1>4 DEF Outranks
<1>6. RuleItems(c, i, ds) = {Item(r, ds, j) : j \in 1..N}
  BY <1>1, <1>2 DEF RuleItems, Item
<1> QED
  BY <1>3, <1>4, <1>5, <1>6 DEF Ranked, r, N

LEMMA RankedNothing == Ranked(<< >>, << >>, {})
<1>1. Len(<< >>) = 0 /\ IsList(<< >>) /\ 1..0 = {}
  BY DEF IsList
<1>2. \A i \in 1..Len(<< >>) : FALSE
  BY <1>1
<1> QED
  BY <1>1, <1>2 DEF Ranked

\* The declarations of the first n rules with a selector of some kind that match.
Matches(rule, kind, names) == rule.kind = kind /\ rule.name \in names

Level(rules, kind, names, c, n) ==
    UNION {RuleItems(c, i, rules[i].decls) : i \in {k \in 1..n : Matches(rules[k], kind, names)}}

LEMMA LevelItems ==
    ASSUME NEW rules, NEW kind, NEW names, NEW c \in Int, NEW n \in Nat,
           NEW x \in Level(rules, kind, names, c, n)
    PROVE  x.rank[1] = c /\ x.rank[2] \in 1..n
BY DEF Level, RuleItems

LEMMA NextLevel ==
    ASSUME NEW rules, NEW kind, NEW names, NEW c \in Int, NEW n \in Nat \ {0}
    PROVE  Level(rules, kind, names, c, n) =
             Level(rules, kind, names, c, n - 1)
               \cup (IF Matches(rules[n], kind, names) THEN RuleItems(c, n, rules[n].decls) ELSE {})
<1> DEFINE I(m) == {k \in 1..m : Matches(rules[k], kind, names)}
           R(i) == RuleItems(c, i, rules[i].decls)
           L(m) == Level(rules, kind, names, c, m)
<1>1. ASSUME NEW m, NEW x
      PROVE  x \in L(m) <=> \E i \in I(m) : x \in R(i)
  BY DEF Level
<1>2. I(n) = I(n - 1) \cup (IF Matches(rules[n], kind, names) THEN {n} ELSE {})
  OBVIOUS
<1> HIDE DEF I, L, R
<1>3. ASSUME NEW x
      PROVE  x \in L(n) <=> x \in L(n - 1) \cup (IF Matches(rules[n], kind, names) THEN R(n) ELSE {})
  BY <1>1, <1>2
<1>4. L(n) = L(n - 1) \cup (IF Matches(rules[n], kind, names) THEN R(n) ELSE {})
  BY <1>3
<1> QED
  BY <1>4 DEF L, R

LEMMA RankedMatching ==
    ASSUME NEW rules, AreRules(rules), NEW kind, NEW names, NEW c \in Int
    PROVE  \E r : Ranked(Matching(rules, kind, names), r, Level(rules, kind, names, c, Len(rules)))
<1> DEFINE N == Len(rules)
           L(n) == Level(rules, kind, names, c, n)
           M(n) == Matches(rules[n], kind, names)
           ss == [i \in DOMAIN rules |->
                    IF rules[i].kind = kind /\ rules[i].name \in names THEN rules[i].decls ELSE << >>]
           V == UNION {{rules[i].decls[j] : j \in 1..Len(rules[i].decls)} : i \in 1..N}
<1>1. N \in Nat /\ DOMAIN rules = 1..N
  BY ListIsSeq DEF AreRules
<1>2. \A i \in 1..N : IsList(rules[i].decls)
  BY DEF AreRules, Declared
<1>3. \A i \in 1..N : ss[i] = IF M(i) THEN rules[i].decls ELSE << >>
  BY <1>1 DEF Matches
<1>4. ss = [i \in 1..N |-> ss[i]]
  BY <1>1
<1>5. Matching(rules, kind, names) = FlattenSeq(ss)
  BY DEF Matching
<1>6. \A i \in 1..N : \A j \in 1..Len(rules[i].decls) : rules[i].decls[j] \in V
  OBVIOUS
<1> HIDE DEF ss, V
<1>7. \A i \in 1..N : ss[i] \in Seq(V)
  <2> SUFFICES ASSUME NEW i \in 1..N
               PROVE  ss[i] \in Seq(V)
    OBVIOUS
  <2>1. rules[i].decls \in Seq(V) /\ << >> \in Seq(V)
    BY <1>2, <1>6, ListOf
  <2> QED
    BY <1>3, <2>1
<1>8. IsList(ss) /\ Len(ss) = N
  <2> HIDE DEF N
  <2> QED
    BY <1>1, <1>4, ListOfFunction
<1>9. CASE N = 0
  <2>1. FlattenSeq(ss) = << >>
    BY <1>4, <1>8, <1>9 DEF FlattenSeq
  <2>2. L(0) = {}
    BY DEF Level
  <2> HIDE DEF N, L
  <2> QED
    BY <1>5, <1>9, <2>1, <2>2, RankedNothing DEF L, N
<1>10. CASE N # 0
  <2>1. PICK f : Flattens(f, ss, N) /\ FlattenSeq(ss) = f[N]
    <3> HIDE DEF N
    <3> QED
      BY <1>7, <1>8, <1>10, FlattenSteps
  <2> HIDE DEF N
  <2> DEFINE T == {n \in 0..N : n = 0 \/ \E r : Ranked(f[n], r, L(n))}
  <2>2. 0 \in T
    BY <1>1
  <2>3. ASSUME NEW n \in 1..N, n - 1 \in T
        PROVE  n \in T
    <3>1. \E q : Ranked(ss[n], q, IF M(n) THEN RuleItems(c, n, rules[n].decls) ELSE {})
      <4>1. CASE M(n)
        <5> DEFINE ds == rules[n].decls
                   q == [j \in 1..Len(ds) |-> << c, n, j >>]
        <5>0. IsList(ds) /\ n \in Int
          BY <1>2
        <5> HIDE DEF ds
        <5>2. Ranked(ds, q, RuleItems(c, n, ds))
          BY <5>0, RankedRule
        <5> HIDE DEF q
        <5>1. \E p : Ranked(rules[n].decls, p, RuleItems(c, n, rules[n].decls))
          BY <5>2 DEF ds
        <5> QED
          BY <1>3, <4>1, <5>1
      <4>2. CASE ~M(n)
        BY <1>3, <4>2, RankedNothing
      <4> QED
        BY <4>1, <4>2
    <3> DEFINE Y == IF M(n) THEN RuleItems(c, n, rules[n].decls) ELSE {}
    <3>2. L(n) = L(n - 1) \cup Y
      BY NextLevel
    <3>3. PICK q : Ranked(ss[n], q, Y)
      BY <3>1
    <3>4. \A x \in L(n - 1), y \in Y : Outranks(y.rank, x.rank)
      <4> SUFFICES ASSUME NEW x \in L(n - 1), NEW y \in Y
                   PROVE  Outranks(y.rank, x.rank)
        OBVIOUS
      <4>1. x.rank[1] = c /\ x.rank[2] \in 1..(n - 1)
        BY LevelItems
      <4>2. y.rank[1] = c /\ y.rank[2] = n
        BY DEF RuleItems
      <4> QED
        BY <4>1, <4>2 DEF Outranks
    <3> HIDE DEF Y
    <3>5. CASE n = 1
      <4>1. f[n] = ss[n]
        BY <2>1, <3>5 DEF Flattens
      <4>2. L(n - 1) = {}
        BY <3>5 DEF Level
      <4>3. L(n) = Y
        BY <3>2, <4>2
      <4> HIDE DEF L
      <4> QED
        BY <3>3, <4>1, <4>3
    <3>6. CASE n # 1
      <4>0. n \in 2..N
        BY <1>1, <3>6
      <4>1. f[n] = f[n - 1] \o ss[n]
        BY <2>1, <4>0 DEF Flattens
      <4>2. PICK p : Ranked(f[n - 1], p, L(n - 1))
        BY <2>3, <3>6
      <4> HIDE DEF L
      <4>3. Ranked(f[n - 1] \o ss[n], p \o q, L(n - 1) \cup Y)
        BY <3>3, <3>4, <4>2, RankedJoined
      <4>4. Ranked(f[n], p \o q, L(n))
        BY <3>2, <4>1, <4>3
      <4> QED
        BY <4>4
    <3> QED
      BY <3>5, <3>6
  <2> HIDE DEF T
  <2>4. 0..N \subseteq T
    BY <1>1, <2>2, <2>3, UpTo
  <2>5. N \in T
    BY <1>1, <2>4
  <2> QED
    BY <1>5, <1>10, <2>1, <2>5 DEF T, N
<1> QED
  BY <1>9, <1>10

\* The declarations of a node's rules make up three levels, and its own a fourth.
LEMMA SpecificityIs ==
    ASSUME NEW rule, NEW node
    PROVE  /\ Specificity(rule, node) \in 0..3
           /\ Specificity(rule, node) = 1 <=> Matches(rule, "tag", {node.tag})
           /\ Specificity(rule, node) = 2 <=> Matches(rule, "class", node.attrs.class)
           /\ Specificity(rule, node) = 3 <=> Matches(rule, "id", {node.attrs.id})
<1>1. ASSUME rule.kind = "tag"
      PROVE  ~(rule.kind = "class") /\ ~(rule.kind = "id")
  BY <1>1
<1>2. ASSUME rule.kind = "class"
      PROVE  ~(rule.kind = "id")
  BY <1>2
<1> QED
  BY <1>1, <1>2 DEF Specificity, Matches

TagLevel(rules, node) == Level(rules, "tag", {node.tag}, 1, Len(rules))
ClassLevel(rules, node) == Level(rules, "class", node.attrs.class, 2, Len(rules))
IdLevel(rules, node) == Level(rules, "id", {node.attrs.id}, 3, Len(rules))
OwnLevel(node) == RuleItems(4, 0, Declarations(node.attrs.style))

LEMMA BearingIs ==
    ASSUME NEW rules, AreRules(rules), NEW node
    PROVE  Bearing(rules, node) =
             TagLevel(rules, node) \cup ClassLevel(rules, node) \cup IdLevel(rules, node)
               \cup OwnLevel(node)
<1> DEFINE N == Len(rules)
           S(i) == Specificity(rules[i], node)
           R(i) == {[rank |-> << S(i), i, j >>, d |-> rules[i].decls[j]] : j \in DOMAIN rules[i].decls}
           At(c, x) == \E i \in 1..N : S(i) = c /\ x \in R(i)
<1>1. DOMAIN rules = 1..N
  BY ListIsSeq DEF AreRules
<1>2. \A c, i : S(i) = c => R(i) = RuleItems(c, i, rules[i].decls)
  BY DEF RuleItems
<1>3. ASSUME NEW x
      PROVE  x \in Bearing(rules, node) <=> x \in OwnLevel(node) \/ \E i \in 1..N : S(i) > 0 /\ x \in R(i)
  <2> DEFINE m == {i \in DOMAIN rules : S(i) > 0}
  <2>1. Bearing(rules, node) = (UNION {R(i) : i \in m}) \cup OwnLevel(node)
    BY Zenon DEF Bearing, OwnLevel, RuleItems
  <2> HIDE DEF R, S
  <2>2. x \in UNION {R(i) : i \in m} <=> \E i \in m : x \in R(i)
    OBVIOUS
  <2> QED
    BY <1>1, <2>1, <2>2
<1>4. \A i : S(i) \in 0..3
  BY SpecificityIs
<1>5. ASSUME NEW x
      PROVE  x \in TagLevel(rules, node) <=> At(1, x)
  <2>1. x \in TagLevel(rules, node) <=>
          \E i \in 1..N : Matches(rules[i], "tag", {node.tag}) /\ x \in RuleItems(1, i, rules[i].decls)
    BY DEF TagLevel, Level
  <2>2. \A i : S(i) = 1 <=> Matches(rules[i], "tag", {node.tag})
    BY SpecificityIs
  <2> HIDE DEF R, S
  <2> QED
    BY <1>2, <2>1, <2>2
<1>6. ASSUME NEW x
      PROVE  x \in ClassLevel(rules, node) <=> At(2, x)
  <2>1. x \in ClassLevel(rules, node) <=>
          \E i \in 1..N : Matches(rules[i], "class", node.attrs.class) /\ x \in RuleItems(2, i, rules[i].decls)
    BY DEF ClassLevel, Level
  <2>2. \A i : S(i) = 2 <=> Matches(rules[i], "class", node.attrs.class)
    BY SpecificityIs
  <2> HIDE DEF R, S
  <2> QED
    BY <1>2, <2>1, <2>2
<1>7. ASSUME NEW x
      PROVE  x \in IdLevel(rules, node) <=> At(3, x)
  <2>1. x \in IdLevel(rules, node) <=>
          \E i \in 1..N : Matches(rules[i], "id", {node.attrs.id}) /\ x \in RuleItems(3, i, rules[i].decls)
    BY DEF IdLevel, Level
  <2>2. \A i : S(i) = 3 <=> Matches(rules[i], "id", {node.attrs.id})
    BY SpecificityIs
  <2> HIDE DEF R, S
  <2> QED
    BY <1>2, <2>1, <2>2
<1> HIDE DEF R, S
<1>8. ASSUME NEW x
      PROVE  (\E i \in 1..N : S(i) > 0 /\ x \in R(i)) <=> At(1, x) \/ At(2, x) \/ At(3, x)
  <2>1. \A i : S(i) > 0 <=> S(i) = 1 \/ S(i) = 2 \/ S(i) = 3
    BY <1>4
  <2> QED
    BY <2>1
<1> HIDE DEF At
<1>9. ASSUME NEW x
      PROVE  x \in Bearing(rules, node) <=>
                x \in TagLevel(rules, node) \cup ClassLevel(rules, node) \cup IdLevel(rules, node)
                        \cup OwnLevel(node)
  BY <1>3, <1>5, <1>6, <1>7, <1>8
<1> QED
  BY <1>9

LEMMA RankedAll ==
    ASSUME NEW rules, AreRules(rules), NEW node, AreDeclarations(node.attrs.style)
    PROVE  \E r : Ranked(AllDeclarations(rules, node), r, Bearing(rules, node))
<1> DEFINE a == Matching(rules, "tag", {node.tag})
           b == Matching(rules, "class", node.attrs.class)
           e == Matching(rules, "id", {node.attrs.id})
           own == Declarations(node.attrs.style)
           A == TagLevel(rules, node)
           B == ClassLevel(rules, node)
           E == IdLevel(rules, node)
           Own == OwnLevel(node)
<1>1. PICK p : Ranked(a, p, A)
  BY RankedMatching DEF TagLevel
<1>2. PICK q : Ranked(b, q, B)
  BY RankedMatching DEF ClassLevel
<1>3. PICK s : Ranked(e, s, E)
  BY RankedMatching DEF IdLevel
<1>4. PICK t : Ranked(own, t, Own)
  <2>1. IsList(own) /\ 0 \in Int /\ 4 \in Int
    BY DeclarationsOK DEF Declared
  <2> DEFINE t == [j \in 1..Len(own) |-> << 4, 0, j >>]
  <2> HIDE DEF own
  <2>2. Ranked(own, t, RuleItems(4, 0, own))
    BY <2>1, RankedRule
  <2> HIDE DEF t
  <2> QED
    BY <2>2 DEF OwnLevel, own
<1>5. /\ \A x \in A : x.rank[1] = 1
      /\ \A x \in B : x.rank[1] = 2
      /\ \A x \in E : x.rank[1] = 3
      /\ \A x \in Own : x.rank[1] = 4
  <2>1. Len(rules) \in Nat
    BY DEF AreRules, IsList
  <2>2. \A x \in A : x.rank[1] = 1
    BY <2>1, LevelItems DEF TagLevel
  <2>3. \A x \in B : x.rank[1] = 2
    BY <2>1, LevelItems DEF ClassLevel
  <2>4. \A x \in E : x.rank[1] = 3
    BY <2>1, LevelItems DEF IdLevel
  <2>5. \A x \in Own : x.rank[1] = 4
    BY DEF OwnLevel, RuleItems
  <2> QED
    BY <2>2, <2>3, <2>4, <2>5
<1>6. AllDeclarations(rules, node) = a \o b \o e \o own
  BY DEF AllDeclarations
<1>7. Bearing(rules, node) = A \cup B \cup E \cup Own
  BY BearingIs
<1> HIDE DEF a, b, e, own, A, B, E, Own
<1>8. Ranked(a \o b, p \o q, A \cup B)
  <2>1. \A x \in A, y \in B : Outranks(y.rank, x.rank)
    BY <1>5 DEF Outranks
  <2> QED
    BY <1>1, <1>2, <2>1, RankedJoined
<1>9. Ranked(a \o b \o e, p \o q \o s, A \cup B \cup E)
  <2>1. \A x \in A \cup B, y \in E : Outranks(y.rank, x.rank)
    BY <1>5 DEF Outranks
  <2> QED
    BY <1>3, <1>8, <2>1, RankedJoined
<1>10. Ranked(a \o b \o e \o own, p \o q \o s \o t, A \cup B \cup E \cup Own)
  <2>1. \A x \in A \cup B \cup E, y \in Own : Outranks(y.rank, x.rank)
    BY <1>5 DEF Outranks
  <2> QED
    BY <1>4, <1>9, <2>1, RankedJoined
<1> QED
  BY <1>6, <1>7, <1>10

\* What one declaration does to each part of a style.
Keys == DOMAIN DefaultStyle
BoxKeys == {"padding", "margin"}
PlainKeys == Keys \ {"padding", "margin", "border"}
FillKeys == {"border", "border-color"}
LineKeys == {"border-style"}
BorderKeys == {"border", "border-color", "border-style"}

IsStyle(a) ==
    /\ DOMAIN a = Keys
    /\ DOMAIN a.border = {"on", "fg", "chars"}

Takes(r, a, d) ==
    /\ \A k \in PlainKeys : r[k] = IF d.key = k THEN d.value ELSE a[k]
    /\ \A k \in BoxKeys, s \in Sides :
          r[k][s] = IF d.key = k /\ d.side \in {"all", s} THEN d.value ELSE a[k][s]
    /\ r.border.fg = IF d.key \in FillKeys THEN d.value ELSE a.border.fg
    /\ r.border.chars = IF d.key \in LineKeys THEN d.value ELSE a.border.chars
    /\ r.border.on = IF d.key \in BorderKeys THEN TRUE ELSE a.border.on

LEMMA KeysAre ==
    /\ "padding" \in Keys /\ "margin" \in Keys /\ "border" \in Keys
    /\ "border-color" \notin Keys /\ "border-style" \notin Keys /\ "unknown" \notin Keys
BY DEF Keys, DefaultStyle

LEMMA TakesAll ==
    ASSUME NEW a, IsStyle(a), NEW d
    PROVE  IsStyle(Applied(a, d)) /\ Takes(Applied(a, d), a, d)
<1> DEFINE r == Applied(a, d)
<1>0. DOMAIN a = Keys /\ DOMAIN a.border = {"on", "fg", "chars"}
  BY DEF IsStyle
<1>1. CASE d.key \in BoxKeys
  <2>1. r = [a EXCEPT ![d.key] = [s \in Sides |-> IF d.side \in {"all", s} THEN d.value ELSE @[s]]]
    BY <1>1 DEF Applied, BoxKeys
  <2>2. d.key \in Keys /\ d.key \notin PlainKeys /\ d.key # "border" /\ d.key \notin BorderKeys
        /\ d.key \notin LineKeys /\ d.key \notin FillKeys
    BY <1>1, KeysAre DEF BoxKeys, PlainKeys, BorderKeys, LineKeys, FillKeys
  <2>3. DOMAIN r = Keys /\ \A k \in Keys : k # d.key => r[k] = a[k]
    BY <1>0, <2>1
  <2>4. r[d.key] = [s \in Sides |-> IF d.side \in {"all", s} THEN d.value ELSE a[d.key][s]]
    BY <1>0, <2>1, <2>2
  <2>5. "border" \in Keys /\ PlainKeys \subseteq Keys /\ BoxKeys \subseteq Keys
    BY KeysAre DEF PlainKeys, BoxKeys
  <2> HIDE DEF r
  <2>6. r.border = a.border
    BY <2>2, <2>3, <2>5
  <2>7. \A k \in PlainKeys : r[k] = a[k] /\ k # d.key
    BY <2>2, <2>3, <2>5
  <2>8. \A k \in BoxKeys, s \in Sides :
          r[k][s] = IF d.key = k /\ d.side \in {"all", s} THEN d.value ELSE a[k][s]
    BY <2>3, <2>4, <2>5
  <2>9. IsStyle(r) /\ Takes(r, a, d)
    BY <1>0, <2>2, <2>3, <2>6, <2>7, <2>8 DEF IsStyle, Takes
  <2> QED
    BY <2>9 DEF r
<1>2. CASE d.key \in BorderKeys
  <2> DEFINE b == a.border
             e == IF d.key \in FillKeys THEN [b EXCEPT !.on = TRUE, !.fg = d.value]
                                     ELSE [b EXCEPT !.on = TRUE, !.chars = d.value]
  <2>1. r = [a EXCEPT !.border = e]
    <3>1. d.key \notin {"padding", "margin"}
      BY <1>2 DEF BorderKeys
    <3>2. CASE d.key \in FillKeys
      BY <3>1, <3>2 DEF Applied, FillKeys
    <3>3. CASE d.key \notin FillKeys
      BY <1>2, <3>1, <3>3 DEF Applied, FillKeys, BorderKeys
    <3> QED
      BY <3>2, <3>3
  <2>2. d.key \notin PlainKeys /\ d.key \notin BoxKeys /\ (d.key \in FillKeys <=> d.key \notin LineKeys)
    BY <1>2, KeysAre DEF BoxKeys, PlainKeys, BorderKeys, LineKeys, FillKeys
  <2>3. /\ DOMAIN e = {"on", "fg", "chars"} /\ e.on = TRUE
        /\ e.fg = (IF d.key \in FillKeys THEN d.value ELSE b.fg)
        /\ e.chars = (IF d.key \in FillKeys THEN b.chars ELSE d.value)
    BY <1>0
  <2>4. "border" \in Keys /\ PlainKeys \subseteq Keys /\ BoxKeys \subseteq Keys
        /\ "border" \notin PlainKeys /\ "border" \notin BoxKeys
    BY KeysAre DEF PlainKeys, BoxKeys
  <2> HIDE DEF e
  <2>5. DOMAIN r = Keys /\ r.border = e /\ \A k \in Keys : k # "border" => r[k] = a[k]
    BY <1>0, <2>1, <2>4
  <2> HIDE DEF r
  <2>6. \A k \in PlainKeys : r[k] = a[k] /\ k # d.key
    BY <2>2, <2>4, <2>5
  <2>7. \A k \in BoxKeys : r[k] = a[k] /\ k # d.key
    BY <2>2, <2>4, <2>5
  <2>8. IsStyle(r)
    BY <2>3, <2>5 DEF IsStyle
  <2>9. Takes(r, a, d)
    BY <1>2, <2>2, <2>3, <2>5, <2>6, <2>7 DEF Takes
  <2> QED
    BY <2>8, <2>9 DEF r
<1>3. CASE d.key \notin BoxKeys /\ d.key \notin BorderKeys
  <2>1. r = IF d.key = "unknown" THEN a ELSE [a EXCEPT ![d.key] = d.value]
    BY <1>3 DEF Applied, BoxKeys, BorderKeys
  <2>2. d.key \notin LineKeys /\ d.key \notin FillKeys /\ d.key # "border"
    BY <1>3 DEF BorderKeys, LineKeys, FillKeys
  <2>3. "border" \in Keys /\ PlainKeys \subseteq Keys /\ BoxKeys \subseteq Keys /\ "unknown" \notin PlainKeys
        /\ "border" \notin PlainKeys
    BY KeysAre DEF PlainKeys, BoxKeys
  <2>4. DOMAIN r = Keys /\ (\A k \in Keys : k # d.key => r[k] = a[k])
    BY <1>0, <2>1
  <2>5. \A k \in PlainKeys : k = d.key => r[k] = d.value
    BY <1>0, <2>1, <2>3
  <2> HIDE DEF r
  <2>6. r.border = a.border
    BY <2>2, <2>3, <2>4
  <2>7. \A k \in BoxKeys : r[k] = a[k] /\ k # d.key
    BY <1>3, <2>3, <2>4
  <2>8. IsStyle(r)
    BY <1>0, <2>4, <2>6 DEF IsStyle
  <2>9. \A k \in PlainKeys : r[k] = IF d.key = k THEN d.value ELSE a[k]
    BY <2>3, <2>4, <2>5
  <2>10. Takes(r, a, d)
    BY <1>3, <2>2, <2>6, <2>7, <2>9 DEF Takes
  <2> QED
    BY <2>8, <2>10 DEF r
<1> QED
  BY <1>1, <1>2, <1>3

\* A value that the declarations in P set, and no other, is decided by the ranks.
Settles(v, ds, P) ==
    \A n \in 1..Len(ds) : (ds[n] \in P => v[n] = ds[n].value) /\ (ds[n] \notin P => v[n] = v[n - 1])

In(X, P) == {x \in X : x.d \in P}

LEMMA ItemsIn ==
    ASSUME NEW ds, NEW r, NEW X, Ranked(ds, r, X), NEW P
    PROVE  In(X, P) = {Item(r, ds, j) : j \in {i \in 1..Len(ds) : ds[i] \in P}}
<1>1. X = {Item(r, ds, i) : i \in 1..Len(ds)}
  BY DEF Ranked
<1>2. \A i : Item(r, ds, i).d = ds[i]
  BY DEF Item
<1> QED
  BY <1>1, <1>2 DEF In

LEMMA SettledDecides ==
    ASSUME NEW ds, NEW r, NEW X, Ranked(ds, r, X), NEW P, NEW v, Settles(v, ds, P)
    PROVE  Decides(In(X, P), v[Len(ds)], v[0])
<1> DEFINE hit == {i \in 1..Len(ds) : ds[i] \in P}
           val == [n \in 1..Len(ds) |-> ds[n].value]
<1>1. SetBy(v, hit, val, Len(ds))
  BY DEF Settles, SetBy
<1>2. hit \in SUBSET (1..Len(ds))
  OBVIOUS
<1>3. In(X, P) = {Item(r, ds, j) : j \in hit}
  BY ItemsIn
<1> HIDE DEF hit
<1>4. Decides({Item(r, ds, j) : j \in hit}, v[Len(ds)], v[0])
  BY <1>1, <1>2, LastDecides
<1> QED
  BY <1>3, <1>4

\* A flag that the declarations in P raise is up if there is one.
Raised(v, ds, P) ==
    \A n \in 1..Len(ds) : (ds[n] \in P => v[n] = TRUE) /\ (ds[n] \notin P => v[n] = v[n - 1])

LEMMA SettledFlag ==
    ASSUME NEW ds, NEW r, NEW X, Ranked(ds, r, X), NEW P, NEW v, v[0] = FALSE, Raised(v, ds, P)
    PROVE  v[Len(ds)] = (In(X, P) # {})
<1> DEFINE N == Len(ds)
           hit == {i \in 1..N : ds[i] \in P}
           val == [n \in 1..N |-> TRUE]
<1>1. N \in Nat
  BY DEF Ranked, IsList
<1>2. SetBy(v, hit, val, N)
  BY DEF SetBy, Raised
<1>3. hit \in SUBSET (1..N) /\ \A i \in hit : val[i] = TRUE
  OBVIOUS
<1>4. In(X, P) = {Item(r, ds, j) : j \in hit}
  BY ItemsIn
<1> HIDE DEF hit, val, N
<1>5. (hit = {} => v[N] = v[0]) /\ \A i \in hit : (\A j \in hit : j <= i) => v[N] = val[i]
  BY ONLY <1>1, <1>2, <1>3, LastHit
<1>6. CASE hit = {}
  BY <1>4, <1>5, <1>6 DEF N
<1>7. CASE hit # {}
  <2>1. PICK i \in hit : \A j \in hit : j <= i
    BY <1>1, <1>3, <1>7, Greatest
  <2>2. v[N] = TRUE
    BY <1>3, <1>5, <2>1
  <2>3. In(X, P) # {}
    BY <1>4, <2>1
  <2> QED
    BY <2>2, <2>3 DEF N
<1> QED
  BY <1>6, <1>7

LEMMA CascadesOK ==
    ASSUME NEW rules, AreRules(rules), NEW node, AreDeclarations(node.attrs.style),
           node.style = Styled(rules, node)
    PROVE  Cascades(rules, node)
<1> DEFINE ds == AllDeclarations(rules, node)
           X == Bearing(rules, node)
           N == Len(ds)
           style == node.style
           About(keys) == {x \in X : x.d.key \in keys}
           AboutSide(key, s) == {x \in About({key}) : x.d.side \in {"all", s}}
           D == {ds[i] : i \in 1..N}
<1>1. PICK f : Applying!Steps(f, DefaultStyle, ds, N) /\ style = f[N]
  BY StyledSteps
<1>2. PICK r : Ranked(ds, r, X)
  BY RankedAll
<1>3. N \in Nat
  BY <1>2 DEF Ranked, IsList
<1>4. \A x \in X : x.d \in D
  BY <1>2 DEF Ranked, Item
<1> HIDE DEF ds, X, N, style
<1>5. f[0] = DefaultStyle /\ \A n \in 1..N : f[n] = Applied(f[n - 1], ds[n])
  BY <1>1 DEF Applying!Steps, AppliedOp
<1>6. \A n \in 0..N : IsStyle(f[n])
  <2> DEFINE T == {n \in 0..N : IsStyle(f[n])}
  <2>1. 0 \in T
    BY <1>3, <1>5 DEF IsStyle, Keys, DefaultStyle, NoBorder
  <2>2. ASSUME NEW n \in 1..N, n - 1 \in T
        PROVE  n \in T
    BY <1>5, <2>2, TakesAll
  <2> HIDE DEF T
  <2>3. 0..N \subseteq T
    BY <1>3, <2>1, <2>2, UpTo
  <2> QED
    BY <2>3 DEF T
<1>7. ASSUME NEW n \in 1..N
      PROVE  Takes(f[n], f[n - 1], ds[n]) /\ ds[n] \in D
  <2>1. n - 1 \in 0..N
    BY <1>3
  <2> QED
    BY <1>5, <1>6, <2>1, TakesAll
<1> HIDE DEF D
<1>13. \A n \in 1..N : n \in 0..N /\ n - 1 \in 0..N
  BY <1>3
<1>8. ASSUME NEW key \in PlainKeys
      PROVE  Decides(About({key}), style[key], DefaultStyle[key])
  <2> DEFINE P == {d \in D : d.key \in {key}}
             v == [n \in 0..N |-> f[n][key]]
  <2>1. Settles(v, ds, P)
    <3> SUFFICES ASSUME NEW n \in 1..N
                 PROVE  (ds[n] \in P => v[n] = ds[n].value) /\ (ds[n] \notin P => v[n] = v[n - 1])
      BY DEF Settles, N
    <3>1. v[n] = f[n][key] /\ v[n - 1] = f[n - 1][key]
      BY <1>13
    <3>2. ds[n] \in P <=> ds[n].key = key
      BY <1>7
    <3>3. f[n][key] = IF ds[n].key = key THEN ds[n].value ELSE f[n - 1][key]
      BY <1>7 DEF Takes
    <3> HIDE DEF P, v
    <3> QED
      BY <3>1, <3>2, <3>3
  <2>2. In(X, P) = About({key})
    BY <1>4 DEF In
  <2>3. v[N] = style[key] /\ v[0] = DefaultStyle[key]
    BY <1>1, <1>3, <1>5
  <2> HIDE DEF P, v
  <2>4. Decides(In(X, P), v[Len(ds)], v[0])
    BY <1>2, <2>1, SettledDecides
  <2> QED
    BY <2>2, <2>3, <2>4 DEF N
<1>9. ASSUME NEW key \in BoxKeys, NEW s \in Sides
      PROVE  Decides(AboutSide(key, s), style[key][s], 0)
  <2> DEFINE P == {d \in D : d.key \in {key} /\ d.side \in {"all", s}}
             v == [n \in 0..N |-> f[n][key][s]]
  <2>1. Settles(v, ds, P)
    <3> SUFFICES ASSUME NEW n \in 1..N
                 PROVE  (ds[n] \in P => v[n] = ds[n].value) /\ (ds[n] \notin P => v[n] = v[n - 1])
      BY DEF Settles, N
    <3>1. v[n] = f[n][key][s] /\ v[n - 1] = f[n - 1][key][s]
      BY <1>13
    <3>2. ds[n] \in P <=> ds[n].key = key /\ ds[n].side \in {"all", s}
      BY <1>7
    <3>3. f[n][key][s] = IF ds[n].key = key /\ ds[n].side \in {"all", s} THEN ds[n].value ELSE f[n - 1][key][s]
      <4>1. Takes(f[n], f[n - 1], ds[n])
        BY <1>7
      <4> QED
        BY ONLY <4>1, key \in BoxKeys, s \in Sides DEF Takes
    <3> HIDE DEF P, v
    <3> QED
      BY <3>1, <3>2, <3>3
  <2>2. In(X, P) = AboutSide(key, s)
    BY <1>4 DEF In
  <2>3. v[N] = style[key][s] /\ v[0] = 0
    BY <1>1, <1>3, <1>5 DEF DefaultStyle, BoxKeys
  <2> HIDE DEF P, v
  <2>4. Decides(In(X, P), v[Len(ds)], v[0])
    BY <1>2, <2>1, SettledDecides
  <2> QED
    BY <2>2, <2>3, <2>4 DEF N
<1>10. Decides(About(FillKeys), style.border.fg, "reset")
  <2> DEFINE P == {d \in D : d.key \in FillKeys}
             v == [n \in 0..N |-> f[n].border.fg]
  <2>1. Settles(v, ds, P)
    <3> SUFFICES ASSUME NEW n \in 1..N
                 PROVE  (ds[n] \in P => v[n] = ds[n].value) /\ (ds[n] \notin P => v[n] = v[n - 1])
      BY DEF Settles, N
    <3>1. v[n] = f[n].border.fg /\ v[n - 1] = f[n - 1].border.fg
      BY <1>13
    <3>2. ds[n] \in P <=> ds[n].key \in FillKeys
      BY <1>7
    <3>3. f[n].border.fg = IF ds[n].key \in FillKeys THEN ds[n].value ELSE f[n - 1].border.fg
      BY <1>7 DEF Takes
    <3> HIDE DEF P, v
    <3> QED
      BY <3>1, <3>2, <3>3
  <2>2. In(X, P) = About(FillKeys)
    BY <1>4 DEF In
  <2>3. v[N] = style.border.fg /\ v[0] = "reset"
    BY <1>1, <1>3, <1>5 DEF DefaultStyle, NoBorder
  <2> HIDE DEF P, v
  <2>4. Decides(In(X, P), v[Len(ds)], v[0])
    BY <1>2, <2>1, SettledDecides
  <2> QED
    BY <2>2, <2>3, <2>4 DEF N
<1>11. Decides(About(LineKeys), style.border.chars, "single")
  <2> DEFINE P == {d \in D : d.key \in LineKeys}
             v == [n \in 0..N |-> f[n].border.chars]
  <2>1. Settles(v, ds, P)
    <3> SUFFICES ASSUME NEW n \in 1..N
                 PROVE  (ds[n] \in P => v[n] = ds[n].value) /\ (ds[n] \notin P => v[n] = v[n - 1])
      BY DEF Settles, N
    <3>1. v[n] = f[n].border.chars /\ v[n - 1] = f[n - 1].border.chars
      BY <1>13
    <3>2. ds[n] \in P <=> ds[n].key \in LineKeys
      BY <1>7
    <3>3. f[n].border.chars = IF ds[n].key \in LineKeys THEN ds[n].value ELSE f[n - 1].border.chars
      BY <1>7 DEF Takes
    <3> HIDE DEF P, v
    <3> QED
      BY <3>1, <3>2, <3>3
  <2>2. In(X, P) = About(LineKeys)
    BY <1>4 DEF In
  <2>3. v[N] = style.border.chars /\ v[0] = "single"
    BY <1>1, <1>3, <1>5 DEF DefaultStyle, NoBorder
  <2> HIDE DEF P, v
  <2>4. Decides(In(X, P), v[Len(ds)], v[0])
    BY <1>2, <2>1, SettledDecides
  <2> QED
    BY <2>2, <2>3, <2>4 DEF N
<1>12. style.border.on = (About(BorderKeys) # {})
  <2> DEFINE P == {d \in D : d.key \in BorderKeys}
             v == [n \in 0..N |-> f[n].border.on]
  <2>1. Raised(v, ds, P)
    <3> SUFFICES ASSUME NEW n \in 1..N
                 PROVE  (ds[n] \in P => v[n] = TRUE) /\ (ds[n] \notin P => v[n] = v[n - 1])
      BY DEF Raised, N
    <3>1. v[n] = f[n].border.on /\ v[n - 1] = f[n - 1].border.on
      BY <1>13
    <3>2. ds[n] \in P <=> ds[n].key \in BorderKeys
      BY <1>7
    <3>3. f[n].border.on = IF ds[n].key \in BorderKeys THEN TRUE ELSE f[n - 1].border.on
      BY <1>7 DEF Takes
    <3> HIDE DEF P, v
    <3> QED
      BY <3>1, <3>2, <3>3
  <2>2. In(X, P) = About(BorderKeys)
    BY <1>4 DEF In
  <2>3. v[N] = style.border.on /\ v[0] = FALSE
    BY <1>1, <1>3, <1>5 DEF DefaultStyle, NoBorder
  <2> HIDE DEF P, v
  <2>4. v[Len(ds)] = (In(X, P) # {})
    BY <1>2, <2>1, <2>3, SettledFlag
  <2> QED
    BY <2>2, <2>3, <2>4 DEF N
<1> QED
  BY <1>8, <1>9, <1>10, <1>11, <1>12 DEF Cascades, PlainKeys, BoxKeys, Keys, FillKeys, LineKeys, BorderKeys, X, style

\* A style depends on the tag and the attributes of a node.
LEMMA StylesCascadeOver ==
    ASSUME NEW bare, NEW rules, AreRules(rules),
           \A n \in DOMAIN bare : AreDeclarations(bare[n].attrs.style)
    PROVE  \A n \in DOMAIN Styles(bare, rules) : Cascades(rules, Styles(bare, rules)[n])
<1> DEFINE nodes == Styles(bare, rules)
<1>1. ASSUME NEW n \in DOMAIN nodes
      PROVE  Cascades(rules, nodes[n])
  <2>1. n \in DOMAIN bare
    BY DEF Styles
  <2>2. /\ nodes[n].tag = bare[n].tag /\ nodes[n].attrs = bare[n].attrs
        /\ nodes[n].style = Styled(rules, bare[n])
    BY <2>1 DEF Styles
  <2> DEFINE node == nodes[n]
             b == bare[n]
  <2>3. AreDeclarations(b.attrs.style)
    BY <2>1
  <2> HIDE DEF nodes
  <2>4. node.tag = b.tag /\ node.attrs = b.attrs /\ node.style = Styled(rules, b)
    BY <2>2
  <2> HIDE DEF node, b
  <2>5. Styled(rules, node) = Styled(rules, b)
    BY <2>4, Zenon DEF Styled
  <2>6. AreDeclarations(node.attrs.style)
    BY <2>3, <2>4
  <2>7. Cascades(rules, node)
    BY <2>4, <2>5, <2>6, CascadesOK
  <2> QED
    BY <2>7 DEF node
<1> QED
  BY <1>1

LEMMA LoadedCascades ==
    ASSUME NEW s, IsSource(s), Document(s).ok
    PROVE  \A n \in DOMAIN Document(s).nodes : Cascades(Rules(Sheet(s)), Document(s).nodes[n])
<1> DEFINE bare == Parsed(s).nodes
           rules == Rules(Sheet(s))
<1>1. Document(s).nodes = Styles(bare, rules)
  BY DEF Document
<1>2. IsTree(bare) /\ \A n \in 1..Len(bare) : AreDeclarations(bare[n].attrs.style)
  BY ParsedTree
<1>3. AreRules(rules)
  BY SheetOK, RulesOK
<1> HIDE DEF bare, rules
<1>4. DOMAIN bare = 1..Len(bare)
  BY <1>2, ListIsSeq DEF IsTree
<1>5. \A n \in DOMAIN Styles(bare, rules) : Cascades(rules, Styles(bare, rules)[n])
  BY <1>2, <1>3, <1>4, StylesCascadeOver
<1> QED
  BY <1>1, <1>5 DEF rules

LEMMA NoRules == Rules(Sheet(<< >>)) = << >>
<1> DEFINE e == << >>
<1>1. DOMAIN e = {} /\ Len(e) = 0
  OBVIOUS
<1>2. Sheet(e) = << >>
  <2> DEFINE ss == [i \in DOMAIN e |-> IF e[i].kind = "style" THEN e[i].rules ELSE << >>]
  <2>1. ss = << >>
    BY <1>1
  <2>2. Sheet(e) = FlattenSeq(ss)
    BY DEF Sheet
  <2> HIDE DEF ss
  <2> QED
    BY <2>1, <2>2 DEF FlattenSeq
<1>3. Rules(e) = << >>
  <2> DEFINE I == {i \in 1..Len(e) : SelectInSeq(e[i].raw, Bad) # 0}
             first == IF I # {} THEN Min(I) ELSE 0
             good == IF first = 0 THEN e ELSE SubSeq(e, 1, first - 1)
             rules == [i \in DOMAIN good |->
                         [kind |-> good[i].kind, name |-> good[i].name, decls |-> Declarations(good[i].raw)]]
  <2>1. Rules(e) = rules
    BY DEF Rules, SelectInSeq
  <2>2. I = {}
    BY <1>1
  <2> HIDE DEF I
  <2>3. good = e
    BY <2>2
  <2> HIDE DEF good, e
  <2>4. rules = [i \in {} |-> rules[i]]
    BY <1>1, <2>3
  <2> HIDE DEF rules
  <2>5. rules = << >>
    BY <2>4
  <2> QED
    BY <2>1, <2>5
<1> QED
  BY <1>2, <1>3

\* The cascade holds of every document that a session has.
LEMMA StylesCascadeInit == Init => StylesCascade
<1> SUFFICES ASSUME Init
             PROVE  StylesCascade
  OBVIOUS
<1>1. source = << >> /\ doc = Styles(<< Root >>, << >>)
  BY DEF Init
<1>2. AreRules(<< >>)
  BY DEF AreRules, IsList
<1>3. \A n \in DOMAIN << Root >> : AreDeclarations(<< Root >>[n].attrs.style)
  <2>1. DOMAIN << Root >> = {1} /\ << Root >>[1] = Root
    OBVIOUS
  <2>2. AreDeclarations(Root.attrs.style)
    BY NoDeclarations DEF Root, Node, HasDeclarations
  <2> QED
    BY <2>1, <2>2
<1>4. \A n \in DOMAIN Styles(<< Root >>, << >>) : Cascades(<< >>, Styles(<< Root >>, << >>)[n])
  BY <1>2, <1>3, StylesCascadeOver
<1> QED
  BY <1>1, <1>4, NoRules DEF StylesCascade

LEMMA StylesCascadeStep ==
    ASSUME StylesCascade, [Next]_vars
    PROVE  StylesCascade'
<1>1. ASSUME NEW s \in Sources, Load(s)
      PROVE  StylesCascade'
  <2>1. IsSource(s)
    BY PageAssumption
  <2>2. source' = s
    BY <1>1 DEF Load
  <2>3. CASE Document(s).ok
    <3>1. doc' = Document(s).nodes
      BY <1>1, <2>3 DEF Load
    <3>2. \A n \in DOMAIN doc' : Cascades(Rules(Sheet(source')), doc'[n])
      BY <2>1, <2>2, <2>3, <3>1, LoadedCascades
    <3> QED
      BY <3>2 DEF StylesCascade
  <2>4. CASE ~Document(s).ok
    BY <2>2, <2>4 DEF StylesCascade
  <2> QED
    BY <2>3, <2>4
<1>2. ASSUME UNCHANGED << source, doc >>
      PROVE  StylesCascade'
  BY <1>2 DEF StylesCascade
<1>3. CASE Toggle
  <2>1. UNCHANGED << source, doc >>
    BY <1>3 DEF Toggle
  <2> QED
    BY <1>2, <2>1
<1>4. CASE Render
  <2>1. UNCHANGED << source, doc >>
    BY <1>4 DEF Render
  <2> QED
    BY <1>2, <2>1
<1>5. CASE Reconnect
  <2>1. UNCHANGED << source, doc >>
    BY <1>5 DEF Reconnect
  <2> QED
    BY <1>2, <2>1
<1>6. CASE UNCHANGED vars
  BY <1>2, <1>6 DEF vars
<1> QED
  BY <1>1, <1>3, <1>4, <1>5, <1>6 DEF Next

\* PROPERTY.  Every node of a session's document has the style that the cascade gives
\* it, for any style sheets and attributes: apply_styles, which goes over the rules in
\* a pass for each kind of selector, decides each property by specificity, then by
\* the place of the rule in the sheet, then by the place in the rule.
THEOREM StylesCascadeAlways == Spec => []StylesCascade
<1> QED
  BY StylesCascadeInit, StylesCascadeStep, PTL DEF Spec

-----------------------------------------------------------------------------
(* The display *)

LEMMA InScreen ==
    /\ \A q \in Screen : q = << q[1], q[2] >> /\ q[1] \in 0..(Cols - 1) /\ q[2] \in 0..(Rows - 1)
    /\ \A x \in 0..(Cols - 1), y \in 0..(Rows - 1) : << x, y >> \in Screen
    /\ Cols \in Nat \ {0} /\ Rows \in Nat \ {0}
BY PageAssumption DEF Screen

LEMMA Widths ==
    /\ Width(Space) = 1 /\ Width(Nul) = 0
    /\ \A c : Width(c) \in 0..2 /\ Step(c) \in 1..2 /\ (Width(c) > 0 => Step(c) = Width(c))
<1>1. \A c : Width(c) \in 0..2
  BY DEF Width
<1> QED
  BY <1>1, WidthAssumption DEF Step, Larger

IsDisplay(d) == DOMAIN d = {"cells", "fg", "bg", "bold", "at"} /\ DOMAIN d.cells = Screen

Left(q) == << q[1] - 1, q[2] >>
Right(q) == << q[1] + 1, q[2] >>

\* The halves on the display are those behind wide glyphs.
Halves(cells) ==
    \A q \in Screen :
       /\ cells[q].half <=> q[1] > 0 /\ Width(cells[Left(q)].ch) = 2
       /\ cells[q].half => cells[q].ch = Space

\* The cursor is in a line, perhaps behind its end.
InLine(at) == at = << at[1], at[2] >> /\ at[1] \in Nat /\ at[2] \in 0..(Rows - 1)

StruckAt(c, d, p, ch) ==
    /\ DOMAIN c = Screen
    /\ c[p] = Seen(ch, d.fg, d.bg, FALSE)
    /\ \A q \in Screen \ {p} :
          c[q] = IF Step(ch) = 2 /\ q = Right(p) THEN Seen(Space, d.fg, d.bg, TRUE) ELSE d.cells[q]

LEMMA StruckCells ==
    ASSUME NEW d, IsDisplay(d), NEW p \in Screen, NEW ch
    PROVE  StruckAt(Struck(d, p, ch), d, p, ch)
<1> DEFINE cells == d.cells
           u == Seen(ch, d.fg, d.bg, FALSE)
           v == Seen(Space, d.fg, d.bg, TRUE)
           r == Right(p)
           h == [cells EXCEPT ![p] = u]
           g == [h EXCEPT ![r] = IF Step(ch) = 2 THEN v ELSE cells[r]]
<1>1. Struck(d, p, ch) = [cells EXCEPT ![p] = u, ![r] = IF Step(ch) = 2 THEN v ELSE cells[r]]
  BY DEF Struck, Right
<1>2. r # p /\ DOMAIN cells = Screen
  BY InScreen DEF Right, IsDisplay
<1> HIDE DEF cells, u, v, r
<1>3. DOMAIN h = Screen /\ h[p] = u /\ \A q \in Screen \ {p} : h[q] = cells[q]
  BY <1>2
<1> HIDE DEF h
<1>4. DOMAIN g = Screen /\ (\A q \in Screen \ {r} : g[q] = h[q])
  BY <1>3
<1>5. r \in Screen => g[r] = IF Step(ch) = 2 THEN v ELSE h[r]
  BY <1>2, <1>3
<1> HIDE DEF g
<1> QED
  BY <1>1, <1>2, <1>3, <1>4, <1>5 DEF cells, u, v, r, StruckAt

LEMMA TornCells ==
    ASSUME NEW cells, DOMAIN cells = Screen, NEW p \in Screen, NEW w \in 1..2
    PROVE  LET g == Torn(cells, p, w)
           IN  /\ DOMAIN g = Screen
               /\ \A q \in Screen :
                     g[q] = IF (q = Left(p) /\ cells[p].half) \/ (q = << p[1] + w, p[2] >> /\ cells[q].half)
                              THEN Seen(Space, cells[q].fg, cells[q].bg, FALSE)
                              ELSE cells[q]
<1> DEFINE l == Left(p)
           r == << p[1] + w, p[2] >>
           Blank(c) == Seen(Space, c.fg, c.bg, FALSE)
           h == [cells EXCEPT ![l] = IF cells[p].half THEN Blank(@) ELSE @]
           g == [h EXCEPT ![r] = IF cells[r].half THEN Blank(cells[r]) ELSE cells[r]]
<1>1. Torn(cells, p, w) = [cells EXCEPT ![l] = IF cells[p].half THEN Blank(cells[l]) ELSE cells[l],
                                       ![r] = IF cells[r].half THEN Blank(cells[r]) ELSE cells[r]]
  BY DEF Torn, Left
<1>2. r # l
  BY InScreen DEF Left
<1> HIDE DEF l, r, Blank
<1>3. /\ DOMAIN h = Screen /\ \A q \in Screen \ {l} : h[q] = cells[q]
      /\ l \in Screen => h[l] = IF cells[p].half THEN Blank(cells[l]) ELSE cells[l]
  OBVIOUS
<1> HIDE DEF h
<1>4. /\ DOMAIN g = Screen /\ \A q \in Screen \ {r} : g[q] = h[q]
      /\ r \in Screen => g[r] = IF cells[r].half THEN Blank(cells[r]) ELSE cells[r]
  BY <1>3
<1> HIDE DEF g
<1>5. \A q \in Screen : g[q] = IF (q = l /\ cells[p].half) \/ (q = r /\ cells[q].half)
                                 THEN Blank(cells[q]) ELSE cells[q]
  BY <1>2, <1>3, <1>4
<1> QED
  BY <1>1, <1>4, <1>5 DEF l, r, Blank

\* c is what the cells are after ch was written at p over b.
Wrote(b, c, p, ch, fg, bg) ==
    /\ c[p].ch = ch /\ c[p].fg = fg /\ c[p].bg = bg /\ ~c[p].half
    /\ (Width(ch) = 2 /\ Right(p) \in Screen) =>
          c[Right(p)].ch = Space /\ c[Right(p)].fg = fg /\ c[Right(p)].bg = bg
    /\ \A q \in Screen \ {p} :
          \/ Width(ch) = 2 /\ q = Right(p)
          \/ c[q] = b[q]
          \/ q = Left(p) /\ b[p].half
          \/ b[q].half /\ c[q].ch = Space /\ c[q].fg = b[q].fg /\ c[q].bg = b[q].bg

\* What a terminal makes of a character.
LEMMA PrintedOK ==
    ASSUME NEW d, IsDisplay(d), InLine(d.at), Halves(d.cells), NEW ch
    PROVE  LET e == Printed(d, ch)
           IN  /\ IsDisplay(e) /\ InLine(e.at) /\ Halves(e.cells)
               /\ e.fg = d.fg /\ e.bg = d.bg
               /\ (Width(ch) > 0 /\ d.at[1] + Width(ch) <= Cols) =>
                     /\ e.at = << d.at[1] + Width(ch), d.at[2] >>
                     /\ Wrote(d.cells, e.cells, d.at, ch, d.fg, d.bg)
<1> DEFINE w == Width(ch)
           p == IF d.at[1] + w > Cols THEN << 0, Smaller(d.at[2] + 1, Rows - 1) >> ELSE d.at
           b == d.cells
           torn == Torn(b, p, w)
           d2 == [d EXCEPT !.cells = torn]
           c == Struck(d2, p, ch)
           after == << p[1] + w, p[2] >>
           e == Printed(d, ch)
<1>1. CASE w = 0
  <2>1. e = d
    BY <1>1 DEF Printed
  <2> QED
    BY <1>1, <2>1
<1>2. CASE w # 0
  <2>0. w \in 1..2 /\ Step(ch) = w
    BY <1>2, Widths
  <2>1. p \in Screen
    <3>1. CASE d.at[1] + w > Cols
      <4>1. Smaller(d.at[2] + 1, Rows - 1) \in 0..(Rows - 1)
        BY InScreen DEF InLine, Smaller
      <4>2. 0 \in 0..(Cols - 1)
        BY InScreen
      <4> QED
        BY <3>1, <4>1, <4>2, InScreen
    <3>2. CASE ~(d.at[1] + w > Cols)
      <4>1. d.at[1] \in 0..(Cols - 1) /\ d.at[2] \in 0..(Rows - 1) /\ d.at = << d.at[1], d.at[2] >>
        BY <2>0, <3>2, InScreen DEF InLine
      <4>2. << d.at[1], d.at[2] >> \in Screen
        BY <4>1, InScreen
      <4> QED
        BY <3>2, <4>1, <4>2
    <3> QED
      BY <3>1, <3>2
  <2>1a. d.at[1] + w <= Cols => p = d.at
    BY <2>0, InScreen DEF InLine
  <2>2. e = [d EXCEPT !.cells = c, !.at = after]
    BY <1>2, Zenon DEF Printed
  <2>3. InLine(after)
    BY <2>0, <2>1, InScreen DEF InLine
  <2> HIDE DEF p, w, after
  <2>4. /\ DOMAIN torn = Screen
        /\ \A q \in Screen :
              torn[q] = IF (q = Left(p) /\ b[p].half) \/ (q = << p[1] + w, p[2] >> /\ b[q].half)
                          THEN Seen(Space, b[q].fg, b[q].bg, FALSE)
                          ELSE b[q]
    BY <2>0, <2>1, TornCells DEF IsDisplay
  <2> HIDE DEF torn
  <2>5. IsDisplay(d2) /\ d2.fg = d.fg /\ d2.bg = d.bg /\ d2.cells = torn
    BY <2>4 DEF IsDisplay
  <2> HIDE DEF d2
  <2>6. /\ DOMAIN c = Screen
        /\ c[p] = Seen(ch, d.fg, d.bg, FALSE)
        /\ \A q \in Screen \ {p} :
              c[q] = IF w = 2 /\ q = Right(p) THEN Seen(Space, d.fg, d.bg, TRUE) ELSE torn[q]
    <3>1. StruckAt(c, d2, p, ch)
      BY <2>1, <2>5, StruckCells
    <3> HIDE DEF c
    <3> QED
      BY <3>1, <2>0, <2>5 DEF StruckAt
  <2> HIDE DEF c, e
  <2>7. IsDisplay(e) /\ e.at = after /\ e.fg = d.fg /\ e.bg = d.bg /\ e.cells = c
    BY <2>2, <2>6 DEF IsDisplay
  <2>8. Halves(c)
    <3> SUFFICES ASSUME NEW q \in Screen
                 PROVE  /\ c[q].half <=> q[1] > 0 /\ Width(c[Left(q)].ch) = 2
                        /\ c[q].half => c[q].ch = Space
      BY DEF Halves
    <3> USE DEF b
    <3>1. /\ b[q].half <=> q[1] > 0 /\ Width(b[Left(q)].ch) = 2
          /\ b[q].half => b[q].ch = Space
      BY DEF Halves
    <3>2. q = << q[1], q[2] >> /\ q[1] \in 0..(Cols - 1) /\ q[2] \in 0..(Rows - 1)
          /\ p = << p[1], p[2] >> /\ p[1] \in 0..(Cols - 1) /\ p[2] \in 0..(Rows - 1)
      BY <2>1, InScreen
    <3>3. q[1] > 0 => Left(q) \in Screen /\ Right(Left(q)) = q
      BY <3>2, InScreen DEF Left, Right
    <3>4. Width(Space) = 1
      BY Widths
    <3>5. CASE q = p
      <4>1. c[q] = Seen(ch, d.fg, d.bg, FALSE)
        BY <3>5, <2>6
      <4>2. ~c[q].half
        BY <4>1 DEF Seen
      <4>3. ASSUME q[1] > 0
            PROVE  Width(c[Left(q)].ch) # 2
        <5>1. Left(q) # p /\ Left(q) # Right(p) /\ Left(q) \in Screen /\ Left(q) # << p[1] + w, p[2] >>
          BY <3>5, <3>2, <3>3, <4>3, <2>0 DEF Left, Right
        <5>2. c[Left(q)] = torn[Left(q)]
          BY <5>1, <2>6
        <5>3. torn[Left(q)] = IF b[p].half THEN Seen(Space, b[Left(q)].fg, b[Left(q)].bg, FALSE) ELSE b[Left(q)]
          BY <2>4, <5>1, <3>5
        <5>4. CASE b[p].half
          BY <5>2, <5>3, <5>4, <3>4 DEF Seen
        <5>5. CASE ~b[p].half
          BY <5>2, <5>3, <5>5, <3>1, <3>5, <4>3
        <5> QED
          BY <5>4, <5>5
      <4> QED
        BY <4>2, <4>3
    <3>6. CASE q # p /\ w = 2 /\ q = Right(p)
      <4>1. c[q] = Seen(Space, d.fg, d.bg, TRUE)
        BY <3>6, <2>6
      <4>2. c[q].half /\ c[q].ch = Space
        BY <4>1 DEF Seen
      <4>3. q[1] > 0 /\ Left(q) = p
        BY <3>2, <3>6 DEF Left, Right
      <4>4. Width(c[Left(q)].ch) = 2
        BY <4>3, <2>6, <3>6 DEF Seen, w
      <4> QED
        BY <4>2, <4>3, <4>4
    <3>7. CASE q # p /\ ~(w = 2 /\ q = Right(p))
      <4>1. c[q] = torn[q]
        BY <3>7, <2>6
      <4>2. CASE q = Left(p) /\ b[p].half
        <5>1. c[q] = Seen(Space, b[q].fg, b[q].bg, FALSE)
          BY <4>1, <4>2, <2>4
        <5>2. Width(b[q].ch) = 2 /\ ~b[q].half
          <6>1. Width(b[Left(p)].ch) = 2
            BY <4>2, <2>1 DEF Halves
          <6> QED
            BY <6>1, <4>2, <3>1, <3>4
        <5>3. ASSUME q[1] > 0
              PROVE  Width(c[Left(q)].ch) # 2
          <6>1. Left(q) \in Screen /\ Left(q) # p /\ Left(q) # Right(p) /\ Left(q) # Left(p)
                /\ Left(q) # << p[1] + w, p[2] >>
            BY <4>2, <3>2, <3>3, <5>3, <2>0 DEF Left, Right
          <6>2. c[Left(q)] = b[Left(q)]
            BY <6>1, <2>4, <2>6
          <6> QED
            BY <6>2, <5>2, <3>1, <5>3
        <5>4. ~c[q].half
          BY <5>1 DEF Seen
        <5> QED
          BY <5>3, <5>4
      <4>3. CASE ~(q = Left(p) /\ b[p].half) /\ q = << p[1] + w, p[2] >> /\ b[q].half
        <5>1. c[q] = Seen(Space, b[q].fg, b[q].bg, FALSE)
          BY <4>1, <4>3, <2>4
        <5>2. q[1] > 0 /\ Left(q) = << p[1] + w - 1, p[2] >>
          BY <4>3, <3>2, <2>0 DEF Left
        <5>3. CASE w = 1
          <6>1. Left(q) = p
            BY <5>2, <5>3, <3>2
          <6>2. c[Left(q)].ch = ch
            BY <6>1, <2>6 DEF Seen
          <6> QED
            BY <5>1, <5>3, <6>2 DEF Seen, w
        <5>4. CASE w = 2
          <6>1. Left(q) = Right(p) /\ Left(q) # p /\ Left(q) \in Screen
            BY <5>2, <5>4, <3>2, <3>3 DEF Right
          <6>2. c[Left(q)].ch = Space
            BY <6>1, <2>6, <5>4 DEF Seen
          <6> QED
            BY <5>1, <6>2, <3>4 DEF Seen
        <5> QED
          BY <5>3, <5>4, <2>0
      <4>4. CASE ~(q = Left(p) /\ b[p].half) /\ ~(q = << p[1] + w, p[2] >> /\ b[q].half)
        <5>1. c[q] = b[q]
          BY <4>1, <4>4, <2>4
        <5>2. CASE q[1] = 0
          BY <5>1, <5>2, <3>1
        <5>3. CASE q[1] > 0 /\ q = << p[1] + w, p[2] >>
          <6>1. ~b[q].half
            BY <4>4, <5>3
          <6>2. Width(c[Left(q)].ch) # 2
            <7>2. Left(q) = << p[1] + w - 1, p[2] >>
              BY <5>3, <3>2, <2>0 DEF Left
            <7>3. CASE w = 1
              <8>1. Left(q) = p
                BY <7>2, <7>3, <3>2
              <8> QED
                BY <8>1, <2>6, <7>3 DEF Seen, w
            <7>4. CASE w = 2
              <8>1. Left(q) = Right(p) /\ Left(q) # p /\ Left(q) \in Screen
                BY <7>2, <7>4, <3>2, <3>3, <5>3 DEF Right
              <8> QED
                BY <8>1, <2>6, <7>4, <3>4 DEF Seen
            <7> QED
              BY <7>3, <7>4, <2>0
          <6> QED
            BY <5>1, <6>1, <6>2, <3>1
        <5>4. CASE q[1] > 0 /\ q # << p[1] + w, p[2] >>
          <6>1. Left(q) \in Screen /\ Left(q) # p /\ ~(w = 2 /\ Left(q) = Right(p))
            BY <5>4, <3>2, <3>3, <3>7, <2>0 DEF Left, Right
          <6>2. c[Left(q)] = torn[Left(q)]
            BY <6>1, <2>6
          <6>3. CASE Left(q) = Left(p)
            BY <6>3, <3>2, <3>7 DEF Left
          <6>4. CASE Left(q) = << p[1] + w, p[2] >> /\ b[Left(q)].half
            <7>1. c[Left(q)].ch = Space
              BY <6>1, <6>2, <6>4, <2>4 DEF Seen
            <7>2. b[Left(q)].ch = Space
              BY <6>1, <6>4 DEF Halves
            <7> QED
              BY <5>1, <5>4, <7>1, <7>2, <3>1
          <6>5. CASE Left(q) # Left(p) /\ ~(Left(q) = << p[1] + w, p[2] >> /\ b[Left(q)].half)
            <7>1. c[Left(q)] = b[Left(q)]
              BY <6>1, <6>2, <6>5, <2>4
            <7> QED
              BY <5>1, <5>4, <7>1, <3>1
          <6> QED
            BY <6>3, <6>4, <6>5
        <5> QED
          BY <5>2, <5>3, <5>4, <3>2
      <4> QED
        BY <4>2, <4>3, <4>4
    <3> QED
      BY <3>5, <3>6, <3>7
  <2>9. ASSUME d.at[1] + w <= Cols
        PROVE  Wrote(b, c, d.at, ch, d.fg, d.bg)
    <3>1. d.at = p
      BY <2>1a, <2>9
    <3>2. /\ c[p].ch = ch /\ c[p].fg = d.fg /\ c[p].bg = d.bg /\ ~c[p].half
      BY <2>6 DEF Seen
    <3>3. Right(p) # p
      BY <2>1, InScreen DEF Right
    <3>4. (w = 2 /\ Right(p) \in Screen) =>
             c[Right(p)].ch = Space /\ c[Right(p)].fg = d.fg /\ c[Right(p)].bg = d.bg
      BY <2>6, <3>3 DEF Seen
    <3>5. ASSUME NEW q \in Screen \ {p}, ~(w = 2 /\ q = Right(p)), c[q] # b[q], ~(q = Left(p) /\ b[p].half)
          PROVE  b[q].half /\ c[q].ch = Space /\ c[q].fg = b[q].fg /\ c[q].bg = b[q].bg
      <4>1. c[q] = torn[q]
        BY <2>6, <3>5
      <4>2. b[q].half /\ torn[q] = Seen(Space, b[q].fg, b[q].bg, FALSE)
        BY <2>4, <3>5, <4>1
      <4> QED
        BY <4>1, <4>2 DEF Seen
    <3> HIDE DEF b
    <3> QED
      BY <3>1, <3>2, <3>4, <3>5 DEF Wrote, w
  <2>10. d.at[1] + w <= Cols => e.at = << d.at[1] + w, d.at[2] >>
    BY <2>1a, <2>7 DEF after
  <2> HIDE DEF b
  <2>11. d.at[1] + w <= Cols => Wrote(b, e.cells, d.at, ch, d.fg, d.bg)
    BY <2>7, <2>9
  <2>12. InLine(e.at) /\ Halves(e.cells)
    BY <2>3, <2>7, <2>8
  <2> QED
    BY <2>7, <2>10, <2>11, <2>12 DEF w, b, e
<1> QED
  BY <1>1, <1>2

-----------------------------------------------------------------------------
(* Commands on their way to a terminal *)

TerminalOK(t) == IsDisplay(t) /\ InLine(t.at) /\ Halves(t.cells)

\* Nothing but the pen and the cursor differ.
LEMMA TerminalCodes ==
    ASSUME NEW t, IsDisplay(t)
    PROVE  /\ \A p : LET r == Terminal(t, << "move", p >>)
                     IN  IsDisplay(r) /\ r.cells = t.cells /\ r.at = p /\ r.fg = t.fg /\ r.bg = t.bg
           /\ \A f : LET r == Terminal(t, << "fg", f >>)
                     IN  IsDisplay(r) /\ r.cells = t.cells /\ r.at = t.at /\ r.fg = f /\ r.bg = t.bg
           /\ \A b : LET r == Terminal(t, << "bg", b >>)
                     IN  IsDisplay(r) /\ r.cells = t.cells /\ r.at = t.at /\ r.fg = t.fg /\ r.bg = b
           /\ LET r == Terminal(t, << "reset" >>)
              IN  IsDisplay(r) /\ r.cells = t.cells /\ r.at = t.at
           /\ LET r == Terminal(t, << "bold" >>)
              IN  IsDisplay(r) /\ r.cells = t.cells /\ r.at = t.at /\ r.fg = t.fg /\ r.bg = t.bg
           /\ \A ch : Terminal(t, << "write", ch >>) = Printed(t, ch)
<1>1. ASSUME NEW p
      PROVE  LET r == Terminal(t, << "move", p >>)
             IN  IsDisplay(r) /\ r.cells = t.cells /\ r.at = p /\ r.fg = t.fg /\ r.bg = t.bg
  BY DEF Terminal, IsDisplay
<1>2. ASSUME NEW f
      PROVE  LET r == Terminal(t, << "fg", f >>)
             IN  IsDisplay(r) /\ r.cells = t.cells /\ r.at = t.at /\ r.fg = f /\ r.bg = t.bg
  BY DEF Terminal, IsDisplay
<1>3. ASSUME NEW b
      PROVE  LET r == Terminal(t, << "bg", b >>)
             IN  IsDisplay(r) /\ r.cells = t.cells /\ r.at = t.at /\ r.fg = t.fg /\ r.bg = b
  BY DEF Terminal, IsDisplay
<1>4. LET r == Terminal(t, << "reset" >>)
      IN  IsDisplay(r) /\ r.cells = t.cells /\ r.at = t.at
  BY DEF Terminal, IsDisplay
<1>5. LET r == Terminal(t, << "bold" >>)
      IN  IsDisplay(r) /\ r.cells = t.cells /\ r.at = t.at /\ r.fg = t.fg /\ r.bg = t.bg
  BY DEF Terminal, IsDisplay
<1>6. ASSUME NEW ch
      PROVE  Terminal(t, << "write", ch >>) = Printed(t, ch)
  BY DEF Terminal
<1> QED
  BY <1>1, <1>2, <1>3, <1>4, <1>5, <1>6

Encoding == INSTANCE Folding WITH Op <- Encode
Showing == INSTANCE Folding WITH Op <- Terminal

\* t is what a terminal that was d makes of codes.
After(d, codes, t) == IsList(codes) /\ Showing!FoldsTo(d, codes, Len(codes), t)

LEMMA AfterNothing ==
    ASSUME NEW d
    PROVE  After(d, << >>, d)
<1>1. IsList(<< >>) /\ Len(<< >>) = 0
  BY DEF IsList
<1> QED
  BY <1>1, Showing!FoldsNothing DEF After

LEMMA AfterMore ==
    ASSUME NEW d, NEW codes, NEW t, After(d, codes, t), NEW c
    PROVE  After(d, Append(codes, c), Terminal(t, c))
<1> DEFINE N == Len(codes)
           more == Append(codes, c)
<1>1. IsList(codes) /\ N \in Nat /\ Showing!FoldsTo(d, codes, N, t)
  BY DEF After, IsList
<1>2. IsList(more) /\ Len(more) = N + 1 /\ more[N + 1] = c /\ \A i \in 1..N : more[i] = codes[i]
  BY <1>1, ListAppend
<1> HIDE DEF N, more
<1>3. Showing!FoldsTo(d, more, N + 1, Terminal(t, more[N + 1]))
  BY <1>1, <1>2, Showing!FoldsMore
<1> QED
  BY <1>2, <1>3 DEF After, more

LEMMA AfterPushed ==
    ASSUME NEW d, NEW codes, NEW t, After(d, codes, t), NEW c, NEW needed
    PROVE  After(d, Pushed(codes, needed, c), IF needed THEN Terminal(t, c) ELSE t)
BY AfterMore DEF Pushed

\* The encoder has made e of out, and the terminal that was d has made t of that.
Passed(d, out, e, t) ==
    /\ IsList(out) /\ Encoding!FoldsTo(NothingEncoded, out, Len(out), e)
    /\ DOMAIN e = {"out", "fg", "bg"}
    /\ After(d, e.out, t)

LEMMA PassedMore ==
    ASSUME NEW d, NEW out, NEW e, NEW t, Passed(d, out, e, t), NEW c,
           NEW r, r = Encode(e, c), DOMAIN r = {"out", "fg", "bg"}, NEW u, After(d, r.out, u)
    PROVE  Passed(d, Append(out, c), r, u)
<1> DEFINE N == Len(out)
           more == Append(out, c)
<1>1. IsList(out) /\ N \in Nat /\ Encoding!FoldsTo(NothingEncoded, out, N, e)
  BY DEF Passed, IsList
<1>2. IsList(more) /\ Len(more) = N + 1 /\ more[N + 1] = c /\ \A i \in 1..N : more[i] = out[i]
  BY <1>1, ListAppend
<1> HIDE DEF N, more
<1>3. Encoding!FoldsTo(NothingEncoded, more, N + 1, Encode(e, more[N + 1]))
  BY <1>1, <1>2, Encoding!FoldsMore
<1> QED
  BY <1>2, <1>3 DEF Passed, more

\* The pen is what it is taken to be, if that is not the client's own colour.
Fits(fg, bg, t) == (fg # "reset" => t.fg = fg) /\ (bg # "reset" => t.bg = bg)

\* A terminal that was d has become t, and the encoder takes its pen for fg and bg.
OnTty(d, out, fg, bg, t) ==
    /\ \E e : Passed(d, out, e, t) /\ e.fg = fg /\ e.bg = bg
    /\ Fits(fg, bg, t) /\ TerminalOK(t)

LEMMA TtyNothing ==
    ASSUME NEW d, TerminalOK(d)
    PROVE  OnTty(d, << >>, "reset", "reset", d)
<1> DEFINE e == NothingEncoded
<1>1. IsList(<< >>) /\ Len(<< >>) = 0
  BY DEF IsList
<1>2. DOMAIN e = {"out", "fg", "bg"} /\ e.out = << >> /\ e.fg = "reset" /\ e.bg = "reset"
  BY DEF NothingEncoded
<1>3. Encoding!FoldsTo(NothingEncoded, << >>, 0, e)
  BY Encoding!FoldsNothing
<1>4. Passed(d, << >>, e, d)
  BY <1>1, <1>2, <1>3, AfterNothing DEF Passed
<1> QED
  BY <1>2, <1>4 DEF OnTty, Fits

LEMMA TtyMove ==
    ASSUME NEW d, NEW out, NEW fg, NEW bg, NEW t, OnTty(d, out, fg, bg, t), NEW p \in Screen
    PROVE  \E u : OnTty(d, Append(out, << "move", p >>), fg, bg, u) /\ u.cells = t.cells /\ u.at = p
<1>1. PICK e : Passed(d, out, e, t) /\ e.fg = fg /\ e.bg = bg
  BY DEF OnTty
<1> DEFINE c == << "move", p >>
           u == Terminal(t, c)
           r == Encode(e, c)
<1>2. IsDisplay(u) /\ u.cells = t.cells /\ u.at = p /\ u.fg = t.fg /\ u.bg = t.bg
  BY TerminalCodes DEF OnTty, TerminalOK
<1>3. r = [e EXCEPT !.out = Append(@, c)]
  BY DEF Encode
<1> HIDE DEF c, r, u
<1>4. DOMAIN r = {"out", "fg", "bg"} /\ r.out = Append(e.out, c) /\ r.fg = e.fg /\ r.bg = e.bg
  BY <1>1, <1>3 DEF Passed
<1>5. After(d, r.out, u)
  BY <1>1, <1>4, AfterMore DEF Passed, u
<1>6. Passed(d, Append(out, c), r, u)
  BY <1>1, <1>4, <1>5, PassedMore DEF r
<1>7. InLine(u.at)
  BY <1>2, InScreen DEF InLine
<1>8. TerminalOK(u) /\ Fits(fg, bg, u)
  BY <1>2, <1>7 DEF OnTty, TerminalOK, Fits
<1>9. OnTty(d, Append(out, c), fg, bg, u)
  BY <1>1, <1>4, <1>6, <1>8 DEF OnTty
<1> QED
  BY <1>2, <1>9 DEF c

LEMMA TtyColour ==
    ASSUME NEW d, NEW out, NEW fg, NEW bg, NEW t, OnTty(d, out, fg, bg, t), NEW f, NEW b
    PROVE  \E u : /\ OnTty(d, Append(out, << "color", << f, b >> >>), f, b, u)
                  /\ u.cells = t.cells /\ u.at = t.at
<1>1. PICK e : Passed(d, out, e, t) /\ e.fg = fg /\ e.bg = bg
  BY DEF OnTty
<1> DEFINE c == << "color", << f, b >> >>
           t1 == IF f # fg THEN Terminal(t, << "fg", f >>) ELSE t
           u == IF b # bg THEN Terminal(t1, << "bg", b >>) ELSE t1
           out1 == Pushed(e.out, f # fg, << "fg", f >>)
           out2 == Pushed(out1, b # bg, << "bg", b >>)
           r == Encode(e, c)
<1>2. IsDisplay(t) /\ InLine(t.at) /\ Halves(t.cells) /\ Fits(fg, bg, t)
  BY DEF OnTty, TerminalOK
<1>3. IsDisplay(t1) /\ t1.cells = t.cells /\ t1.at = t.at /\ (f # "reset" => t1.fg = f) /\ t1.bg = t.bg
  BY <1>2, TerminalCodes DEF Fits
<1>4. After(d, out1, t1)
  BY <1>1, AfterPushed DEF Passed
<1> HIDE DEF t1, out1
<1>5. /\ IsDisplay(u) /\ u.cells = t.cells /\ u.at = t.at
      /\ (f # "reset" => u.fg = f) /\ (b # "reset" => u.bg = b)
  BY <1>2, <1>3, TerminalCodes DEF Fits
<1>6. After(d, out2, u)
  BY <1>4, AfterPushed
<1> HIDE DEF u, out2
<1>7. r = [out |-> out2, fg |-> f, bg |-> b]
  BY <1>1 DEF Encode, out2, out1
<1> HIDE DEF r
<1>8. DOMAIN r = {"out", "fg", "bg"} /\ r.out = out2 /\ r.fg = f /\ r.bg = b
  BY <1>7
<1> HIDE DEF c
<1>9. Passed(d, Append(out, c), r, u)
  BY <1>1, <1>6, <1>8, PassedMore DEF r
<1>10. OnTty(d, Append(out, c), f, b, u)
  BY <1>2, <1>5, <1>8, <1>9 DEF OnTty, TerminalOK, Fits
<1> QED
  BY <1>5, <1>10 DEF c

LEMMA TtyModifiers ==
    ASSUME NEW d, NEW out, NEW fg, NEW bg, NEW t, OnTty(d, out, fg, bg, t), NEW v
    PROVE  \E u : /\ OnTty(d, Append(out, << "modifiers", v >>), fg, bg, u)
                  /\ u.cells = t.cells /\ u.at = t.at
<1>1. PICK e : Passed(d, out, e, t) /\ e.fg = fg /\ e.bg = bg
  BY DEF OnTty
<1> DEFINE c == << "modifiers", v >>
           t1 == Terminal(t, << "reset" >>)
           t2 == Terminal(t1, << "fg", fg >>)
           t3 == Terminal(t2, << "bg", bg >>)
           u == IF v THEN Terminal(t3, << "bold" >>) ELSE t3
           out3 == Append(Append(Append(e.out, << "reset" >>), << "fg", fg >>), << "bg", bg >>)
           all == Pushed(out3, v, << "bold" >>)
           r == Encode(e, c)
<1>2. IsDisplay(t) /\ InLine(t.at) /\ Halves(t.cells)
  BY DEF OnTty, TerminalOK
<1>3. IsDisplay(t1) /\ t1.cells = t.cells /\ t1.at = t.at
  BY <1>2, TerminalCodes
<1>4. IsDisplay(t2) /\ t2.cells = t.cells /\ t2.at = t.at /\ t2.fg = fg
  <2> HIDE DEF t1
  <2> QED
    BY <1>3, TerminalCodes
<1>5. IsDisplay(t3) /\ t3.cells = t.cells /\ t3.at = t.at /\ t3.fg = fg /\ t3.bg = bg
  <2> HIDE DEF t2
  <2> QED
    BY <1>4, TerminalCodes
<1>6. After(d, out3, t3)
  BY <1>1, AfterMore DEF Passed
<1> HIDE DEF t3, out3
<1>7. IsDisplay(u) /\ u.cells = t.cells /\ u.at = t.at /\ u.fg = fg /\ u.bg = bg
  BY <1>5, TerminalCodes
<1>8. After(d, all, u)
  BY <1>6, AfterPushed
<1>9. r = [e EXCEPT !.out = all]
  BY <1>1 DEF Encode, out3
<1> HIDE DEF u, all, r, c
<1>10. DOMAIN r = {"out", "fg", "bg"} /\ r.out = all /\ r.fg = fg /\ r.bg = bg
  BY <1>1, <1>9 DEF Passed
<1>11. Passed(d, Append(out, c), r, u)
  BY <1>1, <1>8, <1>10, PassedMore DEF r
<1>12. OnTty(d, Append(out, c), fg, bg, u)
  BY <1>2, <1>7, <1>10, <1>11 DEF OnTty, TerminalOK, Fits
<1> QED
  BY <1>7, <1>12 DEF c

LEMMA TtyWrite ==
    ASSUME NEW d, NEW out, NEW fg, NEW bg, NEW t, OnTty(d, out, fg, bg, t), NEW ch
    PROVE  \E u : /\ OnTty(d, Append(out, << "write", ch >>), fg, bg, u)
                  /\ (Width(ch) > 0 /\ t.at[1] + Width(ch) <= Cols) =>
                        /\ u.at = << t.at[1] + Width(ch), t.at[2] >>
                        /\ Wrote(t.cells, u.cells, t.at, ch, t.fg, t.bg)
<1>1. PICK e : Passed(d, out, e, t) /\ e.fg = fg /\ e.bg = bg
  BY DEF OnTty
<1> DEFINE c == << "write", ch >>
           u == Terminal(t, c)
           r == Encode(e, c)
<1>2. IsDisplay(t) /\ InLine(t.at) /\ Halves(t.cells) /\ Fits(fg, bg, t)
  BY DEF OnTty, TerminalOK
<1>3. u = Printed(t, ch)
  BY <1>2, TerminalCodes
<1>4. r = [e EXCEPT !.out = Append(@, c)]
  BY DEF Encode
<1> HIDE DEF c, r, u
<1>5. /\ IsDisplay(u) /\ InLine(u.at) /\ Halves(u.cells) /\ u.fg = t.fg /\ u.bg = t.bg
      /\ (Width(ch) > 0 /\ t.at[1] + Width(ch) <= Cols) =>
            /\ u.at = << t.at[1] + Width(ch), t.at[2] >>
            /\ Wrote(t.cells, u.cells, t.at, ch, t.fg, t.bg)
  BY <1>2, <1>3, PrintedOK
<1>6. DOMAIN r = {"out", "fg", "bg"} /\ r.out = Append(e.out, c) /\ r.fg = e.fg /\ r.bg = e.bg
  BY <1>1, <1>4 DEF Passed
<1>7. After(d, r.out, u)
  BY <1>1, <1>6, AfterMore DEF Passed, u
<1>8. Passed(d, Append(out, c), r, u)
  BY <1>1, <1>6, <1>7, PassedMore DEF r
<1>9. OnTty(d, Append(out, c), fg, bg, u)
  BY <1>1, <1>2, <1>5, <1>6, <1>8 DEF OnTty, TerminalOK, Fits
<1> QED
  BY <1>5, <1>9 DEF c

-----------------------------------------------------------------------------
(* Commands on their way to a canvas *)

IsCommand(c) ==
    \/ \E x, y : c = << "move", << x, y >> >>
    \/ \E f, b : c = << "color", << f, b >> >>
    \/ \E v \in BOOLEAN : c = << "modifiers", v >>
    \/ \E ch : c = << "write", ch >>

AreCommands(out) == IsList(out) /\ \A i \in 1..Len(out) : IsCommand(out[i])

LEMMA CanvasCommands ==
    ASSUME NEW t, IsDisplay(t)
    PROVE  /\ \A p : LET r == Canvas(t, << "move", p >>)
                     IN  IsDisplay(r) /\ r.cells = t.cells /\ r.at = p /\ r.fg = t.fg /\ r.bg = t.bg
           /\ \A f, b : LET r == Canvas(t, << "color", << f, b >> >>)
                        IN  IsDisplay(r) /\ r.cells = t.cells /\ r.at = t.at /\ r.fg = f /\ r.bg = b
           /\ \A v : LET r == Canvas(t, << "modifiers", v >>)
                     IN  IsDisplay(r) /\ r.cells = t.cells /\ r.at = t.at /\ r.fg = t.fg /\ r.bg = t.bg
           /\ \A ch : LET r == Canvas(t, << "write", ch >>)
                          x == t.at[1] + Step(ch)
                      IN  /\ IsDisplay(r) /\ r.cells = Struck(t, t.at, ch) /\ r.fg = t.fg /\ r.bg = t.bg
                          /\ r.at = IF x >= Cols THEN << 0, t.at[2] + 1 >> ELSE << x, t.at[2] >>
<1>1. ASSUME NEW p
      PROVE  LET r == Canvas(t, << "move", p >>)
             IN  IsDisplay(r) /\ r.cells = t.cells /\ r.at = p /\ r.fg = t.fg /\ r.bg = t.bg
  BY DEF Canvas, IsDisplay
<1>2. ASSUME NEW f, NEW b
      PROVE  LET r == Canvas(t, << "color", << f, b >> >>)
             IN  IsDisplay(r) /\ r.cells = t.cells /\ r.at = t.at /\ r.fg = f /\ r.bg = b
  BY DEF Canvas, IsDisplay
<1>3. ASSUME NEW v
      PROVE  LET r == Canvas(t, << "modifiers", v >>)
             IN  IsDisplay(r) /\ r.cells = t.cells /\ r.at = t.at /\ r.fg = t.fg /\ r.bg = t.bg
  BY DEF Canvas, IsDisplay
<1>4. ASSUME NEW ch
      PROVE  LET r == Canvas(t, << "write", ch >>)
                 x == t.at[1] + Step(ch)
             IN  /\ IsDisplay(r) /\ r.cells = Struck(t, t.at, ch) /\ r.fg = t.fg /\ r.bg = t.bg
                 /\ r.at = IF x >= Cols THEN << 0, t.at[2] + 1 >> ELSE << x, t.at[2] >>
  <2> DEFINE c == << "write", ch >>
             x == t.at[1] + Step(ch)
             cells == Struck(t, t.at, ch)
             at == IF x >= Cols THEN << 0, t.at[2] + 1 >> ELSE << x, t.at[2] >>
             r == Canvas(t, c)
  <2>1. r = [t EXCEPT !.cells = cells, !.at = at]
    BY DEF Canvas
  <2>2. DOMAIN cells = Screen
    BY DEF Struck, IsDisplay
  <2> HIDE DEF r, cells, at
  <2>3. IsDisplay(r) /\ r.cells = cells /\ r.at = at /\ r.fg = t.fg /\ r.bg = t.bg
    BY <2>1, <2>2 DEF IsDisplay
  <2> QED
    BY <2>3 DEF r, cells, at
<1> QED
  BY <1>1, <1>2, <1>3, <1>4

Canvassing == INSTANCE Folding WITH Op <- Canvas

\* A canvas that was d has become t.
OnWeb(d, out, fg, bg, t) ==
    /\ AreCommands(out) /\ Canvassing!FoldsTo(d, out, Len(out), t)
    /\ IsDisplay(t) /\ Fits(fg, bg, t)

LEMMA WebNothing ==
    ASSUME NEW d, IsDisplay(d)
    PROVE  OnWeb(d, << >>, "reset", "reset", d)
<1>1. AreCommands(<< >>) /\ Len(<< >>) = 0
  BY DEF AreCommands, IsList
<1> QED
  BY <1>1, Canvassing!FoldsNothing DEF OnWeb, Fits

LEMMA WebMore ==
    ASSUME NEW d, NEW out, NEW fg, NEW bg, NEW t, OnWeb(d, out, fg, bg, t),
           NEW c, IsCommand(c), NEW f, NEW b, NEW u, u = Canvas(t, c), IsDisplay(u), Fits(f, b, u)
    PROVE  OnWeb(d, Append(out, c), f, b, u)
<1> DEFINE N == Len(out)
           more == Append(out, c)
<1>1. IsList(out) /\ N \in Nat /\ Canvassing!FoldsTo(d, out, N, t) /\ \A i \in 1..N : IsCommand(out[i])
  BY DEF OnWeb, AreCommands, IsList
<1>2. IsList(more) /\ Len(more) = N + 1 /\ more[N + 1] = c /\ \A i \in 1..N : more[i] = out[i]
  BY <1>1, ListAppend
<1> HIDE DEF N, more
<1>3. Canvassing!FoldsTo(d, more, N + 1, Canvas(t, more[N + 1]))
  BY <1>1, <1>2, Canvassing!FoldsMore
<1>4. \A i \in 1..Len(more) : IsCommand(more[i])
  BY <1>1, <1>2
<1>5. AreCommands(more)
  BY <1>2, <1>4 DEF AreCommands
<1> QED
  BY <1>2, <1>3, <1>5 DEF OnWeb, more

-----------------------------------------------------------------------------
(* Commands on their way to either *)

\* A client that was d has become t.
Live(web, d, out, fg, bg, t) == IF web THEN OnWeb(d, out, fg, bg, t) ELSE OnTty(d, out, fg, bg, t)

\* The cells are still those of t, and the cursor is at p.
Placed(u, t, p) == u.cells = t.cells /\ u.at = p

LEMMA LiveMove ==
    ASSUME NEW web, NEW d, NEW out, NEW fg, NEW bg, NEW t, Live(web, d, out, fg, bg, t),
           NEW p \in Screen, NEW needed
    PROVE  \E u : /\ Live(web, d, Pushed(out, needed, << "move", p >>), fg, bg, u)
                  /\ Placed(u, t, IF needed THEN p ELSE t.at)
<1>1. CASE ~needed
  BY <1>1 DEF Pushed, Placed
<1>2. CASE needed /\ ~web
  BY <1>2, TtyMove DEF Pushed, Live, Placed
<1>3. CASE needed /\ web
  <2> DEFINE c == << "move", p >>
             u == Canvas(t, c)
  <2>1. IsCommand(c)
    <3>1. p = << p[1], p[2] >>
      BY InScreen
    <3>2. c = << "move", << p[1], p[2] >> >>
      BY <3>1
    <3> HIDE DEF c
    <3> QED
      BY <3>2 DEF IsCommand
  <2>2. OnWeb(d, out, fg, bg, t) /\ IsDisplay(t) /\ Fits(fg, bg, t)
    BY <1>3 DEF Live, OnWeb
  <2>3. IsDisplay(u) /\ u.cells = t.cells /\ u.at = p /\ u.fg = t.fg /\ u.bg = t.bg
    BY <2>2, CanvasCommands
  <2> HIDE DEF u, c
  <2>4. Fits(fg, bg, u)
    BY <2>2, <2>3 DEF Fits
  <2>5. OnWeb(d, Append(out, c), fg, bg, u)
    BY <2>1, <2>2, <2>3, <2>4, WebMore DEF u
  <2> QED
    BY <1>3, <2>3, <2>5 DEF Pushed, Live, Placed, c
<1> QED
  BY <1>1, <1>2, <1>3

LEMMA LiveColour ==
    ASSUME NEW web, NEW d, NEW out, NEW fg, NEW bg, NEW t, Live(web, d, out, fg, bg, t),
           NEW f, NEW b
    PROVE  \E u : /\ Live(web, d, Pushed(out, << f, b >> # << fg, bg >>, << "color", << f, b >> >>), f, b, u)
                  /\ u.cells = t.cells /\ u.at = t.at
<1> DEFINE c == << "color", << f, b >> >>
<1>1. CASE << f, b >> = << fg, bg >>
  <2>1. f = fg /\ b = bg
    BY <1>1
  <2> QED
    BY <1>1, <2>1 DEF Pushed
<1>2. CASE << f, b >> # << fg, bg >> /\ ~web
  <2>1. \E u : OnTty(d, Append(out, c), f, b, u) /\ u.cells = t.cells /\ u.at = t.at
    BY <1>2, TtyColour DEF Live
  <2> QED
    BY <1>2, <2>1 DEF Pushed, Live
<1>3. CASE << f, b >> # << fg, bg >> /\ web
  <2> DEFINE u == Canvas(t, c)
  <2>1. IsCommand(c)
    BY DEF IsCommand
  <2>2. OnWeb(d, out, fg, bg, t) /\ IsDisplay(t)
    BY <1>3 DEF Live, OnWeb
  <2>3. IsDisplay(u) /\ u.cells = t.cells /\ u.at = t.at /\ u.fg = f /\ u.bg = b
    BY <2>2 DEF Canvas, IsDisplay
  <2> HIDE DEF u, c
  <2>4. Fits(f, b, u)
    BY <2>3 DEF Fits
  <2>5. OnWeb(d, Append(out, c), f, b, u)
    BY <2>1, <2>2, <2>3, <2>4, WebMore DEF u
  <2> QED
    BY <1>3, <2>3, <2>5 DEF Pushed, Live, c
<1> QED
  BY <1>1, <1>2, <1>3

LEMMA LiveModifiers ==
    ASSUME NEW web, NEW d, NEW out, NEW fg, NEW bg, NEW t, Live(web, d, out, fg, bg, t),
           NEW v \in BOOLEAN, NEW needed
    PROVE  \E u : /\ Live(web, d, Pushed(out, needed, << "modifiers", v >>), fg, bg, u)
                  /\ u.cells = t.cells /\ u.at = t.at
<1> DEFINE c == << "modifiers", v >>
<1>1. CASE ~needed
  BY <1>1 DEF Pushed
<1>2. CASE needed /\ ~web
  <2>1. \E u : OnTty(d, Append(out, c), fg, bg, u) /\ u.cells = t.cells /\ u.at = t.at
    BY <1>2, TtyModifiers DEF Live
  <2> QED
    BY <1>2, <2>1 DEF Pushed, Live
<1>3. CASE needed /\ web
  <2> DEFINE u == Canvas(t, c)
  <2>1. IsCommand(c)
    BY DEF IsCommand
  <2>2. OnWeb(d, out, fg, bg, t) /\ IsDisplay(t) /\ Fits(fg, bg, t)
    BY <1>3 DEF Live, OnWeb
  <2>3. IsDisplay(u) /\ u.cells = t.cells /\ u.at = t.at /\ u.fg = t.fg /\ u.bg = t.bg
    BY <2>2, CanvasCommands
  <2> HIDE DEF u, c
  <2>4. Fits(fg, bg, u)
    BY <2>2, <2>3 DEF Fits
  <2>5. OnWeb(d, Append(out, c), fg, bg, u)
    BY <2>1, <2>2, <2>3, <2>4, WebMore DEF u
  <2> QED
    BY <1>3, <2>3, <2>5 DEF Pushed, Live, c
<1> QED
  BY <1>1, <1>2, <1>3

\* A character has its place at p.
HasPlace(web, p, ch) == Width(ch) > 0 /\ p[1] + Width(ch) <= Cols /\ (web => Width(ch) = 1)

\* A canvas tears nothing.
Strikes(web, b, c, p, ch, fg, bg) ==
    Wrote(b, c, p, ch, fg, bg) /\ (web => \A q \in Screen \ {p} : c[q] = b[q])

LEMMA LiveWrite ==
    ASSUME NEW web, NEW d, NEW out, NEW fg, NEW bg, NEW t, Live(web, d, out, fg, bg, t), NEW ch
    PROVE  \E u : /\ Live(web, d, Append(out, << "write", ch >>), fg, bg, u)
                  /\ (t.at \in Screen /\ HasPlace(web, t.at, ch)) =>
                        /\ t.at[1] + Step(ch) < Cols => u.at = << t.at[1] + Step(ch), t.at[2] >>
                        /\ Strikes(web, t.cells, u.cells, t.at, ch, t.fg, t.bg)
<1> DEFINE c == << "write", ch >>
<1>1. CASE ~web
  <2>1. PICK u : /\ OnTty(d, Append(out, c), fg, bg, u)
                 /\ (Width(ch) > 0 /\ t.at[1] + Width(ch) <= Cols) =>
                       /\ u.at = << t.at[1] + Width(ch), t.at[2] >>
                       /\ Wrote(t.cells, u.cells, t.at, ch, t.fg, t.bg)
    BY <1>1, TtyWrite DEF Live
  <2>2. Width(ch) > 0 => Step(ch) = Width(ch)
    BY Widths
  <2> QED
    BY <1>1, <2>1, <2>2 DEF Live, HasPlace, Strikes
<1>2. CASE web
  <2> DEFINE u == Canvas(t, c)
             p == t.at
  <2>1. IsCommand(c)
    BY DEF IsCommand
  <2>2. OnWeb(d, out, fg, bg, t) /\ IsDisplay(t) /\ Fits(fg, bg, t)
    BY <1>2 DEF Live, OnWeb
  <2>3. /\ IsDisplay(u) /\ u.cells = Struck(t, p, ch) /\ u.fg = t.fg /\ u.bg = t.bg
        /\ u.at = IF p[1] + Step(ch) >= Cols THEN << 0, p[2] + 1 >> ELSE << p[1] + Step(ch), p[2] >>
    BY <2>2, CanvasCommands
  <2> HIDE DEF u, c
  <2>4. Fits(fg, bg, u)
    BY <2>2, <2>3 DEF Fits
  <2>5. OnWeb(d, Append(out, c), fg, bg, u)
    BY <2>1, <2>2, <2>3, <2>4, WebMore DEF u
  <2>6. ASSUME p \in Screen, HasPlace(web, p, ch)
        PROVE  /\ p[1] + Step(ch) < Cols => u.at = << p[1] + Step(ch), p[2] >>
               /\ Strikes(web, t.cells, u.cells, p, ch, t.fg, t.bg)
    <3>1. Width(ch) = 1 /\ Step(ch) = 1
      BY <1>2, <2>6, Widths DEF HasPlace
    <3>2. StruckAt(u.cells, t, p, ch)
      BY <2>2, <2>3, <2>6, StruckCells
    <3> HIDE DEF p
    <3>3. u.cells[p].ch = ch /\ u.cells[p].fg = t.fg /\ u.cells[p].bg = t.bg /\ ~u.cells[p].half
      BY <3>2 DEF StruckAt, Seen
    <3>4. \A q \in Screen \ {p} : u.cells[q] = t.cells[q]
      BY <3>1, <3>2 DEF StruckAt
    <3>5. Wrote(t.cells, u.cells, p, ch, t.fg, t.bg)
      BY <3>1, <3>3, <3>4 DEF Wrote
    <3>7. Strikes(web, t.cells, u.cells, p, ch, t.fg, t.bg)
      BY <3>4, <3>5 DEF Strikes
    <3>6. p[1] \in Int /\ Cols \in Int
      BY <2>6, InScreen DEF p
    <3> QED
      BY <2>3, <3>1, <3>7, <3>6
  <2> QED
    BY <1>2, <2>5, <2>6 DEF Live, c
<1> QED
  BY <1>1, <1>2

\* The difference has told the client that was d so much that it is t.
IsSender(s) ==
    /\ DOMAIN s = {"out", "at", "colours", "bold", "next"}
    /\ s.next \in Nat
    /\ s.colours = << s.colours[1], s.colours[2] >>

Sending(web, d, s, t) == IsSender(s) /\ Live(web, d, s.out, s.colours[1], s.colours[2], t)

Aimed(s, t) == s.at # Nowhere => t.at = s.at

\* c is what the cells are after the cell was written at p over b.
Put(web, b, c, p, cell) ==
    \E fg, bg : /\ cell.fg # "reset" => fg = cell.fg
                /\ cell.bg # "reset" => bg = cell.bg
                /\ Strikes(web, b, c, p, cell.ch, fg, bg)

LEMMA EmitOK ==
    ASSUME NEW web, NEW d, NEW s, NEW t, Sending(web, d, s, t), NEW p \in Screen,
           NEW cell, cell.bold \in BOOLEAN
    PROVE  LET r == Emit(s, p, cell)
           IN  \E u : /\ Sending(web, d, r, u) /\ r.next = s.next
                      /\ (Aimed(s, t) /\ HasPlace(web, p, cell.ch)) =>
                            Aimed(r, u) /\ Put(web, t.cells, u.cells, p, cell)
<1> DEFINE f0 == s.colours[1]
           b0 == s.colours[2]
           f == cell.fg
           b == cell.bg
           moved == Pushed(s.out, s.at # p, << "move", p >>)
           coloured == Pushed(moved, << f, b >> # s.colours, << "color", << f, b >> >>)
           modified == Pushed(coloured, cell.bold # s.bold, << "modifiers", cell.bold >>)
           out == Append(modified, << "write", cell.ch >>)
           after == << p[1] + Step(cell.ch), p[2] >>
           at == IF cell.ch \in Ambiguous \/ after[1] >= Cols THEN Nowhere ELSE after
           r == Emit(s, p, cell)
<1>1. Live(web, d, s.out, f0, b0, t) /\ s.colours = << f0, b0 >>
  BY DEF Sending, IsSender
<1>2. PICK t1 : Live(web, d, moved, f0, b0, t1) /\ t1.cells = t.cells /\ t1.at = IF s.at # p THEN p ELSE t.at
  <2> DEFINE needed == s.at # p
  <2> HIDE DEF needed
  <2>1. \E t1 : Live(web, d, Pushed(s.out, needed, << "move", p >>), f0, b0, t1)
                /\ Placed(t1, t, IF needed THEN p ELSE t.at)
    <3> HIDE DEF f0, b0
    <3> QED
      BY <1>1, LiveMove
  <2> QED
    BY <2>1 DEF needed, Placed
<1> HIDE DEF moved, f0, b0
<1>3. PICK t2 : Live(web, d, coloured, f, b, t2) /\ t2.cells = t1.cells /\ t2.at = t1.at
  BY <1>1, <1>2, LiveColour
<1> HIDE DEF coloured, f, b
<1>4. PICK t3 : Live(web, d, modified, f, b, t3) /\ t3.cells = t2.cells /\ t3.at = t2.at
  BY <1>3, LiveModifiers
<1> HIDE DEF modified
<1>5. PICK u : /\ Live(web, d, out, f, b, u)
               /\ (t3.at \in Screen /\ HasPlace(web, t3.at, cell.ch)) =>
                     /\ t3.at[1] + Step(cell.ch) < Cols => u.at = << t3.at[1] + Step(cell.ch), t3.at[2] >>
                     /\ Strikes(web, t3.cells, u.cells, t3.at, cell.ch, t3.fg, t3.bg)
  BY <1>4, LiveWrite
<1>6. r = [s EXCEPT !.out = out, !.at = at, !.colours = << f, b >>, !.bold = cell.bold]
  BY Zenon DEF Emit, f, b, moved, coloured, modified
<1>7. Fits(f, b, t3)
  BY <1>4 DEF Live, OnWeb, OnTty
<1>8. p[1] \in Int /\ Cols \in Int /\ p # Nowhere
  BY InScreen DEF Nowhere
<1> HIDE DEF out, at, r
<1>9. IsSender(r) /\ r.out = out /\ r.at = at /\ r.colours = << f, b >> /\ r.next = s.next
  BY <1>6 DEF Sending, IsSender
<1>10. Sending(web, d, r, u)
  BY <1>5, <1>9 DEF Sending
<1>11. ASSUME Aimed(s, t), HasPlace(web, p, cell.ch)
       PROVE  Aimed(r, u) /\ Put(web, t.cells, u.cells, p, cell)
  <2>1. t3.at = p
    BY <1>2, <1>3, <1>4, <1>8, <1>11 DEF Aimed
  <2>2. /\ p[1] + Step(cell.ch) < Cols => u.at = << p[1] + Step(cell.ch), p[2] >>
        /\ Strikes(web, t3.cells, u.cells, p, cell.ch, t3.fg, t3.bg)
    BY <1>5, <1>11, <2>1
  <2>3. Step(cell.ch) \in Int
    BY Widths
  <2>4. Aimed(r, u)
    BY <1>8, <1>9, <2>2, <2>3 DEF Aimed, at
  <2>5. t3.cells = t.cells
    BY <1>2, <1>3, <1>4
  <2>6. Put(web, t.cells, u.cells, p, cell)
    BY <1>7, <2>2, <2>5 DEF Put, Fits, f, b
  <2> QED
    BY <2>4, <2>6
<1> QED
  BY <1>9, <1>10, <1>11 DEF r

-----------------------------------------------------------------------------
(* One cell of a frame *)

\* A place of the display shows a cell, unless the cell is left to a graphic.
Near(web, cell, shown) == cell.skip \/ (Shows(shown, cell) /\ (web => ~shown.half))

\* The frames about which the display is claimed to be right.
Good(web, prev, next) ==
    /\ Whole(next) /\ (web => Narrow(next))
    /\ prev = DirtyCells \/ Whole(prev)

\* The places that are dealt with when the cell at column k of line y comes up.
Behind(s, k, y, q) == q[2] < y \/ (q[2] = y /\ (q[1] < k \/ (q[1] = k /\ s.next = k + 1)))

\* Only a wide character carries beyond the next cell.
Reached(next, s, k, y) ==
    /\ s.next \in Nat /\ s.next <= k + 1
    /\ s.next = k + 1 <=> k > 0 /\ Width(next[<< k - 1, y >>].ch) = 2

Done(web, prev, next, s, t, q) ==
    /\ Near(web, next[q], t.cells[q])
    /\ prev = DirtyCells /\ s.out = << >> => next[q].skip

Told(web, prev, next, s, t, k, y) ==
    \A q \in Screen :
       IF Behind(s, k, y, q) THEN Done(web, prev, next, s, t, q)
                             ELSE prev = DirtyCells \/ Near(web, prev[q], t.cells[q])

Mid(web, prev, next, s, t, k, y) ==
    Aimed(s, t) /\ Reached(next, s, k, y) /\ Told(web, prev, next, s, t, k, y)

LEMMA SendingCells ==
    ASSUME NEW web, NEW d, NEW s, NEW t, Sending(web, d, s, t)
    PROVE  IsDisplay(t) /\ (~web => Halves(t.cells))
BY DEF Sending, Live, OnWeb, OnTty, TerminalOK

\* What stands behind a wide character.
LEMMA WideWhole ==
    ASSUME NEW cells, Whole(cells), NEW p \in Screen
    PROVE  /\ Width(cells[p].ch) \in 1..2
           /\ Width(cells[p].ch) = 2 =>
                 /\ Right(p) \in Screen /\ cells[Right(p)].ch = Space
                 /\ cells[Right(p)].fg = cells[p].fg /\ cells[Right(p)].bg = cells[p].bg
                 /\ cells[Right(p)].skip = cells[p].skip
<1>1. Width(cells[p].ch) > 0 /\ Width(cells[p].ch) \in 0..2
  BY Widths DEF Whole
<1>2. Width(cells[p].ch) = 2 =>
         /\ Right(p) \in Screen /\ cells[Right(p)].ch = Space
         /\ cells[Right(p)].fg = cells[p].fg /\ cells[Right(p)].bg = cells[p].bg
         /\ cells[Right(p)].skip = cells[p].skip
  BY DEF Whole, Right
<1> QED
  BY <1>1, <1>2

\* How far the cell at column k of line y takes it.
LEMMA ReachedMore ==
    ASSUME NEW next, Whole(next), NEW k \in 0..(Cols - 1), NEW y \in 0..(Rows - 1),
           NEW s, Reached(next, s, k, y)
    PROVE  /\ k < s.next => /\ Reached(next, s, k + 1, y) 
                            /\ \A q \in Screen : Behind(s, k + 1, y, q) <=> Behind(s, k, y, q)
           /\ k >= s.next =>
                 \A r : r.next = k + Step(next[<< k, y >>].ch) =>
                    /\ Reached(next, r, k + 1, y)
                    /\ \A q \in Screen :
                          Behind(r, k + 1, y, q) <=>
                             \/ Behind(s, k, y, q)
                             \/ q = << k, y >>
                             \/ q = Right(<< k, y >>) /\ Width(next[<< k, y >>].ch) = 2
<1> DEFINE p == << k, y >>
           w == Width(next[p].ch)
<1>1. k \in Int /\ y \in Int /\ p \in Screen /\ p[1] = k /\ p[2] = y
  BY InScreen
<1>2. \A q \in Screen : q = << q[1], q[2] >> /\ q[1] \in Int /\ q[2] \in Int
  BY InScreen
<1>3. w \in 1..2 /\ Step(next[p].ch) = w
  BY <1>1, WideWhole, Widths
<1>4. s.next \in Nat /\ s.next <= k + 1 /\ (s.next = k + 1 <=> k > 0 /\ Width(next[<< k - 1, y >>].ch) = 2)
  BY DEF Reached
<1>5. << (k + 1) - 1, y >> = p /\ Right(p) = << k + 1, y >>
  BY <1>1 DEF Right
<1> HIDE DEF p, w
<1>6. ASSUME k < s.next
      PROVE  /\ Reached(next, s, k + 1, y)
             /\ \A q \in Screen : Behind(s, k + 1, y, q) <=> Behind(s, k, y, q)
  <2>1. s.next = k + 1 /\ k > 0 /\ Width(next[<< k - 1, y >>].ch) = 2
    BY <1>1, <1>4, <1>6
  <2>2. << k - 1, y >> \in Screen
    BY <2>1, InScreen
  <2>3. Right(<< k - 1, y >>) = p
    BY <1>1 DEF Right, p
  <2>4. next[p].ch = Space
    BY <2>1, <2>2, <2>3, WideWhole
  <2>5. w = 1
    BY <2>4, Widths DEF w
  <2>6. Reached(next, s, k + 1, y)
    BY <1>1, <1>4, <1>5, <2>1, <2>5 DEF Reached, w
  <2>7. \A q \in Screen : Behind(s, k + 1, y, q) <=> Behind(s, k, y, q)
    BY <1>1, <1>2, <2>1 DEF Behind
  <2> QED
    BY <2>6, <2>7
<1>7. ASSUME k >= s.next, NEW r, r.next = k + Step(next[p].ch)
      PROVE  /\ Reached(next, r, k + 1, y)
             /\ \A q \in Screen :
                   Behind(r, k + 1, y, q) <=>
                      Behind(s, k, y, q) \/ q = p \/ (q = Right(p) /\ w = 2)
  <2>1. r.next = k + w
    BY <1>3, <1>7
  <2>2. Reached(next, r, k + 1, y)
    BY <1>1, <1>3, <1>5, <2>1 DEF Reached, w
  <2>3. ASSUME NEW q \in Screen
        PROVE  Behind(r, k + 1, y, q) <=>
                  Behind(s, k, y, q) \/ q = p \/ (q = Right(p) /\ w = 2)
    <3>1. q = p <=> q[1] = k /\ q[2] = y
      BY <1>2 DEF p
    <3>2. q = Right(p) <=> q[1] = k + 1 /\ q[2] = y
      BY <1>2, <1>5
    <3>3. Behind(s, k, y, q) <=> q[2] < y \/ (q[2] = y /\ q[1] < k)
      BY <1>1, <1>4, <1>7 DEF Behind
    <3>4. Behind(r, k + 1, y, q) <=>
             q[2] < y \/ (q[2] = y /\ (q[1] < k + 1 \/ (q[1] = k + 1 /\ w = 2)))
      BY <1>1, <1>3, <2>1 DEF Behind
    <3>5. q[1] \in Int /\ q[2] \in Int
      BY <1>2
    <3> QED
      BY <1>1, <3>1, <3>2, <3>3, <3>4, <3>5
  <2> QED
    BY <2>2, <2>3
<1> QED
  BY <1>6, <1>7 DEF p, w

\* What it takes that the cell at column k of line y is dealt with, when it is not
\* behind a wide character.
LEMMA MidMore ==
    ASSUME NEW web, NEW prev, NEW next, Whole(next), NEW k \in 0..(Cols - 1), NEW y \in 0..(Rows - 1),
           NEW s, NEW t, Mid(web, prev, next, s, t, k, y), k >= s.next,
           NEW r, NEW u, r.next = k + Step(next[<< k, y >>].ch), Aimed(r, u),
           \A q \in Screen : \/ q = << k, y >>
                             \/ q = Right(<< k, y >>) /\ Width(next[<< k, y >>].ch) = 2
                             \/ Behind(s, k, y, q) /\ Done(web, prev, next, r, u, q)
                             \/ ~Behind(s, k, y, q) /\ (prev = DirtyCells \/ Near(web, prev[q], u.cells[q])),
           Done(web, prev, next, r, u, << k, y >>),
           Width(next[<< k, y >>].ch) = 2 => Done(web, prev, next, r, u, Right(<< k, y >>))
    PROVE  Mid(web, prev, next, r, u, k + 1, y)
<1> DEFINE p == << k, y >>
           w == Width(next[p].ch)
<1>1. Reached(next, s, k, y)
  BY DEF Mid
<1>2. Reached(next, r, k + 1, y)
  BY <1>1, ReachedMore
<1>3. \A q \in Screen : Behind(r, k + 1, y, q) <=> Behind(s, k, y, q) \/ q = p \/ (q = Right(p) /\ w = 2)
  BY <1>1, ReachedMore
<1> HIDE DEF p, w
<1>4. Told(web, prev, next, r, u, k + 1, y)
  BY <1>3 DEF Told, p, w
<1> QED
  BY <1>2, <1>4 DEF Mid

\* A cell left to a graphic,
LEMMA VisitSkips ==
    ASSUME NEW web, NEW prev, NEW next, Good(web, prev, next),
           NEW k \in 0..(Cols - 1), NEW y \in 0..(Rows - 1),
           NEW s, NEW t, Mid(web, prev, next, s, t, k, y), k >= s.next, next[<< k, y >>].skip,
           NEW r, r.next = k + Step(next[<< k, y >>].ch), r.at = Nowhere, r.out = s.out
    PROVE  Mid(web, prev, next, r, t, k + 1, y)
<1> DEFINE p == << k, y >>
<1>1. p \in Screen
  BY InScreen
<1>2. Whole(next) /\ Aimed(r, t)
  BY DEF Good, Aimed
<1>3. Done(web, prev, next, r, t, p)
  BY DEF Done, Near
<1>4. Width(next[p].ch) = 2 => Done(web, prev, next, r, t, Right(p))
  BY <1>1, <1>2, WideWhole DEF Done, Near
<1>5. \A q \in Screen : \/ Behind(s, k, y, q) /\ Done(web, prev, next, r, t, q)
                        \/ ~Behind(s, k, y, q) /\ (prev = DirtyCells \/ Near(web, prev[q], t.cells[q]))
  BY DEF Mid, Told, Done
<1> QED
  BY <1>2, <1>3, <1>4, <1>5, MidMore

\* one that has not changed,
LEMMA VisitKeeps ==
    ASSUME NEW web, NEW prev, NEW next, Good(web, prev, next),
           NEW k \in 0..(Cols - 1), NEW y \in 0..(Rows - 1),
           NEW s, NEW t, Mid(web, prev, next, s, t, k, y), k >= s.next,
           ~next[<< k, y >>].skip, next[<< k, y >>] = prev[<< k, y >>],
           NEW r, r.next = k + Step(next[<< k, y >>].ch), r.at = s.at, r.out = s.out
    PROVE  Mid(web, prev, next, r, t, k + 1, y)
<1> DEFINE p == << k, y >>
<1>1. p \in Screen
  BY InScreen
<1>2. Whole(next) /\ Aimed(r, t)
  BY DEF Good, Aimed, Mid
<1>3. prev # DirtyCells
  <2>1. SUFFICES ASSUME prev = DirtyCells
                 PROVE  FALSE
    OBVIOUS
  <2>2. next[p].ch = Nul
    BY <1>1, <2>1 DEF DirtyCells, Cell
  <2> QED
    BY <1>1, <1>2, <2>2, Widths, WideWhole
<1>4. Whole(prev)
  BY <1>3 DEF Good
<1>5. Reached(next, s, k, y)
  BY DEF Mid
<1>6. k \in Int /\ y \in Int /\ Right(p) = << k + 1, y >>
  BY InScreen DEF Right
<1>7. ~Behind(s, k, y, p) /\ ~Behind(s, k, y, Right(p))
  BY <1>5, <1>6 DEF Behind, Reached
<1>8. \A q \in Screen : ~Behind(s, k, y, q) => Near(web, prev[q], t.cells[q])
  BY <1>3 DEF Mid, Told
<1>9. Done(web, prev, next, r, t, p)
  <2>1. Near(web, next[p], t.cells[p])
    BY <1>1, <1>7, <1>8
  <2> QED
    BY <1>3, <2>1 DEF Done
<1>10. Width(next[p].ch) = 2 => Done(web, prev, next, r, t, Right(p))
  <2> SUFFICES ASSUME Width(next[p].ch) = 2
               PROVE  Done(web, prev, next, r, t, Right(p))
    OBVIOUS
  <2> DEFINE q == Right(p)
  <2>1. q \in Screen /\ next[q].ch = Space /\ next[q].bg = next[p].bg /\ next[q].skip = next[p].skip
    BY <1>1, <1>2, WideWhole
  <2>2. prev[q].ch = Space /\ prev[q].bg = prev[p].bg /\ prev[q].skip = prev[p].skip
    BY <1>1, <1>4, WideWhole
  <2> HIDE DEF q
  <2>3. Near(web, prev[q], t.cells[q])
    BY <1>7, <1>8, <2>1 DEF q
  <2>4. Near(web, next[q], t.cells[q])
    BY <2>1, <2>2, <2>3 DEF Near, Shows
  <2> QED
    BY <1>3, <2>4 DEF Done, q
<1>11. \A q \in Screen : \/ Behind(s, k, y, q) /\ Done(web, prev, next, r, t, q)
                         \/ ~Behind(s, k, y, q) /\ (prev = DirtyCells \/ Near(web, prev[q], t.cells[q]))
  BY DEF Mid, Told, Done
<1> QED
  BY <1>2, <1>9, <1>10, <1>11, MidMore

\* A place shows what it did, half of a glyph or not.
Alike(web, now, then) ==
    /\ now.ch = then.ch /\ now.fg = then.fg /\ now.bg = then.bg
    /\ web => now.half = then.half

\* What writing a character does to the places around it.
LEMMA PutBeside ==
    ASSUME NEW web, NEW b, NEW c, NEW p \in Screen, NEW cell, Put(web, b, c, p, cell),
           ~web => Halves(b)
    PROVE  \A q \in Screen \ {p} :
              \/ Width(cell.ch) = 2 /\ q = Right(p)
              \/ ~web /\ q = Left(p) /\ p[1] > 0 /\ Width(b[q].ch) = 2
              \/ Alike(web, c[q], b[q])
<1> SUFFICES ASSUME NEW q \in Screen \ {p}
             PROVE  \/ Width(cell.ch) = 2 /\ q = Right(p)
                    \/ ~web /\ q = Left(p) /\ p[1] > 0 /\ Width(b[q].ch) = 2
                    \/ Alike(web, c[q], b[q])
  OBVIOUS
<1>1. CASE web
  <2>1. c[q] = b[q]
    BY <1>1 DEF Put, Strikes
  <2> QED
    BY <2>1 DEF Alike
<1>2. CASE ~web
  <2>1. \/ Width(cell.ch) = 2 /\ q = Right(p)
        \/ c[q] = b[q]
        \/ q = Left(p) /\ b[p].half
        \/ b[q].half /\ c[q].ch = Space /\ c[q].fg = b[q].fg /\ c[q].bg = b[q].bg
    BY DEF Put, Strikes, Wrote
  <2>2. q = Left(p) /\ b[p].half => p[1] > 0 /\ Width(b[q].ch) = 2
    BY <1>2 DEF Halves
  <2>3. b[q].half => b[q].ch = Space
    BY <1>2 DEF Halves
  <2> QED
    BY <1>2, <2>1, <2>2, <2>3 DEF Alike
<1> QED
  BY <1>1, <1>2

\* and what it does there.
LEMMA PutThere ==
    ASSUME NEW web, NEW b, NEW c, NEW p \in Screen, NEW cell, Put(web, b, c, p, cell)
    PROVE  /\ Near(web, cell, c[p])
           /\ (Width(cell.ch) = 2 /\ Right(p) \in Screen) =>
                 c[Right(p)].ch = Space /\ (cell.bg # "reset" => c[Right(p)].bg = cell.bg)
<1>1. PICK fg, bg : /\ cell.fg # "reset" => fg = cell.fg
                    /\ cell.bg # "reset" => bg = cell.bg
                    /\ Strikes(web, b, c, p, cell.ch, fg, bg)
  BY DEF Put
<1>2. c[p].ch = cell.ch /\ c[p].fg = fg /\ c[p].bg = bg /\ ~c[p].half
  BY <1>1 DEF Strikes, Wrote
<1>3. Near(web, cell, c[p])
  BY <1>1, <1>2 DEF Near, Shows
<1>4. (Width(cell.ch) = 2 /\ Right(p) \in Screen) => c[Right(p)].ch = Space /\ c[Right(p)].bg = bg
  BY <1>1 DEF Strikes, Wrote
<1> QED
  BY <1>1, <1>3, <1>4

\* and one that has.
LEMMA VisitEmits ==
    ASSUME NEW web, NEW prev, NEW next, Good(web, prev, next),
           NEW k \in 0..(Cols - 1), NEW y \in 0..(Rows - 1),
           NEW s, NEW t, Mid(web, prev, next, s, t, k, y), k >= s.next, ~next[<< k, y >>].skip,
           ~web => Halves(t.cells),
           NEW r, NEW u, r.next = k + Step(next[<< k, y >>].ch), r.out # << >>, Aimed(r, u),
           Put(web, t.cells, u.cells, << k, y >>, next[<< k, y >>])
    PROVE  Mid(web, prev, next, r, u, k + 1, y)
<1> DEFINE p == << k, y >>
           b == t.cells
           c == u.cells
           cell == next[p]
<1>1. p \in Screen /\ k \in Int /\ Left(p) = << k - 1, y >>
  BY InScreen DEF Left
<1>2. Whole(next) /\ (web => Narrow(next))
  BY DEF Good
<1>3. Reached(next, s, k, y)
  BY DEF Mid
<1> HIDE DEF b, c, cell
<1>4. Done(web, prev, next, r, u, p)
  <2>1. Near(web, cell, c[p])
    BY <1>1, PutThere DEF b, c, cell
  <2> QED
    BY <2>1 DEF Done, c, cell
<1>5. Width(cell.ch) = 2 => Done(web, prev, next, r, u, Right(p))
  <2> SUFFICES ASSUME Width(cell.ch) = 2
               PROVE  Done(web, prev, next, r, u, Right(p))
    OBVIOUS
  <2> DEFINE q == Right(p)
  <2>1. q \in Screen /\ next[q].ch = Space /\ next[q].bg = cell.bg
    BY <1>1, <1>2, WideWhole DEF cell
  <2>2. ~web
    <3>1. web => Width(cell.ch) < 2
      BY <1>1, <1>2 DEF Narrow, cell
    <3> QED
      BY <3>1
  <2>3. c[q].ch = Space /\ (cell.bg # "reset" => c[q].bg = cell.bg)
    BY <1>1, <2>1, PutThere DEF b, c, cell
  <2> HIDE DEF q
  <2>4. Near(web, next[q], c[q])
    BY <2>1, <2>2, <2>3 DEF Near, Shows
  <2> QED
    BY <2>4 DEF Done, q, c
<1>6. \A q \in Screen : \/ q = p
                        \/ q = Right(p) /\ Width(cell.ch) = 2
                        \/ Behind(s, k, y, q) /\ Done(web, prev, next, r, u, q)
                        \/ ~Behind(s, k, y, q) /\ (prev = DirtyCells \/ Near(web, prev[q], c[q]))
  <2> SUFFICES ASSUME NEW q \in Screen, q # p, ~(q = Right(p) /\ Width(cell.ch) = 2)
               PROVE  \/ Behind(s, k, y, q) /\ Done(web, prev, next, r, u, q)
                      \/ ~Behind(s, k, y, q) /\ (prev = DirtyCells \/ Near(web, prev[q], c[q]))
    OBVIOUS
  <2>1. \/ ~web /\ q = Left(p) /\ p[1] > 0 /\ Width(b[q].ch) = 2
        \/ Alike(web, c[q], b[q])
    <3>1. Put(web, b, c, p, cell) /\ (~web => Halves(b))
      BY DEF b, c, cell
    <3> HIDE DEF p
    <3> QED
      BY <1>1, <3>1, PutBeside
  <2>2. IF Behind(s, k, y, q) THEN Done(web, prev, next, s, t, q)
                              ELSE prev = DirtyCells \/ Near(web, prev[q], b[q])
    BY DEF Mid, Told, b
  <2>3. CASE Alike(web, c[q], b[q])
    <3>1. \A a : Near(web, a, b[q]) => Near(web, a, c[q])
      BY <2>3 DEF Alike, Near, Shows
    <3> QED
      BY <2>2, <3>1 DEF Done, b, c
  <2>4. CASE ~web /\ q = Left(p) /\ p[1] > 0 /\ Width(b[q].ch) = 2
    <3>1. q = << k - 1, y >> /\ k > 0 /\ k >= s.next
      BY <1>1, <2>4
    <3>2. Behind(s, k, y, q)
      BY <1>1, <3>1 DEF Behind
    <3>3. Width(next[q].ch) # 2
      BY <1>1, <1>3, <3>1 DEF Reached
    <3>4. Near(web, next[q], b[q])
      BY <2>2, <3>2 DEF Done, b
    <3>5. next[q].skip
      BY <2>4, <3>3, <3>4 DEF Near, Shows
    <3> QED
      BY <3>2, <3>5 DEF Done, Near
  <2> QED
    BY <2>1, <2>3, <2>4
<1> QED
  BY <1>2, <1>4, <1>5, <1>6, MidMore DEF c, cell

\* A frame's cells as the painter leaves them.
Bools(cells) == \A q \in Screen : cells[q].bold \in BOOLEAN

\* The client d shows the old frame, and will show the new one.
Agreed(web, prev, next, d) ==
    /\ Good(web, prev, next)
    /\ prev = DirtyCells \/ \A q \in Screen : Near(web, prev[q], d.cells[q])

\* The client that was d is right in the middle of a frame, if it can be.
Carried(web, prev, next, d, s, k, y) ==
    \E t : Sending(web, d, s, t) /\ (Agreed(web, prev, next, d) => Mid(web, prev, next, s, t, k, y))

LEMMA ListPushed ==
    ASSUME NEW out, IsList(out), NEW needed, NEW c
    PROVE  IsList(Pushed(out, needed, c))
BY ListAppend DEF Pushed

LEMMA SendingList ==
    ASSUME NEW web, NEW d, NEW s, NEW t, Sending(web, d, s, t)
    PROVE  IsList(s.out)
BY DEF Sending, Live, OnWeb, OnTty, Passed, AreCommands

LEMMA EmitSends ==
    ASSUME NEW s, IsSender(s), IsList(s.out), NEW p, NEW cell
    PROVE  Emit(s, p, cell).out # << >>
<1> DEFINE moved == Pushed(s.out, s.at # p, << "move", p >>)
           coloured == Pushed(moved, << cell.fg, cell.bg >> # s.colours,
                              << "color", << cell.fg, cell.bg >> >>)
           modified == Pushed(coloured, cell.bold # s.bold, << "modifiers", cell.bold >>)
           after == << p[1] + Step(cell.ch), p[2] >>
           at == IF cell.ch \in Ambiguous \/ after[1] >= Cols THEN Nowhere ELSE after
           out == Append(modified, << "write", cell.ch >>)
           colours == << cell.fg, cell.bg >>
           r == Emit(s, p, cell)
<1>1. r = [s EXCEPT !.out = out, !.at = at, !.colours = colours, !.bold = cell.bold]
  BY Zenon DEF Emit
<1>4. IsList(modified)
  <2>1. IsList(moved)
    BY ListPushed
  <2> HIDE DEF moved
  <2>2. IsList(coloured)
    BY <2>1, ListPushed
  <2> HIDE DEF coloured
  <2> QED
    BY <2>2, ListPushed
<1> HIDE DEF out, at, colours, r
<1>2. r.out = out
  BY <1>1 DEF IsSender
<1>3. out # << >>
  <2> HIDE DEF modified
  <2>1. Len(out) = Len(modified) + 1 /\ Len(modified) \in Nat
    BY <1>4, ListAppend DEF out, IsList
  <2> QED
    BY <2>1
<1> QED
  BY <1>2, <1>3 DEF r

LEMMA VisitOK ==
    ASSUME NEW web, NEW prev, NEW next, Bools(next), NEW d, NEW s,
           NEW k \in 0..(Cols - 1), NEW y \in 0..(Rows - 1), Carried(web, prev, next, d, s, k, y)
    PROVE  Carried(web, prev, next, d, Visit(s, << k, y >>, prev, next), k + 1, y)
<1> DEFINE p == << k, y >>
           v == k + Step(next[p].ch)
           passed == [s EXCEPT !.next = v]
           r == Visit(s, p, prev, next)
<1>1. PICK t : Sending(web, d, s, t) /\ (Agreed(web, prev, next, d) => Mid(web, prev, next, s, t, k, y))
  BY DEF Carried
<1>2. p \in Screen /\ next[p].bold \in BOOLEAN /\ p[1] = k /\ p[2] = y /\ k \in Int
      /\ s.next \in Int /\ v \in Nat
  BY <1>1, InScreen, Widths DEF Bools, Sending, IsSender
<1> HIDE DEF v
<1>3. IsSender(passed) /\ passed.next = v /\ passed.out = s.out /\ passed.at = s.at
      /\ passed.colours = s.colours
  BY <1>1, <1>2 DEF Sending, IsSender
<1> HIDE DEF passed
<1>4. Sending(web, d, passed, t)
  BY <1>1, <1>3 DEF Sending
<1>5. ~web => Halves(t.cells)
  BY <1>1, SendingCells
<1>6. CASE k < s.next
  <2>1. r = s
    BY <1>2, <1>6 DEF Visit
  <2>2. ASSUME Agreed(web, prev, next, d)
        PROVE  Mid(web, prev, next, s, t, k + 1, y)
    <3>1. Mid(web, prev, next, s, t, k, y) /\ Whole(next)
      BY <1>1, <2>2 DEF Agreed, Good
    <3>2. Reached(next, s, k, y)
      BY <3>1 DEF Mid
    <3>3. /\ Reached(next, s, k + 1, y)
          /\ \A q \in Screen : Behind(s, k + 1, y, q) <=> Behind(s, k, y, q)
      BY <1>6, <3>1, <3>2, ReachedMore
    <3> QED
      BY <3>1, <3>3 DEF Mid, Told
  <2> QED
    BY <1>1, <2>1, <2>2 DEF Carried
<1>7. CASE ~(k < s.next) /\ next[p].skip
  <2> DEFINE e == [passed EXCEPT !.at = Nowhere]
  <2>0. [[s EXCEPT !.next = p[1] + Step(next[p].ch)] EXCEPT !.at = Nowhere] = e
    BY <1>2 DEF passed, v
  <2>1. r = e
    BY <1>2, <1>7, <2>0 DEF Visit
  <2>2. IsSender(e) /\ e.next = v /\ e.out = s.out /\ e.at = Nowhere /\ e.colours = s.colours
    BY <1>3 DEF IsSender
  <2> HIDE DEF e, r
  <2>3. Sending(web, d, e, t)
    BY <1>1, <2>2 DEF Sending
  <2>4. Agreed(web, prev, next, d) => Mid(web, prev, next, e, t, k + 1, y)
    <3>1. k >= s.next /\ next[p].skip /\ e.next = k + Step(next[p].ch)
      BY <1>2, <1>7, <2>2 DEF v
    <3> QED
      BY <1>1, <2>2, <3>1, VisitSkips DEF Agreed
  <2> QED
    BY <2>1, <2>3, <2>4 DEF Carried, r
<1>8. CASE ~(k < s.next) /\ ~next[p].skip /\ next[p] = prev[p]
  <2>1. r = passed
    BY <1>2, <1>8 DEF Visit, passed, v
  <2>2. Agreed(web, prev, next, d) => Mid(web, prev, next, passed, t, k + 1, y)
    <3>1. k >= s.next /\ passed.next = k + Step(next[p].ch)
      BY <1>2, <1>3, <1>8 DEF v
    <3> QED
      BY <1>1, <1>3, <1>8, <3>1, VisitKeeps DEF Agreed
  <2> QED
    BY <1>4, <2>1, <2>2 DEF Carried
<1>9. CASE ~(k < s.next) /\ ~next[p].skip /\ next[p] # prev[p]
  <2> DEFINE cell == next[p]
             e == Emit(passed, p, cell)
  <2>1. r = e
    BY <1>2, <1>9 DEF Visit, passed, v
  <2> HIDE DEF r
  <2>2. PICK u : /\ Sending(web, d, e, u) /\ e.next = passed.next
                 /\ (Aimed(passed, t) /\ HasPlace(web, p, cell.ch)) =>
                       Aimed(e, u) /\ Put(web, t.cells, u.cells, p, cell)
    BY <1>2, <1>4, EmitOK
  <2>3. e.out # << >>
    BY <1>3, <1>4, EmitSends, SendingList
  <2>4. ASSUME Agreed(web, prev, next, d)
        PROVE  Mid(web, prev, next, e, u, k + 1, y)
    <3>1. Mid(web, prev, next, s, t, k, y) /\ Whole(next) /\ (web => Narrow(next))
      BY <1>1, <2>4 DEF Agreed, Good
    <3>2. Aimed(passed, t)
      BY <1>3, <3>1 DEF Mid, Aimed
    <3>3. HasPlace(web, p, cell.ch)
      <4>1. Width(cell.ch) \in 1..2 /\ (Width(cell.ch) = 2 => Right(p) \in Screen)
        BY <1>2, <3>1, WideWhole
      <4>2. Width(cell.ch) = 2 => k + 1 < Cols
        <5>1. Right(p)[1] = k + 1
          BY <1>2 DEF Right
        <5> QED
          BY <4>1, <5>1, InScreen
      <4>3. web => Width(cell.ch) < 2
        BY <1>2, <3>1 DEF Narrow
      <4> QED
        BY <1>2, <4>1, <4>2, <4>3, InScreen DEF HasPlace
    <3>4. Aimed(e, u) /\ Put(web, t.cells, u.cells, p, cell) /\ e.next = v
      BY <1>3, <2>2, <3>2, <3>3
    <3> HIDE DEF e
    <3> QED
      <4>1. k >= s.next /\ e.next = k + Step(next[p].ch)
        BY <1>2, <1>9, <3>4 DEF v
      <4> QED
        BY <1>5, <1>9, <2>3, <2>4, <3>1, <3>4, <4>1, VisitEmits DEF Agreed
  <2> QED
    BY <2>1, <2>2, <2>4 DEF Carried, r
<1> QED
  BY <1>6, <1>7, <1>8, <1>9

-----------------------------------------------------------------------------
(* All cells of a frame *)

VisitOp(s, e) == Visit(s, e.p, e.prev, e.next)
Visiting == INSTANCE Folding WITH Op <- VisitOp

RowOp(s, e) == VisitRow(s, e.y, e.prev, e.next)
Rowing == INSTANCE Folding WITH Op <- RowOp

LEMMA RowSteps ==
    ASSUME NEW s, NEW y, NEW prev, NEW next
    PROVE  \E f, e : /\ Visiting!Steps(f, [s EXCEPT !.next = 0], e, Cols)
                     /\ VisitRow(s, y, prev, next) = f[Cols]
                     /\ \A i \in 1..Cols : e[i] = [p |-> << i - 1, y >>, prev |-> prev, next |-> next]
<1> DEFINE columns == [i \in 1..Cols |-> i - 1]
           start == [s EXCEPT !.next = 0]
           Given(x) == [p |-> << x, y >>, prev |-> prev, next |-> next]
           e == [i \in 1..Cols |-> Given(columns[i])]
           Op0(t, x) == Visit(t, << x, y >>, prev, next)
           IsFold(F) == F = [t \in SUBSET DOMAIN columns |->
                               IF t = {} THEN start ELSE Op0(F[t \ {Max(t)}], columns[Max(t)])]
           fold == CHOOSE F : IsFold(F)
<1>1. Cols \in Nat /\ DOMAIN columns = 1..Cols
  BY InScreen
<1>2. VisitRow(s, y, prev, next) = fold[DOMAIN columns]
  BY DEF VisitRow, FoldLeft, MapThenFoldSet
<1>3. \A t, x : Op0(t, x) = VisitOp(t, Given(x))
  BY DEF VisitOp
<1>4. \A i \in 1..Cols : e[i] = [p |-> << i - 1, y >>, prev |-> prev, next |-> next]
  OBVIOUS
<1> HIDE DEF Op0, Given, start
<1>5. \A F : IsFold(F) <=> Visiting!Rule(F, start, e, Cols)
  <2>1. \A t : Visiting!Max(t) = Max(t)
    BY DEF Max, Visiting!Max
  <2>2. \A t \in SUBSET (1..Cols) : t # {} => Max(t) \in 1..Cols
    BY <1>1, MaxUpTo
  <2>3. \A t \in SUBSET (1..Cols) : t # {} => e[Max(t)] = Given(columns[Max(t)])
    BY <2>2
  <2> HIDE DEF e, columns
  <2> QED
    BY <1>1, <1>3, <2>1, <2>3 DEF Visiting!Rule
<1>6. IsFold(fold)
  <2> HIDE DEF IsFold, e
  <2>1. \E F : IsFold(F)
    BY <1>1, <1>5, Visiting!FoldExists
  <2> QED
    BY <2>1
<1> HIDE DEF fold, IsFold, e, columns
<1>7. \E f : Visiting!Steps(f, start, e, Cols) /\ f[Cols] = fold[1..Cols]
  BY <1>1, <1>5, <1>6, Visiting!FoldSteps
<1> QED
  BY <1>1, <1>2, <1>4, <1>7 DEF start

LEMMA DiffSteps ==
    ASSUME NEW prev, NEW next
    PROVE  \E f, e : /\ Rowing!Steps(f, NoCommands, e, Rows)
                     /\ Diff(prev, next) = f[Rows].out
                     /\ \A i \in 1..Rows : e[i] = [y |-> i - 1, prev |-> prev, next |-> next]
<1> DEFINE rows == [i \in 1..Rows |-> i - 1]
           Given(y) == [y |-> y, prev |-> prev, next |-> next]
           e == [i \in 1..Rows |-> Given(rows[i])]
           Op0(t, y) == VisitRow(t, y, prev, next)
           IsFold(F) == F = [t \in SUBSET DOMAIN rows |->
                               IF t = {} THEN NoCommands ELSE Op0(F[t \ {Max(t)}], rows[Max(t)])]
           fold == CHOOSE F : IsFold(F)
<1>1. Rows \in Nat /\ DOMAIN rows = 1..Rows
  BY InScreen
<1>2. Diff(prev, next) = fold[DOMAIN rows].out
  BY DEF Diff, FoldLeft, MapThenFoldSet
<1>3. \A t, y : Op0(t, y) = RowOp(t, Given(y))
  BY DEF RowOp
<1>4. \A i \in 1..Rows : e[i] = [y |-> i - 1, prev |-> prev, next |-> next]
  OBVIOUS
<1> HIDE DEF Op0, Given
<1>5. \A F : IsFold(F) <=> Rowing!Rule(F, NoCommands, e, Rows)
  <2>1. \A t : Rowing!Max(t) = Max(t)
    BY DEF Max, Rowing!Max
  <2>2. \A t \in SUBSET (1..Rows) : t # {} => Max(t) \in 1..Rows
    BY <1>1, MaxUpTo
  <2>3. \A t \in SUBSET (1..Rows) : t # {} => e[Max(t)] = Given(rows[Max(t)])
    BY <2>2
  <2> HIDE DEF e, rows
  <2> QED
    BY <1>1, <1>3, <2>1, <2>3 DEF Rowing!Rule
<1>6. IsFold(fold)
  <2> HIDE DEF IsFold, e
  <2>1. \E F : IsFold(F)
    BY <1>1, <1>5, Rowing!FoldExists
  <2> QED
    BY <2>1
<1> HIDE DEF fold, IsFold, e, rows
<1>7. \E f : Rowing!Steps(f, NoCommands, e, Rows) /\ f[Rows] = fold[1..Rows]
  BY <1>1, <1>5, <1>6, Rowing!FoldSteps
<1> QED
  BY <1>1, <1>2, <1>4, <1>7

\* Between two lines.
Between(web, prev, next, d, s, y) ==
    \E t : /\ Sending(web, d, s, t)
           /\ Agreed(web, prev, next, d) =>
                 /\ Aimed(s, t)
                 /\ \A q \in Screen :
                       IF q[2] < y THEN Done(web, prev, next, s, t, q)
                                   ELSE prev = DirtyCells \/ Near(web, prev[q], t.cells[q])

LEMMA RowOK ==
    ASSUME NEW web, NEW prev, NEW next, Bools(next), NEW d, NEW s,
           NEW y \in 0..(Rows - 1), Between(web, prev, next, d, s, y)
    PROVE  Between(web, prev, next, d, VisitRow(s, y, prev, next), y + 1)
<1> DEFINE start == [s EXCEPT !.next = 0]
<1>1. PICK f, e : /\ Visiting!Steps(f, start, e, Cols)
                  /\ VisitRow(s, y, prev, next) = f[Cols]
                  /\ \A i \in 1..Cols : e[i] = [p |-> << i - 1, y >>, prev |-> prev, next |-> next]
  BY RowSteps
<1>2. y \in Int /\ Cols \in Nat \ {0} /\ Cols \in Int
      /\ \A q \in Screen : q[1] \in 0..(Cols - 1) /\ q[2] \in Int
  BY InScreen
<1>3. Carried(web, prev, next, d, start, 0, y)
  <2>1. PICK t : /\ Sending(web, d, s, t)
                 /\ Agreed(web, prev, next, d) =>
                       /\ Aimed(s, t)
                       /\ \A q \in Screen :
                             IF q[2] < y THEN Done(web, prev, next, s, t, q)
                                         ELSE prev = DirtyCells \/ Near(web, prev[q], t.cells[q])
    BY DEF Between
  <2>2. IsSender(start) /\ start.next = 0 /\ start.out = s.out /\ start.at = s.at /\ start.colours = s.colours
    BY <2>1 DEF Sending, IsSender
  <2> HIDE DEF start
  <2>3. Sending(web, d, start, t)
    BY <2>1, <2>2 DEF Sending
  <2>4. ASSUME Agreed(web, prev, next, d)
        PROVE  Mid(web, prev, next, start, t, 0, y)
    <3>1. Aimed(start, t)
      BY <2>1, <2>2, <2>4 DEF Aimed
    <3>2. Reached(next, start, 0, y)
      BY <2>2 DEF Reached
    <3>3. \A q \in Screen : Behind(start, 0, y, q) <=> q[2] < y
      BY <1>2, <2>2 DEF Behind
    <3>4. Told(web, prev, next, start, t, 0, y)
      BY <2>1, <2>2, <2>4, <3>3 DEF Told, Done
    <3> QED
      BY <3>1, <3>2, <3>4 DEF Mid
  <2> QED
    BY <2>3, <2>4 DEF Carried
<1> HIDE DEF start
<1> DEFINE T == {k \in 0..Cols : Carried(web, prev, next, d, f[k], k, y)}
<1>4. 0 \in T
  BY <1>1, <1>2, <1>3 DEF Visiting!Steps
<1>5. ASSUME NEW k \in 1..Cols, k - 1 \in T
      PROVE  k \in T
  <2>1. f[k] = Visit(f[k - 1], << k - 1, y >>, prev, next)
    <3>1. f[k] = VisitOp(f[k - 1], e[k])
      BY <1>1 DEF Visiting!Steps
    <3>2. e[k] = [p |-> << k - 1, y >>, prev |-> prev, next |-> next]
      BY <1>1
    <3> QED
      BY <3>1, <3>2 DEF VisitOp
  <2>2. k - 1 \in 0..(Cols - 1) /\ (k - 1) + 1 = k
    BY <1>2
  <2>3. Carried(web, prev, next, d, f[k - 1], k - 1, y)
    BY <1>5
  <2> DEFINE j == k - 1
  <2>4. Carried(web, prev, next, d, f[j], j, y) /\ j \in 0..(Cols - 1)
    BY <2>2, <2>3
  <2> HIDE DEF j
  <2>5. Carried(web, prev, next, d, Visit(f[j], << j, y >>, prev, next), j + 1, y)
    BY <2>4, VisitOK
  <2> QED
    BY <2>1, <2>2, <2>5 DEF j
<1> HIDE DEF T
<1>6. 0..Cols \subseteq T
  BY <1>2, <1>4, <1>5, UpTo
<1>7. Carried(web, prev, next, d, f[Cols], Cols, y)
  BY <1>2, <1>6 DEF T
<1> DEFINE r == f[Cols]
<1> HIDE DEF r
<1>8. PICK u : Sending(web, d, r, u) /\ (Agreed(web, prev, next, d) => Mid(web, prev, next, r, u, Cols, y))
  BY <1>7 DEF Carried, r
<1>9. ASSUME Agreed(web, prev, next, d)
      PROVE  /\ Aimed(r, u)
             /\ \A q \in Screen :
                   IF q[2] < y + 1 THEN Done(web, prev, next, r, u, q)
                                   ELSE prev = DirtyCells \/ Near(web, prev[q], u.cells[q])
  <2>1. Aimed(r, u) /\ Told(web, prev, next, r, u, Cols, y)
    BY <1>8, <1>9 DEF Mid
  <2>2. \A q \in Screen : Behind(r, Cols, y, q) <=> q[2] < y + 1
    BY <1>2 DEF Behind
  <2> QED
    BY <2>1, <2>2 DEF Told
<1>10. Between(web, prev, next, d, r, y + 1)
  BY <1>8, <1>9 DEF Between
<1> QED
  BY <1>1, <1>10 DEF r

\* What a client makes of a difference.
LEMMA DiffOK ==
    ASSUME NEW web, NEW prev, NEW next, Bools(next), NEW d,
           web => IsDisplay(d), ~web => TerminalOK(d)
    PROVE  \E fg, bg, t :
              /\ Live(web, d, Diff(prev, next), fg, bg, t)
              /\ Agreed(web, prev, next, d) =>
                    \A q \in Screen :
                       /\ Near(web, next[q], t.cells[q])
                       /\ prev = DirtyCells /\ Diff(prev, next) = << >> => next[q].skip
<1>1. PICK f, e : /\ Rowing!Steps(f, NoCommands, e, Rows)
                  /\ Diff(prev, next) = f[Rows].out
                  /\ \A i \in 1..Rows : e[i] = [y |-> i - 1, prev |-> prev, next |-> next]
  BY DiffSteps
<1>2. Rows \in Nat \ {0} /\ Rows \in Int /\ \A q \in Screen : q[2] \in 0..(Rows - 1)
  BY InScreen
<1>3. Between(web, prev, next, d, NoCommands, 0)
  <2> DEFINE s == NoCommands
  <2>1. IsSender(s) /\ s.out = << >> /\ s.at = Nowhere /\ s.colours[1] = "reset" /\ s.colours[2] = "reset"
    BY DEF NoCommands, IsSender
  <2> HIDE DEF s
  <2>2. Live(web, d, << >>, "reset", "reset", d)
    BY WebNothing, TtyNothing DEF Live
  <2>3. Sending(web, d, s, d)
    BY <2>1, <2>2 DEF Sending
  <2>4. \A q \in Screen : ~(q[2] < 0)
    BY <1>2
  <2>5. Agreed(web, prev, next, d) =>
           /\ Aimed(s, d)
           /\ \A q \in Screen :
                 IF q[2] < 0 THEN Done(web, prev, next, s, d, q)
                             ELSE prev = DirtyCells \/ Near(web, prev[q], d.cells[q])
    BY <2>1, <2>4 DEF Aimed, Agreed
  <2> QED
    BY <2>3, <2>5 DEF Between, s
<1> DEFINE T == {k \in 0..Rows : Between(web, prev, next, d, f[k], k)}
<1>4. 0 \in T
  BY <1>1, <1>2, <1>3 DEF Rowing!Steps
<1>5. ASSUME NEW k \in 1..Rows, k - 1 \in T
      PROVE  k \in T
  <2>1. f[k] = VisitRow(f[k - 1], k - 1, prev, next)
    <3>1. f[k] = RowOp(f[k - 1], e[k])
      BY <1>1 DEF Rowing!Steps
    <3>2. e[k] = [y |-> k - 1, prev |-> prev, next |-> next]
      BY <1>1
    <3> QED
      BY <3>1, <3>2 DEF RowOp
  <2>2. k - 1 \in 0..(Rows - 1) /\ (k - 1) + 1 = k
    BY <1>2
  <2> DEFINE j == k - 1
  <2>4. Between(web, prev, next, d, f[j], j) /\ j \in 0..(Rows - 1)
    BY <2>2, <1>5
  <2> HIDE DEF j
  <2>5. Between(web, prev, next, d, VisitRow(f[j], j, prev, next), j + 1)
    BY <2>4, RowOK
  <2> QED
    BY <2>1, <2>2, <2>5 DEF j
<1> HIDE DEF T
<1>6. 0..Rows \subseteq T
  BY <1>2, <1>4, <1>5, UpTo
<1> DEFINE r == f[Rows]
<1>7. Between(web, prev, next, d, r, Rows)
  BY <1>2, <1>6 DEF T
<1> HIDE DEF r
<1>8. PICK t : /\ Sending(web, d, r, t)
               /\ Agreed(web, prev, next, d) =>
                     \A q \in Screen :
                        IF q[2] < Rows THEN Done(web, prev, next, r, t, q)
                                       ELSE prev = DirtyCells \/ Near(web, prev[q], t.cells[q])
  BY <1>7 DEF Between
<1>9. Live(web, d, r.out, r.colours[1], r.colours[2], t)
  BY <1>8 DEF Sending
<1>10. Agreed(web, prev, next, d) =>
          \A q \in Screen :
             /\ Near(web, next[q], t.cells[q])
             /\ prev = DirtyCells /\ r.out = << >> => next[q].skip
  BY <1>2, <1>8 DEF Done
<1> QED
  BY <1>1, <1>9, <1>10 DEF r

-----------------------------------------------------------------------------
(* From commands to a display *)

\* FoldLeft of a list, for the encoder,
LEMMA EncodingFolds ==
    ASSUME NEW base, NEW s, IsList(s)
    PROVE  Encoding!FoldsTo(base, s, Len(s), FoldLeft(Encode, base, s))
<1> DEFINE N == Len(s)
           IsFold(F) == F = [t \in SUBSET DOMAIN s |->
                               IF t = {} THEN base ELSE Encode(F[t \ {Max(t)}], s[Max(t)])]
           fold == CHOOSE F : IsFold(F)
<1>1. N \in Nat /\ DOMAIN s = 1..N
  BY ListIsSeq
<1>2. FoldLeft(Encode, base, s) = fold[DOMAIN s]
  BY DEF FoldLeft, MapThenFoldSet
<1>3. \A F : IsFold(F) <=> Encoding!Rule(F, base, s, N)
  <2>1. \A t : Encoding!Max(t) = Max(t)
    BY DEF Max, Encoding!Max
  <2> HIDE DEF N
  <2> QED
    BY <1>1, <2>1 DEF Encoding!Rule
<1> HIDE DEF IsFold, N
<1>4. \E F : IsFold(F)
  BY <1>1, <1>3, Encoding!FoldExists
<1>5. IsFold(fold)
  BY <1>4
<1> HIDE DEF fold
<1> QED
  BY <1>1, <1>2, <1>3, <1>5, Encoding!FoldsRule DEF N
\* a terminal
LEMMA ShowingFolds ==
    ASSUME NEW base, NEW s, IsList(s)
    PROVE  Showing!FoldsTo(base, s, Len(s), FoldLeft(Terminal, base, s))
<1> DEFINE N == Len(s)
           IsFold(F) == F = [t \in SUBSET DOMAIN s |->
                               IF t = {} THEN base ELSE Terminal(F[t \ {Max(t)}], s[Max(t)])]
           fold == CHOOSE F : IsFold(F)
<1>1. N \in Nat /\ DOMAIN s = 1..N
  BY ListIsSeq
<1>2. FoldLeft(Terminal, base, s) = fold[DOMAIN s]
  BY DEF FoldLeft, MapThenFoldSet
<1>3. \A F : IsFold(F) <=> Showing!Rule(F, base, s, N)
  <2>1. \A t : Showing!Max(t) = Max(t)
    BY DEF Max, Showing!Max
  <2> HIDE DEF N
  <2> QED
    BY <1>1, <2>1 DEF Showing!Rule
<1> HIDE DEF IsFold, N
<1>4. \E F : IsFold(F)
  BY <1>1, <1>3, Showing!FoldExists
<1>5. IsFold(fold)
  BY <1>4
<1> HIDE DEF fold
<1> QED
  BY <1>1, <1>2, <1>3, <1>5, Showing!FoldsRule DEF N
\* and a canvas.
LEMMA CanvassingFolds ==
    ASSUME NEW base, NEW s, IsList(s)
    PROVE  Canvassing!FoldsTo(base, s, Len(s), FoldLeft(Canvas, base, s))
<1> DEFINE N == Len(s)
           IsFold(F) == F = [t \in SUBSET DOMAIN s |->
                               IF t = {} THEN base ELSE Canvas(F[t \ {Max(t)}], s[Max(t)])]
           fold == CHOOSE F : IsFold(F)
<1>1. N \in Nat /\ DOMAIN s = 1..N
  BY ListIsSeq
<1>2. FoldLeft(Canvas, base, s) = fold[DOMAIN s]
  BY DEF FoldLeft, MapThenFoldSet
<1>3. \A F : IsFold(F) <=> Canvassing!Rule(F, base, s, N)
  <2>1. \A t : Canvassing!Max(t) = Max(t)
    BY DEF Max, Canvassing!Max
  <2> HIDE DEF N
  <2> QED
    BY <1>1, <2>1 DEF Canvassing!Rule
<1> HIDE DEF IsFold, N
<1>4. \E F : IsFold(F)
  BY <1>1, <1>3, Canvassing!FoldExists
<1>5. IsFold(fold)
  BY <1>4
<1> HIDE DEF fold
<1> QED
  BY <1>1, <1>2, <1>3, <1>5, Canvassing!FoldsRule DEF N

\* What a terminal shows after commands.
LEMMA TtyShows ==
    ASSUME NEW d, NEW out, NEW fg, NEW bg, NEW t, OnTty(d, out, fg, bg, t)
    PROVE  /\ OnTerminal(d, EncodeAnsi(out)) = t /\ TerminalOK(t)
           /\ out = << >> => t = d
<1>1. PICK e : Passed(d, out, e, t)
  BY DEF OnTty
<1>2. /\ IsList(out) /\ Encoding!FoldsTo(NothingEncoded, out, Len(out), e)
      /\ IsList(e.out) /\ Showing!FoldsTo(d, e.out, Len(e.out), t)
  BY <1>1 DEF Passed, After
<1>3. Len(out) \in Nat /\ Len(e.out) \in Nat
  BY <1>2 DEF IsList
<1>4. FoldLeft(Encode, NothingEncoded, out) = e
  BY <1>2, <1>3, EncodingFolds, Encoding!FoldsOnce
<1>5. EncodeAnsi(out) = e.out
  BY <1>4 DEF EncodeAnsi
<1>6. FoldLeft(Terminal, d, e.out) = t
  BY <1>2, <1>3, ShowingFolds, Showing!FoldsOnce
<1>7. OnTerminal(d, EncodeAnsi(out)) = t
  BY <1>5, <1>6 DEF OnTerminal
<1>8. ASSUME out = << >>
      PROVE  t = d
  <2>1. Len(out) = 0
    BY <1>8
  <2>2. Encoding!FoldsTo(NothingEncoded, out, 0, e)
    BY <1>2, <2>1
  <2>3. e = NothingEncoded
    BY <2>2, Encoding!FoldsNothing, Encoding!FoldsOnce
  <2>4. e.out = << >> /\ Len(e.out) = 0
    BY <2>3 DEF NothingEncoded
  <2>5. Showing!FoldsTo(d, e.out, 0, t)
    BY <1>2, <2>4
  <2> QED
    BY <2>5, Showing!FoldsNothing, Showing!FoldsOnce
<1> QED
  BY <1>7, <1>8 DEF OnTty

\* What a canvas shows after commands.
LEMMA WebShows ==
    ASSUME NEW d, NEW out, NEW fg, NEW bg, NEW t, OnWeb(d, out, fg, bg, t)
    PROVE  /\ OnCanvas(d, out) = t /\ IsDisplay(t) /\ AreCommands(out)
           /\ out = << >> => t = d
<1>1. IsList(out) /\ Canvassing!FoldsTo(d, out, Len(out), t) /\ AreCommands(out) /\ IsDisplay(t)
  BY DEF OnWeb, AreCommands
<1>2. Len(out) \in Nat
  BY <1>1 DEF IsList
<1>3. FoldLeft(Canvas, d, out) = t
  BY <1>1, <1>2, CanvassingFolds, Canvassing!FoldsOnce
<1>4. ASSUME out = << >>
      PROVE  t = d
  <2>1. Len(out) = 0
    BY <1>4
  <2>2. Canvassing!FoldsTo(d, out, 0, t)
    BY <1>1, <2>1
  <2> QED
    BY <2>2, Canvassing!FoldsNothing, Canvassing!FoldsOnce
<1> QED
  BY <1>1, <1>3, <1>4 DEF OnCanvas

-----------------------------------------------------------------------------
(* The binary protocol *)

BytesOp(bytes, c) == bytes \o EncodeCommand(c)
Binding == INSTANCE Folding WITH Op <- BytesOp

\* The bytes of e follow the first o.
Follow(bytes, o, e) == \A j \in 1..Len(e) : bytes[o + j] = e[j]

\* e is read as c when it follows the first o bytes.
ReadAs(bytes, o, e, c) == CommandAt(bytes, o + 1) = c /\ CommandLength(bytes, o + 1) = Len(e)

LEMMA ColourBytes ==
    ASSUME NEW c
    PROVE  LET a == EncodeColor(c)
           IN  /\ IsList(a) /\ Len(a) \in 1..2
               /\ a[1] = 0 => c = "reset" /\ Len(a) = 1
               /\ a[1] # 0 => Len(a) = 2 /\ a[2] = c
<1>1. CASE c = "reset"
  <2>1. EncodeColor(c) = << 0 >>
    BY <1>1 DEF EncodeColor, Indexed
  <2> QED
    BY <1>1, <2>1 DEF IsList
<1>2. CASE c # "reset"
  <2>1. EncodeColor(c) = << 2, c >> \/ EncodeColor(c) = << 1, c >>
    <3>1. c \in Indexed => EncodeColor(c) = << 2, c >>
      BY <1>2 DEF EncodeColor
    <3>2. c \notin Indexed => EncodeColor(c) = << 1, c >>
      BY <1>2 DEF EncodeColor
    <3> QED
      BY <3>1, <3>2
  <2> QED
    BY <1>2, <2>1 DEF IsList
<1> QED
  BY <1>1, <1>2

LEMMA ColourRead ==
    ASSUME NEW c, NEW bytes, NEW o \in Nat, Follow(bytes, o, EncodeColor(c))
    PROVE  ColorLength(bytes, o + 1) = Len(EncodeColor(c)) /\ ColorAt(bytes, o + 1) = c
<1> DEFINE a == EncodeColor(c)
<1>1. IsList(a) /\ Len(a) \in 1..2 /\ (a[1] = 0 => c = "reset" /\ Len(a) = 1)
      /\ (a[1] # 0 => Len(a) = 2 /\ a[2] = c)
  BY ColourBytes
<1>2. \A j \in 1..Len(a) : bytes[o + j] = a[j]
  BY DEF Follow
<1> HIDE DEF a
<1>3. bytes[o + 1] = a[1] /\ (Len(a) = 2 => bytes[o + 2] = a[2]) /\ (o + 1) + 1 = o + 2
  BY <1>1, <1>2
<1>4. ColorLength(bytes, o + 1) = Len(a)
  BY <1>1, <1>3 DEF ColorLength
<1>5. ColorAt(bytes, o + 1) = c
  BY <1>1, <1>3 DEF ColorAt
<1> QED
  BY <1>4, <1>5 DEF a

LEMMA ColoursRead ==
    ASSUME NEW f, NEW b, NEW c, c = << "color", << f, b >> >>
    PROVE  /\ IsList(EncodeCommand(c)) /\ Len(EncodeCommand(c)) \in 2..5
           /\ \A bytes, o : (o \in Nat /\ Follow(bytes, o, EncodeCommand(c))) =>
                               ReadAs(bytes, o, EncodeCommand(c), c)
<1> DEFINE u == EncodeColor(f)
           v == EncodeColor(b)
           head == << 2 >> \o u
           e == head \o v
<1>1. IsList(u) /\ Len(u) \in 1..2 /\ IsList(v) /\ Len(v) \in 1..2
  BY ColourBytes
<1>2. EncodeCommand(c) = e
  BY DEF EncodeCommand
<1>3. IsList(<< 2 >>) /\ Len(<< 2 >>) = 1 /\ << 2 >>[1] = 2
  BY DEF IsList
<1> HIDE DEF u, v
<1>4. Parts(head, << 2 >>, 1, u, Len(u))
  BY <1>1, <1>3, JoinedLists
<1> HIDE DEF head
<1>5. IsList(head) /\ Len(head) = 1 + Len(u) /\ head[1] = 2 /\ \A i \in 1..Len(u) : head[1 + i] = u[i]
  BY <1>3, <1>4 DEF Parts
<1>6. Parts(e, head, Len(head), v, Len(v))
  BY <1>1, <1>5, JoinedLists
<1> HIDE DEF e
<1>7. /\ IsList(e) /\ Len(e) = 1 + Len(u) + Len(v) /\ e[1] = 2
      /\ \A i \in 1..Len(u) : e[1 + i] = u[i]
      /\ \A i \in 1..Len(v) : e[1 + Len(u) + i] = v[i]
  BY <1>1, <1>5, <1>6 DEF Parts
<1>8. ASSUME NEW bytes, NEW o \in Nat, Follow(bytes, o, e)
      PROVE  ReadAs(bytes, o, e, c)
  <2>1. \A j \in 1..Len(e) : bytes[o + j] = e[j]
    BY <1>8 DEF Follow
  <2>2. bytes[o + 1] = 2
    BY <1>1, <1>7, <2>1
  <2>3. \A i \in 1..Len(u) : bytes[(o + 1) + i] = u[i]
    <3> SUFFICES ASSUME NEW i \in 1..Len(u)
                 PROVE  bytes[(o + 1) + i] = u[i]
      OBVIOUS
    <3>1. 1 + i \in 1..Len(e) /\ o + (1 + i) = (o + 1) + i
      BY <1>1, <1>7
    <3> QED
      BY <1>7, <2>1, <3>1
  <2>4. \A i \in 1..Len(v) : bytes[(o + 1 + Len(u)) + i] = v[i]
    <3> SUFFICES ASSUME NEW i \in 1..Len(v)
                 PROVE  bytes[(o + 1 + Len(u)) + i] = v[i]
      OBVIOUS
    <3>1. 1 + Len(u) + i \in 1..Len(e) /\ o + (1 + Len(u) + i) = (o + 1 + Len(u)) + i
      BY <1>1, <1>7
    <3> QED
      BY <1>7, <2>1, <3>1
  <2>5. ColorLength(bytes, o + 2) = Len(u) /\ ColorAt(bytes, o + 2) = f
    <3>1. Follow(bytes, o + 1, EncodeColor(f)) /\ o + 1 \in Nat
      BY <2>3 DEF Follow, u
    <3>2. ColorLength(bytes, (o + 1) + 1) = Len(EncodeColor(f)) /\ ColorAt(bytes, (o + 1) + 1) = f
      BY <3>1, ColourRead
    <3> QED
      BY <3>2 DEF u
  <2>6. ColorLength(bytes, o + 2 + Len(u)) = Len(v) /\ ColorAt(bytes, o + 2 + Len(u)) = b
    <3> DEFINE m == o + 1 + Len(u)
    <3>1. Follow(bytes, m, EncodeColor(b)) /\ m \in Nat
      BY <1>1, <2>4 DEF Follow, v
    <3> HIDE DEF m
    <3>2. ColorLength(bytes, m + 1) = Len(EncodeColor(b)) /\ ColorAt(bytes, m + 1) = b
      BY <3>1, ColourRead
    <3>3. m + 1 = o + 2 + Len(u)
      BY <1>1 DEF m
    <3> QED
      BY <3>2, <3>3 DEF v
  <2> DEFINE i == o + 1
             second == i + 1 + ColorLength(bytes, i + 1)
  <2>7. i + 1 = o + 2 /\ second = o + 2 + Len(u)
    BY <1>1, <2>5
  <2>8. CommandAt(bytes, i) = << "color", << ColorAt(bytes, i + 1), ColorAt(bytes, second) >> >>
    BY <2>2 DEF CommandAt
  <2>9. CommandLength(bytes, i) = second + ColorLength(bytes, second) - i
    BY <2>2 DEF CommandLength
  <2> HIDE DEF second
  <2>10. CommandAt(bytes, i) = c
    BY <2>5, <2>6, <2>7, <2>8
  <2>11. CommandLength(bytes, i) = Len(e)
    BY <1>1, <1>7, <2>6, <2>7, <2>9
  <2> QED
    BY <2>10, <2>11 DEF ReadAs
<1>9. IsList(e) /\ Len(e) \in 2..5
  <2>1. \A m, n, l : m \in 1..2 /\ n \in 1..2 /\ l = 1 + m + n => l \in 2..5
    OBVIOUS
  <2>2. Len(e) \in 2..5
    BY <1>1, <1>7, <2>1
  <2> QED
    BY <1>7, <2>2
<1> QED
  BY <1>2, <1>8, <1>9

LEMMA CommandRead ==
    ASSUME NEW c, IsCommand(c)
    PROVE  /\ IsList(EncodeCommand(c)) /\ Len(EncodeCommand(c)) \in 2..5
           /\ \A bytes, o : (o \in Nat /\ Follow(bytes, o, EncodeCommand(c))) =>
                               ReadAs(bytes, o, EncodeCommand(c), c)
<1> DEFINE Held(e) == /\ IsList(e) /\ Len(e) \in 2..5
                      /\ \A bytes, o : (o \in Nat /\ Follow(bytes, o, e)) => ReadAs(bytes, o, e, c)
<1>1. ASSUME NEW x, NEW y, c = << "move", << x, y >> >>
      PROVE  Held(EncodeCommand(c))
  <2>1. EncodeCommand(c) = << 1, x, y >>
    BY <1>1 DEF EncodeCommand
  <2> DEFINE e == << 1, x, y >>
  <2>2. IsList(e) /\ Len(e) = 3 /\ e[1] = 1 /\ e[2] = x /\ e[3] = y
    BY DEF IsList
  <2> HIDE DEF e
  <2>3. ASSUME NEW bytes, NEW o \in Nat, Follow(bytes, o, e)
        PROVE  ReadAs(bytes, o, e, c)
    <3>1. bytes[o + 1] = 1 /\ bytes[o + 2] = x /\ bytes[o + 3] = y /\ (o + 1) + 1 = o + 2 /\ (o + 1) + 2 = o + 3
      BY <2>2, <2>3 DEF Follow
    <3>2. CommandAt(bytes, o + 1) = c
      BY <1>1, <3>1 DEF CommandAt
    <3>3. CommandLength(bytes, o + 1) = 3
      BY <3>1 DEF CommandLength
    <3> QED
      BY <2>2, <3>2, <3>3 DEF ReadAs
  <2> QED
    BY <2>1, <2>2, <2>3 DEF e
<1>2. ASSUME NEW f, NEW b, c = << "color", << f, b >> >>
      PROVE  Held(EncodeCommand(c))
  BY <1>2, ColoursRead
<1>3. ASSUME NEW v \in BOOLEAN, c = << "modifiers", v >>
      PROVE  Held(EncodeCommand(c))
  <2> DEFINE n == IF v THEN 1 ELSE 0
             e == << 4, n >>
  <2>1. EncodeCommand(c) = e
    BY <1>3 DEF EncodeCommand
  <2>2. IsList(e) /\ Len(e) = 2 /\ e[1] = 4 /\ e[2] = n
    BY DEF IsList
  <2> HIDE DEF e
  <2>3. ASSUME NEW bytes, NEW o \in Nat, Follow(bytes, o, e)
        PROVE  ReadAs(bytes, o, e, c)
    <3>1. bytes[o + 1] = 4 /\ bytes[o + 2] = n /\ (o + 1) + 1 = o + 2
      <4> HIDE DEF n
      <4> QED
        BY <2>2, <2>3 DEF Follow
    <3>2. CommandAt(bytes, o + 1) = << "modifiers", n = 1 >>
      <4> HIDE DEF n
      <4> QED
        BY <3>1 DEF CommandAt
    <3>3. (n = 1) = v
      BY <1>3
    <3>4. CommandLength(bytes, o + 1) = 2
      BY <3>1 DEF CommandLength
    <3>5. CommandAt(bytes, o + 1) = c
      BY <1>3, <3>2, <3>3
    <3> QED
      BY <2>2, <3>4, <3>5 DEF ReadAs
  <2> QED
    BY <2>1, <2>2, <2>3
<1>4. ASSUME NEW ch, c = << "write", ch >>
      PROVE  Held(EncodeCommand(c))
  <2> DEFINE w == Step(ch)
             e == << 3, ch, w >>
  <2>1. EncodeCommand(c) = e
    BY <1>4 DEF EncodeCommand
  <2>2. IsList(e) /\ Len(e) = 3 /\ e[1] = 3 /\ e[2] = ch
    BY DEF IsList
  <2> HIDE DEF e
  <2>3. ASSUME NEW bytes, NEW o \in Nat, Follow(bytes, o, e)
        PROVE  ReadAs(bytes, o, e, c)
    <3>1. bytes[o + 1] = 3 /\ bytes[o + 2] = ch /\ (o + 1) + 1 = o + 2
      BY <2>2, <2>3 DEF Follow
    <3>2. CommandAt(bytes, o + 1) = c
      BY <1>4, <3>1 DEF CommandAt
    <3>3. CommandLength(bytes, o + 1) = 3
      BY <3>1 DEF CommandLength
    <3> QED
      BY <2>2, <3>2, <3>3 DEF ReadAs
  <2> QED
    BY <2>1, <2>2, <2>3
<1> HIDE DEF Held
<1>5. Held(EncodeCommand(c))
  BY <1>1, <1>2, <1>3, <1>4 DEF IsCommand
<1> QED
  BY <1>5 DEF Held

\* A list is made of the commands one by one,
LEMMA EncodeSteps ==
    ASSUME NEW s, IsList(s)
    PROVE  \E f : Binding!Steps(f, << >>, s, Len(s)) /\ EncodeBinary(s) = f[Len(s)]
<1> DEFINE N == Len(s)
           Op0(bytes, c) == bytes \o EncodeCommand(c)
           IsFold(F) == F = [t \in SUBSET DOMAIN s |->
                               IF t = {} THEN << >> ELSE Op0(F[t \ {Max(t)}], s[Max(t)])]
           fold == CHOOSE F : IsFold(F)
<1>1. N \in Nat /\ DOMAIN s = 1..N
  BY ListIsSeq
<1>2. EncodeBinary(s) = fold[DOMAIN s]
  BY DEF EncodeBinary, FoldLeft, MapThenFoldSet
<1>3. \A bytes, c : Op0(bytes, c) = BytesOp(bytes, c)
  BY DEF BytesOp
<1> HIDE DEF Op0
<1>4. \A F : IsFold(F) <=> Binding!Rule(F, << >>, s, N)
  <2>1. \A t : Binding!Max(t) = Max(t)
    BY DEF Max, Binding!Max
  <2> HIDE DEF N
  <2> QED
    BY <1>1, <1>3, <2>1 DEF Binding!Rule
<1> HIDE DEF IsFold, N
<1>5. \E F : IsFold(F)
  BY <1>1, <1>4, Binding!FoldExists
<1>6. IsFold(fold)
  BY <1>5
<1> HIDE DEF fold
<1>7. \E f : Binding!Steps(f, << >>, s, N) /\ f[N] = fold[1..N]
  BY <1>1, <1>4, <1>6, Binding!FoldSteps
<1> QED
  BY <1>1, <1>2, <1>7 DEF N

\* w begins with u.
Begins(u, w) == Len(u) <= Len(w) /\ \A i \in 1..Len(u) : w[i] = u[i]

\* and each of them is where the one before it ends.
LEMMA EncodePlaces ==
    ASSUME NEW s, AreCommands(s), NEW f, Binding!Steps(f, << >>, s, Len(s))
    PROVE  /\ \A n \in 0..Len(s) : IsList(f[n]) /\ Len(f[n]) \in Nat
           /\ Len(f[0]) = 0
           /\ \A n \in 1..Len(s) :
                 LET e == EncodeCommand(s[n])
                 IN  /\ Len(e) \in 2..5 /\ Len(f[n]) = Len(f[n - 1]) + Len(e)
                     /\ Len(f[n]) <= Len(f[Len(s)])
                     /\ ReadAs(f[Len(s)], Len(f[n - 1]), e, s[n])
<1> DEFINE N == Len(s)
           E(n) == EncodeCommand(s[n])
<1>1. N \in Nat /\ \A n \in 1..N : IsCommand(s[n])
  BY DEF AreCommands, IsList
<1>2. \A n \in 1..N :
         /\ IsList(E(n)) /\ Len(E(n)) \in 2..5
         /\ \A bytes, o : (o \in Nat /\ Follow(bytes, o, E(n))) => ReadAs(bytes, o, E(n), s[n])
  BY <1>1, CommandRead
<1>3. f[0] = << >> /\ \A n \in 1..N : f[n] = f[n - 1] \o E(n)
  BY DEF Binding!Steps, BytesOp
<1> HIDE DEF E, N
<1> DEFINE T == {n \in 0..N : IsList(f[n])}
<1>4. 0 \in T
  BY <1>1, <1>3 DEF IsList
<1>5. ASSUME NEW n \in 1..N, IsList(f[n - 1])
      PROVE  IsList(f[n]) /\ Parts(f[n], f[n - 1], Len(f[n - 1]), E(n), Len(E(n)))
  <2> DEFINE u == f[n - 1]
             v == E(n)
  <2>1. f[n] = u \o v /\ IsList(u) /\ IsList(v)
    BY <1>2, <1>3, <1>5
  <2> HIDE DEF u, v
  <2>2. Parts(u \o v, u, Len(u), v, Len(v))
    BY <2>1, JoinedLists
  <2> QED
    BY <2>1, <2>2 DEF Parts, u, v
<1>6. \A n \in 1..N : n - 1 \in T => n \in T
  BY <1>5
<1> HIDE DEF T
<1>7. 0..N \subseteq T
  BY <1>1, <1>4, <1>6, UpTo
<1>8. \A n \in 0..N : IsList(f[n]) /\ Len(f[n]) \in Nat
  BY <1>7 DEF T, IsList
<1>9. \A n \in 1..N : Parts(f[n], f[n - 1], Len(f[n - 1]), E(n), Len(E(n)))
  <2> SUFFICES ASSUME NEW n \in 1..N
               PROVE  Parts(f[n], f[n - 1], Len(f[n - 1]), E(n), Len(E(n)))
    OBVIOUS
  <2>1. n - 1 \in 0..N
    BY <1>1
  <2> QED
    BY <1>5, <1>8, <2>1
<1> DEFINE U == {m \in 0..N : \A n \in 0..m : Begins(f[n], f[m])}
<1>10. 0 \in U
  <2>1. \A n \in 0..0 : n = 0
    OBVIOUS
  <2>2. Begins(f[0], f[0])
    BY <1>1, <1>8 DEF Begins
  <2> QED
    BY <1>1, <2>1, <2>2
<1>11. ASSUME NEW m \in 1..N, m - 1 \in U
       PROVE  m \in U
  <2> SUFFICES ASSUME NEW n \in 0..m
               PROVE  Begins(f[n], f[m])
    OBVIOUS
  <2>1. m \in 0..N /\ m - 1 \in 0..N /\ n \in 0..N
    BY <1>1
  <2>2. CASE n = m
    <3>1. Len(f[m]) \in Nat
      BY <1>8, <2>1
    <3> QED
      BY <2>2, <3>1 DEF Begins
  <2>3. CASE n # m
    <3>1. n \in 0..(m - 1)
      BY <2>3
    <3>2. Begins(f[n], f[m - 1])
      BY <1>11, <3>1
    <3> DEFINE a == f[n]
               b == f[m - 1]
               c == f[m]
    <3>3. Parts(c, b, Len(b), E(m), Len(E(m))) /\ Len(a) \in Nat /\ Len(b) \in Nat
      BY <1>8, <1>9, <2>1
    <3>4. Len(a) <= Len(b) /\ \A i \in 1..Len(a) : b[i] = a[i]
      BY <3>2 DEF Begins
    <3> HIDE DEF a, b, c
    <3>5. Len(c) = Len(b) + Len(E(m)) /\ Len(E(m)) \in Nat /\ \A i \in 1..Len(b) : c[i] = b[i]
      BY <3>3 DEF Parts
    <3>6. Begins(a, c)
      BY <3>3, <3>4, <3>5 DEF Begins
    <3> QED
      BY <3>6 DEF a, c
  <2> QED
    BY <2>2, <2>3
<1> HIDE DEF U
<1>12. 0..N \subseteq U
  BY <1>1, <1>10, <1>11, UpTo
<1>13. \A n \in 0..N : Begins(f[n], f[N])
  BY <1>1, <1>12 DEF U
<1>14. ASSUME NEW n \in 1..N
       PROVE  /\ Len(E(n)) \in 2..5 /\ Len(f[n]) = Len(f[n - 1]) + Len(E(n))
              /\ Len(f[n]) <= Len(f[N])
              /\ ReadAs(f[N], Len(f[n - 1]), E(n), s[n])
  <2> DEFINE e == E(n)
             o == Len(f[n - 1])
             b == f[n]
             bytes == f[N]
  <2>1. n \in 0..N /\ n - 1 \in 0..N
    BY <1>1
  <2>2. o \in Nat /\ Len(b) = o + Len(e) /\ \A j \in 1..Len(e) : b[o + j] = e[j]
    BY <1>8, <1>9, <2>1 DEF Parts
  <2>3. Len(b) <= Len(bytes) /\ \A i \in 1..Len(b) : bytes[i] = b[i]
    BY <1>13, <2>1 DEF Begins
  <2>4. Len(e) \in 2..5
    BY <1>2
  <2> HIDE DEF e, o, b, bytes
  <2>5. \A j \in 1..Len(e) : o + j \in 1..Len(b)
    BY <2>2, <2>4
  <2>6. Follow(bytes, o, e)
    BY <2>2, <2>3, <2>5 DEF Follow
  <2>7. ReadAs(bytes, o, e, s[n])
    BY <1>2, <2>2, <2>6 DEF e
  <2> QED
    BY <2>2, <2>3, <2>4, <2>7 DEF e, o, b, bytes
<1>15. Len(f[0]) = 0
  BY <1>3
<1> QED
  BY <1>8, <1>14, <1>15 DEF E, N

\* What the decoder makes of the bytes from i on.
Decodes(F, bytes) ==
    \A i \in 1..(Len(bytes) + 5) :
       F[i] = IF i > Len(bytes) THEN << >>
              ELSE << CommandAt(bytes, i) >> \o F[i + CommandLength(bytes, i)]

LEMMA CommandLengths ==
    ASSUME NEW bytes, NEW i \in Nat
    PROVE  CommandLength(bytes, i) \in 2..5
<1>1. \A j : ColorLength(bytes, j) \in 1..2
  BY DEF ColorLength
<1> DEFINE a == ColorLength(bytes, i + 1)
           second == i + 1 + a
           b == ColorLength(bytes, second)
<1>2. a \in 1..2 /\ b \in 1..2
  BY <1>1
<1>3. \/ CommandLength(bytes, i) = 3 \/ CommandLength(bytes, i) = 2
      \/ CommandLength(bytes, i) = second + b - i
  BY DEF CommandLength
<1> HIDE DEF a, b
<1>4. second + b - i \in 2..5
  BY <1>2
<1> QED
  BY <1>3, <1>4

LEMMA DecodeRule ==
    ASSUME NEW bytes, Len(bytes) \in Nat
    PROVE  \E F : Decodes(F, bytes) /\ DecodeBinary(bytes) = F[1]
<1> DEFINE L == Len(bytes)
           S == 1..(L + 5)
           c(i) == CommandAt(bytes, i)
           T == Seq({c(i) : i \in S})
           m == [i \in S |-> L + 5 - i]
           Value(i, g) == IF i > L THEN << >> ELSE << c(i) >> \o g[i + CommandLength(bytes, i)]
           G == [i \in S |-> [g \in [S -> T] |-> Value(i, g)]]
           IsFrom(F) == F = [i \in S |-> Value(i, F)]
           from == CHOOSE F : IsFrom(F)
<1>1. L \in Nat /\ 1 \in S
  OBVIOUS
<1>2. DecodeBinary(bytes) = from[1]
  BY DEF DecodeBinary
<1>3. Bounded(m, S)
  <2>1. m \in [S -> 0..(L + 5)]
    BY <1>1
  <2> QED
    BY <1>1, <2>1 DEF Bounded
<1>4. ASSUME NEW i \in S, ~(i > L)
      PROVE  i + CommandLength(bytes, i) \in S /\ m[i + CommandLength(bytes, i)] < m[i]
  <2>1. CommandLength(bytes, i) \in 2..5
    BY CommandLengths
  <2> QED
    BY <1>1, <1>4, <2>1
<1> DEFINE V == {c(i) : i \in S}
<1>5. ASSUME NEW i \in S, NEW g \in [S -> T]
      PROVE  Value(i, g) \in T
  <2>1. CASE i > L
    <3> HIDE DEF V, c
    <3> QED
      BY <2>1
  <2>2. CASE ~(i > L)
    <3> DEFINE rest == g[i + CommandLength(bytes, i)]
    <3>1. rest \in Seq(V)
      <4> HIDE DEF m, c
      <4> QED
        BY <1>4, <2>2
    <3>2. c(i) \in V
      OBVIOUS
    <3> HIDE DEF V, c, rest
    <3>3. << c(i) >> \in Seq(V)
      BY <3>2
    <3>4. << c(i) >> \o rest \in Seq(V)
      BY <3>1, <3>3, ConcatProperties
    <3> QED
      BY <2>2, <3>4 DEF V, rest
  <2> QED
    BY <2>1, <2>2
<1>6. ASSUME NEW i \in S, NEW g \in [S -> T], NEW h \in [S -> T],
             \A j \in S : m[j] < m[i] => g[j] = h[j]
      PROVE  Value(i, g) = Value(i, h)
  <2>1. CASE i > L
    BY <2>1
  <2>2. CASE ~(i > L)
    <3>1. g[i + CommandLength(bytes, i)] = h[i + CommandLength(bytes, i)]
      <4> HIDE DEF m, T
      <4> QED
        BY <1>4, <1>6, <2>2
    <3> QED
      BY <2>2, <3>1
  <2> QED
    BY <2>1, <2>2
<1>7. Defines(G, m, S, T)
  <2>1. \A i \in S : \A g \in [S -> T] : G[i][g] = Value(i, g)
    OBVIOUS
  <2> HIDE DEF m, S, T, Value, G
  <2> QED
    BY <2>1, <1>5, <1>6 DEF Defines
<1>8. PICK f \in [S -> T] : \A i \in S : f[i] = Value(i, f)
  <2>1. T # {}
    <3>1. << >> \in Seq(V)
      <4> HIDE DEF V
      <4> QED
        OBVIOUS
    <3> QED
      BY <3>1
  <2>2. Solvable(G, S, T)
    <3> HIDE DEF m, S, T, G
    <3> QED
      BY <1>3, <1>7, <2>1, Recursion
  <2>3. PICK f \in [S -> T] : \A i \in S : f[i] = G[i][f]
    <3> HIDE DEF m, S, T, G
    <3> QED
      BY <2>2 DEF Solvable
  <2> HIDE DEF Value
  <2>4. \A i \in S : f[i] = Value(i, f)
    BY <2>3
  <2> QED
    BY <2>4
<1> HIDE DEF T
<1>9. \E F : IsFrom(F)
  <2>1. f = [i \in S |-> f[i]]
    OBVIOUS
  <2> HIDE DEF S, Value
  <2>2. IsFrom(f)
    BY <1>8, <2>1
  <2> QED
    BY <2>2
<1>10. IsFrom(from)
  <2> HIDE DEF IsFrom
  <2> QED
    BY <1>9
<1> HIDE DEF from
<1>11. \A i \in S : from[i] = Value(i, from)
  <2> HIDE DEF S, Value
  <2> QED
    BY <1>10
<1>12. Decodes(from, bytes)
  BY <1>11 DEF Decodes
<1> QED
  BY <1>2, <1>12

\* PROPERTY.  What the browser decodes is what the server encoded: every command
\* that the difference may send comes out as it went in, in the same order.
THEOREM RoundTrip ==
    ASSUME NEW s, AreCommands(s)
    PROVE  DecodeBinary(EncodeBinary(s)) = s
<1> DEFINE N == Len(s)
<1>1. PICK f : Binding!Steps(f, << >>, s, N) /\ EncodeBinary(s) = f[N]
  BY EncodeSteps DEF AreCommands
<1> DEFINE bytes == f[N]
<1>2. /\ \A n \in 0..N : IsList(f[n]) /\ Len(f[n]) \in Nat
      /\ Len(f[0]) = 0
      /\ \A n \in 1..N :
            LET e == EncodeCommand(s[n])
            IN  /\ Len(e) \in 2..5 /\ Len(f[n]) = Len(f[n - 1]) + Len(e)
                /\ Len(f[n]) <= Len(f[N])
                /\ ReadAs(f[N], Len(f[n - 1]), e, s[n])
  BY <1>1, EncodePlaces
<1>3. N \in Nat /\ s = [i \in 1..N |-> s[i]] /\ IsList(s)
  BY DEF AreCommands, IsList
<1>4. Len(bytes) \in Nat
  BY <1>2, <1>3
<1>5. PICK F : Decodes(F, bytes) /\ DecodeBinary(bytes) = F[1]
  BY <1>4, DecodeRule
<1> HIDE DEF N, bytes
<1> DEFINE Rest(n, r) == IsList(r) /\ Len(r) = N - n /\ \A j \in 1..(N - n) : r[j] = s[n + j]
           T == {k \in 0..N : Rest(N - k, F[Len(f[N - k]) + 1])}
<1>6. 0 \in T
  <2>1. Len(f[N]) = Len(bytes) /\ N - 0 = N /\ N - N = 0
    BY <1>3 DEF bytes
  <2>2. F[Len(bytes) + 1] = << >>
    <3> DEFINE L == Len(bytes)
    <3>1. L + 1 \in 1..(L + 5) /\ L + 1 > L
      <4>1. L \in Nat
        BY <1>4
      <4> HIDE DEF L
      <4> QED
        BY <4>1
    <3> QED
      BY <1>5, <3>1 DEF Decodes
  <2>3. Rest(N, << >>)
    BY <1>3 DEF IsList
  <2> HIDE DEF Rest
  <2> QED
    BY <1>3, <2>1, <2>2, <2>3
<1>7. ASSUME NEW k \in 1..N, k - 1 \in T
      PROVE  k \in T
  <2> DEFINE n == N - k + 1
             e == EncodeCommand(s[n])
             o == Len(f[n - 1])
             r == F[o + 1]
             v == F[Len(f[n]) + 1]
  <2>1. n \in 1..N /\ n - 1 = N - k /\ n = N - (k - 1) /\ n - 1 \in 0..N /\ k \in 0..N
    BY <1>3
  <2>2. Rest(n, v)
    <3> HIDE DEF Rest
    <3> QED
      BY <1>7, <2>1
  <2>3. /\ Len(e) \in 2..5 /\ Len(f[n]) = o + Len(e) /\ Len(f[n]) <= Len(bytes)
        /\ ReadAs(bytes, o, e, s[n]) /\ o \in Nat
    BY <1>2, <2>1 DEF bytes
  <2> HIDE DEF n, e, o
  <2>4. CommandAt(bytes, o + 1) = s[n] /\ CommandLength(bytes, o + 1) = Len(e)
    BY <2>3 DEF ReadAs
  <2>5. o + 1 \in 1..(Len(bytes) + 5) /\ ~(o + 1 > Len(bytes)) /\ o + 1 + Len(e) = Len(f[n]) + 1
    <3> DEFINE L == Len(bytes)
               l == Len(e)
               b == Len(f[n])
    <3>1. L \in Nat /\ l \in 2..5 /\ b = o + l /\ b <= L /\ o \in Nat
      BY <1>4, <2>3
    <3> HIDE DEF L, l, b
    <3>2. o + 1 \in 1..(L + 5) /\ ~(o + 1 > L) /\ o + 1 + l = b + 1
      BY <3>1
    <3> QED
      BY <3>2 DEF L, l, b
  <2>6. r = << s[n] >> \o v
    BY <1>5, <2>4, <2>5 DEF Decodes
  <2> HIDE DEF r, v
  <2>7. IsList(<< s[n] >>) /\ Len(<< s[n] >>) = 1 /\ << s[n] >>[1] = s[n]
    BY DEF IsList
  <2> DEFINE a == << s[n] >>
  <2> HIDE DEF a
  <2>8. Parts(r, a, 1, v, Len(v))
    BY <2>2, <2>6, <2>7, JoinedLists DEF a
  <2>9. Rest(n - 1, r)
    <3>1. IsList(r) /\ Len(r) = N - (n - 1) /\ r[1] = s[n]
          /\ \A i \in 1..(N - n) : r[1 + i] = s[n + i]
      <4>1. IsList(r) /\ Len(r) = 1 + Len(v) /\ (\A i \in 1..1 : r[i] = a[i])
            /\ \A i \in 1..Len(v) : r[1 + i] = v[i]
        BY <2>8 DEF Parts
      <4>2. Len(v) = N - n /\ N - (n - 1) = 1 + (N - n) /\ \A i \in 1..(N - n) : v[i] = s[n + i]
        <5>1. Len(v) = N - n /\ \A i \in 1..(N - n) : v[i] = s[n + i]
          BY <2>2
        <5>2. N - (n - 1) = 1 + (N - n)
          BY <1>3, <2>1
        <5> QED
          BY <5>1, <5>2
      <4>3. r[1] = s[n]
        BY <2>7, <4>1 DEF a
      <4>4. \A i \in 1..(N - n) : r[1 + i] = s[n + i]
        BY <4>1, <4>2
      <4> QED
        BY <4>1, <4>2, <4>3, <4>4
    <3>2. ASSUME NEW j \in 1..(N - (n - 1))
          PROVE  r[j] = s[(n - 1) + j]
      <4>1. CASE j = 1
        <5>1. (n - 1) + 1 = n
          BY <2>1
        <5> QED
          BY <3>1, <4>1, <5>1
      <4>2. CASE j # 1
        <5>1. j - 1 \in 1..(N - n) /\ 1 + (j - 1) = j /\ n + (j - 1) = (n - 1) + j
          BY <1>3, <2>1, <4>2
        <5> QED
          BY <3>1, <5>1
      <4> QED
        BY <4>1, <4>2
    <3> QED
      BY <3>1, <3>2
  <2> HIDE DEF Rest
  <2> QED
    BY <2>1, <2>9 DEF r, o
<1> HIDE DEF T
<1>8. 0..N \subseteq T
  BY <1>3, <1>6, <1>7, UpTo
<1>9. Rest(0, F[1])
  <2>1. N \in T /\ N - N = 0 /\ Len(f[0]) + 1 = 1
    BY <1>2, <1>3, <1>8
  <2> HIDE DEF Rest
  <2> QED
    BY <2>1 DEF T
<1> DEFINE d == F[1]
<1>10. IsList(d) /\ Len(d) = N /\ \A j \in 1..N : d[j] = s[j]
  <2>1. N - 0 = N /\ \A j \in 1..N : 0 + j = j
    BY <1>3
  <2> QED
    BY <1>9, <2>1
<1> HIDE DEF d
<1>11. d = s
  <2>1. d = [i \in 1..N |-> d[i]]
    BY <1>10 DEF IsList
  <2> QED
    BY <1>3, <1>10, <2>1
<1> QED
  BY <1>1, <1>5, <1>11 DEF d, bytes

-----------------------------------------------------------------------------
(* What may be in a cell *)

IsCell(c) == DOMAIN c = {"ch", "fg", "bg", "bold", "skip"} /\ c.bold \in BOOLEAN

\* A layer has its cells, and leaves none to a graphic.
Solid(layer) == \A p \in DOMAIN layer : IsCell(layer[p]) /\ ~layer[p].skip

LEMMA CellOK ==
    ASSUME NEW ch, NEW fg, NEW bg
    PROVE  IsCell(Cell(ch, fg, bg)) /\ ~Cell(ch, fg, bg).skip
BY DEF Cell, IsCell

\* An empty layer,
LEMMA SolidNothing == Solid(<< >>)
BY DEF Solid

\* a grid of characters,
LEMMA SolidStamp ==
    ASSUME NEW grid, NEW x, NEW y, NEW fg, NEW bg
    PROVE  Solid(Stamp(grid, x, y, fg, bg))
BY CellOK DEF Solid, Stamp

\* one upon another,
LEMMA SolidAtop ==
    ASSUME NEW u, Solid(u), NEW v, Solid(v)
    PROVE  Solid(Atop(u, v)) /\ DOMAIN v \subseteq DOMAIN Atop(u, v)
<1> DEFINE w == Atop(u, v)
<1>1. DOMAIN w = DOMAIN u \cup DOMAIN v
  BY DEF Atop
<1>2. \A p \in DOMAIN u \cup DOMAIN v : w[p] = IF p \in DOMAIN u THEN u[p] ELSE v[p]
  BY DEF Atop
<1> HIDE DEF w
<1>3. Solid(w)
  BY <1>1, <1>2 DEF Solid
<1> QED
  BY <1>1, <1>3 DEF w

\* and one in bold.
LEMMA SolidBold ==
    ASSUME NEW u, Solid(u)
    PROVE  Solid(Bold(u))
<1> DEFINE w == Bold(u)
<1>1. DOMAIN w = DOMAIN u /\ \A p \in DOMAIN u : w[p] = [u[p] EXCEPT !.bold = TRUE]
  BY DEF Bold
<1> HIDE DEF w
<1>2. ASSUME NEW p \in DOMAIN u
      PROVE  IsCell(w[p]) /\ ~w[p].skip
  <2> DEFINE c == u[p]
  <2>1. IsCell(c) /\ ~c.skip /\ w[p] = [c EXCEPT !.bold = TRUE]
    BY <1>1 DEF Solid
  <2> HIDE DEF c
  <2> QED
    BY <2>1 DEF IsCell
<1> QED
  BY <1>1, <1>2 DEF Solid, w

\* A frame's cells are cells.
Celled(f) == IsFrame(f) /\ DOMAIN f.cells = Screen /\ (\A p \in Screen : IsCell(f.cells[p])) /\ IsList(f.graphics)

\* Nothing is left to graphics that there are not.
Owned(f, graphical) == (\A p \in Screen : ~f.cells[p].skip) \/ (graphical /\ f.graphics # << >>)

LEMMA OverCells ==
    ASSUME NEW f, Celled(f), NEW layer, Solid(layer)
    PROVE  LET r == Over(f, layer)
           IN  /\ Celled(r) /\ r.graphics = f.graphics
               /\ \A p \in Screen : IF p \in DOMAIN layer THEN ~r.cells[p].skip
                                                          ELSE r.cells[p] = f.cells[p]
<1> DEFINE cells == [p \in Screen |-> IF p \in DOMAIN layer THEN layer[p] ELSE f.cells[p]]
           r == Over(f, layer)
<1>1. r = [f EXCEPT !.cells = cells]
  BY DEF Over
<1>2. DOMAIN cells = Screen /\ \A p \in Screen : IsCell(cells[p])
      /\ IF p \in DOMAIN layer THEN ~cells[p].skip ELSE cells[p] = f.cells[p]
  BY DEF Celled, Solid
<1> HIDE DEF cells, r
<1>3. IsFrame(r) /\ r.cells = cells /\ r.graphics = f.graphics
  BY <1>1 DEF Celled, IsFrame
<1>4. Celled(r)
  BY <1>2, <1>3 DEF Celled
<1> QED
  BY <1>2, <1>3, <1>4 DEF r

\* A painter keeps a frame in order.
Keeps(f, r, graphical) == Celled(r) /\ (Owned(f, graphical) => Owned(r, graphical))

LEMMA OverKeeps ==
    ASSUME NEW f, Celled(f), NEW layer, Solid(layer), NEW graphical
    PROVE  Keeps(f, Over(f, layer), graphical)
<1> DEFINE r == Over(f, layer)
<1>1. Celled(r) /\ r.graphics = f.graphics
      /\ \A p \in Screen : IF p \in DOMAIN layer THEN ~r.cells[p].skip
                                                 ELSE r.cells[p] = f.cells[p]
  BY OverCells
<1> HIDE DEF r
<1>2. Owned(f, graphical) => Owned(r, graphical)
  BY <1>1 DEF Owned
<1> QED
  BY <1>1, <1>2 DEF Keeps, r

\* A picture that begins on the screen is there for the cells that are left to it.
LEMMA GraphicKeeps ==
    ASSUME NEW f, Celled(f), NEW src, NEW box
    PROVE  /\ Celled(Graphic(f, src, box))
           /\ box.x >= 0 /\ box.y >= 0 => Keeps(f, Graphic(f, src, box), TRUE)
<1> DEFINE g == [src |-> src, box |-> box]
           cells == [p \in Screen |-> IF p \in Within(box) THEN [f.cells[p] EXCEPT !.skip = TRUE] ELSE f.cells[p]]
           graphics == IF box.x >= 0 /\ box.y >= 0 THEN Append(f.graphics, g) ELSE f.graphics
           r == Graphic(f, src, box)
<1>1. r = [f EXCEPT !.cells = cells, !.graphics = graphics]
  BY Zenon DEF Graphic
<1>2. DOMAIN cells = Screen /\ \A p \in Screen : IsCell(cells[p])
  <2> SUFFICES ASSUME NEW p \in Screen
               PROVE  IsCell(cells[p])
    OBVIOUS
  <2> DEFINE c == f.cells[p]
             d == [c EXCEPT !.skip = TRUE]
  <2>1. IsCell(c)
    BY DEF Celled
  <2>2. cells[p] = d \/ cells[p] = c
    OBVIOUS
  <2> HIDE DEF c, cells
  <2>3. IsCell(d)
    BY <2>1 DEF IsCell
  <2> QED
    BY <2>1, <2>2, <2>3
<1>3. IsList(graphics) /\ (box.x >= 0 /\ box.y >= 0 => graphics # << >>)
  <2> HIDE DEF g
  <2>1. IsList(f.graphics) /\ Len(f.graphics) \in Nat
    BY DEF Celled, IsList
  <2>2. IsList(Append(f.graphics, g)) /\ Len(Append(f.graphics, g)) = Len(f.graphics) + 1
    BY <2>1, ListAppend
  <2>3. Append(f.graphics, g) # << >>
    <3> DEFINE a == Append(f.graphics, g)
    <3>1. Len(a) = Len(f.graphics) + 1
      BY <2>2
    <3> HIDE DEF a
    <3>2. a # << >>
      BY <2>1, <3>1
    <3> QED
      BY <3>2 DEF a
  <2> QED
    BY <2>1, <2>2, <2>3
<1> HIDE DEF cells, graphics, r
<1>4. IsFrame(r) /\ r.cells = cells /\ r.graphics = graphics
  BY <1>1 DEF Celled, IsFrame
<1>5. Celled(r)
  BY <1>2, <1>3, <1>4 DEF Celled
<1> QED
  BY <1>3, <1>4, <1>5 DEF Keeps, Owned, r

LEMMA SolidPlaceholder ==
    ASSUME NEW box, NEW name
    PROVE  Solid(Placeholder(box, name))
<1> DEFINE label == CASE box.w >= Len(Prefix) + Len(name) + 2 -> Prefix \o name
                      [] box.w \in (Len(name) + 2)..(Len(Prefix) + Len(name) + 1) -> name
                      [] box.w \in 3..(Len(name) + 1) -> << "?" >>
                      [] OTHER -> << >>
           Edge(p) == \/ p[1] \in {box.x, box.x + box.w - 1}
                      \/ p[2] \in {box.y, box.y + box.h - 1}
           stars == [p \in Within(box) |-> Cell(IF Edge(p) THEN "*" ELSE Space, "red", "reset")]
           text == Stamp(Row(label), box.x + ((box.w - Len(label)) \div 2), box.y + (box.h \div 2),
                         "red", "reset")
<1>1. Placeholder(box, name) = IF box.h >= 2 THEN Atop(text, stars) ELSE stars
  BY Zenon DEF Placeholder
<1> HIDE DEF Edge
<1>2. Solid(stars)
  BY CellOK DEF Solid
<1> HIDE DEF stars, label
<1>3. Solid(text)
  BY SolidStamp
<1> HIDE DEF text
<1> QED
  BY <1>1, <1>2, <1>3, SolidAtop

LEMMA SolidBlocks ==
    ASSUME NEW file, NEW box
    PROVE  Solid(Blocks(file, box))
<1> DEFINE cell == CASE file.top = "reset" /\ file.bottom = "reset" -> Cell(Space, "reset", "reset")
                     [] file.top # "reset" /\ file.bottom = "reset" -> Cell("^", file.top, "reset")
                     [] file.top = "reset" /\ file.bottom # "reset" -> Cell("v", file.bottom, "reset")
                     [] file.top = file.bottom /\ file.top # "reset" -> Cell("#", file.top, "reset")
                     [] OTHER -> Cell("^", file.top, file.bottom)
<1>1. \E ch, fg, bg : cell = Cell(ch, fg, bg)
  OBVIOUS
<1>2. Blocks(file, box) = [p \in Within(box) |-> cell]
  BY DEF Blocks
<1> HIDE DEF cell
<1>3. IsCell(cell) /\ ~cell.skip
  BY <1>1, CellOK
<1> QED
  BY <1>2, <1>3 DEF Solid

IsGraphical(mode) == mode \in {"kitty", "sixel"}

\* A box begins on the screen, where it matters.
OnScreen(box, mode) == IsGraphical(mode) => box.x >= 0 /\ box.y >= 0

\* Whoever paints into a box keeps the frame in order.
KeepsIn(f, r, box, mode) == Celled(r) /\ (OnScreen(box, mode) => Keeps(f, r, IsGraphical(mode)))

LEMMA SameKeeps ==
    ASSUME NEW f, Celled(f), NEW box, NEW mode
    PROVE  /\ KeepsIn(f, f, box, mode)
           /\ \A layer : Solid(layer) => KeepsIn(f, Over(f, layer), box, mode)
<1>1. KeepsIn(f, f, box, mode)
  BY DEF KeepsIn, Keeps
<1>2. ASSUME NEW layer, Solid(layer)
      PROVE  KeepsIn(f, Over(f, layer), box, mode)
  <2>1. Keeps(f, Over(f, layer), IsGraphical(mode))
    BY <1>2, OverKeeps
  <2> QED
    BY <2>1 DEF KeepsIn, Keeps
<1> QED
  BY <1>1, <1>2

LEMMA PictureKeeps ==
    ASSUME NEW f, Celled(f), NEW node, NEW box, NEW mode
    PROVE  KeepsIn(f, Picture(f, node, box, mode), box, mode)
<1> DEFINE file == Files[node.attrs.src]
           r == Picture(f, node, box, mode)
<1>1. \/ r = f
      \/ r = Over(f, Placeholder(box, file.name))
      \/ IsGraphical(mode) /\ r = Graphic(f, node.attrs.src, box)
      \/ r = Over(f, Blocks(file, box))
  BY Zenon DEF Picture, IsGraphical
<1> HIDE DEF r
<1>2. ASSUME IsGraphical(mode)
      PROVE  KeepsIn(f, Graphic(f, node.attrs.src, box), box, mode)
  <2>1. OnScreen(box, mode) => Keeps(f, Graphic(f, node.attrs.src, box), TRUE)
    BY <1>2, GraphicKeeps DEF OnScreen
  <2>2. Keeps(f, Graphic(f, node.attrs.src, box), TRUE)
           => Keeps(f, Graphic(f, node.attrs.src, box), IsGraphical(mode))
    BY <1>2 DEF Keeps, Owned
  <2> QED
    BY <2>1, <2>2, GraphicKeeps DEF KeepsIn
<1> QED
  BY <1>1, <1>2, SameKeeps, SolidPlaceholder, SolidBlocks DEF r

LEMMA DiagramKeeps ==
    ASSUME NEW f, Celled(f), NEW node, NEW box, NEW mode
    PROVE  KeepsIn(f, Diagram(f, node, box), box, mode)
<1> DEFINE file == Files[node.attrs.src]
           r == Diagram(f, node, box)
<1>1. \/ r = f
      \/ r = Over(f, Placeholder(box, file.name))
      \/ \E body, grid : r = Over(f, Atop([p \in Within(body) |-> Cell("d", "c15", "reset")],
                                          Stamp(grid, box.x, box.y, "c15", "reset")))
  BY Zenon DEF Diagram
<1> HIDE DEF r
<1>2. ASSUME NEW body, NEW grid
      PROVE  Solid(Atop([p \in Within(body) |-> Cell("d", "c15", "reset")],
                        Stamp(grid, box.x, box.y, "c15", "reset")))
  <2>1. Solid([p \in Within(body) |-> Cell("d", "c15", "reset")])
    BY CellOK DEF Solid
  <2> QED
    BY <2>1, SolidStamp, SolidAtop
<1> QED
  BY <1>1, <1>2, SameKeeps, SolidPlaceholder DEF r

LEMMA FilledKeeps ==
    ASSUME NEW f, Celled(f), NEW node, NEW box, NEW fg, NEW bg, NEW mode
    PROVE  KeepsIn(f, Filled(f, node, box, fg, bg, mode), box, mode)
<1> DEFINE r == Filled(f, node, box, fg, bg, mode)
<1>1. \/ r = Over(f, Text(node, box, fg, bg))
      \/ r = Over(f, Input(node, box, fg, bg))
      \/ r = Picture(f, node, box, mode)
      \/ r = Diagram(f, node, box)
      \/ r = f
  BY DEF Filled, HasText
<1>2. Solid(Text(node, box, fg, bg))
  BY SolidStamp DEF Text
<1>3. Solid(Input(node, box, fg, bg))
  BY CellOK DEF Input, Solid
<1> HIDE DEF r
<1> QED
  BY <1>1, <1>2, <1>3, SameKeeps, PictureKeeps, DiagramKeeps DEF r

LEMMA PaintedKeeps ==
    ASSUME NEW f, Celled(f), NEW n, NEW node, NEW rect, NEW fg, NEW bg, NEW mode
    PROVE  KeepsIn(f, Painted(f, n, node, rect, fg, bg, mode), Content(node, rect), mode)
<1> DEFINE box == Content(node, rect)
           borderFg == IF node.style.border.fg = "reset" THEN fg ELSE node.style.border.fg
           edge == IF node.style.border.on THEN Border(node, rect, borderFg, bg) ELSE << >>
           ground == [p \in Within(rect) |-> Cell(Space, fg, bg)]
           over == Over(f, Atop(edge, ground))
           owner == [p \in Screen |-> IF p \in Within(rect) THEN n ELSE over.owner[p]]
           base == [over EXCEPT !.owner = owner]
           r == Painted(f, n, node, rect, fg, bg, mode)
<1>1. r = Filled(base, node, box, fg, bg, mode)
  BY Zenon DEF Painted
<1>2. Solid(ground)
  BY CellOK DEF Solid
<1>3. Solid(edge)
  <2> HIDE DEF borderFg
  <2>1. Solid(Border(node, rect, borderFg, bg))
    BY CellOK DEF Border, Solid
  <2> QED
    BY <2>1, SolidNothing
<1> HIDE DEF box, edge, ground, r
<1>4. Keeps(f, over, IsGraphical(mode))
  BY <1>2, <1>3, SolidAtop, OverKeeps
<1> HIDE DEF over, owner
<1>5. IsFrame(base) /\ base.cells = over.cells /\ base.graphics = over.graphics
  BY <1>4 DEF Keeps, Celled, IsFrame
<1> HIDE DEF base
<1>6. Keeps(f, base, IsGraphical(mode))
  BY <1>4, <1>5 DEF Keeps, Celled, Owned
<1>7. KeepsIn(base, r, box, mode)
  BY <1>1, <1>6, FilledKeeps DEF Keeps
<1> QED
  BY <1>6, <1>7 DEF KeepsIn, Keeps, box, r

\* Without scrolling every box begins on the screen.
LEMMA AtRestOnScreen ==
    ASSUME NEW nodes, NEW layout, IsLayout(layout, nodes), NEW scroll, NEW n \in DOMAIN layout.rects,
           NEW any, NEW node, NEW rect, NEW mode, IsGraphical(mode) => scroll = 0,
           rect = ScreenRect(any, layout.rects[n], CenteringOffset(nodes, layout, Cols, Rows), scroll)
    PROVE  OnScreen(Content(node, rect), mode)
<1> SUFFICES ASSUME scroll = 0
             PROVE  Content(node, rect).x >= 0 /\ Content(node, rect).y >= 0
  BY DEF OnScreen
<1> DEFINE o == CenteringOffset(nodes, layout, Cols, Rows)
           t == layout.rects[n]
           lift == IF any.style.position = "fixed" THEN 0 ELSE scroll
<1>1. o[1] \in Nat /\ o[2] \in Nat
  BY CenteringOK
<1>2. t \in Places
  BY DEF IsLayout
<1>3. rect = [t EXCEPT !.x = t.x + o[1], !.y = t.y + o[2] - lift]
  BY DEF ScreenRect
<1>4. lift = 0
  OBVIOUS
<1> HIDE DEF o, t, lift
<1>5. rect.x = t.x + o[1] /\ rect.y = t.y + o[2] - lift /\ t.x \in Nat /\ t.y \in Nat
  BY <1>2, <1>3 DEF Places
<1>6. rect.x \in Nat /\ rect.y \in Nat
  BY <1>1, <1>4, <1>5
<1>7. BorderOf(node) \in 0..1
  BY DEF BorderOf
<1>8. Content(node, rect).x = rect.x + BorderOf(node) /\ Content(node, rect).y = rect.y + BorderOf(node)
  BY DEF Content
<1> QED
  BY <1>6, <1>7, <1>8

LEMMA DrawnKeeps ==
    ASSUME NEW nodes, NEW layout, IsLayout(layout, nodes), NEW scroll, NEW mode
    PROVE  LET r == Drawn(nodes, layout, scroll, mode)
           IN  Celled(r) /\ ((IsGraphical(mode) => scroll = 0) => Owned(r, IsGraphical(mode)))
<1> DEFINE order == layout.order
           N == Len(order)
           offset == CenteringOffset(nodes, layout, Cols, Rows)
           Rect(i) == ScreenRect(nodes[order[i]], layout.rects[order[i]], offset, scroll)
           AtRest == IsGraphical(mode) => scroll = 0
           OK(g) == Celled(g) /\ (AtRest => Owned(g, IsGraphical(mode)))
<1>1. PICK f, e : /\ Drawing!Steps(f, NoneOwned, e, N)
                  /\ Drawn(nodes, layout, scroll, mode) = f[N]
                  /\ \A i \in 1..N : e[i].n = order[i] /\ e[i].profile = mode /\ e[i].rect = Rect(i)
  BY DrawnSteps
<1>2. N \in Nat /\ \A i \in 1..N : order[i] \in DOMAIN layout.rects
  BY DEF IsLayout
<1> HIDE DEF N
<1> DEFINE T == {k \in 0..N : OK(f[k])}
<1>3. 0 \in T
  <2>1. f[0] = NoneOwned
    BY <1>1 DEF Drawing!Steps
  <2>2. Celled(NoneOwned) /\ \A p \in Screen : ~NoneOwned.cells[p].skip
    BY CellOK DEF NoneOwned, Celled, IsFrame, IsList
  <2>3. OK(NoneOwned)
    BY <2>2 DEF Owned
  <2> HIDE DEF OK
  <2> QED
    BY <1>2, <2>1, <2>3
<1>4. ASSUME NEW k \in 1..N, k - 1 \in T
      PROVE  k \in T
  <2> DEFINE g == f[k - 1]
             c == e[k]
             rect == Rect(k)
             r == Painted(g, c.n, c.node, rect, c.fg, c.bg, mode)
             box == Content(c.node, rect)
  <2>1. f[k] = r
    <3>1. f[k] = DrawOp(g, c)
      BY <1>1 DEF Drawing!Steps
    <3>2. c.profile = mode /\ c.rect = rect
      BY <1>1
    <3> HIDE DEF c, g, rect
    <3> QED
      BY <3>1, <3>2 DEF DrawOp
  <2>2. OK(g)
    <3> HIDE DEF OK
    <3> QED
      BY <1>4
  <2>3. KeepsIn(g, r, box, mode)
    <3> HIDE DEF c, g, rect
    <3> QED
      BY <2>2, PaintedKeeps
  <2>4. AtRest => OnScreen(box, mode)
    <3>1. order[k] \in DOMAIN layout.rects
      BY <1>2
    <3> HIDE DEF c
    <3> QED
      BY <3>1, AtRestOnScreen
  <2> HIDE DEF g, r, box, AtRest
  <2>5. OK(r)
    BY <2>2, <2>3, <2>4 DEF KeepsIn, Keeps
  <2> HIDE DEF OK
  <2> QED
    BY <2>1, <2>5
<1> HIDE DEF T
<1>5. 0..N \subseteq T
  BY <1>2, <1>3, <1>4, UpTo
<1>6. OK(f[N])
  <2> HIDE DEF OK
  <2> QED
    BY <1>2, <1>5 DEF T
<1> QED
  BY <1>1, <1>6

\* What the event loop sends: its cells are cells, those of a client without
\* graphics are all to be sent, and there is always something to send.
LEMMA ComposedCells ==
    ASSUME NEW nodes, NEW layout, IsLayout(layout, nodes), NEW scroll \in 0..MaxScroll(layout),
           NEW focus, NEW typed, NEW mode
    PROVE  LET r == Composed(nodes, layout, scroll, focus, typed, mode)
           IN  /\ Bools(r.cells)
               /\ ~IsGraphical(mode) => \A p \in Screen : ~r.cells[p].skip
               /\ r.graphics # << >> \/ \E p \in Screen : ~r.cells[p].skip
<1> DEFINE page == Drawn(nodes, layout, scroll, mode)
           ring == Ring(nodes, layout, scroll, focus)
           echo == Echo(nodes, layout, scroll, focus, typed)
           bar == StatusBar(layout, scroll)
           ringed == Over(page, ring)
           echoed == Over(ringed, echo)
           r == Over(echoed, bar)
           graphical == IsGraphical(mode)
<1>1. Composed(nodes, layout, scroll, focus, typed, mode) = r
  BY Zenon DEF Composed
<1>2. Celled(page) /\ ((graphical => scroll = 0) => Owned(page, graphical))
  BY DrawnKeeps
<1>3. Solid(ring)
  <2>1. \/ ring = << >>
        \/ \E grid, x, y : ring = Bold(Stamp(grid, x, y, "c51", "reset"))
    BY Zenon DEF Ring
  <2> HIDE DEF ring
  <2> QED
    BY <2>1, SolidNothing, SolidStamp, SolidBold
<1>4. Solid(echo)
  <2>1. echo = << >> \/ \E grid, x, y : echo = Stamp(grid, x, y, "c2", "reset")
    BY Zenon DEF Echo
  <2> HIDE DEF echo
  <2> QED
    BY <2>1, SolidNothing, SolidStamp
<1>5. Solid(bar) /\ (layout.total > Rows => << 0, Rows - 1 >> \in DOMAIN bar)
  <2> DEFINE ground == [p \in {q \in Screen : q[2] = Rows - 1} |-> Cell(Space, "c255", "c236")]
  <2>1. \E text, start :
           bar = IF layout.total > Rows
                   THEN Atop(Bold(Stamp(Row(text), start, Rows - 1, "c255", "c236")), ground)
                   ELSE << >>
    BY Zenon DEF StatusBar
  <2>2. Solid(ground)
    BY CellOK DEF Solid
  <2>3. << 0, Rows - 1 >> \in DOMAIN ground
    BY InScreen
  <2> HIDE DEF bar, ground
  <2>4. ASSUME NEW text, NEW start
        PROVE  LET a == Atop(Bold(Stamp(Row(text), start, Rows - 1, "c255", "c236")), ground)
               IN  Solid(a) /\ DOMAIN ground \subseteq DOMAIN a
    BY <2>2, SolidStamp, SolidBold, SolidAtop
  <2> QED
    BY <2>1, <2>3, <2>4, SolidNothing
<1> HIDE DEF page, ring, echo, bar
<1>6. Keeps(page, ringed, graphical)
  BY <1>2, <1>3, OverKeeps
<1> HIDE DEF ringed
<1>7. Keeps(ringed, echoed, graphical)
  BY <1>4, <1>6, OverKeeps DEF Keeps
<1> HIDE DEF echoed
<1>8. Keeps(echoed, r, graphical)
  BY <1>5, <1>7, OverKeeps DEF Keeps
<1>9. << 0, Rows - 1 >> \in Screen
  BY InScreen
<1>10. layout.total > Rows => ~r.cells[<< 0, Rows - 1 >>].skip
  BY <1>5, <1>7, <1>9, OverCells DEF Keeps
<1> HIDE DEF r
<1>11. Bools(r.cells)
  BY <1>8 DEF Keeps, Celled, IsCell, Bools
<1>12. (graphical => scroll = 0) => Owned(r, graphical)
  BY <1>2, <1>6, <1>7, <1>8 DEF Keeps
<1>13. ~graphical => \A p \in Screen : ~r.cells[p].skip
  BY <1>12 DEF Owned
<1>14. r.graphics # << >> \/ \E p \in Screen : ~r.cells[p].skip
  <2>1. CASE layout.total > Rows
    BY <1>9, <1>10, <2>1
  <2>2. CASE ~(layout.total > Rows)
    <3>1. layout.total \in Nat /\ Rows \in Nat
      BY InScreen DEF IsLayout
    <3>2. MaxScroll(layout) = 0
      BY <2>2, <3>1 DEF MaxScroll, Viewport, Larger
    <3>3. scroll = 0
      BY <3>2
    <3> QED
      BY <1>9, <1>12, <3>3 DEF Owned
  <2> QED
    BY <2>1, <2>2
<1> QED
  BY <1>1, <1>11, <1>13, <1>14

-----------------------------------------------------------------------------
(* What the client shows *)

\* What is on a client's display: a terminal's is in order by itself.
Sound(web, d) == IF web THEN IsDisplay(d) ELSE TerminalOK(d)

\* The display shows these cells, which it can.
Holds(web, cells, d) ==
    /\ Whole(cells) /\ (web => Narrow(cells))
    /\ \A q \in Screen : Near(web, cells[q], d.cells[q])

\* A client whose display was d has been sent the new cells, and it is e.
Updated(web, d, prev, back, sent, e) ==
    /\ Sound(web, e)
    /\ Agreed(web, prev, back.cells, d) => Holds(web, back.cells, e)
    /\ ~sent => /\ e = d
                /\ (Agreed(web, prev, back.cells, d) /\ prev = DirtyCells) =>
                      \A q \in Screen : back.cells[q].skip
                /\ ~web => back.graphics = << >>

LEMMA AgreedHolds ==
    ASSUME NEW web, NEW prev, NEW next, NEW d, Agreed(web, prev, next, d),
           NEW e, \A q \in Screen : Near(web, next[q], e.cells[q])
    PROVE  Holds(web, next, e)
BY DEF Agreed, Good, Holds

\* A frame that goes to a terminal,
LEMMA AnsiUpdated ==
    ASSUME NEW c, DOMAIN c = {"display", "pictures", "assets"}, TerminalOK(c.display),
           NEW old, NEW back, Bools(back.cells)
    PROVE  LET result == AnsiSent(c, old, back)
           IN  Updated(FALSE, c.display, old.cells, back, result.sent, result.client.display)
<1> DEFINE commands == Diff(old.cells, back.cells)
           d == OnTerminal(c.display, EncodeAnsi(commands))
           cleanup == old.graphics # << >> /\ back.graphics = << >>
           pictures == (IF cleanup THEN {} ELSE c.pictures) \cup ToSet(back.graphics)
           result == AnsiSent(c, old, back)
<1>1. result = [sent |-> commands # << >> \/ back.graphics # << >> \/ cleanup,
                client |-> [c EXCEPT !.display = d, !.pictures = pictures]]
  BY Zenon DEF AnsiSent
<1>2. PICK fg, bg, t :
         /\ Live(FALSE, c.display, commands, fg, bg, t)
         /\ Agreed(FALSE, old.cells, back.cells, c.display) =>
               \A q \in Screen :
                  /\ Near(FALSE, back.cells[q], t.cells[q])
                  /\ old.cells = DirtyCells /\ commands = << >> => back.cells[q].skip
  <2>1. FALSE => IsDisplay(c.display)
    OBVIOUS
  <2>2. ~FALSE => TerminalOK(c.display)
    OBVIOUS
  <2> QED
    BY <2>1, <2>2, DiffOK
<1> HIDE DEF commands
<1>3. OnTty(c.display, commands, fg, bg, t)
  BY <1>2 DEF Live
<1>4. d = t /\ TerminalOK(t) /\ (commands = << >> => t = c.display)
  BY <1>3, TtyShows
<1> HIDE DEF d, pictures, cleanup, result
<1>5. result.client.display = t
  <2>1. result.client = [c EXCEPT !.display = d, !.pictures = pictures]
    BY <1>1
  <2> QED
    BY <1>4, <2>1
<1>6. ~result.sent => commands = << >> /\ back.graphics = << >>
  BY <1>1
<1>7. Agreed(FALSE, old.cells, back.cells, c.display) => Holds(FALSE, back.cells, t)
  BY <1>2, AgreedHolds
<1>8. Updated(FALSE, c.display, old.cells, back, result.sent, result.client.display)
  BY <1>2, <1>4, <1>5, <1>6, <1>7 DEF Updated, Sound
<1> QED
  BY <1>8 DEF result

\* and one that goes to a browser.
LEMMA WebUpdated ==
    ASSUME NEW c, DOMAIN c = {"display", "pictures", "assets"}, IsDisplay(c.display),
           NEW prev, NEW back, Bools(back.cells), NEW active
    PROVE  LET result == WebSent(c, prev, back, active)
           IN  Updated(TRUE, c.display, prev.cells, back, result.sent, result.client.display)
<1> DEFINE commands == Diff(prev.cells, back.cells)
           d == OnCanvas(c.display, DecodeBinary(EncodeBinary(commands)))
           ready == {m \in active : Files[m.src].where = "there"}
           assets == c.assets \cup {m.src : m \in ready}
           result == WebSent(c, prev, back, active)
<1>1. result = [sent |-> commands # << >> \/ active # {},
                client |-> [c EXCEPT !.display = d, !.assets = assets, !.pictures = ready]]
  BY Zenon DEF WebSent
<1>2. PICK fg, bg, t :
         /\ Live(TRUE, c.display, commands, fg, bg, t)
         /\ Agreed(TRUE, prev.cells, back.cells, c.display) =>
               \A q \in Screen :
                  /\ Near(TRUE, back.cells[q], t.cells[q])
                  /\ prev.cells = DirtyCells /\ commands = << >> => back.cells[q].skip
  <2>1. TRUE => IsDisplay(c.display)
    OBVIOUS
  <2>2. ~TRUE => TerminalOK(c.display)
    OBVIOUS
  <2> QED
    BY <2>1, <2>2, DiffOK
<1> HIDE DEF commands
<1>3. OnWeb(c.display, commands, fg, bg, t)
  BY <1>2 DEF Live
<1>4. OnCanvas(c.display, commands) = t /\ IsDisplay(t) /\ AreCommands(commands)
      /\ (commands = << >> => t = c.display)
  BY <1>3, WebShows
<1>5. d = t
  BY <1>4, RoundTrip
<1> HIDE DEF d, ready, assets, result
<1>6. result.client.display = t
  <2>1. result.client = [c EXCEPT !.display = d, !.assets = assets, !.pictures = ready]
    BY <1>1
  <2> QED
    BY <1>5, <2>1
<1>7. ~result.sent => commands = << >>
  BY <1>1
<1>8. Agreed(TRUE, prev.cells, back.cells, c.display) => Holds(TRUE, back.cells, t)
  BY <1>2, AgreedHolds
<1>9. Updated(TRUE, c.display, prev.cells, back, result.sent, result.client.display)
  BY <1>2, <1>4, <1>6, <1>7, <1>8 DEF Updated, Sound
<1> QED
  BY <1>9 DEF result

\* The client's display is in order, and as long as nothing has hung over since all
\* of it was redrawn it shows the front buffer, or a page was loaded and all of it
\* will be redrawn.
DisplayOK ==
    /\ DOMAIN front = {"cells", "graphics"}
    /\ Sound(profile = "web", client.display)
    /\ profile # "web" => ~changed
    /\ (whole /\ ~changed /\ (profile = "web" => narrow)) =>
          \/ frame = NoFrame /\ front.cells = DirtyCells
          \/ Holds(profile = "web", front.cells, client.display)

LEMMA NewDisplay ==
    /\ \A web : Sound(web, NewClient.display)
    /\ \A web : Holds(web, EmptyCells, NewClient.display)
<1> DEFINE blank == Seen(Space, "reset", "reset", FALSE)
           empty == Cell(Space, "reset", "reset")
<1>1. /\ NewClient.display = Display /\ Display.at = << 0, 0 >>
      /\ \A q \in Screen : Display.cells[q] = blank
      /\ IsDisplay(Display)
  BY DEF NewClient, Display, IsDisplay
<1>2. \A q \in Screen : EmptyCells[q] = empty
  BY DEF EmptyCells
<1>3. blank.ch = Space /\ ~blank.half
  BY DEF Seen
<1>4. empty.ch = Space /\ empty.fg = "reset" /\ empty.bg = "reset"
  BY DEF Cell
<1>5. Width(Space) = 1
  BY Widths
<1> HIDE DEF blank, empty
<1>6. Halves(Display.cells)
  <2>1. ASSUME NEW q \in Screen, q[1] > 0
        PROVE  Width(Display.cells[Left(q)].ch) = 1
    <3>1. Left(q) \in Screen
      BY <2>1, InScreen DEF Left
    <3> QED
      BY <1>1, <1>3, <1>5, <3>1
  <2> QED
    BY <1>1, <1>3, <2>1 DEF Halves
<1>7. InLine(Display.at)
  <2>1. Rows - 1 \in Nat
    BY InScreen
  <2> QED
    BY <1>1, <2>1 DEF InLine
<1>8. \A web : Sound(web, NewClient.display)
  BY <1>1, <1>6, <1>7 DEF Sound, TerminalOK
<1>9. Whole(EmptyCells) /\ Narrow(EmptyCells)
  BY <1>2, <1>4, <1>5 DEF Whole, Narrow
<1>10. \A web : \A q \in Screen : Near(web, EmptyCells[q], NewClient.display.cells[q])
  BY <1>1, <1>2, <1>3, <1>4 DEF Near, Shows
<1> QED
  BY <1>8, <1>9, <1>10 DEF Holds

LEMMA DisplayOKInit == Init => DisplayOK
<1> SUFFICES ASSUME Init
             PROVE  DisplayOK
  OBVIOUS
<1>1. /\ front = [cells |-> EmptyCells, graphics |-> << >>]
      /\ client = NewClient /\ changed = (profile = "web")
  BY DEF Init
<1>2. DOMAIN front = {"cells", "graphics"} /\ front.cells = EmptyCells
  BY <1>1
<1>3. profile # "web" => ~changed
  BY <1>1
<1> QED
  BY <1>1, <1>2, <1>3, NewDisplay DEF DisplayOK

\* A frame that was sent, or not, leaves a client that shows it.
LEMMA FrameHolds ==
    ASSUME NEW web, NEW d, NEW prev, NEW back, NEW sent, NEW e, NEW page,
           Updated(web, d, prev, back, sent, e),
           prev = DirtyCells \/ Holds(web, prev, d),
           Whole(back.cells), web => Narrow(back.cells),
           back.graphics # << >> \/ \E p \in Screen : ~back.cells[p].skip,
           web => \E p \in Screen : ~back.cells[p].skip
    PROVE  /\ Holds(web, back.cells, e)
           /\ ~sent => prev # DirtyCells /\ Holds(web, prev, e)
<1>1. Agreed(web, prev, back.cells, d)
  BY DEF Agreed, Good, Holds
<1>2. ~sent => prev # DirtyCells
  BY <1>1 DEF Updated
<1>3. ~sent => e = d
  BY DEF Updated
<1> QED
  BY <1>1, <1>2, <1>3 DEF Updated

LEMMA DisplayOKStep ==
    ASSUME PageOK, DisplayOK, [Next]_vars
    PROVE  DisplayOK'
<1>1. ASSUME NEW s \in Sources, Load(s)
      PROVE  DisplayOK'
  <2>1. CASE Document(s).ok
    <3>1. /\ front' = [cells |-> DirtyCells, graphics |-> << >>] /\ frame' = NoFrame
          /\ UNCHANGED << profile, client, changed >>
      BY <1>1, <2>1 DEF Load
    <3>2. DOMAIN front' = {"cells", "graphics"} /\ front'.cells = DirtyCells
      BY <3>1
    <3> QED
      BY <3>1, <3>2 DEF DisplayOK
  <2>2. CASE ~Document(s).ok
    <3>1. UNCHANGED << front, frame, profile, client, changed, whole, narrow >>
      BY <1>1, <2>2 DEF Load
    <3> QED
      BY <3>1 DEF DisplayOK
  <2> QED
    BY <2>1, <2>2
<1>2. ASSUME Toggle
      PROVE  DisplayOK'
  BY <1>2 DEF Toggle, DisplayOK
<1>3. ASSUME Render
      PROVE  DisplayOK'
  <2>1. PICK layout, scroll, focus, page :
           /\ layout = Compute(doc, Cols, on) /\ scroll \in 0..MaxScroll(layout)
           /\ page = Composed(doc, layout, scroll, focus, Typed(profile), profile)
           /\ Draws(layout, scroll, page)
    BY <1>3, Rendered
  <2> DEFINE prev == IF changed THEN [front EXCEPT !.cells = DirtyCells] ELSE front
             back == [cells |-> page.cells, graphics |-> page.graphics]
             active == ActiveMedia(doc, layout, scroll)
             web == profile = "web"
             result == IF web THEN WebSent(client, prev, back, active)
                              ELSE AnsiSent(client, front, back)
  <2>2. /\ client' = result.client /\ front' = IF result.sent THEN back ELSE front
        /\ whole' = ((whole \/ changed) /\ Whole(page.cells))
        /\ narrow' = ((narrow \/ changed) /\ Narrow(page.cells))
        /\ changed' = FALSE
        /\ UNCHANGED profile
    BY <2>1 DEF Draws
  <2>3. IsLayout(layout, doc)
    BY <2>1, ComputeOK DEF PageOK
  <2>4. back.cells = page.cells /\ back.graphics = page.graphics
    OBVIOUS
  <2>5. /\ Bools(back.cells)
        /\ ~IsGraphical(profile) => \A p \in Screen : ~back.cells[p].skip
        /\ back.graphics # << >> \/ \E p \in Screen : ~back.cells[p].skip
    <3> HIDE DEF back
    <3> QED
      BY <2>1, <2>3, <2>4, ComposedCells
  <2>6. web => \E p \in Screen : ~back.cells[p].skip
    <3>1. << 0, 0 >> \in Screen
      BY InScreen
    <3> HIDE DEF back
    <3> QED
      BY <2>5, <3>1 DEF IsGraphical
  <2>7. prev.cells = (IF changed THEN DirtyCells ELSE front.cells)
        /\ (~web => prev = front)
    BY DEF DisplayOK
  <2>8. DOMAIN back = {"cells", "graphics"}
    OBVIOUS
  <2> HIDE DEF prev, back, active
  <2>9. DOMAIN front' = {"cells", "graphics"}
    <3> HIDE DEF result
    <3> QED
      BY <2>2, <2>8 DEF DisplayOK
  <2>10. Updated(web, client.display, prev.cells, back, result.sent, result.client.display)
    <3>1. CASE web
      <4>1. web = TRUE
        BY <3>1
      <4>2. IsDisplay(client.display)
        BY <3>1 DEF DisplayOK, Sound
      <4>3. Updated(TRUE, client.display, prev.cells, back,
                    WebSent(client, prev, back, active).sent,
                    WebSent(client, prev, back, active).client.display)
        BY <2>5, <4>2, WebUpdated DEF PageOK
      <4> HIDE DEF web
      <4> QED
        BY <4>1, <4>3
    <3>2. CASE ~web
      <4>1. web = FALSE
        BY <3>2
      <4>2. TerminalOK(client.display)
        BY <3>2 DEF DisplayOK, Sound
      <4>3. Updated(FALSE, client.display, front.cells, back,
                    AnsiSent(client, front, back).sent,
                    AnsiSent(client, front, back).client.display)
        BY <2>5, <4>2, AnsiUpdated DEF PageOK
      <4>4. prev = front
        BY <2>7, <3>2
      <4> HIDE DEF web
      <4> QED
        BY <4>1, <4>3, <4>4
    <3> QED
      BY <3>1, <3>2
  <2>11. client'.display = result.client.display
    BY <2>2
  <2> HIDE DEF result
  <2>12. Sound(web, client'.display)
    BY <2>10, <2>11 DEF Updated
  <2>13. ASSUME whole', web => narrow'
         PROVE  Holds(web, front'.cells, client'.display)
    <3>1. Whole(back.cells) /\ (web => Narrow(back.cells))
      BY <2>2, <2>4, <2>13
    <3>2. prev.cells = DirtyCells \/ Holds(web, prev.cells, client.display)
      <4>1. CASE changed
        BY <2>7, <4>1
      <4>2. CASE ~changed
        <5>1. whole /\ (web => narrow)
          BY <2>2, <2>13, <4>2
        <5> QED
          BY <2>7, <4>2, <5>1 DEF DisplayOK
      <4> QED
        BY <4>1, <4>2
    <3> HIDE DEF web
    <3>3. /\ Holds(web, back.cells, client'.display)
          /\ ~result.sent => prev.cells # DirtyCells /\ Holds(web, prev.cells, client'.display)
      BY <2>5, <2>6, <2>10, <2>11, <3>1, <3>2, FrameHolds
    <3>4. CASE result.sent
      BY <2>2, <3>3, <3>4
    <3>5. CASE ~result.sent
      <4>1. prev.cells = front.cells
        BY <2>7, <3>3, <3>5
      <4> QED
        BY <2>2, <3>3, <3>5, <4>1
    <3> QED
      BY <3>4, <3>5
  <2> QED
    BY <2>2, <2>9, <2>12, <2>13 DEF DisplayOK
<1>4. ASSUME Reconnect
      PROVE  DisplayOK'
  <2>1. client' = NewClient /\ changed' = TRUE /\ profile = "web" /\ UNCHANGED << front, profile >>
    BY <1>4 DEF Reconnect
  <2> QED
    BY <2>1, NewDisplay DEF DisplayOK
<1>5. ASSUME UNCHANGED vars
      PROVE  DisplayOK'
  BY <1>5 DEF vars, DisplayOK
<1> QED
  BY <1>1, <1>2, <1>3, <1>4, <1>5 DEF Next

\* A half of a wide glyph is where one may be.
LEMMA HalvesBehind ==
    ASSUME NEW web, NEW cells, NEW d, Sound(web, d), Holds(web, cells, d),
           NEW p \in Screen, ~cells[p].skip, d.cells[p].half
    PROVE  p[1] > 0 /\ (Width(cells[Left(p)].ch) = 2 \/ cells[Left(p)].skip)
<1>1. ~web
  BY DEF Holds, Near
<1>2. p[1] > 0 /\ Width(d.cells[Left(p)].ch) = 2
  BY <1>1 DEF Sound, TerminalOK, Halves
<1>3. Left(p) \in Screen
  BY <1>2, InScreen DEF Left
<1> QED
  BY <1>2, <1>3 DEF Holds, Near, Shows

LEMMA ClientShowsFrontNow ==
    ASSUME DisplayOK
    PROVE  ClientShowsFront
<1> DEFINE web == profile = "web"
           cells == front.cells
           display == client.display.cells
<1> SUFFICES ASSUME frame # NoFrame, whole, ~changed, web => narrow, NEW p \in Screen, ~cells[p].skip
             PROVE  /\ Shows(display[p], cells[p])
                    /\ display[p].half =>
                          p[1] > 0 /\ (Width(cells[Left(p)].ch) = 2 \/ cells[Left(p)].skip)
  BY DEF ClientShowsFront, Left
<1>1. Holds(web, cells, client.display) /\ Sound(web, client.display)
  BY DEF DisplayOK
<1> HIDE DEF web
<1>2. Shows(display[p], cells[p])
  BY <1>1 DEF Holds, Near
<1> QED
  BY <1>1, <1>2, HalvesBehind

\* PROPERTY.  A client that is only ever sent differences shows the front buffer,
\* for any pages, pictures, scroll offsets, screen and characters: the skipping of
\* cells behind wide characters, the cursor and the pen that diff takes for granted,
\* the colours that encode_ansi leaves out, the encoding for the browser, the cells
\* left to graphics, the frames that are not sent and the redrawing after a page
\* load or on a new connection never leave an old cell behind.
THEOREM ClientShowsFrontAlways == Spec => []ClientShowsFront
<1>1. Spec => [](PageOK /\ Media)
  BY PageOKInit, PageOKStep, PTL DEF Spec
<1>2. PageOK /\ DisplayOK /\ [Next]_vars => DisplayOK'
  BY DisplayOKStep
<1>3. Spec => []DisplayOK
  BY <1>1, <1>2, DisplayOKInit, PTL DEF Spec
<1>4. DisplayOK => ClientShowsFront
  BY ClientShowsFrontNow
<1> QED
  BY <1>3, <1>4, PTL

================================================================================
