--------------------------- MODULE InteractionProofs ---------------------------
(***************************************************************************)
(* Proofs about Interaction, for any pages, heights, capacity and inputs.  *)
(*                                                                         *)
(* The layout is defined by recursion over the document, from the last     *)
(* node to the first for heights and the other way round for places.  That *)
(* such functions exist and what they return rests on Recursion.  The      *)
(* inductive invariant IInv adds to the types that a layout is one of this *)
(* document's nodes, that the last frame was drawn from it and scrolled no *)
(* further than its end, and that the nodes which can have the focus are   *)
(* out of date only as long as something is left to be done.               *)
(***************************************************************************)
EXTENDS Interaction, Recursion

-----------------------------------------------------------------------------
(* Documents *)

\* A document: its nodes are numbers from 1 on, parents come first, and the root
\* is a box that is always shown and asks for nothing.
LEMMA PageFacts ==
    ASSUME NEW f \in DOMAIN Tree
    PROVE  \E len \in Nat \ {0} :
              /\ DOMAIN Tree[f] = 1..len
              /\ \A n \in 1..len : Tree[f][n] \in NodeType
              /\ \A n \in 1..len : n > 1 => Tree[f][n].parent \in 1..(n - 1)
              /\ Tree[f][1].kind = "box" /\ Tree[f][1].show = "always"
              /\ Tree[f][1].act = "none" /\ Tree[f][1].drag = "no"
<1>1. IsPage(Tree[f])
  BY InteractionAssumption
<1>2. Len(Tree[f]) \in Nat \ {0} /\ DOMAIN Tree[f] = 1..Len(Tree[f])
  BY <1>1 DEF IsPage
<1>3. \A n \in 1..Len(Tree[f]) : Tree[f][n] \in NodeType
  BY <1>1 DEF IsPage
<1> QED
  BY <1>1, <1>2, <1>3 DEF IsPage

\* Finite, with numbers for nodes and the root among them.
LEMMA NodesFacts ==
    ASSUME NEW f \in DOMAIN Tree
    PROVE  /\ DOMAIN Tree[f] \subseteq Nat \ {0} /\ 1 \in DOMAIN Tree[f]
           /\ IsFiniteSet(DOMAIN Tree[f])
           /\ \A n \in DOMAIN Tree[f] : n # 1 =>
                 Tree[f][n].parent \in DOMAIN Tree[f] /\ Tree[f][n].parent < n
           /\ \A n \in DOMAIN Tree[f] : Tree[f][n] \in NodeType
<1>1. PICK len \in Nat \ {0} :
              /\ DOMAIN Tree[f] = 1..len
              /\ \A n \in 1..len : Tree[f][n] \in NodeType
              /\ \A n \in 1..len : n > 1 => Tree[f][n].parent \in 1..(n - 1)
  BY PageFacts
<1>2. IsFiniteSet(1..len)
  BY FS_Interval
<1> QED
  BY <1>1, <1>2

\* The ancestors satisfy the equation that defines them.
LEMMA UpEquation ==
    ASSUME NEW f \in DOMAIN Tree, NEW n \in DOMAIN Tree[f]
    PROVE  /\ Up(f, n) \subseteq DOMAIN Tree[f]
           /\ Up(f, n) = {n} \cup IF n = 1 THEN {} ELSE Up(f, Tree[f][n].parent)
<1> DEFINE S == DOMAIN Tree[f]
           V == SUBSET S
           Rule(k, up) == {k} \cup IF k = 1 THEN {} ELSE up[Tree[f][k].parent]
           G == [k \in S |-> [up \in [S -> V] |-> Rule(k, up)]]
           m == [k \in S |-> k]
           Is(up) == up = [k \in S |-> Rule(k, up)]
<1>1. PICK len \in Nat \ {0} : S = 1..len
  BY PageFacts
<1>2. \A k \in S : k # 1 => Tree[f][k].parent \in S /\ Tree[f][k].parent < k
  BY NodesFacts
<1>3. Bounded(m, S)
  <2>1. m \in [S -> 0..len] /\ len \in Nat
    BY <1>1
  <2> QED
    BY <2>1 DEF Bounded
<1>4. Defines(G, m, S, V)
  <2>1. ASSUME NEW k \in S, NEW up \in [S -> V]
        PROVE  Rule(k, up) \in V
    BY <1>2
  <2>2. ASSUME NEW k \in S, NEW g \in [S -> V], NEW h \in [S -> V],
               \A j \in S : m[j] < m[k] => g[j] = h[j]
        PROVE  Rule(k, g) = Rule(k, h)
    BY <1>2, <2>2
  <2> HIDE DEF Rule, V, S, m
  <2>3. \A k \in S : \A up \in [S -> V] : G[k][up] = Rule(k, up)
    OBVIOUS
  <2> HIDE DEF G
  <2> QED
    BY <2>1, <2>2, <2>3 DEF Defines
<1>5. PICK up \in [S -> V] : \A k \in S : up[k] = Rule(k, up)
  <2> HIDE DEF Rule, S, V
  <2>0. V # {}
    BY DEF V
  <2>1. PICK up \in [S -> V] : \A k \in S : up[k] = G[k][up]
    <3> HIDE DEF G, m
    <3>1. Solvable(G, S, V)
      BY <1>3, <1>4, <2>0, Recursion
    <3> QED
      BY <3>1 DEF Solvable
  <2> QED
    BY <2>1
<1>6. Is(up)
  <2> HIDE DEF Rule, V
  <2> QED
    BY <1>5
<1> DEFINE anc == CHOOSE a : Is(a)
<1>7. Is(anc)
  <2> HIDE DEF Is
  <2> QED
    BY <1>6
<1>8. \A k \in S : Up(f, k) = anc[k]
  BY DEF Up
<1> HIDE DEF anc
<1>9. \A k \in S : anc[k] = Rule(k, anc)
  <2> HIDE DEF Rule
  <2> QED
    BY <1>7
<1>10. \A k \in S : anc[k] \in V
  <2>1. m \in [S -> Nat]
    BY <1>1
  <2>2. \A k \in S : (\A j \in S : m[j] < m[k] => anc[j] \in V) => anc[k] \in V
    BY <1>2, <1>9
  <2> HIDE DEF m, S, V
  <2> QED
    BY <2>1, <2>2, TypedByMeasure
<1>11. n # 1 => Up(f, Tree[f][n].parent) = anc[Tree[f][n].parent]
  BY <1>2, <1>8
<1> QED
  BY <1>8, <1>9, <1>10, <1>11

\* An ancestor's ancestors are ancestors.
LEMMA UpTransitive ==
    ASSUME NEW f \in DOMAIN Tree, NEW n \in DOMAIN Tree[f], NEW k \in Up(f, n)
    PROVE  /\ k \in DOMAIN Tree[f]
           /\ Up(f, k) \subseteq Up(f, n)
<1> DEFINE S == DOMAIN Tree[f]
           m == [j \in S |-> j]
           Bad == {i \in S : \E j \in Up(f, i) : ~(Up(f, j) \subseteq Up(f, i))}
<1>1. Bad = {}
  <2>1. SUFFICES ASSUME Bad # {}
                 PROVE  FALSE
    OBVIOUS
  <2>2. m \in [S -> Nat] /\ Bad \subseteq S
    BY NodesFacts
  <2>3. PICK i \in Bad : \A j \in S : m[j] < m[i] => j \notin Bad
    <3> HIDE DEF Bad, m, S
    <3> QED
      BY <2>1, <2>2, LeastMeasure
  <2>4. Up(f, i) = {i} \cup IF i = 1 THEN {} ELSE Up(f, Tree[f][i].parent)
    BY <2>3, UpEquation
  <2>5. i # 1 => Tree[f][i].parent \in S /\ Tree[f][i].parent < i
    BY <2>3, NodesFacts
  <2>6. i # 1 => \A j \in Up(f, Tree[f][i].parent) : Up(f, j) \subseteq Up(f, Tree[f][i].parent)
    BY <2>3, <2>5
  <2> QED
    BY <2>3, <2>4, <2>6
<1> QED
  BY <1>1, UpEquation

\* The root is always shown, and with a node all of its ancestors.
LEMMA ShownFacts ==
    ASSUME NEW f \in DOMAIN Tree, NEW o
    PROVE  /\ Shown(f, o) \subseteq DOMAIN Tree[f] /\ 1 \in Shown(f, o)
           /\ IsFiniteSet(Shown(f, o))
           /\ \A n \in Shown(f, o) : Up(f, n) \subseteq Shown(f, o)
           /\ \A n \in Shown(f, o) : n # 1 => Tree[f][n].parent \in Shown(f, o)
<1>1. Shown(f, o) \subseteq DOMAIN Tree[f]
  BY DEF Shown
<1>2. 1 \in Shown(f, o)
  <2>1. 1 \in DOMAIN Tree[f] /\ Tree[f][1].show = "always"
    BY PageFacts
  <2>2. Up(f, 1) = {1}
    BY <2>1, UpEquation
  <2> QED
    BY <2>1, <2>2 DEF Shown, Holds
<1>3. IsFiniteSet(Shown(f, o))
  BY <1>1, NodesFacts, FS_Subset
<1>4. \A n \in Shown(f, o) : Up(f, n) \subseteq Shown(f, o)
  BY UpTransitive DEF Shown
<1>5. \A n \in Shown(f, o) : n # 1 => Tree[f][n].parent \in Shown(f, o)
  <2>1. ASSUME NEW n \in Shown(f, o), n # 1
        PROVE  Tree[f][n].parent \in Shown(f, o)
    <3>1. Tree[f][n].parent \in DOMAIN Tree[f]
      BY <1>1, <2>1, NodesFacts
    <3>2. Tree[f][n].parent \in Up(f, Tree[f][n].parent)
      BY <3>1, UpEquation
    <3>3. Tree[f][n].parent \in Up(f, n)
      BY <1>1, <2>1, <3>2, UpEquation
    <3> QED
      BY <1>4, <3>3
  <2> QED
    BY <2>1
<1> QED
  BY <1>1, <1>2, <1>3, <1>4, <1>5

-----------------------------------------------------------------------------
(* The layout *)

\* The children that take room are finitely many nodes after their parent.
LEMMA FlowFacts ==
    ASSUME file \in DOMAIN Tree, NEW shown, shown \subseteq Nodes, NEW n
    PROVE  /\ Flow(shown, n) \subseteq Nodes
           /\ IsFiniteSet(Flow(shown, n))
           /\ n \in Nodes => \A k \in Flow(shown, n) : n < k
<1>1. Flow(shown, n) \subseteq Nodes
  BY DEF Flow
<1>2. IsFiniteSet(Flow(shown, n))
  BY <1>1, NodesFacts, FS_Subset DEF Nodes, t
<1>3. \A k \in Flow(shown, n) : n < k
  BY <1>1, NodesFacts DEF Flow, Nodes, t
<1> QED
  BY <1>1, <1>2, <1>3

\* A node's height looks only at those of its children, which come after it.
LEMMA HighType ==
    ASSUME file \in DOMAIN Tree, items \in Nat, NEW shown, shown \subseteq Nodes
    PROVE  HighOf(shown) \in [Nodes -> Nat]
<1> DEFINE Rule(n, high) ==
              IF n \notin shown THEN 0
              ELSE CASE t[n].kind = "box" -> SumFunctionOnSet(high, Flow(shown, n))
                     [] t[n].kind = "for" -> 1 + items
                     [] OTHER -> t[n].rows
           G == [n \in Nodes |-> [high \in [Nodes -> Nat] |-> Rule(n, high)]]
           Is(high) == high = [n \in Nodes |-> Rule(n, high)]
<1>1. PICK len \in Nat \ {0} : Nodes = 1..len
  BY PageFacts DEF Nodes, t
<1> DEFINE m == [n \in Nodes |-> len - n]
<1>2. Bounded(m, Nodes) /\ m \in [Nodes -> Nat]
  <2>1. m \in [Nodes -> 0..len] /\ len \in Nat
    BY <1>1
  <2> QED
    BY <2>1 DEF Bounded
<1>3. \A n \in Nodes : \A k \in Flow(shown, n) : k \in Nodes /\ m[k] < m[n]
  <2>1. \A n \in Nodes : \A k \in Flow(shown, n) : k \in Nodes /\ n < k
    BY FlowFacts
  <2> QED
    BY <1>1, <2>1
<1> HIDE DEF m
<1>4. \A n \in Nodes : t[n].rows \in Nat
  BY NodesFacts DEF Nodes, t, NodeType
<1>5. ASSUME NEW n \in Nodes, NEW high \in [Nodes -> Nat]
      PROVE  Rule(n, high) \in Nat
  <2>1. SumFunctionOnSet(high, Flow(shown, n)) \in Nat
    BY FlowFacts, SumType
  <2> QED
    BY <1>4, <2>1
<1>6. ASSUME NEW n \in Nodes, NEW g \in [Nodes -> Nat], NEW h,
             \A k \in Nodes : m[k] < m[n] => g[k] = h[k]
      PROVE  Rule(n, g) = Rule(n, h)
  <2>1. \A k \in Flow(shown, n) : g[k] = h[k]
    BY <1>3, <1>6
  <2>2. SumFunctionOnSet(g, Flow(shown, n)) = SumFunctionOnSet(h, Flow(shown, n))
    BY <2>1, FlowFacts, SumAgree
  <2> QED
    BY <2>2
<1> HIDE DEF Rule
<1>7. Defines(G, m, Nodes, Nat)
  <2>1. \A n \in Nodes : \A high \in [Nodes -> Nat] : G[n][high] = Rule(n, high)
    OBVIOUS
  <2> HIDE DEF G
  <2> QED
    BY <1>5, <1>6, <2>1 DEF Defines
<1>8. PICK high \in [Nodes -> Nat] : \A n \in Nodes : high[n] = Rule(n, high)
  <2>1. PICK high \in [Nodes -> Nat] : \A n \in Nodes : high[n] = G[n][high]
    <3> HIDE DEF G
    <3>1. Solvable(G, Nodes, Nat)
      BY <1>2, <1>7, Recursion, Nat # {}
    <3> QED
      BY <3>1 DEF Solvable
  <2> QED
    BY <2>1
<1>9. Is(high)
  BY <1>8
<1> DEFINE chosen == CHOOSE h : Is(h)
<1>10. Is(chosen)
  <2> HIDE DEF Is
  <2> QED
    BY <1>9
<1>11. HighOf(shown) = chosen
  BY DEF HighOf, Rule
<1> HIDE DEF chosen
<1>12. \A n \in Nodes : chosen[n] = Rule(n, chosen)
  BY <1>10
<1>13. \A n \in Nodes : chosen[n] \in Nat
  <2>1. ASSUME NEW n \in Nodes, \A k \in Nodes : m[k] < m[n] => chosen[k] \in Nat
        PROVE  chosen[n] \in Nat
    <3> DEFINE g == [k \in Nodes |-> IF m[k] < m[n] THEN chosen[k] ELSE 0]
    <3>1. g \in [Nodes -> Nat]
      BY <2>1
    <3>2. \A k \in Nodes : m[k] < m[n] => g[k] = chosen[k]
      OBVIOUS
    <3> HIDE DEF g
    <3>3. Rule(n, g) = Rule(n, chosen) /\ Rule(n, g) \in Nat
      BY <3>1, <3>2, <1>5, <1>6
    <3> QED
      BY <3>3, <1>12
  <2> QED
    BY <2>1, <1>2, TypedByMeasure
<1> QED
  BY <1>10, <1>11, <1>13

\* A node's place looks only at that of its parent, which comes before it.
LEMMA TopType ==
    ASSUME file \in DOMAIN Tree, moved \in [Nodes -> Int],
           NEW shown, shown \subseteq Nodes, NEW high \in [Nodes -> Nat]
    PROVE  TopOf(shown, high) \in [Nodes -> Nat]
<1> DEFINE Below(n) == IF moved[n] >= 0 THEN moved[n]
                       ELSE SumFunctionOnSet(high, {k \in Flow(shown, t[n].parent) : k < n})
           Rule(n, top) == IF n = 1 THEN 0 ELSE top[t[n].parent] + Below(n)
           G == [n \in Nodes |-> [top \in [Nodes -> Nat] |-> Rule(n, top)]]
           m == [n \in Nodes |-> n]
           Is(top) == top = [n \in Nodes |-> Rule(n, top)]
<1>1. PICK len \in Nat \ {0} : Nodes = 1..len
  BY PageFacts DEF Nodes, t
<1>2. Bounded(m, Nodes) /\ m \in [Nodes -> Nat]
  <2>1. m \in [Nodes -> 0..len] /\ len \in Nat
    BY <1>1
  <2> QED
    BY <2>1 DEF Bounded
<1>3. \A n \in Nodes : n # 1 => t[n].parent \in Nodes /\ m[t[n].parent] < m[n]
  BY NodesFacts DEF Nodes, t
<1> HIDE DEF m
<1>4. ASSUME NEW n \in Nodes
      PROVE  Below(n) \in Nat
  <2> DEFINE over == {k \in Flow(shown, t[n].parent) : k < n}
  <2>1. over \subseteq Nodes /\ IsFiniteSet(over)
    BY FlowFacts, FS_Subset
  <2>2. SumFunctionOnSet(high, over) \in Nat
    BY <2>1, SumType
  <2>3. moved[n] >= 0 => moved[n] \in Nat
    OBVIOUS
  <2> QED
    BY <2>2, <2>3
<1> HIDE DEF Below
<1>5. Defines(G, m, Nodes, Nat)
  <2>1. \A n \in Nodes : \A top \in [Nodes -> Nat] : G[n][top] = Rule(n, top)
    OBVIOUS
  <2>2. ASSUME NEW n \in Nodes, NEW top \in [Nodes -> Nat]
        PROVE  Rule(n, top) \in Nat
    BY <1>3, <1>4
  <2>3. ASSUME NEW n \in Nodes, NEW g \in [Nodes -> Nat], NEW h \in [Nodes -> Nat],
               \A k \in Nodes : m[k] < m[n] => g[k] = h[k]
        PROVE  Rule(n, g) = Rule(n, h)
    BY <1>3, <2>3
  <2> HIDE DEF G, Rule
  <2> QED
    BY <2>1, <2>2, <2>3 DEF Defines
<1>6. PICK top \in [Nodes -> Nat] : \A n \in Nodes : top[n] = Rule(n, top)
  <2> HIDE DEF Rule
  <2>1. PICK top \in [Nodes -> Nat] : \A n \in Nodes : top[n] = G[n][top]
    <3> HIDE DEF G
    <3>1. Solvable(G, Nodes, Nat)
      BY <1>2, <1>5, Recursion, Nat # {}
    <3> QED
      BY <3>1 DEF Solvable
  <2> QED
    BY <2>1
<1>7. Is(top)
  <2> HIDE DEF Rule
  <2> QED
    BY <1>6
<1> DEFINE chosen == CHOOSE h : Is(h)
<1>8. Is(chosen)
  <2> HIDE DEF Is
  <2> QED
    BY <1>7
<1>9. TopOf(shown, high) = chosen
  BY DEF TopOf, Below
<1> HIDE DEF chosen
<1>10. \A n \in Nodes : chosen[n] = Rule(n, chosen)
  <2> HIDE DEF Rule
  <2> QED
    BY <1>8
<1>11. \A n \in Nodes : chosen[n] \in Nat
  <2>1. ASSUME NEW n \in Nodes, \A k \in Nodes : m[k] < m[n] => chosen[k] \in Nat
        PROVE  chosen[n] \in Nat
    BY <1>3, <1>4, <1>10, <2>1
  <2> QED
    BY <2>1, <1>2, TypedByMeasure
<1> HIDE DEF Rule
<1> QED
  BY <1>8, <1>9, <1>11

\* The page and its inputs have their types; a file is one of the pages'.
PageType ==
    /\ file \in DOMAIN Tree /\ base \in Pages /\ mobile \in BOOLEAN
    /\ moved \in [Nodes -> Int] /\ items \in Nat
    /\ on \in BOOLEAN /\ list \in 0..MaxItems
    /\ doc \in Nat \ {0} /\ parents \in Nat /\ cache \in Nat

\* The numbers and flags of the view and of the loop.
ViewType ==
    /\ anchor \in Nat /\ scroll \in Nat /\ total \in Nat /\ rows \in Heights
    /\ needs \in BOOLEAN /\ notice \in BOOLEAN /\ unseen \in BOOLEAN
    /\ tokens \in 0..Capacity /\ slowed \in BOOLEAN /\ left \in 0..MaxInputs

\* The focus is on one of the nodes that can have it, if there are any.
RingInv ==
    /\ ring \subseteq Nodes
    /\ focus \in ring \/ (focus = 0 /\ ring = {})

\* A layout is one of this document's nodes, those that were shown.
LayoutInv ==
    layout # NoLayout =>
        /\ \E o \in BOOLEAN : /\ layout.top \in [Shown(file, o) -> Nat]
                              /\ layout.high \in [Shown(file, o) -> Nat]
        /\ layout.total \in Nat /\ layout.doc = doc

\* A drag is of a node of this document.
DragInv ==
    drag # NoDrag => drag.node \in Nodes /\ drag.row \in Int /\ drag.top \in Int

\* The last frame was drawn from the layout, and scrolled no further than its end.
FrameInv ==
    layout # NoLayout =>
        /\ frame.rows \in Heights
        /\ frame.scroll \in 0..Less(layout.total, View(layout.total, frame.rows))
        /\ frame.drawn = Drawn(layout, frame.rows, frame.scroll)

\* The nodes that can have the focus are out of date only as long as something
\* is left to be done.
RingFresh == ~needs /\ ~notice /\ ~unseen => ring = Focusable(file, on)

TypeOK == PageType /\ ViewType /\ RingInv /\ LayoutInv /\ DragInv

IInv == TypeOK /\ FrameInv /\ RingFresh

\* What the layout of a render looks like.
LEMMA LayoutFacts ==
    ASSUME PageType
    PROVE  /\ Layout.top \in [Shown(file, on) -> Nat]
           /\ Layout.high \in [Shown(file, on) -> Nat]
           /\ Layout.total \in Nat /\ Layout.doc = doc
           /\ \A n \in Shown(file, on) \ {1} : Layout.top[n] + Layout.high[n] <= Layout.total
<1> DEFINE shown == Shown(file, on)
           high == HighOf(shown)
           top == TopOf(shown, high)
           ends == {0} \cup {top[n] + high[n] : n \in shown \ {1}}
<1>1. shown \subseteq Nodes /\ IsFiniteSet(shown)
  BY ShownFacts DEF PageType, Nodes, t
<1>2. high \in [Nodes -> Nat]
  BY <1>1, HighType DEF PageType
<1>3. top \in [Nodes -> Nat]
  BY <1>1, <1>2, TopType DEF PageType
<1>4. /\ Layout.doc = doc
      /\ Layout.top = [n \in shown |-> top[n]]
      /\ Layout.high = [n \in shown |-> high[n]]
      /\ Layout.total = Max(ends)
  BY DEF Layout
<1> HIDE DEF high, top, shown
<1>5. ends \subseteq Nat /\ ends # {} /\ IsFiniteSet(ends)
  <2>1. ends \subseteq Nat
    BY <1>1, <1>2, <1>3
  <2>2. IsFiniteSet({top[n] + high[n] : n \in shown \ {1}})
    <3>1. IsFiniteSet(shown \ {1})
      BY <1>1, FS_RemoveElement
    <3> DEFINE end == [n \in shown \ {1} |-> top[n] + high[n]]
    <3>2. IsFiniteSet({end[n] : n \in shown \ {1}})
      BY <3>1, ImageFinite
    <3> QED
      BY <3>2
  <2>3. IsFiniteSet({0})
    BY FS_Singleton
  <2> QED
    BY <2>1, <2>2, <2>3, FS_Union
<1>6. Max(ends) \in ends /\ \A e \in ends : Max(ends) >= e
  <2>1. ends \subseteq Int
    BY <1>5
  <2> HIDE DEF ends
  <2> QED
    BY <1>5, <2>1, MaxInt
<1>7. Max(ends) \in Nat
  BY <1>5, <1>6
<1>8. \A n \in shown \ {1} : top[n] + high[n] \in ends
  OBVIOUS
<1>9. \A n \in shown \ {1} : Max(ends) >= top[n] + high[n]
  BY <1>6, <1>8
<1> HIDE DEF ends
<1>10. \A n \in shown : top[n] \in Nat /\ high[n] \in Nat
  BY <1>1, <1>2, <1>3
<1>11. \A n \in shown \ {1} : Layout.top[n] + Layout.high[n] <= Layout.total
  BY <1>4, <1>7, <1>9, <1>10
<1> QED
  BY <1>4, <1>7, <1>10, <1>11 DEF shown

-----------------------------------------------------------------------------
(* Numbers of the view *)

\* Subtraction that saturates gives a natural number, and no more than there was.
LEMMA LessNat ==
    ASSUME NEW a \in Int, NEW b \in Int
    PROVE  Less(a, b) \in Nat /\ (b >= 0 /\ a >= 0 => Less(a, b) <= a)
BY DEF Less

\* The rows of the viewport are no more than those of the terminal.
LEMMA ViewNat ==
    ASSUME NEW height \in Int, NEW h \in Heights
    PROVE  h \in Nat /\ View(height, h) \in Nat /\ View(height, h) <= h
BY InteractionAssumption DEF View, Less

\* The rows above a page that is centred are a natural number.
LEMMA CenteringNat ==
    ASSUME NEW l, l.total \in Nat, NEW h \in Heights
    PROVE  Centering(l, h) \in Nat
<1>1. h \in Nat
  BY ViewNat, 0 \in Int
<1>2. Less(h, l.total) \in Nat
  BY <1>1 DEF Less
<1> QED
  BY <1>2 DEF Centering

\* A press is on a row of the page that is a natural number.
LEMMA PointedNat ==
    ASSUME TypeOK, NEW r \in Nat
    PROVE  Pointed(r) \in Nat
<1>1. CASE layout = NoLayout
  BY <1>1 DEF Pointed
<1>2. CASE layout # NoLayout
  <2>1. Centering(layout, rows) \in Nat
    BY <1>2, CenteringNat DEF TypeOK, LayoutInv, ViewType
  <2>2. Less(r, Centering(layout, rows)) \in Nat
    BY <2>1 DEF Less
  <2>3. Less(Less(r, Centering(layout, rows)), 1) \in Nat
    BY <2>2 DEF Less
  <2> QED
    BY <1>2, <2>3 DEF Pointed, TypeOK, ViewType
<1> QED
  BY <1>1, <1>2

\* The rows of the pointer are natural numbers.
LEMMA RowsNat == \A r \in 1..Max(Heights) : r \in Nat
<1>1. Max(Heights) \in Heights
  <2>1. Heights \subseteq Int /\ Heights # {} /\ IsFiniteSet(Heights)
    BY InteractionAssumption
  <2> QED
    BY <2>1, MaxInt
<1> QED
  BY <1>1, InteractionAssumption

-----------------------------------------------------------------------------
(* What is pointed at, and what it asks for *)

\* Nodes that can have the focus are shown, and the root is not one of them.
LEMMA FocusFacts ==
    ASSUME NEW f \in DOMAIN Tree, NEW o
    PROVE  /\ Focusable(f, o) \subseteq Shown(f, o)
           /\ Focusable(f, o) \subseteq DOMAIN Tree[f]
           /\ Focusable(f, o) \subseteq Nat \ {0}
           /\ 1 \notin Focusable(f, o)
<1>1. Focusable(f, o) \subseteq Shown(f, o)
  BY DEF Focusable
<1>2. 1 \notin Focusable(f, o)
  BY PageFacts DEF Focusable
<1> QED
  BY <1>1, <1>2, ShownFacts, NodesFacts

\* The focus is on one of the nodes that can have it, if there are any.
LEMMA RefocusedFacts ==
    ASSUME NEW nodes, nodes \subseteq Nat, NEW old
    PROVE  \/ Refocused(old, nodes) \in nodes
           \/ Refocused(old, nodes) = 0 /\ nodes = {}
BY MinNat DEF Refocused

\* A set of nodes that is not empty has a last one.
LEMMA LastNode ==
    ASSUME file \in DOMAIN Tree, NEW T, T \subseteq Nodes, T # {}
    PROVE  Max(T) \in T /\ \A y \in T : Max(T) >= y
<1>1. IsFiniteSet(T) /\ T \subseteq Int
  BY NodesFacts, FS_Subset DEF Nodes, t
<1> QED
  BY <1>1, MaxInt

\* What a node asks for is one of the actions.
LEMMA ActionType ==
    ASSUME file \in DOMAIN Tree, NEW n \in Nodes \cup {0}
    PROVE  Action(n) \in Acts
<1> DEFINE with == {k \in IF n = 0 THEN {} ELSE Up(file, n) : t[k].act # "none"}
<1>1. with \subseteq Nodes
  BY UpEquation DEF Nodes, t
<1>2. CASE with = {}
  BY <1>2 DEF Action, Acts
<1>3. CASE with # {}
  <2>1. Max(with) \in Nodes
    BY <1>1, <1>3, LastNode
  <2>2. t[Max(with)] \in NodeType
    BY <2>1, NodesFacts DEF Nodes, t
  <2> QED
    BY <1>3, <2>2 DEF Action, NodeType
<1> QED
  BY <1>2, <1>3

\* What is hit is a node of the layout, or nothing.
LEMMA HitType ==
    ASSUME TypeOK, NEW y
    PROVE  /\ Hit(y) \in Nodes \cup {0}
           /\ Hit(y) # 0 => layout # NoLayout /\ Hit(y) \in DOMAIN layout.top
<1>1. CASE layout = NoLayout
  BY <1>1 DEF Hit
<1>2. CASE layout # NoLayout
  <2> DEFINE over == {n \in DOMAIN layout.top : n = 1 \/ y \in layout.top[n]..(layout.top[n] + layout.high[n] - 1)}
  <2>1. PICK o \in BOOLEAN : DOMAIN layout.top = Shown(file, o)
    BY <1>2 DEF TypeOK, LayoutInv
  <2>2. over \subseteq Nodes /\ over # {}
    BY <2>1, ShownFacts DEF TypeOK, PageType, Nodes, t
  <2>3. Max(over) \in over
    BY <2>2, LastNode DEF TypeOK, PageType
  <2>4. Hit(y) = IF t[Max(over)].kind = "for" /\ y > layout.top[Max(over)] THEN 0 ELSE Max(over)
    BY <1>2 DEF Hit
  <2> QED
    BY <1>2, <2>2, <2>3, <2>4
<1> QED
  BY <1>1, <1>2

\* What a press drags is the node that was hit, or above it.
LEMMA DraggableType ==
    ASSUME file \in DOMAIN Tree, NEW n \in Nodes \cup {0}
    PROVE  Draggable(n) = 0 \/ (n # 0 /\ Draggable(n) \in Up(file, n))
<1> DEFINE path == IF n = 0 THEN {} ELSE Up(file, n)
           Handles(ns) == {k \in ns : t[k].drag = "handle"}
           can == {k \in path : /\ t[k].drag = "draggable"
                                /\ \/ Handles({d \in Nodes : k \in Up(file, d)}) = {}
                                   \/ Handles({d \in path : k \in Up(file, d)}) # {}}
<1>1. can \subseteq path
  OBVIOUS
<1>2. path \subseteq Nodes
  BY UpEquation DEF Nodes, t
<1>3. Draggable(n) = IF can = {} THEN 0 ELSE Max(can)
  BY DEF Draggable
<1> HIDE DEF can
<1>4. can # {} => Max(can) \in can
  BY <1>1, <1>2, LastNode
<1> QED
  BY <1>1, <1>3, <1>4

-----------------------------------------------------------------------------
(* Invariance *)

\* A new document replaces all that belongs to the old one.
LEMMA NewPage ==
    ASSUME TypeOK, NEW f \in DOMAIN Tree, UpdateDoc(f)
    PROVE  /\ file' \in DOMAIN Tree /\ moved' \in [Nodes' -> Int] /\ items' \in Nat
           /\ doc' \in Nat \ {0} /\ parents' \in Nat /\ cache' \in Nat
           /\ scroll' \in Nat /\ layout' = NoLayout
           /\ ring' = Focusable(file', on) /\ RingInv'
<1>1. /\ file' = f /\ moved' = [n \in DOMAIN Tree[f] |-> -1] /\ items' = 0
      /\ doc' = doc + 1 /\ parents' = doc + 1 /\ cache' = 0
      /\ ring' = Focusable(f, on) /\ focus' = Refocused(focus, ring')
      /\ layout' = NoLayout /\ scroll' = 0
  BY DEF UpdateDoc
<1>2. moved' \in [Nodes' -> Int]
  BY <1>1 DEF Nodes, t
<1>3. ring' \subseteq Nodes' /\ ring' \subseteq Nat
  BY <1>1, FocusFacts DEF Nodes, t
<1>4. focus' \in ring' \/ (focus' = 0 /\ ring' = {})
  BY <1>1, <1>3, RefocusedFacts
<1> QED
  BY <1>1, <1>2, <1>3, <1>4 DEF RingInv, TypeOK, PageType

\* A load takes a token and makes a new page, or leaves the old one.
LEMMA LoadCases ==
    ASSUME TypeOK, NEW p \in Pages, mobile' \in BOOLEAN, NEW to, Load(p, to)
    PROVE  /\ tokens' \in 0..Capacity /\ slowed' \in BOOLEAN
           /\ \/ NoPage /\ drag' = to
              \/ /\ drag' = NoDrag /\ base' \in Pages
                 /\ \E f \in DOMAIN Tree : UpdateDoc(f)
<1>1. Variant(p, mobile') \in DOMAIN Tree \cup {NoFile}
  BY InteractionAssumption DEF Variant
<1>2. tokens \in 0..Capacity /\ slowed \in BOOLEAN
  BY DEF TypeOK, ViewType
<1>3. LoadPage(p) => base' \in Pages /\ \E f \in DOMAIN Tree : UpdateDoc(f)
  BY <1>1 DEF LoadPage
<1>4. tokens' \in 0..Capacity
  BY <1>2, InteractionAssumption DEF Load
<1>5. slowed' \in BOOLEAN
  BY DEF Load
<1>6. (NoPage /\ drag' = to) \/ (LoadPage(p) /\ drag' = NoDrag)
  BY DEF Load
<1> QED
  BY <1>3, <1>4, <1>5, <1>6

\* An action leaves the page, or makes a new one; only a toggle changes the state.
LEMMA TargetCases ==
    ASSUME TypeOK, NEW act \in Acts, NEW to, Target(act, to)
    PROVE  /\ mobile' = mobile /\ tokens' \in 0..Capacity /\ slowed' \in BOOLEAN
           /\ on' \in BOOLEAN /\ list' = list
           /\ act = "none" => NoPage /\ on' = on
           /\ \/ NoPage /\ drag' = to
              \/ /\ drag' = NoDrag /\ base' \in Pages /\ on' = on
                 /\ \E f \in DOMAIN Tree : UpdateDoc(f)
<1>1. mobile' = mobile
  BY DEF Target
<1>2. CASE act \in Pages /\ Load(act, to) /\ UNCHANGED state
  <2>1. mobile' \in BOOLEAN
    BY <1>1 DEF TypeOK, PageType
  <2>2. act # "none"
    BY <1>2, InteractionAssumption
  <2> QED
    BY <1>1, <1>2, <2>1, <2>2, LoadCases DEF state, TypeOK, PageType
<1>3. CASE act = "toggle" /\ on' = ~on /\ drag' = to /\ NoPage /\ UNCHANGED <<list, bucket>>
  BY <1>1, <1>3 DEF bucket, TypeOK, ViewType, PageType
<1>4. CASE act \in {"open", "none"} /\ drag' = to /\ NoPage /\ UNCHANGED <<state, bucket>>
  BY <1>1, <1>4 DEF bucket, state, TypeOK, ViewType, PageType
<1> QED
  BY <1>2, <1>3, <1>4 DEF Target

\* The numbers and flags that a step leaves in their types.
FlagsOK ==
    /\ anchor' = anchor /\ total' = total /\ frame' = frame
    /\ rows' \in Heights /\ left' \in 0..MaxInputs
    /\ needs' \in BOOLEAN /\ notice' \in BOOLEAN /\ unseen' \in BOOLEAN
    /\ tokens' \in 0..Capacity /\ slowed' \in BOOLEAN
    /\ on' \in BOOLEAN /\ list' \in 0..MaxItems /\ mobile' \in BOOLEAN

\* A step that makes a new document keeps the invariant,
LEMMA NewPageKeeps ==
    ASSUME IInv, NEW f \in DOMAIN Tree, UpdateDoc(f), drag' = NoDrag, base' \in Pages,
           FlagsOK, on' = on
    PROVE  IInv'
<1>1. TypeOK
  BY DEF IInv
<1>2. /\ file' \in DOMAIN Tree /\ moved' \in [Nodes' -> Int] /\ items' \in Nat
      /\ doc' \in Nat \ {0} /\ parents' \in Nat /\ cache' \in Nat
      /\ scroll' \in Nat /\ layout' = NoLayout
      /\ ring' = Focusable(file', on) /\ RingInv'
  BY <1>1, NewPage
<1>3. PageType'
  BY <1>2 DEF PageType, FlagsOK
<1>4. ViewType'
  BY <1>1, <1>2 DEF ViewType, FlagsOK, TypeOK
<1>5. LayoutInv' /\ DragInv' /\ FrameInv'
  BY <1>2 DEF LayoutInv, DragInv, FrameInv
<1>6. RingFresh'
  BY <1>2 DEF RingFresh
<1> QED
  BY <1>2, <1>3, <1>4, <1>5, <1>6 DEF IInv, TypeOK

\* and so does one that stays on the page, if the ring becomes no older than it is.
LEMMA SamePageKeeps ==
    ASSUME IInv, FlagsOK, UNCHANGED <<file, doc, parents, ring, layout>>,
           base' \in Pages, items' \in Nat, cache' \in Nat,
           moved' \in [Nodes -> Int], scroll' \in Nat,
           focus' \in ring \/ focus' = focus,
           DragInv',
           ~needs' /\ ~notice' /\ ~unseen' => on' = on /\ ~needs /\ ~notice /\ ~unseen
    PROVE  IInv'
<1>1. TypeOK /\ PageType /\ ViewType /\ RingInv /\ LayoutInv /\ FrameInv /\ RingFresh
  BY DEF IInv, TypeOK
<1>2. Nodes' = Nodes
  BY DEF Nodes, t
<1>3. PageType'
  BY <1>1, <1>2 DEF PageType, FlagsOK
<1>4. ViewType'
  BY <1>1 DEF ViewType, FlagsOK
<1>5. RingInv'
  BY <1>1, <1>2 DEF RingInv
<1>6. LayoutInv'
  BY <1>1 DEF LayoutInv
<1>7. FrameInv'
  BY <1>1 DEF FrameInv, FlagsOK
<1>8. RingFresh'
  BY <1>1 DEF RingFresh
<1> QED
  BY <1>3, <1>4, <1>5, <1>6, <1>7, <1>8 DEF IInv, TypeOK

\* So it is with all that a target does.
LEMMA TargetKeepsInv ==
    ASSUME IInv, NEW act \in Acts, NEW to, Target(act, to),
           to # NoDrag => to.node \in Nodes /\ to.row \in Int /\ to.top \in Int,
           UNCHANGED view, UNCHANGED notice, UNCHANGED unseen,
           needs' \in BOOLEAN, left' \in 0..MaxInputs,
           ~needs' => ~needs /\ act = "none"
    PROVE  IInv'
<1>1. TypeOK /\ PageType /\ ViewType
  BY DEF IInv, TypeOK
<1>2. /\ mobile' = mobile /\ tokens' \in 0..Capacity /\ slowed' \in BOOLEAN
      /\ on' \in BOOLEAN /\ list' = list
      /\ act = "none" => NoPage /\ on' = on
      /\ \/ NoPage /\ drag' = to
         \/ /\ drag' = NoDrag /\ base' \in Pages /\ on' = on
            /\ \E f \in DOMAIN Tree : UpdateDoc(f)
  BY <1>1, TargetCases
<1>3. FlagsOK
  BY <1>1, <1>2 DEF FlagsOK, view, ViewType, PageType
<1>4. CASE NoPage /\ drag' = to
  <2>1. /\ UNCHANGED <<file, doc, parents, ring, layout>>
        /\ base' \in Pages /\ items' \in Nat /\ cache' \in Nat
        /\ moved' \in [Nodes -> Int] /\ scroll' \in Nat /\ focus' = focus
    BY <1>1, <1>4 DEF NoPage, PageType, ViewType
  <2>2. DragInv'
    BY <1>4, <2>1 DEF DragInv, Nodes, t
  <2>3. ~needs' /\ ~notice' /\ ~unseen' => on' = on /\ ~needs /\ ~notice /\ ~unseen
    BY <1>2
  <2> QED
    BY <1>3, <2>1, <2>2, <2>3, SamePageKeeps
<1>5. CASE /\ drag' = NoDrag /\ base' \in Pages /\ on' = on
           /\ \E f \in DOMAIN Tree : UpdateDoc(f)
  BY <1>3, <1>5, NewPageKeeps
<1> QED
  BY <1>2, <1>4, <1>5

\* The loop starts with a page that has no layout yet.
LEMMA InitIInv == Init => IInv
<1> SUFFICES ASSUME Init
             PROVE  IInv
  OBVIOUS
<1>1. file \in DOMAIN Tree
  BY InteractionAssumption DEF Init
<1>2. PageType
  <2>1. moved \in [Nodes -> Int]
    BY DEF Init
  <2>2. base \in Pages /\ mobile \in BOOLEAN
    BY InteractionAssumption DEF Init
  <2>5. list \in 0..MaxItems /\ on \in BOOLEAN
    BY DEF Init
  <2>3. items \in Nat /\ doc \in Nat \ {0} /\ parents \in Nat
    BY InteractionAssumption DEF Init
  <2>4. cache \in Nat
    BY DEF Init
  <2> QED
    BY <1>1, <2>1, <2>2, <2>3, <2>4, <2>5 DEF PageType
<1>3. ViewType
  <2>1. anchor = 0 /\ scroll = 0 /\ total = 0 /\ rows \in Heights
    BY DEF Init
  <2>2. needs = TRUE /\ notice = FALSE /\ unseen = FALSE /\ slowed = FALSE
    BY DEF Init
  <2>3. tokens \in 0..Capacity /\ left \in 0..MaxInputs
    BY InteractionAssumption DEF Init
  <2> QED
    BY <2>1, <2>2, <2>3 DEF ViewType
<1>4. RingInv
  <2>1. ring \subseteq Nodes /\ ring \subseteq Nat
    BY <1>1, FocusFacts DEF Init, Nodes, t
  <2>2. focus = Refocused(0, ring)
    BY DEF Init
  <2> QED
    BY <2>1, <2>2, RefocusedFacts DEF RingInv
<1>5. LayoutInv /\ DragInv /\ FrameInv /\ RingFresh
  BY DEF Init, LayoutInv, DragInv, FrameInv, RingFresh
<1> QED
  BY <1>2, <1>3, <1>4, <1>5 DEF IInv, TypeOK

\* Inputs run out.
LEMMA InputLeft ==
    ASSUME TypeOK, Input
    PROVE  left' \in 0..MaxInputs
BY InteractionAssumption DEF TypeOK, ViewType, Input

\* An event that only asks for a frame.
LEMMA FlagsKept ==
    ASSUME TypeOK, Input, needs' \in BOOLEAN, unseen' \in BOOLEAN, on' \in BOOLEAN,
           UNCHANGED <<anchor, total, frame, rows, notice, tokens, slowed, list, mobile>>
    PROVE  FlagsOK
BY InputLeft DEF FlagsOK, TypeOK, PageType, ViewType

\* Keys
LEMMA NavKeeps ==
    ASSUME IInv, NEW forward \in BOOLEAN, Nav(forward)
    PROVE  IInv'
<1>1. TypeOK /\ PageType /\ ViewType /\ RingInv /\ DragInv
  BY DEF IInv, TypeOK
<1>2. ring \subseteq Nat /\ ring # {} /\ IsFiniteSet(ring) /\ ring \subseteq Int
  BY <1>1, NodesFacts, FS_Subset DEF Nav, RingInv, PageType, Nodes, t
<1>3. focus' \in ring
  <2> DEFINE from == IF focus \in ring THEN focus ELSE Min(ring)
             after == {n \in ring : n > from}
             before == {n \in ring : n < from}
  <2>1. focus' = IF forward THEN IF after # {} THEN Min(after) ELSE Min(ring)
                            ELSE IF before # {} THEN Max(before) ELSE Max(ring)
    BY DEF Nav
  <2>2. after \subseteq ring /\ before \subseteq ring
    OBVIOUS
  <2> HIDE DEF from, after, before
  <2>3. after # {} => Min(after) \in after
    BY <1>2, <2>2, MinNat
  <2>4. before # {} => Max(before) \in before
    <3>1. IsFiniteSet(before) /\ before \subseteq Int
      BY <1>2, <2>2, FS_Subset
    <3> QED
      BY <3>1, MaxInt
  <2>5. Min(ring) \in ring /\ Max(ring) \in ring
    BY <1>2, MinNat, MaxInt
  <2> QED
    BY <2>1, <2>2, <2>3, <2>4, <2>5
<1>4. /\ needs' = TRUE
      /\ UNCHANGED <<file, doc, parents, ring, layout, base, items, cache, moved, scroll, drag, on,
                     anchor, total, frame, rows, notice, tokens, slowed, list, mobile, unseen>>
  BY DEF Nav, document, rest, state, view, bucket
<1>7. FlagsOK
  BY <1>1, <1>4, FlagsKept DEF Nav, PageType, ViewType
<1>5. /\ base' \in Pages /\ items' \in Nat /\ cache' \in Nat
      /\ moved' \in [Nodes -> Int] /\ scroll' \in Nat
  BY <1>1, <1>4 DEF PageType, ViewType
<1>6. DragInv'
  BY <1>1, <1>4 DEF DragInv, Nodes, t
<1> QED
  BY <1>3, <1>4, <1>5, <1>6, <1>7, SamePageKeeps

\* Enter does what the focused node asks for.
LEMMA EnterKeeps ==
    ASSUME IInv, Enter
    PROVE  IInv'
<1>1. TypeOK /\ PageType /\ ViewType /\ RingInv /\ DragInv
  BY DEF IInv, TypeOK
<1>2. Action(focus) \in Acts
  BY <1>1, ActionType DEF RingInv, PageType
<1>3. /\ Target(Action(focus), drag) /\ left' \in 0..MaxInputs
      /\ UNCHANGED view /\ UNCHANGED notice /\ UNCHANGED unseen
  BY <1>1, InputLeft DEF Enter
<1>4. needs' \in BOOLEAN /\ (~needs' => ~needs /\ Action(focus) = "none")
  BY DEF Enter
<1> QED
  BY <1>1, <1>2, <1>3, <1>4, TargetKeepsInv DEF DragInv

\* A keystroke in an input changes the state, and the nodes that can have the focus
\* with it, if a render follows.
LEMMA TypeKeeps ==
    ASSUME IInv, Type
    PROVE  IInv'
<1>1. TypeOK /\ PageType /\ ViewType /\ RingInv /\ DragInv
  BY DEF IInv, TypeOK
<1>2. on' \in BOOLEAN /\ (~Editing => on' = on)
  BY <1>1 DEF Type, PageType
<1>3. PICK allowed \in BOOLEAN : /\ needs' = (needs \/ allowed)
                                 /\ unseen' = (unseen \/ (Editing /\ ~allowed))
  BY DEF Type
<1>4. /\ needs' \in BOOLEAN /\ unseen' \in BOOLEAN
      /\ ~needs' /\ ~unseen' => ~needs /\ ~unseen /\ ~Editing
  BY <1>3
<1>5. UNCHANGED <<file, doc, parents, ring, layout, base, items, cache, moved, scroll,
                  drag, focus, notice, mobile, list, anchor, total, frame, rows, tokens, slowed>>
  BY DEF Type, page, document, view, bucket
<1>6. FlagsOK
  BY <1>1, <1>2, <1>4, <1>5, FlagsKept DEF Type
<1>7. /\ base' \in Pages /\ items' \in Nat /\ cache' \in Nat
      /\ moved' \in [Nodes -> Int] /\ scroll' \in Nat
  BY <1>1, <1>5 DEF PageType, ViewType
<1>8. DragInv'
  BY <1>1, <1>5 DEF DragInv, Nodes, t
<1>9. ~needs' /\ ~notice' /\ ~unseen' => on' = on /\ ~needs /\ ~notice /\ ~unseen
  BY <1>2, <1>4, <1>5
<1> QED
  BY <1>5, <1>6, <1>7, <1>8, <1>9, SamePageKeeps

\* Scrolling
LEMMA ScrollsNat ==
    ASSUME TypeOK
    PROVE  /\ View(total, rows) \in Nat /\ MaxScroll \in Nat
           /\ \A step \in Nat : /\ Min({scroll + step, MaxScroll}) \in Nat
                                /\ Less(scroll, step) \in Nat
<1>1. scroll \in Nat /\ total \in Nat /\ rows \in Heights
  BY DEF TypeOK, ViewType
<1>2. View(total, rows) \in Nat
  BY <1>1, ViewNat
<1>3. MaxScroll \in Nat
  BY <1>1, <1>2 DEF MaxScroll, Less
<1>4. ASSUME NEW step \in Nat
      PROVE  Min({scroll + step, MaxScroll}) \in Nat /\ Less(scroll, step) \in Nat
  <2>1. scroll + step \in Int /\ MaxScroll \in Int
    BY <1>1, <1>3
  <2>2. Min({scroll + step, MaxScroll}) = IF scroll + step <= MaxScroll THEN scroll + step ELSE MaxScroll
    BY <2>1, MinOfTwo
  <2> QED
    BY <1>1, <1>3, <2>2 DEF Less
<1> QED
  BY <1>2, <1>3, <1>4

\* Scrolling disturbs nothing but the offset.
LEMMA ScrollKeeps ==
    ASSUME IInv, NEW down \in BOOLEAN, PageKey(down) \/ Wheel(down)
    PROVE  IInv'
<1>1. TypeOK /\ PageType /\ ViewType /\ RingInv /\ DragInv
  BY DEF IInv, TypeOK
<1>2. scroll' \in Nat
  <2>1. CASE PageKey(down)
    BY <1>1, <2>1, ScrollsNat DEF PageKey
  <2>2. CASE Wheel(down)
    <3>1. WHEEL_LINE_STEP \in Nat
      BY DEF WHEEL_LINE_STEP
    <3> QED
      BY <1>1, <2>2, <3>1, ScrollsNat DEF Wheel, ViewType
  <2> QED
    BY <2>1, <2>2
<1>3. /\ Input /\ needs' = TRUE
      /\ UNCHANGED <<file, doc, parents, ring, layout, base, items, cache, moved, focus, drag, on,
                     anchor, total, frame, rows, notice, tokens, slowed, list, mobile, unseen>>
  BY DEF PageKey, Wheel, document, rest, state, view, bucket
<1>6. FlagsOK
  BY <1>1, <1>3, FlagsKept DEF PageType, ViewType
<1>4. base' \in Pages /\ items' \in Nat /\ cache' \in Nat /\ moved' \in [Nodes -> Int]
  BY <1>1, <1>3 DEF PageType
<1>5. DragInv'
  BY <1>1, <1>3 DEF DragInv, Nodes, t
<1> QED
  BY <1>2, <1>3, <1>4, <1>5, <1>6, SamePageKeeps

\* Pointer
LEMMA PressKeeps ==
    ASSUME IInv, NEW r \in Nat, Press(r)
    PROVE  IInv'
<1> DEFINE y == Pointed(r)
           n == Hit(y)
           d == Draggable(n)
           began == IF d = 0 THEN drag
                    ELSE [doc |-> doc, node |-> d, row |-> y,
                          top |-> IF moved[d] >= 0 THEN moved[d] ELSE layout.top[d]]
<1>1. TypeOK /\ PageType /\ ViewType /\ RingInv /\ DragInv /\ LayoutInv
  BY DEF IInv, TypeOK
<1>2. /\ Target(Action(n), began) /\ Input /\ needs' = TRUE
      /\ UNCHANGED view /\ UNCHANGED notice /\ UNCHANGED unseen
  BY DEF Press
<1>3. n \in Nodes \cup {0} /\ (n # 0 => layout # NoLayout /\ n \in DOMAIN layout.top)
  BY <1>1, HitType
<1>4. Action(n) \in Acts
  BY <1>1, <1>3, ActionType DEF PageType
<1>5. d = 0 \/ (n # 0 /\ d \in Up(file, n))
  BY <1>1, <1>3, DraggableType DEF PageType
<1>6. y \in Nat
  BY <1>1, PointedNat
<1> HIDE DEF n, y, d
<1>7. d # 0 => d \in Nodes /\ layout.top[d] \in Nat
  <2>1. SUFFICES ASSUME d # 0
                 PROVE  d \in Nodes /\ layout.top[d] \in Nat
    OBVIOUS
  <2>2. layout # NoLayout /\ n \in DOMAIN layout.top /\ d \in Up(file, n)
    BY <1>3, <1>5, <2>1
  <2>3. PICK o \in BOOLEAN : layout.top \in [Shown(file, o) -> Nat]
    BY <1>1, <2>2 DEF LayoutInv
  <2>4. n \in Shown(file, o)
    BY <2>2, <2>3
  <2>5. d \in Shown(file, o) /\ Shown(file, o) \subseteq Nodes
    BY <1>1, <2>2, <2>4, ShownFacts DEF PageType, Nodes, t
  <2> QED
    BY <2>3, <2>5
<1>8. began # NoDrag => began.node \in Nodes /\ began.row \in Int /\ began.top \in Int
  <2>1. CASE d = 0
    BY <1>1, <2>1 DEF DragInv
  <2>2. CASE d # 0
    <3>1. d \in Nodes /\ layout.top[d] \in Nat /\ moved[d] \in Int
      BY <1>1, <1>7, <2>2 DEF PageType
    <3> QED
      BY <1>6, <2>2, <3>1
  <2> QED
    BY <2>1, <2>2
<1> HIDE DEF began
<1>9. left' \in 0..MaxInputs /\ needs' \in BOOLEAN
  BY <1>1, <1>2, InputLeft
<1> QED
  BY <1>2, <1>4, <1>8, <1>9, TargetKeepsInv

\* A drag moves its node, and asks for a render.
LEMMA MoveKeeps ==
    ASSUME IInv, NEW r \in Nat, Move(r)
    PROVE  IInv'
<1>1. TypeOK /\ PageType /\ ViewType /\ RingInv /\ DragInv
  BY DEF IInv, TypeOK
<1>2. Pointed(r) \in Nat
  BY <1>1, PointedNat
<1>3. moved' \in [Nodes -> Int] /\ needs' \in BOOLEAN /\ (~needs' => ~needs)
  <2>1. CASE drag # NoDrag
    <3>1. 0 \in Int /\ drag.top + Pointed(r) - drag.row \in Int
      BY <1>1, <1>2, <2>1 DEF DragInv
    <3>2. Max({0, drag.top + Pointed(r) - drag.row}) \in Int
      BY <3>1, MaxOfTwo
    <3> QED
      BY <1>1, <2>1, <3>2 DEF Move, PageType
  <2>2. CASE drag = NoDrag
    <3>1. PICK allowed \in BOOLEAN : needs' = (needs \/ allowed)
      BY <2>2 DEF Move
    <3>2. moved' = moved
      BY <2>2 DEF Move
    <3> QED
      BY <1>1, <3>1, <3>2 DEF PageType
  <2> QED
    BY <2>1, <2>2
<1>4. /\ Input
      /\ UNCHANGED <<file, doc, parents, ring, layout, base, items, cache, scroll, focus, drag, on,
                     anchor, total, frame, rows, notice, tokens, slowed, list, mobile, unseen>>
  BY DEF Move, document, rest, state, view, bucket
<1>5. FlagsOK
  BY <1>1, <1>3, <1>4, FlagsKept DEF PageType, ViewType
<1>6. base' \in Pages /\ items' \in Nat /\ cache' \in Nat /\ scroll' \in Nat
  BY <1>1, <1>4 DEF PageType, ViewType
<1>7. DragInv'
  BY <1>1, <1>4 DEF DragInv, Nodes, t
<1> QED
  BY <1>3, <1>4, <1>5, <1>6, <1>7, SamePageKeeps

\* The end of a drag does what the node asks for.
LEMMA ReleaseKeeps ==
    ASSUME IInv, Release
    PROVE  IInv'
<1>1. TypeOK /\ PageType /\ DragInv
  BY DEF IInv, TypeOK
<1>2. /\ Target(t[drag.node].end, NoDrag) /\ Input /\ needs' = TRUE /\ drag # NoDrag
      /\ UNCHANGED view /\ UNCHANGED notice /\ UNCHANGED unseen
  BY DEF Release
<1>3. t[drag.node] \in NodeType
  BY <1>1, <1>2, NodesFacts DEF DragInv, PageType, Nodes, t
<1>4. t[drag.node].end \in Acts
  BY <1>3 DEF NodeType
<1>5. left' \in 0..MaxInputs /\ needs' \in BOOLEAN
  BY <1>1, <1>2, InputLeft
<1> QED
  BY <1>2, <1>4, <1>5, TargetKeepsInv

\* Events of others
LEMMA PatchesKeep ==
    ASSUME IInv, Patch \/ Patched
    PROVE  IInv'
<1>1. TypeOK /\ PageType /\ ViewType /\ DragInv
  BY DEF IInv, TypeOK
<1>2. /\ UNCHANGED <<file, doc, parents, ring, layout, base, moved, scroll, focus, drag,
                     anchor, total, frame, rows, tokens, slowed, mobile, unseen>>
      /\ on' \in BOOLEAN /\ list' \in 0..MaxItems
  BY <1>1 DEF Patch, Patched, page, document, state, view, bucket, PageType
<1>3. needs' \in BOOLEAN /\ notice' \in BOOLEAN /\ (notice' \/ needs')
  <2>1. CASE Patch
    BY <1>1, <2>1 DEF Patch, ViewType
  <2>2. CASE Patched
    BY <2>2 DEF Patched
  <2> QED
    BY <2>1, <2>2
<1>4. left' \in 0..MaxInputs
  BY <1>1, InputLeft DEF Patch, Patched, ViewType
<1>5. items' \in Nat /\ cache' \in Nat
  BY <1>1, InteractionAssumption DEF Patch, Patched, page, document, PageType
<1>6. FlagsOK
  BY <1>1, <1>2, <1>3, <1>4 DEF FlagsOK, PageType, ViewType
<1>7. base' \in Pages /\ moved' \in [Nodes -> Int] /\ scroll' \in Nat
  BY <1>1, <1>2 DEF PageType, ViewType
<1>8. DragInv'
  BY <1>1, <1>2 DEF DragInv, Nodes, t
<1> QED
  BY <1>2, <1>3, <1>5, <1>6, <1>7, <1>8, SamePageKeeps

\* A load from the history or from a change of the viewport.
LEMMA LoadKeepsInv ==
    ASSUME IInv, NEW p \in Pages, mobile' \in BOOLEAN, Input, Load(p, drag),
           needs' \in BOOLEAN, ~needs' => ~needs,
           UNCHANGED <<state, view, notice, unseen>>
    PROVE  IInv'
<1>1. TypeOK /\ PageType /\ ViewType /\ DragInv
  BY DEF IInv, TypeOK
<1>2. /\ tokens' \in 0..Capacity /\ slowed' \in BOOLEAN
      /\ \/ NoPage /\ drag' = drag
         \/ /\ drag' = NoDrag /\ base' \in Pages
            /\ \E f \in DOMAIN Tree : UpdateDoc(f)
  BY <1>1, LoadCases
<1>3. UNCHANGED <<on, list, anchor, total, rows, frame, notice, unseen>>
  BY DEF state, view
<1>4. FlagsOK
  BY <1>1, <1>2, <1>3, InputLeft DEF FlagsOK, ViewType, PageType
<1>5. CASE NoPage /\ drag' = drag
  <2>1. /\ UNCHANGED <<file, doc, parents, ring, layout>>
        /\ base' \in Pages /\ items' \in Nat /\ cache' \in Nat
        /\ moved' \in [Nodes -> Int] /\ scroll' \in Nat /\ focus' = focus
    BY <1>1, <1>5 DEF NoPage, PageType, ViewType
  <2>2. DragInv'
    BY <1>1, <1>5, <2>1 DEF DragInv, Nodes, t
  <2> QED
    BY <1>3, <1>4, <2>1, <2>2, SamePageKeeps
<1>6. CASE /\ drag' = NoDrag /\ base' \in Pages
           /\ \E f \in DOMAIN Tree : UpdateDoc(f)
  BY <1>3, <1>4, <1>6, NewPageKeeps
<1> QED
  BY <1>2, <1>5, <1>6

\* NavigateTo ends a drag only if it finds its page, as does a change of the viewport.
LEMMA HistoryKeeps ==
    ASSUME IInv,
           \/ \E p \in Pages : NavigateTo(p)
           \/ \E m \in BOOLEAN : SwitchViewport(m)
    PROVE  IInv'
<1>1. TypeOK /\ PageType /\ ViewType
  BY DEF IInv, TypeOK
<1>2. CASE \E p \in Pages : NavigateTo(p)
  <2>1. PICK p \in Pages : NavigateTo(p)
    BY <1>2
  <2>2. needs' = (needs \/ tokens > 0)
    BY <2>1 DEF NavigateTo
  <2>3. needs' \in BOOLEAN /\ (~needs' => ~needs)
    BY <2>2
  <2> QED
    BY <1>1, <2>1, <2>3, LoadKeepsInv DEF NavigateTo, PageType
<1>3. CASE \E m \in BOOLEAN : SwitchViewport(m)
  <2>1. PICK m \in BOOLEAN : SwitchViewport(m)
    BY <1>3
  <2>2. needs' = (needs \/ tokens > 0)
    BY <2>1 DEF SwitchViewport
  <2>3. needs' \in BOOLEAN /\ (~needs' => ~needs)
    BY <2>2
  <2> QED
    BY <1>1, <2>1, <2>3, LoadKeepsInv DEF SwitchViewport, PageType
<1> QED
  BY <1>2, <1>3

\* A file that has changed is loaded again, whatever the throttle says.
LEMMA ReloadKeeps ==
    ASSUME IInv, Reload
    PROVE  IInv'
<1>1. TypeOK /\ PageType /\ ViewType
  BY DEF IInv, TypeOK
<1>2. /\ UpdateDoc(file) /\ drag' = NoDrag /\ Input /\ needs' = TRUE
      /\ UNCHANGED <<base, mobile, on, list, anchor, total, rows, frame, notice, tokens, slowed, unseen>>
  BY DEF Reload, state, view, bucket
<1>3. FlagsOK
  BY <1>1, <1>2, FlagsKept DEF PageType, ViewType
<1> QED
  BY <1>1, <1>2, <1>3, NewPageKeeps DEF PageType

\* Time and the terminal
LEMMA OthersKeep ==
    ASSUME IInv, (\E h \in Heights : Resize(h)) \/ Refill \/ Tick \/ UNCHANGED vars
    PROVE  IInv'
<1>1. TypeOK /\ PageType /\ ViewType /\ DragInv
  BY DEF IInv, TypeOK
<1>2. UNCHANGED <<file, doc, parents, ring, layout, base, items, cache, moved, scroll, focus, drag,
                  on, list, mobile, anchor, total, frame, notice, unseen>>
  BY DEF Resize, Refill, Tick, vars, page, document, rest, state, view
<1>3. rows' \in Heights /\ needs' \in BOOLEAN /\ (~needs' => ~needs)
  <2>1. CASE \E h \in Heights : Resize(h)
    BY <2>1 DEF Resize
  <2>2. CASE Refill \/ Tick \/ UNCHANGED vars
    BY <1>1, <2>2 DEF Refill, Tick, vars, rest, view, ViewType
  <2> QED
    BY <2>1, <2>2
<1>4. tokens' \in 0..Capacity /\ slowed' \in BOOLEAN
  BY <1>1, InteractionAssumption DEF Resize, Refill, Tick, vars, rest, bucket, ViewType
<1>5. left' \in 0..MaxInputs
  BY <1>1, InputLeft DEF Resize, Refill, Tick, vars, ViewType
<1>6. FlagsOK
  BY <1>1, <1>2, <1>3, <1>4, <1>5 DEF FlagsOK, PageType, ViewType
<1>7. /\ base' \in Pages /\ items' \in Nat /\ cache' \in Nat
      /\ moved' \in [Nodes -> Int] /\ scroll' \in Nat
  BY <1>1, <1>2 DEF PageType, ViewType
<1>8. DragInv'
  BY <1>1, <1>2 DEF DragInv, Nodes, t
<1> QED
  BY <1>2, <1>3, <1>6, <1>7, <1>8, SamePageKeeps

\* Where a render scrolls to.
LEMMA ScrolledTo ==
    ASSUME TypeOK, Render
    PROVE  /\ layout' = Layout /\ total' = Layout.total
           /\ View(Layout.total, rows) \in Nat
           /\ Autoscroll(Layout, focus', View(Layout.total, rows)) \in Nat
           /\ Less(Layout.total, View(Layout.total, rows)) \in Nat
           /\ scroll' = LET to == Autoscroll(Layout, focus', View(Layout.total, rows))
                            end == Less(Layout.total, View(Layout.total, rows))
                        IN  IF to <= end THEN to ELSE end
<1> DEFINE l == Layout
           v == View(Layout.total, rows)
<1>1. /\ layout' = l /\ total' = l.total
      /\ scroll' = Min({Autoscroll(l, focus', v), Less(l.total, v)})
  BY DEF Render
<1>2. PageType /\ ViewType
  BY DEF TypeOK
<1>3. /\ l.top \in [Shown(file, on) -> Nat] /\ l.high \in [Shown(file, on) -> Nat]
      /\ l.total \in Nat
  BY <1>2, LayoutFacts
<1> HIDE DEF l
<1>4. v \in Nat
  BY <1>2, <1>3, ViewNat DEF ViewType, l
<1> HIDE DEF v
<1>5. Autoscroll(l, focus', v) \in Nat
  BY <1>2, <1>3, <1>4 DEF Autoscroll, Less, ViewType
<1>6. Less(l.total, v) \in Nat
  BY <1>3, <1>4 DEF Less
<1>7. scroll' = IF Autoscroll(l, focus', v) <= Less(l.total, v)
                THEN Autoscroll(l, focus', v) ELSE Less(l.total, v)
  BY <1>1, <1>5, <1>6, MinOfTwo
<1> QED
  BY <1>1, <1>4, <1>5, <1>6, <1>7 DEF l, v

\* A render draws the layout that the events after it use, and brings the nodes that
\* can have the focus up to date.
LEMMA RenderKeeps ==
    ASSUME IInv, Render
    PROVE  IInv'
<1>1. TypeOK /\ PageType /\ ViewType /\ DragInv
  BY DEF IInv, TypeOK
<1>2. UNCHANGED <<file, base, mobile, items, doc, parents, cache, moved, on, list, rows, drag,
                  notice, tokens, slowed, left>>
  BY DEF Render, document, state, bucket
<1>3. /\ needs' = FALSE /\ unseen' = FALSE /\ anchor' = focus'
      /\ ring' = Focusable(file, on) /\ focus' = Refocused(focus, ring')
  BY DEF Render
<1>4. RingInv' /\ focus' \in Nat
  <2>1. ring' \subseteq Nodes' /\ ring' \subseteq Nat
    BY <1>1, <1>2, <1>3, FocusFacts DEF PageType, Nodes, t
  <2>2. focus' \in ring' \/ (focus' = 0 /\ ring' = {})
    BY <1>3, <2>1, RefocusedFacts
  <2>3. focus' \in Nat
    <3>1. ring' \subseteq Nat
      BY <2>1
    <3>2. CASE focus' \in ring'
      BY <3>1, <3>2
    <3>3. CASE focus' = 0
      BY <3>3
    <3> QED
      BY <2>2, <3>2, <3>3
  <2>4. RingInv'
    BY <2>1, <2>2 DEF RingInv
  <2> QED
    BY <2>3, <2>4
<1>5. /\ Layout.top \in [Shown(file, on) -> Nat]
      /\ Layout.high \in [Shown(file, on) -> Nat]
      /\ Layout.total \in Nat /\ Layout.doc = doc
  BY <1>1, LayoutFacts
<1>6. /\ layout' = Layout /\ total' = Layout.total /\ scroll' \in Nat
      /\ scroll' <= Less(Layout.total, View(Layout.total, rows))
      /\ Less(Layout.total, View(Layout.total, rows)) \in Nat
  BY <1>1, ScrolledTo
<1>7. frame' = [rows |-> rows, scroll |-> scroll', drawn |-> Drawn(layout', rows, scroll')]
  BY DEF Render
<1>8. PageType'
  BY <1>1, <1>2 DEF PageType, Nodes, t
<1>9. ViewType'
  BY <1>1, <1>2, <1>3, <1>4, <1>5, <1>6 DEF ViewType
<1>10. LayoutInv'
  BY <1>1, <1>2, <1>5, <1>6 DEF LayoutInv, PageType
<1>11. FrameInv'
  <2>1. /\ frame'.rows = rows /\ frame'.scroll = scroll'
        /\ frame'.drawn = Drawn(layout', frame'.rows, frame'.scroll)
    BY <1>7
  <2>2. frame'.scroll \in 0..Less(layout'.total, View(layout'.total, frame'.rows))
    BY <1>6, <2>1
  <2>3. frame'.rows \in Heights
    BY <1>1, <2>1 DEF ViewType
  <2> QED
    BY <2>1, <2>2, <2>3 DEF FrameInv
<1>12. DragInv'
  BY <1>1, <1>2 DEF DragInv, Nodes, t
<1>13. RingFresh'
  BY <1>2, <1>3 DEF RingFresh
<1> QED
  BY <1>4, <1>8, <1>9, <1>10, <1>11, <1>12, <1>13 DEF IInv, TypeOK

\* Every step keeps the invariant.
LEMMA NextKeepsIInv ==
    ASSUME IInv, [Next]_vars
    PROVE  IInv'
<1>1. ASSUME \E b \in BOOLEAN : Nav(b) \/ PageKey(b) \/ Wheel(b) \/ SwitchViewport(b)
      PROVE  IInv'
  BY <1>1, NavKeeps, ScrollKeeps, HistoryKeeps
<1>2. ASSUME Enter \/ Type
      PROVE  IInv'
  BY <1>2, EnterKeeps, TypeKeeps
<1>3. ASSUME \E r \in 1..Max(Heights) : Press(r) \/ Move(r)
      PROVE  IInv'
  BY <1>3, RowsNat, PressKeeps, MoveKeeps
<1>4. ASSUME Release \/ Patch \/ Patched \/ Reload
      PROVE  IInv'
  BY <1>4, ReleaseKeeps, PatchesKeep, ReloadKeeps
<1>5. ASSUME \E p \in Pages : NavigateTo(p)
      PROVE  IInv'
  BY <1>5, HistoryKeeps
<1>6. ASSUME (\E h \in Heights : Resize(h)) \/ Refill \/ Tick \/ UNCHANGED vars
      PROVE  IInv'
  BY <1>6, OthersKeep
<1>7. ASSUME Render
      PROVE  IInv'
  BY <1>7, RenderKeeps
<1> QED
  BY <1>1, <1>2, <1>3, <1>4, <1>5, <1>6, <1>7 DEF Next

\* The types, the layout that frames and clicks share, and the focus hold always.
THEOREM InteractionInvariance == Spec => []IInv
BY InitIInv, NextKeepsIInv, PTL DEF Spec

\* The state has its type: the focus is on a node that can have it, the layout and
\* the drag are of this document.
THEOREM InteractionType == Spec => []TypeOK
<1>1. IInv => TypeOK
  BY DEF IInv
<1> QED
  BY <1>1, InteractionInvariance, PTL

-----------------------------------------------------------------------------
(* The properties *)

\* When nothing is left to be done, the focus is on a node that is shown and can
\* be focused, or there is none (rebuild_focusable_nodes and all that calls it).
THEOREM FocusRests == Spec => []FocusAtRest
<1>1. IInv => FocusAtRest
  BY DEF IInv, TypeOK, RingInv, RingFresh, FocusAtRest, Focusable, t
<1> QED
  BY <1>1, InteractionInvariance, PTL

\* What a press hits is what the frame shows there: both take the last of the nodes
\* whose box holds the row, of the same layout.
LEMMA HitsDrawn ==
    ASSUME IInv
    PROVE  HitsWhatIsDrawn
<1>1. TypeOK /\ PageType /\ ViewType /\ LayoutInv /\ FrameInv
  BY DEF IInv, TypeOK
<1>2. SUFFICES ASSUME layout # NoLayout, scroll = frame.scroll, rows = frame.rows,
                      NEW r \in DOMAIN frame.drawn,
                      r - (Centering(layout, rows) - scroll) \in 0..(layout.total - 1)
               PROVE  LET shift == Centering(layout, rows) - scroll
                          shows == frame.drawn[r]
                          hit == Hit(Pointed(r + 1))
                      IN  \/ hit = shows
                          \/ (hit = 0 /\ t[shows].kind = "for" /\ r - shift > layout.top[shows])
  BY DEF HitsWhatIsDrawn
<1> DEFINE l == layout
           v == View(l.total, rows)
           c == Centering(l, rows)
           shift == c - scroll
           y == r - shift
           Drawn1(q) == {n \in DOMAIN l.top \ {1} : q \in (l.top[n] + shift)..(l.top[n] + l.high[n] + shift - 1)}
           over == {n \in DOMAIN l.top : n = 1 \/ y \in l.top[n]..(l.top[n] + l.high[n] - 1)}
<1>3. PICK o \in BOOLEAN : l.top \in [Shown(file, o) -> Nat] /\ l.high \in [Shown(file, o) -> Nat]
  BY <1>1, <1>2 DEF LayoutInv
<1>4. l.total \in Nat /\ rows \in Nat /\ scroll \in Nat /\ scroll <= Less(l.total, v)
  BY <1>1, <1>2, ViewNat DEF LayoutInv, FrameInv, ViewType
<1>5. frame.drawn = [q \in 0..(v - 1) |-> IF Drawn1(q) = {} THEN 1 ELSE Max(Drawn1(q))]
  BY <1>1, <1>2 DEF FrameInv, Drawn
<1>6. v \in Nat /\ c \in Nat /\ r \in 0..(v - 1) /\ frame.drawn[r] = IF Drawn1(r) = {} THEN 1 ELSE Max(Drawn1(r))
  <2>1. v \in Nat /\ c \in Nat
    BY <1>1, <1>4, ViewNat, CenteringNat DEF ViewType
  <2> HIDE DEF Drawn1, v
  <2> QED
    BY <2>1, <1>2, <1>5
<1>7. y \in 0..(l.total - 1)
  BY <1>2
<1>8. Pointed(r + 1) = y
  <2>1. Pointed(r + 1) = Less(Less(r + 1, c), 1) + scroll
    BY <1>2 DEF Pointed
  <2>2. CASE l.total >= rows
    <3>1. c = 0
      BY <1>4, <2>2 DEF Centering, Less
    <3> HIDE DEF c
    <3> QED
      BY <1>4, <1>6, <2>1, <3>1 DEF Less
  <2>3. CASE l.total < rows
    <3>1. v = rows
      BY <1>4, <2>3 DEF View
    <3>2. scroll = 0
      BY <1>4, <2>3, <3>1 DEF Less
    <3> HIDE DEF c, v
    <3> QED
      BY <1>4, <1>6, <1>7, <2>1, <3>2 DEF Less
  <2> QED
    BY <1>4, <2>2, <2>3
<1>9. over = {1} \cup Drawn1(r)
  <2>1. 1 \in DOMAIN l.top
    BY <1>1, <1>3, ShownFacts DEF PageType
  <2>2. ASSUME NEW n \in DOMAIN l.top
        PROVE  y \in l.top[n]..(l.top[n] + l.high[n] - 1)
               <=> r \in (l.top[n] + shift)..(l.top[n] + l.high[n] + shift - 1)
    <3>1. l.top[n] \in Nat /\ l.high[n] \in Nat
      BY <1>3
    <3> HIDE DEF c, l
    <3> QED
      BY <1>4, <1>6, <3>1
  <2> HIDE DEF y, shift
  <2> QED
    BY <2>1, <2>2
<1>10. Max(over) = frame.drawn[r]
  <2>1. over \subseteq Nodes /\ over # {} /\ Nodes \subseteq Nat \ {0}
    BY <1>1, <1>3, <1>9, ShownFacts, NodesFacts DEF PageType, Nodes, t
  <2>2. Max(over) \in over /\ \A k \in over : Max(over) >= k
    BY <1>1, <2>1, LastNode DEF PageType
  <2>3. CASE Drawn1(r) = {}
    <3> HIDE DEF Drawn1
    <3> QED
      BY <1>6, <1>9, <2>2, <2>3
  <2>4. CASE Drawn1(r) # {}
    <3>1. Drawn1(r) \subseteq over /\ 1 \notin Drawn1(r)
      BY <1>9
    <3> HIDE DEF Drawn1, over
    <3>2. Max(Drawn1(r)) \in Drawn1(r) /\ \A k \in Drawn1(r) : Max(Drawn1(r)) >= k
      BY <1>1, <2>1, <2>4, <3>1, LastNode DEF PageType
    <3>6. Max(Drawn1(r)) \in over /\ Max(Drawn1(r)) # 1
      BY <3>1, <3>2
    <3>7. Max(over) >= Max(Drawn1(r)) /\ Max(Drawn1(r)) \in Nat \ {0} /\ Max(over) \in Nat
      BY <2>1, <2>2, <3>6
    <3>3. Max(over) # 1
      BY <3>6, <3>7
    <3>4. Max(over) \in Drawn1(r)
      BY <1>9, <2>2, <3>3
    <3>5. Max(over) \in Nat /\ Max(Drawn1(r)) \in Nat
      BY <2>1, <2>2, <3>1, <3>2
    <3> QED
      BY <1>6, <2>2, <2>4, <3>1, <3>2, <3>4, <3>5
  <2> QED
    BY <2>3, <2>4
<1>11. Hit(y) = IF t[Max(over)].kind = "for" /\ y > l.top[Max(over)] THEN 0 ELSE Max(over)
  BY <1>2 DEF Hit
<1> HIDE DEF over, y
<1> QED
  BY <1>8, <1>10, <1>11 DEF y

\* A press on a row of the page as it is drawn hits the node that is drawn there
\* (handle_mouse_event's row, find_node and render_node, which do not share code).
THEOREM PressesHitWhatIsDrawn == Spec => []HitsWhatIsDrawn
BY HitsDrawn, InteractionInvariance, PTL

\* What a render does to the scroll offset.
LEMMA RenderReveals ==
    ASSUME IInv, Render
    PROVE  /\ focus' # anchor /\ focus' # 0
              => LET l == layout'
                     v == View(l.total, rows)
                 IN  l.high[focus'] <= v =>
                       /\ scroll' <= l.top[focus']
                       /\ l.top[focus'] + l.high[focus'] <= scroll' + v
           /\ focus' = anchor =>
                 scroll' = scroll \/ (scroll' < scroll /\ scroll' = Less(total', View(total', rows)))
<1> DEFINE l == Layout
           v == View(l.total, rows)
           n == focus'
<1>1. TypeOK /\ PageType /\ ViewType
  BY DEF IInv, TypeOK
<1>2. /\ layout' = l /\ total' = l.total /\ v \in Nat
      /\ Autoscroll(l, n, v) \in Nat /\ Less(l.total, v) \in Nat
      /\ scroll' = IF Autoscroll(l, n, v) <= Less(l.total, v)
                   THEN Autoscroll(l, n, v) ELSE Less(l.total, v)
  BY <1>1, ScrolledTo
<1>3. scroll \in Nat
  BY <1>1 DEF ViewType
<1>4. /\ l.top \in [Shown(file, on) -> Nat] /\ l.high \in [Shown(file, on) -> Nat]
      /\ l.total \in Nat
      /\ \A k \in Shown(file, on) \ {1} : l.top[k] + l.high[k] <= l.total
  BY <1>1, LayoutFacts
<1>5. n # 0 => n \in Shown(file, on) \ {1}
  <2>1. ring' = Focusable(file, on) /\ n = Refocused(focus, ring')
    BY DEF Render
  <2>2. /\ ring' \subseteq Nat /\ ring' \subseteq Shown(file, on) /\ 1 \notin ring'
    BY <1>1, <2>1, FocusFacts DEF PageType
  <2>3. n \in ring' \/ n = 0
    BY <2>1, <2>2, RefocusedFacts
  <2> QED
    BY <2>2, <2>3
<1> HIDE DEF l, v, n
<1>6. ASSUME n # anchor, n # 0, l.high[n] <= v
      PROVE  scroll' <= l.top[n] /\ l.top[n] + l.high[n] <= scroll' + v
  <2>1. n \in DOMAIN l.top /\ l.top[n] \in Nat /\ l.high[n] \in Nat /\ l.top[n] + l.high[n] <= l.total
    BY <1>4, <1>5, <1>6
  <2>2. Autoscroll(l, n, v) = IF l.top[n] < scroll THEN l.top[n]
                              ELSE IF l.top[n] + l.high[n] > scroll + v THEN Less(l.top[n] + l.high[n], v)
                              ELSE scroll
    BY <1>6, <2>1 DEF Autoscroll
  <2>3. /\ Autoscroll(l, n, v) <= l.top[n]
        /\ l.top[n] + l.high[n] <= Autoscroll(l, n, v) + v
    BY <1>2, <1>3, <1>6, <2>1, <2>2 DEF Less
  <2>4. l.total <= Less(l.total, v) + v
    BY <1>2, <1>4 DEF Less
  <2> QED
    BY <1>2, <1>4, <2>1, <2>3, <2>4
<1>7. ASSUME n = anchor
      PROVE  scroll' = scroll \/ (scroll' < scroll /\ scroll' = Less(l.total, v))
  <2>1. Autoscroll(l, n, v) = scroll
    BY <1>7 DEF Autoscroll
  <2> QED
    BY <1>2, <1>3, <2>1
<1> QED
  BY <1>2, <1>6, <1>7 DEF l, v, n

\* A frame after the focus has moved shows the whole of the focused node, if it
\* is not higher than the viewport (autoscroll_to_focused and the clamp after it).
THEOREM FocusIsRevealed == Spec => FocusRevealed
<1>1. IInv /\ [Next]_vars =>
        [Render /\ focus' # anchor /\ focus' # 0
         => LET l == layout'
                v == View(l.total, rows)
            IN  l.high[focus'] <= v =>
                  /\ scroll' <= l.top[focus']
                  /\ l.top[focus'] + l.high[focus'] <= scroll' + v]_vars
  BY RenderReveals
<1> QED
  BY <1>1, InteractionInvariance, PTL DEF Spec, FocusRevealed

\* A frame does not move what the user has scrolled to, unless the focus has moved
\* or the page has become shorter than that (autoscroll_anchor).
THEOREM ManualScrollKept == Spec => KeepsManualScroll
<1>1. IInv /\ [Next]_vars =>
        [Render /\ focus' = anchor =>
           scroll' = scroll \/ (scroll' < scroll /\ scroll' = Less(total', View(total', rows)))]_vars
  BY RenderReveals
<1> QED
  BY <1>1, InteractionInvariance, PTL DEF Spec, KeepsManualScroll

-----------------------------------------------------------------------------
(* One document: inductive by itself *)

\* A new document takes everything of the old one along, the drag excepted,
\* which its callers end.
LEMMA UpdateDocKeeps ==
    ASSUME NEW f, UpdateDoc(f), drag' = NoDrag
    PROVE  NothingOfTheOldPage'
BY DEF UpdateDoc, NothingOfTheOldPage

\* A load that is refused, or that finds no page, leaves all of it alone.
LEMMA NoPageKeeps ==
    ASSUME NothingOfTheOldPage, NoPage,
           drag' # NoDrag => drag'.doc = doc
    PROVE  NothingOfTheOldPage'
BY DEF NoPage, NothingOfTheOldPage

LEMMA LoadKeeps ==
    ASSUME NothingOfTheOldPage, NEW p, NEW to,
           to # NoDrag => to.doc = doc,
           Load(p, to)
    PROVE  NothingOfTheOldPage'
<1>1. CASE LoadPage(p) /\ drag' = NoDrag
  BY <1>1, UpdateDocKeeps DEF LoadPage
<1>2. CASE NoPage /\ drag' = to
  BY <1>2, NoPageKeeps
<1> QED
  BY <1>1, <1>2 DEF Load

LEMMA TargetKeeps ==
    ASSUME NothingOfTheOldPage, NEW act, NEW to,
           to # NoDrag => to.doc = doc,
           Target(act, to)
    PROVE  NothingOfTheOldPage'
<1>1. CASE Load(act, to)
  BY <1>1, LoadKeeps
<1>2. CASE NoPage /\ drag' = to
  BY <1>2, NoPageKeeps
<1> QED
  BY <1>1, <1>2 DEF Target

\* A step after which document, layout and drag are as they were.
LEMMA SameKeeps ==
    ASSUME NothingOfTheOldPage, UNCHANGED <<doc, parents, cache, layout, drag>>
    PROVE  NothingOfTheOldPage'
BY DEF NothingOfTheOldPage

LEMMA OldPageStep ==
    ASSUME NothingOfTheOldPage, [Next]_vars
    PROVE  NothingOfTheOldPage'
<1>1. ASSUME \/ \E b \in BOOLEAN : Nav(b) \/ PageKey(b) \/ Wheel(b)
             \/ Type \/ Patch \/ Refill \/ Tick
             \/ \E h \in Heights : Resize(h)
             \/ \E r \in 1..Max(Heights) : Move(r)
             \/ UNCHANGED vars
      PROVE  UNCHANGED <<doc, parents, cache, layout, drag>>
  BY <1>1 DEF Nav, PageKey, Wheel, Type, Patch, Refill, Tick, Resize, Move,
              vars, page, rest, document
<1>2. ASSUME Enter
      PROVE  NothingOfTheOldPage'
  <2>1. Target(Action(focus), drag)
    BY <1>2 DEF Enter
  <2> QED
    BY <2>1, TargetKeeps DEF NothingOfTheOldPage
<1>3. ASSUME NEW r, Press(r)
      PROVE  NothingOfTheOldPage'
  <2>1. PICK began : /\ began = drag \/ began.doc = doc
                     /\ \E n : Target(Action(n), began)
    BY <1>3 DEF Press
  <2> QED
    BY <2>1, TargetKeeps DEF NothingOfTheOldPage
<1>4. ASSUME Release
      PROVE  NothingOfTheOldPage'
  <2>1. Target(t[drag.node].end, NoDrag)
    BY <1>4 DEF Release
  <2> QED
    BY <2>1, TargetKeeps
<1>5. ASSUME NEW p, Load(p, drag)
      PROVE  NothingOfTheOldPage'
  BY <1>5, LoadKeeps DEF NothingOfTheOldPage
<1>6. ASSUME Reload
      PROVE  NothingOfTheOldPage'
  BY <1>6, UpdateDocKeeps DEF Reload
<1>7. ASSUME Patched
      PROVE  NothingOfTheOldPage'
  BY <1>7 DEF Patched, NothingOfTheOldPage
<1>8. ASSUME Render
      PROVE  NothingOfTheOldPage'
  <2>1. layout'.doc = doc
    BY <1>8 DEF Render, Layout
  <2>2. UNCHANGED <<doc, parents, cache, drag>>
    BY <1>8 DEF Render, document
  <2> QED
    BY <2>1, <2>2 DEF NothingOfTheOldPage
<1> QED
  BY <1>1, <1>2, <1>3, <1>4, <1>5, <1>6, <1>7, <1>8, SameKeeps
     DEF Next, NavigateTo, SwitchViewport

\* No event finds a layout, a drag, parents or templates of a page before
\* (update_doc, reset_layout_and_scroll and the ends of drags).
THEOREM PageIsOneDocument == Spec => []NothingOfTheOldPage
<1>1. Init => NothingOfTheOldPage
  BY DEF Init, NothingOfTheOldPage
<1> QED
  BY <1>1, OldPageStep, PTL DEF Spec

================================================================================
