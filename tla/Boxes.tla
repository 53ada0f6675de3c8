---------------------------------- MODULE Boxes ----------------------------------
(***************************************************************************)
(* LayoutEngine (oxiterm-renderer/src/layout/engine.rs, types.rs): the     *)
(* boxes of a styled document, the order in which they are painted, and    *)
(* the node under a point.                                                 *)
(*                                                                         *)
(* The engine maps every node's style for Taffy, the flexbox library, and  *)
(* measures wrapped text for it.  What Taffy makes of that is external,    *)
(* and given here for documents in which nothing has to grow or shrink,    *)
(* children are stretched or start at the edge, and a wrapped text in a    *)
(* row is alone there.                                                     *)
(*                                                                         *)
(* Definitions called ...Mutant are no part of the specification: each is  *)
(* a plausible bug that the properties of this module must detect.         *)
(***************************************************************************)
EXTENDS Markup, Cascade, FiniteSetsExt

CONSTANTS WideChars,   \* characters two columns wide
          ZeroWidth    \* and of no width at all

Endless == 65535       \* u16::MAX, the height of the root

\* UnicodeWidthCache::width
Width(c) == IF c \in WideChars THEN 2 ELSE IF c \in ZeroWidth THEN 0 ELSE 1

Columns(text) == FoldLeft(LAMBDA n, c : n + Width(c), 0, text)

Larger(a, b) == IF a > b THEN a ELSE b
Smaller(a, b) == IF a < b THEN a ELSE b

-----------------------------------------------------------------------------
(* Text *)

Pieces(text, separator) ==
    FoldLeft(LAMBDA pieces, c :
                IF c = separator THEN Append(pieces, << >>)
                                 ELSE [pieces EXCEPT ![Len(pieces)] = Append(@, c)],
             << << >> >>, text)

\* str::lines and split_whitespace; the texts of a document are trimmed.
Lines(text) == IF text = << >> THEN << >> ELSE Pieces(text, Newline)
Words(line) == SelectSeq(Pieces(line, Space), LAMBDA piece : piece # << >>)

Widest(texts) == Max({0} \cup {Columns(texts[i]) : i \in DOMAIN texts})

\* text_intrinsic_width and longest_word_width
IntrinsicWidth(text) == Widest(Lines(text))
LongestWord(text) == Max({0} \cup {Widest(Words(Lines(text)[i])) : i \in DOMAIN Lines(text)})

LineCountMutant(text, w) ==
    LET Step(acc, word) ==
            IF acc.lines > 0 /\ acc.width + Columns(word) <= w
              THEN [acc EXCEPT !.width = @ + 1 + Columns(word)]
              ELSE [lines |-> acc.lines + 1, width |-> Columns(word)]
        Of(line) == Larger(1, FoldLeft(Step, [lines |-> 0, width |-> 0], Words(line)).lines)
    IN  FoldLeft(LAMBDA n, line : n + Of(line), 0, Lines(text))

\* word_wrapped_line_count: a word goes on the line while it fits; a line
\* without words counts all the same.
LineCount(text, w) ==
    LET Step(acc, word) ==
            IF acc.lines > 0 /\ acc.width + 1 + Columns(word) <= w
              THEN [acc EXCEPT !.width = @ + 1 + Columns(word)]
              ELSE [lines |-> acc.lines + 1, width |-> Columns(word)]
        Of(line) == Larger(1, FoldLeft(Step, [lines |-> 0, width |-> 0], Words(line)).lines)
    IN  FoldLeft(LAMBDA n, line : n + Of(line), 0, Lines(text))

\* measure_wrap_text: the width that a text takes of the available one, and the
\* height that follows.
MeasuredWidth(text, available) ==
    Smaller(IntrinsicWidth(text), Larger(available, LongestWord(text)))
MeasuredHeight(text, w) ==
    Larger(1, IF w >= 1 THEN LineCount(text, w) ELSE Len(Lines(text)))

-----------------------------------------------------------------------------
(* The style that Taffy gets *)

HasText(node) == node.tag \in {"text", "button"} /\ node.text # << >>

\* Only a text that wraps is measured: it alone gets a MeasureContext.
Measured(node) == HasText(node) /\ node.tag = "text" /\ node.style.wrap = "word"

BorderOf(node) == IF node.style.border.on THEN 1 ELSE 0
PaddingX(node) == node.style.padding["left"] + node.style.padding["right"]
PaddingY(node) == node.style.padding["top"] + node.style.padding["bottom"]

\* map_style: a text or button that does not wrap is as large as its text; the
\* room for border and padding is added for buttons only.
MappedWidth(node) ==
    IF node.style.width = None /\ HasText(node) /\ ~Measured(node)
      THEN IntrinsicWidth(node.text) +
           IF node.tag = "button" THEN 2 * BorderOf(node) + PaddingX(node) ELSE 0
      ELSE node.style.width
MappedHeight(node) ==
    IF node.style.height = None /\ HasText(node) /\ ~Measured(node)
      THEN Larger(1, Len(Lines(node.text))) +
           IF node.tag = "button" THEN 2 * BorderOf(node) + PaddingY(node) ELSE 0
      ELSE node.style.height

\* evaluate_bind_show; a hidden node is Display::None.
Evaluates(condition, on) ==
    condition = "" \/ (condition = "on" /\ on) \/ (condition = "off" /\ ~on)

-----------------------------------------------------------------------------
(* Taffy *)

Shown(nodes, on) ==
    LET shown[n \in DOMAIN nodes] ==
            Evaluates(nodes[n].attrs.show, on) /\ (n = 1 \/ shown[nodes[n].parent])
    IN  {n \in DOMAIN nodes : shown[n]}

\* Sizes, and places relative to the parent's.
Flexbox(nodes, cols, on) ==
    LET shown == Shown(nodes, on)
        style(n) == nodes[n].style
        Flow(n) == {k \in shown \ {1} : nodes[k].parent = n /\ style(k).position # "absolute"}
        InFlow(n) == style(n).position # "absolute"
        column(n) == style(n).direction = "column"
        edgeX(n) == PaddingX(nodes[n]) + 2 * BorderOf(nodes[n])
        edgeY(n) == PaddingY(nodes[n]) + 2 * BorderOf(nodes[n])
        marginX(n) == style(n).margin["left"] + style(n).margin["right"]
        marginY(n) == style(n).margin["top"] + style(n).margin["bottom"]
        Total(S, f(_)) == MapThenSumSet(f, S)
        Most(S, f(_)) == Max({0} \cup {f(k) : k \in S})
        content[n \in shown] ==
            LET outer(k) == content[k] + marginX(k) IN
            IF MappedWidth(nodes[n]) # None THEN MappedWidth(nodes[n])
            ELSE IF Measured(nodes[n]) THEN edgeX(n) + IntrinsicWidth(nodes[n].text)
            ELSE edgeX(n) + IF column(n) THEN Most(Flow(n), outer) ELSE Total(Flow(n), outer)
        w[n \in shown] ==
            LET p == nodes[n].parent
                room == w[p] - edgeX(p) - marginX(n)
            IN  CASE n = 1 -> IF style(n).width # None THEN style(n).width ELSE cols
                  [] n # 1 /\ MappedWidth(nodes[n]) # None -> MappedWidth(nodes[n])
                  [] n # 1 /\ MappedWidth(nodes[n]) = None /\ Measured(nodes[n]) ->
                        edgeX(n) + MeasuredWidth(nodes[n].text, room - edgeX(n))
                  [] OTHER -> IF InFlow(n) /\ column(p) /\ style(p).align = "stretch"
                                THEN room ELSE content[n]
        tall[n \in shown] ==
            LET outer(k) == tall[k] + marginY(k) IN
            IF MappedHeight(nodes[n]) # None THEN MappedHeight(nodes[n])
            ELSE IF Measured(nodes[n]) THEN edgeY(n) + MeasuredHeight(nodes[n].text, w[n] - edgeX(n))
            ELSE edgeY(n) + IF column(n) THEN Total(Flow(n), outer) ELSE Most(Flow(n), outer)
        h[n \in shown] ==
            LET p == nodes[n].parent IN
            CASE n = 1 -> IF style(n).height # None THEN style(n).height ELSE Endless
              [] n # 1 /\ (MappedHeight(nodes[n]) # None \/ Measured(nodes[n])) -> tall[n]
              [] OTHER -> IF InFlow(n) /\ ~column(p) /\ style(p).align = "stretch"
                            THEN h[p] - edgeY(p) - marginY(n) ELSE tall[n]
        Before(n) == {k \in Flow(nodes[n].parent) : k < n}
        Inset(v) == IF v = None THEN 0 ELSE v
        x(n) ==
            LET p == nodes[n].parent
                start == BorderOf(nodes[p]) + style(n).margin["left"] + Inset(style(n).left)
            IN  CASE ~InFlow(n) /\ style(n).left # None -> start
                  [] InFlow(n) /\ ~column(p) ->
                        start + style(p).padding["left"] + Total(Before(n), LAMBDA k : w[k] + marginX(k))
                  [] OTHER -> start + style(p).padding["left"]
        y(n) ==
            LET p == nodes[n].parent
                start == BorderOf(nodes[p]) + style(n).margin["top"] + Inset(style(n).top)
            IN  CASE ~InFlow(n) /\ style(n).top # None -> start
                  [] InFlow(n) /\ column(p) ->
                        start + style(p).padding["top"] + Total(Before(n), LAMBDA k : h[k] + marginY(k))
                  [] OTHER -> start + style(p).padding["top"]
    IN  [n \in shown |-> [x |-> IF n = 1 THEN 0 ELSE x(n), y |-> IF n = 1 THEN 0 ELSE y(n),
                          w |-> w[n], h |-> h[n]]]

-----------------------------------------------------------------------------
(* The engine's result *)

\* max(0.0) as u16: what is less than nothing is nothing.
Clamped(v) == IF v \in Nat THEN v ELSE 0

\* flatten_layout_recursive: a fixed node starts anew at the origin.
Rects(nodes, local) ==
    LET fixed(n) == n = 1 \/ nodes[n].style.position = "fixed"
        rect[n \in DOMAIN local] ==
            [x |-> Clamped(local[n].x) + IF fixed(n) THEN 0 ELSE rect[nodes[n].parent].x,
             y |-> Clamped(local[n].y) + IF fixed(n) THEN 0 ELSE rect[nodes[n].parent].y,
             w |-> Clamped(local[n].w), h |-> Clamped(local[n].h)]
    IN  rect

\* The elements of S, each of them under the next.
Sorted(S, Under(_, _)) ==
    CHOOSE s \in [1..Cardinality(S) -> S] :
       \A i, j \in 1..Cardinality(S) : i < j => Under(s[i], s[j])

\* collect_paint_order_recursive: siblings by z-index, then as they stand.
PaintOrder(nodes, shown) ==
    LET z(n) == nodes[n].style.z
        Under(a, b) == z(a) < z(b) \/ (z(a) = z(b) /\ a < b)
        order[n \in shown] ==
            LET kids == Sorted({k \in shown : nodes[k].parent = n}, Under)
            IN  << n >> \o FlattenSeq([i \in DOMAIN kids |-> order[kids[i]]])
    IN  order[1]

\* The rectangles, their order and their height together.
Layout(nodes, rects) ==
    LET scrolling == {n \in DOMAIN rects \ {1} : nodes[n].style.position # "fixed"}
    IN  [rects |-> rects,
         order |-> PaintOrder(nodes, DOMAIN rects),
         total |-> Max({0} \cup {rects[n].y + rects[n].h : n \in scrolling})]

\* compute
Compute(nodes, cols, on) == Layout(nodes, Rects(nodes, Flexbox(nodes, cols, on)))

\* get_centering_offset
CenteringOffset(nodes, layout, cols, rows) ==
    LET kids == {n \in DOMAIN nodes : nodes[n].parent = 1}
        target == IF kids = {} THEN 1 ELSE Min(kids)
        w == IF target \in DOMAIN layout.rects THEN layout.rects[target].w ELSE cols
    IN  << Larger(cols - w, 0) \div 2, Larger(rows - layout.total, 0) \div 2 >>

Contains2D(rect, x, y) ==
    x >= rect.x /\ x < rect.x + rect.w /\ y >= rect.y /\ y < rect.y + rect.h

FindNodeMutant(layout, x, y) ==
    LET i == SelectInSeq(layout.order, LAMBDA n : Contains2D(layout.rects[n], x, y))
    IN  IF i = 0 THEN 0 ELSE layout.order[i]

\* HitTester::find_node, or 0.
FindNode(layout, x, y) ==
    LET i == SelectLastInSeq(layout.order, LAMBDA n : Contains2D(layout.rects[n], x, y))
    IN  IF i = 0 THEN 0 ELSE layout.order[i]

==============================================================================
