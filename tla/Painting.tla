--------------------------------- MODULE Painting ---------------------------------
(***************************************************************************)
(* Renderer::render_node (oxiterm-renderer/src/render/renderer.rs) and     *)
(* what the event loop draws over the page                                 *)
(* (oxiterm-server/src/session.rs).                                        *)
(*                                                                         *)
(* A layer is a function from a part of the screen.  Files gives for each  *)
(* src where it is ("outside" of the app, "missing" or "there"), whether   *)
(* it can be decoded, its name, the colours of the upper and lower half of *)
(* its cells, and for a diagram its size. An image is of one colour        *)
(* pattern, the caches are transparent, and a video has its frame at once  *)
(* if it can be decoded.                                                   *)
(***************************************************************************)
EXTENDS Boxes

CONSTANTS Cols, Rows,   \* the terminal's size
          Files         \* the files that pages name

Screen == (0..(Cols - 1)) \X (0..(Rows - 1))

Cell(ch, fg, bg) == [ch |-> ch, fg |-> fg, bg |-> bg, bold |-> FALSE, skip |-> FALSE]

\* CellBuffer::new and clear.
EmptyCells == [p \in Screen |-> Cell(Space, "reset", "reset")]

\* The part of the screen within a rectangle.
Within(rect) == {p \in Screen : Contains2D(rect, p[1], p[2])}

\* A grid of characters with its origin at (x, y); safe_set clips.
Stamp(grid, x, y, fg, bg) ==
    [p \in {q \in Screen : << q[1] - x, q[2] - y >> \in DOMAIN grid} |->
        Cell(grid[<< p[1] - x, p[2] - y >>], fg, bg)]

\* One layer upon another.
Atop(upper, lower) ==
    [p \in DOMAIN upper \cup DOMAIN lower |-> IF p \in DOMAIN upper THEN upper[p] ELSE lower[p]]

\* A layer over the cells of a frame.
Over(frame, layer) ==
    [frame EXCEPT !.cells = [p \in Screen |-> IF p \in DOMAIN layer THEN layer[p] ELSE @[p]]]

Row(text) == [p \in {<< i - 1, 0 >> : i \in DOMAIN text} |-> text[p[1] + 1]]

-----------------------------------------------------------------------------
(* Text *)

\* The lines of a text that wraps: a word goes on the line while it fits.
Wrapped(line, w) ==
    LET Step(lines, word) ==
            IF lines # << >> /\ Columns(Last(lines)) + 1 + Columns(word) <= w
              THEN Append(Front(lines), Last(lines) \o << Space >> \o word)
              ELSE Append(lines, word)
        lines == FoldLeft(Step, << >>, Words(line))
    IN  IF lines = << >> THEN << << >> >> ELSE lines

DrawnLines(node, w) ==
    LET lines == Lines(node.text)
    IN  IF node.style.wrap = "word" /\ w > 0
          THEN FlattenSeq([i \in DOMAIN lines |-> Wrapped(lines[i], w)])
          ELSE lines

\* Where the characters go: those of no width nowhere, those of two columns on
\* the next line when only one is left, with a blank behind them.
Laid(lines, w) ==
    LET Glyph(s, ch) ==
            LET wraps == Width(ch) = 2 /\ s.x + 2 > w /\ 2 <= w
                x == IF wraps THEN 0 ELSE s.x
                y == IF wraps THEN s.y + 1 ELSE s.y
                blank == IF Width(ch) = 2 /\ x + 1 < w THEN << x + 1, y >> :> Space ELSE << >>
            IN  IF Width(ch) = 0
                  THEN s
                  ELSE [x |-> x + Width(ch), y |-> y,
                        grid |-> (<< x, y >> :> ch) @@ blank @@ s.grid]
        Line(s, line) ==
            LET end == FoldLeft(Glyph, [s EXCEPT !.x = 0], line) IN [end EXCEPT !.y = @ + 1]
    IN  FoldLeft(Line, [x |-> 0, y |-> 0, grid |-> << >>], lines).grid

\* The box inside of the border.
Content(node, rect) ==
    LET b == BorderOf(node)
    IN  [x |-> rect.x + b, y |-> rect.y + b,
         w |-> Larger(0, rect.w - 2 * b), h |-> Larger(0, rect.h - 2 * b)]

\* Text and Button; only a button's padding counts here.
Text(node, box, fg, bg) ==
    LET px == IF node.tag = "button" THEN node.style.padding["left"] ELSE 0
        py == IF node.tag = "button" THEN node.style.padding["top"] ELSE 0
        w == Larger(0, box.w - px)
        h == Larger(0, box.h - py)
        all == Laid(DrawnLines(node, w), w)
    IN  Stamp(Restrict(all, {p \in DOMAIN all : p[1] < w /\ p[2] < h}),
              box.x + px, box.y + py, fg, bg)

\* Input: one character for each column, whatever its width.
Input(node, box, fg, bg) ==
    LET Shows(i) == IF i >= Len(node.text) THEN "_"
                    ELSE IF node.attrs.type = "password" THEN "*" ELSE node.text[i + 1]
    IN  [p \in Within([box EXCEPT !.h = 1]) |-> Cell(Shows(p[1] - box.x), fg, bg)]

-----------------------------------------------------------------------------
(* Media *)

Prefix == << "!" >>   \* "brak grafiki: "

\* draw_missing_placeholder: a frame of stars and as much of a label as fits.
Placeholder(box, name) ==
    LET label == CASE box.w >= Len(Prefix) + Len(name) + 2 -> Prefix \o name
                   [] box.w \in (Len(name) + 2)..(Len(Prefix) + Len(name) + 1) -> name
                   [] box.w \in 3..(Len(name) + 1) -> << "?" >>
                   [] OTHER -> << >>
        Edge(p) == \/ p[1] \in {box.x, box.x + box.w - 1}
                   \/ p[2] \in {box.y, box.y + box.h - 1}
        stars == [p \in Within(box) |-> Cell(IF Edge(p) THEN "*" ELSE Space, "red", "reset")]
    IN  IF box.h >= 2
          THEN Atop(Stamp(Row(label), box.x + ((box.w - Len(label)) \div 2), box.y + (box.h \div 2),
                          "red", "reset"), stars)
          ELSE stars

\* unicode_block_fallback: two pixels in each cell, "reset" where they are clear.
Blocks(file, box) ==
    LET cell == CASE file.top = "reset" /\ file.bottom = "reset" -> Cell(Space, "reset", "reset")
                  [] file.top # "reset" /\ file.bottom = "reset" -> Cell("^", file.top, "reset")
                  [] file.top = "reset" /\ file.bottom # "reset" -> Cell("v", file.bottom, "reset")
                  [] file.top = file.bottom /\ file.top # "reset" -> Cell("#", file.top, "reset")
                  [] OTHER -> Cell("^", file.top, file.bottom)
    IN  [p \in Within(box) |-> cell]

\* A graphic goes out beside the cells, unless it begins off the screen, and the
\* cells below it are left to it all the same.
Graphic(frame, src, box) ==
    [frame EXCEPT
        !.cells = [p \in Screen |-> IF p \in Within(box) THEN [@[p] EXCEPT !.skip = TRUE] ELSE @[p]],
        !.graphics = IF box.x >= 0 /\ box.y >= 0 THEN Append(@, [src |-> src, box |-> box]) ELSE @]

\* render_img and render_vid.
Picture(frame, node, box, profile) ==
    LET file == Files[node.attrs.src]
        empty == file.where = "outside" \/ box.w = 0 \/ box.h = 0
        broken == file.where = "missing" \/ (profile # "web" /\ ~file.decodes)
    IN  IF empty THEN frame
        ELSE IF broken THEN Over(frame, Placeholder(box, file.name))
        ELSE IF profile = "web" THEN frame
        ELSE IF profile \in {"kitty", "sixel"} THEN Graphic(frame, node.attrs.src, box)
        ELSE Over(frame, Blocks(file, box))

\* render_diagram: a line of text, and below it the grid, or a map or a crop of it.
Diagram(frame, node, box) ==
    LET file == Files[node.attrs.src]
        fits == file.cols <= box.w /\ file.rows <= box.h - 1
        heading == node.attrs.alt \o IF fits THEN << >> ELSE << "E" >>
        crop == node.attrs.preview = "crop"
        w == IF fits \/ crop THEN Smaller(file.cols, box.w) ELSE box.w
        h == IF fits \/ crop THEN Smaller(file.rows, box.h - 1) ELSE box.h - 1
        body == [x |-> box.x, y |-> box.y + 1, w |-> w, h |-> h]
        empty == file.where = "outside" \/ box.w = 0 \/ box.h = 0
    IN  IF empty THEN frame
        ELSE IF file.where = "missing" THEN Over(frame, Placeholder(box, file.name))
        ELSE IF ~file.decodes THEN frame
        ELSE Over(frame, Atop([p \in Within(body) |-> Cell("d", "c15", "reset")],
                              Stamp(Row(SubSeq(heading, 1, Smaller(box.w, Len(heading)))),
                                    box.x, box.y, "c15", "reset")))

-----------------------------------------------------------------------------
(* Nodes *)

\* precompute_inherited_colors
Inherited(nodes, key, root) ==
    LET colour[n \in DOMAIN nodes] ==
            IF nodes[n].style[key] # "reset" THEN nodes[n].style[key]
            ELSE IF n = 1 THEN root ELSE colour[nodes[n].parent]
    IN  colour

Border(node, rect, fg, bg) ==
    LET Across(p) == p[2] \in {rect.y, rect.y + rect.h - 1}
        Down(p) == p[1] \in {rect.x, rect.x + rect.w - 1}
        Shape(p) == IF Across(p) THEN IF Down(p) THEN "+" ELSE "-" ELSE "|"
    IN  [p \in {q \in Within(rect) : Across(q) \/ Down(q)} |-> Cell(Shape(p), fg, bg)]

\* What a node shows inside of its border.
Filled(frame, node, box, fg, bg, profile) ==
    CASE HasText(node) -> Over(frame, Text(node, box, fg, bg))
      [] node.tag = "input" -> Over(frame, Input(node, box, fg, bg))
      [] node.tag \in {"img", "video"} -> Picture(frame, node, box, profile)
      [] node.tag = "diagram" -> Diagram(frame, node, box)
      [] OTHER -> frame

\* render_single_node.  owner is the node whose box was painted last at a place.
Painted(frame, n, node, rect, fg, bg, profile) ==
    LET borderFg == IF node.style.border.fg = "reset" THEN fg ELSE node.style.border.fg
        edge == IF node.style.border.on THEN Border(node, rect, borderFg, bg) ELSE << >>
        ground == [p \in Within(rect) |-> Cell(Space, fg, bg)]
        base == [Over(frame, Atop(edge, ground)) EXCEPT
                    !.owner = [p \in Screen |-> IF p \in Within(rect) THEN n ELSE @[p]]]
    IN  Filled(base, node, Content(node, rect), fg, bg, profile)

\* Where a node goes on the screen: the scroll offset leaves fixed nodes alone.
ScreenRect(node, rect, offset, scroll) ==
    [rect EXCEPT !.x = @ + offset[1],
                 !.y = @ + offset[2] - IF node.style.position = "fixed" THEN 0 ELSE scroll]

\* render_node
Drawn(nodes, layout, scroll, profile) ==
    LET offset == CenteringOffset(nodes, layout, Cols, Rows)
        fg == Inherited(nodes, "fg", "c15")
        bg == Inherited(nodes, "bg", "c0")
        Next(frame, n) ==
            Painted(frame, n, nodes[n], ScreenRect(nodes[n], layout.rects[n], offset, scroll),
                    fg[n], bg[n], profile)
    IN  FoldLeft(Next, [cells |-> [p \in Screen |-> Cell(Space, "c15", "c0")],
                        graphics |-> << >>, owner |-> [p \in Screen |-> 0]], layout.order)

-----------------------------------------------------------------------------
(* What the event loop draws over it *)

BarWidth == 2   \* cells of the progress bar; the code has 8

Viewport(layout) == IF layout.total > Rows THEN Rows - 1 ELSE Rows
MaxScroll(layout) == Larger(0, layout.total - Viewport(layout))

Bold(layer) == [p \in DOMAIN layer |-> [layer[p] EXCEPT !.bold = TRUE]]

\* The markers at the left and right of the focused node, at half its height.
Ring(nodes, layout, scroll, focus) ==
    LET offset == CenteringOffset(nodes, layout, Cols, Rows)
        rect == layout.rects[focus]
        y == rect.y + (rect.h \div 2) + offset[2] - scroll
        left == IF rect.x > 0 THEN << -1, 0 >> :> ">" ELSE << >>
        right == << rect.w, 0 >> :> "<"
    IN  IF focus \in DOMAIN layout.rects /\ y \in 0..(Viewport(layout) - 1)
          THEN Bold(Stamp(left @@ right, rect.x + offset[1], y, "c51", "reset"))
          ELSE << >>

\* The overlay of PredictiveEcho: the keys that no input took, from the top left of
\* the page on.  Nothing calls confirm or flush_to_server, and active_node is None.
Echo(nodes, layout, scroll, focus, typed) ==
    LET offset == CenteringOffset(nodes, layout, Cols, Rows)
        y == Larger(0, offset[2] - scroll)
        password == focus # 0 /\ nodes[focus].attrs.type = "password"
    IN  IF y < Viewport(layout) /\ ~password
          THEN Stamp(Row(typed), offset[1], y, "c2", "reset")
          ELSE << >>

\* The line at the bottom, with a ScrollIndicator, when there is more than fits.
StatusBar(layout, scroll) ==
    LET max == MaxScroll(layout)
        filled == (scroll * BarWidth) \div max
        text == (IF scroll > 0 THEN << "^" >> ELSE << >>)
                \o (IF scroll < max THEN << "v" >> ELSE << >>)
                \o << ToString(scroll + 1) >>
                \o [i \in 1..BarWidth |-> IF i <= filled THEN "#" ELSE "."]
        start == IF Cols > Len(text) THEN (Cols - Len(text)) \div 2 ELSE 0
        ground == [p \in {q \in Screen : q[2] = Rows - 1} |-> Cell(Space, "c255", "c236")]
    IN  IF layout.total > Rows
          THEN Atop(Bold(Stamp(Row(text), start, Rows - 1, "c255", "c236")), ground)
          ELSE << >>

\* The frame that the event loop sends.
Composed(nodes, layout, scroll, focus, typed, profile) ==
    LET page == Drawn(nodes, layout, scroll, profile)
        ringed == Over(page, Ring(nodes, layout, scroll, focus))
        echoed == Over(ringed, Echo(nodes, layout, scroll, focus, typed))
    IN  Over(echoed, StatusBar(layout, scroll))

\* active_media: the pictures of the page and where they are, the scroll offset
\* taken off whatever the position, and nothing above or left of the screen.  A
\* hidden picture is there with no size.
ActiveMedia(nodes, layout, scroll) ==
    LET offset == CenteringOffset(nodes, layout, Cols, Rows)
        Box(n) ==
            LET rect == IF n \in DOMAIN layout.rects THEN layout.rects[n]
                        ELSE [x |-> 0, y |-> 0, w |-> 0, h |-> 0]
            IN  Content(nodes[n], [rect EXCEPT !.x = @ + offset[1], !.y = @ + offset[2] - scroll])
        media == {n \in DOMAIN nodes : nodes[n].tag \in {"img", "video"} /\ nodes[n].attrs.src # ""}
    IN  {[src |-> nodes[n].attrs.src,
          box |-> [Box(n) EXCEPT !.x = Larger(0, @), !.y = Larger(0, @)]] : n \in media}

==============================================================================
