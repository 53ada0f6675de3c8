------------------------------ MODULE Interaction ------------------------------
(***************************************************************************)
(* What the event loop makes of keys, pointer and page changes             *)
(* (EventLoop in oxiterm-server/src/session.rs, with expand.rs and         *)
(* throttle.rs): focus, scrolling, activation, drags and page loads        *)
(* against the layout of the last render, which they share.                *)
(*                                                                         *)
(* The screen is its rows.  A page is a tree of nodes numbered in document *)
(* order; boxes stack their children, which is all that is left of the     *)
(* layout engine here (Page models it).  The state the pages depend on is  *)
(* one condition, on, and one list.  One loop handles one event after      *)
(* another, so that a queue would add nothing: an event is handled, or the *)
(* batch ends and a frame is drawn, in any order.                          *)
(*                                                                         *)
(* Definitions called ...Mutant are no part of the specification: each is  *)
(* a plausible bug that the properties of this module must detect.         *)
(***************************************************************************)
EXTENDS Integers, Sequences, FiniteSets, FiniteSetsExt, Functions

CONSTANTS Pages,      \* the names that links use
          Tree,       \* the pages' files: sequences of nodes
          File,       \* [Pages -> [BOOLEAN -> file or NoFile]]: for mobiles, or not
          NoFile,     \* the page does not exist
          Start,      \* the first page
          Heights,    \* heights a terminal may have
          Capacity,   \* of the NAV bucket (5 in the code)
          MaxItems,   \* bound: length of the list
          MaxInputs   \* bound: events and patches

\* What an event-htmx or event-dragend attribute asks for.
Acts == Pages \cup {"toggle", "open", "none"}

NodeType == [parent : Nat, rows : Nat, kind : {"box", "text", "input", "for"},
             show : {"always", "on", "off"}, drag : {"no", "handle", "draggable"},
             act : Acts, end : Acts]

\* A document as the parser leaves it: nodes in document order below a root
\* that has no attributes.
IsPage(nodes) ==
    /\ nodes \in Seq(NodeType) /\ nodes # << >>
    /\ \A n \in DOMAIN nodes : n > 1 => nodes[n].parent \in 1..(n - 1)
    /\ nodes[1].kind = "box" /\ nodes[1].show = "always"
    /\ nodes[1].act = "none" /\ nodes[1].drag = "no"

ASSUME InteractionAssumption ==
    /\ \A f \in DOMAIN Tree : IsPage(Tree[f])
    /\ File \in [Pages -> [BOOLEAN -> DOMAIN Tree \cup {NoFile}]]
    /\ NoFile \notin DOMAIN Tree
    /\ Start \in Pages /\ File[Start][FALSE] # NoFile
    /\ Pages \cap {"toggle", "open", "none"} = {}
    /\ Heights \subseteq Nat /\ Heights # {} /\ IsFiniteSet(Heights)
    /\ Capacity \in Nat /\ MaxItems \in Nat /\ MaxInputs \in Nat

VARIABLES file,     \* doc: the file the document was made of
          base,     \* base_source_path: the page
          mobile,   \* session.is_mobile
          moved,    \* style.top of the nodes that were dragged out of the flow
          items,    \* copies of a template that expand_for_node has made
          on, list, \* the state
          focus,    \* focused_node; 0 is None
          ring,     \* focusable_nodes
          anchor,   \* autoscroll_anchor
          scroll,   \* scroll_offset
          total,    \* total_height
          rows,     \* session.dims.rows
          layout,   \* layout_engine.last_layout, or NoLayout
          drag,     \* active_drag, or NoDrag
          needs,    \* needs_render, pending_render
          notice,   \* a StatePatched is in the event queue
          tokens,   \* throttle.nav
          slowed,   \* nav_throttle_active
          left,     \* inputs left
          doc,      \* history: the documents so far, this one included
          parents,  \* the document that parent_map belongs to
          cache,    \* the document whose templates for_template_cache holds, or 0
          frame,    \* history: what the last frame shows
          unseen    \* history: a keystroke was not rendered, the bucket was empty

document == <<file, base, mobile, items, doc, parents, cache>>
page == <<document, moved, focus, ring, scroll, layout>>
bucket == <<tokens, slowed>>
state == <<on, list>>
view == <<anchor, total, rows, frame>>
rest == <<state, view, drag, notice, bucket, unseen>>
vars == <<page, rest, needs, left>>

NoLayout == [doc |-> 0]
NoDrag == [doc |-> 0]
NoFrame == [rows |-> 0, scroll |-> 0, drawn |-> << >>]

t == Tree[file]
Nodes == DOMAIN t

-----------------------------------------------------------------------------
(* The document *)

\* evaluate_bind_show
Holds(cond, o) == cond = "always" \/ (cond = "on" /\ o) \/ (cond = "off" /\ ~o)

\* A node and its ancestors.
Up(f, n) ==
    LET up[k \in DOMAIN Tree[f]] ==
            {k} \cup IF k = 1 THEN {} ELSE up[Tree[f][k].parent]
    IN  up[n]

Shown(f, o) == {n \in DOMAIN Tree[f] : \A k \in Up(f, n) : Holds(Tree[f][k].show, o)}

FocusableMutant(f, o) ==
    {n \in DOMAIN Tree[f] : /\ Holds(Tree[f][n].show, o)
                            /\ Tree[f][n].act # "none" \/ Tree[f][n].kind = "input"}

\* rebuild_focusable_nodes: the list, and what becomes of the focus.
Focusable(f, o) ==
    {n \in Shown(f, o) : Tree[f][n].act # "none" \/ Tree[f][n].kind = "input"}

Refocused(old, nodes) ==
    IF old \in nodes THEN old ELSE IF nodes = {} THEN 0 ELSE Min(nodes)

\* LayoutEngine::compute: children are stacked, a dragged node stands at its own
\* place and takes no room.
Flow(shown, n) == {k \in shown : k > 1 /\ t[k].parent = n /\ moved[k] < 0}

HighOf(shown) ==
    LET high[n \in Nodes] ==
            IF n \notin shown THEN 0
            ELSE CASE t[n].kind = "box" -> SumFunctionOnSet(high, Flow(shown, n))
                   [] t[n].kind = "for" -> 1 + items
                   [] OTHER -> t[n].rows
    IN  high

TopOf(shown, high) ==
    LET top[n \in Nodes] ==
            IF n = 1 THEN 0
            ELSE top[t[n].parent] +
                 IF moved[n] >= 0 THEN moved[n]
                 ELSE SumFunctionOnSet(high, {k \in Flow(shown, t[n].parent) : k < n})
    IN  top

Layout ==
    LET shown == Shown(file, on)
        high == HighOf(shown)
        top == TopOf(shown, high)
    IN  [doc |-> doc,
         top |-> [n \in shown |-> top[n]],
         high |-> [n \in shown |-> high[n]],
         total |-> Max({0} \cup {top[n] + high[n] : n \in shown \ {1}})]

Less(a, b) == IF a > b THEN a - b ELSE 0

\* get_centering_offset, in the vertical.
Centering(l, h) == Less(h, l.total) \div 2

\* The rows of the viewport: the status line takes one from a page that scrolls.
View(height, h) == IF height > h THEN Less(h, 1) ELSE h

\* Renderer::render_node: children over their parents, later nodes over earlier
\* ones.  The nodes on the screen's rows; the root itself shows nothing.
Drawn(l, h, s) ==
    LET shift == Centering(l, h) - s
        On(r) == {n \in DOMAIN l.top \ {1} : r \in (l.top[n] + shift)..(l.top[n] + l.high[n] + shift - 1)}
    IN  [r \in 0..(View(l.total, h) - 1) |-> IF On(r) = {} THEN 1 ELSE Max(On(r))]

-----------------------------------------------------------------------------
(* Loading a page *)

UpdateDocMutant(f) ==
    /\ file' = f
    /\ moved' = [n \in DOMAIN Tree[f] |-> -1]
    /\ items' = 0
    /\ doc' = doc + 1 /\ parents' = doc + 1
    /\ ring' = Focusable(f, on)
    /\ focus' = Refocused(focus, ring')
    /\ scroll' = 0
    /\ UNCHANGED <<cache, layout>>

\* update_doc and reset_layout_and_scroll.
UpdateDoc(f) ==
    /\ file' = f
    /\ moved' = [n \in DOMAIN Tree[f] |-> -1]
    /\ items' = 0
    /\ doc' = doc + 1 /\ parents' = doc + 1
    /\ cache' = 0
    /\ ring' = Focusable(f, on)
    /\ focus' = Refocused(focus, ring')
    /\ layout' = NoLayout
    /\ scroll' = 0

\* resolve_and_load_page: the page's variant for the viewport, if it exists.
Variant(p, m) == File[p][m]
LoadPage(p) ==
    /\ Variant(p, mobile') # NoFile
    /\ UpdateDoc(Variant(p, mobile'))
    /\ base' = p

NoPage == UNCHANGED <<file, base, moved, items, doc, parents, cache, ring, focus, layout, scroll>>

\* check_nav, is_first_throttle: a load takes a token; the first of those that
\* find none makes a notice.  `to' is the drag that the load would end.
Load(p, to) ==
    \/ /\ tokens > 0 /\ tokens' = tokens - 1 /\ slowed' = FALSE
       /\ IF Variant(p, mobile') # NoFile
          THEN LoadPage(p) /\ drag' = NoDrag
          ELSE NoPage /\ drag' = to
    \/ /\ tokens = 0 /\ slowed' = TRUE
       /\ NoPage /\ drag' = to
       /\ UNCHANGED tokens

\* handle_htmx_target: a page, or an action on the state (apply_action and
\* try_dispatch).  An open: only sends a frame.
Target(act, to) ==
    /\ mobile' = mobile
    /\ \/ act \in Pages /\ Load(act, to) /\ UNCHANGED state
       \/ act = "toggle" /\ on' = ~on /\ drag' = to /\ NoPage /\ UNCHANGED <<list, bucket>>
       \/ act \in {"open", "none"} /\ drag' = to /\ NoPage /\ UNCHANGED <<state, bucket>>

Init ==
    /\ base = Start /\ mobile = FALSE /\ file = File[Start][FALSE]
    /\ moved = [n \in Nodes |-> -1]
    /\ on \in BOOLEAN /\ list \in 0..MaxItems
    /\ items = list /\ doc = 1 /\ parents = 1
    /\ cache = IF \E n \in Nodes : t[n].kind = "for" THEN 1 ELSE 0
    /\ ring = Focusable(file, on) /\ focus = Refocused(0, ring)
    /\ anchor = 0 /\ scroll = 0 /\ total = 0 /\ rows \in Heights
    /\ layout = NoLayout /\ drag = NoDrag
    /\ needs = TRUE /\ notice = FALSE
    /\ tokens = Capacity /\ slowed = FALSE
    /\ left = MaxInputs
    /\ frame = NoFrame /\ unseen = FALSE

-----------------------------------------------------------------------------
(* Keys *)

Input == left > 0 /\ left' = left - 1

\* Tab and the arrow keys.
Nav(forward) ==
    /\ Input
    /\ ring # {}
    /\ LET from == IF focus \in ring THEN focus ELSE Min(ring)
           after == {n \in ring : n > from}
           before == {n \in ring : n < from}
       IN  focus' = IF forward THEN IF after # {} THEN Min(after) ELSE Min(ring)
                               ELSE IF before # {} THEN Max(before) ELSE Max(ring)
    /\ needs' = TRUE
    /\ UNCHANGED <<document, moved, ring, scroll, layout, rest>>

\* get_htmx_node_and_target: the nearest of a node and its ancestors that has an
\* action.  A copy made by expand_for_node, 0, is not in parent_map.
Action(n) ==
    LET with == {k \in IF n = 0 THEN {} ELSE Up(file, n) : t[k].act # "none"}
    IN  IF with = {} THEN "none" ELSE t[Max(with)].act

\* Enter on the focused node.
Enter ==
    /\ Input
    /\ Target(Action(focus), drag)
    /\ \E allowed \in BOOLEAN : needs' = (needs \/ Action(focus) # "none" \/ allowed)
    /\ UNCHANGED <<view, notice, unseen>>

\* The focused node is an input; all inputs are bound to the state here.
Editing == focus # 0 /\ t[focus].kind = "input"

\* apply_key_to_focused_input: the value is always written, check_input only gates
\* the frame.  A key that no input takes changes nothing here.
Type ==
    /\ Input
    /\ IF Editing THEN on' \in BOOLEAN ELSE UNCHANGED on
    /\ \E allowed \in BOOLEAN :
          /\ needs' = (needs \/ allowed)
          /\ unseen' = (unseen \/ (Editing /\ ~allowed))
    /\ UNCHANGED <<page, list, view, drag, notice, bucket>>

-----------------------------------------------------------------------------
(* Scrolling *)

MaxScroll == Less(total, View(total, rows))

\* preprocess_key: PageUp, PageDown, b and the space bar, unless an input is focused.
PageKey(down) ==
    /\ Input /\ ~Editing
    /\ LET step == View(total, rows)
       IN  scroll' = IF down THEN Min({scroll + step, MaxScroll}) ELSE Less(scroll, step)
    /\ needs' = TRUE
    /\ UNCHANGED <<document, moved, focus, ring, layout, rest>>

\* scroll_wheel_lines: three rows a notch.
WHEEL_LINE_STEP == 3
Wheel(down) ==
    /\ Input
    /\ scroll' = IF total <= rows THEN scroll
                 ELSE IF down THEN Min({scroll + WHEEL_LINE_STEP, MaxScroll})
                 ELSE Less(scroll, WHEEL_LINE_STEP)
    /\ needs' = TRUE
    /\ UNCHANGED <<document, moved, focus, ring, layout, rest>>

-----------------------------------------------------------------------------
(* Pointer *)

PointedMutant(r) ==
    IF layout = NoLayout THEN r ELSE Less(r, Centering(layout, rows)) + scroll

\* The row of the page under the screen's row r, which counts from one.
Pointed(r) ==
    IF layout = NoLayout THEN r
    ELSE Less(Less(r, Centering(layout, rows)), 1) + scroll

\* hit_test: the topmost node; the root has all rows.  A row of a for node that
\* is not its template's belongs to a copy.
Hit(y) ==
    IF layout = NoLayout THEN 0
    ELSE LET over == {n \in DOMAIN layout.top : n = 1 \/ y \in layout.top[n]..(layout.top[n] + layout.high[n] - 1)}
             n == Max(over)
         IN  IF t[n].kind = "for" /\ y > layout.top[n] THEN 0 ELSE n

\* find_draggable_target: the nearest draggable node that has no handle, or has
\* one between itself and the node that was hit.
Draggable(n) ==
    LET path == IF n = 0 THEN {} ELSE Up(file, n)
        Handles(ns) == {k \in ns : t[k].drag = "handle"}
        can == {k \in path : /\ t[k].drag = "draggable"
                             /\ \/ Handles({d \in Nodes : k \in Up(file, d)}) = {}
                                \/ Handles({d \in path : k \in Up(file, d)}) # {}}
    IN  IF can = {} THEN 0 ELSE Max(can)

\* A press starts a drag and activates; a page that is loaded ends the drag.
Press(r) ==
    /\ Input
    /\ LET y == Pointed(r)
           n == Hit(y)
           d == Draggable(n)
           began == IF d = 0 THEN drag
                    ELSE [doc |-> doc, node |-> d, row |-> y,
                          top |-> IF moved[d] >= 0 THEN moved[d] ELSE layout.top[d]]
       IN  Target(Action(n), began)
    /\ needs' = TRUE
    /\ UNCHANGED <<view, notice, unseen>>

\* A drag takes the node out of the flow.
Move(r) ==
    /\ Input
    /\ \/ /\ drag # NoDrag
          /\ moved' = [moved EXCEPT ![drag.node] = Max({0, drag.top + Pointed(r) - drag.row})]
          /\ needs' = TRUE
       \/ /\ drag = NoDrag
          /\ \E allowed \in BOOLEAN : needs' = (needs \/ allowed)
          /\ UNCHANGED moved
    /\ UNCHANGED <<document, focus, ring, layout, scroll, rest>>

\* The drag is taken first, then the node's action at its end is carried out.
Release ==
    /\ Input
    /\ drag # NoDrag
    /\ Target(t[drag.node].end, NoDrag)
    /\ needs' = TRUE
    /\ UNCHANGED <<view, notice, unseen>>

-----------------------------------------------------------------------------
(* Events of others *)

\* The dispatcher's thread writes the state and posts StatePatched.
Patch ==
    /\ Input
    /\ on' \in BOOLEAN /\ list' \in 0..MaxItems
    /\ notice' = TRUE
    /\ UNCHANGED <<page, view, drag, needs, bucket, unseen>>

\* StatePatched, expand_all_for_nodes: the copies are made anew.
Patched ==
    /\ notice
    /\ notice' = FALSE
    /\ IF \E n \in Nodes : t[n].kind = "for"
       THEN items' = list /\ cache' = doc
       ELSE UNCHANGED <<items, cache>>
    /\ needs' = TRUE
    /\ UNCHANGED <<file, base, mobile, moved, doc, parents, ring, focus, layout, scroll,
                   state, view, drag, bucket, left, unseen>>

\* NavigateTo: the browser's history.  Without a token nothing is drawn.
NavigateTo(p) ==
    /\ Input
    /\ mobile' = mobile /\ Load(p, drag)
    /\ needs' = (needs \/ tokens > 0)
    /\ UNCHANGED <<state, view, notice, unseen>>

\* SwitchViewport: is_mobile is set whether or not the page can be loaded.
SwitchViewport(m) ==
    /\ Input
    /\ mobile' = m /\ Load(base, drag)
    /\ needs' = (needs \/ tokens > 0)
    /\ UNCHANGED <<state, view, notice, unseen>>

\* The watcher saw the file change: it is loaded without a token.
Reload ==
    /\ Input
    /\ UpdateDoc(file) /\ drag' = NoDrag
    /\ needs' = TRUE
    /\ UNCHANGED <<base, mobile, state, view, notice, bucket, unseen>>

\* The debounced resize; the layout stays until the next render.
Resize(h) ==
    /\ Input
    /\ rows' = h
    /\ needs' = TRUE
    /\ UNCHANGED <<page, state, anchor, total, frame, drag, notice, bucket, unseen>>

\* Half a second passes.
Refill ==
    /\ tokens < Capacity
    /\ tokens' = tokens + 1
    /\ UNCHANGED <<page, state, view, drag, needs, notice, slowed, left, unseen>>

\* While a drag is on, the loop draws every 16 ms.
Tick ==
    /\ drag # NoDrag /\ ~needs
    /\ needs' = TRUE
    /\ UNCHANGED <<page, rest, left>>

-----------------------------------------------------------------------------
(* Rendering *)

AutoscrollMutant(l, f, v) ==
    IF f \notin DOMAIN l.top THEN scroll
    ELSE IF l.top[f] < scroll THEN l.top[f]
    ELSE IF l.top[f] + l.high[f] > scroll + v THEN Less(l.top[f] + l.high[f], v)
    ELSE scroll

AutoscrollUpMutant(l, f, v) ==
    IF f = anchor \/ f \notin DOMAIN l.top THEN scroll
    ELSE IF l.top[f] < scroll THEN l.top[f]
    ELSE scroll

\* autoscroll_to_focused: only when the focus is another than at the last call.
Autoscroll(l, f, v) ==
    IF f = anchor \/ f \notin DOMAIN l.top THEN scroll
    ELSE IF l.top[f] < scroll THEN l.top[f]
    ELSE IF l.top[f] + l.high[f] > scroll + v THEN Less(l.top[f] + l.high[f], v)
    ELSE scroll

Render ==
    /\ needs
    /\ needs' = FALSE
    /\ ring' = Focusable(file, on)
    /\ focus' = Refocused(focus, ring')
    /\ LET l == Layout
           v == View(l.total, rows)
       IN  /\ layout' = l
           /\ total' = l.total
           /\ scroll' = Min({Autoscroll(l, focus', v), Less(l.total, v)})
           /\ frame' = [rows |-> rows, scroll |-> scroll', drawn |-> Drawn(l, rows, scroll')]
    /\ anchor' = focus'
    /\ unseen' = FALSE
    /\ UNCHANGED <<document, moved, state, rows, drag, notice, bucket, left>>

Next ==
    \/ \E b \in BOOLEAN : Nav(b) \/ PageKey(b) \/ Wheel(b) \/ SwitchViewport(b)
    \/ Enter \/ Type
    \/ \E r \in 1..Max(Heights) : Press(r) \/ Move(r)
    \/ Release
    \/ Patch \/ Patched \/ Reload \/ Refill \/ Tick
    \/ \E p \in Pages : NavigateTo(p)
    \/ \E h \in Heights : Resize(h)
    \/ Render

Spec == Init /\ [][Next]_vars

-----------------------------------------------------------------------------
(* Properties *)

\* No page load, whatever its way in, leaves anything of the old page that a
\* later event would use with the nodes of the new one, which have the same
\* numbers: not its layout, a drag, its parents, or its templates.
NothingOfTheOldPage ==
    /\ layout # NoLayout => layout.doc = doc
    /\ drag # NoDrag => drag.doc = doc
    /\ parents = doc
    /\ cache \in {0, doc}

\* When nothing is left to be done, the focus is on a node that is shown and can
\* be focused, or there is none, however the state and the page have changed.
FocusAtRest ==
    ~needs /\ ~notice /\ ~unseen =>
        LET can == {n \in Shown(file, on) : t[n].act # "none" \/ t[n].kind = "input"}
        IN  focus \in can \/ (focus = 0 /\ can = {})

\* A press on a row of the page as it is drawn hits the node that is drawn
\* there, unless the loop has scrolled or the terminal has another height since.
HitsWhatIsDrawn ==
    layout # NoLayout /\ scroll = frame.scroll /\ rows = frame.rows =>
        \A r \in DOMAIN frame.drawn :
            LET shift == Centering(layout, rows) - scroll
                shows == frame.drawn[r]
                hit == Hit(Pointed(r + 1))
            IN  r - shift \in 0..(layout.total - 1) =>
                \/ hit = shows
                \/ (hit = 0 /\ t[shows].kind = "for" /\ r - shift > layout.top[shows])

\* A frame after the focus has moved shows the whole of the focused node, if it
\* is not higher than the viewport.
FocusRevealed ==
    [][ Render /\ focus' # anchor /\ focus' # 0
        => LET l == layout'
               v == View(l.total, rows)
           IN  l.high[focus'] <= v =>
                 /\ scroll' <= l.top[focus']
                 /\ l.top[focus'] + l.high[focus'] <= scroll' + v ]_vars

\* A frame does not move what the user has scrolled to, unless the focus has
\* moved or the page has become shorter than that.
KeepsManualScroll ==
    [][ Render /\ focus' = anchor =>
          scroll' = scroll \/ (scroll' < scroll /\ scroll' = Less(total', View(total', rows))) ]_vars
=============================================================================
