----------------------------------- MODULE Page -----------------------------------
(***************************************************************************)
(* A page from its source to the client's screen: parser, style sheet,     *)
(* layout, painter, difference, encoding and display of one session        *)
(* (oxiterm-renderer, and the render path of oxiterm-server's session.rs). *)
(*                                                                         *)
(* What a user or an app decides (the page, the state that bind-show       *)
(* reads, the scroll offset, the focus, the keys typed) is any choice      *)
(* here; Interaction and AppState say which choices are made.  Frames are  *)
(* never lost: AnsiScreen and WebSession are about that.                   *)
(***************************************************************************)
EXTENDS Frames

CONSTANTS Sources,         \* the sources of pages
          Profiles,        \* "web", "kitty", "sixel" and "block" are clients
          LeadsTo(_, _),   \* the sources that follow a source, for a profile
          Typed(_),        \* the keys that no input took so far, for a profile
          Offsets,         \* the scroll offsets that are tried
          MaxReconnects

\* A source is a sequence of tokens; the attribute "style" holds declarations.
IsToken(token) ==
    CASE token.kind = "open" ->
            /\ token.self \in BOOLEAN
            /\ IsList(token.attrs)
            /\ \A i \in DOMAIN token.attrs :
                  token.attrs[i][1] = "style" => AreDeclarations(token.attrs[i][2])
      [] token.kind = "style" ->
            /\ IsList(token.rules)
            /\ \A i \in DOMAIN token.rules : AreDeclarations(token.rules[i].raw)
      [] OTHER -> TRUE

IsSource(s) == IsList(s) /\ \A i \in DOMAIN s : IsToken(s[i])

ASSUME PageAssumption ==
    /\ Cols \in Nat \ {0} /\ Rows \in Nat \ {0}
    /\ \A s \in Sources : IsSource(s)

VARIABLES
    source,   \* the source that was loaded last, << >> before the first
    doc,      \* the session's document: its nodes, with their styles
    on,       \* the state that bind-show reads
    front,    \* DoubleBuffer::front, with its graphics
    frame,    \* the last frame: its layout, scroll offset and owners
    profile,
    client,
    changed,  \* WsFrameSink: the connection's epoch is not the one seen last
    reconnects,
    whole,    \* history: since all cells were redrawn, every frame was Whole
    narrow,   \* and had no wide character
    orphans   \* history: pictures were shown when the front buffer was dirtied

vars == << source, doc, on, front, frame, profile, client, changed, reconnects,
           whole, narrow, orphans >>

NoLayout == [rects |-> << >>, order |-> << >>, total |-> 0]

NoFrame == [layout |-> NoLayout, scroll |-> 0, owner |-> << >>]

-----------------------------------------------------------------------------
(* Documents *)

\* apply_styles gives every node its computed style.
Styles(nodes, rules) ==
    [n \in DOMAIN nodes |->
        [tag |-> nodes[n].tag, parent |-> nodes[n].parent, attrs |-> nodes[n].attrs,
         text |-> nodes[n].text, style |-> Styled(rules, nodes[n])]]

\* validate_media_nodes: a picture has a source and a size, and a diagram also
\* names itself; preview-anchor needs a crop.
Valid(node) ==
    LET placed == node.attrs.src # "" /\ node.style.width > 0 /\ node.style.height > 0
    IN  CASE node.tag \in {"img", "video"} -> placed
          [] node.tag = "diagram" ->
                /\ placed /\ node.attrs.alt # << >>
                /\ node.attrs.preview \in {"", "minimap", "fit", "crop"}
                /\ node.attrs.anchor # "" => node.attrs.preview = "crop"
          [] OTHER -> TRUE

\* THTMLParser::parse: the document, or an error.
Document(s) ==
    LET parsed == Parsed(s)
        nodes == Styles(parsed.nodes, Rules(Sheet(s)))
    IN  [ok |-> parsed.ok /\ \A n \in DOMAIN nodes : Valid(nodes[n]), nodes |-> nodes]

\* rebuild_focusable_nodes, as far as the document goes.
Focusable(layout) ==
    {n \in DOMAIN layout.rects :
        doc[n].attrs.htmx # "" \/ (doc[n].tag = "input" /\ doc[n].attrs.value # "")}

-----------------------------------------------------------------------------
(* Steps *)

Init ==
    /\ source = << >>
    /\ doc = Styles(<< Root >>, << >>)
    /\ on = TRUE
    /\ front = [cells |-> EmptyCells, graphics |-> << >>]
    /\ frame = NoFrame
    /\ profile \in Profiles
    /\ client = NewClient
    /\ changed = (profile = "web")
    /\ reconnects = 0
    /\ whole = TRUE /\ narrow = TRUE /\ orphans = FALSE

\* A page is loaded: one that does not parse leaves the old one; update_doc
\* dirties the front buffer, and with its cells it forgets its graphics.
Load(s) ==
    /\ source' = s
    /\ IF Document(s).ok
         THEN /\ doc' = Document(s).nodes
              /\ front' = [cells |-> DirtyCells, graphics |-> << >>]
              /\ frame' = NoFrame
              /\ whole' = TRUE /\ narrow' = TRUE
              /\ orphans' = (orphans \/ client.pictures # {})
         ELSE UNCHANGED << doc, front, frame, whole, narrow, orphans >>
    /\ UNCHANGED << on, profile, client, changed, reconnects >>

\* A patch of the state that some node reads.
Toggle ==
    /\ \E n \in DOMAIN doc : doc[n].attrs.show # ""
    /\ on' = ~on
    /\ UNCHANGED << source, doc, front, frame, profile, client, changed, reconnects,
                    whole, narrow, orphans >>

\* A frame in which nothing hangs over: a blank of the same colours stands behind
\* every wide character, and every character has a width.
Whole(cells) ==
    \A p \in Screen :
       LET behind == << p[1] + 1, p[2] >>
       IN  /\ Width(cells[p].ch) > 0
           /\ Width(cells[p].ch) = 2 =>
                 /\ behind \in Screen /\ cells[behind].ch = Space
                 /\ cells[behind].fg = cells[p].fg /\ cells[behind].bg = cells[p].bg
                 /\ cells[behind].skip = cells[p].skip

Narrow(cells) == \A p \in Screen : Width(cells[p].ch) < 2

\* run_loop renders: layout, painter, overlays, and the sink.  The buffers are
\* swapped if the sink says that it has sent something.
Render ==
    \E layout \in {Compute(doc, Cols, on)} :
       \E scroll \in Offsets \cap (0..MaxScroll(layout)), focus \in {0} \cup Focusable(layout) :
          \E page \in {Composed(doc, layout, scroll, focus, Typed(profile), profile)} :
             LET prev == IF changed THEN [front EXCEPT !.cells = DirtyCells] ELSE front
                 back == [cells |-> page.cells, graphics |-> page.graphics]
                 active == ActiveMedia(doc, layout, scroll)
                 result == IF profile = "web" THEN WebSent(client, prev, back, active)
                                              ELSE AnsiSent(client, front, back)
             IN  /\ client' = result.client
                 /\ front' = IF result.sent THEN back ELSE front
                 /\ frame' = [layout |-> layout, scroll |-> scroll, owner |-> page.owner]
                 /\ changed' = FALSE
                 /\ whole' = ((whole \/ changed) /\ Whole(page.cells))
                 /\ narrow' = ((narrow \/ changed) /\ Narrow(page.cells))
                 /\ orphans' = (orphans /\ result.client.pictures # {})
                 /\ UNCHANGED << source, doc, on, profile, reconnects >>

\* Another tab of the browser takes the session over.
Reconnect ==
    /\ profile = "web"
    /\ reconnects < MaxReconnects
    /\ client' = NewClient
    /\ changed' = TRUE
    /\ reconnects' = reconnects + 1
    /\ UNCHANGED << source, doc, on, front, frame, profile, whole, narrow, orphans >>

Next ==
    \/ \E s \in Sources \cap LeadsTo(source, profile) : Load(s)
    \/ Toggle
    \/ Render
    \/ Reconnect

Spec == Init /\ [][Next]_vars

-----------------------------------------------------------------------------
(* Properties *)

\* A source whose tags are balanced, without stray text and comments, becomes
\* the tree that they describe, texts included (parse_element keeps its own idea
\* of where an element ends).
TreesMatch == Nests(source)

\* Every node has the style that the cascade gives it: the highest specificity,
\* then the last place, decides each property by itself, although apply_styles
\* goes over the rules in passes of its own.
StylesCascade ==
    Document(source).ok =>
       LET rules == Rules(Sheet(source))
       IN  \A n \in DOMAIN doc : Cascades(rules, doc[n])

\* A text that wraps and has no size of its own is given a box in which every
\* character of it has its place, if its words fit: the layout engine counts the
\* lines by itself, and the painter breaks them by itself.
TextHasRoom ==
    \A n \in DOMAIN frame.layout.rects :
       LET node == doc[n]
           box == Content(node, frame.layout.rects[n])
       IN  (/\ Measured(node)
            /\ node.style.width = None /\ node.style.height = None
            /\ PaddingX(node) = 0 /\ PaddingY(node) = 0
            /\ LongestWord(node.text) <= box.w)
           => \A p \in DOMAIN Laid(DrawnLines(node, box.w), box.w) : p[1] < box.w /\ p[2] < box.h

\* What a click at a cell (in the one-based coordinates of the terminal) finds in
\* the layout (handle_mouse_event).
HitAt(p) ==
    LET offset == CenteringOffset(doc, frame.layout, Cols, Rows)
        Off(v, o) == Larger(0, Larger(0, v - o) - 1)
    IN  FindNode(frame.layout, Off(p[1] + 1, offset[1]), Off(p[2] + 1, offset[2]) + frame.scroll)

\* A click hits the node that was painted last at that place, z-index, centering
\* and scrolling included, on pages where nothing is fixed.
HitsTopmost ==
    (\A n \in DOMAIN frame.layout.rects : doc[n].style.position # "fixed") =>
       \A p \in DOMAIN frame.owner : frame.owner[p] # 0 => HitAt(p) = frame.owner[p]

\* The display shows a cell: its character, and its colours unless they are left
\* to the client.
Shows(shown, cell) ==
    /\ shown.ch = cell.ch
    /\ cell.fg # "reset" /\ cell.ch # Space => shown.fg = cell.fg
    /\ cell.bg # "reset" => shown.bg = cell.bg

\* After every frame the client shows the front buffer, although it is only ever
\* sent differences: as long as nothing has hung over since all of it was redrawn,
\* and for the canvas as long as there was no wide character.  The half of a wide
\* glyph is shown behind one, or beside cells that are left to a graphic, which
\* may have taken the place of the other half.
ClientShowsFront ==
    LET cells == front.cells
        display == client.display.cells
        left(p) == << p[1] - 1, p[2] >>
    IN  (frame # NoFrame /\ whole /\ ~changed /\ (profile = "web" => narrow)) =>
           \A p \in Screen :
              ~cells[p].skip =>
                 /\ Shows(display[p], cells[p])
                 /\ display[p].half =>
                       p[1] > 0 /\ (Width(cells[left(p)].ch) = 2 \/ cells[left(p)].skip)

\* The pictures follow the page.  In a browser, whose elements lie over the canvas,
\* each is where the painter left room for it, if it is not fixed and does not
\* begin above the screen, its asset has arrived, and there is no picture of another
\* page.  On a Kitty terminal none is left behind by a frame without any, unless a
\* page was loaded while they were shown.
PicturesFollow ==
    LET offset == CenteringOffset(doc, frame.layout, Cols, Rows)
        Room(n) == Content(doc[n], ScreenRect(doc[n], frame.layout.rects[n], offset, frame.scroll))
    IN  frame # NoFrame =>
           /\ \A n \in DOMAIN frame.layout.rects :
                 LET src == doc[n].attrs.src
                 IN  (/\ profile = "web" /\ ~changed
                      /\ doc[n].tag \in {"img", "video"} /\ Files[src].where = "there"
                      /\ doc[n].style.position # "fixed" /\ Room(n).y >= 0)
                     => [src |-> src, box |-> Room(n)] \in client.pictures /\ src \in client.assets
           /\ (profile = "web" /\ ~changed) =>
                 \A m \in client.pictures : \E n \in DOMAIN doc : doc[n].attrs.src = m.src
           /\ (profile = "kitty" /\ front.graphics = << >> /\ ~orphans) => client.pictures = {}

==============================================================================
