---------------------------------- MODULE Frames ----------------------------------
(***************************************************************************)
(* From two cell buffers to the client's display: DiffEngine               *)
(* (oxiterm-renderer/src/render/diff.rs), the two frame sinks              *)
(* (AnsiFrameSink in session.rs, WsFrameSink in web.rs), the canvas of the *)
(* browser (oxiterm-web/src/lib.rs, index.html), and, external, what a     *)
(* terminal makes of the bytes.                                            *)
(*                                                                         *)
(* Underline and italics are never painted and left out.  A terminal shows *)
(* ambiguous characters in one column.                                     *)
(*                                                                         *)
(* Definitions called ...Mutant are no part of the specification: each is  *)
(* a plausible bug that the properties of Page must detect.                *)
(***************************************************************************)
EXTENDS Painting

CONSTANTS Ambiguous   \* characters that some terminals show in two columns

Nul == "nul"

ASSUME WidthAssumption == Width(Space) = 1 /\ Width(Nul) = 0

\* CellBuffer::force_dirty
DirtyCells == [p \in Screen |-> Cell(Nul, "reset", "reset")]

\* The width that counts on the way out.
Step(c) == Larger(1, Width(c))

\* Vec::push, if it is needed.
Pushed(out, needed, c) == IF needed THEN Append(out, c) ELSE out

-----------------------------------------------------------------------------
(* The difference *)

Nowhere == << -1, -1 >>

\* Every frame begins as if the client's pen were reset.
NoCommands == [out |-> << >>, at |-> Nowhere, colours |-> << "reset", "reset" >>,
               bold |-> FALSE, next |-> 0]

\* The commands for one cell that has changed: the cursor, the colours and the
\* modifiers where they are not what they are taken to be, and the character.
Emit(s, p, cell) ==
    LET moved == Pushed(s.out, s.at # p, << "move", p >>)
        coloured == Pushed(moved, << cell.fg, cell.bg >> # s.colours,
                           << "color", << cell.fg, cell.bg >> >>)
        modified == Pushed(coloured, cell.bold # s.bold, << "modifiers", cell.bold >>)
        after == << p[1] + Step(cell.ch), p[2] >>
    IN  [s EXCEPT !.out = Append(modified, << "write", cell.ch >>),
                  !.at = IF cell.ch \in Ambiguous \/ after[1] >= Cols THEN Nowhere ELSE after,
                  !.colours = << cell.fg, cell.bg >>, !.bold = cell.bold]

VisitMutant(s, p, prev, next) ==
    CASE next[p].skip -> [s EXCEPT !.at = Nowhere]
      [] ~next[p].skip /\ next[p] # prev[p] -> Emit(s, p, next[p])
      [] OTHER -> s

\* A cell behind a wide character is passed over, and those left to a graphic too.
Visit(s, p, prev, next) ==
    LET passed == [s EXCEPT !.next = p[1] + Step(next[p].ch)]
    IN  CASE p[1] < s.next -> s
          [] p[1] >= s.next /\ next[p].skip -> [passed EXCEPT !.at = Nowhere]
          [] OTHER -> IF next[p] # prev[p] THEN Emit(passed, p, next[p]) ELSE passed

VisitRow(s, y, prev, next) ==
    FoldLeft(LAMBDA t, x : Visit(t, << x, y >>, prev, next),
             [s EXCEPT !.next = 0], [i \in 1..Cols |-> i - 1])

\* diff
Diff(prev, next) ==
    FoldLeft(LAMBDA s, y : VisitRow(s, y, prev, next),
             NoCommands, [i \in 1..Rows |-> i - 1]).out

-----------------------------------------------------------------------------
(* The two encodings *)

NothingEncoded == [out |-> << >>, fg |-> "reset", bg |-> "reset"]

\* One command of encode_ansi: a colour goes out when it is not the last; modifiers
\* are set by a reset, which takes the colours with it, so that they follow.
Encode(s, c) ==
    CASE c[1] = "color" ->
            [out |-> Pushed(Pushed(s.out, c[2][1] # s.fg, << "fg", c[2][1] >>),
                            c[2][2] # s.bg, << "bg", c[2][2] >>),
             fg |-> c[2][1], bg |-> c[2][2]]
      [] c[1] = "modifiers" ->
            [s EXCEPT !.out =
                Pushed(Append(Append(Append(@, << "reset" >>), << "fg", s.fg >>), << "bg", s.bg >>),
                       c[2], << "bold" >>)]
      [] OTHER -> [s EXCEPT !.out = Append(@, c)]

EncodeAnsi(commands) == FoldLeft(Encode, NothingEncoded, commands).out

\* An AnsiColor in the binary protocol: a type, and what belongs to it; the three
\* components of a colour are one byte here.
Indexed == {"c0", "c2", "c15", "c51", "c236", "c255"}

EncodeColor(c) ==
    CASE c = "reset" -> << 0 >>
      [] c \in Indexed -> << 2, c >>
      [] OTHER -> << 1, c >>

EncodeCommand(c) ==
    CASE c[1] = "move" -> << 1, c[2][1], c[2][2] >>
      [] c[1] = "color" -> << 2 >> \o EncodeColor(c[2][1]) \o EncodeColor(c[2][2])
      [] c[1] = "write" -> << 3, c[2], Step(c[2]) >>
      [] OTHER -> << 4, IF c[2] THEN 1 ELSE 0 >>

EncodeBinary(commands) == FoldLeft(LAMBDA bytes, c : bytes \o EncodeCommand(c), << >>, commands)

\* The bytes of a colour that begins at i, and the colour.
ColorLength(bytes, i) == IF bytes[i] = 0 THEN 1 ELSE 2
ColorAt(bytes, i) == IF bytes[i] = 0 THEN "reset" ELSE bytes[i + 1]

\* The command that begins at i, and its bytes; the width of a character is dropped.
CommandAt(bytes, i) ==
    LET second == i + 1 + ColorLength(bytes, i + 1)
    IN  CASE bytes[i] = 1 -> << "move", << bytes[i + 1], bytes[i + 2] >> >>
          [] bytes[i] = 2 -> << "color", << ColorAt(bytes, i + 1), ColorAt(bytes, second) >> >>
          [] bytes[i] = 3 -> << "write", bytes[i + 1] >>
          [] OTHER -> << "modifiers", bytes[i + 1] = 1 >>

CommandLength(bytes, i) ==
    LET second == i + 1 + ColorLength(bytes, i + 1)
    IN  CASE bytes[i] \in {1, 3} -> 3
          [] bytes[i] = 2 -> second + ColorLength(bytes, second) - i
          [] OTHER -> 2

\* decode_binary; no command is longer than five.
DecodeBinary(bytes) ==
    LET from[i \in 1..(Len(bytes) + 5)] ==
            IF i > Len(bytes) THEN << >>
            ELSE << CommandAt(bytes, i) >> \o from[i + CommandLength(bytes, i)]
    IN  from[1]

-----------------------------------------------------------------------------
(* The clients *)

\* What a cell of the display shows.  A wide glyph is in the first of its cells, and
\* the other is a blank that is half of it.
Seen(ch, fg, bg, half) == [ch |-> ch, fg |-> fg, bg |-> bg, half |-> half]

Display == [cells |-> [p \in Screen |-> Seen(Space, "reset", "reset", FALSE)],
            fg |-> "reset", bg |-> "reset", bold |-> FALSE, at |-> << 0, 0 >>]

\* A glyph in the colours of the display, over one or two cells, clipped at the edge.
Struck(d, p, ch) ==
    [d.cells EXCEPT
        ![p] = Seen(ch, d.fg, d.bg, FALSE),
        ![<< p[1] + 1, p[2] >>] = IF Step(ch) = 2 THEN Seen(Space, d.fg, d.bg, TRUE) ELSE @]

\* A glyph that loses one of its cells to w others at p loses the other too.
Torn(cells, p, w) ==
    [cells EXCEPT
        ![<< p[1] - 1, p[2] >>] = IF cells[p].half THEN Seen(Space, @.fg, @.bg, FALSE) ELSE @,
        ![<< p[1] + w, p[2] >>] = IF @.half THEN Seen(Space, @.fg, @.bg, FALSE) ELSE @]

\* A character on a terminal: one of no width changes nothing, and a line that is
\* full goes on in the next.
Printed(d, ch) ==
    LET w == Width(ch)
        p == IF d.at[1] + w > Cols THEN << 0, Smaller(d.at[2] + 1, Rows - 1) >> ELSE d.at
    IN  IF w = 0 THEN d
        ELSE [d EXCEPT !.cells = Struck([d EXCEPT !.cells = Torn(@, p, w)], p, ch),
                       !.at = << p[1] + w, p[2] >>]

Terminal(d, c) ==
    CASE c[1] = "move" -> [d EXCEPT !.at = c[2]]
      [] c[1] = "fg" -> [d EXCEPT !.fg = c[2]]
      [] c[1] = "bg" -> [d EXCEPT !.bg = c[2]]
      [] c[1] = "reset" -> [d EXCEPT !.fg = "reset", !.bg = "reset", !.bold = FALSE]
      [] c[1] = "bold" -> [d EXCEPT !.bold = TRUE]
      [] OTHER -> Printed(d, c[2])

\* WebTerminal::draw_commands and draw_cell: what stood in the cells is painted
\* over, and nothing beside them.
Canvas(d, c) ==
    CASE c[1] = "move" -> [d EXCEPT !.at = c[2]]
      [] c[1] = "color" -> [d EXCEPT !.fg = c[2][1], !.bg = c[2][2]]
      [] c[1] = "modifiers" -> [d EXCEPT !.bold = c[2]]
      [] OTHER ->
            LET next == d.at[1] + Step(c[2])
            IN  [d EXCEPT !.cells = Struck(d, d.at, c[2]),
                          !.at = IF next >= Cols THEN << 0, @[2] + 1 >> ELSE << next, @[2] >>]

OnTerminal(d, codes) == FoldLeft(Terminal, d, codes)
OnCanvas(d, commands) == FoldLeft(Canvas, d, commands)

-----------------------------------------------------------------------------
(* The sinks *)

\* A client: its display, the pictures it shows (Kitty placements, or the elements
\* of the media layer), and the assets that a browser has received.
NewClient == [display |-> Display, pictures |-> {}, assets |-> {}]

AnsiSentMutant(client, front, back) ==
    LET commands == Diff(front.cells, back.cells)
    IN  [sent |-> commands # << >> \/ back.graphics # << >>,
         client |-> [client EXCEPT !.display = OnTerminal(@, EncodeAnsi(commands)),
                                   !.pictures = @ \cup ToSet(back.graphics)]]

\* AnsiFrameSink::send_frame: placements are deleted when the last frame had
\* graphics and this one has none; nothing goes out when nothing has changed.
AnsiSent(client, front, back) ==
    LET commands == Diff(front.cells, back.cells)
        cleanup == front.graphics # << >> /\ back.graphics = << >>
    IN  [sent |-> commands # << >> \/ back.graphics # << >> \/ cleanup,
         client |-> [client EXCEPT !.display = OnTerminal(@, EncodeAnsi(commands)),
                                   !.pictures = (IF cleanup THEN {} ELSE @)
                                                \cup ToSet(back.graphics)]]

\* WsFrameSink::update_document, which clears the media layer before every frame,
\* and send_frame: the assets that the connection has not had, the places of all
\* pictures, and the commands; prev is dirty on a new connection.
WebSent(client, prev, back, active) ==
    LET commands == Diff(prev.cells, back.cells)
        ready == {m \in active : Files[m.src].where = "there"}
    IN  [sent |-> commands # << >> \/ active # {},
         client |-> [client EXCEPT
             !.display = OnCanvas(@, DecodeBinary(EncodeBinary(commands))),
             !.assets = @ \cup {m.src : m \in ready}, !.pictures = ready]]

==============================================================================
