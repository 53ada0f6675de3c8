------------------------------- MODULE AnsiScreen -------------------------------
(***************************************************************************)
(* What a user sees over SSH: the render step of EventLoop::run with its   *)
(* DoubleBuffer, FrameRateLimiter and ResizeDebouncer, AnsiFrameSink, and  *)
(* the task that writes the output channel to the terminal                 *)
(* (oxiterm-server/src/session.rs, ratelimit.rs, ssh/server.rs).           *)
(*                                                                         *)
(* A turn of the event loop is three steps (batch, resize, render), and    *)
(* the output task, the app server's threads and the user act between      *)
(* them.  What layout and rendering make of the document is one value,     *)
(* want; a frame is the cells it paints.  Left out: images, animations     *)
(* (they only render more often) and the bytes of an escape sequence.      *)
(*                                                                         *)
(* Definitions called ...Mutant are no part of the specification: each is  *)
(* a plausible bug that the properties of this module must detect.         *)
(***************************************************************************)
EXTENDS Naturals, Sequences

CONSTANTS Cells,     \* the cells of the screen
          Glyphs,    \* what a cell can show
          Blank,     \* the glyph of Cell::default()
          OutCap,    \* capacity of the output channel (32 in the code)
          Batch      \* events one turn may take (100 in the code)

ASSUME ScreenAssumption ==
    /\ Blank \in Glyphs
    /\ OutCap \in Nat \ {0}
    /\ Batch \in Nat \ {0}

VARIABLES want,      \* the screen that a render would draw now
          front,     \* buffer.front
          out,       \* the frames in the output channel
          term,      \* the terminal's cells
          alt,       \* the terminal shows its alternate buffer
          at,        \* the step of the turn that comes next, or "gone"
          taken,     \* processed_count
          needs,     \* needs_render
          pend,      \* pending_render
          paused,    \* output_paused
          woken,     \* an event that asks for a render is in event_rx
          resizing,  \* resize_debouncer: "no", "pushed", or "ripe" after 100 ms
          limited,   \* the last frame is younger than min_interval
          synced     \* history: no frame was pushed out of the channel, and the
                     \* terminal was not resized, since the last clear

loop == <<at, taken, needs, pend, paused>>
vars == <<want, front, out, term, alt, loop, woken, resizing, limited, synced>>

Screens == [Cells -> Glyphs]
BlankScreen == [c \in Cells |-> Blank]

Paints == UNION {[S -> Glyphs] : S \in SUBSET Cells}
Frames == [kind : {"setup", "clear", "diff", "leave"}, cells : Paints]

\* The frames of setup(), clear_screen() and drop().  The first two blank
\* every cell; the last leaves the alternate buffer.
Clear(kind) == [kind |-> kind, cells |-> BlankScreen]
Leave == [kind |-> "leave", cells |-> << >>]

\* DiffEngine::diff: the cells of next that are not as in prev.
Diff(prev, next) ==
    [kind |-> "diff",
     cells |-> [c \in {d \in Cells : next[d] # prev[d]} |-> next[c]]]

\* try_send: the oldest frame makes room.
Full == Len(out) >= OutCap
Pushed(f) == Append(IF Full THEN Tail(out) ELSE out, f)

\* setup() has run; the first turn renders.
Init ==
    /\ want \in Screens /\ term \in Screens
    /\ front = BlankScreen
    /\ out = <<Clear("setup")>>
    /\ alt = FALSE
    /\ at = "batch" /\ taken = 0 /\ needs = TRUE /\ pend = FALSE
    /\ paused = FALSE /\ woken = FALSE /\ resizing = "no"
    /\ limited = FALSE /\ synced = TRUE

-----------------------------------------------------------------------------
(* A turn of the event loop *)

\* StatePatched, Resize, Refresh: the event asks for a render.
TakeWake ==
    /\ at = "batch" /\ taken < Batch /\ woken
    /\ woken' = FALSE /\ needs' = TRUE /\ taken' = taken + 1
    /\ UNCHANGED <<want, front, out, term, alt, at, pend, paused, resizing,
                   limited, synced>>

TakeXonForgetsMutant ==
    /\ at = "batch" /\ taken < Batch
    /\ paused' = FALSE /\ taken' = taken + 1
    /\ UNCHANGED <<want, front, out, term, alt, at, needs, pend, woken, resizing,
                   limited, synced>>

\* Ctrl-S and Ctrl-Q.
TakeXoff ==
    /\ at = "batch" /\ taken < Batch
    /\ paused' = TRUE /\ taken' = taken + 1
    /\ UNCHANGED <<want, front, out, term, alt, at, needs, pend, woken,
                   resizing, limited, synced>>

TakeXon ==
    /\ at = "batch" /\ taken < Batch
    /\ paused' = FALSE /\ needs' = TRUE /\ taken' = taken + 1
    /\ UNCHANGED <<want, front, out, term, alt, at, pend, woken, resizing,
                   limited, synced>>

\* No event is left, or the batch is full and the next turn will go on.
EndBatch ==
    /\ at = "batch"
    /\ taken = Batch \/ ~woken
    /\ at' = "resize" /\ taken' = 0
    /\ pend' = (taken = Batch)
    /\ UNCHANGED <<want, front, out, term, alt, needs, paused, woken,
                   resizing, limited, synced>>

PollResizeKeepsFrontMutant ==
    /\ at = "resize"
    /\ at' = "render"
    /\ \/ /\ resizing = "ripe"
          /\ resizing' = "no" /\ needs' = TRUE
          /\ want' \in Screens
          /\ out' = Pushed(Clear("clear")) /\ synced' = TRUE
       \/ /\ resizing # "ripe"
          /\ UNCHANGED <<resizing, needs, want, out, synced>>
    /\ UNCHANGED <<front, term, alt, taken, pend, paused, woken, limited>>

\* A settled resize: new buffers, and a frame that clears the terminal.  The
\* document is laid out anew.
PollResize ==
    /\ at = "resize"
    /\ at' = "render"
    /\ \/ /\ resizing = "ripe"
          /\ resizing' = "no" /\ needs' = TRUE
          /\ front' = BlankScreen /\ want' \in Screens
          /\ out' = Pushed(Clear("clear")) /\ synced' = TRUE
       \/ /\ resizing # "ripe"
          /\ UNCHANGED <<resizing, needs, front, want, out, synced>>
    /\ UNCHANGED <<term, alt, taken, pend, paused, woken, limited>>

\* send_frame: no frame for no difference; the buffers are swapped when the
\* frame found room, not when it pushed another one out.
SendFrame ==
    IF want = front
      THEN UNCHANGED <<out, front, limited, synced>>
      ELSE /\ out' = Pushed(Diff(front, want))
           /\ front' = IF Full THEN front ELSE want
           /\ limited' = (limited \/ ~Full)
           /\ synced' = (synced /\ ~Full)

RenderForgetsLimitedMutant ==
    /\ at = "render" /\ at' = "batch"
    /\ needs' = pend
    /\ IF needs /\ ~paused /\ ~limited
         THEN SendFrame
         ELSE UNCHANGED <<out, front, limited, synced>>
    /\ pend' = FALSE
    /\ UNCHANGED <<want, term, alt, taken, paused, woken, resizing>>

\* The last step of a turn; the next one starts with pending_render.
Render ==
    /\ at = "render" /\ at' = "batch"
    /\ \/ /\ ~needs \/ paused
          /\ needs' = pend
          /\ UNCHANGED <<out, front, limited, synced>>
       \/ /\ needs /\ ~paused /\ limited
          /\ needs' = TRUE
          /\ UNCHANGED <<out, front, limited, synced>>
       \/ /\ needs /\ ~paused /\ ~limited
          /\ needs' = pend
          /\ SendFrame
    /\ pend' = FALSE
    /\ UNCHANGED <<want, term, alt, taken, paused, woken, resizing>>

ExitOnlyIfReadyMutant ==
    /\ at = "batch" /\ taken < Batch
    /\ at' = "gone"
    /\ out' = (IF Full THEN out ELSE Pushed(Leave)) /\ synced' = synced
    /\ UNCHANGED <<want, front, term, alt, taken, needs, pend, paused, woken,
                   resizing, limited>>

\* 'q', ten idle minutes, or the session's input was closed: the sink is
\* dropped, and sends the sequences that restore the terminal.
Exit ==
    /\ at = "batch" /\ taken < Batch
    /\ at' = "gone"
    /\ out' = Pushed(Leave) /\ synced' = (synced /\ ~Full)
    /\ UNCHANGED <<want, front, term, alt, taken, needs, pend, paused, woken,
                   resizing, limited>>

-----------------------------------------------------------------------------
(* Around the loop *)

\* A thread of the dispatcher, or a handler of an event, changes the state
\* and posts StatePatched.
Patch ==
    /\ at # "gone"
    /\ want' \in Screens \ {want}
    /\ woken' = TRUE
    /\ UNCHANGED <<front, out, term, alt, loop, resizing, limited, synced>>

\* The user resizes the terminal, which arranges its cells as it likes, and
\* window_change_request tells the debouncer and the loop.
WindowChange ==
    /\ at # "gone"
    /\ term' \in Screens /\ synced' = FALSE
    /\ resizing' = "pushed" /\ woken' = TRUE
    /\ UNCHANGED <<want, front, out, alt, loop, limited>>

\* 100 ms after the last push.
Settle ==
    /\ resizing = "pushed" /\ resizing' = "ripe"
    /\ UNCHANGED <<want, front, out, term, alt, loop, woken, limited, synced>>

\* 1/60 s after the last frame.
FrameInterval ==
    /\ limited /\ limited' = FALSE
    /\ UNCHANGED <<want, front, out, term, alt, loop, woken, resizing, synced>>

\* The output task writes a frame to the terminal.
Write ==
    /\ out # << >>
    /\ LET f == Head(out) IN
       /\ term' = [c \in Cells |-> IF c \in DOMAIN f.cells THEN f.cells[c] ELSE term[c]]
       /\ alt' = CASE f.kind = "setup" -> TRUE
                   [] f.kind = "leave" -> FALSE
                   [] OTHER -> alt
    /\ out' = Tail(out)
    /\ UNCHANGED <<want, front, loop, woken, resizing, limited, synced>>

Turn == TakeWake \/ TakeXoff \/ TakeXon \/ EndBatch \/ PollResize \/ Render \/ Exit

Next == Turn \/ Patch \/ WindowChange \/ Settle \/ FrameInterval \/ Write

Spec == Init /\ [][Next]_vars

\* Threads and the output task are scheduled, and time passes.  That the user
\* presses keys or quits, or that the state changes, is not promised.
FairSpec ==
    /\ Spec
    /\ WF_vars(TakeWake) /\ WF_vars(EndBatch)
    /\ WF_vars(PollResize) /\ WF_vars(Render)
    /\ WF_vars(Settle) /\ WF_vars(FrameInterval)
    /\ WF_vars(Write)

-----------------------------------------------------------------------------
(* Properties *)

\* The state has its type, and the output channel keeps its capacity.
TypeOK ==
    /\ want \in Screens /\ front \in Screens /\ term \in Screens
    /\ out \in Seq(Frames) /\ Len(out) <= OutCap
    /\ alt \in BOOLEAN
    /\ at \in {"batch", "resize", "render", "gone"}
    /\ taken \in 0 .. Batch
    /\ needs \in BOOLEAN /\ pend \in BOOLEAN /\ paused \in BOOLEAN
    /\ woken \in BOOLEAN
    /\ resizing \in {"no", "pushed", "ripe"}
    /\ limited \in BOOLEAN /\ synced \in BOOLEAN

\* The cell c will show g once the channel is drained: g is what the last
\* frame that paints c paints there, or what is there already.
WillShow(c, g) ==
    \/ \E i \in DOMAIN out :
          /\ c \in DOMAIN out[i].cells /\ out[i].cells[c] = g
          /\ \A j \in DOMAIN out : j > i => c \notin DOMAIN out[j].cells
    \/ /\ term[c] = g
       /\ \A i \in DOMAIN out : c \notin DOMAIN out[i].cells

\* As long as no frame was lost, the front buffer is what the terminal will
\* show: the next difference is taken against the right screen.
FrontIsShown == synced => \A c \in Cells : WillShow(c, front[c])

\* No render is forgotten: a loop that runs, is not paused and has lost no
\* frame either shows what it wants, or knows of a reason to render.
NoForgottenRender ==
    (at # "gone" /\ ~paused /\ synced /\ want # front)
        => needs \/ pend \/ woken

\* Even when frames are lost, the terminal leaves the alternate buffer once
\* the loop has ended and the channel is drained.
TerminalRestored == (at = "gone" /\ out = << >>) => ~alt

\* Once the document, the flow control and the channel's losses settle, a
\* terminal that is in step and not paused comes to show the document.
ScreenConverges ==
    <>[][want' = want /\ paused' = paused /\ synced' = synced]_vars
        => <>[](at = "gone" \/ paused \/ ~synced \/ term = want)

\* docs/ARCHITECTURE.md: slow terminals "cause safe frame dropping".  If that
\* is so, a loop with nothing left to do has the document on the screen.
DroppingIsSafe ==
    (/\ at = "batch" /\ ~needs /\ ~woken /\ ~paused
     /\ resizing = "no" /\ out = << >>)
        => term = want

\* The amendment of the specification: after XOFF the server "categorically
\* stops" writing to the client.
PausedWritesNothing == [][paused /\ paused' => Len(out') >= Len(out)]_vars

=================================================================================
