------------------------------- MODULE WebSession -------------------------------
(***************************************************************************)
(* One browser session and the WebSocket connections that attach to it     *)
(* (oxiterm-server/src/web.rs, session.rs).                                *)
(*                                                                         *)
(* Every connection has a handler task (handle_websocket), a writer task   *)
(* (ws_writer_loop and what follows it) and a queue of frames between the  *)
(* session and its writer.  The handler that finds no event loop running   *)
(* starts one; "loop[c]" is the loop the handler of c has started.  The    *)
(* loop sends to whatever queue is installed in web_frame_tx at that time. *)
(*                                                                         *)
(* Frames: "full" and "diff" (screen contents; "data" in a queue, like the *)
(* token), and the terminations "taken", "idle" and "dead": [0xFF, 0 .. 2].*)
(*                                                                         *)
(* Definitions called ...Mutant are no part of the specification: each is  *)
(* a plausible bug that the properties of this module must detect.         *)
(***************************************************************************)
EXTENDS Naturals, Sequences, FiniteSets

CONSTANTS Conns,     \* the WebSocket connections to the session
          None,      \* no connection
          OutCap,    \* capacity of the queue of a connection
          MayIdle    \* bound: whether 600 s may pass without an event

ASSUME WebAssumption == /\ None \notin Conns
                        /\ OutCap \in Nat \ {0}
                        /\ MayIdle \in BOOLEAN
                        /\ IsFiniteSet(Conns)

VARIABLES created,    \* the session exists
          active,     \* active_connections
          epoch,      \* connection_epoch
          tx,         \* web_frame_tx: the connection whose queue is installed
          running,    \* event_loop_running
          reason,     \* death_reason: the termination it stands for
          old,        \* last_activity is more than 600 s ago
          closed,     \* the event channel is closed
          pending,    \* the event channel holds events
          sock,       \* connections whose WebSocket is up
          handler,    \* where the handler of each connection is
          writer,     \* where the writer of each connection is
          ep,         \* my_epoch of each connection
          out,        \* the queue of each connection
          loop,       \* where each event loop is
          seen,       \* last_seen_epoch of the sink of each loop
          frame,      \* the frame that each loop is about to send
          told,       \* history: connections whose client got a termination
          lost        \* history: connections whose termination found no room

shared == <<created, active, epoch, tx, running, reason, old>>
events == <<closed, pending>>
conn == <<sock, handler, writer, ep, out>>
loops == <<loop, seen, frame>>
history == <<told, lost>>
vars == <<shared, events, conn, loops, history>>

Terminations == {"taken", "idle", "dead"}
Queued == {"data"} \cup Terminations

HandlerValues == {"new", "count", "epoch", "install", "handshake",
                  "swap", "reading", "done"}
WriterValues == {"none", "run", "clear", "sub", "close", "done"}
LoopValues == {"none", "first", "top", "timeout", "update", "load", "send",
               "exit", "drop", "tell", "done"}

Init ==
    /\ created = FALSE
    /\ active = 0 /\ epoch = 0
    /\ tx = None
    /\ running = FALSE
    /\ reason = "dead"
    /\ old = FALSE
    /\ closed = FALSE /\ pending = FALSE
    /\ sock = Conns
    /\ handler = [c \in Conns |-> "new"]
    /\ writer = [c \in Conns |-> "none"]
    /\ ep = [c \in Conns |-> 0]
    /\ out = [c \in Conns |-> <<>>]
    /\ loop = [c \in Conns |-> "none"]
    /\ seen = [c \in Conns |-> 0]
    /\ frame = [c \in Conns |-> "diff"]
    /\ told = {} /\ lost = {}

HandlerAt(c, from, to) ==
    handler[c] = from /\ handler' = [handler EXCEPT ![c] = to]

WriterAt(c, from, to) ==
    writer[c] = from /\ writer' = [writer EXCEPT ![c] = to]

LoopAt(e, from, to) ==
    loop[e] = from /\ loop' = [loop EXCEPT ![e] = to]

\* The queue of c takes a frame: its writer has not ended and there is room.
Accepts(c) ==
    /\ c # None
    /\ writer[c] = "run"
    /\ Len(out[c]) < OutCap

\* The queues after try_send of frame f to c.
Sent(c, f) == IF Accepts(c) THEN [out EXCEPT ![c] = Append(@, f)] ELSE out

\* Connections that have missed a termination when f is sent to c.
Missed(c, f) == IF c # None /\ ~Accepts(c) /\ f \in Terminations THEN {c} ELSE {}

\* try_send of frame f to c, with what the history notes of it.
Send(c, f) == out' = Sent(c, f) /\ lost' = lost \cup Missed(c, f)

-----------------------------------------------------------------------------
(* handle_websocket *)

\* create_session, then active_connections + 1: nobody else has the token yet.
Create(c) ==
    /\ HandlerAt(c, "new", "epoch")
    /\ ~created
    /\ created' = TRUE
    /\ active' = active + 1
    /\ UNCHANGED <<epoch, tx, running, reason, old, events, sock, writer, ep, out, loops, history>>

\* reattach has found the session: reopen the event channel ...
Reopen(c) ==
    /\ HandlerAt(c, "new", "count")
    /\ created
    /\ closed' = FALSE
    /\ pending' = FALSE
    /\ UNCHANGED <<shared, sock, writer, ep, out, loops, history>>

\* ... and count the connection.
Count(c) ==
    /\ HandlerAt(c, "count", "epoch")
    /\ active' = active + 1
    /\ UNCHANGED <<created, epoch, tx, running, reason, old, events, sock, writer, ep, out, loops, history>>

NewEpoch(c) ==
    /\ HandlerAt(c, "epoch", "install")
    /\ epoch' = epoch + 1
    /\ ep' = [ep EXCEPT ![c] = epoch + 1]
    /\ UNCHANGED <<created, active, tx, running, reason, old, events, sock, writer, out, loops, history>>

\* Under the write lock of web_frame_tx: tell the old connection, take its
\* place.  The token is the first frame of the new queue; its writer is spawned.
Install(c) ==
    /\ HandlerAt(c, "install", "handshake")
    /\ tx' = c
    /\ writer' = [writer EXCEPT ![c] = "run"]
    /\ out' = [Sent(tx, "taken") EXCEPT ![c] = <<"data">>]
    /\ lost' = lost \cup Missed(tx, "taken")
    /\ UNCHANGED <<created, active, epoch, running, reason, old, events, sock, ep, loops, told>>

\* The client has sent its size, or is gone; either way the handler goes on
\* to reset last_activity and death_reason, and posts a Refresh.
Attach(c) ==
    /\ HandlerAt(c, "handshake", "swap")
    /\ old' = FALSE
    /\ reason' = "dead"
    /\ pending' = (pending \/ ~closed)
    /\ UNCHANGED <<created, active, epoch, tx, running, closed, sock, writer, ep, out, loops, history>>

SwapUnguardedMutant(c) ==
    /\ HandlerAt(c, "swap", "reading")
    /\ running' = TRUE
    /\ loop' = [loop EXCEPT ![c] = "first"]
    /\ UNCHANGED <<created, active, epoch, tx, reason, old, events, sock, writer, ep, out, seen, frame, history>>

\* event_loop_running.swap(true): whoever finds FALSE starts a loop.
Swap(c) ==
    /\ HandlerAt(c, "swap", "reading")
    /\ running' = TRUE
    /\ loop' = IF running THEN loop ELSE [loop EXCEPT ![c] = "first"]
    /\ UNCHANGED <<created, active, epoch, tx, reason, old, events, sock, writer, ep, out, seen, frame, history>>

\* The handler returns when the socket is closed.
HandlerEnd(c) ==
    /\ HandlerAt(c, "reading", "done")
    /\ c \notin sock
    /\ UNCHANGED <<shared, events, sock, writer, ep, out, loops, history>>

\* The client, or the network, closes the WebSocket.
Hangup(c) ==
    /\ c \in sock /\ handler[c] # "new"
    /\ sock' = sock \ {c}
    /\ UNCHANGED <<shared, events, handler, writer, ep, out, loops, history>>

-----------------------------------------------------------------------------
(* The writer task *)

WriterSend(c) ==
    /\ writer[c] = "run" /\ c \in sock
    /\ out[c] # <<>>
    /\ out' = [out EXCEPT ![c] = Tail(@)]
    /\ told' = IF Head(out[c]) \in Terminations THEN told \cup {c} ELSE told
    /\ UNCHANGED <<shared, events, sock, handler, writer, ep, loops, lost>>

\* Sending a frame or a ping fails, or the last sender is gone: the socket is
\* down in each case.  The queue goes away with the loop of the writer, and
\* the histories forget the connection.
WriterFail(c) ==
    /\ WriterAt(c, "run", "clear")
    /\ c \notin sock
    /\ out' = [out EXCEPT ![c] = <<>>]
    /\ told' = told \ {c} /\ lost' = lost \ {c}
    /\ UNCHANGED <<shared, events, sock, handler, ep, loops>>

WriterClearReturnsMutant(c) ==
    /\ WriterAt(c, "clear", IF tx = c THEN "sub" ELSE "done")
    /\ tx' = IF tx = c THEN None ELSE tx
    /\ UNCHANGED <<created, active, epoch, running, reason, old, events, sock, handler, ep, out, loops, history>>

WriterClearAnyMutant(c) ==
    /\ WriterAt(c, "clear", "sub")
    /\ tx' = None
    /\ UNCHANGED <<created, active, epoch, running, reason, old, events, sock, handler, ep, out, loops, history>>

\* Uninstall the queue, unless a later connection has taken its place.
WriterClear(c) ==
    /\ WriterAt(c, "clear", "sub")
    /\ tx' = IF tx # None /\ ep[tx] = ep[c] THEN None ELSE tx
    /\ UNCHANGED <<created, active, epoch, running, reason, old, events, sock, handler, ep, out, loops, history>>

WriterSubMutant(c) ==
    /\ WriterAt(c, "sub", IF active < 1 THEN "close" ELSE "done")
    /\ active' = active - 1
    /\ UNCHANGED <<created, epoch, tx, running, reason, old, events, sock, handler, ep, out, loops, history>>

\* fetch_sub returns the count before.
WriterSub(c) ==
    /\ WriterAt(c, "sub", IF active <= 1 THEN "close" ELSE "done")
    /\ active' = active - 1
    /\ UNCHANGED <<created, epoch, tx, running, reason, old, events, sock, handler, ep, out, loops, history>>

WriterClose(c) ==
    /\ WriterAt(c, "close", "done")
    /\ closed' = TRUE
    /\ UNCHANGED <<shared, pending, sock, handler, ep, out, loops, history>>

-----------------------------------------------------------------------------
(* The event loop, EventLoop::run and the drops that follow it *)

\* The idle check at the top of a turn.
LoopIdle(e) ==
    /\ loop[e] \in {"first", "top"} /\ old
    /\ loop' = [loop EXCEPT ![e] = "timeout"]
    /\ UNCHANGED <<shared, events, conn, seen, frame, history>>

LoopTimeout(e) ==
    /\ LoopAt(e, "timeout", "exit")
    /\ reason' = "idle"
    /\ UNCHANGED <<created, active, epoch, tx, running, old, events, conn, seen, frame, history>>

\* The idle check has passed: drain the channel.  The first turn draws without
\* any event; a turn whose events need no drawing, or that finds none, ends here.
LoopPoll(e) ==
    /\ loop[e] \in {"first", "top"} /\ ~old
    /\ \/ /\ pending
          /\ pending' = FALSE
          /\ \E next \in {"update", "top"} :
               /\ loop[e] = "first" => next = "update"
               /\ loop' = [loop EXCEPT ![e] = next]
       \/ /\ ~pending
          /\ loop' = [loop EXCEPT ![e] = IF closed THEN "exit"
                                         ELSE IF loop[e] = "first" THEN "update" ELSE "top"]
          /\ UNCHANGED pending
    /\ UNCHANGED <<shared, closed, conn, seen, frame, history>>

\* update_document announces the frame in a message of its own.
LoopUpdate(e) ==
    /\ LoopAt(e, "update", "load")
    /\ Send(tx, "data")
    /\ UNCHANGED <<shared, events, sock, handler, writer, ep, seen, frame, told>>

\* WsFrameSink::send_frame up to the choice between a full frame and a diff;
\* when nothing has changed there is no diff.
LoopLoad(e) ==
    /\ loop[e] = "load"
    /\ seen' = [seen EXCEPT ![e] = epoch]
    /\ \/ /\ seen[e] # epoch
          /\ frame' = [frame EXCEPT ![e] = "full"]
          /\ loop' = [loop EXCEPT ![e] = "send"]
       \/ /\ seen[e] = epoch
          /\ frame' = [frame EXCEPT ![e] = "diff"]
          /\ \E next \in {"send", "top"} : loop' = [loop EXCEPT ![e] = next]
    /\ UNCHANGED <<shared, events, conn, history>>

\* send_bytes, to the queue that is installed by now.
LoopSend(e) ==
    /\ LoopAt(e, "send", "top")
    /\ Send(tx, "data")
    /\ frame' = [frame EXCEPT ![e] = "diff"]
    /\ UNCHANGED <<shared, events, sock, handler, writer, ep, seen, told>>

LoopExitKeepsFlagMutant(e) ==
    /\ LoopAt(e, "exit", "drop")
    /\ UNCHANGED <<shared, events, conn, seen, frame, history>>

\* EventLoopGuard is dropped when run returns ...
LoopExit(e) ==
    /\ LoopAt(e, "exit", "drop")
    /\ running' = FALSE
    /\ UNCHANGED <<created, active, epoch, tx, reason, old, events, conn, seen, frame, history>>

\* ... and the frame sink with the event loop after that.
LoopDrop(e) ==
    /\ LoopAt(e, "drop", "tell")
    /\ frame' = [frame EXCEPT ![e] = reason]
    /\ UNCHANGED <<shared, events, conn, seen, history>>

LoopTellNothingMutant(e) ==
    /\ LoopAt(e, "tell", "done")
    /\ frame' = [frame EXCEPT ![e] = "diff"]
    /\ seen' = [seen EXCEPT ![e] = 0]
    /\ UNCHANGED <<shared, events, conn, history>>

\* The sink and what it remembers are gone.
LoopTell(e) ==
    /\ LoopAt(e, "tell", "done")
    /\ Send(tx, frame[e])
    /\ frame' = [frame EXCEPT ![e] = "diff"]
    /\ seen' = [seen EXCEPT ![e] = 0]
    /\ UNCHANGED <<shared, events, sock, handler, writer, ep, told>>

-----------------------------------------------------------------------------
(* The environment *)

\* A client that is read, the dispatcher or the file watcher posts an event.
Post ==
    /\ created /\ ~closed /\ ~pending
    /\ pending' = TRUE
    /\ UNCHANGED <<shared, closed, conn, loops, history>>

\* 600 s pass without an event.
TimePasses ==
    /\ MayIdle /\ created /\ ~old
    /\ old' = TRUE
    /\ UNCHANGED <<created, active, epoch, tx, running, reason, events, conn, loops, history>>

HandlerStep(c) ==
    \/ Count(c) \/ NewEpoch(c) \/ Install(c) \/ Attach(c)
    \/ Swap(c) \/ HandlerEnd(c)

WriterStep(c) ==
    \/ WriterSend(c) \/ WriterFail(c) \/ WriterClear(c) \/ WriterSub(c) \/ WriterClose(c)

LoopStep(e) ==
    \/ LoopIdle(e) \/ LoopTimeout(e) \/ LoopPoll(e)
    \/ LoopUpdate(e) \/ LoopLoad(e) \/ LoopSend(e)
    \/ LoopExit(e) \/ LoopDrop(e) \/ LoopTell(e)

Next ==
    \/ \E c \in Conns : \/ Create(c) \/ Reopen(c) \/ Hangup(c)
                        \/ HandlerStep(c) \/ WriterStep(c) \/ LoopStep(c)
    \/ Post
    \/ TimePasses

Spec == Init /\ [][Next]_vars

\* Tasks and threads are scheduled; a handshake ends, since a client that is
\* silent is hung up on by the network in the end.  Clients owe nothing.
FairSpec ==
    /\ Spec
    /\ \A c \in Conns : /\ WF_vars(HandlerStep(c))
                        /\ WF_vars(WriterStep(c))
                        /\ WF_vars(LoopStep(c))

-----------------------------------------------------------------------------
(* Properties *)

\* The state has its type.
TypeOK ==
    /\ created \in BOOLEAN /\ running \in BOOLEAN /\ old \in BOOLEAN
    /\ closed \in BOOLEAN /\ pending \in BOOLEAN
    /\ active \in Nat /\ epoch \in Nat
    /\ tx \in Conns \cup {None}
    /\ reason \in {"idle", "dead"}
    /\ sock \subseteq Conns
    /\ handler \in [Conns -> HandlerValues]
    /\ writer \in [Conns -> WriterValues]
    /\ ep \in [Conns -> Nat]
    /\ out \in [Conns -> Seq(Queued)] /\ \A c \in Conns : Len(out[c]) <= OutCap
    /\ loop \in [Conns -> LoopValues]
    /\ seen \in [Conns -> Nat]
    /\ frame \in [Conns -> {"full", "diff"} \cup Terminations]
    /\ told \subseteq Conns /\ lost \subseteq Conns

\* Connections that are counted in active_connections.
Counted == {c \in Conns : /\ handler[c] \notin {"new", "count"}
                          /\ writer[c] \notin {"close", "done"}}

Turning(e) ==
    loop[e] \in {"first", "top", "timeout", "update", "load", "send", "exit"}
Leaving(e) == loop[e] \in {"drop", "tell"}

\* At most one loop takes turns on a session, and the flag says whether one does.
OneLoop ==
    /\ \A e, f \in Conns : Turning(e) /\ Turning(f) => e = f
    /\ running <=> \E e \in Conns : Turning(e)

\* The count is the number of connections between their fetch_add and their
\* fetch_sub, whatever overlaps: the last one out is right that it is the last.
CountsConnections == active = Cardinality(Counted)

\* The client of c got a termination, has one in its queue, or missed one.
Informed(c) ==
    \/ c \in told \cup lost
    \/ \E i \in DOMAIN out[c] : out[c][i] \in Terminations

\* A client whose queue is installed and whose handler is past the swap is never
\* left without an event loop, unless it is told so: by a loop on its way out,
\* or by a termination that is on its way or was lost to a full queue.  This is
\* why the guard of the flag must be dropped before the frame sink.
NeverAbandoned ==
    \A c \in Conns :
        handler[c] = "reading" /\ tx = c /\ writer[c] = "run"
        => Informed(c) \/ \E e \in Conns : Turning(e) \/ Leaving(e)

\* The writers settle who is installed: a queue is uninstalled before its
\* connection is uncounted, and no writer uninstalls the queue of another, so
\* that a running connection is either the installed one or was told otherwise.
InstalledOrTold ==
    /\ tx # None => writer[tx] \in {"run", "clear"}
    /\ \A c \in Conns : writer[c] = "run" => c = tx \/ Informed(c)

\* When every connection is gone for good the event loop ends: the session keeps
\* no thread, and the count is zero, so that the reaper can find it.
LoopEndsAfterLast ==
    (created /\ sock = {}) ~> (active = 0 /\ \A e \in Conns : loop[e] \in {"none", "done"})

\* A connected client that no loop serves hears of it, or hangs up.
HearsOfTheEnd ==
    \A c \in Conns :
        handler[c] = "reading" /\ tx = c /\ ~running
        ~> running \/ c \in told \cup lost \/ c \notin sock \/ tx # c

\* "reset death_reason so a reattached session does not inherit a stale reason
\* from a prior idle cycle": a client that is told that the session was idle is
\* not one that has just attached.  The code does not guarantee it: the loop
\* stores the reason after the check, and the handler may reset it in between.
NoStaleReason ==
    \A e \in Conns :
        loop[e] = "tell" /\ frame[e] = "idle" /\ tx # None /\ tx \in sock
        => old \/ handler[tx] \in {"install", "handshake"}

\* A connection that attaches is sent a full frame: the frame made for its epoch
\* is not sent before its queue is installed.  The code does not guarantee it:
\* the epoch is counted up first.
FullFrameArrives ==
    [][\A e, c \in Conns :
         LoopSend(e) /\ frame[e] = "full" /\ ep[c] = seen[e] => handler[c] # "install"]_vars

\* close() is for the last connection that leaves; a client that reattaches in
\* time has its channel open.  The code does not guarantee it: the last one out
\* may close the channel after somebody has reopened it.
ReopenedStaysOpen == \A c \in Conns : handler[c] = "reading" /\ c \in sock => ~closed
=============================================================================
