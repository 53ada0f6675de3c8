# TLA+ verification of OxiTerm

OxiTerm serves documents ("sites") to terminals over SSH and to browsers over
WebSockets. Every client has a session on the server; a session has an event
loop on its own thread, a bounded channel of input events, a document and a
state, and a sink through which rendered frames leave. This directory holds
TLA+ models of that system (its concurrent core, the event loop's handling of
input and pages, and the way of a page from its source to the client's screen), the
TLC configurations that check them, and proofs for TLAPS.

Line numbers refer to the commit of the repository this directory belongs to.
`session.rs`, `web.rs` and the like are in `oxiterm-server/src`.

## 1. The system

### Components

| Component | State | Operations | What is hard |
|---|---|---|---|
| Bounded frame channel (`backpressure.rs`) | queue, `closed`, strong count, condvar, Notify | `try_send` (drops the oldest when full), `recv`, `recv_blocking`, `recv_timeout`, `try_recv`, `close`, `reopen`, Clone, Drop | check and registration of `recv` are separate; the count is read without the lock |
| Session registry and reaper (`session.rs` 336-466, `web.rs` 331-358) | `sessions`, `tokens`, `next_id`, each behind its own lock | `create_session`, `reattach`, `remove_session`, reaper scan | guards that outlive a statement, lock order, check then act |
| WebSocket session (`web.rs` 103-320, 692-1030) | `active_connections`, `connection_epoch`, `web_frame_tx`, `event_loop_running`, `death_reason`, `last_activity`, a queue per connection | connect, reattach, take over, handler, writer task, event loop start and end, terminations `[0xFF, 0..2]` | handler, two writers and the loop interleave between single atomic operations |
| Browser tab (`assets/index.html`) | sockets, UI state, reconnect timer, idle listener, error chip | socket callbacks, timers, interaction | callbacks of old sockets, failed attempts |
| SSH screen (`session.rs` 468-558, 1571-1860; `ratelimit.rs`; renderer's buffer and diff; `ssh/server.rs` 205-222) | front buffer, `needs_render`, `pending_render`, `output_paused`, debouncer, frame limiter, output channel, terminal | a turn of the loop, XOFF/XON, resize, render, write, leave | differences are relative to a screen that a lossy channel delivers |
| Event loop: input, focus, scrolling, pages (`session.rs` 697-1542, 1571-1842) | document, layout of the last frame, focused node and focus ring, scroll offset, drag, caches by node id | one arm per input event, page load, viewport switch, resize | ids, indices and offsets survive a reload; clicks are located with the frame of before |
| State manager (`state.rs`, `expand.rs`) | values, subscriptions, dirty keys | set, remove, actions, subscribe, drain | who drains the dirty keys; a page that loads meanwhile; expansion of templates |
| App server dispatcher (`dispatcher.rs`, `session.rs` 215-334, 2138-2151) | threads in flight | POST, patch, `set_app_token`, `open_url` | responses in any order, read-then-write across guards |
| Throttle, rate limiter (`throttle.rs`, `ratelimit.rs`) | buckets, windows per address | take, check and record | boundaries of time windows |
| Transitions (`animation.rs`) | running animations with baselines | start, retarget, tick, restore | retarget before the end |
| Input decoder, reactor (`oxiterm-proto/src/input`, `ssh/reactor.rs`) | parser state, bounded buffer | feed, timeout | sequences cut anywhere |
| SSH server (`ssh/`) | channels, user, keys | open, shell, close, window change | a second shell on a channel |
| Identity (`identity.rs`) | identity of the session | attach once | reserved keys |
| HTTP routes, path safety | none | serve files, pages | none (pure checks) |
| Parsers (`parser/thtml.rs`, `parser/tcss.rs`) | the tree, computed styles | parse, validate, cascade | where an element ends; passes over the sheet that overwrite each other |
| Layout (`layout/engine.rs`, `types.rs`) | boxes, paint order | measure, compute, centre, hit test | it measures what the painter later draws by itself |
| Rendering (`render/`, `session.rs` 1845-2070) | back and front buffer, graphics | paint, overlays, diff, encode | widths of characters, cells that belong to graphics, differences without an absolute frame |
| Diagrams (`diagram/`) | none | parse, lay out, draw | size, not concurrency |
| Caches and video players (`render/cache.rs`) | queues of entries, players | look up, insert with eviction, start, clean up | shared by all sessions |
| Event bus, metrics, configuration, start-up | counters | - | none |
| Wasm terminal (`oxiterm-web`) | canvas, cursor, colours | decode, draw | it must read what the server writes |
| a11y, CLI, Spotify app server | outside the server | - | Spotify: token refresh and polling |

### How they interact

A client's bytes go through the decoder (SSH, on a reactor thread) or the reader
loop of `handle_websocket` (browser) into the session's **bounded channel of
input events**. The **event loop** takes them in batches, changes document and
state, and renders into a **sink**. The SSH sink puts differences into a second
bounded channel that the output task writes to the terminal; the WebSocket sink
puts frames into the tokio queue that is installed in `web_frame_tx`, which the
connection's writer task drains. The **registry** hands sessions to SSH channels
and to WebSockets, and lets a browser come back to its session with a token; the
**reaper** removes sessions nobody came back to. Answers of an **app server**
change the state from threads of their own and wake the loop with an event.

### What makes each part correct

* Channel: no message is lost without its sender being told, the order is kept,
  nobody sleeps on a message, only the last sender closes.
* Registry: the two maps agree, the limit holds, nobody loses a live session,
  every operation returns.
* WebSocket session: one event loop, an exact count, every connection is served
  or told why not, the thread ends with the last connection.
* Browser tab: it comes back unless it is meant to rest.
* SSH screen: differences are taken against what the terminal will show, no
  render is forgotten, the terminal is restored.
* State and dispatcher: a change reaches every node bound to it, whoever made it.
* Transitions: what moves heads for what the state says, starts where the screen is,
  and comes to an end.
* Decoder: what is typed is decoded to what it says wherever the stream is cut, and
  noise costs nothing but itself.
* Input, focus, scrolling, pages: the focus is on something that can have it, clicks hit what
  is drawn, scrolling follows the focus and leaves the user's own alone, and
  nothing of an old page acts on the new one.
* From source to screen: the tree that the tags describe, the style that the cascade
  gives, room for every character, the front buffer on the client's display, and
  pictures where the page has them.

## 2. Modules

| Module | Models | Role |
|---|---|---|
| `LossyFifo` | what the channel promises | abstract specification: an interval of messages, a consumer that skips |
| `FrameChannel` | `backpressure.rs` | sender handles, one receiver, lock and wake-ups step by step |
| `SessionRegistry` | registry, reaper, its callers | one step per lock acquisition |
| `WebSession` (`MCWebSession`) | one browser session | handler, writer and loop of every connection |
| `WebClient` | the page's script | sockets, timers, UI state |
| `WebProofs` | | theorems about `WebSession` and `WebClient` |
| `AnsiScreen` | the render path over SSH | turns of the loop, channel, terminal |
| `AppState` (`MCAppState`) | state manager, loop, dispatcher, patch route | one step per lock acquisition |
| `AppStateProofs` | | theorems about `AppState` |
| `Transitions` | `animation.rs` and its place in a turn | one render, one patch, one phase of a transition |
| `RenderLoopProofs` | | theorems about `FrameChannel` and `Transitions`, what the event loop renders and where it goes |
| `InputDecoder` (`MCInputDecoder`) | `input/decoder.rs` | one byte |
| `SshProofs` | | theorems about `SessionRegistry`, `AnsiScreen` and `InputDecoder`: a connection, and its two directions |
| `Interaction` (`MCInteraction`) | the loop's handlers of input and pages | one event, or one render |
| `InteractionProofs` | | theorems about `Interaction` |
| `PageProofs` | | theorems about `Page` and the operators it composes |
| `Recursion` | | lemmas about recursive functions, sums over sets and sequences, for the proofs |
| `Folding` | | what a fold over a sequence computes, for any operator; instantiated for each fold that is proved about |
| `Markup` | `parser/thtml.rs` | operators: source to tree, and the tree that the tags describe |
| `Cascade` | `parser/tcss.rs` | operators: sheet to computed styles, and the cascade that is meant |
| `Boxes` | `layout/` | operators: styles to boxes, paint order, hit test |
| `Painting` | `render/renderer.rs`, overlays of `session.rs` | operators: boxes to cells and graphics |
| `Frames` | `render/diff.rs`, both sinks, the canvas | operators: two buffers to commands, bytes, display |
| `Page` (`MCPage`) | one session from source to display | composes the five modules above |

The `MC` modules only add symmetry sets, and the pages, files and inputs of an
instance. `Page` EXTENDS `Frames`, which EXTENDS `Painting`, `Boxes`, `Markup` and
`Cascade` in turn: the order of the pipeline.

### State and actions against the code

**FrameChannel.** `queue`, `closed` are the fields under the mutex. Messages are
numbered in the order of acceptance, so a message is its number. `handle` says
where every `Sender` clone is in its life; the three steps of Drop (read the
strong count, close, release the `Arc`) are three actions, since the count is
read without the lock. `recv` is `AsyncCheck` (under the lock) and
`AsyncRegister` (`notified().await`): a step of a sender fits in between.
`permit` is the permit of `tokio::sync::Notify`, which `notify_one` stores and
`notify_waiters` does not. `sent`, `got`, `dropped`, `delivered`, `cleared` are
history.

**SessionRegistry.** Each lock acquisition, with what follows until the next
one, is a step. A guard that outlives its step is in `lock`: the read guard on
`tokens` in `reattach`, the write guard on `sessions` in `remove_session` (the
scrutinee of an `if let`), the write guard on `next_id` (`idOwner`). A writer of
`parking_lot` that finds readers keeps new readers out while it waits
(`ClaimTokens`). Tasks in `Ssh` serve one SSH channel after another, tasks in
`Web` one WebSocket after another, the reaper scans and removes. A token is
random and unique, so it is represented by the session's id. Of the event loop
only its use of the global video players is here (`LoopPoll`, `LoopRender`).

**WebSession.** A variable for every atomic and lock of `ClientSession` that the
parts share, and a program counter each for handler, writer and loop. `loop[c]`
is the loop that the handler of `c` started. The frame sink's epoch check
(`LoopLoad`), its choice of the queue (`LoopSend`) and the two drops at the end
(guard of the flag, then sink) are steps. A frame is `data` or a termination;
what it draws is not modelled.

**WebClient.** A state per WebSocket object, `currentSocket`, `uiState`, and the
page's timers. A callback is an action. The server's frames that matter
(`[0xFF, n]`, 0x34) are actions of the environment.

**AnsiScreen.** A turn of `EventLoop::run` is batch, resize, render. The document
is abstracted to the screen it would draw (`want`); a frame is the cells it
paints, as `DiffEngine::diff` picks them. All events that ask for a render are one
flag, because the loop treats them alike. `synced` is history: it is false from
the moment a frame was pushed out of the channel until the next clear.

**AppState.** `store`, `dirty`, `subs` and `token` are the `StateManager` behind the
session's lock (`token` is its entry `_app_token`); the document is the loop's own.
Every lock acquisition is a step: the read and the write of a keystroke, the
injection into a new document and its installation, the comparison and the write of
a token, and each For node of an expansion. A thread of the dispatcher goes from
`asked` over `answered` (open_url posted) and `patch` (token posted) to `notify`; a
handler of the patch route from `token` (compared) over `frame` (written) to the
same `patch` and `notify`. What an action or a patch computes is any assignment of
values to keys, so limits and reserved keys are within it. A node stands for one
bound attribute, since `sync_dirty_state` keeps each in the same way; its text is
the value and not the value's wording. `unshown` and `unfolded` are history: they
name the ways by which the document may fall behind without a property being at
fault (a keystroke without a frame, a lost StatePatched, an action or a page that
expands nothing), so that every other way is one.

**Transitions.** `store` is the value of the key an attribute is bound to, `style` the
field of the node's `ComputedStyle`, `base` the controller's baseline, `move` its
transition. `Render` is what a turn does in its order: `restore_baselines`,
`sync_dirty_state`, `sync_transitions`, `tick`; `TakePatched` is the arm of StatePatched,
which syncs outside of it. Time is the phase of a transition (before the end of its
delay, in between, over); an easing gives the start, the target, or any value in
between. `stolen` is history: the changes that `TakePatched` took out of the dirty keys.

**InputDecoder.** One action per byte (`feed_slice`, `step` by state), `Pause` is the guard of
200 ms. The terminal's side, the encoding of what is typed, is external. An item is
sent byte by byte, so every cut is a behaviour; noise comes between items.

**Interaction.** One action per event of `EventLoop::run`, and `Render`. A page is a
tree of rows; layout and centering are those of a column. Names and numbers of nodes
are those of the arena, which begin again with every document: that is the hazard.
`doc` numbers the documents; what the loop keeps beside it (layout, drag, parents,
templates) carries the number it was made for.

**Markup to Page.** The functions of the code are operators with their names, and what
they are for is stated beside them without the code's way of doing it: `Nests` (by matching
tags) beside `Parsed` (by the stack of a descent), `Cascades` (by specificity) beside `Styled`
(by passes), `Laid` (the painter) beside `LineCount` (the layout), `owner` (painted
last) beside `FindNode`. `Page` has the state of one session: document,
front buffer, the client's display, and the actions `Load`, `Toggle` (a bind-show
condition), `Render` (compute, paint, overlays, sink, swap) and `Reconnect`
(a browser's new connection). A cell of the display is a character, two colours, and
whether it is the second half of a wide glyph: on a terminal, which is external, whoever overwrites one half
takes the other away (`Torn`), and a character of no width changes nothing; a canvas paints over
the cells and leaves what is beside them. The painters' layers are functions from a part of the
screen, laid over each other by `Atop` and `Over`. Scroll offset and focus of a frame are any that the
layout allows, since `Interaction` says which ones come about. Frames are not lost in
`Page`: `AnsiScreen` and `WebSession` are about that.

## 3. Runs

| Run | Bounds | Shows |
|---|---|---|
| `FrameChannel` | 3 handles, capacity 2, 4 messages | refinement of `LossyFifo` (`FifoSpec`), `LastDropCloses`, `NoStuckMessage` |
| `SessionRegistry` | 1 SSH channel, 1 WebSocket, reaper, limit 1, 3 sessions, 1 with a video | `MapsAgree`, `SshSessionRegistered`, `BoundedOvershoot`, `OnlyLockOrderHangs` |
| `SessionRegistryDeadlock` | 2 WebSockets, reaper, limit 2 | violated: `ReattachReturns` |
| `WebSession` | 2 connections, queues of 2, idle time-outs | `OneLoop`, `CountsConnections`, `NeverAbandoned`, `InstalledOrTold` |
| `WebSessionLive` | 2 connections, queues of 1 | `LoopEndsAfterLast`, `HearsOfTheEnd` |
| `WebClient` | 4 sockets | `NeverStranded`, `Reconnects` |
| `AnsiScreen` | 2 cells, 2 glyphs, channel of 2, batches of 2 | `FrontIsShown`, `NoForgottenRender`, `TerminalRestored`, `ScreenConverges` |
| `AppState` | 1 key, 2 values, 2 pages, 1 request, 1 handler, queue of 2, 3 inputs | `StaleIsDirty`, `PatchesReachTemplates`, `BoundConverges`, `SyncSettles` |
| `Transitions` | 2 attributes, 2 values, 4 inputs | `FollowsState`, `StartsWhereShown`, `RetargetsInFlight`, `GoesIdle` |
| `InputDecoder` | capacity 12, items of every kind, 14 bytes of noise, 4 at a time | `KeepsWhatItReads`, `DecodesEachItem` |
| `Interaction` | 3 pages (one missing) in 3 files, 2 heights, 1 token, 1 list item, 4 inputs | `NothingOfTheOldPage`, `FocusAtRest`, `HitsWhatIsDrawn`, `FocusRevealed`, `KeepsManualScroll` |
| `Page` | 7 by 4 cells, 6 documents and all 1463 sources of up to 3 tokens, 3 clients, 2 scroll offsets, 1 reconnect | `TreesMatch`, `StylesCascade`, `TextHasRoom`, `HitsTopmost`, `ClientShowsFront`, `PicturesFollow` |

The type invariants (`TypeOK`) and what `FifoSpec` implies about the channel (`NewestKept`,
`EveryMessageAccounted`, `InOrder`) are proved and need no run; they hold in the instances
of the runs too, where they were checked before they were proved. `KeepsWhatItReads` is the
type invariant of the decoder, and more; `TypeOK` of `Interaction` is defined with its proofs,
whose lemmas it needs; `Page` states none.

Deadlock is checked for `InputDecoder` and `Page`. The other systems may
stop (all handles dropped, all sockets used up, the loop ended), and the bounds stop them too.

**Why the bounds are enough to see the cases.** A queue of two overflows while
its receiver is between check and registration, and can hold a message that
survives and one that does not. Three handles let two drops overlap under a
third. With one slot and two tasks the limit is passed by as much as two creations
can; three session ids let a slot be used again, also by a WebSocket whose session
outlives it. What more WebSockets could do is covered by the proofs, not by a run. Two connections are all a
session knows at a time (the installed one and the one that takes over), and
each of them can be first, old, or late. Four sockets let two old ones be
closing while two attempts are under way. Two cells let a difference paint one
and leave the other; a channel of two holds a clear and a difference. One key is
enough for `AppState`, since no step of a key depends on another; the two pages differ in
whether they have a node for it; three inputs let an answer, a pushed patch and a
page meet, and requests that arise from them are not bounded.
Two attributes of `Transitions` let one rest while the other moves, and two values are
a start and a target; four inputs are a change, its redirection and two more events.
The capacity of the decoder is scaled from 256 to 12, which the longest items reach
and a token of 8 bytes overflows with its noise; four bytes of noise are a torn
character, an unknown sequence, or the beginning of any item. In `Interaction` one list
item makes a For node grow, heights of 3 and 6 make a page fit or scroll, and four
inputs reach a page by a click after a scroll and a change of state. The documents of
`Page` were chosen so that each stage meets its cases: wrapped text with wide
characters and a forced line, boxes over each other that appear and disappear, a page
higher than the screen with a picture that scrolls out, pictures that are
missing or cannot be decoded, fixed nodes, and characters without a width; the sources of
three tokens contain every pair of tags, comments and stray text around a third token.
`LeadsTo` (a few orders of pages) bounds which pages follow each other.
`MaxSend`, `MaxIds`, `MaxInputs`, `MaxNoise`, `MaxItems`, `MaxReconnects`, `LeadsTo`, `Typed`, the sets
`Conns`, `Sockets`, `Heights` and `Offsets`, and `MayIdle` bound only what a behaviour may contain,
not what a step may do.

**Fairness.** `FrameChannel`: the consumers receive in a loop, and a thread that
holds a lock or was woken is scheduled (weak fairness of the receiver's steps and
of a Drop that has begun). `SessionRegistry`: strong fairness of each task's
steps once an operation has begun, since `parking_lot` locks are eventually fair
and keep readers behind a waiting writer; nothing is assumed of connections,
channel closes or the reaper's timer. `WebSession`: handler, writer and loop go on
when they can; that a client sends, hangs up or reconnects is not assumed.
`WebClient`: timers fire, an attempt ends, and a server that is asked again and
again answers (strong fairness of `OnOpen`). `AnsiScreen`: the loop's steps, the
output task and the passing of time; not the user. `AppState`: the loop's steps and those
of a request that was answered; that the user or the app server does anything is not
assumed. A render that is wanted comes, so `BoundConverges` is about a loop that runs and
whose output is not paused for ever (`AnsiScreen` has the pauses). A request
that is never answered is no thread of the model: it changes nothing.
`SyncSettles` needs an app server that has one token for a user (`Issued`), as the Spotify
server has; with two it could alternate for ever. `Transitions`: the loop turns, takes
its events and renders, and time passes; nobody has to change anything.
The other specifications have no liveness property and assume no fairness.

### Where the code does not do what it says

`SessionRegistryDeadlock` must be violated; the finding in `PROJECT.json` quotes the
comment. `reattach` locks tokens, then sessions; `remove_session` locks sessions, then
tokens. `OnlyLockOrderHangs` shows that nothing else in the registry can hang.

### Known gaps that no run repeats

The modules state further formulas that the code does not satisfy, each with a
comment that says so. They are one line in a `.cfg` away from their traces:

* `FrameChannel!CloseWakesAsyncReceiver` (one handle, capacity 1): `Drop` uses `notify_waiters`
  (`backpressure.rs` 180), which is lost between the check of `recv()` and its registration;
  the output task of an SSH shell sleeps on. The comment of `close`: "Closes the channel,
  notifying all blocked receivers."
* `WebSession!ReopenedStaysOpen`: the last writer closes the channel (`web.rs` 785) of a session
  that has been reattached to since it read the count.
* `AnsiScreen!DroppingIsSafe`: a difference that the full channel pushes out is never repaired,
  although `docs/ARCHITECTURE.md` 74 calls the dropping of frames safe.
* `AppState!TokenDelivered`: the token of an answer (`dispatcher.rs` 77) goes to the state and
  not to the browser; only a pushed patch sends frame 0x35. `docs/app-server-guide.md` 84 promises
  it for both.
* `Transitions!AlwaysRestsAtState`: a change whose dirty key the arm of StatePatched takes
  before the render is undone by `restore_baselines`: the style is put back to the baseline, and
  the key is no longer dirty. It shows when the key changes once more.
* `SessionRegistry!LimitRespected`: two creations pass the check together
  (`BoundedOvershoot` says how far this can go).
* `SessionRegistry!PlayersFreed`: the last session is removed and the players
  cleared (`session.rs` 435-437) while its loop is past its look at the channel;
  the loop renders once more and starts a player.
* `SessionRegistry!ReapedStaysClosed`: a reattach that looked the session up before
  the reaper removed it reopens it afterwards (`web.rs` 708).
* `WebSession!NoStaleReason`: the loop stores `death_reason = 1` after the handler
  of a new connection has reset it (`session.rs` 1577, `web.rs` 824).
* `WebSession!FullFrameArrives`: the epoch is counted up (`web.rs` 741) before the
  queue is installed; a render in between sends the full frame to the old queue.
* `WebClient!IdleTabWakes`: the one attempt of an idle tab fails; `onClose` returns at once
  because the tab is still IDLE (`index.html` 593, against its comment in 635), and the
  listener is no longer armed.
* `WebClient!OneAttempt`: the close event of a stale socket schedules an attempt
  while another is connecting.
* `WebClient!TakenOverCloses`: the page forgets its socket and does not close it.
* `WebClient!ErrorIsTransient`: a second error within 2.5 s becomes what the first
  one's timer restores.
* `AnsiScreen!PausedWritesNothing`: what is queued is written after XOFF, and a
  resize queues a clear.
* `AppState!ForNodesCurrent`: the comment of `expand_all_for_nodes` (`session.rs` 1247) says it
  runs "after every state mutation that may affect a For node"; actions, keystrokes
  and page loads do not call it, so a list that an action appends to, or that a newly loaded
  page shows, waits for the next StatePatched.
* `AppState!DroppedFrameInvisible`: a keystroke whose frame the throttle refuses
  (`session.rs` 1777) is in the state and not on the screen until something else renders;
  the comment there calls this invisible.
* `AppState!TypingKeepsPatches`: a patch of the key between the read and the write of a
  keystroke (`session.rs` 1418-1427) is overwritten.
* `Interaction` and `Page` have their properties where the code keeps them; the exceptions are in
  the formulas, by name, and listed here. Input and pages:
  - `unseen`: the last keystroke is not rendered when the throttle refuses it.
  - For nodes are not expanded after a page load, an action or a keystroke, and the loop's
    parents are not rebuilt after an expansion.
  - The focus is kept by id: on a new page it may be on whatever has the number.
  - A press above the page's first row saturates to that row; a press on the status bar hits the
    hidden row below it; a press between a scroll or a resize and the next frame is located with the
    new offset in the old picture.
  - `SwitchViewport` when the bucket is empty changes `is_mobile` and loads nothing (`session.rs` 1664).
  - A drag starts from the page's coordinates as if they were the parent's (`session.rs` 1509); a
    release that is lost keeps the loop at 16 ms.
  - Keys of the private use area (PageUp is U+F72E) are typed into a focused input.
* From source to screen:
  - Comments inside an element become text (`docs/thtml-reference.md` 230); a declaration that does not
    parse silently ends the sheet; `all` in a transition leaves out two margins.
  - A wrapped text needs more lines than the layout counts when a word of wide characters is longer than
    the line (`engine.rs` 42), and when it is padded; a bordered text loses the room of its border.
  - `position: fixed` is painted without the scroll offset and hit-tested with it; a browser's media
    layer ignores it too, and clamps what begins above the screen (`session.rs` 1898).
  - The pen of the client is not reset between frames (nor is bold, which `Shows` does not look at), so a colour "reset" shows what came before; an
    overlay that starts in the second half of a wide character is never sent; the canvas keeps
    the right half of an old wide character; a character of no width in an input shifts the row. The cell
    beside a picture may show a blank half of a wide glyph whose other cell the picture has taken.
  - `update_doc` dirties the front buffer and forgets its graphics: placements of Kitty survive a page
    load to a page without any (`orphans`). A picture that moves leaves its old placement; one that begins above
    the screen is not drawn and its cells are skipped.
  - `sent_assets` (`web.rs` 210) is keyed by the relative source, whatever the page's directory.
  - What is typed outside of inputs stays painted as unconfirmed: nothing confirms it (`session.rs` 1772).
  - The outermost box without a height is 65535 rows high.
* Two pushed patches with different tokens write the state in one order and send their
  frames in another; the same holds for a push and an answer.

## 4. Proofs

TLAPS proves the following for every value of the constants that the modules'
assumptions allow (any number of handles, tasks, connections, sockets, cells, attributes and
pages, any capacity and any limit). The assumptions only say that capacities are positive naturals, that
the distinguished values are or are not in their sets, and that sets are finite
where a cardinality is taken.

* `RenderLoopProofs`, the channel: `ChannelTypeOK`, `NewestKept`, `EveryMessageAccounted`, `InOrder`,
  `NoLostMessageWakeup`, `DropClosesAlone`, `LastDropCloses`, and `Spec => FifoSpec`.
  `QueueInv` joins the numbers of the history with the queue: each needs the
  others (an overflow is counted because the queue is an interval). `DropInv` is
  the invariant behind Drop: a handle that saw a count of one is alone
  (`DropClosesAlone`), drops that did not overlap are alone in the channel
  (`SoloDrop`), and so the last has closed it (`LastDropCloses`). The refinement
  maps the queue to the interval `(sent - Len(queue), sent]`; every step is a step
  of `LossyFifo` or a stutter.
* `SshProofs`, the registry: `RegistryTypeOK`, `MapsAgree`, `SshSessionRegistered`,
  `BoundedOvershoot`, by one inductive invariant. Its core is ownership: a task that is
  creating a session, or an SSH channel that has one, is alone with that id, since
  the reaper and the WebSockets only come by ids some browser was told (`Placed`,
  `Fresh`, `Public`, `Exclusive`). With it a removal and a creation never meet on
  one id, so the maps differ only for sessions between two locks (`Halfway`), and
  the count of a session equals the WebSockets counted for it (`Counts`), which
  keeps it above zero. `Slots` bounds the sessions and the tasks past the check
  together; the limit follows.
* `WebProofs`, the session: `TypeOK`, `CountsConnections`, `OneLoop`, `InstalledOrTold`,
  `NeverAbandoned`, by one inductive invariant. Beside the four properties it
  holds that connections past the counting of the epoch have different epochs,
  not above `connection_epoch` (`EpochsDiffer`: it is why a writer that compares
  epochs uninstalls only its own queue), the order of handler and writer
  (`Progress`), and that a loop on its way out carries a termination
  (`TellsTermination`). `NeverAbandoned` needs `OneLoop`: the flag is cleared by the
  loop that owns it, before its sink sends the termination.
* `WebProofs`, the tab: `TabTypeOK` and `NeverStranded`. The strengthening (`TabInv`) says which
  socket states leave the tab without a current socket, and that a tab without a
  connection that is not reconnecting rests.
* `SshProofs`, the screen: `TypeOK`, `FrontIsShown`, `NoForgottenRender`,
  `TerminalRestored`. `FrontIsShown` is inductive with the type: draining one frame
  keeps what a cell will show. `RenderInv` adds that a pending render or an event
  is noted on every path that leaves the screen behind; `FarewellInv` that the
  leave frame is the last in the channel.
* `SshProofs`, the decoder: `KeepsWhatItReads` and `DecodesEachItem`, for any set of items, any noise and
  any capacity. `Kept` is what the three fields hold in each state. `Reads` joins it with the line:
  an item that was begun is in the buffer as far as it was sent (a sequence), or in `utf8` (a
  character), and nothing was told before its last byte. What a whole item is then told as
  (`ItemShapes`) rests on round trips, each a lemma of its own: the decimal numbers of a sequence are parsed to
  what they were (`ParseDecimal`), a list is split into what was joined (`TwoParts`,
  `ThreeParts`), the flags of a key or a button are the bits of their sum (`KeyFlags`,
  `MouseFlags`), and the bytes of a code point are accepted one by one and give it back (`Coded`).
* `AppStateProofs`: `TypeOK`, `StaleIsDirty`, `PatchesReachTemplates`. `Bindings` adds to
  `StaleIsDirty` the document that is loaded and not yet installed, and that the
  subscriptions are those of the document the loop will have; without it the next sync
  could drain a key that a node of the installed document still waits for. `Folding`
  adds that For nodes are left to be expanded only while the loop expands.
* `RenderLoopProofs`, the transitions: `TypeOK`, `FollowsState`, `StartsWhereShown`, `RetargetsInFlight`.
  A render compares targets with baselines, so the invariant ties the baseline to the
  rest: a transition heads for the baseline of its attribute (`MovesToBase`), an
  attribute without one already has the value of the state (`FreshFollows`), and one at
  rest was last shown at its baseline (`RestsAtBase`, which is why a new transition starts
  on the screen's value). `RenderRest` says what a render makes of one attribute.
* `InteractionProofs`: `NothingOfTheOldPage`, `FocusAtRest`, `HitsWhatIsDrawn`, `FocusRevealed`,
  `KeepsManualScroll`, and `TypeOK`. The first is inductive by itself: keys, clicks,
  the end of a drag and the history load pages through the same two lemmas. The others need
  `IInv`: the layout is that of this document and its kinds (`Layout` sums heights over sets of
  nodes: that these sums are numbers and grow with the set is proved), the last frame was drawn from it, and
  the focus is on a node that can have it unless the page was replaced (`HitsDrawn` says how the
  rows of a frame and the hit test divide the page among its nodes). The pages are any
  trees: the assumption asks that their root is a plain element, as the parser makes it
  (`document.rs` 26, `thtml.rs` 118), and that heights are natural numbers.
* `PageProofs`: `StylesCascade`, `HitsTopmost`, `PicturesFollow`, `ClientShowsFront`, for any pages (`PageAssumption`
  asks that a source is a list of tokens whose declarations have numbers where numbers belong), any
  screen and any files.
  - That every source becomes a document (`IsDocument`: a tree numbered so that parents come first) is
    proved along the descent of `Parsed`, token by token. `PageOK` says so of `doc`, and that the
    last frame was laid out and drawn from it.
  - `StylesCascade`: a list of declarations is `Ranked` if each outranks the one before. The declarations
    of one rule are; joining keeps it when all of the second list outranks the first
    (`RankedJoined`), so the rules of one kind are, in the order of the sheet, and the four passes are
    together (`RankedAll`), and what they list is exactly what bears on the node. The last
    declaration that sets a value is then the top one of those that could (`LastDecides`), and `TakesAll`
    says which parts of a style one declaration sets and which it leaves.
  - `HitsTopmost`: the paint order puts every shown node after its parent and each once
    (`PaintOrderOK`), the owner of a cell is the last in that order whose box has it (`DrawnOwners`), and the
    hit test goes through the same order backwards (`LastFound`).
  - `PicturesFollow`: `Media` ties the pictures of a browser to those of the last frame, and says of a
    Kitty terminal what `orphans` excuses.
  - `ClientShowsFront`: `DisplayOK` says that a terminal's halves are exactly those behind its wide
    glyphs, and that the display `Holds` the front buffer unless a page load has dirtied it. A frame is followed
    cell by cell. `Mid` is the invariant of the loops of `diff`: the client is where the sender takes it
    to be (`Aimed`), the column that comes up next is the one behind the last character (`Reached`), the
    places that were dealt with show the new frame, the others still the old one (`Told`). Beside
    it `Live` says that the commands so far, through `encode_ansi` or onto the canvas, have made of the old
    display the present one, whose pen is the encoder's wherever that is not the client's own
    colour. `EmitOK` and `VisitOK` are one cell, `RowOK` a line, `DiffOK` the frame; wide
    characters are why `Whole` is needed of both frames: what a wide glyph tears is then something that the
    difference writes itself. A frame that is not sent needs `ComposedCells`: what is painted is never
    wholly left to graphics that it does not have, so a redraw of everything is never empty.
  - `RoundTrip`: `decode_binary` undoes `encode_binary`, for any list of commands that `diff` may produce. Every
    command is read at the place where the one before it ends (`EncodePlaces`).
* `Recursion` and `Folding` have what these proofs share. A recursive function of TLA+ is a `CHOOSE`, so
  nothing is known of it until a function that satisfies its equation is shown to exist; `Iterate` (up to
  a bound) and the lemmas on measures give it, and a least counterexample (`WFMin` of the library, which
  takes no operator) stands for induction. `FoldSteps` turns a fold into its sequence of
  intermediate results, and `UpTo` carries a fact along it.

Model-checked only: liveness (`NoStuckMessage`, `OnlyLockOrderHangs`,
`LoopEndsAfterLast`, `HearsOfTheEnd`, `Reconnects`, `ScreenConverges`, `BoundConverges`, `SyncSettles`, `GoesIdle`), which is
out of the prover's reach, and two properties of `Page`. `TextHasRoom` relates two recursions over
characters, the layout's count of lines and the painter's breaking of them; `TreesMatch` relates the stack of a
descent to the matching of tags, both recursive in the source. Each needs an induction over the text that is
stronger than either recursion alone.

What the proofs found wrong in the models, and is corrected there: the arms of some `CASE`
expressions of `Markup`, `Boxes`, `Painting` and the decoder overlapped, where TLC takes the first and
TLA+ leaves open which (they are disjoint now, or a chain of `IF`). `Interaction` left open
what the root of a page is. `Boxes` let a box that a negative offset pushes out keep its negative
place, where the engine casts it to `u16` (`Clamped`, `engine.rs` 271-274). A union in `Bearing` was
read differently by the two tools, and has its parentheses now. The display knew nothing of the halves of
wide glyphs, so that a blank behind one counted as shown whatever had been there, and a terminal gave a
column to characters that have none; `ClientShowsFront` now says where a half may be.

## 5. What is not modelled

* Characters and bytes below tokens: attribute syntax, entities, sanitizing, the wording of
  messages, easing curves and springs beyond their ends, pixels, sixel and Kitty payloads, the layout of
  diagrams. The caches of images and videos are transparent in `Page`.
* Of the style: `flex`, `justify-content`, `opacity`, underline and italics. Taffy is external, and modelled
  where nothing grows or shrinks.
* In `AppState`, what an action computes, the wording of values, attributes that do not
  parse, `bind-show` (evaluated at layout time against the store), the cache of For
  templates, and nodes bound to `_app_token`, which can be removed from the store.
* Of the loop: diagram overlays, the toggle of rive files, and how `open_url` looks.
* The reactor thread beyond the decoder; the per-address rate limiter; authentication, HTTP routes, path
  checks, configuration, metrics, the CLI, the accessibility sink, the event bus: no
  interleaving of their own.
* The rest of the SSH server: a second shell request on one channel, a loop that ends by itself while its
  session stays registered (`ssh/server.rs` 157, `session.rs` 1574).
* In `WebSession`, media and page announcements, and the identity handshake: they
  add frames to the same queue.

## 6. Plan

1. `FrameChannel` over `LossyFifo`, `SessionRegistry`, `WebSession`, `WebClient`,
   `AnsiScreen`, `AppState`, with their runs and their proofs. *Done.*
2. `Transitions`, `InputDecoder`, `Interaction`, and the pipeline `Markup`, `Cascade`, `Boxes`,
   `Painting`, `Frames`, `Page`, with their runs. *Done.*
3. Proofs of `Transitions`, `Interaction` and `InputDecoder`. *Done.*
4. Proofs about the pipeline of `Page`: the documents, the cascade, the hit test, the pictures, the
   difference on the display. *Done.* Left to TLC are the tree against the tags and the room for text.
5. SSH channels: a second shell on a channel, a loop that ends by itself; the address window; the
   eviction of the asset cache.
6. `WebSession` composed with `WebClient`: the client's reconnects against the
   server's takeovers.
