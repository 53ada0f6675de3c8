------------------------------- MODULE WebProofs -------------------------------
(***************************************************************************)
(* Proofs about both ends of a WebSocket: WebSession, for any number of    *)
(* connections and any capacity of their queues, and WebClient, for any    *)
(* number of sockets at the same time.                                     *)
(*                                                                         *)
(* The inductive invariant Inv of the session adds to the properties what  *)
(* they rest on: epochs are distinct, and the writer of a connection       *)
(* exists only after its handler has counted it.  That of the tab, TabInv, *)
(* is its type and NeverStranded.                                          *)
(***************************************************************************)
EXTENDS WebSession, WebClient, FiniteSetTheorems, TLAPS

\* Connections differ by their epochs, once they have one.
EpochsDiffer ==
    \A c, d \in Conns : ep[c] = ep[d] /\ ep[c] # 0 => c = d

\* Where a handler is, its connection has or has not an epoch and a writer.
Progress ==
    \A c \in Conns :
        /\ ep[c] <= epoch
        /\ handler[c] \in {"new", "count", "epoch"} <=> ep[c] = 0
        /\ handler[c] \in {"new", "count", "epoch", "install"} <=> writer[c] = "none"

\* A loop on its way out is about to send a termination.
TellsTermination == \A e \in Conns : loop[e] = "tell" => frame[e] \in Terminations

Inv == TypeOK /\ CountsConnections /\ EpochsDiffer /\ Progress /\ TellsTermination

Inv2 == Inv /\ OneLoop /\ InstalledOrTold /\ NeverAbandoned

LEMMA InitInv == Init => Inv2
<1> SUFFICES ASSUME Init PROVE Inv2
  OBVIOUS
<1> USE DEF Init
<1>1. TypeOK
  <2>1. <<>> \in Seq(Queued) /\ Len(<<>>) = 0
    OBVIOUS
  <2>2. \A c \in Conns : out[c] = <<>>
    OBVIOUS
  <2>3. out \in [Conns -> Seq(Queued)] /\ \A c \in Conns : Len(out[c]) <= OutCap
    BY <2>1, <2>2, WebAssumption
  <2>4. handler \in [Conns -> HandlerValues] /\ writer \in [Conns -> WriterValues]
    BY DEF HandlerValues, WriterValues
  <2>5. /\ ep \in [Conns -> Nat] /\ seen \in [Conns -> Nat]
        /\ loop \in [Conns -> LoopValues]
        /\ frame \in [Conns -> {"full", "diff"} \cup Terminations]
    BY DEF LoopValues
  <2> QED
    BY <2>3, <2>4, <2>5 DEF TypeOK
<1>2. CountsConnections
  <2>1. Counted = {}
    BY DEF Counted
  <2> QED
    BY <2>1, FS_EmptySet DEF CountsConnections
<1>3. EpochsDiffer /\ Progress /\ TellsTermination
  BY DEF EpochsDiffer, Progress, TellsTermination
<1>4. OneLoop /\ InstalledOrTold /\ NeverAbandoned
  BY DEF OneLoop, Turning, InstalledOrTold, NeverAbandoned
<1> QED
  BY <1>1, <1>2, <1>3, <1>4 DEF Inv2, Inv
-----------------------------------------------------------------------------
(* What sending does to the queues. *)

\* A queue keeps its type and its bound.
LEMMA SentType ==
    ASSUME TypeOK, NEW c \in Conns \cup {None}, NEW f \in Queued
    PROVE  /\ Sent(c, f) \in [Conns -> Seq(Queued)]
           /\ \A d \in Conns : Len(Sent(c, f)[d]) <= OutCap
<1>1. CASE Accepts(c)
  <2>1. c \in Conns
    BY <1>1 DEF Accepts
  <2>2. /\ Append(out[c], f) \in Seq(Queued)
        /\ Len(Append(out[c], f)) <= OutCap
    BY <1>1, <2>1, WebAssumption DEF TypeOK, Accepts
  <2> QED
    BY <1>1, <2>1, <2>2 DEF TypeOK, Sent
<1>2. CASE ~Accepts(c)
  BY <1>2 DEF TypeOK, Sent
<1> QED
  BY <1>1, <1>2

\* Whoever is informed stays so while frames are sent.
LEMMA SendKeepsInformed ==
    ASSUME TypeOK, NEW c \in Conns \cup {None}, NEW f \in Queued, NEW d \in Conns,
           Informed(d), Send(c, f), told' = told
    PROVE  Informed(d)'
<1>1. CASE d \in told \cup lost
  BY <1>1 DEF Informed, Send
<1>2. CASE \E i \in DOMAIN out[d] : out[d][i] \in Terminations
  <2>1. PICK i \in DOMAIN out[d] : out[d][i] \in Terminations
    BY <1>2
  <2>2. out[d] \in Seq(Queued)
    BY DEF TypeOK
  <2>3. i \in DOMAIN Append(out[d], f) /\ Append(out[d], f)[i] = out[d][i]
    BY <2>1, <2>2
  <2>4. out'[d] = out[d] \/ out'[d] = Append(out[d], f)
    BY DEF Send, Sent, TypeOK
  <2> QED
    BY <2>1, <2>3, <2>4 DEF Informed
<1> QED
  BY <1>1, <1>2 DEF Informed

\* A termination informs a connection whose writer runs.
LEMMA SendInforms ==
    ASSUME TypeOK, NEW c \in Conns, NEW f \in Terminations, writer[c] = "run", Send(c, f)
    PROVE  Informed(c)'
<1>1. CASE Accepts(c)
  <2>1. out'[c] = Append(out[c], f)
    BY <1>1 DEF Send, Sent, TypeOK
  <2>2. out[c] \in Seq(Queued) /\ f \in Queued
    BY DEF TypeOK, Queued
  <2>3. Len(out[c]) + 1 \in DOMAIN Append(out[c], f) /\ Append(out[c], f)[Len(out[c]) + 1] = f
    BY <2>2
  <2> QED
    BY <2>1, <2>3 DEF Informed
<1>2. CASE ~Accepts(c)
  BY <1>2, WebAssumption DEF Send, Missed, Informed
<1> QED
  BY <1>1, <1>2
-----------------------------------------------------------------------------
(* Type correctness and the count of connections. *)

\* The count is a positive number while somebody is counted.
LEMMA CountPositive ==
    ASSUME Inv, NEW c \in Counted
    PROVE  active - 1 \in Nat
<1>1. IsFiniteSet(Counted)
  BY WebAssumption, FS_Subset DEF Counted
<1>2. Cardinality(Counted) # 0
  BY <1>1, FS_EmptySet
<1> QED
  BY <1>2 DEF Inv, TypeOK, CountsConnections

LEMMA HandlerType ==
    ASSUME Inv, NEW c \in Conns, Create(c) \/ Reopen(c) \/ Hangup(c) \/ HandlerStep(c)
    PROVE  TypeOK'
<1> USE DEF Inv, shared, events, conn, loops, history
<1>1. CASE Create(c)
  BY <1>1 DEF Create, HandlerAt, HandlerValues, TypeOK
<1>2. CASE Reopen(c)
  BY <1>2 DEF Reopen, HandlerAt, HandlerValues, TypeOK
<1>3. CASE Hangup(c)
  BY <1>3 DEF Hangup, TypeOK
<1>4. CASE Count(c)
  BY <1>4 DEF Count, HandlerAt, HandlerValues, TypeOK
<1>5. CASE NewEpoch(c)
  BY <1>5 DEF NewEpoch, HandlerAt, HandlerValues, TypeOK
<1>6. CASE Install(c)
  <2>1. out' \in [Conns -> Seq(Queued)] /\ \A d \in Conns : Len(out'[d]) <= OutCap
    <3>1. /\ Sent(tx, "taken") \in [Conns -> Seq(Queued)]
          /\ \A d \in Conns : Len(Sent(tx, "taken")[d]) <= OutCap
      BY SentType DEF TypeOK, Queued, Terminations
    <3>2. <<"data">> \in Seq(Queued) /\ Len(<<"data">>) = 1
      BY DEF Queued
    <3>3. Len(<<"data">>) <= OutCap
      BY <3>2, WebAssumption
    <3> QED
      BY <1>6, <3>1, <3>2, <3>3 DEF Install
  <2>2. lost' \subseteq Conns
    BY <1>6 DEF Install, Missed, TypeOK
  <2>3. handler' \in [Conns -> HandlerValues] /\ writer' \in [Conns -> WriterValues]
    BY <1>6 DEF Install, HandlerAt, HandlerValues, WriterValues, TypeOK
  <2> QED
    BY <1>6, <2>1, <2>2, <2>3 DEF Install, TypeOK
<1>7. CASE Attach(c)
  BY <1>7 DEF Attach, HandlerAt, HandlerValues, TypeOK
<1>8. CASE Swap(c)
  BY <1>8 DEF Swap, HandlerAt, HandlerValues, LoopValues, TypeOK
<1>9. CASE HandlerEnd(c)
  BY <1>9 DEF HandlerEnd, HandlerAt, HandlerValues, TypeOK
<1> QED
  BY <1>1, <1>2, <1>3, <1>4, <1>5, <1>6, <1>7, <1>8, <1>9 DEF HandlerStep

LEMMA WriterType ==
    ASSUME Inv, NEW c \in Conns, WriterStep(c)
    PROVE  TypeOK'
<1> USE DEF Inv, shared, events, conn, loops, history
<1>1. CASE WriterSend(c)
  <2>1. out[c] \in Seq(Queued) /\ out[c] # <<>> /\ Len(out[c]) <= OutCap
    BY <1>1 DEF WriterSend, TypeOK
  <2>2. Tail(out[c]) \in Seq(Queued) /\ Len(Tail(out[c])) <= OutCap
    BY <2>1, WebAssumption
  <2> QED
    BY <1>1, <2>2 DEF WriterSend, TypeOK
<1>2. CASE WriterFail(c)
  <2>1. <<>> \in Seq(Queued) /\ Len(<<>>) = 0
    OBVIOUS
  <2>2. Len(<<>>) <= OutCap
    BY <2>1, WebAssumption
  <2>3. writer' \in [Conns -> WriterValues]
    BY <1>2 DEF WriterFail, WriterAt, WriterValues, TypeOK
  <2> QED
    BY <1>2, <2>1, <2>2, <2>3 DEF WriterFail, TypeOK
<1>3. CASE WriterClear(c)
  BY <1>3 DEF WriterClear, WriterAt, WriterValues, TypeOK
<1>4. CASE WriterSub(c)
  <2>1. c \in Counted
    BY <1>4 DEF WriterSub, WriterAt, Counted, Progress, TypeOK
  <2>2. active - 1 \in Nat
    BY <2>1, CountPositive
  <2>3. writer' \in [Conns -> WriterValues]
    BY <1>4 DEF WriterSub, WriterAt, WriterValues, TypeOK
  <2> QED
    BY <1>4, <2>2, <2>3 DEF WriterSub, TypeOK
<1>5. CASE WriterClose(c)
  BY <1>5 DEF WriterClose, WriterAt, WriterValues, TypeOK
<1> QED
  BY <1>1, <1>2, <1>3, <1>4, <1>5 DEF WriterStep

LEMMA LoopType ==
    ASSUME Inv, NEW e \in Conns, LoopStep(e)
    PROVE  TypeOK'
<1> USE DEF Inv, shared, events, conn, loops, history
<1>1. CASE LoopIdle(e)
  BY <1>1 DEF LoopIdle, LoopValues, TypeOK
<1>2. CASE LoopTimeout(e)
  BY <1>2 DEF LoopTimeout, LoopAt, LoopValues, TypeOK
<1>3. CASE LoopPoll(e)
  <2>1. loop' \in [Conns -> LoopValues]
    BY <1>3 DEF LoopPoll, LoopValues, TypeOK
  <2> QED
    BY <1>3, <2>1 DEF LoopPoll, TypeOK
<1>4. CASE LoopLoad(e)
  <2>1. loop' \in [Conns -> LoopValues]
    BY <1>4 DEF LoopLoad, LoopValues, TypeOK
  <2> QED
    BY <1>4, <2>1 DEF LoopLoad, TypeOK
<1>5. CASE LoopSend(e) \/ LoopUpdate(e)
  <2>1. Sent(tx, "data") \in [Conns -> Seq(Queued)]
        /\ \A d \in Conns : Len(Sent(tx, "data")[d]) <= OutCap
    BY SentType DEF TypeOK, Queued
  <2>2. lost' \subseteq Conns
    BY <1>5 DEF LoopSend, LoopUpdate, Send, Missed, TypeOK
  <2>3. loop' \in [Conns -> LoopValues]
    BY <1>5 DEF LoopSend, LoopUpdate, LoopAt, LoopValues, TypeOK
  <2> QED
    BY <1>5, <2>1, <2>2, <2>3 DEF LoopSend, LoopUpdate, Send, TypeOK
<1>6. CASE LoopExit(e)
  BY <1>6 DEF LoopExit, LoopAt, LoopValues, TypeOK
<1>7. CASE LoopDrop(e)
  BY <1>7 DEF LoopDrop, LoopAt, LoopValues, Terminations, TypeOK
<1>8. CASE LoopTell(e)
  <2>0. frame[e] \in Terminations
    BY <1>8 DEF LoopTell, LoopAt, TellsTermination
  <2>1. /\ Sent(tx, frame[e]) \in [Conns -> Seq(Queued)]
        /\ \A d \in Conns : Len(Sent(tx, frame[e])[d]) <= OutCap
    BY <2>0, SentType DEF TypeOK, Queued
  <2>2. lost' \subseteq Conns
    BY <1>8 DEF LoopTell, Send, Missed, TypeOK
  <2>3. loop' \in [Conns -> LoopValues]
    BY <1>8 DEF LoopTell, LoopAt, LoopValues, TypeOK
  <2> QED
    BY <1>8, <2>1, <2>2, <2>3 DEF LoopTell, Send, TypeOK
<1> QED
  BY <1>1, <1>2, <1>3, <1>4, <1>5, <1>6, <1>7, <1>8 DEF LoopStep
\* Every step keeps the types.
LEMMA TypeStep ==
    ASSUME Inv, [Next]_vars
    PROVE  TypeOK'
<1>1. CASE Next
  <2>1. CASE Post \/ TimePasses
    BY <2>1 DEF Inv, TypeOK, Post, TimePasses, shared, conn, events, loops, history
  <2> QED
    BY <1>1, <2>1, HandlerType, WriterType, LoopType DEF Next
<1>2. CASE UNCHANGED vars
  BY <1>2 DEF Inv, TypeOK, vars, shared, conn, events, loops, history
<1> QED
  BY <1>1, <1>2

\* A step that moves no handler and no writer, or only among counted places,
\* leaves the count as it is.
LEMMA CountStep ==
    ASSUME Inv, [Next]_vars
    PROVE  CountsConnections'
<1> USE DEF shared, events, conn, loops, history
<1>f. IsFiniteSet(Counted)
  BY WebAssumption, FS_Subset DEF Counted
<1>1. ASSUME NEW c \in Conns, Create(c) \/ Count(c)
      PROVE  CountsConnections'
  <2>1. writer[c] = "none" /\ handler[c] \in {"new", "count"}
    BY <1>1 DEF Create, Count, HandlerAt, Inv, Progress
  <2>2. Counted' = Counted \cup {c} /\ c \notin Counted
    BY <1>1, <2>1 DEF Create, Count, HandlerAt, Counted, Inv, TypeOK
  <2>3. active' = active + 1
    BY <1>1 DEF Create, Count
  <2> QED
    BY <1>f, <2>2, <2>3, FS_AddElement DEF Inv, CountsConnections
<1>2. ASSUME NEW c \in Conns, WriterSub(c)
      PROVE  CountsConnections'
  <2>1. c \in Counted
    BY <1>2 DEF WriterSub, WriterAt, Counted, Inv, Progress, TypeOK
  <2>2. Counted' = Counted \ {c}
    BY <1>2 DEF WriterSub, WriterAt, Counted, Inv, TypeOK
  <2>3. active' = active - 1
    BY <1>2 DEF WriterSub
  <2> QED
    BY <1>f, <2>1, <2>2, <2>3, FS_RemoveElement DEF Inv, CountsConnections
<1>3. ASSUME NEW c \in Conns,
             \/ Reopen(c) \/ Hangup(c) \/ NewEpoch(c) \/ Install(c) \/ Attach(c)
             \/ Swap(c) \/ HandlerEnd(c)
      PROVE  CountsConnections'
  <2>1. Counted' = Counted
    BY <1>3 DEF Reopen, Hangup, NewEpoch, Install, Attach, Swap, HandlerEnd, HandlerAt,
                Counted, Inv, TypeOK, Progress
  <2>2. active' = active
    BY <1>3 DEF Reopen, Hangup, NewEpoch, Install, Attach, Swap, HandlerEnd
  <2> QED
    BY <2>1, <2>2 DEF Inv, CountsConnections
<1>4. ASSUME NEW c \in Conns,
             WriterSend(c) \/ WriterFail(c) \/ WriterClear(c) \/ WriterClose(c)
      PROVE  CountsConnections'
  <2>1. Counted' = Counted
    BY <1>4 DEF WriterSend, WriterFail, WriterClear, WriterClose, WriterAt, Counted, Inv, TypeOK
  <2>2. active' = active
    BY <1>4 DEF WriterSend, WriterFail, WriterClear, WriterClose
  <2> QED
    BY <2>1, <2>2 DEF Inv, CountsConnections
<1>5. ASSUME (\E e \in Conns : LoopStep(e)) \/ Post \/ TimePasses \/ UNCHANGED vars
      PROVE  CountsConnections'
  <2>1. UNCHANGED <<handler, writer, active>>
    BY <1>5 DEF LoopStep, LoopIdle, LoopTimeout, LoopPoll, LoopLoad, LoopUpdate, LoopSend, LoopExit,
                LoopDrop, LoopTell, Post, TimePasses, vars
  <2> QED
    BY <2>1 DEF Inv, CountsConnections, Counted
<1> QED
  BY <1>1, <1>2, <1>3, <1>4, <1>5 DEF Next, HandlerStep, WriterStep

\* Epochs are handed out one by one.
LEMMA EpochStep ==
    ASSUME Inv, [Next]_vars
    PROVE  EpochsDiffer' /\ Progress'
<1> USE DEF shared, events, conn, loops, history
<1>1. ASSUME NEW c \in Conns, NewEpoch(c)
      PROVE  EpochsDiffer' /\ Progress'
  <2>1. /\ ep[c] = 0 /\ ep' = [ep EXCEPT ![c] = epoch'] /\ epoch' = epoch + 1
        /\ writer' = writer /\ handler' = [handler EXCEPT ![c] = "install"]
        /\ handler[c] = "epoch" /\ writer[c] = "none"
    BY <1>1 DEF NewEpoch, HandlerAt, Inv, Progress
  <2>2. \A d \in Conns : ep[d] \in Nat /\ ep[d] <= epoch /\ epoch \in Nat
    BY DEF Inv, Progress, TypeOK
  <2>3. EpochsDiffer'
    BY <2>1, <2>2 DEF Inv, EpochsDiffer, TypeOK
  <2>4. Progress'
    BY <2>1, <2>2 DEF Inv, Progress, TypeOK
  <2> QED
    BY <2>3, <2>4
<1>2. ASSUME NEW c \in Conns,
             \/ Create(c) \/ Reopen(c) \/ Hangup(c) \/ Count(c) \/ Install(c)
             \/ Attach(c) \/ Swap(c) \/ HandlerEnd(c)
      PROVE  EpochsDiffer' /\ Progress'
  <2>1. UNCHANGED <<ep, epoch>>
    BY <1>2 DEF Create, Reopen, Hangup, Count, Install, Attach, Swap, HandlerEnd
  <2>2. Progress'
    BY <1>2, <2>1 DEF Create, Reopen, Hangup, Count, Install, Attach, Swap, HandlerEnd,
                      HandlerAt, Inv, Progress, TypeOK
  <2> QED
    BY <2>1, <2>2 DEF Inv, EpochsDiffer
<1>3. ASSUME NEW c \in Conns, WriterStep(c)
      PROVE  EpochsDiffer' /\ Progress'
  <2>1. UNCHANGED <<ep, epoch, handler>>
    BY <1>3 DEF WriterStep, WriterSend, WriterFail, WriterClear, WriterSub, WriterClose
  <2>2. \A d \in Conns : writer'[d] = "none" <=> writer[d] = "none"
    BY <1>3 DEF WriterStep, WriterSend, WriterFail, WriterClear, WriterSub, WriterClose,
                WriterAt, Inv, TypeOK
  <2> QED
    BY <2>1, <2>2 DEF Inv, EpochsDiffer, Progress
<1>4. ASSUME (\E e \in Conns : LoopStep(e)) \/ Post \/ TimePasses \/ UNCHANGED vars
      PROVE  EpochsDiffer' /\ Progress'
  <2>1. UNCHANGED <<ep, epoch, handler, writer>>
    BY <1>4 DEF LoopStep, LoopIdle, LoopTimeout, LoopPoll, LoopLoad, LoopUpdate, LoopSend, LoopExit,
                LoopDrop, LoopTell, Post, TimePasses, vars
  <2> QED
    BY <2>1 DEF Inv, EpochsDiffer, Progress
<1> QED
  BY <1>1, <1>2, <1>3, <1>4 DEF Next, HandlerStep

LEMMA TellsStep ==
    ASSUME Inv, [Next]_vars
    PROVE  TellsTermination'
<1> USE DEF shared, events, conn, loops, history, Inv, TellsTermination
<1>1. ASSUME NEW e \in Conns, LoopStep(e)
      PROVE  TellsTermination'
  <2>1. CASE LoopLoad(e)
    BY <2>1 DEF LoopLoad, TypeOK
  <2>2. CASE LoopDrop(e)
    BY <2>2 DEF LoopDrop, LoopAt, TypeOK, Terminations
  <2>3. CASE LoopIdle(e) \/ LoopTimeout(e) \/ LoopPoll(e) \/ LoopExit(e)
    BY <2>3 DEF LoopIdle, LoopTimeout, LoopPoll, LoopExit, LoopAt, TypeOK
  <2>4. CASE LoopSend(e) \/ LoopUpdate(e) \/ LoopTell(e)
    BY <2>4 DEF LoopSend, LoopUpdate, LoopTell, LoopAt, TypeOK
  <2> QED
    BY <1>1, <2>1, <2>2, <2>3, <2>4 DEF LoopStep
<1>2. ASSUME NEW c \in Conns, Swap(c)
      PROVE  TellsTermination'
  BY <1>2 DEF Swap, TypeOK
<1>3. ASSUME (\E c \in Conns : \/ Create(c) \/ Reopen(c) \/ Hangup(c) \/ Count(c)
                                \/ NewEpoch(c) \/ Install(c) \/ Attach(c)
                                \/ HandlerEnd(c) \/ WriterStep(c))
             \/ Post \/ TimePasses \/ UNCHANGED vars
      PROVE  TellsTermination'
  <2>1. UNCHANGED <<loop, frame>>
    BY <1>3 DEF Create, Reopen, Hangup, Count, NewEpoch, Install, Attach, HandlerEnd,
                WriterStep, WriterSend, WriterFail, WriterClear, WriterSub, WriterClose,
                Post, TimePasses, vars
  <2> QED
    BY <2>1
<1> QED
  BY <1>1, <1>2, <1>3 DEF Next, HandlerStep
-----------------------------------------------------------------------------
(* The invariants of the session. *)

\* The step of a loop is that of one loop, and which label it comes from and
\* goes to decides whether it still takes turns.
LEMMA OneLoopStep ==
    ASSUME Inv2, [Next]_vars
    PROVE  OneLoop'
<1> USE DEF shared, events, conn, loops, history, Inv2, Inv, OneLoop
<1>1. ASSUME NEW c \in Conns, Swap(c)
      PROVE  OneLoop'
  <2>1. CASE running
    BY <1>1, <2>1 DEF Swap, Turning
  <2>2. CASE ~running
    <3>1. loop' = [loop EXCEPT ![c] = "first"] /\ running' = TRUE
      BY <1>1, <2>2 DEF Swap
    <3>2. \A e \in Conns : Turning(e)' <=> e = c
      BY <2>2, <3>1 DEF Turning, TypeOK
    <3> QED
      BY <3>1, <3>2
  <2> QED
    BY <2>1, <2>2
<1>2. ASSUME NEW e \in Conns, LoopExit(e)
      PROVE  OneLoop'
  <2>1. Turning(e) /\ loop' = [loop EXCEPT ![e] = "drop"] /\ running' = FALSE
    BY <1>2 DEF LoopExit, LoopAt, Turning
  <2>2. \A f \in Conns : ~Turning(f)'
    BY <2>1 DEF Turning, TypeOK
  <2> QED
    BY <2>1, <2>2
<1>3. ASSUME NEW e \in Conns,
             \/ LoopIdle(e) \/ LoopTimeout(e) \/ LoopPoll(e) \/ LoopLoad(e)
             \/ LoopUpdate(e) \/ LoopSend(e) \/ LoopDrop(e) \/ LoopTell(e)
      PROVE  OneLoop'
  <2>1. \A f \in Conns : Turning(f)' <=> Turning(f)
    BY <1>3 DEF LoopIdle, LoopTimeout, LoopPoll, LoopLoad, LoopUpdate, LoopSend, LoopDrop, LoopTell,
                LoopAt, Turning, TypeOK
  <2>2. running' = running
    BY <1>3 DEF LoopIdle, LoopTimeout, LoopPoll, LoopLoad, LoopUpdate, LoopSend, LoopDrop, LoopTell
  <2> QED
    BY <2>1, <2>2
<1>4. ASSUME (\E c \in Conns : \/ Create(c) \/ Reopen(c) \/ Hangup(c) \/ Count(c)
                                \/ NewEpoch(c) \/ Install(c) \/ Attach(c)
                                \/ HandlerEnd(c) \/ WriterStep(c))
             \/ Post \/ TimePasses \/ UNCHANGED vars
      PROVE  OneLoop'
  <2>1. UNCHANGED <<loop, running>>
    BY <1>4 DEF Create, Reopen, Hangup, Count, NewEpoch, Install, Attach, HandlerEnd,
                WriterStep, WriterSend, WriterFail, WriterClear, WriterSub, WriterClose,
                Post, TimePasses, vars
  <2> QED
    BY <2>1 DEF Turning
<1> QED
  BY <1>1, <1>2, <1>3, <1>4 DEF Next, HandlerStep, LoopStep

\* Whoever is informed stays informed while the writer runs.
LEMMA InformedStep ==
    ASSUME Inv, [Next]_vars, NEW d \in Conns,
           writer[d] = "run", writer'[d] = "run", Informed(d)
    PROVE  Informed(d)'
<1> USE DEF shared, events, conn, loops, history, Inv
<1>1. ASSUME NEW c \in Conns, Install(c)
      PROVE  Informed(d)'
  <2>1. d # c
    BY <1>1 DEF Install, HandlerAt, Progress
  <2>2. CASE d \in told \cup lost
    BY <1>1, <2>2 DEF Install, Informed
  <2>3. CASE \E i \in DOMAIN out[d] : out[d][i] \in Terminations
    <3>1. PICK i \in DOMAIN out[d] : out[d][i] \in Terminations
      BY <2>3
    <3>2. out[d] \in Seq(Queued)
      BY DEF TypeOK
    <3>3. /\ i \in DOMAIN Append(out[d], "taken")
          /\ Append(out[d], "taken")[i] = out[d][i]
      BY <3>1, <3>2
    <3>4. out'[d] = out[d] \/ out'[d] = Append(out[d], "taken")
      BY <1>1, <2>1 DEF Install, Sent, TypeOK
    <3> QED
      BY <3>1, <3>3, <3>4 DEF Informed
  <2> QED
    BY <2>2, <2>3 DEF Informed
<1>2. ASSUME NEW c \in Conns, WriterSend(c)
      PROVE  Informed(d)'
  <2>1. CASE d # c
    BY <1>2, <2>1 DEF WriterSend, Informed, TypeOK
  <2>2. CASE d = c
    <3>1. CASE d \in told \cup lost
      BY <1>2, <3>1 DEF WriterSend, Informed
    <3>2. CASE \E i \in DOMAIN out[d] : out[d][i] \in Terminations
      <4>1. PICK i \in DOMAIN out[d] : out[d][i] \in Terminations
        BY <3>2
      <4>2. out[d] \in Seq(Queued) /\ out[d] # <<>>
        BY <1>2, <2>2 DEF WriterSend, TypeOK
      <4>3. CASE i = 1
        <5>1. Head(out[d]) \in Terminations
          BY <4>1, <4>2, <4>3
        <5> QED
          BY <1>2, <2>2, <5>1 DEF WriterSend, Informed
      <4>4. CASE i # 1
        <5>1. /\ i - 1 \in DOMAIN Tail(out[d])
              /\ Tail(out[d])[i - 1] = out[d][i]
          BY <4>1, <4>2, <4>4
        <5>2. out'[d] = Tail(out[d])
          BY <1>2, <2>2 DEF WriterSend, TypeOK
        <5> QED
          BY <4>1, <5>1, <5>2 DEF Informed
      <4> QED
        BY <4>3, <4>4
    <3> QED
      BY <3>1, <3>2 DEF Informed
  <2> QED
    BY <2>1, <2>2
<1>3. ASSUME NEW c \in Conns, WriterFail(c)
      PROVE  Informed(d)'
  <2>1. d # c
    BY <1>3 DEF WriterFail, WriterAt, TypeOK
  <2> QED
    BY <1>3, <2>1 DEF WriterFail, Informed, TypeOK
<1>4. ASSUME NEW e \in Conns, LoopSend(e) \/ LoopUpdate(e)
      PROVE  Informed(d)'
  <2>1. Send(tx, "data") /\ told' = told /\ "data" \in Queued
    BY <1>4 DEF LoopSend, LoopUpdate, Queued
  <2> QED
    BY <2>1, SendKeepsInformed DEF TypeOK
<1>5. ASSUME NEW e \in Conns, LoopTell(e)
      PROVE  Informed(d)'
  <2>1. Send(tx, frame[e]) /\ told' = told /\ frame[e] \in Queued
    BY <1>5 DEF LoopTell, LoopAt, TellsTermination, Queued
  <2> QED
    BY <2>1, SendKeepsInformed DEF TypeOK
<1>6. ASSUME (\E c \in Conns : \/ Create(c) \/ Reopen(c) \/ Hangup(c) \/ Count(c)
                                \/ NewEpoch(c) \/ Attach(c) \/ Swap(c) \/ HandlerEnd(c)
                                \/ WriterClear(c) \/ WriterSub(c) \/ WriterClose(c)
                                \/ LoopIdle(c) \/ LoopTimeout(c) \/ LoopPoll(c)
                                \/ LoopLoad(c) \/ LoopExit(c) \/ LoopDrop(c))
             \/ Post \/ TimePasses \/ UNCHANGED vars
      PROVE  Informed(d)'
  <2>1. UNCHANGED <<out, told, lost>>
    BY <1>6 DEF Create, Reopen, Hangup, Count, NewEpoch, Attach, Swap, HandlerEnd,
                WriterClear, WriterSub, WriterClose, LoopIdle, LoopTimeout, LoopPoll,
                LoopLoad, LoopExit, LoopDrop, Post, TimePasses, vars
  <2> QED
    BY <2>1 DEF Informed
<1> QED
  BY <1>1, <1>2, <1>3, <1>4, <1>5, <1>6 DEF Next, HandlerStep, WriterStep, LoopStep
\* The writers decide who is installed, and a takeover informs.
LEMMA InstalledStep ==
    ASSUME Inv2, [Next]_vars
    PROVE  InstalledOrTold'
<1> USE DEF shared, events, conn, loops, history, Inv2, Inv
<1>0. \A d \in Conns : writer[d] = "run" /\ writer'[d] = "run" /\ Informed(d) => Informed(d)'
  BY InformedStep
<1>1. ASSUME NEW c \in Conns, Install(c)
      PROVE  InstalledOrTold'
  <2>1. tx' = c /\ writer' = [writer EXCEPT ![c] = "run"] /\ writer[c] = "none"
    BY <1>1 DEF Install, HandlerAt, Progress
  <2>2. ASSUME NEW d \in Conns, d = tx, writer[d] = "run"
        PROVE  Informed(d)'
    <3>1. d # c
      BY <2>1, <2>2
    <3>2. CASE Accepts(d)
      <4>1. out'[d] = Append(out[d], "taken")
        BY <1>1, <2>2, <3>1, <3>2 DEF Install, Sent, TypeOK
      <4>2. out[d] \in Seq(Queued) /\ "taken" \in Terminations /\ "taken" \in Queued
        BY <2>2 DEF TypeOK, Queued, Terminations
      <4>3. /\ Len(out[d]) + 1 \in DOMAIN Append(out[d], "taken")
            /\ Append(out[d], "taken")[Len(out[d]) + 1] = "taken"
        BY <4>2
      <4> QED
        BY <4>1, <4>2, <4>3 DEF Informed
    <3>3. CASE ~Accepts(d)
      BY <1>1, <2>2, <3>3, WebAssumption DEF Install, Missed, Terminations, Informed
    <3> QED
      BY <3>2, <3>3
  <2>3. \A d \in Conns : writer'[d] = "run" => d = c \/ writer[d] = "run"
    BY <2>1 DEF TypeOK
  <2>4. \A d \in Conns : writer[d] = "run" => d = tx \/ Informed(d)
    BY DEF InstalledOrTold
  <2> QED
    BY <1>0, <2>1, <2>2, <2>3, <2>4 DEF InstalledOrTold, TypeOK
<1>2. ASSUME NEW c \in Conns, WriterClear(c)
      PROVE  InstalledOrTold'
  <2>1. tx' = IF tx = c THEN None ELSE tx
    BY <1>2, WebAssumption DEF WriterClear, WriterAt, EpochsDiffer, Progress, TypeOK, InstalledOrTold
  <2>2. writer' = [writer EXCEPT ![c] = "sub"] /\ writer[c] = "clear"
    BY <1>2 DEF WriterClear, WriterAt
  <2> QED
    BY <1>0, <2>1, <2>2, WebAssumption DEF InstalledOrTold, TypeOK
<1>3. ASSUME NEW c \in Conns,
             WriterSend(c) \/ WriterFail(c) \/ WriterSub(c) \/ WriterClose(c)
      PROVE  InstalledOrTold'
  <2>1. tx' = tx
    BY <1>3 DEF WriterSend, WriterFail, WriterSub, WriterClose
  <2>2. \A d \in Conns : writer'[d] = "run" => writer[d] = "run"
    BY <1>3 DEF WriterSend, WriterFail, WriterSub, WriterClose, WriterAt, TypeOK
  <2>3. \A d \in Conns : writer[d] \in {"run", "clear"} => writer'[d] \in {"run", "clear"}
    BY <1>3 DEF WriterSend, WriterFail, WriterSub, WriterClose, WriterAt, TypeOK
  <2> QED
    BY <1>0, <2>1, <2>2, <2>3 DEF InstalledOrTold, TypeOK
<1>4. ASSUME (\E c \in Conns : \/ Create(c) \/ Reopen(c) \/ Hangup(c) \/ Count(c)
                                \/ NewEpoch(c) \/ Attach(c) \/ Swap(c) \/ HandlerEnd(c)
                                \/ LoopStep(c))
             \/ Post \/ TimePasses \/ UNCHANGED vars
      PROVE  InstalledOrTold'
  <2>1. UNCHANGED <<tx, writer>>
    BY <1>4 DEF Create, Reopen, Hangup, Count, NewEpoch, Attach, Swap, HandlerEnd,
                LoopStep, LoopIdle, LoopTimeout, LoopPoll, LoopLoad, LoopUpdate, LoopSend, LoopExit,
                LoopDrop, LoopTell, Post, TimePasses, vars
  <2> QED
    BY <1>0, <2>1 DEF InstalledOrTold
<1> QED
  BY <1>1, <1>2, <1>3, <1>4 DEF Next, HandlerStep, WriterStep

\* A handler gets past the swap with a loop that takes turns; that loop leaves
\* by clearing the flag first and telling the installed connection last.
LEMMA AbandonedStep ==
    ASSUME Inv2, [Next]_vars
    PROVE  NeverAbandoned'
<1> USE DEF shared, events, conn, loops, history, Inv2, Inv
<1> SUFFICES ASSUME NEW c \in Conns,
                    handler'[c] = "reading", tx' = c, writer'[c] = "run"
             PROVE  Informed(c)' \/ \E e \in Conns : (Turning(e) \/ Leaving(e))'
  BY DEF NeverAbandoned
<1>0. writer[c] = "run" /\ Informed(c) => Informed(c)'
  BY InformedStep
<1>1. ASSUME NEW d \in Conns, Swap(d)
      PROVE  \E e \in Conns : Turning(e)'
  <2>1. running'
    BY <1>1 DEF Swap
  <2> QED
    BY <2>1, OneLoopStep DEF OneLoop
<1>2. ASSUME NEW e \in Conns, LoopTell(e)
      PROVE  Informed(c)'
  <2>1. frame[e] \in Terminations /\ Send(c, frame[e]) /\ writer[c] = "run"
    BY <1>2 DEF LoopTell, LoopAt, TellsTermination
  <2> QED
    BY <2>1, SendInforms
<1>3. ASSUME NEW d \in Conns, Install(d)
      PROVE  FALSE
  BY <1>3 DEF Install, HandlerAt, TypeOK
<1>4. ASSUME NEW d \in Conns,
             \/ Create(d) \/ Reopen(d) \/ Hangup(d) \/ Count(d) \/ NewEpoch(d)
             \/ Attach(d) \/ HandlerEnd(d) \/ WriterStep(d)
      PROVE  Informed(c)' \/ \E e \in Conns : (Turning(e) \/ Leaving(e))'
  <2>1. handler[c] = "reading"
    BY <1>4 DEF Create, Reopen, Hangup, Count, NewEpoch, Attach, HandlerEnd, HandlerAt,
                WriterStep, WriterSend, WriterFail, WriterClear, WriterSub, WriterClose, TypeOK
  <2>2. tx = c
    BY <1>4, WebAssumption
       DEF Create, Reopen, Hangup, Count, NewEpoch, Attach, HandlerEnd,
           WriterStep, WriterSend, WriterFail, WriterClear, WriterSub, WriterClose
  <2>3. writer[c] = "run"
    BY <1>4 DEF Create, Reopen, Hangup, Count, NewEpoch, Attach, HandlerEnd, WriterAt,
                WriterStep, WriterSend, WriterFail, WriterClear, WriterSub, WriterClose, TypeOK
  <2>4. loop' = loop
    BY <1>4 DEF Create, Reopen, Hangup, Count, NewEpoch, Attach, HandlerEnd,
                WriterStep, WriterSend, WriterFail, WriterClear, WriterSub, WriterClose
  <2> QED
    BY <1>0, <2>1, <2>2, <2>3, <2>4 DEF NeverAbandoned, Turning, Leaving
<1>5. ASSUME NEW d \in Conns,
             \/ LoopIdle(d) \/ LoopTimeout(d) \/ LoopPoll(d) \/ LoopLoad(d)
             \/ LoopUpdate(d) \/ LoopSend(d) \/ LoopExit(d) \/ LoopDrop(d)
      PROVE  Informed(c)' \/ \E e \in Conns : (Turning(e) \/ Leaving(e))'
  <2>1. (Turning(d) \/ Leaving(d))'
    BY <1>5 DEF LoopIdle, LoopTimeout, LoopPoll, LoopLoad, LoopUpdate, LoopSend, LoopExit, LoopDrop,
                LoopAt, Turning, Leaving, TypeOK
  <2> QED
    BY <2>1
<1>6. ASSUME Post \/ TimePasses \/ UNCHANGED vars
      PROVE  Informed(c)' \/ \E e \in Conns : (Turning(e) \/ Leaving(e))'
  <2>1. UNCHANGED <<handler, tx, writer, loop>>
    BY <1>6 DEF Post, TimePasses, vars
  <2> QED
    BY <1>0, <2>1 DEF NeverAbandoned, Turning, Leaving
<1> QED
  BY <1>1, <1>2, <1>3, <1>4, <1>5, <1>6 DEF Next, HandlerStep, LoopStep
-----------------------------------------------------------------------------
(* The theorems. *)

\* The inductive invariant holds in every reachable state.
THEOREM Invariance == Spec => []Inv2
<1>1. Inv2 /\ [Next]_vars => Inv2'
  BY TypeStep, CountStep, EpochStep, TellsStep, OneLoopStep, InstalledStep, AbandonedStep
     DEF Inv2, Inv
<1> QED
  BY InitInv, <1>1, PTL DEF Spec

\* The state has its type.
THEOREM TypeCorrect == Spec => []TypeOK
<1>1. Inv2 => TypeOK
  BY DEF Inv2, Inv
<1> QED
  BY Invariance, <1>1, PTL

\* active_connections counts the connections, however they overlap.
THEOREM CountCorrect == Spec => []CountsConnections
<1>1. Inv2 => CountsConnections
  BY DEF Inv2, Inv
<1> QED
  BY Invariance, <1>1, PTL

\* swap and EventLoopGuard keep the event loops of a session apart.
THEOREM AtMostOneLoop == Spec => []OneLoop
<1>1. Inv2 => OneLoop
  BY DEF Inv2
<1> QED
  BY Invariance, <1>1, PTL

\* A running connection is the installed one or was told that it is not.
THEOREM TakeoverTells == Spec => []InstalledOrTold
<1>1. Inv2 => InstalledOrTold
  BY DEF Inv2
<1> QED
  BY Invariance, <1>1, PTL

\* No connected client is left without a loop and without a word.
THEOREM ClientsServedOrTold == Spec => []NeverAbandoned
<1>1. Inv2 => NeverAbandoned
  BY DEF Inv2
<1> QED
  BY Invariance, <1>1, PTL

-----------------------------------------------------------------------------
(* The browser tab *)

TabInv == TabTypeOK /\ NeverStranded

\* A change of the user interface state keeps its type.
LEMMA TabUiType ==
    ASSUME TabTypeOK, NEW next \in UiStates, SetUiState(next)
    PROVE  ui' \in UiStates /\ prev' \in UiStates
BY DEF TabTypeOK, SetUiState

LEMMA TabTypeStep ==
    ASSUME TabTypeOK, [TabNext]_tabVars
    PROVE  TabTypeOK'
<1>1. ASSUME NEW s \in Sockets, OnOpen(s)
      PROVE  TabTypeOK'
  <2>1. ui' \in UiStates /\ prev' \in UiStates
    BY <1>1, TabUiType DEF OnOpen, UiStates
  <2> QED
    BY <1>1, <2>1, ClientAssumption DEF OnOpen, TabTypeOK
<1>2. ASSUME NEW s \in Sockets, OnClose(s)
      PROVE  TabTypeOK'
  <2>1. ui' \in UiStates /\ prev' \in UiStates /\ waiting' \in BOOLEAN
    BY <1>2, TabUiType DEF OnClose, Schedule, UiStates, TabTypeOK
  <2> QED
    BY <1>2, <2>1, ClientAssumption DEF OnClose, TabTypeOK
<1>3. ASSUME NEW s \in Sockets, TakenOver(s)
      PROVE  TabTypeOK'
  <2>1. ui' \in UiStates /\ prev' \in UiStates
    BY <1>3, TabUiType DEF TakenOver, UiStates
  <2> QED
    BY <1>3, <2>1 DEF TakenOver, TabTypeOK
<1>4. ASSUME NEW s \in Sockets, Idle(s)
      PROVE  TabTypeOK'
  <2>1. ui' \in UiStates /\ prev' \in UiStates
    BY <1>4, TabUiType DEF Idle, UiStates
  <2> QED
    BY <1>4, <2>1 DEF Idle, TabTypeOK
<1>5. ASSUME NEW s \in Sockets, Restarted(s)
      PROVE  TabTypeOK'
  BY <1>5 DEF Restarted, TabTypeOK
<1>6. ASSUME NEW s \in Sockets, Error(s)
      PROVE  TabTypeOK'
  <2>1. ui' \in UiStates /\ prev' \in UiStates
    BY <1>6, TabUiType DEF Error, UiStates
  <2> QED
    BY <1>6, <2>1 DEF Error, TabTypeOK
<1>7. ASSUME Timer \/ Interact
      PROVE  TabTypeOK'
  <2>1. CASE UNCHANGED socket
    BY <1>7, <2>1 DEF Timer, Interact, TabTypeOK
  <2>2. CASE Connect
    BY <1>7, <2>2, ClientAssumption DEF Timer, Interact, Connect, TabTypeOK
  <2> QED
    BY <1>7, <2>1, <2>2 DEF Timer, Interact
<1>8. ASSUME ChipTimer
      PROVE  TabTypeOK'
  <2>1. ui' \in UiStates /\ prev' \in UiStates
    BY <1>8, TabUiType DEF ChipTimer, TabTypeOK
  <2> QED
    BY <1>8, <2>1 DEF ChipTimer, TabTypeOK
<1>9. CASE UNCHANGED tabVars
  BY <1>9 DEF tabVars, TabTypeOK
<1> QED
  BY <1>1, <1>2, <1>3, <1>4, <1>5, <1>6, <1>7, <1>8, <1>9 DEF TabNext

\* Whatever takes the connection away leaves a timer, an attempt, a socket that
\* will report its close, or a tab that rests.
LEMMA TabStrandedStep ==
    ASSUME TabInv, [TabNext]_tabVars
    PROVE  NeverStranded'
<1> USE DEF TabInv
<1>1. ASSUME NEW s \in Sockets, OnOpen(s)
      PROVE  NeverStranded'
  BY <1>1, ClientAssumption DEF OnOpen, NeverStranded
<1>2. ASSUME NEW s \in Sockets, OnClose(s)
      PROVE  NeverStranded'
  <2>1. CASE current \in {s, NoSocket}
    <3>1. Schedule
      BY <1>2, <2>1 DEF OnClose
    <3>2. ui' \in {"IDLE", "TAKEN_OVER"} \/ waiting'
      BY <3>1 DEF Schedule
    <3> QED
      BY <3>2 DEF NeverStranded
  <2>2. CASE current \notin {s, NoSocket}
    BY <1>2, <2>2 DEF OnClose, NeverStranded
  <2> QED
    BY <2>1, <2>2
<1>3. ASSUME NEW s \in Sockets, TakenOver(s)
      PROVE  NeverStranded'
  <2>1. ui' = "TAKEN_OVER"
    BY <1>3 DEF TakenOver, SetUiState
  <2> QED
    BY <2>1 DEF NeverStranded
<1>4. ASSUME NEW s \in Sockets, Idle(s) \/ Restarted(s)
      PROVE  NeverStranded'
  <2>1. socket'[s] = "closing"
    BY <1>4 DEF Idle, Restarted, TabTypeOK
  <2> QED
    BY <2>1 DEF NeverStranded
<1>5. ASSUME NEW s \in Sockets, Error(s)
      PROVE  NeverStranded'
  BY <1>5, ClientAssumption DEF Error, Receives, NeverStranded
<1>6. ASSUME Timer
      PROVE  NeverStranded'
  <2>1. CASE ui \in {"TAKEN_OVER", "IDLE"}
    BY <1>6, <2>1 DEF Timer, NeverStranded
  <2>2. CASE ui \notin {"TAKEN_OVER", "IDLE"}
    <3>1. PICK s \in Sockets : socket' = [socket EXCEPT ![s] = "connecting"]
      BY <1>6, <2>2 DEF Timer, Connect
    <3>2. socket'[s] = "connecting"
      BY <3>1 DEF TabTypeOK
    <3> QED
      BY <3>2 DEF NeverStranded
  <2> QED
    BY <2>1, <2>2
<1>7. ASSUME Interact
      PROVE  NeverStranded'
  <2>1. PICK s \in Sockets : socket' = [socket EXCEPT ![s] = "connecting"]
    BY <1>7 DEF Interact, Connect
  <2>2. socket'[s] = "connecting"
    BY <2>1 DEF TabTypeOK
  <2> QED
    BY <2>2 DEF NeverStranded
<1>8. ASSUME ChipTimer
      PROVE  NeverStranded'
  BY <1>8 DEF ChipTimer, NeverStranded
<1>9. CASE UNCHANGED tabVars
  BY <1>9 DEF tabVars, NeverStranded
<1> QED
  BY <1>1, <1>2, <1>3, <1>4, <1>5, <1>6, <1>7, <1>8, <1>9 DEF TabNext

\* A tab without a connection rests or is about to connect again.
THEOREM TabNeverStranded == TabSpec => []NeverStranded
<1>1. TabInit => TabInv
  BY ClientAssumption DEF TabInit, TabInv, TabTypeOK, UiStates, NeverStranded
<1>2. TabInv /\ [TabNext]_tabVars => TabInv'
  BY TabTypeStep, TabStrandedStep DEF TabInv
<1>3. TabInv => NeverStranded
  BY DEF TabInv
<1> QED
  BY <1>1, <1>2, <1>3, PTL DEF TabSpec

\* The state has its type, and the current socket is open.
THEOREM TabTypeCorrect == TabSpec => []TabTypeOK
<1>1. TabInit => TabTypeOK
  BY ClientAssumption DEF TabInit, TabTypeOK, UiStates
<1>2. TabTypeOK /\ [TabNext]_tabVars => TabTypeOK'
  BY TabTypeStep
<1> QED
  BY <1>1, <1>2, PTL DEF TabSpec
=============================================================================
