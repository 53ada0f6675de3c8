---------------------------- MODULE RenderLoopProofs ----------------------------
(***************************************************************************)
(* Proofs about what the event loop sends its frames through and what it   *)
(* animates them by: FrameChannel, for every set of handles and every      *)
(* capacity, and Transitions, for any attributes, values and inputs.       *)
(*                                                                         *)
(* Of Transitions: the type, FollowsState, and the two ways in which a     *)
(* transition begins.                                                      *)
(* FollowsState is not inductive.  A render compares with the baseline,    *)
(* so that one must know that a transition heads for its baseline, that    *)
(* an attribute without a baseline has the state's value already, and that *)
(* one at rest is shown at its baseline.                                   *)
(***************************************************************************)
EXTENDS FrameChannel, Transitions, TLAPS

-----------------------------------------------------------------------------
(* The channel *)

\* The actions of the receiver that leave the senders alone.
RxNext == RxStep \/ BeginSome \/ TryRecv \/ Close \/ Reopen \/ RxDrop

\* Reachable states have their type: in particular the queue never holds more
\* than the capacity given to BoundedFrameChannel::new.
THEOREM ChannelTypeCorrect == ChannelSpec => []ChannelTypeOK
<1> USE ChannelAssumption DEF HandleStates, RxStates
<1>1. ASSUME ChannelInit PROVE ChannelTypeOK
  <2>1. queue \in Seq(Nat) /\ Len(queue) <= Capacity
    BY <1>1 DEF ChannelInit
  <2>2. handle \in [Handles -> HandleStates]
    BY <1>1 DEF ChannelInit
  <2>. QED
    BY <1>1, <2>1, <2>2 DEF ChannelInit, ChannelTypeOK
<1>2. ChannelTypeOK /\ [ChannelNext]_channelVars => ChannelTypeOK'
  <2> SUFFICES ASSUME ChannelTypeOK, [ChannelNext]_channelVars PROVE ChannelTypeOK'
    OBVIOUS
  <2> USE DEF ChannelTypeOK
  <2>1. ASSUME NEW h \in Handles, TrySend(h) PROVE ChannelTypeOK'
    <3>1. Pushed(sent + 1) \in Seq(Nat) /\ Len(Pushed(sent + 1)) <= Capacity
      BY DEF Pushed, Full
    <3>2. rx' \in RxStates /\ permit' \in BOOLEAN
      BY <2>1 DEF TrySend, NotifyOne, Unparked
    <3>. QED
      BY <2>1, <3>1, <3>2 DEF TrySend
  <2>2. ASSUME NEW h \in Handles, NEW c \in Handles, CloneHandle(h, c) PROVE ChannelTypeOK'
    BY <2>2 DEF CloneHandle, chan, hist
  <2>3. ASSUME NEW h \in Handles, DropCheck(h) PROVE ChannelTypeOK'
    BY <2>3 DEF DropCheck, chan, hist
  <2>4. ASSUME NEW h \in Handles, DropClose(h) PROVE ChannelTypeOK'
    BY <2>4 DEF DropClose, NotifyWaiters, Unparked, hist
  <2>5. ASSUME NEW h \in Handles, DropRelease(h) PROVE ChannelTypeOK'
    BY <2>5 DEF DropRelease, chan, hist
  <2>6. ASSUME Pop PROVE ChannelTypeOK'
    BY <2>6 DEF Pop
  <2>7. ASSUME NEW next \in RxStates, FoundEmpty(next) PROVE ChannelTypeOK'
    BY <2>7 DEF FoundEmpty, chan, hist
  <2>8. CASE RxStep
    BY <2>6, <2>7, <2>8
    DEF RxStep, AsyncCheck, AsyncRegister, BlockingCheck, TimedCheck,
        TimedExpire, TimedFinish, chan, hist
  <2>9. CASE BeginSome \/ TryRecv \/ RxDrop
    BY <2>6, <2>9 DEF BeginSome, Begin, TryRecv, RxDrop, chan, hist
  <2>10. CASE Close
    BY <2>10 DEF Close, NotifyWaiters, Unparked, hist
  <2>11. CASE Reopen
    <3>1. queue' \in Seq(Nat) /\ Len(queue') <= Capacity
      BY <2>11 DEF Reopen
    <3>2. cleared' \in Nat
      BY <2>11 DEF Reopen
    <3>. QED
      BY <2>11, <3>1, <3>2 DEF Reopen
  <2>12. CASE UNCHANGED channelVars
    BY <2>12 DEF channelVars, chan, hist
  <2>. QED
    BY <2>1, <2>2, <2>3, <2>4, <2>5, <2>8, <2>9, <2>10, <2>11, <2>12
    DEF ChannelNext, SenderStep
<1>. QED
  BY <1>1, <1>2, PTL DEF ChannelSpec

(***************************************************************************)
(* The contents of the queue.  QueueInv joins the statements that need one *)
(* another: a message handed over is the head of the queue, which is the   *)
(* number just after all that left the channel before.                     *)
(***************************************************************************)
QueueInv == NewestKept /\ EveryMessageAccounted

THEOREM QueueCorrect == ChannelSpec => []QueueInv
<1> USE ChannelAssumption DEF QueueInv, NewestKept, EveryMessageAccounted
<1>1. ChannelInit => QueueInv
  BY DEF ChannelInit
<1>2. ChannelTypeOK /\ QueueInv /\ [ChannelNext]_channelVars => QueueInv'
  <2> SUFFICES ASSUME ChannelTypeOK, QueueInv, [ChannelNext]_channelVars PROVE QueueInv'
    OBVIOUS
  <2> USE DEF ChannelTypeOK
  <2>1. ASSUME NEW h \in Handles, TrySend(h) PROVE QueueInv'
    <3>1. sent' = sent + 1 /\ UNCHANGED <<got, delivered, cleared>>
      BY <2>1 DEF TrySend
    <3>2. CASE Full
      <4>1. Len(queue) = Capacity /\ queue # <<>> /\ dropped' = dropped + 1
        BY <2>1, <3>2 DEF Full, TrySend
      <4>2. queue' = Append(Tail(queue), sent + 1)
        BY <2>1, <3>2 DEF TrySend, Pushed
      <4>3. Len(queue') = Len(queue)
        BY <4>1, <4>2
      <4>4. ASSUME NEW i \in 1 .. Len(queue')
            PROVE  queue'[i] = sent' - Len(queue') + i
        <5>1. queue'[i] = IF i = Len(queue) THEN sent + 1 ELSE queue[i + 1]
          BY <4>1, <4>2, <4>3
        <5>. QED
          BY <3>1, <4>1, <4>3, <5>1
      <4>. QED
        BY <3>1, <4>1, <4>3, <4>4
    <3>3. CASE ~Full
      <4>1. queue' = Append(queue, sent + 1) /\ dropped' = dropped
        BY <2>1, <3>3 DEF TrySend, Pushed
      <4>2. Len(queue') = Len(queue) + 1
        BY <4>1
      <4>3. ASSUME NEW i \in 1 .. Len(queue')
            PROVE  queue'[i] = sent' - Len(queue') + i
        <5>1. queue'[i] = IF i = Len(queue) + 1 THEN sent + 1 ELSE queue[i]
          BY <4>1, <4>2
        <5>. QED
          BY <3>1, <4>2, <5>1
      <4>4. got' + Len(queue') <= sent'
        BY <3>1, <4>1, <4>2
      <4>5. delivered' + dropped' + cleared' + Len(queue') = sent'
        BY <3>1, <4>1, <4>2
      <4>. QED
        BY <4>3, <4>4, <4>5
    <3>. QED
      BY <3>2, <3>3
  <2>2. ASSUME Pop PROVE QueueInv'
    <3>1. queue # <<>> /\ Len(queue) \in Nat \ {0}
      BY <2>2 DEF Pop
    <3>2. queue' = Tail(queue) /\ Len(queue') = Len(queue) - 1
      BY <2>2, <3>1 DEF Pop
    <3>3. /\ got' = queue[1]
          /\ delivered' = delivered + 1
          /\ UNCHANGED <<sent, dropped, cleared>>
      BY <2>2, <3>1 DEF Pop
    <3>4. ASSUME NEW i \in 1 .. Len(queue')
          PROVE  queue'[i] = sent' - Len(queue') + i
      <4>1. queue'[i] = queue[i + 1]
        BY <3>1, <3>2
      <4>. QED
        BY <3>1, <3>2, <3>3, <4>1
    <3>5. got' + Len(queue') <= sent'
      BY <3>1, <3>2, <3>3
    <3>6. delivered' + dropped' + cleared' + Len(queue') = sent'
      <4>1. /\ delivered \in Nat /\ dropped \in Nat /\ cleared \in Nat /\ sent \in Nat
            /\ delivered + dropped + cleared + Len(queue) = sent
        OBVIOUS
      <4>. HIDE DEF ChannelTypeOK, QueueInv, NewestKept, EveryMessageAccounted
      <4>. QED
        BY <3>1, <3>2, <3>3, <4>1
    <3>. QED
      BY <3>4, <3>5, <3>6
  <2>3. ASSUME Reopen PROVE QueueInv'
    <3>1. queue' = <<>> /\ Len(queue') = 0
      BY <2>3 DEF Reopen
    <3>. QED
      BY <2>3, <3>1 DEF Reopen
  <2>4. ASSUME UNCHANGED <<queue, hist>> PROVE QueueInv'
    BY <2>4 DEF hist
  <2>5. CASE \E h \in Handles : SenderStep(h)
    BY <2>1, <2>4, <2>5
    DEF SenderStep, CloneHandle, DropCheck, DropClose, DropRelease, chan, hist
  <2>6. CASE RxStep
    BY <2>2, <2>4, <2>6
    DEF RxStep, AsyncCheck, AsyncRegister, BlockingCheck, TimedCheck,
        TimedExpire, TimedFinish, FoundEmpty, chan
  <2>7. CASE BeginSome \/ TryRecv \/ Close \/ RxDrop
    BY <2>2, <2>4, <2>7 DEF BeginSome, Begin, TryRecv, Close, RxDrop, chan
  <2>8. CASE UNCHANGED channelVars
    BY <2>4, <2>8 DEF channelVars, chan
  <2>. QED
    BY <2>3, <2>5, <2>6, <2>7, <2>8 DEF ChannelNext
<1>. QED
  BY <1>1, <1>2, ChannelTypeCorrect, PTL DEF ChannelSpec

\* Overflow loses the oldest messages only: what is queued is at every moment
\* the newest consecutive messages, and none of them was handed over before.
THEOREM NewestAlwaysKept == ChannelSpec => []NewestKept
BY QueueCorrect, PTL DEF QueueInv

\* No message disappears without a caller being told.
THEOREM AllAccounted == ChannelSpec => []EveryMessageAccounted
BY QueueCorrect, PTL DEF QueueInv

\* Deliveries follow the order of acceptance.
THEOREM OrderedDelivery == ChannelSpec => InOrder
<1>1. ChannelTypeOK /\ QueueInv /\ [ChannelNext]_channelVars => [got' # got => got' > got]_channelVars
  <2> SUFFICES ASSUME ChannelTypeOK, QueueInv, ChannelNext, got' # got PROVE got' > got
    BY DEF channelVars, hist
  <2>1. Pop
    BY DEF ChannelNext, SenderStep, TrySend, CloneHandle, DropCheck, DropClose,
           DropRelease, RxStep, AsyncCheck, AsyncRegister, BlockingCheck,
           TimedCheck, TimedExpire, TimedFinish, FoundEmpty, BeginSome, Begin,
           TryRecv, Close, Reopen, RxDrop, hist
  <2>2. queue # <<>> /\ got' = queue[1] /\ Len(queue) \in Nat \ {0}
    BY <2>1 DEF Pop, ChannelTypeOK
  <2>. QED
    BY <2>2 DEF QueueInv, NewestKept, ChannelTypeOK
<1>. QED
  BY <1>1, ChannelTypeCorrect, QueueCorrect, PTL DEF ChannelSpec, InOrder

-----------------------------------------------------------------------------
(* Wakeups. *)

\* The receiver never sleeps on a message: between its check under the lock
\* and its registration with Notify a send leaves a permit behind.
THEOREM MessagesWake == ChannelSpec => []NoLostMessageWakeup
<1> USE DEF NoLostMessageWakeup
<1>1. ChannelInit => NoLostMessageWakeup
  BY DEF ChannelInit
<1>2. ChannelTypeOK /\ NoLostMessageWakeup /\ [ChannelNext]_channelVars => NoLostMessageWakeup'
  <2> SUFFICES ASSUME ChannelTypeOK, NoLostMessageWakeup, [ChannelNext]_channelVars
               PROVE  NoLostMessageWakeup'
    OBVIOUS
  <2> USE DEF ChannelTypeOK, RxStates
  <2>1. ASSUME NEW h \in Handles, TrySend(h) PROVE NoLostMessageWakeup'
    BY <2>1 DEF TrySend, NotifyOne, Unparked
  <2>2. ASSUME NEW h \in Handles, DropClose(h) PROVE NoLostMessageWakeup'
    BY <2>2 DEF DropClose, NotifyWaiters, Unparked
  <2>3. ASSUME Pop PROVE NoLostMessageWakeup'
    BY <2>3 DEF Pop
  <2>4. ASSUME NEW next, FoundEmpty(next) PROVE NoLostMessageWakeup'
    BY <2>4 DEF FoundEmpty, chan
  <2>5. ASSUME AsyncRegister PROVE NoLostMessageWakeup'
    BY <2>5 DEF AsyncRegister
  <2>6. ASSUME TimedExpire \/ BeginSome \/ RxDrop PROVE NoLostMessageWakeup'
    BY <2>6 DEF TimedExpire, BeginSome, Begin, RxDrop, chan
  <2>7. ASSUME Close \/ Reopen PROVE NoLostMessageWakeup'
    BY <2>7 DEF Close, Reopen, NotifyWaiters, Unparked
  <2>8. ASSUME UNCHANGED <<queue, permit, rx>> PROVE NoLostMessageWakeup'
    BY <2>8
  <2>9. CASE \E h \in Handles : SenderStep(h)
    BY <2>1, <2>2, <2>8, <2>9
    DEF SenderStep, CloneHandle, DropCheck, DropRelease, chan
  <2>10. CASE RxStep
    BY <2>3, <2>4, <2>5, <2>6, <2>10
    DEF RxStep, AsyncCheck, BlockingCheck, TimedCheck, TimedFinish
  <2>11. CASE TryRecv
    BY <2>3, <2>11 DEF TryRecv
  <2>12. CASE UNCHANGED channelVars
    BY <2>8, <2>12 DEF channelVars, chan
  <2>. QED
    BY <2>6, <2>7, <2>9, <2>10, <2>11, <2>12 DEF ChannelNext
<1>. QED
  BY <1>1, <1>2, ChannelTypeCorrect, PTL DEF ChannelSpec

-----------------------------------------------------------------------------
(***************************************************************************)
(* Closing by Drop.  While the drops have not overlapped at most one       *)
(* handle is inside Drop, and a handle that found others alive leaves at   *)
(* least one of them live behind it.                                       *)
(***************************************************************************)
SoloDrop ==
    ~overlapped =>
        /\ \A g, h \in Dropping : g = h
        /\ \A h \in Handles :
              handle[h] = "leaving" => shut \/ \E c \in Handles : handle[c] = "live"

DropInv == DropClosesAlone /\ SoloDrop /\ LastDropCloses

\* A count of one that Drop read without the lock stays true until it closes,
\* and without overlapping drops the last handle closes the channel.
THEOREM DropCorrect == ChannelSpec => []DropInv
<1> USE ChannelAssumption
    DEF DropInv, DropClosesAlone, SoloDrop, LastDropCloses, Counted, Dropping
<1>1. ChannelInit => DropInv
  BY DEF ChannelInit
<1>2. ChannelTypeOK /\ DropInv /\ [ChannelNext]_channelVars => DropInv'
  <2> SUFFICES ASSUME ChannelTypeOK, DropInv, [ChannelNext]_channelVars PROVE DropInv'
    OBVIOUS
  <2> USE DEF ChannelTypeOK, HandleStates
  <2>1. ASSUME NEW h \in Handles, NEW c \in Handles, CloneHandle(h, c) PROVE DropInv'
    BY <2>1 DEF CloneHandle
  <2>2. ASSUME NEW h \in Handles, DropCheck(h) PROVE DropInv'
    BY <2>2 DEF DropCheck, IsLastSender
  <2>3. ASSUME NEW h \in Handles, DropClose(h) PROVE DropInv'
    BY <2>3 DEF DropClose
  <2>4. ASSUME NEW h \in Handles, DropRelease(h) PROVE DropInv'
    BY <2>4 DEF DropRelease
  <2>5. ASSUME UNCHANGED <<handle, overlapped, shut>> PROVE DropInv'
    BY <2>5
  <2>6. CASE \E h \in Handles : SenderStep(h)
    BY <2>1, <2>2, <2>3, <2>4, <2>5, <2>6 DEF SenderStep, TrySend
  <2>7. CASE RxNext
    BY <2>5, <2>7
    DEF RxNext, RxStep, AsyncCheck, AsyncRegister, BlockingCheck, TimedCheck,
        TimedExpire, TimedFinish, Pop, FoundEmpty, BeginSome, Begin, TryRecv,
        Close, Reopen, RxDrop
  <2>8. CASE UNCHANGED channelVars
    BY <2>5, <2>8 DEF channelVars
  <2>. QED
    BY <2>6, <2>7, <2>8 DEF ChannelNext, RxNext
<1>. QED
  BY <1>1, <1>2, ChannelTypeCorrect, PTL DEF ChannelSpec

\* A handle that is about to close the channel is the only one that is left.
THEOREM ClosingDropIsAlone == ChannelSpec => []DropClosesAlone
BY DropCorrect, PTL DEF DropInv

\* Drops that do not overlap leave the channel closed behind the last of them.
THEOREM LastDropAlwaysCloses == ChannelSpec => []LastDropCloses
BY DropCorrect, PTL DEF DropInv

-----------------------------------------------------------------------------
(* The channel implements the lossy queue of LossyFifo. *)

\* Every behaviour of the channel, with its lock, its wakeups and its three
\* ways of receiving, is a behaviour of a queue that loses its oldest message
\* on overflow.
THEOREM Refinement == ChannelSpec => FifoSpec
<1> USE DEF ChannelTypeOK
<1>1. ASSUME ChannelInit PROVE Fifo!Init
  <2>1. sent = 0 /\ Len(queue) = 0
    BY <1>1 DEF ChannelInit
  <2>2. sent - Len(queue) = 0
    BY <2>1
  <2>3. ~closed = TRUE
    BY <1>1 DEF ChannelInit
  <2>. QED
    BY <1>1, <2>1, <2>2, <2>3 DEF ChannelInit, Fifo!Init
<1>2. ChannelTypeOK /\ QueueInv /\ [ChannelNext]_channelVars => [Fifo!Next]_Fifo!vars
  <2> SUFFICES ASSUME ChannelTypeOK, QueueInv, [ChannelNext]_channelVars PROVE [Fifo!Next]_Fifo!vars
    OBVIOUS
  <2>1. ASSUME NEW h \in Handles, TrySend(h) PROVE Fifo!Push
    <3>0. sent - (sent - Len(queue)) = Len(queue)
      OBVIOUS
    <3>1. CASE Full
      <4>1. Len(queue) = Capacity
        BY <3>1, ChannelAssumption DEF Full
      <4>2. queue' = Append(Tail(queue), sent + 1)
        BY <2>1, <3>1 DEF TrySend, Pushed
      <4>3. Len(queue') = Len(queue)
        BY <4>1, <4>2, ChannelAssumption
      <4>4. sent' - Len(queue') = (sent - Len(queue)) + 1
        BY <2>1, <4>3 DEF TrySend
      <4>. QED
        BY <2>1, <3>0, <4>1, <4>4, ChannelAssumption DEF TrySend, Fifo!Push
    <3>2. CASE ~Full
      <4>1. Len(queue) < Capacity /\ queue' = Append(queue, sent + 1)
        BY <2>1, <3>2, ChannelAssumption DEF TrySend, Pushed, Full
      <4>2. Len(queue') = Len(queue) + 1
        BY <4>1
      <4>3. sent' - Len(queue') = sent - Len(queue)
        BY <2>1, <4>2 DEF TrySend
      <4>4. ~(sent - (sent - Len(queue)) >= Capacity)
        BY <3>0, <4>1, ChannelAssumption
      <4>. QED
        BY <2>1, <4>3, <4>4 DEF TrySend, Fifo!Push
    <3>. QED
      BY <3>1, <3>2
  <2>2. ASSUME Pop PROVE Fifo!Take
    <3>1. Len(queue) \in Nat \ {0} /\ Len(queue') = Len(queue) - 1
      BY <2>2 DEF Pop
    <3>2. got' = sent - Len(queue) + 1
      BY <2>2, <3>1 DEF Pop, QueueInv, NewestKept
    <3>. QED
      BY <2>2, <3>1, <3>2 DEF Pop, Fifo!Take
  <2>3. ASSUME NEW h \in Handles, DropClose(h) PROVE Fifo!Shut
    BY <2>3 DEF DropClose, Fifo!Shut, hist
  <2>4. ASSUME Close PROVE Fifo!Shut
    BY <2>4 DEF Close, Fifo!Shut, hist
  <2>5. ASSUME Reopen PROVE Fifo!Restart
    <3>1. Len(queue') = 0
      BY <2>5 DEF Reopen
    <3>. QED
      BY <2>5, <3>1 DEF Reopen, Fifo!Restart
  <2>6. ASSUME UNCHANGED <<queue, closed, sent, got>> PROVE UNCHANGED Fifo!vars
    BY <2>6 DEF Fifo!vars
  <2>7. CASE \E h \in Handles : SenderStep(h)
    BY <2>1, <2>3, <2>6, <2>7
    DEF SenderStep, CloneHandle, DropCheck, DropRelease, chan, hist, Fifo!Next
  <2>8. CASE RxStep
    BY <2>2, <2>6, <2>8
    DEF RxStep, AsyncCheck, AsyncRegister, BlockingCheck, TimedCheck,
        TimedExpire, TimedFinish, FoundEmpty, chan, hist, Fifo!Next
  <2>9. CASE BeginSome \/ TryRecv \/ RxDrop
    BY <2>2, <2>6, <2>9
    DEF BeginSome, Begin, TryRecv, RxDrop, chan, hist, Fifo!Next
  <2>10. CASE UNCHANGED channelVars
    BY <2>6, <2>10 DEF channelVars, chan, hist
  <2>. QED
    BY <2>4, <2>5, <2>7, <2>8, <2>9, <2>10 DEF ChannelNext, Fifo!Next
<1>. QED
  BY <1>1, <1>2, ChannelTypeCorrect, QueueCorrect, PTL DEF ChannelSpec, FifoSpec, Fifo!Spec

-----------------------------------------------------------------------------
(* Transitions *)

\* A transition heads for the baseline of its attribute, which it has.
MovesToBase ==
    \A a \in Attrs : Active(a) => base[a] # Unset /\ move[a].to = base[a]

\* An attribute that was never rendered already has the value of the state.
FreshFollows ==
    \A a \in Attrs \ (dirty \cup stolen) :
        base[a] = Unset /\ store[a] # Unset => style[a] = store[a]

\* An attribute at rest was last shown at its baseline.
RestsAtBase ==
    \A a \in Attrs : ~Active(a) /\ base[a] # Unset => shown[a] = base[a]

Inv ==
    /\ TypeOK
    /\ HeadsForState
    /\ RestsAtState
    /\ MovesToBase
    /\ FreshFollows
    /\ RestsAtBase

-----------------------------------------------------------------------------
(* Moves and frames *)

LEMMA StillIsNoMove == Still \notin Moves
BY TransitionsAssumption DEF Still, Moves, Phases

\* The value that is drawn for a move is a proper value.
LEMMA SampleType ==
    ASSUME NEW m \in Moves
    PROVE  Sample(m) \subseteq Values
BY DEF Sample, Eased, Moves

\* The target of a render is the dirty value, or else the baseline, or else the
\* style.
LEMMA TargetValue ==
    ASSUME TypeOK, NEW a \in Attrs
    PROVE  /\ Target(a) \in Held
           /\ a \in dirty /\ store[a] # Unset => Target(a) = store[a]
           /\ ~(a \in dirty /\ store[a] # Unset) =>
                 Target(a) = IF base[a] # Unset THEN base[a] ELSE style[a]
           /\ base[a] # Unset => Target(a) \in Values
BY DEF TypeOK, Target, Synced, Restored, Held

\* A render leaves a transition alone or launches one to the target, from the
\* value in between, or from the baseline of an attribute at rest.
LEMMA LaunchedMove ==
    ASSUME TypeOK, NEW a \in Attrs, NEW m \in Launched(a)
    PROVE  \/ ~Changed(a) /\ m = move[a]
           \/ /\ Changed(a) /\ m \in Moves
              /\ m.to = Target(a) /\ m.from \in From(a)
<1>1. CASE Changed(a)
  <2>1. PICK f \in From(a) : m \in Launch(f, Target(a))
    BY <1>1 DEF Launched
  <2>2. base[a] \in Values /\ Target(a) \in Values
    BY <1>1, TargetValue DEF Changed, TypeOK, Held
  <2>3. Active(a) => move[a] \in Moves
    BY DEF Active, TypeOK
  <2>4. f \in Values
    BY <2>1, <2>2, <2>3, SampleType DEF From
  <2>5. PICK p \in {"waiting", "over"} : m = [from |-> f, to |-> Target(a), phase |-> p]
    BY <2>1 DEF Launch
  <2>6. m \in Moves /\ m.to = Target(a) /\ m.from = f
    BY <2>2, <2>4, <2>5 DEF Moves, Phases
  <2> QED
    BY <1>1, <2>1, <2>6
<1>2. CASE ~Changed(a)
  BY <1>2 DEF Launched
<1> QED
  BY <1>1, <1>2

\* What a render makes of one attribute.
LEMMA RenderOne ==
    ASSUME TypeOK, Render, NEW a \in Attrs
    PROVE  \E m \in Launched(a) :
              /\ move'[a] = Ticked(m)
              /\ style'[a] \in Drawn(a, m)
              /\ shown'[a] = style'[a]
              /\ base'[a] = Target(a)
<1>1. PICK frame \in [Attrs -> UNION {Frames(b) : b \in Attrs}] :
          /\ \A b \in Attrs : frame[b] \in Frames(b)
          /\ style' = [b \in Attrs |-> frame[b].value]
          /\ shown' = style'
          /\ move' = [b \in Attrs |-> frame[b].move]
  BY DEF Render
<1>2. PICK m \in Launched(a) :
          \E v \in Drawn(a, m) : frame[a] = [move |-> Ticked(m), value |-> v]
  BY <1>1 DEF Frames
<1>3. base'[a] = Target(a)
  BY DEF Render
<1> QED
  BY <1>1, <1>2, <1>3

\* The same for the kinds of attribute that the invariant tells apart: one that
\* still moves does so to its new baseline, and one at rest is drawn there.
LEMMA RenderRest ==
    ASSUME TypeOK, MovesToBase, Render, NEW a \in Attrs
    PROVE  /\ move'[a] \in Moves \cup {Still} /\ style'[a] \in Held
           /\ move'[a] # Still => base'[a] # Unset /\ move'[a].to = base'[a]
           /\ move'[a] = Still => style'[a] = base'[a]
<1>1. PICK m \in Launched(a) :
          /\ move'[a] = Ticked(m)
          /\ style'[a] \in Drawn(a, m)
          /\ base'[a] = Target(a)
  BY RenderOne
<1>2. CASE m = Still
  <2>1. move'[a] = Still
    BY <1>1, <1>2 DEF Ticked, Still
  <2>2. style'[a] = Target(a)
    BY <1>1, <1>2 DEF Drawn
  <2> QED
    BY <1>1, <2>1, <2>2, TargetValue
<1>3. CASE m # Still
  <2>1. m \in Moves /\ m.to = Target(a) /\ Target(a) # Unset
    <3>1. CASE Changed(a)
      <4>1. m \in Moves /\ m.to = Target(a)
        BY <3>1, LaunchedMove
      <4>2. base[a] # Unset
        BY <3>1 DEF Changed
      <4> QED
        BY <4>1, <4>2, TargetValue, TransitionsAssumption
    <3>2. CASE ~Changed(a)
      <4>1. m = move[a]
        BY <3>2, LaunchedMove
      <4>2. Active(a) /\ m \in Moves
        BY <1>3, <4>1 DEF Active, TypeOK
      <4>3. base[a] # Unset /\ m.to = base[a]
        BY <4>1, <4>2 DEF MovesToBase
      <4>4. Target(a) = base[a]
        BY <3>2, <4>3 DEF Changed
      <4> QED
        BY <4>2, <4>3, <4>4
    <3> QED
      BY <3>1, <3>2
  <2>2. style'[a] \in Sample(m)
    BY <1>1, <1>3 DEF Drawn
  <2>3. CASE m.phase = "over"
    <3>1. move'[a] = Still
      BY <1>1, <2>3 DEF Ticked
    <3>2. style'[a] = m.to
      BY <2>2, <2>3 DEF Sample, Eased
    <3> QED
      BY <1>1, <2>1, <3>1, <3>2, TargetValue
  <2>4. CASE m.phase # "over"
    <3>1. move'[a] = m
      BY <1>1, <2>4 DEF Ticked
    <3>2. style'[a] \in Values
      BY <2>1, <2>2, SampleType
    <3> QED
      BY <1>1, <1>3, <2>1, <3>1, <3>2 DEF Held
  <2> QED
    BY <2>3, <2>4
<1> QED
  BY <1>2, <1>3

-----------------------------------------------------------------------------
(* The invariant *)

\* SetKey changes no key without making it dirty.
LEMMA SetKeyKeeps ==
    ASSUME TypeOK, NEW b \in Attrs, NEW v \in Values, SetKey(b, v)
    PROVE  /\ store' \in [Attrs -> Held] /\ dirty' \subseteq Attrs
           /\ dirty \subseteq dirty'
           /\ \A a \in Attrs \ dirty' : store'[a] = store[a]
BY DEF TypeOK, SetKey, Held

LEMMA InputCounts ==
    ASSUME TypeOK, Input
    PROVE  left' \in 0..MaxInputs
BY TransitionsAssumption DEF TypeOK, Input

LEMMA InitInv == Init => Inv
<1> SUFFICES ASSUME Init PROVE Inv
  OBVIOUS
<1>1. TypeOK
  <2>1. base \in [Attrs -> Held] /\ shown \in [Attrs -> Held]
    BY DEF Init, Held
  <2>2. move \in [Attrs -> Moves \cup {Still}]
    BY DEF Init
  <2>3. left \in 0..MaxInputs
    BY TransitionsAssumption DEF Init
  <2> QED
    BY <2>1, <2>2, <2>3 DEF Init, TypeOK
<1>2. \A a \in Attrs : ~Active(a) /\ base[a] = Unset
  BY DEF Init, Active
<1>3. HeadsForState /\ MovesToBase /\ RestsAtBase
  BY <1>2 DEF HeadsForState, MovesToBase, RestsAtBase
<1>4. RestsAtState /\ FreshFollows
  BY DEF Init, RestsAtState, FreshFollows
<1> QED
  BY <1>1, <1>3, <1>4 DEF Inv

\* Steps that change keys and styles, and neither baselines nor transitions.
LEMMA ChangeStep ==
    ASSUME Inv, NEW b \in Attrs, NEW v \in Values,
           \/ Act(b, v) \/ Patch(b, v) \/ \E keyed \in BOOLEAN : Drag(b, v, keyed)
    PROVE  Inv'
<1> USE DEF Inv
<1>1. /\ UNCHANGED <<base, move, shown, stolen>> /\ Input
      /\ needs' \in BOOLEAN /\ notice' \in BOOLEAN
      /\ ~needs' => ~needs /\ style' = style
  BY DEF Act, Patch, Drag, TypeOK
<1>2. /\ store' \in [Attrs -> Held] /\ dirty' \subseteq Attrs
      /\ dirty \subseteq dirty'
      /\ \A a \in Attrs \ dirty' : store'[a] = store[a]
  BY SetKeyKeeps DEF Act, Patch, Drag, TypeOK
<1>3. /\ style' \in [Attrs -> Held]
      /\ \A a \in Attrs : base[a] = Unset => style'[a] = style[a]
  BY DEF Act, Patch, Drag, TypeOK, Held
<1>4. TypeOK'
  BY <1>1, <1>2, <1>3, InputCounts DEF TypeOK
<1>5. \A a \in Attrs : Active(a)' <=> Active(a)
  BY <1>1 DEF Active
<1>6. HeadsForState'
  BY <1>1, <1>2, <1>5 DEF HeadsForState
<1>7. RestsAtState'
  BY <1>1, <1>2, <1>5 DEF RestsAtState
<1>8. MovesToBase' /\ RestsAtBase'
  BY <1>1, <1>5 DEF MovesToBase, RestsAtBase
<1>9. FreshFollows'
  BY <1>1, <1>2, <1>3 DEF FreshFollows
<1> QED
  BY <1>4, <1>6, <1>7, <1>8, <1>9

LEMMA TakePatchedStep ==
    ASSUME Inv, TakePatched
    PROVE  Inv'
<1> USE DEF Inv
<1>1. TypeOK'
  BY DEF TakePatched, TypeOK, Synced, Held
<1>2. \A a \in Attrs : Active(a)' <=> Active(a)
  BY DEF TakePatched, Active
<1>3. HeadsForState'
  <2> SUFFICES ASSUME NEW a \in Attrs, a \notin stolen', base[a] # Unset, store[a] # Unset
               PROVE  base[a] = store[a] /\ (Active(a) => move[a].to = store[a])
    BY <1>2 DEF TakePatched, HeadsForState
  <2>1. CASE a \in dirty
    BY <2>1 DEF TakePatched, MovesToBase
  <2>2. CASE a \notin dirty
    BY <2>2 DEF TakePatched, HeadsForState
  <2> QED
    BY <2>1, <2>2
<1>4. RestsAtState'
  BY DEF TakePatched, RestsAtState
<1>5. MovesToBase' /\ RestsAtBase'
  BY <1>2 DEF TakePatched, MovesToBase, RestsAtBase
<1>6. FreshFollows'
  BY DEF TakePatched, FreshFollows, Synced, TypeOK
<1> QED
  BY <1>1, <1>3, <1>4, <1>5, <1>6

LEMMA LoadStep ==
    ASSUME Inv, Load
    PROVE  Inv'
<1> USE DEF Inv
<1>1. PICK css \in [Attrs -> Held] :
          style' = [a \in Attrs |-> IF store[a] # Unset THEN store[a] ELSE css[a]]
  BY DEF Load
<1>2. TypeOK'
  BY <1>1, InputCounts DEF Load, UpdateDoc, TypeOK, Held
<1>3. \A a \in Attrs : ~Active(a)' /\ base'[a] = Unset
  BY DEF Load, UpdateDoc, Active
<1>4. HeadsForState' /\ MovesToBase' /\ RestsAtBase'
  BY <1>3 DEF HeadsForState, MovesToBase, RestsAtBase
<1>5. RestsAtState' /\ FreshFollows'
  BY <1>1 DEF Load, RestsAtState, FreshFollows
<1> QED
  BY <1>2, <1>4, <1>5

\* An active transition stays one while its time passes, with the same target.
LEMMA ElapseMove ==
    ASSUME TypeOK, NEW b \in Attrs, Elapse(b), NEW a \in Attrs
    PROVE  /\ move' \in [Attrs -> Moves \cup {Still}]
           /\ Active(a)' <=> Active(a)
           /\ move'[a].to = move[a].to
           /\ a # b => move'[a] = move[a]
           /\ a = b => move'[a].phase \in {"moving", "over"}
<1>1. PICK p \in {"moving", "over"} : move' = [move EXCEPT ![b].phase = p]
  BY DEF Elapse
<1>2. move[b] \in Moves
  BY DEF Elapse, Active, TypeOK
<1>3. [move[b] EXCEPT !.phase = p] \in Moves
  BY <1>2 DEF Moves, Phases
<1>4. move' \in [Attrs -> Moves \cup {Still}] /\ move'[b] = [move[b] EXCEPT !.phase = p]
  BY <1>1, <1>3 DEF TypeOK
<1>5. move'[b].to = move[b].to /\ move'[b].phase = p
  BY <1>2, <1>4 DEF Moves
<1>6. Active(b)' /\ Active(b)
  BY <1>3, <1>4, StillIsNoMove DEF Active, Elapse
<1>7. a # b => move'[a] = move[a]
  BY <1>1 DEF TypeOK
<1> QED
  BY <1>4, <1>5, <1>6, <1>7 DEF Active

LEMMA ElapseStep ==
    ASSUME Inv, NEW b \in Attrs, Elapse(b)
    PROVE  Inv'
<1> USE DEF Inv
<1>1. /\ move' \in [Attrs -> Moves \cup {Still}]
      /\ \A a \in Attrs : (Active(a)' <=> Active(a)) /\ move'[a].to = move[a].to
  BY ElapseMove
<1>2. UNCHANGED <<store, dirty, notice, style, base, needs, left, shown, stolen>>
  BY DEF Elapse
<1> QED
  BY <1>1, <1>2 DEF TypeOK, HeadsForState, RestsAtState, MovesToBase, FreshFollows, RestsAtBase

LEMMA RenderStep ==
    ASSUME Inv, Render
    PROVE  Inv'
<1> USE DEF Inv
<1>1. \A a \in Attrs :
         /\ move'[a] \in Moves \cup {Still} /\ style'[a] \in Held
         /\ move'[a] # Still => base'[a] # Unset /\ move'[a].to = base'[a]
         /\ move'[a] = Still => style'[a] = base'[a]
  BY RenderRest
<1>2. \A a \in Attrs : shown'[a] = style'[a] /\ base'[a] = Target(a)
  BY RenderOne
<1>3. /\ needs' = FALSE /\ dirty' = {} /\ stolen' = stolen \ dirty
      /\ UNCHANGED <<store, notice, left>> /\ shown' = style'
  BY DEF Render
<1>4. TypeOK'
  <2>1. style' \in [Attrs -> Held] /\ move' \in [Attrs -> Moves \cup {Still}]
    <3>1. PICK frame \in [Attrs -> UNION {Frames(b) : b \in Attrs}] :
              /\ style' = [b \in Attrs |-> frame[b].value]
              /\ move' = [b \in Attrs |-> frame[b].move]
      BY DEF Render
    <3> QED
      BY <1>1, <3>1
  <2>2. base' \in [Attrs -> Held]
    BY TargetValue DEF Render
  <2> QED
    BY <1>3, <2>1, <2>2 DEF TypeOK
<1>5. ASSUME NEW a \in Attrs, a \notin stolen', store[a] # Unset
      PROVE  base'[a] = store[a]
  <2>1. CASE a \in dirty
    BY <1>2, <1>5, <2>1, TargetValue
  <2>2. CASE a \notin dirty
    <3>1. a \notin dirty \cup stolen
      BY <1>3, <1>5, <2>2
    <3>2. base'[a] = IF base[a] # Unset THEN base[a] ELSE style[a]
      BY <1>2, <2>2, TargetValue
    <3> QED
      BY <1>5, <3>1, <3>2 DEF HeadsForState, FreshFollows
  <2> QED
    BY <2>1, <2>2
<1>6. HeadsForState'
  BY <1>1, <1>3, <1>5 DEF HeadsForState, Active
<1>7. RestsAtState'
  BY <1>1, <1>3, <1>5 DEF RestsAtState, Active
<1>8. MovesToBase' /\ RestsAtBase'
  BY <1>1, <1>2 DEF MovesToBase, RestsAtBase, Active
<1>9. FreshFollows'
  BY <1>3, <1>5 DEF FreshFollows
<1> QED
  BY <1>4, <1>6, <1>7, <1>8, <1>9

LEMMA InvStep ==
    ASSUME Inv, [Next]_vars
    PROVE  Inv'
<1>1. CASE Wake
  BY <1>1 DEF Wake, Inv, TypeOK, HeadsForState, RestsAtState, MovesToBase, FreshFollows,
              RestsAtBase, Active
<1>2. CASE UNCHANGED vars
  BY <1>2 DEF vars, Inv, TypeOK, HeadsForState, RestsAtState, MovesToBase, FreshFollows,
              RestsAtBase, Active
<1> QED
  BY <1>1, <1>2, ChangeStep, TakePatchedStep, LoadStep, ElapseStep, RenderStep DEF Next

LEMMA Invariant == Spec => []Inv
<1>1. Init => Inv
  BY InitInv
<1>2. Inv /\ [Next]_vars => Inv'
  BY InvStep
<1> QED
  BY <1>1, <1>2, PTL DEF Spec

-----------------------------------------------------------------------------
(* The results *)

\* Every variable of the controller and the loop keeps its type.
THEOREM TransitionsType == Spec => []TypeOK
<1>1. Inv => TypeOK
  BY DEF Inv
<1> QED
  BY <1>1, Invariant, PTL

\* What moves heads for what the state holds, and what rests shows it, whatever
\* the order of changes, drags, pages and renders (restore_baselines,
\* sync_dirty_state, sync_transitions, tick).
THEOREM RendersFollowState == Spec => []FollowsState
<1>1. Inv => FollowsState
  BY DEF Inv, FollowsState
<1> QED
  BY <1>1, Invariant, PTL

\* A transition from rest begins at the value of the last frame (sync_transitions
\* starts it at the baseline).
THEOREM TransitionStartsWhereShown == Spec => StartsWhereShown
<1> DEFINE Starts == \A a \in Attrs :
               ~Active(a) /\ move'[a].phase = "waiting" => shown'[a] = shown[a]
<1>1. Inv /\ [Next]_vars => [Starts]_vars
  <2> SUFFICES ASSUME Inv, Next, NEW a \in Attrs, ~Active(a), move'[a].phase = "waiting"
               PROVE  shown'[a] = shown[a]
    OBVIOUS
  <2> USE DEF Inv
  <2>1. move[a] = Still /\ move[a].phase = "still"
    BY DEF Active, Still
  <2>2. CASE Render
    <3>1. PICK m \in Launched(a) :
              move'[a] = Ticked(m) /\ style'[a] \in Drawn(a, m) /\ shown'[a] = style'[a]
      BY <2>2, RenderOne
    <3>2. m = move'[a] /\ m # Still
      BY <3>1, <2>1 DEF Ticked, Still
    <3>3. Changed(a) /\ m.from \in From(a)
      BY <2>1, <3>2, LaunchedMove
    <3>4. m.from = base[a] /\ base[a] # Unset
      BY <3>3 DEF From, Changed
    <3>5. style'[a] = m.from
      BY <3>1, <3>2 DEF Drawn, Sample
    <3> QED
      BY <3>1, <3>4, <3>5 DEF RestsAtBase
  <2>3. ASSUME NEW b \in Attrs, Elapse(b)
        PROVE  shown'[a] = shown[a]
    BY <2>3 DEF Elapse
  <2>4. CASE Load
    BY <2>4 DEF Load, UpdateDoc, Still
  <2>5. CASE TakePatched \/ Wake
    BY <2>5 DEF TakePatched, Wake
  <2>6. ASSUME NEW b \in Attrs, NEW v \in Values,
               \/ Act(b, v) \/ Patch(b, v) \/ \E keyed \in BOOLEAN : Drag(b, v, keyed)
        PROVE  shown'[a] = shown[a]
    BY <2>6 DEF Act, Patch, Drag
  <2> QED
    BY <2>2, <2>3, <2>4, <2>5, <2>6 DEF Next
<1> QED
  BY <1>1, Invariant, PTL DEF Spec, StartsWhereShown

\* A transition that is replaced while it waits leaves its start to the new one
\* (get_current_in_flight_value before cancel_property).
THEOREM RetargetingKeepsPlace == Spec => RetargetsInFlight
<1> DEFINE Keeps == \A a \in Attrs :
               /\ Active(a) /\ move[a].phase = "waiting"
               /\ move'[a].phase = "waiting"
               => move'[a].from = move[a].from
<1>1. Inv /\ [Next]_vars => [Keeps]_vars
  <2> SUFFICES ASSUME Inv, Next, NEW a \in Attrs, Active(a), move[a].phase = "waiting",
                      move'[a].phase = "waiting"
               PROVE  move'[a].from = move[a].from
    OBVIOUS
  <2> USE DEF Inv
  <2>1. CASE Render
    <3>1. PICK m \in Launched(a) : move'[a] = Ticked(m)
      BY <2>1, RenderOne
    <3>2. m = move'[a]
      BY <3>1 DEF Ticked, Still
    <3>3. CASE Changed(a)
      <4>1. m.from \in From(a)
        BY <3>3, LaunchedMove
      <4> QED
        BY <3>2, <4>1 DEF From, Sample
    <3>4. CASE ~Changed(a)
      BY <3>2, <3>4, LaunchedMove
    <3> QED
      BY <3>3, <3>4
  <2>2. ASSUME NEW b \in Attrs, Elapse(b)
        PROVE  move'[a] = move[a]
    BY <2>2, ElapseMove
  <2>3. CASE Load
    BY <2>3 DEF Load, UpdateDoc, Still
  <2>4. CASE TakePatched \/ Wake
    BY <2>4 DEF TakePatched, Wake
  <2>5. ASSUME NEW b \in Attrs, NEW v \in Values,
               \/ Act(b, v) \/ Patch(b, v) \/ \E keyed \in BOOLEAN : Drag(b, v, keyed)
        PROVE  move'[a] = move[a]
    BY <2>5 DEF Act, Patch, Drag
  <2> QED
    BY <2>1, <2>2, <2>3, <2>4, <2>5 DEF Next
<1> QED
  BY <1>1, Invariant, PTL DEF Spec, RetargetsInFlight

================================================================================
