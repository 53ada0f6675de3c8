----------------------------- MODULE FrameChannel -----------------------------
(***************************************************************************)
(* The multi-sender, single-receiver channel of                            *)
(* oxiterm-server/src/backpressure.rs.                                     *)
(*                                                                         *)
(* One critical section of the inner mutex is one step.  What happens      *)
(* outside of it is a step of its own: the reading of the sender count in  *)
(* Drop, the release of the sender's reference, the registration of an     *)
(* asynchronous receiver with tokio's Notify, the expiry of a timed wait.  *)
(* A message is its number in the order of acceptance.  The receiver's     *)
(* operations take &mut self, so they never overlap one another.           *)
(*                                                                         *)
(* Definitions called ...Mutant are no part of the specification: each is  *)
(* a plausible bug that the properties of this module must detect.         *)
(***************************************************************************)
EXTENDS Naturals, Sequences

CONSTANTS Handles,    \* the sender handles (clones) that may ever exist
          First,      \* the handle that new() returns
          Capacity,   \* capacity given to new()
          MaxSend     \* bound: messages accepted in a behaviour

ASSUME ChannelAssumption ==
    /\ First \in Handles
    /\ Capacity \in Nat \ {0}
    /\ MaxSend \in Nat

VARIABLES queue,      \* ChannelInner.queue
          closed,     \* ChannelInner.closed
          permit,     \* the permit that Notify stores when nobody waits
          handle,     \* handle[h]: where sender handle h is in its life
          rx,         \* what the receiver is doing
          sent,       \* history: messages accepted by try_send
          got,        \* history: the last message handed to the receiver
          dropped,    \* history: try_send calls that returned Dropped
          delivered,  \* history: messages handed to the receiver
          cleared,    \* history: messages discarded by reopen
          overlapped, \* history: two handles were once inside Drop together
          shut        \* history: a Drop has closed the channel

chan == <<queue, closed, permit>>
hist == <<sent, got, dropped, delivered, cleared>>
channelVars == <<chan, handle, rx, hist, overlapped, shut>>

\* "last": Drop read a count of 1 and is about to close; "leaving": only the
\* release of the reference is left.
HandleStates == {"unused", "live", "last", "leaving", "gone"}

RxStates == {"idle", "async", "unlocked", "waiting",
             "blocking", "parked",
             "timed", "timedParked", "timedWoken", "dropped"}

\* The handles that Arc::strong_count(&self.senders) counts.
Counted == {h \in Handles : handle[h] \in {"live", "last", "leaving"}}

Dropping == {h \in Handles : handle[h] \in {"last", "leaving"}}

ChannelInit ==
    /\ queue = <<>>
    /\ closed = FALSE
    /\ permit = FALSE
    /\ handle = [h \in Handles |-> IF h = First THEN "live" ELSE "unused"]
    /\ rx = "idle"
    /\ sent = 0 /\ got = 0 /\ dropped = 0 /\ delivered = 0 /\ cleared = 0
    /\ overlapped = FALSE
    /\ shut = FALSE

-----------------------------------------------------------------------------
(* The two ways of waking the receiver. *)

\* Condvar::notify_one and notify_all: there is at most one waiter.
Unparked(r) ==
    CASE r = "parked"      -> "blocking"
      [] r = "timedParked" -> "timedWoken"
      [] OTHER             -> r

\* Notify::notify_waiters wakes a task that waits already and stores nothing.
NotifyWaiters ==
    /\ rx' = IF rx = "waiting" THEN "async" ELSE Unparked(rx)
    /\ UNCHANGED permit

\* Notify::notify_one wakes the waiting task or stores a permit for the next.
NotifyOne ==
    /\ rx' = IF rx = "waiting" THEN "async" ELSE Unparked(rx)
    /\ permit' = (permit \/ rx # "waiting")

-----------------------------------------------------------------------------
(* Senders. *)

Full == Len(queue) >= Capacity

\* The queue after try_send: on overflow the oldest message makes room.
Pushed(m) == Append(IF Full THEN Tail(queue) ELSE queue, m)

\* try_send on an open channel; on a closed one it returns Closed and changes
\* nothing.
TrySend(h) ==
    /\ handle[h] = "live"
    /\ ~closed
    /\ sent < MaxSend
    /\ sent' = sent + 1
    /\ queue' = Pushed(sent + 1)
    /\ dropped' = IF Full THEN dropped + 1 ELSE dropped
    /\ NotifyOne
    /\ UNCHANGED <<closed, handle, got, delivered, cleared, overlapped, shut>>

CloneHandle(h, c) ==
    /\ handle[h] = "live"
    /\ handle[c] = "unused"
    /\ handle' = [handle EXCEPT ![c] = "live"]
    /\ UNCHANGED <<chan, rx, hist, overlapped, shut>>

IgnoresItselfMutant(h) == Counted = {}

\* Arc::strong_count(&self.senders) == 1, asked by a handle that is counted.
IsLastSender(h) == Counted = {h}

\* Drop reads the count without holding the lock.
DropCheck(h) ==
    /\ handle[h] = "live"
    /\ handle' = [handle EXCEPT ![h] = IF IsLastSender(h) THEN "last" ELSE "leaving"]
    /\ overlapped' = (overlapped \/ Dropping # {})
    /\ UNCHANGED <<chan, rx, hist, shut>>

DropClose(h) ==
    /\ handle[h] = "last"
    /\ handle' = [handle EXCEPT ![h] = "leaving"]
    /\ closed' = TRUE
    /\ shut' = TRUE
    /\ NotifyWaiters
    /\ UNCHANGED <<queue, hist, overlapped>>

DropRelease(h) ==
    /\ handle[h] = "leaving"
    /\ handle' = [handle EXCEPT ![h] = "gone"]
    /\ UNCHANGED <<chan, rx, hist, overlapped, shut>>

-----------------------------------------------------------------------------
(* The receiver. *)

\* A receive operation begins: recv, blocking_recv or recv_timeout.
Begin(mode) ==
    /\ rx = "idle"
    /\ rx' = mode
    /\ UNCHANGED <<chan, handle, hist, overlapped, shut>>

\* queue.pop_front() returned an item, which ends the operation.
Pop ==
    /\ queue # <<>>
    /\ queue' = Tail(queue)
    /\ got' = Head(queue)
    /\ delivered' = delivered + 1
    /\ rx' = "idle"
    /\ UNCHANGED <<closed, permit, handle, sent, dropped, cleared, overlapped, shut>>

\* The queue is empty: the receiver moves on without touching the channel.
FoundEmpty(next) ==
    /\ queue = <<>>
    /\ rx' = next
    /\ UNCHANGED <<chan, handle, hist, overlapped, shut>>

\* recv: the check under the lock; None when closed and drained.
AsyncCheck ==
    /\ rx = "async"
    /\ \/ Pop
       \/ closed /\ FoundEmpty("idle")
       \/ ~closed /\ FoundEmpty("unlocked")

\* recv: notified().await, after the lock was released.
AsyncRegister ==
    /\ rx = "unlocked"
    /\ rx' = IF permit THEN "async" ELSE "waiting"
    /\ permit' = FALSE
    /\ UNCHANGED <<queue, closed, handle, hist, overlapped, shut>>

\* blocking_recv: check and wait are one critical section.
BlockingCheck ==
    /\ rx = "blocking"
    /\ \/ Pop
       \/ closed /\ FoundEmpty("idle")
       \/ ~closed /\ FoundEmpty("parked")

\* recv_timeout: waits at most once, then takes what is there.
TimedCheck ==
    /\ rx = "timed"
    /\ \/ Pop
       \/ closed /\ FoundEmpty("idle")
       \/ ~closed /\ FoundEmpty("timedParked")

TimedExpire ==
    /\ rx = "timedParked"
    /\ rx' = "timedWoken"
    /\ UNCHANGED <<chan, handle, hist, overlapped, shut>>

TimedFinish ==
    /\ rx = "timedWoken"
    /\ Pop \/ FoundEmpty("idle")

TryRecv ==
    /\ rx = "idle"
    /\ Pop

CloseDiscardsMutant ==
    /\ rx = "idle"
    /\ closed' = TRUE
    /\ queue' = <<>>
    /\ NotifyWaiters
    /\ UNCHANGED <<handle, hist, overlapped, shut>>

Close ==
    /\ rx = "idle"
    /\ closed' = TRUE
    /\ NotifyWaiters
    /\ UNCHANGED <<queue, handle, hist, overlapped, shut>>

Reopen ==
    /\ rx = "idle"
    /\ closed' = FALSE
    /\ queue' = <<>>
    /\ cleared' = cleared + Len(queue)
    /\ UNCHANGED <<permit, handle, rx, sent, got, dropped, delivered, overlapped, shut>>

\* The Receiver is dropped: senders are not told.
RxDrop ==
    /\ rx = "idle"
    /\ rx' = "dropped"
    /\ UNCHANGED <<chan, handle, hist, overlapped, shut>>

-----------------------------------------------------------------------------

SenderStep(h) ==
    \/ TrySend(h)
    \/ \E c \in Handles : CloneHandle(h, c)
    \/ DropCheck(h)
    \/ DropClose(h)
    \/ DropRelease(h)

\* The steps of an operation that has begun.
RxStep == AsyncCheck \/ AsyncRegister \/ BlockingCheck
          \/ TimedCheck \/ TimedExpire \/ TimedFinish

BeginSome == \E mode \in {"async", "blocking", "timed"} : Begin(mode)

ChannelNext ==
    \/ \E h \in Handles : SenderStep(h)
    \/ RxStep
    \/ BeginSome
    \/ TryRecv
    \/ Close
    \/ Reopen
    \/ RxDrop

ChannelSpec == ChannelInit /\ [][ChannelNext]_channelVars

\* The consumers of the repository (the event loop and the SSH output task)
\* receive in a loop; threads that hold a lock or are woken are scheduled.
FairChannelSpec ==
    /\ ChannelSpec
    /\ WF_channelVars(RxStep)
    /\ WF_channelVars(BeginSome)
    /\ \A h \in Handles : WF_channelVars(DropClose(h)) /\ WF_channelVars(DropRelease(h))

-----------------------------------------------------------------------------
(* Properties. *)

\* The state has its type, and the queue respects the capacity of new().
ChannelTypeOK ==
    /\ queue \in Seq(Nat) /\ Len(queue) <= Capacity
    /\ closed \in BOOLEAN
    /\ permit \in BOOLEAN
    /\ handle \in [Handles -> HandleStates]
    /\ rx \in RxStates
    /\ sent \in Nat
    /\ got \in Nat
    /\ dropped \in Nat
    /\ delivered \in Nat
    /\ cleared \in Nat
    /\ overlapped \in BOOLEAN
    /\ shut \in BOOLEAN

\* The queue always holds the newest consecutive messages: only the oldest are
\* lost, there is no gap, and an overflow reorders nothing.
NewestKept ==
    /\ \A i \in 1 .. Len(queue) : queue[i] = sent - Len(queue) + i
    /\ got + Len(queue) <= sent

\* Every accepted message is handed over once, reported by a Dropped result,
\* discarded by reopen, or still queued: no loss that no caller is told of.
EveryMessageAccounted == delivered + dropped + cleared + Len(queue) = sent

\* A receiver that sleeps never sleeps on a message: the check under the lock
\* and the later registration with Notify cannot lose a send in between.
NoLostMessageWakeup ==
    /\ rx \in {"waiting", "parked", "timedParked"} => queue = <<>>
    /\ rx = "unlocked" /\ queue # <<>> => permit

\* A Drop that read a count of one is alone, although the count is read
\* without the lock: the channel is never closed under a live sender.
DropClosesAlone ==
    \A h \in Handles : handle[h] = "last" => Counted = {h}

\* When the drops of the handles did not overlap, the last one has closed the
\* channel.  (When they did, each may have read a count of two.)
LastDropCloses ==
    Counted = {} /\ ~overlapped => shut

\* Messages reach the receiver in the order of acceptance, never twice.
InOrder == [][got' # got => got' > got]_channelVars

\* A message that was accepted leaves the queue as long as the receiver is
\* there: no interleaving of senders and receiver leaves it stuck.
NoStuckMessage ==
    \A n \in 1 .. MaxSend :
        n \in {queue[i] : i \in 1 .. Len(queue)} ~>
            n \notin {queue[i] : i \in 1 .. Len(queue)} \/ rx = "dropped"

\* A receiver that sleeps inside recv() sleeps on an open channel.  The code
\* does not guarantee it: Drop's notify_waiters is lost between the check of
\* recv and its registration.
CloseWakesAsyncReceiver == rx = "waiting" => ~closed

\* The abstract channel: the queue is the interval lo + 1 .. sent.
Fifo == INSTANCE LossyFifo
            WITH accepted <- sent, lo <- sent - Len(queue),
                 last <- got, open <- ~closed

FifoSpec == Fifo!Spec
=============================================================================
