------------------------------ MODULE LossyFifo ------------------------------
(***************************************************************************)
(* What a bounded frame channel promises to the code that uses it, without *)
(* its lock, its condition variable or its wakeups.  Messages are numbered *)
(* in the order in which they are accepted; the messages still in flight   *)
(* are always the numbers lo + 1 .. accepted.  Overflow loses the oldest   *)
(* message in flight, never the one being accepted.                        *)
(***************************************************************************)
EXTENDS Naturals

CONSTANTS Capacity,   \* the number of messages the channel can hold
          MaxSend     \* bound on the number of accepted messages

VARIABLES accepted,   \* how many messages have been accepted
          lo,         \* every message up to lo has left the channel
          last,       \* the last message handed to the receiver (0: none)
          open        \* FALSE while the channel rejects messages

vars == <<accepted, lo, last, open>>

Init ==
    /\ accepted = 0
    /\ lo = 0
    /\ last = 0
    /\ open = TRUE

\* Accept one message; when the channel is full its oldest message is lost.
Push ==
    /\ open
    /\ accepted < MaxSend
    /\ accepted' = accepted + 1
    /\ lo' = IF accepted - lo >= Capacity THEN lo + 1 ELSE lo
    /\ UNCHANGED <<last, open>>

\* Hand the oldest message in flight to the receiver (also when closed).
Take ==
    /\ lo < accepted
    /\ lo' = lo + 1
    /\ last' = lo + 1
    /\ UNCHANGED <<accepted, open>>

Shut ==
    /\ open' = FALSE
    /\ UNCHANGED <<accepted, lo, last>>

\* Start over: what was in flight is discarded.
Restart ==
    /\ open' = TRUE
    /\ lo' = accepted
    /\ UNCHANGED <<accepted, last>>

Next == Push \/ Take \/ Shut \/ Restart

Spec == Init /\ [][Next]_vars
=============================================================================
