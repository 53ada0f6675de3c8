-------------------------------- MODULE WebClient --------------------------------
(***************************************************************************)
(* The browser tab (oxiterm-server/assets/index.html): its WebSockets, its *)
(* user interface state and its timers.                                    *)
(*                                                                         *)
(* JavaScript runs one callback at a time, so an action is one callback:   *)
(* an event of a WebSocket, a timer or an interaction of the user.  That a *)
(* socket is down, whoever closed it, is reported by its onclose later on. *)
(* Delays, labels and the contents of the screen are left out.             *)
(*                                                                         *)
(* Definitions called ...Mutant are no part of the specification: each is  *)
(* a plausible bug that the properties of this module must detect.         *)
(***************************************************************************)

CONSTANTS Sockets,   \* bound: WebSockets that are not down at the same time
          First,     \* the one that boot() creates
          NoSocket   \* no socket

ASSUME ClientAssumption == First \in Sockets /\ NoSocket \notin Sockets

VARIABLES ui,        \* uiState
          prev,      \* prevUiState
          socket,    \* the state of each WebSocket
          current,   \* currentSocket
          waiting,   \* reconnectPending; its timer is set
          armed,     \* idleListenerArmed; its listeners are registered
          chip       \* errorTimer is set

tabVars == <<ui, prev, socket, current, waiting, armed, chip>>

UiStates == {"CONNECTING", "CONNECTED", "RECONNECTING", "ERROR", "IDLE", "TAKEN_OVER"}

\* boot() has called connect().
TabInit ==
    /\ ui = "CONNECTING" /\ prev = "CONNECTING"
    /\ socket = [s \in Sockets |-> IF s = First THEN "connecting" ELSE "down"]
    /\ current = NoSocket
    /\ waiting = FALSE /\ armed = FALSE /\ chip = FALSE

\* TAKEN_OVER is final, and no error is shown over RECONNECTING.
SetUiState(next) ==
    IF ui = "TAKEN_OVER" \/ (next = "ERROR" /\ ui = "RECONNECTING")
      THEN UNCHANGED <<ui, prev>>
      ELSE prev' = ui /\ ui' = next

\* connect(): a new socket.
Connect == \E s \in Sockets : /\ socket[s] = "down"
                              /\ socket' = [socket EXCEPT ![s] = "connecting"]

-----------------------------------------------------------------------------
(* The events of a socket *)

OnOpen(s) ==
    /\ socket[s] = "connecting"
    /\ socket' = [socket EXCEPT ![s] = "open"]
    /\ current' = s
    /\ SetUiState("CONNECTED")
    /\ UNCHANGED <<waiting, armed, chip>>

\* onClose(): at most one timer, and none when nobody wants to reconnect.
Schedule ==
    IF ui \in {"TAKEN_OVER", "IDLE"} \/ waiting
      THEN UNCHANGED <<waiting, ui, prev>>
      ELSE waiting' = TRUE /\ SetUiState("RECONNECTING")

OnCloseCurrentOnlyMutant(s) ==
    /\ socket[s] \in {"connecting", "open", "closing"}
    /\ socket' = [socket EXCEPT ![s] = "down"]
    /\ current' = IF s = current THEN NoSocket ELSE current
    /\ IF s = current THEN Schedule ELSE UNCHANGED <<waiting, ui, prev>>
    /\ UNCHANGED <<armed, chip>>

\* ws.onclose: of the current socket, of a failed attempt, or of a socket that
\* is stale because there is another one.
OnClose(s) ==
    /\ socket[s] \in {"connecting", "open", "closing"}
    /\ socket' = [socket EXCEPT ![s] = "down"]
    /\ current' = IF s = current THEN NoSocket ELSE current
    /\ IF current \in {s, NoSocket} THEN Schedule ELSE UNCHANGED <<waiting, ui, prev>>
    /\ UNCHANGED <<armed, chip>>

\* ws.onmessage hands on what the current socket receives.
Receives(s) == socket[s] = "open" /\ s = current

\* [0xFF, 0]
TakenOver(s) ==
    /\ Receives(s)
    /\ SetUiState("TAKEN_OVER")
    /\ current' = NoSocket
    /\ UNCHANGED <<socket, waiting, armed, chip>>

\* [0xFF, 1]
Idle(s) ==
    /\ Receives(s)
    /\ SetUiState("IDLE")
    /\ socket' = [socket EXCEPT ![s] = "closing"]
    /\ current' = NoSocket
    /\ armed' = TRUE
    /\ UNCHANGED <<waiting, chip>>

\* [0xFF, 2] and any other reason
Restarted(s) ==
    /\ Receives(s)
    /\ socket' = [socket EXCEPT ![s] = "closing"]
    /\ current' = NoSocket
    /\ UNCHANGED <<ui, prev, waiting, armed, chip>>

\* 0x34: a transient error
Error(s) ==
    /\ Receives(s)
    /\ SetUiState("ERROR")
    /\ chip' = TRUE
    /\ UNCHANGED <<socket, current, waiting, armed>>

-----------------------------------------------------------------------------
(* Timers and the user *)

\* The timer of onClose().
Timer ==
    /\ waiting
    /\ waiting' = FALSE
    /\ IF ui \in {"TAKEN_OVER", "IDLE"} THEN UNCHANGED socket ELSE Connect
    /\ UNCHANGED <<ui, prev, current, armed, chip>>

\* The timer of the error restores what was shown before it.
ChipTimer ==
    /\ chip
    /\ chip' = FALSE
    /\ IF ui = "ERROR" THEN SetUiState(prev) ELSE UNCHANGED <<ui, prev>>
    /\ UNCHANGED <<socket, current, waiting, armed>>

\* onInteraction: a key or a click wakes an idle tab.
Interact ==
    /\ armed
    /\ armed' = FALSE
    /\ Connect
    /\ UNCHANGED <<ui, prev, current, waiting, chip>>

-----------------------------------------------------------------------------

TabNext ==
    \/ \E s \in Sockets : \/ OnOpen(s) \/ OnClose(s)
                          \/ TakenOver(s) \/ Idle(s) \/ Restarted(s) \/ Error(s)
    \/ Timer \/ ChipTimer \/ Interact

TabSpec == TabInit /\ [][TabNext]_tabVars

\* Timers fire, attempts end, a closing socket gets its onclose, and a server
\* that is asked again and again answers in the end.
FairTabSpec ==
    /\ TabSpec
    /\ WF_tabVars(Timer) /\ WF_tabVars(ChipTimer)
    /\ \A s \in Sockets :
         /\ WF_tabVars(socket[s] \in {"connecting", "closing"} /\ (OnOpen(s) \/ OnClose(s)))
         /\ SF_tabVars(OnOpen(s))

-----------------------------------------------------------------------------
(* Properties *)

\* The state has its type, and the current socket is one that is open.
TabTypeOK ==
    /\ ui \in UiStates /\ prev \in UiStates
    /\ socket \in [Sockets -> {"down", "connecting", "open", "closing"}]
    /\ current \in {s \in Sockets : socket[s] = "open"} \cup {NoSocket}
    /\ waiting \in BOOLEAN /\ armed \in BOOLEAN /\ chip \in BOOLEAN

\* A tab that has lost its connection is never stranded: unless it rests (IDLE,
\* TAKEN_OVER), a timer or an event is still to come that connects it again.
NeverStranded ==
    current = NoSocket /\ ui \notin {"IDLE", "TAKEN_OVER"}
    => waiting \/ \E s \in Sockets : socket[s] \in {"connecting", "closing"}

\* RECONNECTING ends, if there is a socket left to try with.
Reconnects ==
    ui = "RECONNECTING"
    ~> \/ ui # "RECONNECTING"
       \/ \A s \in Sockets : socket[s] # "down"

\* "Stale sockets are ignored": an attempt is made only when no other is under
\* way and no socket is in use.  The code does not guarantee it: the onclose of a
\* stale socket counts as that of a failed attempt while another is connecting.
OneAttempt ==
    \A s, r \in Sockets :
        socket[s] = "connecting" /\ socket[r] \in {"connecting", "open"} => s = r

\* "One attempt.  If it fails, ws.onclose -> onClose -> RECONNECTING": an idle tab
\* can be woken.  The code does not guarantee it: onClose does nothing while IDLE.
IdleTabWakes ==
    ui = "IDLE" => armed \/ \E s \in Sockets : socket[s] \in {"connecting", "closing"}

\* "The old connection immediately terminates its socket": a tab that was taken
\* over closes its socket.  The code does not guarantee it: it forgets the socket
\* only, and the server ends the connection only when the socket is down.
TakenOverCloses ==
    ui = "TAKEN_OVER" ~> \A s \in Sockets : socket[s] # "open"

\* "Transient error chip": the error is shown while its timer runs, and then what
\* was shown before.  The code does not guarantee it: a second error remembers
\* the first as what to go back to.
ErrorIsTransient == ui = "ERROR" => chip
=============================================================================
