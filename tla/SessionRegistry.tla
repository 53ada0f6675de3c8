---------------------------- MODULE SessionRegistry ----------------------------
(***************************************************************************)
(* The table of sessions shared by the SSH server, the WebSocket server    *)
(* and the reaper (oxiterm-server/src/session.rs, web.rs, ssh/server.rs).  *)
(*                                                                         *)
(* The registry keeps two maps behind two reader-writer locks and an id    *)
(* counter behind a third.  A step is one acquisition of a lock together   *)
(* with what is done until the next acquisition; a guard that outlives the *)
(* step, and a writer that waits for readers, is recorded in "lock".  A token *)
(* is random and unique, so the token of a session is represented by the id *)
(* of the session.                                                         *)
(*                                                                         *)
(* Definitions called ...Mutant are no part of the specification: each is  *)
(* a plausible bug that the properties of this module must detect.         *)
(***************************************************************************)
EXTENDS Naturals, FiniteSets

CONSTANTS Ssh,          \* tasks that serve one SSH channel after another
          Web,          \* tasks that serve one WebSocket after another
          Reapers,      \* the reaper task (a set of at most one)
          Nobody,       \* no task
          MaxSessions,  \* the configured limit
          MaxIds,       \* bound: sessions created in a behaviour
          Video         \* sessions whose page plays a video

ASSUME RegistryAssumption ==
    /\ MaxSessions \in Nat \ {0}
    /\ MaxIds \in Nat
    /\ Video \subseteq Nat
    /\ Ssh \cap Web = {} /\ (Ssh \cup Web) \cap Reapers = {}
    /\ Nobody \notin Ssh \cup Web \cup Reapers
    /\ IsFiniteSet(Ssh \cup Web)

Servers == Ssh \cup Web
Tasks == Servers \cup Reapers
Ids == 0 .. MaxIds - 1

VARIABLES sessions,  \* SessionRegistry.sessions
          tokens,    \* SessionRegistry.tokens
          nextId,    \* SessionRegistry.next_id
          idOwner,   \* the task that holds the write guard of next_id
          lock,      \* the guards on the two maps that outlive a step
          pc,        \* where each task is
          cur,       \* the session each task works on
          before,    \* count_before in remove_session
          batch,     \* to_remove of the reaper
          conns,     \* ClientSession.active_connections
          web,       \* sessions with is_web_client set
          closed,    \* sessions whose event channel is closed
          loops,     \* event loops that are running, of sessions with a video
          drawing,   \* event loops that passed their check for a closed channel
          players,   \* the video player table holds a player
          removed    \* history: sessions that remove_session has closed

maps == <<sessions, tokens>>
loopVars == <<loops, drawing, players>>
connVars == <<conns, web, closed>>
registryVars == <<maps, nextId, idOwner, lock, pc, cur, before, batch, connVars,
          loopVars, removed>>

Maps == {"sessions", "tokens"}

PcValues == {"idle", "create", "alloc", "insert", "token", "lookup", "reopen",
             "connect", "serving", "lastOut", "reaping", "rmCount", "rmTake",
             "rmTokens", "rmClose", "rmAfter", "rmPlayers"}

RegistryInit ==
    /\ sessions = {} /\ tokens = {}
    /\ nextId = 0
    /\ idOwner = Nobody
    /\ lock = [m \in Maps |-> [readers |-> {}, writer |-> Nobody]]
    /\ pc = [t \in Tasks |-> "idle"]
    /\ cur = [t \in Tasks |-> 0]
    /\ before = [t \in Tasks |-> 0]
    /\ batch = {}
    /\ conns = [i \in Ids |-> 0]
    /\ web = {} /\ closed = {}
    /\ loops = {} /\ drawing = {} /\ players = FALSE
    /\ removed = {}

CanRead(m) == lock[m].writer = Nobody

\* A writer keeps new readers out while it waits for the old ones to leave.
CanWrite(t, m) == lock[m].writer \in {Nobody, t} /\ lock[m].readers = {}

\* The guards on tokens outlive a step of reattach, so that a writer may find
\* readers there: it claims the lock (the writer bit of parking_lot) and waits.
ClaimTokens(t) ==
    /\ pc[t] \in {"token", "rmTokens"}
    /\ lock["tokens"].writer = Nobody
    /\ lock["tokens"].readers # {}
    /\ lock' = [lock EXCEPT !["tokens"].writer = t]
    /\ UNCHANGED <<maps, nextId, idOwner, pc, cur, before, batch, connVars, loopVars, removed>>

\* Task t goes on at label with session i in its local variables.
GotoWith(t, label, i) ==
    /\ pc' = [pc EXCEPT ![t] = label]
    /\ cur' = [cur EXCEPT ![t] = i]

\* Task t goes on at label; between operations it works on no session.
Goto(t, label) ==
    GotoWith(t, label, IF label \in {"idle", "create", "reaping"} THEN 0 ELSE cur[t])

-----------------------------------------------------------------------------
(* create_session *)

BelowLimitMutant == Cardinality(sessions) <= MaxSessions

BelowLimit == Cardinality(sessions) < MaxSessions

\* The limit is checked under a guard that is released again.  A task that
\* came here because its token was unknown gives up when the table is full.
CreateCheck(t) ==
    /\ pc[t] \in {"idle", "create"}
    /\ t \in Servers
    /\ CanRead("sessions")
    /\ \/ BelowLimit /\ Goto(t, "alloc")
       \/ ~BelowLimit /\ Goto(t, "idle")
    /\ UNCHANGED <<maps, nextId, idOwner, lock, before, batch, connVars, loopVars, removed>>

\* The write guard of next_id lives until create_session returns.
CreateAlloc(t) ==
    /\ pc[t] = "alloc"
    /\ idOwner = Nobody
    /\ nextId < MaxIds
    /\ idOwner' = t
    /\ nextId' = nextId + 1
    /\ GotoWith(t, "insert", nextId)
    /\ UNCHANGED <<maps, lock, before, batch, connVars, loopVars, removed>>

CreateInsert(t) ==
    /\ pc[t] = "insert"
    /\ CanWrite(t, "sessions")
    /\ sessions' = sessions \cup {cur[t]}
    /\ Goto(t, "token")
    /\ UNCHANGED <<tokens, nextId, idOwner, lock, before, batch, connVars, loopVars, removed>>

\* An SSH shell starts its event loop at once.
CreateToken(t) ==
    /\ pc[t] = "token"
    /\ CanWrite(t, "tokens")
    /\ tokens' = tokens \cup {cur[t]}
    /\ lock' = [lock EXCEPT !["tokens"].writer = Nobody]
    /\ idOwner' = Nobody
    /\ loops' = IF t \in Ssh THEN loops \cup ({cur[t]} \cap Video) ELSE loops
    /\ Goto(t, IF t \in Ssh THEN "serving" ELSE "connect")
    /\ UNCHANGED <<sessions, nextId, before, batch, connVars, drawing, players, removed>>

-----------------------------------------------------------------------------
(* reattach, and what handle_websocket does with its result *)

\* The guard on tokens is held across the lookup of the session.  A client
\* knows the token of a session that some WebSocket was told before.
ReattachToken(t, i) ==
    /\ pc[t] = "idle"
    /\ t \in Web
    /\ i \in web
    /\ CanRead("tokens")
    /\ IF i \in tokens
         THEN /\ lock' = [lock EXCEPT !["tokens"].readers = @ \cup {t}]
              /\ GotoWith(t, "lookup", i)
         ELSE /\ Goto(t, "create")
              /\ UNCHANGED lock
    /\ UNCHANGED <<maps, nextId, idOwner, before, batch, connVars, loopVars, removed>>

ReattachSession(t) ==
    /\ pc[t] = "lookup"
    /\ CanRead("sessions")
    /\ lock' = [lock EXCEPT !["tokens"].readers = @ \ {t}]
    /\ Goto(t, IF cur[t] \in sessions THEN "reopen" ELSE "create")
    /\ UNCHANGED <<maps, nextId, idOwner, before, batch, connVars, loopVars, removed>>

\* s.reopen(), on whatever the session has become since it was looked up.
Reopen(t) ==
    /\ pc[t] = "reopen"
    /\ closed' = closed \ {cur[t]}
    /\ Goto(t, "connect")
    /\ UNCHANGED <<maps, nextId, idOwner, lock, before, batch, conns, web, loopVars, removed>>

\* active_connections + 1, the web flag, and an event loop if none runs.
Connect(t) ==
    /\ pc[t] = "connect"
    /\ conns' = [conns EXCEPT ![cur[t]] = @ + 1]
    /\ web' = web \cup {cur[t]}
    /\ loops' = loops \cup ({cur[t]} \cap Video)
    /\ Goto(t, "serving")
    /\ UNCHANGED <<maps, nextId, idOwner, lock, before, batch, closed, drawing, players, removed>>

\* The writer task of a WebSocket ends: fetch_sub, then close() if it was the last.
Disconnect(t) ==
    /\ pc[t] = "serving"
    /\ t \in Web
    /\ conns' = [conns EXCEPT ![cur[t]] = @ - 1]
    /\ Goto(t, IF conns[cur[t]] <= 1 THEN "lastOut" ELSE "idle")
    /\ UNCHANGED <<maps, nextId, idOwner, lock, before, batch, web, closed, loopVars, removed>>

CloseLast(t) ==
    /\ pc[t] = "lastOut"
    /\ closed' = closed \cup {cur[t]}
    /\ Goto(t, "idle")
    /\ UNCHANGED <<maps, nextId, idOwner, lock, before, batch, conns, web, loopVars, removed>>

-----------------------------------------------------------------------------
(* The reaper and remove_session *)

ReapableMutant == {i \in sessions : conns[i] = 0}

\* Disconnected web sessions; which of them are idle for 600 s is a choice.
Reapable == {i \in sessions : i \in web /\ conns[i] = 0}

ReaperScan(t) ==
    /\ t \in Reapers
    /\ pc[t] = "idle"
    /\ CanRead("sessions")
    /\ \E idle \in (SUBSET Reapable) \ {{}} : batch' = idle
    /\ Goto(t, "reaping")
    /\ UNCHANGED <<maps, nextId, idOwner, lock, before, connVars, loopVars, removed>>

ReaperNext(t) ==
    /\ pc[t] = "reaping"
    /\ \/ \E i \in batch : GotoWith(t, "rmCount", i) /\ batch' = batch \ {i}
       \/ batch = {} /\ Goto(t, "idle") /\ UNCHANGED batch
    /\ UNCHANGED <<maps, nextId, idOwner, lock, before, connVars, loopVars, removed>>

\* channel_close of an SSH channel, or the end of its connection.
ChannelClose(t) ==
    /\ pc[t] = "serving"
    /\ t \in Ssh
    /\ Goto(t, "rmCount")
    /\ UNCHANGED <<maps, nextId, idOwner, lock, before, batch, connVars, loopVars, removed>>

RemoveCount(t) ==
    /\ pc[t] = "rmCount"
    /\ CanRead("sessions")
    /\ before' = [before EXCEPT ![t] = Cardinality(sessions)]
    /\ Goto(t, "rmTake")
    /\ UNCHANGED <<maps, nextId, idOwner, lock, batch, connVars, loopVars, removed>>

RemoveForgetsTokensMutant(t) ==
    /\ pc[t] = "rmTake"
    /\ CanWrite(t, "sessions")
    /\ sessions' = sessions \ {cur[t]}
    /\ Goto(t, IF cur[t] \in sessions THEN "rmClose" ELSE "rmAfter")
    /\ UNCHANGED <<tokens, nextId, idOwner, lock, before, batch, connVars, loopVars, removed>>

\* The guard in the scrutinee of "if let" lives to the end of its body.
RemoveTake(t) ==
    /\ pc[t] = "rmTake"
    /\ CanWrite(t, "sessions")
    /\ sessions' = sessions \ {cur[t]}
    /\ IF cur[t] \in sessions
         THEN /\ lock' = [lock EXCEPT !["sessions"].writer = t]
              /\ Goto(t, "rmTokens")
         ELSE /\ Goto(t, "rmAfter")
              /\ UNCHANGED lock
    /\ UNCHANGED <<tokens, nextId, idOwner, before, batch, connVars, loopVars, removed>>

RemoveTokens(t) ==
    /\ pc[t] = "rmTokens"
    /\ CanWrite(t, "tokens")
    /\ tokens' = tokens \ {cur[t]}
    /\ lock' = [lock EXCEPT !["tokens"].writer = Nobody]
    /\ Goto(t, "rmClose")
    /\ UNCHANGED <<sessions, nextId, idOwner, before, batch, connVars, loopVars, removed>>

RemoveLeaksGuardMutant(t) ==
    /\ pc[t] = "rmClose"
    /\ closed' = closed \cup {cur[t]}
    /\ removed' = removed \cup {cur[t]}
    /\ Goto(t, "rmAfter")
    /\ UNCHANGED <<maps, nextId, idOwner, lock, before, batch, conns, web, loopVars>>

\* session.close() waits for the event loop to let go of the receiver, which
\* it does at least once a second; then the guard on sessions is dropped.
RemoveClose(t) ==
    /\ pc[t] = "rmClose"
    /\ closed' = closed \cup {cur[t]}
    /\ removed' = removed \cup {cur[t]}
    /\ lock' = [lock EXCEPT !["sessions"].writer = Nobody]
    /\ Goto(t, "rmAfter")
    /\ UNCHANGED <<maps, nextId, idOwner, before, batch, conns, web, loopVars>>

Removed(t) == IF t \in Ssh THEN "idle" ELSE "reaping"

RemoveAfter(t) ==
    /\ pc[t] = "rmAfter"
    /\ CanRead("sessions")
    /\ before' = [before EXCEPT ![t] = 0]
    /\ Goto(t, IF sessions = {} /\ before[t] > 0 THEN "rmPlayers" ELSE Removed(t))
    /\ UNCHANGED <<maps, nextId, idOwner, lock, batch, connVars, loopVars, removed>>

RemovePlayers(t) ==
    /\ pc[t] = "rmPlayers"
    /\ players' = FALSE
    /\ Goto(t, Removed(t))
    /\ UNCHANGED <<maps, nextId, idOwner, lock, before, batch, connVars, loops, drawing, removed>>

-----------------------------------------------------------------------------
(* The event loop of a session, as far as the registry's resources go. *)

\* One turn: it ends when the channel is closed, else it goes on to render.
LoopPoll(i) ==
    /\ i \in loops \ drawing
    /\ IF i \in closed
         THEN loops' = loops \ {i} /\ UNCHANGED drawing
         ELSE drawing' = drawing \cup {i} /\ UNCHANGED loops
    /\ UNCHANGED <<maps, nextId, idOwner, lock, pc, cur, before, batch, connVars, players, removed>>

\* The rendering asks for a frame of the video if it is in view, which starts a player.
LoopRender(i) ==
    /\ i \in drawing
    /\ drawing' = drawing \ {i}
    /\ players' \in {players, TRUE}
    /\ UNCHANGED <<maps, nextId, idOwner, lock, pc, cur, before, batch, connVars, loops, removed>>

-----------------------------------------------------------------------------

\* The steps of an operation that a task has begun.
TaskStep(t) ==
    \/ ClaimTokens(t)
    \/ CreateAlloc(t) \/ CreateInsert(t) \/ CreateToken(t)
    \/ pc[t] = "create" /\ CreateCheck(t)
    \/ ReattachSession(t) \/ Reopen(t) \/ Connect(t) \/ CloseLast(t)
    \/ ReaperNext(t)
    \/ RemoveCount(t) \/ RemoveTake(t) \/ RemoveTokens(t) \/ RemoveClose(t)
    \/ RemoveAfter(t) \/ RemovePlayers(t)

\* What the outside world starts: connections, disconnections, the timer.
TaskBegin(t) ==
    \/ pc[t] = "idle" /\ CreateCheck(t)
    \/ \E i \in Ids : ReattachToken(t, i)
    \/ Disconnect(t)
    \/ ChannelClose(t)
    \/ ReaperScan(t)

RegistryNext ==
    \/ \E t \in Tasks : TaskStep(t) \/ TaskBegin(t)
    \/ \E i \in Ids : LoopPoll(i) \/ LoopRender(i)

RegistrySpec == RegistryInit /\ [][RegistryNext]_registryVars

\* The locks of parking_lot are eventually fair: a writer keeps new readers
\* out, and a task that can take a lock again and again takes it.  Hence strong
\* fairness of each task.
FairRegistrySpec == RegistrySpec /\ \A t \in Tasks : SF_registryVars(TaskStep(t))

-----------------------------------------------------------------------------
(* Properties. *)

\* The state has its type.
RegistryTypeOK ==
    /\ sessions \subseteq Ids
    /\ tokens \subseteq Ids
    /\ nextId \in 0 .. MaxIds
    /\ idOwner \in Tasks \cup {Nobody}
    /\ lock \in [Maps -> [readers : SUBSET Tasks, writer : Tasks \cup {Nobody}]]
    /\ pc \in [Tasks -> PcValues]
    /\ cur \in [Tasks -> Nat]
    /\ before \in [Tasks -> Nat]
    /\ batch \subseteq Ids
    /\ conns \in [Ids -> Nat]
    /\ web \subseteq Ids
    /\ closed \subseteq Ids
    /\ loops \subseteq Ids
    /\ drawing \subseteq Ids
    /\ players \in BOOLEAN
    /\ removed \subseteq Ids

\* The task that is removing session i has taken it out of the first map only.
Removing(i) == \E t \in Tasks : pc[t] = "rmTokens" /\ cur[t] = i

\* The task that is creating session i has put it into the first map only.
Creating(i) == \E t \in Tasks : pc[t] = "token" /\ cur[t] = i

\* The two maps agree except inside create_session and remove_session, where
\* the disagreement is covered by a guard (remove) or harmless (create).
MapsAgree ==
    /\ \A i \in tokens \ sessions : Removing(i)
    /\ \A i \in sessions \ tokens : Creating(i)

\* The limit may be passed, since it is checked under a guard that is given
\* back before the insertion: by one session for every task that creates at
\* the same time, and no more.
BoundedOvershoot == Cardinality(sessions) <= MaxSessions + Cardinality(Servers) - 1

\* A session is only ever taken away from the table by its own SSH channel or
\* after a scan that saw it without connections, so that a live SSH session
\* stays registered: its slot, its token and its event channel are its own.
SshSessionRegistered ==
    \A t \in Ssh : pc[t] = "serving" => cur[t] \in sessions \cap tokens

\* create_session respects the limit.
\* The code does not guarantee it: see BoundedOvershoot.
LimitRespected == Cardinality(sessions) <= MaxSessions

\* reattach returns the live session or None: it returns.
\* The code does not guarantee it: reattach takes tokens before sessions and
\* remove_session takes sessions before tokens.
ReattachReturns == \A t \in Web : pc[t] = "lookup" ~> pc[t] # "lookup"

\* A reattach that holds tokens and a remove_session that holds sessions wait
\* for each other's guard.
LockCycle ==
    \E t \in Web, r \in Tasks : pc[t] = "lookup" /\ pc[r] = "rmTokens"

\* The opposite lock orders of reattach and remove_session are the only way to
\* hang: unless the two meet, whoever has begun to insert, look up or remove a
\* session gets his locks and comes out, the guards are given back, and the
\* reaper gets through what it has found.
OnlyLockOrderHangs ==
    \A t \in Tasks :
        pc[t] \in {"insert", "token", "lookup", "reaping", "rmCount", "rmTake",
                   "rmTokens", "rmClose", "rmAfter", "rmPlayers"}
        ~> pc[t] \in {"idle", "create", "reopen", "connect", "serving"} \/ LockCycle

\* remove_session frees what the session has allocated: when no session, event
\* loop or removal is left, no video player is left either.  The code does not
\* guarantee it: the loop may start a player after the players were cleared.
PlayersFreed ==
    /\ sessions = {} /\ loops = {} /\ removed # {}
    /\ \A t \in Tasks : pc[t] = "idle"
    => ~players

\* A session that was reaped stays closed.  The code does not guarantee it: a
\* reattach that looked the session up before reopens it afterwards.
ReapedStaysClosed == [][\A i \in removed : i \in closed => i \in closed']_registryVars
=============================================================================
