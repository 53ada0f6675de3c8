------------------------------- MODULE SshProofs -------------------------------
(***************************************************************************)
(* Theorems about the sessions of the SSH server: SessionRegistry, for any *)
(* number of tasks, sessions and any limit, and the two directions of a    *)
(* connection: AnsiScreen, for every screen, channel capacity and batch,   *)
(* and InputDecoder, for every set of items, noise and capacity.           *)
(*                                                                         *)
(* The argument about the registry is one of ownership: a task that is     *)
(* creating a session, or an SSH channel that has one, is the only one to  *)
(* work on that id; other tasks come by ids that some WebSocket was told,  *)
(* or that the reaper saw among those.                                     *)
(*                                                                         *)
(* The decoder's: what is kept between two bytes has the shape its state   *)
(* promises; and an item gives exactly its event.  The second goes from    *)
(* the numbers, lists, flags and characters of the encodings, which are    *)
(* read as they were written, over the items, to the line that carries     *)
(* them byte by byte.                                                      *)
(***************************************************************************)
EXTENDS SessionRegistry, AnsiScreen, InputDecoder, SequenceTheorems, FiniteSetTheorems,
        Recursion, TLAPS

-----------------------------------------------------------------------------
(* The registry *)

Removal == {"rmCount", "rmTake", "rmTokens", "rmClose", "rmAfter", "rmPlayers"}

\* Task t has a session in its hands.
Using(t) == pc[t] \notin {"idle", "create", "alloc", "reaping"}

\* The session of task t is known to nobody else.
Owns(t) ==
    \/ pc[t] \in {"insert", "token"}
    \/ t \in Ssh /\ pc[t] \in Removal \cup {"serving"}

\* Each kind of task keeps to its own operations.
Placed ==
    \A t \in Tasks :
        /\ pc[t] \in {"create", "alloc", "insert", "token", "serving"} => t \in Servers
        /\ pc[t] \in {"lookup", "reopen", "connect", "lastOut"} => t \in Web
        /\ pc[t] \in Removal => t \notin Web
        /\ pc[t] = "reaping" => t \in Reapers

\* Ids that are in use have been handed out.
Fresh ==
    /\ sessions \cup tokens \cup web \cup batch \subseteq {i \in Ids : i < nextId}
    /\ \A t \in Tasks : Using(t) => cur[t] \in Ids /\ cur[t] < nextId

\* What is not owned was told to a browser.
Public ==
    /\ batch \subseteq web
    /\ \A t \in Tasks :
          \/ pc[t] \in {"lookup", "reopen"}
          \/ t \in Reapers /\ pc[t] \in Removal
          => cur[t] \in web

Exclusive ==
    \A t \in Tasks :
        Owns(t) => /\ cur[t] \notin web
                   /\ \A u \in Tasks \ {t} : Using(u) => cur[u] # cur[t]

\* Between the two maps.
Halfway ==
    \A t \in Tasks :
        /\ pc[t] = "token" => cur[t] \in sessions
        /\ pc[t] = "rmTokens" => cur[t] \notin sessions

\* The WebSockets that are counted for session i.
Attached(i) == {t \in Web : pc[t] = "serving" /\ cur[t] = i}

Counts == \A i \in Ids : conns[i] = Cardinality(Attached(i))

\* Tasks that have passed the check of the limit.
Admitted == {t \in Servers : pc[t] \in {"alloc", "insert"}}

Slots == Cardinality(sessions) + Cardinality(Admitted) <= MaxSessions + Cardinality(Servers) - 1

Ownership == Placed /\ Fresh /\ Public /\ Exclusive

Inv == RegistryTypeOK /\ Ownership /\ Halfway /\ MapsAgree /\ SshSessionRegistered /\ Counts /\ Slots

-----------------------------------------------------------------------------
(* Helpers. *)

\* The step of a task changes the place and the session of that task only.
LEMMA Moves ==
    ASSUME RegistryTypeOK, NEW t \in Tasks, NEW label \in PcValues, NEW i \in Nat,
           GotoWith(t, label, i)
    PROVE  /\ pc' \in [Tasks -> PcValues] /\ cur' \in [Tasks -> Nat]
           /\ pc'[t] = label /\ cur'[t] = i
           /\ \A u \in Tasks \ {t} : pc'[u] = pc[u] /\ cur'[u] = cur[u]
  BY DEF RegistryTypeOK, GotoWith

\* The same for Goto, which forgets the session between operations.
LEMMA Goes ==
    ASSUME RegistryTypeOK, NEW t \in Tasks, NEW label \in PcValues, Goto(t, label)
    PROVE  /\ pc' \in [Tasks -> PcValues] /\ cur' \in [Tasks -> Nat]
           /\ pc'[t] = label
           /\ label \notin {"idle", "create", "reaping"} => cur'[t] = cur[t]
           /\ \A u \in Tasks \ {t} : pc'[u] = pc[u] /\ cur'[u] = cur[u]
  BY DEF RegistryTypeOK, Goto, GotoWith

\* The ids, and so every set of sessions, are finite.
LEMMA FiniteIds == IsFiniteSet(Ids) /\ \A S \in SUBSET Ids : IsFiniteSet(S) /\ Cardinality(S) \in Nat
<1>1. IsFiniteSet(Ids)
  BY FS_Interval, RegistryAssumption DEF Ids
<1> QED
  BY <1>1, FS_Subset, FS_CardinalityType

-----------------------------------------------------------------------------
(* Types. *)

\* A WebSocket that is counted makes the count positive.
LEMMA CountPositive ==
    ASSUME RegistryTypeOK, Counts, NEW t \in Web, pc[t] = "serving", cur[t] \in Ids
    PROVE  conns[cur[t]] - 1 \in Nat
<1>1. IsFiniteSet(Attached(cur[t])) /\ t \in Attached(cur[t])
  BY RegistryAssumption, FS_Subset DEF Attached, Servers
<1>2. Cardinality(Attached(cur[t])) # 0
  BY <1>1, FS_EmptySet
<1> QED
  BY <1>2 DEF Counts, RegistryTypeOK

LEMMA TaskType ==
    ASSUME Inv, NEW t \in Tasks, TaskStep(t) \/ TaskBegin(t)
    PROVE  RegistryTypeOK'
<1> USE DEF Inv, Ownership, maps, connVars, loopVars
<1>1. CASE ClaimTokens(t)
  BY <1>1 DEF RegistryTypeOK, ClaimTokens, Maps
<1>2. CASE CreateCheck(t)
  BY <1>2 DEF RegistryTypeOK, CreateCheck, Goto, GotoWith, PcValues
<1>3. CASE CreateAlloc(t)
  <2>1. nextId \in 0 .. MaxIds /\ nextId < MaxIds /\ nextId' = nextId + 1
    BY <1>3 DEF CreateAlloc, RegistryTypeOK
  <2>2. nextId \in Nat /\ nextId' \in 0 .. MaxIds
    BY <2>1, RegistryAssumption
  <2>3. pc' \in [Tasks -> PcValues] /\ cur' \in [Tasks -> Nat] /\ idOwner' \in Tasks \cup {Nobody}
    BY <1>3, <2>2 DEF CreateAlloc, GotoWith, PcValues, RegistryTypeOK
  <2> QED
    BY <1>3, <2>2, <2>3 DEF CreateAlloc, RegistryTypeOK
<1>4. CASE CreateInsert(t)
  BY <1>4 DEF RegistryTypeOK, CreateInsert, Goto, GotoWith, PcValues, Fresh, Using
<1>5. CASE CreateToken(t)
  BY <1>5 DEF RegistryTypeOK, CreateToken, Goto, GotoWith, PcValues, Fresh, Using, Maps
<1>6. CASE ReattachSession(t)
  BY <1>6 DEF RegistryTypeOK, ReattachSession, Goto, GotoWith, PcValues, Maps
<1>7. CASE Reopen(t)
  BY <1>7 DEF RegistryTypeOK, Reopen, Goto, GotoWith, PcValues
<1>8. CASE Connect(t)
  BY <1>8 DEF RegistryTypeOK, Connect, Goto, GotoWith, PcValues, Fresh, Using
<1>9. CASE CloseLast(t)
  BY <1>9 DEF RegistryTypeOK, CloseLast, Goto, GotoWith, PcValues, Fresh, Using
<1>10. CASE ReaperNext(t)
  <2>1. batch' \subseteq Ids
    BY <1>10 DEF RegistryTypeOK, ReaperNext
  <2>2. pc' \in [Tasks -> PcValues] /\ cur' \in [Tasks -> Nat]
    <3>1. ASSUME NEW i \in batch, GotoWith(t, "rmCount", i)
          PROVE  pc' \in [Tasks -> PcValues] /\ cur' \in [Tasks -> Nat]
      <4>1. i \in Nat /\ "rmCount" \in PcValues
        BY RegistryAssumption DEF RegistryTypeOK, Ids, PcValues
      <4> QED
        BY <3>1, <4>1, Moves
    <3>2. ASSUME Goto(t, "idle")
          PROVE  pc' \in [Tasks -> PcValues] /\ cur' \in [Tasks -> Nat]
      <4>1. "idle" \in PcValues
        BY DEF PcValues
      <4> QED
        BY <3>2, <4>1, Goes
    <3> QED
      BY <1>10, <3>1, <3>2 DEF ReaperNext
  <2> QED
    BY <1>10, <2>1, <2>2 DEF RegistryTypeOK, ReaperNext
<1>11. CASE RemoveCount(t)
  BY <1>11, FiniteIds DEF RegistryTypeOK, RemoveCount, Goto, GotoWith, PcValues
<1>12. CASE RemoveTake(t)
  BY <1>12 DEF RegistryTypeOK, RemoveTake, Goto, GotoWith, PcValues, Maps
<1>13. CASE RemoveTokens(t)
  BY <1>13 DEF RegistryTypeOK, RemoveTokens, Goto, GotoWith, PcValues, Maps
<1>14. CASE RemoveClose(t)
  BY <1>14 DEF RegistryTypeOK, RemoveClose, Goto, GotoWith, PcValues, Fresh, Using, Maps
<1>15. CASE RemoveAfter(t)
  BY <1>15 DEF RegistryTypeOK, RemoveAfter, Goto, GotoWith, PcValues, Removed
<1>16. CASE RemovePlayers(t)
  BY <1>16 DEF RegistryTypeOK, RemovePlayers, Goto, GotoWith, PcValues, Removed
<1>17. CASE Disconnect(t)
  BY <1>17, CountPositive DEF RegistryTypeOK, Disconnect, Goto, GotoWith, PcValues, Fresh, Using, Placed
<1>18. CASE ChannelClose(t)
  BY <1>18 DEF RegistryTypeOK, ChannelClose, Goto, GotoWith, PcValues
<1>19. CASE ReaperScan(t)
  BY <1>19 DEF RegistryTypeOK, ReaperScan, Goto, GotoWith, PcValues, Reapable
<1>20. ASSUME NEW i \in Ids, ReattachToken(t, i) PROVE RegistryTypeOK'
  <2>1. i \in Nat /\ {"lookup", "create"} \subseteq PcValues
    BY RegistryAssumption DEF Ids, PcValues
  <2>2. pc' \in [Tasks -> PcValues] /\ cur' \in [Tasks -> Nat]
    BY <1>20, <2>1, Moves, Goes DEF ReattachToken
  <2>3. lock' \in [Maps -> [readers : SUBSET Tasks, writer : Tasks \cup {Nobody}]]
    BY <1>20 DEF ReattachToken, RegistryTypeOK, Maps
  <2> QED
    BY <1>20, <2>2, <2>3 DEF RegistryTypeOK, ReattachToken
<1> QED
  BY <1>1, <1>2, <1>3, <1>4, <1>5, <1>6, <1>7, <1>8, <1>9, <1>10, <1>11, <1>12, <1>13, <1>14, <1>15, <1>16, <1>17, <1>18, <1>19, <1>20 DEF TaskStep, TaskBegin

-----------------------------------------------------------------------------
(* Ownership of ids. *)

LEMMA TaskOwnership ==
    ASSUME Inv, NEW t \in Tasks, TaskStep(t) \/ TaskBegin(t)
    PROVE  Ownership'
<1> USE RegistryAssumption DEF Inv, RegistryTypeOK, Ownership, maps, connVars, loopVars, Goto, GotoWith, Placed, Fresh, Public, Exclusive, Using, Owns, Removal, Servers, Tasks
<1>1. CASE ClaimTokens(t)
  BY <1>1 DEF ClaimTokens
<1>2. CASE CreateCheck(t)
  BY <1>2 DEF CreateCheck
<1>3. CASE CreateAlloc(t)
  <2>1. /\ nextId \in Ids /\ nextId' = nextId + 1
        /\ pc'[t] = "insert" /\ cur'[t] = nextId /\ pc[t] = "alloc"
        /\ \A u \in Tasks \ {t} : pc'[u] = pc[u] /\ cur'[u] = cur[u]
    BY <1>3 DEF CreateAlloc, Ids
  <2>2. /\ UNCHANGED <<sessions, tokens, web, batch>>
    BY <1>3 DEF CreateAlloc
  <2>3. Placed' /\ Public'
    BY <2>1, <2>2
  <2>4. \A i \in Ids : i < nextId => i < nextId' /\ i # nextId
    BY <2>1 DEF Ids
  <2>5. nextId < nextId'
    BY <2>1 DEF Ids
  <2>6. Fresh'
    BY <2>1, <2>2, <2>4, <2>5
  <2>7. Exclusive'
    BY <2>1, <2>2, <2>4
  <2> QED
    BY <2>3, <2>6, <2>7
<1>4. CASE CreateInsert(t)
  BY <1>4 DEF CreateInsert
<1>5. CASE CreateToken(t)
  BY <1>5 DEF CreateToken
<1>6. CASE ReattachSession(t)
  BY <1>6 DEF ReattachSession
<1>7. CASE Reopen(t)
  BY <1>7 DEF Reopen
<1>8. CASE Connect(t)
  BY <1>8 DEF Connect
<1>9. CASE CloseLast(t)
  BY <1>9 DEF CloseLast
<1>10. CASE RemoveCount(t)
  BY <1>10 DEF RemoveCount
<1>11. CASE RemoveTake(t)
  BY <1>11 DEF RemoveTake
<1>12. CASE RemoveTokens(t)
  BY <1>12 DEF RemoveTokens
<1>13. CASE RemoveClose(t)
  BY <1>13 DEF RemoveClose
<1>14. CASE RemoveAfter(t)
  BY <1>14 DEF RemoveAfter, Removed
<1>15. CASE RemovePlayers(t)
  BY <1>15 DEF RemovePlayers, Removed
<1>16. CASE Disconnect(t)
  BY <1>16 DEF Disconnect
<1>17. CASE ChannelClose(t)
  BY <1>17 DEF ChannelClose
<1>18. CASE ReaperScan(t)
  BY <1>18 DEF ReaperScan, Reapable
<1>19. CASE ReaperNext(t)
  <2>1. ASSUME NEW i \in batch, GotoWith(t, "rmCount", i), batch' = batch \ {i}
        PROVE  Ownership'
    <3>1. /\ pc'[t] = "rmCount" /\ cur'[t] = i /\ pc[t] = "reaping" /\ i \in web
          /\ i \in Ids /\ i < nextId
          /\ \A u \in Tasks \ {t} : pc'[u] = pc[u] /\ cur'[u] = cur[u]
      BY <1>19, <2>1 DEF ReaperNext
    <3>2. UNCHANGED <<sessions, tokens, web, nextId>>
      BY <1>19 DEF ReaperNext
    <3>3. Placed' /\ Public'
      BY <2>1, <3>1, <3>2
    <3>4. Fresh'
      BY <2>1, <3>1, <3>2
    <3>5. Exclusive'
      BY <3>1, <3>2
    <3> QED
      BY <3>3, <3>4, <3>5
  <2>2. ASSUME Goto(t, "idle"), batch' = batch PROVE Ownership'
    BY <1>19, <2>2 DEF ReaperNext
  <2> QED
    BY <1>19, <2>1, <2>2 DEF ReaperNext
<1>20. ASSUME NEW i \in Ids, ReattachToken(t, i) PROVE Ownership'
  <2>1. /\ i \in web /\ i < nextId /\ t \in Web /\ pc[t] = "idle"
        /\ UNCHANGED <<sessions, tokens, web, batch, nextId>>
    BY <1>20 DEF ReattachToken
  <2>2. CASE i \in tokens
    <3>1. /\ pc'[t] = "lookup" /\ cur'[t] = i
          /\ \A u \in Tasks \ {t} : pc'[u] = pc[u] /\ cur'[u] = cur[u]
      BY <1>20, <2>2 DEF ReattachToken
    <3>2. Placed' /\ Public'
      BY <2>1, <3>1
    <3>3. Fresh'
      BY <2>1, <3>1
    <3>4. Exclusive'
      BY <2>1, <3>1
    <3> QED
      BY <3>2, <3>3, <3>4
  <2>3. CASE i \notin tokens
    BY <1>20, <2>1, <2>3 DEF ReattachToken
  <2> QED
    BY <2>2, <2>3
<1> QED
  BY <1>1, <1>2, <1>3, <1>4, <1>5, <1>6, <1>7, <1>8, <1>9, <1>10, <1>11, <1>12, <1>13, <1>14, <1>15, <1>16, <1>17, <1>18, <1>19, <1>20 DEF TaskStep, TaskBegin

-----------------------------------------------------------------------------
(* The two maps. *)

LEMMA TaskMaps ==
    ASSUME Inv, NEW t \in Tasks, TaskStep(t) \/ TaskBegin(t)
    PROVE  (Halfway /\ MapsAgree /\ SshSessionRegistered)'
<1> USE DEF Inv, RegistryTypeOK, Ownership, maps, connVars, loopVars, Goto, GotoWith, Exclusive, Using, Owns, Removal, Servers, Tasks, Halfway, MapsAgree, Removing, Creating, SshSessionRegistered
<1>1. CASE ClaimTokens(t)
  BY <1>1 DEF ClaimTokens
<1>2. CASE CreateCheck(t)
  BY <1>2 DEF CreateCheck
<1>3. CASE CreateAlloc(t)
  BY <1>3 DEF CreateAlloc
<1>4. CASE CreateInsert(t)
  BY <1>4 DEF CreateInsert
<1>5. CASE CreateToken(t)
  BY <1>5 DEF CreateToken
<1>6. CASE ReattachSession(t)
  BY <1>6 DEF ReattachSession
<1>7. CASE Reopen(t)
  BY <1>7 DEF Reopen
<1>8. CASE Connect(t)
  <2>1. /\ t \notin Ssh /\ pc[t] = "connect" /\ pc'[t] = "serving" /\ cur'[t] = cur[t]
        /\ \A u \in Tasks \ {t} : pc'[u] = pc[u] /\ cur'[u] = cur[u]
        /\ UNCHANGED <<sessions, tokens>>
    BY <1>8, RegistryAssumption DEF Connect, Placed
  <2> QED
    BY <2>1
<1>9. CASE CloseLast(t)
  BY <1>9 DEF CloseLast
<1>10. CASE RemoveCount(t)
  BY <1>10 DEF RemoveCount
<1>11. CASE RemoveTake(t)
  BY <1>11 DEF RemoveTake
<1>12. CASE RemoveTokens(t)
  BY <1>12 DEF RemoveTokens
<1>13. CASE RemoveClose(t)
  BY <1>13 DEF RemoveClose
<1>14. CASE RemoveAfter(t)
  BY <1>14 DEF RemoveAfter, Removed
<1>15. CASE RemovePlayers(t)
  BY <1>15 DEF RemovePlayers, Removed
<1>16. CASE Disconnect(t)
  BY <1>16 DEF Disconnect
<1>17. CASE ChannelClose(t)
  BY <1>17 DEF ChannelClose
<1>18. CASE ReaperScan(t)
  BY <1>18 DEF ReaperScan, Reapable
<1>19. CASE ReaperNext(t)
  BY <1>19 DEF ReaperNext
<1>20. ASSUME NEW i \in Ids, ReattachToken(t, i)
       PROVE  (Halfway /\ MapsAgree /\ SshSessionRegistered)'
  <2>1. /\ t \in Web /\ pc[t] = "idle" /\ pc'[t] \in {"lookup", "create"}
        /\ \A u \in Tasks \ {t} : pc'[u] = pc[u] /\ cur'[u] = cur[u]
        /\ UNCHANGED <<sessions, tokens>>
    BY <1>20 DEF ReattachToken
  <2> QED
    BY <2>1
<1> QED
  BY <1>1, <1>2, <1>3, <1>4, <1>5, <1>6, <1>7, <1>8, <1>9, <1>10, <1>11, <1>12, <1>13, <1>14, <1>15, <1>16, <1>17, <1>18, <1>19, <1>20 DEF TaskStep, TaskBegin

-----------------------------------------------------------------------------
(* The count of connections. *)

\* A step that moves no WebSocket to or from "serving" leaves the count alone.
LEMMA CountsKept ==
    ASSUME Counts, conns' = conns,
           \A u \in Web : (pc[u] = "serving" \/ pc'[u] = "serving")
                              => pc'[u] = pc[u] /\ cur'[u] = cur[u]
    PROVE  Counts'
<1>1. \A i \in Ids : Attached(i)' = Attached(i)
  BY DEF Attached
<1> QED
  BY <1>1 DEF Counts

LEMMA TaskCounts ==
    ASSUME Inv, NEW t \in Tasks, TaskStep(t) \/ TaskBegin(t)
    PROVE  Counts'
<1> USE DEF Inv, RegistryTypeOK, Ownership, Placed
<1>0. /\ cur[t] \in Ids \/ ~Using(t)
      /\ \A i \in Ids : IsFiniteSet(Attached(i))
  BY RegistryAssumption, FS_Subset DEF Fresh, Attached, Servers
<1>1. CASE Connect(t)
  <2>1. /\ pc[t] = "connect" /\ t \in Web /\ cur[t] \in Ids
        /\ pc'[t] = "serving" /\ cur'[t] = cur[t]
        /\ \A u \in Tasks \ {t} : pc'[u] = pc[u] /\ cur'[u] = cur[u]
        /\ conns' = [conns EXCEPT ![cur[t]] = @ + 1]
    BY <1>0, <1>1 DEF Connect, Goto, GotoWith, Using
  <2>2. ASSUME NEW i \in Ids PROVE conns'[i] = Cardinality(Attached(i)')
    <3>1. CASE i = cur[t]
      <4>1. Attached(i)' = Attached(i) \cup {t} /\ t \notin Attached(i)
        BY <2>1, <3>1 DEF Attached, Tasks, Servers
      <4>2. Cardinality(Attached(i)') = Cardinality(Attached(i)) + 1
        BY <1>0, <4>1, FS_AddElement
      <4> QED
        BY <2>1, <3>1, <4>2 DEF Counts
    <3>2. CASE i # cur[t]
      <4>1. Attached(i)' = Attached(i)
        BY <2>1, <3>2 DEF Attached, Tasks, Servers
      <4> QED
        BY <2>1, <3>2, <4>1 DEF Counts
    <3> QED
      BY <3>1, <3>2
  <2> QED
    BY <2>2 DEF Counts
<1>2. CASE Disconnect(t)
  <2>1. /\ pc[t] = "serving" /\ t \in Web /\ cur[t] \in Ids
        /\ pc'[t] # "serving"
        /\ \A u \in Tasks \ {t} : pc'[u] = pc[u] /\ cur'[u] = cur[u]
        /\ conns' = [conns EXCEPT ![cur[t]] = @ - 1]
    BY <1>0, <1>2 DEF Disconnect, Goto, GotoWith, Using
  <2>2. ASSUME NEW i \in Ids PROVE conns'[i] = Cardinality(Attached(i)')
    <3>1. CASE i = cur[t]
      <4>1. Attached(i)' = Attached(i) \ {t} /\ t \in Attached(i)
        BY <2>1, <3>1 DEF Attached, Tasks, Servers
      <4>2. Cardinality(Attached(i)') = Cardinality(Attached(i)) - 1
        BY <1>0, <4>1, FS_RemoveElement
      <4> QED
        BY <2>1, <3>1, <4>2 DEF Counts
    <3>2. CASE i # cur[t]
      <4>1. Attached(i)' = Attached(i)
        BY <2>1, <3>2 DEF Attached, Tasks, Servers
      <4> QED
        BY <2>1, <3>2, <4>1 DEF Counts
    <3> QED
      BY <3>1, <3>2
  <2> QED
    BY <2>2 DEF Counts
<1>3. CASE ~Connect(t) /\ ~Disconnect(t)
  <2> USE RegistryAssumption DEF Goto, GotoWith, connVars, Servers, Tasks
  <2>1. CASE \/ ClaimTokens(t) \/ CreateCheck(t) \/ CreateAlloc(t) \/ CreateInsert(t)
             \/ CreateToken(t) \/ ReattachSession(t) \/ Reopen(t) \/ CloseLast(t)
    BY <2>1, CountsKept
       DEF ClaimTokens, CreateCheck, CreateAlloc, CreateInsert, CreateToken,
           ReattachSession, Reopen, CloseLast
  <2>2. CASE \/ RemoveCount(t) \/ RemoveTake(t) \/ RemoveTokens(t) \/ RemoveClose(t)
             \/ RemoveAfter(t) \/ RemovePlayers(t)
    BY <2>2, CountsKept
       DEF RemoveCount, RemoveTake, RemoveTokens, RemoveClose, RemoveAfter,
           RemovePlayers, Removed
  <2>3. CASE ChannelClose(t) \/ ReaperScan(t)
    BY <2>3, CountsKept DEF ChannelClose, ReaperScan
  <2>4. CASE ReaperNext(t)
    BY <2>4, CountsKept DEF ReaperNext
  <2>5. ASSUME NEW i \in Ids, ReattachToken(t, i) PROVE Counts'
    BY <2>5, CountsKept DEF ReattachToken
  <2> QED
    BY <1>3, <2>1, <2>2, <2>3, <2>4, <2>5 DEF TaskStep, TaskBegin
<1> QED
  BY <1>1, <1>2, <1>3

-----------------------------------------------------------------------------
(* The limit of sessions. *)

LEMMA FiniteSlots ==
    ASSUME RegistryTypeOK
    PROVE  /\ IsFiniteSet(sessions) /\ Cardinality(sessions) \in Nat
           /\ IsFiniteSet(Servers) /\ Cardinality(Servers) \in Nat
           /\ IsFiniteSet(Admitted) /\ Cardinality(Admitted) \in Nat
           /\ Cardinality(Admitted) <= Cardinality(Servers)
<1>1. IsFiniteSet(Servers) /\ Admitted \in SUBSET Servers /\ sessions \in SUBSET Ids
  BY RegistryAssumption DEF Servers, Admitted, RegistryTypeOK
<1> QED
  BY <1>1, FiniteIds, FS_Subset, FS_CardinalityType

\* A step that adds neither a session nor an admitted task keeps the bound.
LEMMA SlotsKept ==
    ASSUME RegistryTypeOK, Slots, sessions' \subseteq sessions, Admitted' \subseteq Admitted
    PROVE  Slots'
<1>1. /\ Cardinality(sessions') <= Cardinality(sessions) /\ Cardinality(sessions') \in Nat
      /\ Cardinality(Admitted') <= Cardinality(Admitted) /\ Cardinality(Admitted') \in Nat
  BY FiniteSlots, FS_Subset, FS_CardinalityType
<1> QED
  BY <1>1, FiniteSlots, RegistryAssumption DEF Slots

LEMMA TaskSlots ==
    ASSUME Inv, NEW t \in Tasks, TaskStep(t) \/ TaskBegin(t)
    PROVE  Slots'
<1> USE DEF Inv, RegistryTypeOK
<1>1. CASE CreateCheck(t)
  <2>1. sessions' = sessions /\ pc' = [pc EXCEPT ![t] = pc'[t]]
    BY <1>1 DEF CreateCheck, Goto, GotoWith, maps
  <2>2. CASE BelowLimit
    <3>1. Admitted' \in SUBSET Servers
      BY DEF Admitted
    <3>2. Cardinality(Admitted') <= Cardinality(Servers) /\ Cardinality(Admitted') \in Nat
      BY <3>1, FiniteSlots, FS_Subset, FS_CardinalityType
    <3> QED
      BY <2>1, <2>2, <3>2, FiniteSlots, RegistryAssumption DEF Slots, BelowLimit
  <2>3. CASE ~BelowLimit
    <3>1. Admitted' \subseteq Admitted
      BY <1>1, <2>3 DEF CreateCheck, Goto, GotoWith, Admitted, Tasks
    <3> QED
      BY <2>1, <3>1, SlotsKept
  <2> QED
    BY <2>2, <2>3
<1>2. CASE CreateInsert(t)
  <2>1. Admitted' = Admitted \ {t} /\ t \in Admitted
    BY <1>2 DEF CreateInsert, Goto, GotoWith, Admitted, Tasks, Ownership, Placed
  <2>2. Cardinality(Admitted') = Cardinality(Admitted) - 1
    BY <2>1, FiniteSlots, FS_RemoveElement
  <2>3. /\ Cardinality(sessions') \in Nat
        /\ Cardinality(sessions') <= Cardinality(sessions) + 1
    <3>1. sessions' = sessions \cup {cur[t]}
      BY <1>2 DEF CreateInsert
    <3>2. /\ IsFiniteSet(sessions) /\ Cardinality(sessions) \in Nat
          /\ IsFiniteSet(sessions \cup {cur[t]})
          /\ Cardinality(sessions \cup {cur[t]})
               = IF cur[t] \in sessions THEN Cardinality(sessions) ELSE Cardinality(sessions) + 1
      BY FiniteSlots, FS_AddElement
    <3> HIDE DEF Inv, RegistryTypeOK
    <3> QED
      BY <3>1, <3>2
  <2> QED
    BY <2>2, <2>3, FiniteSlots, RegistryAssumption DEF Slots
<1>3. CASE ~CreateCheck(t) /\ ~CreateInsert(t)
  <2> USE DEF Goto, GotoWith, maps, Admitted, Tasks
  <2>1. CASE \/ ClaimTokens(t) \/ CreateAlloc(t) \/ CreateToken(t) \/ ReattachSession(t)
             \/ Reopen(t) \/ Connect(t) \/ CloseLast(t)
    BY <2>1, SlotsKept
       DEF ClaimTokens, CreateAlloc, CreateToken, ReattachSession, Reopen, Connect, CloseLast
  <2>2. CASE \/ RemoveCount(t) \/ RemoveTake(t) \/ RemoveTokens(t) \/ RemoveClose(t)
             \/ RemoveAfter(t) \/ RemovePlayers(t)
    BY <2>2, SlotsKept
       DEF RemoveCount, RemoveTake, RemoveTokens, RemoveClose, RemoveAfter,
           RemovePlayers, Removed
  <2>3. CASE Disconnect(t) \/ ChannelClose(t) \/ ReaperScan(t)
    BY <2>3, SlotsKept DEF Disconnect, ChannelClose, ReaperScan
  <2>4. CASE ReaperNext(t)
    BY <2>4, SlotsKept DEF ReaperNext
  <2>5. ASSUME NEW i \in Ids, ReattachToken(t, i) PROVE Slots'
    BY <2>5, SlotsKept DEF ReattachToken
  <2> QED
    BY <1>3, <2>1, <2>2, <2>3, <2>4, <2>5 DEF TaskStep, TaskBegin
<1> QED
  BY <1>1, <1>2, <1>3

-----------------------------------------------------------------------------
(* The invariant and the theorems. *)

LEMMA InitInv == RegistryInit => Inv
<1> SUFFICES ASSUME RegistryInit PROVE Inv
  OBVIOUS
<1> USE RegistryAssumption DEF RegistryInit
<1>1. RegistryTypeOK
  <2>1. pc \in [Tasks -> PcValues] /\ cur \in [Tasks -> Nat] /\ before \in [Tasks -> Nat]
    BY DEF PcValues
  <2>2. lock \in [Maps -> [readers : SUBSET Tasks, writer : Tasks \cup {Nobody}]]
    OBVIOUS
  <2>3. conns \in [Ids -> Nat] /\ nextId \in 0 .. MaxIds
    OBVIOUS
  <2> QED
    BY <2>1, <2>2, <2>3 DEF RegistryTypeOK
<1>2. Ownership /\ Halfway /\ MapsAgree /\ SshSessionRegistered
  BY DEF Ownership, Placed, Fresh, Public, Exclusive, Using, Owns, Removal, Halfway,
         MapsAgree, SshSessionRegistered, Tasks, Servers
<1>3. Counts
  <2>1. \A i \in Ids : Attached(i) = {}
    BY DEF Attached, Tasks, Servers
  <2> QED
    BY <2>1, FS_EmptySet DEF Counts
<1>4. Slots
  <2>1. Admitted = {} /\ Cardinality(sessions) = 0
    BY FS_EmptySet DEF Admitted, Tasks
  <2> QED
    BY <1>1, <2>1, FS_EmptySet, FiniteSlots DEF Slots
<1> QED
  BY <1>1, <1>2, <1>3, <1>4 DEF Inv

\* The event loops touch nothing that the invariant speaks of but their own types.
LEMMA StepInv == Inv /\ [RegistryNext]_registryVars => Inv'
<1> SUFFICES ASSUME Inv, [RegistryNext]_registryVars PROVE Inv'
  OBVIOUS
<1>1. ASSUME NEW t \in Tasks, TaskStep(t) \/ TaskBegin(t) PROVE Inv'
  BY <1>1, TaskType, TaskOwnership, TaskMaps, TaskCounts, TaskSlots DEF Inv
<1>2. ASSUME NEW i \in Ids, LoopPoll(i) \/ LoopRender(i) PROVE Inv'
  <2>1. RegistryTypeOK' /\ UNCHANGED <<maps, nextId, pc, cur, batch, conns, web>>
    BY <1>2 DEF Inv, RegistryTypeOK, LoopPoll, LoopRender, connVars, maps
  <2>2. /\ Ownership' /\ Halfway' /\ MapsAgree' /\ SshSessionRegistered'
        /\ Counts' /\ Slots'
    BY <2>1 DEF Inv, maps, Ownership, Placed, Fresh, Public, Exclusive, Using, Owns,
                Halfway, MapsAgree, Removing, Creating, SshSessionRegistered,
                Counts, Attached, Slots, Admitted
  <2> QED
    BY <2>1, <2>2 DEF Inv
<1>3. ASSUME UNCHANGED registryVars PROVE Inv'
  BY <1>3 DEF registryVars, maps, connVars, loopVars, Inv, RegistryTypeOK, Ownership,
              Placed, Fresh, Public, Exclusive, Using, Owns, Halfway, MapsAgree,
              Removing, Creating, SshSessionRegistered, Counts, Attached, Slots, Admitted
<1> QED
  BY <1>1, <1>2, <1>3 DEF RegistryNext

\* Ownership, the agreement of the maps, the counts and the limit, together.
THEOREM Invariance == RegistrySpec => []Inv
  BY InitInv, StepInv, PTL DEF RegistrySpec

\* The state has its type: in particular no count of connections falls below zero.
THEOREM RegistryTypeCorrect == RegistrySpec => []RegistryTypeOK
  BY Invariance, PTL DEF Inv

\* The maps agree but for a session that its only user is inserting or removing.
THEOREM MapsCorrect == RegistrySpec => []MapsAgree
  BY Invariance, PTL DEF Inv

\* A live SSH session stays registered, whatever the reaper and others do.
THEOREM SshKept == RegistrySpec => []SshSessionRegistered
  BY Invariance, PTL DEF Inv

\* The limit is overshot by less than the number of tasks that may create.
THEOREM LimitNearlyKept == RegistrySpec => []BoundedOvershoot
<1>1. Inv => BoundedOvershoot
  BY FiniteSlots, RegistryAssumption DEF Inv, Slots, BoundedOvershoot
<1> QED
  BY <1>1, Invariance, PTL

-----------------------------------------------------------------------------
(* Frames *)

\* The frames that setup() and clear_screen() send are frames, and paint every
\* cell.
LEMMA ClearPaints ==
    ASSUME NEW k \in {"setup", "clear"}
    PROVE  /\ Clear(k) \in Frames
           /\ DOMAIN Clear(k).cells = Cells
           /\ \A c \in Cells : Clear(k).cells[c] = Blank
<1>1. BlankScreen \in [Cells -> Glyphs] /\ Cells \in SUBSET Cells
  BY ScreenAssumption DEF BlankScreen
<1>2. BlankScreen \in Paints
  BY <1>1 DEF Paints
<1>. QED
  BY <1>2 DEF Clear, Frames, BlankScreen

\* The last frame of a sink is a frame.
LEMMA LeaveIsFrame == Leave \in Frames
<1>1. << >> \in [{} -> Glyphs]
  OBVIOUS
<1>2. << >> \in Paints
  BY <1>1 DEF Paints
<1>. QED
  BY <1>2 DEF Leave, Frames

\* DiffEngine::diff paints the cells that differ, as they are in next.
LEMMA DiffPaints ==
    ASSUME NEW prev \in Screens, NEW next \in Screens
    PROVE  /\ Diff(prev, next) \in Frames
           /\ DOMAIN Diff(prev, next).cells = {c \in Cells : next[c] # prev[c]}
           /\ \A c \in DOMAIN Diff(prev, next).cells :
                 Diff(prev, next).cells[c] = next[c]
<1> DEFINE D == {c \in Cells : next[c] # prev[c]}
           p == [c \in D |-> next[c]]
<1>1. D \in SUBSET Cells /\ p \in [D -> Glyphs]
  BY DEF Screens
<1>2. p \in Paints
  BY <1>1 DEF Paints
<1>3. Diff(prev, next) = [kind |-> "diff", cells |-> p]
  BY DEF Diff
<1>. QED
  BY <1>2, <1>3 DEF Frames

\* try_send adds the newest frame at the end and keeps the channel bounded.
LEMMA PushedIsBounded ==
    ASSUME TypeOK, NEW f \in Frames
    PROVE  /\ Pushed(f) \in Seq(Frames) /\ Pushed(f) # << >>
           /\ Len(Pushed(f)) <= OutCap
           /\ Pushed(f)[Len(Pushed(f))] = f
<1> USE ScreenAssumption DEF TypeOK
<1>1. CASE Full
  <2>1. out # << >> /\ Tail(out) \in Seq(Frames) /\ Len(Tail(out)) = Len(out) - 1
    BY <1>1 DEF Full
  <2>2. Pushed(f) = Append(Tail(out), f)
    BY <1>1 DEF Pushed
  <2>. QED
    BY <2>1, <2>2
<1>2. CASE ~Full
  BY <1>2 DEF Full, Pushed
<1>. QED
  BY <1>1, <1>2

\* The frame at the head of the channel writes glyphs on the screen.
LEMMA WrittenScreen ==
    ASSUME TypeOK, Write
    PROVE  /\ term' \in Screens
           /\ out' \in Seq(Frames) /\ Len(out') = Len(out) - 1
<1> DEFINE f == Head(out)
<1>1. f \in Frames /\ out' \in Seq(Frames) /\ Len(out') = Len(out) - 1
  BY DEF Write, TypeOK
<1>2. PICK S \in SUBSET Cells : f.cells \in [S -> Glyphs]
  BY <1>1 DEF Frames, Paints
<1>3. term' = [c \in Cells |-> IF c \in DOMAIN f.cells THEN f.cells[c] ELSE term[c]]
  BY DEF Write
<1>4. term' \in Screens
  BY <1>2, <1>3 DEF TypeOK, Screens
<1>. QED
  BY <1>1, <1>4

-----------------------------------------------------------------------------
(* Reachable states have their type: the channel of frames is bounded. *)

THEOREM ScreenTypeCorrect == Spec => []TypeOK
<1> USE ScreenAssumption
<1>1. ASSUME Init PROVE TypeOK
  <2>1. out \in Seq(Frames) /\ Len(out) = 1
    BY <1>1, ClearPaints DEF Init
  <2>2. front \in Screens
    BY <1>1 DEF Init, BlankScreen, Screens
  <2>. QED
    <3>1. want \in Screens /\ term \in Screens /\ taken \in 0 .. Batch
      BY <1>1 DEF Init
    <3>2. Len(out) <= OutCap
      BY <2>1
    <3>. QED
      BY <1>1, <2>1, <2>2, <3>1, <3>2 DEF Init, TypeOK
<1>2. TypeOK /\ [Next]_vars => TypeOK'
  <2> SUFFICES ASSUME TypeOK, [Next]_vars PROVE TypeOK'
    OBVIOUS
  <2>1. CASE TakeWake \/ TakeXoff \/ TakeXon \/ EndBatch
    <3>1. UNCHANGED <<want, front, out, term, alt, resizing, limited, synced>>
      BY <2>1 DEF TakeWake, TakeXoff, TakeXon, EndBatch
    <3>2. taken' \in 0 .. Batch
      BY <2>1 DEF TakeWake, TakeXoff, TakeXon, EndBatch, TypeOK
    <3>3. at' \in {at, "resize"} /\ needs' \in BOOLEAN /\ pend' \in BOOLEAN
      BY <2>1 DEF TakeWake, TakeXoff, TakeXon, EndBatch, TypeOK
    <3>4. paused' \in BOOLEAN /\ woken' \in BOOLEAN
      BY <2>1 DEF TakeWake, TakeXoff, TakeXon, EndBatch, TypeOK
    <3>. QED
      BY <3>1, <3>2, <3>3, <3>4 DEF TypeOK
  <2>2. CASE PollResize
    <3>1. BlankScreen \in Screens
      BY DEF BlankScreen, Screens
    <3>2. out' \in Seq(Frames) /\ Len(out') <= OutCap
      BY <2>2, ClearPaints, PushedIsBounded DEF PollResize, TypeOK
    <3>. QED
      BY <2>2, <3>1, <3>2 DEF PollResize, TypeOK
  <2>3. CASE Render
    <3>1. /\ out' \in Seq(Frames) /\ Len(out') <= OutCap
          /\ front' \in Screens /\ limited' \in BOOLEAN /\ synced' \in BOOLEAN
      <4>1. CASE UNCHANGED <<out, front, limited, synced>>
        BY <4>1 DEF TypeOK
      <4>2. CASE SendFrame
        <5>1. Diff(front, want) \in Frames
          BY DiffPaints DEF TypeOK
        <5>2. /\ Pushed(Diff(front, want)) \in Seq(Frames)
              /\ Len(Pushed(Diff(front, want))) <= OutCap
          BY <5>1, PushedIsBounded
        <5>. QED
          BY <4>2, <5>2 DEF SendFrame, TypeOK
      <4>. QED
        BY <2>3, <4>1, <4>2 DEF Render
    <3>2. needs' \in BOOLEAN /\ pend' = FALSE /\ at' = "batch"
      BY <2>3 DEF Render, TypeOK
    <3>3. UNCHANGED <<want, term, alt, taken, paused, woken, resizing>>
      BY <2>3 DEF Render
    <3>. QED
      BY <3>1, <3>2, <3>3 DEF TypeOK
  <2>4. CASE Exit
    <3>1. out' \in Seq(Frames) /\ Len(out') <= OutCap
      BY <2>4, LeaveIsFrame, PushedIsBounded DEF Exit
    <3>. QED
      BY <2>4, <3>1 DEF Exit, TypeOK
  <2>5. CASE Patch \/ WindowChange \/ Settle \/ FrameInterval
    <3>1. UNCHANGED <<front, out, alt, at, taken, needs, pend, paused>>
      BY <2>5 DEF Patch, WindowChange, Settle, FrameInterval, loop
    <3>2. want' \in Screens /\ term' \in Screens
      BY <2>5 DEF Patch, WindowChange, Settle, FrameInterval, TypeOK
    <3>3. resizing' \in {"no", "pushed", "ripe"} /\ woken' \in BOOLEAN
      BY <2>5 DEF Patch, WindowChange, Settle, FrameInterval, TypeOK
    <3>4. limited' \in BOOLEAN /\ synced' \in BOOLEAN
      BY <2>5 DEF Patch, WindowChange, Settle, FrameInterval, TypeOK
    <3>. QED
      BY <3>1, <3>2, <3>3, <3>4 DEF TypeOK
  <2>6. CASE Write
    <3>1. alt' \in BOOLEAN
      BY <2>6 DEF Write, TypeOK
    <3>2. UNCHANGED <<want, front, at, taken, needs, pend, paused, woken,
                      resizing, limited, synced>>
      BY <2>6 DEF Write, loop
    <3>3. Len(out') <= OutCap
      BY <2>6, WrittenScreen DEF TypeOK
    <3>. QED
      BY <2>6, <3>1, <3>2, <3>3, WrittenScreen DEF TypeOK
  <2>7. CASE UNCHANGED vars
    BY <2>7 DEF vars, loop, TypeOK
  <2>. QED
    BY <2>1, <2>2, <2>3, <2>4, <2>5, <2>6, <2>7 DEF Next, Turn
<1>. QED
  BY <1>1, <1>2, PTL DEF Spec

-----------------------------------------------------------------------------
(* The front buffer and the terminal *)

\* A new last frame decides what its cells will show.
LEMMA PaintedLast ==
    ASSUME TypeOK, NEW f \in Frames, NEW c \in DOMAIN f.cells, out' = Pushed(f)
    PROVE  WillShow(c, f.cells[c])'
<1>1. /\ out' \in Seq(Frames) /\ out' # << >>
      /\ out'[Len(out')] = f
  BY PushedIsBounded
<1>2. Len(out') \in DOMAIN out' /\ \A j \in DOMAIN out' : j <= Len(out')
  BY <1>1
<1>3. \A j \in DOMAIN out' : ~(j > Len(out'))
  BY <1>1
<1>. QED
  BY <1>1, <1>2, <1>3 DEF WillShow

\* One that found room, and does not paint a cell, leaves the cell as it was.
LEMMA NotPainted ==
    ASSUME TypeOK, NEW f \in Frames, NEW c, c \notin DOMAIN f.cells, NEW g,
           ~Full, out' = Pushed(f), term' = term, WillShow(c, g)
    PROVE  WillShow(c, g)'
<1>1. out \in Seq(Frames) /\ out' = Append(out, f)
  BY DEF TypeOK, Pushed
<1>2. DOMAIN out' = DOMAIN out \cup {Len(out) + 1}
  BY <1>1
<1>3. \A i \in DOMAIN out : out'[i] = out[i] /\ i < Len(out) + 1
  BY <1>1
<1>4. out'[Len(out) + 1] = f
  BY <1>1
<1>. QED
  BY <1>2, <1>3, <1>4 DEF WillShow

\* Writing a frame carries out what was promised of it.
LEMMA WriteKeepsPromise ==
    ASSUME TypeOK, Write, NEW c \in Cells, NEW g, WillShow(c, g)
    PROVE  WillShow(c, g)'
<1> DEFINE f == Head(out)
<1>1. /\ out \in Seq(Frames) /\ out # << >> /\ out' = Tail(out)
      /\ term'[c] = IF c \in DOMAIN f.cells THEN f.cells[c] ELSE term[c]
  BY DEF Write, TypeOK
<1>2. /\ out' \in Seq(Frames) /\ f = out[1] /\ 1 \in DOMAIN out
      /\ \A i \in DOMAIN out' : i + 1 \in DOMAIN out /\ out'[i] = out[i + 1]
      /\ \A i \in DOMAIN out : i # 1 => i - 1 \in DOMAIN out' /\ out'[i - 1] = out[i]
      /\ DOMAIN out \subseteq Nat \ {0} /\ DOMAIN out' \subseteq Nat \ {0}
  BY <1>1
<1>3. CASE term[c] = g /\ \A i \in DOMAIN out : c \notin DOMAIN out[i].cells
  <2>1. term'[c] = g
    BY <1>1, <1>2, <1>3
  <2>. QED
    BY <1>2, <1>3, <2>1 DEF WillShow
<1>4. ASSUME NEW i \in DOMAIN out,
             c \in DOMAIN out[i].cells, out[i].cells[c] = g,
             \A j \in DOMAIN out : j > i => c \notin DOMAIN out[j].cells
      PROVE  WillShow(c, g)'
  <2>1. CASE i = 1
    <3>1. term'[c] = g
      BY <1>1, <1>2, <1>4, <2>1
    <3>2. \A j \in DOMAIN out' : c \notin DOMAIN out'[j].cells
      BY <1>2, <1>4, <2>1
    <3>. QED
      BY <3>1, <3>2 DEF WillShow
  <2>2. CASE i # 1
    <3>1. i - 1 \in DOMAIN out' /\ out'[i - 1] = out[i]
      BY <1>2, <2>2
    <3>2. ASSUME NEW j \in DOMAIN out', j > i - 1 PROVE c \notin DOMAIN out'[j].cells
      BY <1>2, <1>4, <3>2
    <3>. QED
      BY <1>4, <3>1, <3>2 DEF WillShow
  <2>. QED
    BY <2>1, <2>2
<1>. QED
  BY <1>3, <1>4 DEF WillShow

\* FrontIsShown is inductive: while synced, each difference is taken against
\* the screen that the terminal will show.
THEOREM FrontCorrect == Spec => []FrontIsShown
<1> USE ScreenAssumption
<1>1. Init => FrontIsShown
  <2> SUFFICES ASSUME Init, NEW c \in Cells PROVE WillShow(c, front[c])
    BY DEF FrontIsShown
  <2>1. out = <<Clear("setup")>> /\ front[c] = Blank
    BY DEF Init, BlankScreen
  <2>2. DOMAIN out = {1} /\ out[1] = Clear("setup")
    BY <2>1
  <2>. QED
    BY <2>1, <2>2, ClearPaints DEF WillShow
<1>2. TypeOK /\ FrontIsShown /\ [Next]_vars => FrontIsShown'
  <2> SUFFICES ASSUME TypeOK, FrontIsShown, [Next]_vars PROVE FrontIsShown'
    OBVIOUS
  <2>1. CASE UNCHANGED <<out, front, term, synced>>
    BY <2>1 DEF FrontIsShown, WillShow
  <2>2. CASE PollResize
    <3>1. CASE resizing = "ripe"
      <4>1. /\ out' = Pushed(Clear("clear"))
            /\ \A c \in Cells : front'[c] = Blank
        BY <2>2, <3>1 DEF PollResize, BlankScreen
      <4>2. \A c \in Cells : WillShow(c, Blank)'
        BY <4>1, ClearPaints, PaintedLast
      <4>. QED
        BY <4>1, <4>2 DEF FrontIsShown
    <3>2. CASE resizing # "ripe"
      BY <2>1, <2>2, <3>2 DEF PollResize
    <3>. QED
      BY <3>1, <3>2
  <2>3. CASE Render
    <3>1. CASE SendFrame /\ want # front /\ ~Full /\ synced
      <4> DEFINE f == Diff(front, want)
      <4>1. out' = Pushed(f) /\ front' = want /\ term' = term
        BY <2>3, <3>1 DEF SendFrame, Render
      <4>2. /\ f \in Frames
            /\ DOMAIN f.cells = {c \in Cells : want[c] # front[c]}
            /\ \A c \in DOMAIN f.cells : f.cells[c] = want[c]
        BY DiffPaints DEF TypeOK
      <4>. HIDE DEF f
      <4>3. ASSUME NEW c \in Cells, NEW g, g = want[c] PROVE WillShow(c, g)'
        <5>1. CASE c \in DOMAIN f.cells
          BY <4>1, <4>2, <4>3, <5>1, PaintedLast
        <5>2. CASE c \notin DOMAIN f.cells
          <6>1. WillShow(c, g)
            BY <3>1, <4>2, <4>3, <5>2 DEF FrontIsShown
          <6>. QED
            BY <3>1, <4>1, <4>2, <5>2, <6>1, NotPainted
        <5>. QED
          BY <5>1, <5>2
      <4>. QED
        BY <4>1, <4>3 DEF FrontIsShown, WillShow
    <3>2. CASE UNCHANGED <<out, front, synced>>
      BY <2>1, <2>3, <3>2 DEF Render
    <3>3. CASE ~synced'
      BY <3>3 DEF FrontIsShown
    <3>. QED
      BY <2>3, <3>1, <3>2, <3>3 DEF Render, SendFrame, TypeOK
  <2>4. CASE Exit
    <3>1. CASE synced /\ ~Full
      <4>1. \A c : c \notin DOMAIN Leave.cells
        BY DEF Leave
      <4>2. out' = Pushed(Leave) /\ UNCHANGED <<term, front>>
        BY <2>4 DEF Exit
      <4>3. ASSUME NEW c \in Cells, NEW g, g = front[c] PROVE WillShow(c, g)'
        <5>1. WillShow(c, g)
          BY <3>1, <4>3 DEF FrontIsShown
        <5>. QED
          BY <3>1, <4>1, <4>2, <5>1, LeaveIsFrame, NotPainted
      <4>. QED
        BY <4>2, <4>3 DEF FrontIsShown, WillShow
    <3>2. CASE ~synced \/ Full
      BY <2>4, <3>2 DEF Exit, FrontIsShown
    <3>. QED
      BY <3>1, <3>2
  <2>5. CASE WindowChange
    BY <2>5 DEF WindowChange, FrontIsShown
  <2>6. CASE Write
    <3>1. UNCHANGED <<front, synced>>
      BY <2>6 DEF Write
    <3>2. ASSUME NEW c \in Cells, synced, NEW g, g = front[c] PROVE WillShow(c, g)'
      <4>1. WillShow(c, g)
        BY <3>2 DEF FrontIsShown
      <4>. QED
        BY <2>6, <3>1, <4>1, WriteKeepsPromise
    <3>. QED
      BY <3>1, <3>2 DEF FrontIsShown, WillShow
  <2>7. CASE TakeWake \/ TakeXoff \/ TakeXon \/ EndBatch \/ Patch \/ Settle
               \/ FrameInterval \/ UNCHANGED vars
    BY <2>1, <2>7 DEF TakeWake, TakeXoff, TakeXon, EndBatch, Patch, Settle,
                      FrameInterval, vars
  <2>. QED
    BY <2>2, <2>3, <2>4, <2>5, <2>6, <2>7 DEF Next, Turn
<1>. QED
  BY <1>1, <1>2, ScreenTypeCorrect, PTL DEF Spec

-----------------------------------------------------------------------------
(* Renders *)

\* pending_render is only set between the end of a batch and the render.
RenderInv == NoForgottenRender /\ (pend => at \in {"resize", "render"})

\* The loop never goes to sleep with a reason to render that nobody remembers.
THEOREM NoRenderForgotten == Spec => []NoForgottenRender
<1>1. Init => RenderInv
  BY DEF Init, RenderInv, NoForgottenRender
<1>2. TypeOK /\ RenderInv /\ [Next]_vars => RenderInv'
  <2> SUFFICES ASSUME TypeOK, RenderInv, [Next]_vars PROVE RenderInv'
    OBVIOUS
  <2> USE DEF RenderInv, NoForgottenRender
  <2>1. CASE TakeWake \/ TakeXon \/ TakeXoff
    BY <2>1 DEF TakeWake, TakeXoff, TakeXon
  <2>2. CASE EndBatch
    BY <2>2 DEF EndBatch, TypeOK
  <2>3. CASE PollResize
    BY <2>3 DEF PollResize
  <2>4. CASE Render
    <3>1. CASE UNCHANGED <<out, front, limited, synced>>
      BY <2>4, <3>1 DEF Render, SendFrame
    <3>2. CASE SendFrame /\ want # front
      BY <2>4, <3>2 DEF Render, SendFrame, TypeOK
    <3>. QED
      BY <2>4, <3>1, <3>2 DEF Render, SendFrame
  <2>5. CASE Exit
    BY <2>5 DEF Exit
  <2>6. CASE Patch \/ WindowChange
    <3>1. at' = at /\ pend' = pend /\ woken'
      BY <2>6 DEF Patch, WindowChange, loop
    <3>2. (pend => at \in {"resize", "render"})'
      BY <3>1
    <3>3. NoForgottenRender'
      BY <3>1
    <3>. QED
      BY <3>2, <3>3
  <2>7. CASE Settle \/ FrameInterval \/ Write \/ UNCHANGED vars
    <3>1. UNCHANGED <<at, pend, needs, paused, synced, want, front, woken>>
      BY <2>7 DEF Settle, FrameInterval, Write, vars, loop
    <3>. QED
      BY <3>1
  <2>. QED
    BY <2>1, <2>2, <2>3, <2>4, <2>5, <2>6, <2>7 DEF Next, Turn
<1>3. RenderInv => NoForgottenRender
  BY DEF RenderInv
<1>. QED
  BY <1>1, <1>2, <1>3, ScreenTypeCorrect, PTL DEF Spec

\* Once the loop is gone, the sink's farewell is the last frame in the
\* channel, or the terminal has it.
FarewellInv ==
    at = "gone" => IF out = << >> THEN ~alt ELSE out[Len(out)].kind = "leave"

\* The terminal is restored however many frames were dropped before.
THEOREM AlwaysRestored == Spec => []TerminalRestored
<1>1. Init => FarewellInv
  BY DEF Init, FarewellInv
<1>2. TypeOK /\ FarewellInv /\ [Next]_vars => FarewellInv'
  <2> SUFFICES ASSUME TypeOK, FarewellInv, [Next]_vars PROVE FarewellInv'
    OBVIOUS
  <2>1. CASE Exit
    <3>1. out' # << >> /\ out'[Len(out')] = Leave
      BY <2>1, LeaveIsFrame, PushedIsBounded DEF Exit
    <3>. QED
      BY <3>1 DEF FarewellInv, Leave
  <2>2. CASE Write
    <3> DEFINE f == Head(out)
    <3>1. CASE Len(out) = 1
      <4>1. out' = << >> /\ f = out[Len(out)] /\ out # << >>
        BY <2>2, <3>1 DEF Write, TypeOK
      <4>2. f.kind = "leave" => alt' = FALSE
        BY <2>2 DEF Write
      <4>. QED
        BY <2>2, <4>1, <4>2 DEF FarewellInv, Write, loop
    <3>2. CASE Len(out) # 1
      <4>1. /\ out # << >> /\ out' # << >>
            /\ out'[Len(out')] = out[Len(out)]
        <5>1. out \in Seq(Frames) /\ out # << >> /\ out' = Tail(out)
          BY <2>2 DEF Write, TypeOK
        <5>2. Len(out) \in Nat /\ Len(out) # 0 /\ Len(out) > 1
          BY <3>2, <5>1, EmptySeq, LenProperties
        <5>3. Len(out') = Len(out) - 1 /\ out' # << >>
          <6>1. Len(out') = Len(out) - 1
            BY <5>1, HeadTailProperties
          <6>. QED
            BY <5>2, <6>1
        <5>4. Len(out') \in 1 .. Len(Tail(out))
          BY <5>1, <5>2, <5>3
        <5>. QED
          BY <5>1, <5>2, <5>3, <5>4
      <4>. QED
        BY <2>2, <4>1 DEF FarewellInv, Write, loop
    <3>. QED
      BY <3>1, <3>2
  <2>3. CASE TakeWake \/ TakeXoff \/ TakeXon \/ EndBatch \/ PollResize \/ Render
    BY <2>3 DEF TakeWake, TakeXoff, TakeXon, EndBatch, PollResize, Render, FarewellInv
  <2>4. CASE Patch \/ WindowChange
    BY <2>4 DEF Patch, WindowChange, FarewellInv, loop
  <2>5. CASE Settle \/ FrameInterval \/ UNCHANGED vars
    BY <2>5 DEF Settle, FrameInterval, FarewellInv, vars, loop
  <2>. QED
    BY <2>1, <2>2, <2>3, <2>4, <2>5 DEF Next, Turn
<1>3. FarewellInv => TerminalRestored
  BY DEF FarewellInv, TerminalRestored
<1>. QED
  BY <1>1, <1>2, <1>3, ScreenTypeCorrect, PTL DEF Spec

-----------------------------------------------------------------------------
(* The decoder keeps what it reads *)

\* What the three fields of the decoder hold between two bytes.
Kept(st, buf, u) ==
    /\ st \in States /\ buf \in Seq(Byte) /\ u \in Seq(Byte)
    /\ Len(buf) <= Capacity
    /\ (st = "idle") <=> (buf = << >>)
    /\ st = "escaped" => buf = <<ESC>>
    /\ st = "csi" => /\ Len(buf) >= 2 /\ buf[1] = ESC /\ buf[2] = 91
                     /\ \A i \in 3..Len(buf) : ~IsFinal(buf[i])
    /\ st \in {"apc", "apcEscaped"} =>
          /\ Len(buf) >= 2 /\ buf[1] = ESC /\ buf[2] = 95
          /\ (st = "apcEscaped") <=> (Len(buf) > 2 /\ buf[Len(buf)] = ESC)
          /\ \A i \in 4..Len(buf) : ~(buf[i - 1] = ESC /\ buf[i] = 92)
    /\ u # << >> => Utf8(u) = "more" /\ CharLength(u[1]) > 0

\* A decoder at rest keeps nothing.
LEMMA EmptyKept == Kept("idle", << >>, << >>)
BY DecoderAssumption DEF Kept, States

\* One more byte at the end.
LEMMA Longer ==
    ASSUME NEW s \in Seq(Byte), NEW b \in Byte
    PROVE  /\ Append(s, b) \in Seq(Byte) /\ Append(s, b) # << >>
           /\ Len(s) \in Nat /\ Len(Append(s, b)) = Len(s) + 1
           /\ Append(s, b)[Len(s) + 1] = b
           /\ \A i \in 1..Len(s) : Append(s, b)[i] = s[i]
BY AppendProperties, LenProperties

\* A byte at rest.
LEMMA IdleKeeps ==
    ASSUME NEW u, Kept("idle", << >>, u), NEW b \in Byte
    PROVE  LET r == Idle(b, u) IN Kept(r.state, r.buffer, r.utf8)
<1> DEFINE r == Idle(b, u)
           char == Append(u, b)
<1>1. CASE b = ESC
  <2>1. r = Result("escaped", <<b>>, u, << >>)
    BY <1>1 DEF Idle, ESC, XON, XOFF
  <2>2. Len(<<b>>) = 1 /\ <<b>> \in Seq(Byte) /\ <<b>> # << >>
    OBVIOUS
  <2> QED
    BY <1>1, <2>1, <2>2, DecoderAssumption DEF Kept, States, Result
<1>2. CASE b \in {XON, XOFF}
  <2>1. r.state = "idle" /\ r.buffer = << >> /\ r.utf8 = u
    BY <1>2 DEF Idle, Result, XON, XOFF, ESC
  <2> QED
    BY <2>1
<1>3. CASE b < 128 /\ b \notin {ESC, XON, XOFF}
  <2>1. r.state = "idle" /\ r.buffer = << >> /\ r.utf8 = << >>
    BY <1>3 DEF Idle, Reset, Result, XON, XOFF, ESC
  <2> QED
    BY <2>1, EmptyKept
<1>4. CASE b >= 128
  <2>1. b \notin {ESC, XON, XOFF}
    BY <1>4 DEF ESC, XON, XOFF
  <2>2. CASE u = << >> /\ CharLength(b) = 0
    <3>1. r = Reset(<< >>)
      BY <1>4, <2>1, <2>2 DEF Idle
    <3> QED
      BY <3>1, EmptyKept DEF Reset, Result
  <2>3. CASE ~(u = << >> /\ CharLength(b) = 0)
    <3>1. Utf8(char) \in {"ok", "more", "bad"}
      BY DEF Utf8
    <3>2. r = CASE Utf8(char) = "ok"   -> Reset(<<Typed(CodePoint(char))>>)
                [] Utf8(char) = "more" -> Result("idle", << >>, char, << >>)
                [] Utf8(char) = "bad"  -> Reset(<< >>)
      <4>1. ~(b < 128) /\ ~(b >= 128 /\ u = << >> /\ CharLength(b) = 0)
        BY <1>4, <2>3 DEF Byte
      <4> QED
        BY <2>1, <4>1 DEF Idle
    <3>3. CASE Utf8(char) # "more"
      <4>1. r.state = "idle" /\ r.buffer = << >> /\ r.utf8 = << >>
        BY <3>1, <3>2, <3>3 DEF Reset, Result
      <4> QED
        BY <4>1, EmptyKept
    <3>4. CASE Utf8(char) = "more"
      <4>1. r.state = "idle" /\ r.buffer = << >> /\ r.utf8 = char
        BY <3>2, <3>4 DEF Result
      <4>2. char \in Seq(Byte) /\ (u = << >> => char[1] = b) /\ (u # << >> => char[1] = u[1])
        BY Longer, EmptySeq DEF Kept
      <4>3. CharLength(b) = 0 \/ CharLength(b) > 0
        BY DEF CharLength
      <4>4. CharLength(char[1]) > 0
        BY <4>2, <4>3, <2>3 DEF Kept
      <4> QED
        BY <4>1, <4>2, <4>4, <3>4, EmptyKept DEF Kept
    <3> QED
      BY <3>3, <3>4
  <2> QED
    BY <2>2, <2>3
<1>5. b \in Nat
  BY DEF Byte
<1> QED
  BY <1>1, <1>2, <1>3, <1>4, <1>5

\* A byte, whatever the state: what is kept stays in shape.
LEMMA StepKeeps ==
    ASSUME NEW st, NEW buf, NEW u, Kept(st, buf, u), NEW b \in Byte
    PROVE  LET r == Step(b, st, buf, u) IN Kept(r.state, r.buffer, r.utf8)
<1> DEFINE r == Step(b, st, buf, u)
           longer == Append(buf, b)
<1>1. CASE st = "idle"
  <2>1. r = Idle(b, u) /\ buf = << >>
    BY <1>1 DEF Step, Kept
  <2> QED
    BY <1>1, <2>1, IdleKeeps
<1>2. CASE st # "idle" /\ Len(buf) >= Capacity
  <2>1. r = Reset(<< >>)
    BY <1>2 DEF Step, Overflow
  <2> QED
    BY <2>1, EmptyKept DEF Reset, Result
<1>3. CASE st # "idle" /\ ~(Len(buf) >= Capacity)
  <2>1. /\ longer \in Seq(Byte) /\ longer # << >>
        /\ Len(buf) \in Nat /\ Len(longer) = Len(buf) + 1 /\ Len(longer) <= Capacity
        /\ longer[Len(buf) + 1] = b
        /\ \A i \in 1..Len(buf) : longer[i] = buf[i]
    BY <1>3, Longer, DecoderAssumption DEF Kept
  <2>2. CASE st = "escaped"
    <3>1. r = Escaped(b, longer, u)
      BY <1>3, <2>2 DEF Step
    <3>2. CASE b \in {91, 95}
      <4>1. r.state = (IF b = 91 THEN "csi" ELSE "apc") /\ r.buffer = longer /\ r.utf8 = u
        BY <3>1, <3>2 DEF Escaped, Result
      <4>2. Len(buf) = 1 /\ buf[1] = ESC
        BY <2>2 DEF Kept
      <4>3. Len(longer) = 2 /\ longer[1] = ESC /\ longer[2] = b
        BY <4>2, <2>1
      <4> QED
        BY <4>1, <4>3, <2>1, <3>2 DEF Kept, States
    <3>3. CASE b \notin {91, 95}
      <4>1. r.state = "idle" /\ r.buffer = << >> /\ r.utf8 = << >>
        BY <3>1, <3>3 DEF Escaped, Reset, Result
      <4> QED
        BY <4>1, EmptyKept
    <3> QED
      BY <3>2, <3>3
  <2>3. CASE st = "csi"
    <3>1. r = Csi(b, longer, u)
      BY <1>3, <2>3 DEF Step
    <3>2. CASE IsFinal(b)
      <4>1. r.state = "idle" /\ r.buffer = << >> /\ r.utf8 = << >>
        BY <3>1, <3>2 DEF Csi, Reset, Result
      <4> QED
        BY <4>1, EmptyKept
    <3>3. CASE ~IsFinal(b)
      <4>1. r.state = "csi" /\ r.buffer = longer /\ r.utf8 = u
        BY <3>1, <3>3 DEF Csi, Result
      <4>2. Len(buf) >= 2 /\ buf[1] = ESC /\ buf[2] = 91 /\ \A i \in 3..Len(buf) : ~IsFinal(buf[i])
        BY <2>3 DEF Kept
      <4>3. longer[1] = ESC /\ longer[2] = 91 /\ Len(longer) >= 2
        BY <4>2, <2>1
      <4>4. ASSUME NEW i \in 3..Len(longer)
            PROVE  ~IsFinal(longer[i])
        <5>1. i = Len(buf) + 1 \/ i \in 3..Len(buf)
          BY <2>1
        <5>2. i \in 3..Len(buf) => longer[i] = buf[i]
          BY <2>1
        <5>3. CASE i = Len(buf) + 1
          BY <5>3, <2>1, <3>3
        <5>4. CASE i \in 3..Len(buf)
          BY <5>2, <5>4, <4>2
        <5> QED
          BY <5>1, <5>3, <5>4
      <4>5. u \in Seq(Byte) /\ (u # << >> => Utf8(u) = "more" /\ CharLength(u[1]) > 0)
        BY DEF Kept
      <4> HIDE DEF longer
      <4>6. Kept("csi", longer, u)
        BY <4>3, <4>4, <4>5, <2>1 DEF Kept, States
      <4> QED
        BY <4>1, <4>6
    <3> QED
      BY <3>2, <3>3
  <2>4. CASE st \in {"apc", "apcEscaped"}
    <3>1. CASE st = "apcEscaped" /\ b = 92
      <4>1. r.state = "idle" /\ r.buffer = << >> /\ r.utf8 = << >>
        BY <1>3, <3>1 DEF Step, ApcEscaped, Reset, Result
      <4> QED
        BY <4>1, EmptyKept
    <3>2. CASE ~(st = "apcEscaped" /\ b = 92)
      <4>1. r = Apc(b, longer, u)
        BY <1>3, <2>4, <3>2 DEF Step, ApcEscaped
      <4>2. r.state = (IF b = ESC THEN "apcEscaped" ELSE "apc") /\ r.buffer = longer /\ r.utf8 = u
        BY <4>1 DEF Apc, Result
      <4>3. /\ Len(buf) >= 2 /\ buf[1] = ESC /\ buf[2] = 95
            /\ (st = "apcEscaped") <=> (Len(buf) > 2 /\ buf[Len(buf)] = ESC)
            /\ \A i \in 4..Len(buf) : ~(buf[i - 1] = ESC /\ buf[i] = 92)
        BY <2>4 DEF Kept
      <4>4. longer[1] = ESC /\ longer[2] = 95 /\ Len(longer) > 2 /\ longer[Len(longer)] = b
        BY <4>3, <2>1
      <4>5. ASSUME NEW i \in 4..Len(longer)
            PROVE  ~(longer[i - 1] = ESC /\ longer[i] = 92)
        <5>1. CASE i = Len(buf) + 1
          <6>1. i - 1 = Len(buf) /\ Len(buf) > 2 /\ longer[i] = b
            BY <5>1, <2>1
          <6>2. longer[i - 1] = buf[Len(buf)]
            BY <6>1, <2>1
          <6> QED
            BY <6>1, <6>2, <4>3, <3>2
        <5>2. CASE i # Len(buf) + 1
          <6>1. i \in 4..Len(buf) /\ i - 1 \in 1..Len(buf) /\ i \in 1..Len(buf)
            BY <5>2, <2>1
          <6>2. longer[i] = buf[i] /\ longer[i - 1] = buf[i - 1]
            BY <6>1, <2>1
          <6> QED
            BY <6>1, <6>2, <4>3
        <5> QED
          BY <5>1, <5>2
      <4> QED
        BY <4>2, <4>4, <4>5, <2>1, <4>3 DEF Kept, States
    <3> QED
      BY <3>1, <3>2
  <2> QED
    BY <1>3, <2>2, <2>3, <2>4 DEF Kept, States
<1> QED
  BY <1>1, <1>2, <1>3

\* The guard gives up a sequence before the byte is looked at.
LEMMA FeedKeeps ==
    ASSUME Kept(state, buffer, utf8), NEW b \in Byte
    PROVE  LET r == Feed(b) IN Kept(r.state, r.buffer, r.utf8)
<1>1. CASE quiet /\ state # "idle"
  <2>1. Feed(b) = Step(b, "idle", << >>, << >>)
    BY <1>1 DEF Feed
  <2> QED
    BY <2>1, EmptyKept, StepKeeps
<1>2. CASE ~(quiet /\ state # "idle")
  <2>1. Feed(b) = Step(b, state, buffer, utf8)
    BY <1>2 DEF Feed
  <2> QED
    BY <2>1, StepKeeps
<1> QED
  BY <1>1, <1>2

-----------------------------------------------------------------------------
(* The line *)

\* The item on the line, and how far it was sent.
LineType ==
    /\ item \in Items \cup {Silence}
    /\ pos \in 0..Len(item.bytes)

\* An item, and silence, are bytes.
LEMMA ItemBytes ==
    ASSUME NEW i \in Items \cup {Silence}
    PROVE  i.bytes \in Seq(Byte) /\ Len(i.bytes) \in Nat
<1>1. CASE i \in Items
  <2>1. IsItem(i)
    BY <1>1, DecoderAssumption
  <2> QED
    BY <2>1, LenProperties DEF IsItem, Byte
<1>2. CASE i = Silence
  <2>1. i.bytes = << >>
    BY <1>2 DEF Silence
  <2> QED
    BY <2>1
<1> QED
  BY <1>1, <1>2

\* What the decoder keeps and what the line carries fit.
DecoderInv == Kept(state, buffer, utf8) /\ LineType

\* The line begins at rest.
LEMMA InitDecoder == LineInit => DecoderInv
<1> SUFFICES ASSUME LineInit
             PROVE  DecoderInv
  OBVIOUS
<1>1. Kept(state, buffer, utf8)
  BY EmptyKept DEF LineInit
<1>2. item \in Items \cup {Silence} /\ Len(item.bytes) = 0 /\ pos = 0
  BY DEF LineInit, Silence
<1> QED
  BY <1>1, <1>2 DEF DecoderInv, LineType

\* Every step of the line keeps the shape.
LEMMA DecoderStep ==
    ASSUME DecoderInv, [LineNext]_lineVars
    PROVE  DecoderInv'
<1>1. /\ item \in Items \cup {Silence} /\ pos \in 0..Len(item.bytes)
      /\ Kept(state, buffer, utf8)
  BY DEF DecoderInv, LineType
<1>2. ASSUME NEW b \in Byte, NEW seen, Take(b, seen)
      PROVE  Kept(state, buffer, utf8)'
  <2>1. state' = Feed(b).state /\ buffer' = Feed(b).buffer /\ utf8' = Feed(b).utf8
    BY <1>2 DEF Take
  <2> QED
    BY <1>1, <2>1, FeedKeeps
<1>3. CASE Send
  <2>1. pos + 1 \in 1..Len(item.bytes) /\ item.bytes[pos + 1] \in Byte
    BY <1>1, <1>3, ItemBytes, ElementOfSeq DEF Send, Whole
  <2>2. item' = item /\ pos' = pos + 1 /\ Take(item.bytes[pos + 1], got)
    BY <1>3 DEF Send
  <2>3. LineType'
    BY <1>1, <2>1, <2>2, ItemBytes DEF LineType
  <2> QED
    BY <1>2, <2>1, <2>2, <2>3 DEF DecoderInv
<1>4. CASE Begin
  <2>1. UNCHANGED <<state, buffer, utf8>> /\ item' \in Items /\ pos' = 0
    BY <1>4 DEF Begin, decoder
  <2>2. 0 \in 0..Len(item'.bytes)
    BY <2>1, ItemBytes
  <2> QED
    BY <1>1, <2>1, <2>2 DEF DecoderInv, LineType
<1>5. ASSUME NEW b \in Noise, Disturb(b)
      PROVE  DecoderInv'
  <2>1. b \in Byte /\ item' = Silence /\ pos' = 0 /\ Take(b, << >>)
    BY <1>5, DecoderAssumption DEF Disturb, Byte
  <2>2. 0 \in 0..Len(item'.bytes)
    BY <2>1 DEF Silence
  <2> QED
    BY <1>2, <2>1, <2>2 DEF DecoderInv, LineType
<1>6. CASE Pause \/ UNCHANGED lineVars
  <2>1. UNCHANGED <<state, buffer, utf8, item, pos>>
    BY <1>6 DEF Pause, lineVars, decoder, line
  <2> QED
    BY <1>1, <2>1 DEF DecoderInv, LineType
<1> QED
  BY <1>3, <1>4, <1>5, <1>6 DEF LineNext

\* Between two bytes the decoder keeps what its state stands for: nothing at rest,
\* the beginning of a sequence, at most the beginning of a character, and never
\* more than the capacity (feed, reset and BoundedSubnegBuffer).
THEOREM DecoderKeeps == LineSpec => []KeepsWhatItReads
<1>1. DecoderInv => KeepsWhatItReads
  <2> SUFFICES ASSUME DecoderInv
               PROVE  KeepsWhatItReads
    OBVIOUS
  <2>1. ASSUME Len(buffer) >= 2, buffer \in Seq(Byte)
        PROVE  SubSeq(buffer, 1, 2) = <<buffer[1], buffer[2]>>
    <3>1. SubSeq(buffer, 1, 2) \in Seq(Byte) /\ Len(SubSeq(buffer, 1, 2)) = 2
      BY <2>1, SubSeqProperties, LenProperties
    <3>2. SubSeq(buffer, 1, 2)[1] = buffer[1] /\ SubSeq(buffer, 1, 2)[2] = buffer[2]
      BY <2>1
    <3>3. <<buffer[1], buffer[2]>> \in Seq(Byte) /\ Len(<<buffer[1], buffer[2]>>) = 2
      BY <2>1, ElementOfSeq, LenProperties
    <3> DEFINE first == SubSeq(buffer, 1, 2)
               two == <<buffer[1], buffer[2]>>
    <3>4. Len(first) = Len(two) /\ \A i \in 1..Len(first) : first[i] = two[i]
      BY <3>1, <3>2, <3>3
    <3>5. first \in Seq(Byte) /\ two \in Seq(Byte)
      BY <3>1, <3>3
    <3> HIDE DEF first, two
    <3>6. first = two
      BY <3>4, <3>5, SeqEqual
    <3> QED
      BY <3>6 DEF first, two
  <2> QED
    BY <2>1 DEF DecoderInv, Kept, KeepsWhatItReads
<1> QED
  BY <1>1, InitDecoder, DecoderStep, PTL DEF LineSpec

-----------------------------------------------------------------------------
(* The bytes of a sequence *)

\* Prefixes of a sequence.
LEMMA Prefix ==
    ASSUME NEW s \in Seq(Byte), NEW p \in 0..Len(s)
    PROVE  /\ SubSeq(s, 1, p) \in Seq(Byte) /\ Len(SubSeq(s, 1, p)) = p
           /\ \A i \in 1..p : SubSeq(s, 1, p)[i] = s[i]
           /\ p < Len(s) => Append(SubSeq(s, 1, p), s[p + 1]) = SubSeq(s, 1, p + 1)
           /\ p = Len(s) => SubSeq(s, 1, p) = s
<1>1. Len(s) \in Nat /\ \A i \in 1..Len(s) : s[i] \in Byte
  BY LenProperties, ElementOfSeq
<1>2. /\ SubSeq(s, 1, p) \in Seq(Byte) /\ Len(SubSeq(s, 1, p)) = p
      /\ \A i \in 1..p : SubSeq(s, 1, p)[i] = s[i]
  <2>1. \A i \in 1..p : s[i] \in Byte
    BY <1>1
  <2> QED
    BY <2>1, <1>1, SubSeqProperties
<1>3. ASSUME p < Len(s)
      PROVE  Append(SubSeq(s, 1, p), s[p + 1]) = SubSeq(s, 1, p + 1)
  <2>1. SubSeq(s, 1, p + 1) = SubSeq(s, 1, (p + 1) - 1) \o <<s[p + 1]>>
    BY <1>1, <1>3, SubSeqRecursiveSecond
  <2>2. (p + 1) - 1 = p /\ s[p + 1] \in Byte
    BY <1>1, <1>3
  <2> QED
    BY <2>1, <2>2, <1>2, AppendIsConcat
<1>4. p = Len(s) => SubSeq(s, 1, p) = s
  BY SubSeqFull
<1> QED
  BY <1>2, <1>3, <1>4

\* A byte of a sequence goes on with it, the last one ends it.
LEMMA SequenceStep ==
    ASSUME NEW s \in Seq(Byte), IsCsi(s) \/ IsApc(s), Len(s) <= Capacity,
           NEW p \in 1..(Len(s) - 1), NEW st, NEW u, st # "idle", Kept(st, SubSeq(s, 1, p), u)
    PROVE  LET r == Step(s[p + 1], st, SubSeq(s, 1, p), u) IN
           /\ p + 1 < Len(s) => r.state # "idle" /\ r.buffer = SubSeq(s, 1, p + 1) /\ r.events = << >>
           /\ p + 1 = Len(s) => r.events = <<IF IsCsi(s) THEN Sequence(s) ELSE Command(s)>>
<1> DEFINE buf == SubSeq(s, 1, p)
           b == s[p + 1]
           longer == Append(buf, b)
           r == Step(b, st, buf, u)
           Goal == /\ p + 1 < Len(s) => r.state # "idle" /\ r.buffer = longer /\ r.events = << >>
                   /\ p + 1 = Len(s) => r.events = <<IF IsCsi(s) THEN Sequence(s) ELSE Command(s)>>
<1>1. /\ Len(s) \in Nat /\ Len(s) > 3 /\ p \in 0..Len(s) /\ p < Len(s) /\ p + 1 \in 1..Len(s)
      /\ s[1] = ESC /\ s[2] \in {91, 95}
  BY LenProperties DEF IsCsi, IsApc
<1>2. /\ Len(buf) = p /\ \A i \in 1..p : buf[i] = s[i]
      /\ longer = SubSeq(s, 1, p + 1) /\ (p + 1 = Len(s) => longer = s)
  <2>1. p + 1 \in 0..Len(s)
    BY <1>1
  <2>2. SubSeq(s, 1, p + 1) = s \/ p + 1 # Len(s)
    BY <2>1, Prefix
  <2> QED
    BY <1>1, <2>2, Prefix
<1>3. /\ IsCsi(s) => s[2] = 91 /\ IsFinal(s[Len(s)]) /\ \A i \in 3..(Len(s) - 1) : ~IsFinal(s[i])
      /\ IsApc(s) => /\ s[2] = 95 /\ s[Len(s) - 1] = ESC /\ s[Len(s)] = 92 /\ Len(s) > 4
                     /\ \A i \in 4..(Len(s) - 1) : ~(s[i - 1] = ESC /\ s[i] = 92)
  BY DEF IsCsi, IsApc
<1>4. /\ st \in States
      /\ st = "escaped" => buf = <<ESC>>
      /\ st = "csi" => p >= 2 /\ buf[2] = 91
      /\ st \in {"apc", "apcEscaped"} =>
            /\ p >= 2 /\ buf[2] = 95
            /\ (st = "apcEscaped") <=> (p > 2 /\ buf[p] = ESC)
  BY <1>2 DEF Kept
<1>5. ~(st # "idle" /\ p >= Capacity)
  BY <1>1, DecoderAssumption
<1> SUFFICES Goal
  BY <1>2
<1>6. CASE st = "escaped"
  <2>1. Len(buf) = 1
    <3>1. Len(<<ESC>>) = 1
      OBVIOUS
    <3> QED
      BY <3>1, <1>4, <1>6
  <2>2. p = 1
    BY <2>1, <1>2
  <2>3. b \in {91, 95} /\ p + 1 < Len(s) /\ p + 1 # Len(s)
    <3>1. p + 1 = 2
      BY <2>2
    <3>2. 2 < Len(s)
      BY <1>1
    <3>3. 2 # Len(s)
      <4>1. \A n \in Nat : 2 < n => 2 # n
        OBVIOUS
      <4> HIDE DEF Goal
      <4> QED
        BY <1>1, <3>2, <4>1, Zenon
    <3>4. b \in {91, 95}
      BY <1>1, <3>1
    <3> QED
      BY <3>1, <3>2, <3>3, <3>4
  <2>4. r = Escaped(b, longer, u)
    BY <1>2, <1>5, <1>6 DEF Step
  <2>5. CASE b = 91
    <3>1. r = Result("csi", longer, u, << >>)
      BY <2>4, <2>5, 91 # 95, Zenon DEF Escaped
    <3>2. r.state # "idle" /\ r.buffer = longer /\ r.events = << >>
      BY <3>1 DEF Result
    <3> HIDE DEF r, longer
    <3> QED
      BY <2>3, <3>2
  <2>6. CASE b = 95
    <3>1. r = Result("apc", longer, u, << >>)
      BY <2>4, <2>6, 91 # 95, Zenon DEF Escaped
    <3>2. r.state # "idle" /\ r.buffer = longer /\ r.events = << >>
      BY <3>1 DEF Result
    <3> HIDE DEF r, longer
    <3> QED
      BY <2>3, <3>2
  <2> QED
    BY <2>3, <2>5, <2>6
<1>7. CASE st = "csi"
  <2>1. p >= 2 /\ IsCsi(s)
    BY <1>1, <1>2, <1>3, <1>4, <1>7
  <2>2. r = Csi(b, longer, u)
    BY <1>2, <1>5, <1>7 DEF Step
  <2>3. CASE p + 1 < Len(s)
    <3>1. p + 1 \in 3..(Len(s) - 1)
      BY <1>1, <2>1, <2>3
    <3>2. ~IsFinal(b)
      BY <3>1, <2>1, <1>3
    <3> QED
      BY <1>1, <2>2, <2>3, <3>2 DEF Csi, Result
  <2>4. CASE p + 1 = Len(s)
    <3>1. IsFinal(b)
      BY <2>1, <2>4, <1>3
    <3>2. r.events = <<Sequence(longer)>>
      BY <2>2, <3>1 DEF Csi, Reset, Result
    <3>3. longer = s /\ ~(p + 1 < Len(s))
      BY <1>1, <1>2, <2>4
    <3> HIDE DEF r, longer
    <3> QED
      BY <3>2, <3>3, <2>1
  <2> QED
    BY <1>1, <2>3, <2>4
<1>8. CASE st \in {"apc", "apcEscaped"}
  <2>1. p >= 2 /\ s[2] = 95 /\ buf[p] = s[p] /\ ((st = "apcEscaped") <=> (p > 2 /\ buf[p] = ESC))
    BY <1>1, <1>2, <1>4, <1>8
  <2>2. p >= 2 /\ IsApc(s) /\ ~IsCsi(s)
    BY <2>1, <1>3
  <2>3. (st = "apcEscaped") <=> (p > 2 /\ s[p] = ESC)
    BY <2>1
  <2>4. CASE p + 1 < Len(s)
    <3>1. ~(st = "apcEscaped" /\ b = 92)
      <4>1. SUFFICES ASSUME st = "apcEscaped", b = 92
                     PROVE  FALSE
        OBVIOUS
      <4>2. p + 1 \in 4..(Len(s) - 1) /\ s[(p + 1) - 1] = ESC
        BY <2>3, <2>4, <4>1, <1>1
      <4> QED
        BY <4>1, <4>2, <2>2, <1>3
    <3>2. r = Apc(b, longer, u)
      BY <1>2, <1>5, <1>8, <3>1 DEF Step, ApcEscaped
    <3>3. r.state \in {"apc", "apcEscaped"} /\ r.buffer = longer /\ r.events = << >>
      BY <3>2 DEF Apc, Result
    <3> QED
      BY <2>4, <3>3
  <2>5. CASE p + 1 = Len(s)
    <3>1. b = 92 /\ s[p] = ESC /\ p > 2
      BY <1>1, <1>3, <2>2, <2>5
    <3>2. st = "apcEscaped"
      BY <2>3, <3>1
    <3>3. r = ApcEscaped(b, longer, u)
      BY <1>2, <1>5, <3>2 DEF Step
    <3>4. r.events = <<Command(longer)>>
      BY <3>1, <3>3 DEF ApcEscaped, Reset, Result
    <3>5. longer = s /\ ~(p + 1 < Len(s))
      BY <1>1, <1>2, <2>5
    <3> HIDE DEF r, longer
    <3> QED
      BY <3>4, <3>5, <2>2
  <2> QED
    BY <1>1, <2>4, <2>5
<1> QED
  BY <1>4, <1>6, <1>7, <1>8 DEF States

-----------------------------------------------------------------------------
(* The bytes of a character *)

-----------------------------------------------------------------------------
(* Characters *)

\* s is how UTF-8 writes cp.
IsCoded(s, cp) ==
    \/ cp \in Nat /\ cp < 128 /\ s = <<cp>>
    \/ /\ s \in Seq(Byte) /\ Len(s) \in 2..4 /\ CharLength(s[1]) = Len(s) /\ s[1] >= 194
       /\ IsSecond(s[2], s[1]) /\ \A i \in 2..Len(s) : IsContinuation(s[i])
       /\ CodePoint(s) = cp

\* Encoding gives what Utf8 and CodePoint take back, byte by byte.
LEMMA Coded ==
    ASSUME NEW cp, IsChar(cp)
    PROVE  IsCoded(Encoded(cp), cp)
<1> DEFINE s == Encoded(cp)
<1>1. cp \in Nat /\ cp < 1114112
  BY DEF IsChar
<1>2. \A b \in Nat : b < 256 => b \in Byte
  BY DEF Byte
<1>3. CASE cp < 128
  <2>1. s = <<cp>>
    BY <1>3 DEF Encoded
  <2> QED
    BY <2>1, <1>1, <1>3 DEF IsCoded
<1>4. CASE cp >= 128 /\ cp < 2048
  <2> DEFINE q == cp \div 64
             d == cp % 64
  <2>1. q \in Nat /\ q >= 2 /\ q < 32 /\ d \in Nat /\ d < 64 /\ cp = 64 * q + d
    BY <1>1, <1>4
  <2>2. s = <<192 + q, 128 + d>>
    BY <1>1, <1>4 DEF Encoded
  <2> HIDE DEF q, d, s
  <2>3. s[1] = 192 + q /\ s[2] = 128 + d /\ Len(s) = 2
    BY <2>2
  <2>4. 192 + q \in Byte /\ 128 + d \in Byte
    BY <2>1, <1>2
  <2>5. s \in Seq(Byte)
    BY <2>2, <2>4
  <2>6. CharLength(s[1]) = 2 /\ s[1] >= 194
    BY <2>1, <2>3 DEF CharLength
  <2>7. IsSecond(s[2], s[1]) /\ IsContinuation(s[2])
    BY <2>1, <2>3 DEF IsSecond, IsContinuation
  <2>8. s[1] % 32 = q /\ s[2] % 64 = d
    BY <2>1, <2>3
  <2>9. CodePoint(s) = (s[1] % 32) * 64 + (s[2] % 64)
    BY <2>3 DEF CodePoint
  <2>10. CodePoint(s) = cp
    BY <2>1, <2>8, <2>9
  <2>11. \A i \in 2..Len(s) : i = 2
    BY <2>3
  <2>12. Len(s) \in 2..4 /\ CharLength(s[1]) = Len(s)
    BY <2>3, <2>6
  <2>13. \A i \in 2..Len(s) : IsContinuation(s[i])
    BY <2>7, <2>11
  <2>14. IsCoded(s, cp)
    BY <2>5, <2>6, <2>7, <2>10, <2>12, <2>13 DEF IsCoded
  <2> QED
    BY <2>14 DEF s
<1>5. CASE cp >= 2048 /\ cp < 65536
  <2> DEFINE q == cp \div 4096
             d == (cp \div 64) % 64
             e == cp % 64
  <2>1. /\ q \in Nat /\ q < 16 /\ d \in Nat /\ d < 64 /\ e \in Nat /\ e < 64
        /\ cp = 4096 * q + 64 * d + e
    BY <1>1, <1>5
  <2>2. (q = 0 => d >= 32) /\ (q = 13 => d < 32)
    BY <2>1, <1>5 DEF IsChar
  <2>3. s = <<224 + q, 128 + d, 128 + e>>
    BY <1>1, <1>5 DEF Encoded
  <2> HIDE DEF q, d, e, s
  <2>4. s[1] = 224 + q /\ s[2] = 128 + d /\ s[3] = 128 + e /\ Len(s) = 3
    BY <2>3
  <2>5. 224 + q \in Byte /\ 128 + d \in Byte /\ 128 + e \in Byte
    BY <2>1, <1>2
  <2>6. s \in Seq(Byte)
    BY <2>3, <2>5
  <2>7. CharLength(s[1]) = 3 /\ s[1] >= 194
    BY <2>1, <2>4 DEF CharLength
  <2>8. IsSecond(s[2], s[1]) /\ IsContinuation(s[2]) /\ IsContinuation(s[3])
    BY <2>1, <2>2, <2>4 DEF IsSecond, IsContinuation
  <2>9. s[1] % 16 = q /\ s[2] % 64 = d /\ s[3] % 64 = e
    BY <2>1, <2>4
  <2>10. CodePoint(s) = (s[1] % 16) * 4096 + (s[2] % 64) * 64 + (s[3] % 64)
    BY <2>4 DEF CodePoint
  <2>11. CodePoint(s) = cp
    BY <2>1, <2>9, <2>10
  <2>12. \A i \in 2..Len(s) : i = 2 \/ i = 3
    BY <2>4
  <2>13. Len(s) \in 2..4 /\ CharLength(s[1]) = Len(s)
    BY <2>4, <2>7
  <2>14. \A i \in 2..Len(s) : IsContinuation(s[i])
    BY <2>8, <2>12
  <2>15. IsCoded(s, cp)
    BY <2>6, <2>7, <2>8, <2>11, <2>13, <2>14 DEF IsCoded
  <2> QED
    BY <2>15 DEF s
<1>6. CASE cp >= 65536
  <2> DEFINE q == cp \div 262144
             c == (cp \div 4096) % 64
             d == (cp \div 64) % 64
             e == cp % 64
  <2>1. /\ q \in Nat /\ q < 5 /\ c \in Nat /\ c < 64 /\ d \in Nat /\ d < 64 /\ e \in Nat /\ e < 64
        /\ cp = 262144 * q + 4096 * c + 64 * d + e
    BY <1>1, <1>6
  <2>2. (q = 0 => c >= 16) /\ (q = 4 => c < 16)
    BY <2>1, <1>6, <1>1
  <2>3. s = <<240 + q, 128 + c, 128 + d, 128 + e>>
    BY <1>1, <1>6 DEF Encoded
  <2> HIDE DEF q, c, d, e, s
  <2>4. s[1] = 240 + q /\ s[2] = 128 + c /\ s[3] = 128 + d /\ s[4] = 128 + e /\ Len(s) = 4
    BY <2>3
  <2>5. 240 + q \in Byte /\ 128 + c \in Byte /\ 128 + d \in Byte /\ 128 + e \in Byte
    BY <2>1, <1>2
  <2>6. s \in Seq(Byte)
    BY <2>3, <2>5
  <2>7. CharLength(s[1]) = 4 /\ s[1] >= 194
    BY <2>1, <2>4 DEF CharLength
  <2>8. IsSecond(s[2], s[1]) /\ IsContinuation(s[2]) /\ IsContinuation(s[3]) /\ IsContinuation(s[4])
    BY <2>1, <2>2, <2>4 DEF IsSecond, IsContinuation
  <2>9. s[1] % 8 = q /\ s[2] % 64 = c /\ s[3] % 64 = d /\ s[4] % 64 = e
    BY <2>1, <2>4
  <2>10. CodePoint(s) = (s[1] % 8) * 262144 + (s[2] % 64) * 4096 + (s[3] % 64) * 64 + (s[4] % 64)
    BY <2>4 DEF CodePoint
  <2>11. CodePoint(s) = cp
    BY <2>1, <2>9, <2>10
  <2>12. \A i \in 2..Len(s) : i = 2 \/ i = 3 \/ i = 4
    BY <2>4
  <2>13. Len(s) \in 2..4 /\ CharLength(s[1]) = Len(s)
    BY <2>4, <2>7
  <2>14. \A i \in 2..Len(s) : IsContinuation(s[i])
    BY <2>8, <2>12
  <2>15. IsCoded(s, cp)
    BY <2>6, <2>7, <2>8, <2>11, <2>13, <2>14 DEF IsCoded
  <2> QED
    BY <2>15 DEF s
<1> QED
  BY <1>1, <1>3, <1>4, <1>5, <1>6

\* Bytes are numbers.
LEMMA ByteNat == \A b \in Byte : b \in Nat /\ b < 256
BY DEF Byte

\* What a byte beyond ASCII makes of the character that is being read.
LEMMA IdleHigh ==
    ASSUME NEW b \in Byte, b >= 128, NEW u, ~(u = << >> /\ CharLength(b) = 0)
    PROVE  /\ Utf8(Append(u, b)) = "ok" => Idle(b, u) = Reset(<<Typed(CodePoint(Append(u, b)))>>)
           /\ Utf8(Append(u, b)) = "more" => Idle(b, u) = Result("idle", << >>, Append(u, b), << >>)
           /\ Utf8(Append(u, b)) = "bad" => Idle(b, u) = Reset(<< >>)
<1>1. b # ESC /\ b # XON /\ b # XOFF /\ ~(b < 128)
  BY DEF ESC, XON, XOFF, Byte
<1> DEFINE char == Append(u, b)
           Read == CASE Utf8(char) = "ok"   -> Reset(<<Typed(CodePoint(char))>>)
                     [] Utf8(char) = "more" -> Result("idle", << >>, char, << >>)
                     [] Utf8(char) = "bad"  -> Reset(<< >>)
<1>2. Idle(b, u) = Read
  BY <1>1, Zenon DEF Idle
<1>3. "ok" # "more" /\ "ok" # "bad" /\ "more" # "bad"
  OBVIOUS
<1> QED
  BY <1>2, <1>3, Zenon

\* The bytes of a character, one after the other.
LEMMA CharStep ==
    ASSUME NEW s, NEW cp, IsCoded(s, cp), s # <<cp>>, NEW p \in 0..(Len(s) - 1)
    PROVE  LET u == SubSeq(s, 1, p) IN
           /\ s \in Seq(Byte) /\ Len(s) \in 2..4
           /\ p + 1 < Len(s) => Idle(s[p + 1], u) = Result("idle", << >>, SubSeq(s, 1, p + 1), << >>)
           /\ p + 1 = Len(s) => Idle(s[p + 1], u) = Reset(<<Typed(cp)>>)
<1> DEFINE u == SubSeq(s, 1, p)
           b == s[p + 1]
           char == Append(u, b)
<1>1. /\ s \in Seq(Byte) /\ Len(s) \in 2..4 /\ CharLength(s[1]) = Len(s) /\ s[1] >= 194
      /\ IsSecond(s[2], s[1]) /\ \A i \in 2..Len(s) : IsContinuation(s[i])
      /\ CodePoint(s) = cp
  BY DEF IsCoded
<1>2. p \in 0..Len(s) /\ p < Len(s) /\ p + 1 \in 1..Len(s) /\ p + 1 \in 0..Len(s) /\ b \in Byte /\ b \in Nat
  BY <1>1, ElementOfSeq, ByteNat
<1>3. char = SubSeq(s, 1, p + 1) /\ Len(u) = p
  BY <1>1, <1>2, Prefix
<1>4. Len(char) = p + 1 /\ char \in Seq(Byte) /\ \A i \in 1..(p + 1) : char[i] = s[i]
  BY <1>1, <1>2, <1>3, Prefix
<1>5. b >= 128
  <2>1. CASE p = 0
    BY <1>1, <1>2, <2>1
  <2>2. CASE p # 0
    <3>1. p + 1 \in 2..Len(s)
      BY <1>1, <2>2
    <3> QED
      BY <3>1, <1>1 DEF IsContinuation
  <2> QED
    BY <2>1, <2>2
<1>6. ~(u = << >> /\ CharLength(b) = 0)
  <2>1. SUFFICES ASSUME u = << >>
                 PROVE  CharLength(b) # 0
    OBVIOUS
  <2>2. p = 0
    BY <1>3, <2>1
  <2> QED
    BY <1>1, <2>2
<1>7. Utf8(char) = IF p + 1 < Len(s) THEN "more" ELSE "ok"
  <2>1. ~(Len(char) > 1 /\ ~IsSecond(char[2], char[1]))
    <3>1. SUFFICES ASSUME p + 1 > 1
                   PROVE  IsSecond(char[2], char[1])
      BY <1>4
    <3>2. 1 \in 1..(p + 1) /\ 2 \in 1..(p + 1)
      BY <3>1
    <3>3. char[1] = s[1] /\ char[2] = s[2]
      BY <3>2, <1>4
    <3> QED
      BY <3>3, <1>1
  <2>2. ~ \E i \in 3..Len(char) : ~IsContinuation(char[i])
    <3>1. SUFFICES ASSUME NEW i \in 3..(p + 1)
                   PROVE  IsContinuation(char[i])
      BY <1>4
    <3>2. i \in 1..(p + 1) /\ i \in 2..Len(s)
      BY <1>1, <1>2
    <3> QED
      BY <3>2, <1>1, <1>4
  <2>3. CharLength(char[1]) = Len(s)
    <3>1. 1 \in 1..(p + 1)
      OBVIOUS
    <3> QED
      BY <3>1, <1>1, <1>4
  <2> HIDE DEF char
  <2>4. Utf8(char) = IF Len(char) < CharLength(char[1]) THEN "more" ELSE "ok"
    BY <2>1, <2>2 DEF Utf8
  <2> QED
    BY <2>3, <2>4, <1>4
<1>8. CASE p + 1 < Len(s)
  <2>1. Utf8(char) = "more"
    BY <1>7, <1>8
  <2>2. Idle(b, u) = Result("idle", << >>, char, << >>)
    BY <2>1, <1>2, <1>5, <1>6, IdleHigh
  <2>3. ~(p + 1 = Len(s))
    BY <1>8, <1>1
  <2> QED
    BY <2>2, <2>3, <1>1, <1>3
<1>9. CASE ~(p + 1 < Len(s))
  <2>1. Utf8(char) = "ok"
    BY <1>7, <1>9
  <2>2. p + 1 = Len(s) /\ char = s
    <3>1. p + 1 = Len(s)
      BY <1>9, <1>2, <1>1
    <3>2. SubSeq(s, 1, Len(s)) = s
      BY <1>1, SubSeqFull
    <3> QED
      BY <3>1, <3>2, <1>3
  <2>3. Idle(b, u) = Reset(<<Typed(CodePoint(char))>>)
    BY <2>1, <1>2, <1>5, <1>6, IdleHigh
  <2> QED
    BY <2>2, <2>3, <1>1, <1>9
<1> QED
  BY <1>8, <1>9

\* Behind the beginning of another character it is lost, and so are its bytes
\* that come behind the first one.
LEMMA CharLost ==
    ASSUME NEW s, NEW cp, IsCoded(s, cp), s # <<cp>>, NEW p \in 0..(Len(s) - 1),
           NEW u \in Seq(Byte), (u = << >>) <=> (p > 0)
    PROVE  Idle(s[p + 1], u) = Reset(<< >>)
<1> DEFINE b == s[p + 1]
           char == Append(u, b)
<1>1. /\ s \in Seq(Byte) /\ Len(s) \in 2..4 /\ CharLength(s[1]) = Len(s) /\ s[1] >= 194
      /\ \A i \in 2..Len(s) : IsContinuation(s[i])
  BY DEF IsCoded
<1>2. p + 1 \in 1..Len(s) /\ b \in Byte /\ b \in Nat
  BY <1>1, ElementOfSeq, ByteNat
<1>3. CASE p = 0
  <2>1. b >= 194 /\ CharLength(b) # 0 /\ u # << >>
    BY <1>1, <1>3
  <2>2. PICK n \in Nat \ {0} : Len(u) = n
    BY <2>1, EmptySeq
  <2>3. Len(char) = n + 1 /\ char[n + 1] = b
    BY <1>2, <2>2, Longer
  <2>4. ~IsContinuation(b)
    BY <2>1, <1>2 DEF IsContinuation
  <2>5. Utf8(char) = "bad"
    <3>1. CASE n = 1
      <4>1. Len(char) > 1 /\ ~IsSecond(char[2], char[1])
        BY <3>1, <2>3, <2>4 DEF IsSecond
      <4> QED
        BY <4>1 DEF Utf8
    <3>2. CASE n # 1
      <4>1. n + 1 \in 3..Len(char) /\ ~IsContinuation(char[n + 1])
        BY <3>2, <2>3, <2>4
      <4> HIDE DEF char
      <4> QED
        BY <4>1 DEF Utf8
    <3> QED
      BY <3>1, <3>2
  <2>6. b >= 128
    BY <2>1, <1>2
  <2> QED
    BY <2>1, <2>5, <2>6, <1>2, IdleHigh
<1>4. CASE p > 0
  <2>1. p + 1 \in 2..Len(s) /\ u = << >>
    BY <1>4, <1>1
  <2>2. b >= 128 /\ b < 192
    BY <2>1, <1>1 DEF IsContinuation
  <2>3. CharLength(b) = 0 /\ b # ESC /\ b # XON /\ b # XOFF /\ ~(b < 128)
    BY <2>2, <1>2 DEF CharLength, ESC, XON, XOFF
  <2> QED
    BY <2>1, <2>2, <2>3, Zenon DEF Idle
<1> QED
  BY <1>3, <1>4

-----------------------------------------------------------------------------
(* The bytes of an item *)

\* What the decoder makes of the bytes of an item.
Shaped(i) ==
    /\ i.bytes \in Seq(Byte)
    /\ \/ IsCsi(i.bytes) /\ Sequence(i.bytes) = i.event
       \/ IsApc(i.bytes) /\ Command(i.bytes) = i.event
       \/ \E cp : /\ IsCoded(i.bytes, cp) /\ i.event = Typed(cp)
                  /\ cp # ESC /\ cp # XON /\ cp # XOFF
       \/ i.bytes = <<XON>> /\ i.event = Flow("xon")
       \/ i.bytes = <<XOFF>> /\ i.event = Flow("xoff")

\* No byte of the item was read, some were, all were.
AtRest ==
    /\ got = << >>
    /\ state = "idle" => (partial <=> utf8 # << >>)
    /\ state # "idle" => quiet /\ ~partial

\* Some bytes of the item were read: the decoder holds exactly them, or what is
\* left of a character that was spoiled.
Inside ==
    /\ got = << >>
    /\ item.bytes[1] = ESC => state # "idle" /\ buffer = SubSeq(item.bytes, 1, pos)
    /\ item.bytes[1] # ESC =>
          state = "idle" /\ utf8 = IF partial THEN << >> ELSE SubSeq(item.bytes, 1, pos)

\* All of them were read: the event is there, or the character was lost.
Told == got = IF partial /\ item.bytes[1] >= 128 THEN << >> ELSE <<item.event>>

\* The inductive invariant: how far the item was read is what the decoder holds.
Reads ==
    item # Silence /\ ~torn /\ Len(item.bytes) <= Capacity =>
        /\ Shaped(item)
        /\ pos = 0 => AtRest
        /\ pos > 0 /\ pos < Len(item.bytes) => Inside
        /\ pos = Len(item.bytes) => Told

\* How an item begins says what it is.
LEMMA ShapedStart ==
    ASSUME NEW i, Shaped(i)
    PROVE  /\ Len(i.bytes) \in Nat /\ Len(i.bytes) > 0 /\ i.bytes[1] \in Byte
           /\ (IsCsi(i.bytes) \/ IsApc(i.bytes)) => Len(i.bytes) > 3 /\ i.bytes[1] = ESC
           /\ \A cp : IsCoded(i.bytes, cp) /\ i.bytes # <<cp>> => Len(i.bytes) > 1 /\ i.bytes[1] >= 194
           /\ \A cp : IsCoded(i.bytes, cp) /\ i.bytes = <<cp>> => cp \in Nat /\ cp < 128
           /\ ~(IsCsi(i.bytes) /\ IsApc(i.bytes))
<1> DEFINE s == i.bytes
<1>1. s \in Seq(Byte) /\ Len(s) \in Nat
  BY LenProperties DEF Shaped
<1>2. (IsCsi(s) \/ IsApc(s)) => Len(s) > 3 /\ s[1] = ESC
  BY <1>1 DEF IsCsi, IsApc
<1>3. ~(IsCsi(s) /\ IsApc(s))
  <2>1. IsCsi(s) => s[2] = 91
    BY DEF IsCsi
  <2>2. IsApc(s) => s[2] = 95
    BY DEF IsApc
  <2> QED
    BY <2>1, <2>2
<1>4. ASSUME NEW cp, IsCoded(s, cp), s # <<cp>>
      PROVE  Len(s) > 1 /\ s[1] >= 194
  BY <1>4 DEF IsCoded
<1>5. ASSUME NEW cp, IsCoded(s, cp), s = <<cp>>
      PROVE  cp \in Nat /\ cp < 128
  <2>1. Len(s) = 1
    BY <1>5
  <2> QED
    BY <1>5, <2>1 DEF IsCoded
<1>6. Len(s) > 0
  <2>1. CASE IsCsi(s) \/ IsApc(s)
    BY <2>1, <1>1, <1>2
  <2>2. ASSUME NEW cp, IsCoded(s, cp)
        PROVE  Len(s) > 0
    <3>1. CASE s = <<cp>>
      BY <3>1
    <3>2. CASE s # <<cp>>
      BY <3>2, <2>2, <1>1, <1>4
    <3> QED
      BY <3>1, <3>2
  <2>3. s = <<XON>> \/ s = <<XOFF>> => Len(s) > 0
    OBVIOUS
  <2> HIDE DEF s
  <2> QED
    BY <2>1, <2>2, <2>3 DEF Shaped, s
<1>7. s[1] \in Byte
  BY <1>1, <1>6, ElementOfSeq
<1> QED
  BY <1>1, <1>2, <1>3, <1>4, <1>5, <1>6, <1>7

\* Wherever the stream is cut, the first byte of an item meets a decoder at rest.
LEMMA FirstByte ==
    ASSUME Kept(state, buffer, utf8), AtRest, NEW b
    PROVE  \E u \in Seq(Byte) : Feed(b) = Idle(b, u) /\ (u # << >> <=> partial)
<1>1. CASE state = "idle"
  <2>1. Feed(b) = Idle(b, utf8)
    BY <1>1 DEF Feed, Step
  <2> QED
    BY <1>1, <2>1 DEF AtRest, Kept
<1>2. CASE state # "idle"
  <2>1. Feed(b) = Idle(b, << >>)
    BY <1>2 DEF Feed, Step, AtRest
  <2>2. << >> \in Seq(Byte) /\ ~partial
    BY <1>2 DEF AtRest
  <2> QED
    BY <2>1, <2>2
<1> QED
  BY <1>1, <1>2

\* A byte of ASCII at rest is a sequence, a flow control or a character.
LEMMA IdleLow ==
    ASSUME NEW b, NEW u
    PROVE  /\ b = ESC => Idle(b, u) = Result("escaped", <<b>>, u, << >>)
           /\ b = XON => Idle(b, u) = Result("idle", << >>, u, <<Flow("xon")>>)
           /\ b = XOFF => Idle(b, u) = Result("idle", << >>, u, <<Flow("xoff")>>)
           /\ b \in Nat /\ b < 128 /\ b # ESC /\ b # XON /\ b # XOFF => Idle(b, u) = Reset(<<Typed(b)>>)
<1>1. ESC # XON /\ ESC # XOFF /\ XON # XOFF /\ ESC < 128 /\ XON < 128 /\ XOFF < 128
      /\ ~(ESC >= 128) /\ ~(XON >= 128) /\ ~(XOFF >= 128)
  BY DEF ESC, XON, XOFF
<1>2. b = ESC => Idle(b, u) = Result("escaped", <<b>>, u, << >>)
  BY <1>1, Zenon DEF Idle
<1>3. b = XON => Idle(b, u) = Result("idle", << >>, u, <<Flow("xon")>>)
  BY <1>1, Zenon DEF Idle
<1>4. b = XOFF => Idle(b, u) = Result("idle", << >>, u, <<Flow("xoff")>>)
  BY <1>1, Zenon DEF Idle
<1>5. ASSUME b \in Nat, b < 128, b # ESC, b # XON, b # XOFF
      PROVE  Idle(b, u) = Reset(<<Typed(b)>>)
  <2>1. ~(b >= 128)
    BY <1>5
  <2> QED
    BY <1>5, <2>1, Zenon DEF Idle
<1> QED
  BY <1>2, <1>3, <1>4, <1>5

\* A byte of the item.
LEMMA SendReads ==
    ASSUME DecoderInv, Reads, Send, item # Silence, ~torn', Len(item.bytes) <= Capacity
    PROVE  /\ Shaped(item)'
           /\ pos' = 0 => AtRest'
           /\ pos' > 0 /\ pos' < Len(item.bytes) => Inside'
           /\ pos' = Len(item.bytes) => Told'
<1> DEFINE s == item.bytes
           n == Len(s)
           b == s[pos + 1]
           Goal == /\ pos + 1 < n => Inside'
                   /\ pos + 1 = n => Told'
<1>1. /\ pos' = pos + 1 /\ item' = item /\ partial' = partial /\ ~Whole /\ ~torn
      /\ ~(pos > 0 /\ quiet /\ state # "idle")
      /\ Take(b, got)
  BY DEF Send
<1>2. /\ Shaped(item) /\ (pos = 0 => AtRest) /\ (pos > 0 /\ pos < n => Inside)
      /\ Kept(state, buffer, utf8)
  BY <1>1 DEF Reads, DecoderInv
<1>3. n \in Nat /\ n > 0 /\ pos \in 0..(n - 1) /\ pos \in Nat /\ pos < n /\ s \in Seq(Byte)
      /\ s[1] \in Byte /\ s[1] \in Nat
  <2>1. pos \in 0..n /\ pos # n
    BY <1>1 DEF DecoderInv, LineType, Whole
  <2>2. n \in Nat /\ n > 0 /\ s[1] \in Byte
    BY <1>2, ShapedStart
  <2> QED
    BY <2>1, <2>2, <1>2, ByteNat DEF Shaped
<1>4. got = << >>
  BY <1>2, <1>3 DEF AtRest, Inside
<1>5. /\ state' = Feed(b).state /\ buffer' = Feed(b).buffer /\ utf8' = Feed(b).utf8
      /\ got' = << >> \o Feed(b).events
  BY <1>1, <1>4 DEF Take
<1>6. ASSUME NEW st, NEW bf, NEW u, NEW es, Feed(b) = Result(st, bf, u, es)
      PROVE  state' = st /\ buffer' = bf /\ utf8' = u /\ got' = << >> \o es
  BY <1>5, <1>6 DEF Result
<1>7. \A e : << >> \o <<e>> = <<e>>
  OBVIOUS
<1>8. << >> \o << >> = << >>
  OBVIOUS
<1>9. SUFFICES Goal
  BY <1>1, <1>2, <1>3 DEF Shaped
<1>10. CASE IsCsi(s) \/ IsApc(s)
  <2>1. s[1] = ESC /\ n > 3 /\ ~(s[1] >= 128)
    BY <1>2, <1>10, ShapedStart DEF ESC
  <2>2. CASE pos = 0
    <3>1. pos + 1 = 1 /\ 1 < n
      BY <2>1, <2>2, <1>3
    <3>2. b = ESC /\ ~(pos + 1 = n) /\ pos + 1 = 1
      <4>1. \A k \in Nat : 1 < k => ~(1 = k)
        OBVIOUS
      <4>2. ~(1 = n)
        BY <4>1, <3>1, <1>3, Zenon
      <4> QED
        BY <2>1, <3>1, <4>2
    <3>3. PICK u \in Seq(Byte) : Feed(b) = Idle(b, u)
      BY <1>2, <2>2, FirstByte
    <3>4. Feed(b) = Result("escaped", <<b>>, u, << >>)
      BY <3>2, <3>3, IdleLow
    <3>5. state' = "escaped" /\ buffer' = <<ESC>> /\ got' = << >>
      BY <3>2, <3>4, <1>6, <1>8
    <3>6. SubSeq(s, 1, 1) = <<ESC>>
      <4>1. 0 \in 0..Len(s) /\ 0 < Len(s) /\ 0 + 1 = 1
        BY <1>3
      <4>2. Append(SubSeq(s, 1, 0), s[1]) = SubSeq(s, 1, 1)
        BY <4>1, <1>3, Prefix
      <4>3. SubSeq(s, 1, 0) = << >>
        BY SubSeqEmpty
      <4>4. \A e : Append(<< >>, e) = <<e>>
        OBVIOUS
      <4> QED
        BY <4>2, <4>3, <4>4, <2>1
    <3> QED
      BY <3>2, <3>5, <3>6, <2>1, <1>1 DEF Inside
  <2>3. CASE pos > 0
    <3>1. Inside
      BY <2>3, <1>2, <1>3
    <3>2. state # "idle" /\ buffer = SubSeq(s, 1, pos) /\ ~quiet
      BY <3>1, <2>1, <2>3, <1>1 DEF Inside
    <3>3. Feed(b) = Step(b, state, SubSeq(s, 1, pos), utf8)
      BY <3>2 DEF Feed
    <3>4. pos \in 1..(n - 1) /\ Kept(state, SubSeq(s, 1, pos), utf8)
      BY <3>2, <2>3, <1>2, <1>3
    <3>5. /\ pos + 1 < n => /\ Feed(b).state # "idle" /\ Feed(b).buffer = SubSeq(s, 1, pos + 1)
                            /\ Feed(b).events = << >>
          /\ pos + 1 = n => Feed(b).events = <<IF IsCsi(s) THEN Sequence(s) ELSE Command(s)>>
      <4>1. LET r == Step(s[pos + 1], state, SubSeq(s, 1, pos), utf8) IN
            /\ pos + 1 < Len(s) => r.state # "idle" /\ r.buffer = SubSeq(s, 1, pos + 1) /\ r.events = << >>
            /\ pos + 1 = Len(s) => r.events = <<IF IsCsi(s) THEN Sequence(s) ELSE Command(s)>>
        <5>1. s \in Seq(Byte) /\ Len(s) <= Capacity /\ pos \in 1..(Len(s) - 1) /\ state # "idle"
          BY <3>2, <3>4, <1>3
        <5>2. Kept(state, SubSeq(s, 1, pos), utf8)
          BY <3>4
        <5> HIDE DEF s
        <5>3. IsCsi(s) \/ IsApc(s)
          BY <1>10
        <5> QED
          BY <5>1, <5>2, <5>3, SequenceStep
      <4> QED
        BY <4>1, <3>3
    <3>6. pos + 1 < n => Inside'
      <4>1. SUFFICES ASSUME pos + 1 < n
                     PROVE  Inside'
        OBVIOUS
      <4>2. state' # "idle" /\ buffer' = SubSeq(s, 1, pos + 1) /\ got' = << >>
        BY <4>1, <3>5, <1>5, <1>8
      <4> QED
        BY <4>2, <2>1, <1>1 DEF Inside
    <3>7. pos + 1 = n => Told'
      <4>1. SUFFICES ASSUME pos + 1 = n
                     PROVE  Told'
        OBVIOUS
      <4>2. (IF IsCsi(s) THEN Sequence(s) ELSE Command(s)) = item.event
        <5>1. ~(IsCsi(s) /\ IsApc(s))
          BY <1>2, ShapedStart
        <5>2. \A cp : ~IsCoded(s, cp)
          <6>1. SUFFICES ASSUME NEW cp, IsCoded(s, cp)
                         PROVE  FALSE
            OBVIOUS
          <6>2. CASE s = <<cp>>
            BY <6>2, <2>1
          <6>3. CASE s # <<cp>>
            <7>1. s[1] >= 194
              BY <6>1, <6>3, <1>2, ShapedStart
            <7> QED
              BY <7>1, <2>1 DEF ESC
          <6> QED
            BY <6>2, <6>3
        <5>3. s # <<XON>> /\ s # <<XOFF>>
          <6>1. \A e : ~(Len(<<e>>) > 3)
            OBVIOUS
          <6> QED
            BY <2>1, <6>1
        <5> QED
          BY <5>1, <5>2, <5>3, <1>2, <1>10 DEF Shaped
      <4>3. got' = <<item.event>>
        BY <4>1, <4>2, <3>5, <1>5, <1>7
      <4> QED
        BY <4>3, <2>1, <1>1 DEF Told
    <3> QED
      BY <3>6, <3>7
  <2> QED
    BY <2>2, <2>3, <1>3
<1>11. ASSUME NEW cp, IsCoded(s, cp), item.event = Typed(cp), s # <<cp>>
      PROVE  Goal
  <2>1. s[1] # ESC /\ s[1] >= 128 /\ n > 1
    <3>1. s[1] >= 194 /\ n > 1
      BY <1>2, <1>11, ShapedStart
    <3> QED
      BY <3>1, <1>3 DEF ESC
  <2>2. \E u \in Seq(Byte) : Feed(b) = Idle(b, u) /\ (IF partial THEN (u = << >>) <=> (pos > 0)
                                                               ELSE u = SubSeq(s, 1, pos))
    <3>1. CASE pos = 0
      <4>1. PICK u \in Seq(Byte) : Feed(b) = Idle(b, u) /\ (u # << >> <=> partial)
        BY <1>2, <3>1, FirstByte
      <4>2. SubSeq(s, 1, pos) = << >>
        BY <3>1, SubSeqEmpty
      <4> QED
        BY <4>1, <4>2, <3>1
    <3>2. CASE pos > 0
      <4>1. Inside
        BY <3>2, <1>2, <1>3
      <4>2. state = "idle" /\ utf8 = IF partial THEN << >> ELSE SubSeq(s, 1, pos)
        BY <4>1, <2>1 DEF Inside
      <4>3. Feed(b) = Idle(b, utf8) /\ utf8 \in Seq(Byte)
        BY <4>2, <1>2 DEF Feed, Step, Kept
      <4> QED
        BY <4>2, <4>3, <3>2
    <3> QED
      BY <3>1, <3>2, <1>3
  <2>3. PICK u \in Seq(Byte) : Feed(b) = Idle(b, u) /\ (IF partial THEN (u = << >>) <=> (pos > 0)
                                                                  ELSE u = SubSeq(s, 1, pos))
    BY <2>2
  <2>4. CASE partial
    <3>1. Feed(b) = Reset(<< >>)
      BY <2>3, <2>4, <1>3, <1>11, CharLost
    <3>2. state' = "idle" /\ utf8' = << >> /\ got' = << >>
      BY <3>1, <1>6, <1>8 DEF Reset
    <3>3. Inside' /\ Told'
      BY <3>2, <2>1, <2>4, <1>1 DEF Inside, Told
    <3> QED
      BY <3>3
  <2>5. CASE ~partial
    <3>1. /\ pos + 1 < n => Feed(b) = Result("idle", << >>, SubSeq(s, 1, pos + 1), << >>)
          /\ pos + 1 = n => Feed(b) = Reset(<<Typed(cp)>>)
      BY <2>3, <2>5, <1>3, <1>11, CharStep
    <3>2. pos + 1 < n => Inside'
      <4>1. SUFFICES ASSUME pos + 1 < n
                     PROVE  Inside'
        OBVIOUS
      <4>2. state' = "idle" /\ utf8' = SubSeq(s, 1, pos + 1) /\ got' = << >>
        BY <4>1, <3>1, <1>6, <1>8
      <4> QED
        BY <4>2, <2>1, <2>5, <1>1 DEF Inside
    <3>3. pos + 1 = n => Told'
      <4>1. SUFFICES ASSUME pos + 1 = n
                     PROVE  Told'
        OBVIOUS
      <4>2. got' = <<Typed(cp)>>
        BY <4>1, <3>1, <1>6, <1>7 DEF Reset
      <4> QED
        BY <4>2, <2>5, <1>1, <1>11 DEF Told
    <3> QED
      BY <3>2, <3>3
  <2> QED
    BY <2>4, <2>5
<1>12. ASSUME NEW c, s = <<c>>, c \in Nat, c < 128,
             \A u : \E st, v : Idle(c, u) = Result(st, << >>, v, <<item.event>>)
      PROVE  Goal
  <2>1. n = 1 /\ pos = 0 /\ s[1] = c /\ b = c /\ ~(s[1] >= 128)
    <3>1. Len(<<c>>) = 1 /\ <<c>>[1] = c
      OBVIOUS
    <3>2. n = 1 /\ s[1] = c
      BY <3>1, <1>12
    <3>3. pos = 0
      BY <3>2, <1>3
    <3> QED
      BY <3>2, <3>3, <1>12
  <2>2. PICK u \in Seq(Byte) : Feed(b) = Idle(b, u)
    BY <2>1, <1>2, FirstByte
  <2>3. PICK st, v : Feed(b) = Result(st, << >>, v, <<item.event>>)
    BY <2>1, <2>2, <1>12
  <2>4. got' = <<item.event>>
    BY <2>3, <1>6, <1>7
  <2>5. Told'
    BY <2>1, <2>4, <1>1 DEF Told
  <2> QED
    BY <2>1, <2>5
<1>13. ASSUME NEW cp, IsCoded(s, cp), item.event = Typed(cp), cp # ESC, cp # XON, cp # XOFF, s = <<cp>>
       PROVE  Goal
  <2>1. cp \in Nat /\ cp < 128
    BY <1>2, <1>13, ShapedStart
  <2>2. ASSUME NEW u
        PROVE  \E st, v : Idle(cp, u) = Result(st, << >>, v, <<item.event>>)
    BY <2>1, <1>13, IdleLow DEF Reset
  <2> QED
    BY <2>1, <2>2, <1>12, <1>13
<1>14. CASE s = <<XON>> /\ item.event = Flow("xon")
  <2>1. XON \in Nat /\ XON < 128
    BY DEF XON
  <2>2. ASSUME NEW u
        PROVE  \E st, v : Idle(XON, u) = Result(st, << >>, v, <<item.event>>)
    BY <1>14, IdleLow
  <2> QED
    BY <2>1, <2>2, <1>12, <1>14
<1>15. CASE s = <<XOFF>> /\ item.event = Flow("xoff")
  <2>1. XOFF \in Nat /\ XOFF < 128
    BY DEF XOFF
  <2>2. ASSUME NEW u
        PROVE  \E st, v : Idle(XOFF, u) = Result(st, << >>, v, <<item.event>>)
    BY <1>15, IdleLow
  <2> QED
    BY <2>1, <2>2, <1>12, <1>15
<1> QED
  <2> HIDE DEF Goal
  <2> QED
    BY <1>2, <1>10, <1>11, <1>13, <1>14, <1>15 DEF Shaped

-----------------------------------------------------------------------------
(* Numbers *)

\* f is the value of every prefix of s.
Values(f, s) ==
    f = [n \in 0..Len(s) |-> IF n = 0 THEN 0 ELSE 10 * f[n - 1] + (s[n] - 48)]

\* The value of a text is what any function of its prefixes gives.
LEMMA ValueIs ==
    ASSUME NEW s \in Seq(Int), NEW f, Values(f, s)
    PROVE  Value(s) = f[Len(s)]
<1> DEFINE value == CHOOSE it : Values(it, s)
<1>1. Values(value, s)
  OBVIOUS
<1>2. Value(s) = value[Len(s)]
  BY DEF Value, Values
<1> HIDE DEF value
<1>3. Len(s) \in Nat
  BY LenProperties
<1>4. f[0] = value[0]
  BY <1>1, <1>3 DEF Values
<1>5. ASSUME NEW n \in 1..Len(s), f[n - 1] = value[n - 1]
      PROVE  f[n] = value[n]
  <2>1. n \in 0..Len(s) /\ n # 0
    BY <1>3
  <2>2. f[n] = 10 * f[n - 1] + (s[n] - 48)
    BY <2>1 DEF Values
  <2>3. value[n] = 10 * value[n - 1] + (s[n] - 48)
    BY <2>1, <1>1 DEF Values
  <2> QED
    BY <1>5, <2>2, <2>3
<1>6. \A n \in 0..Len(s) : f[n] = value[n]
  BY <1>3, <1>4, <1>5, Agree
<1> QED
  BY <1>2, <1>3, <1>6

\* There is such a function.
LEMMA ValuesExist ==
    ASSUME NEW s \in Seq(Int)
    PROVE  \E f \in [0..Len(s) -> Int] : Values(f, s)
<1> DEFINE G == [n \in 1..Len(s) |-> [v \in Int |-> 10 * v + (s[n] - 48)]]
<1>1. Len(s) \in Nat /\ \A n \in 1..Len(s) : s[n] \in Int
  BY LenProperties, ElementOfSeq
<1>2. G \in [1..Len(s) -> [Int -> Int]]
  BY <1>1
<1>3. \A n \in 1..Len(s) : \A v \in Int : G[n][v] = 10 * v + (s[n] - 48)
  OBVIOUS
<1> HIDE DEF G
<1>4. PICK f \in [0..Len(s) -> Int] : Iterates(f, 0, G, Len(s))
  <2> DEFINE V == Int
             N == Len(s)
  <2>1. 0 \in V /\ N \in Nat /\ G \in [1..N -> [V -> V]]
    BY <1>1, <1>2
  <2> HIDE DEF V, N
  <2>2. \E f \in [0..N -> V] : Iterates(f, 0, G, N)
    BY <2>1, Iterate
  <2> QED
    BY <2>2 DEF V, N
<1>5. ASSUME NEW n \in 0..Len(s)
      PROVE  f[n] = IF n = 0 THEN 0 ELSE 10 * f[n - 1] + (s[n] - 48)
  <2>1. CASE n = 0
    BY <2>1, <1>4 DEF Iterates
  <2>2. CASE n # 0
    <3>1. n \in 1..Len(s) /\ n - 1 \in 0..Len(s)
      BY <2>2, <1>1
    <3> QED
      BY <3>1, <2>2, <1>3, <1>4 DEF Iterates
  <2> QED
    BY <2>1, <2>2
<1>6. Values(f, s)
  BY <1>5 DEF Values
<1> QED
  BY <1>6

\* A digit more.
LEMMA ValueAppend ==
    ASSUME NEW s \in Seq(Int), NEW d \in Int
    PROVE  Value(s) \in Int /\ Value(Append(s, d)) = 10 * Value(s) + (d - 48)
<1> DEFINE t == Append(s, d)
<1>1. PICK f \in [0..Len(s) -> Int] : Values(f, s)
  BY ValuesExist
<1>2. Len(s) \in Nat /\ t \in Seq(Int) /\ Len(t) = Len(s) + 1 /\ t[Len(s) + 1] = d
      /\ \A n \in 1..Len(s) : t[n] = s[n]
  BY AppendProperties, LenProperties
<1>3. Value(s) = f[Len(s)] /\ f[Len(s)] \in Int
  BY <1>1, <1>2, ValueIs
<1>4. \A n \in 0..Len(s) : f[n] = IF n = 0 THEN 0 ELSE 10 * f[n - 1] + (s[n] - 48)
  BY <1>1 DEF Values
<1> HIDE DEF t
<1> DEFINE g == [n \in 0..Len(t) |-> IF n <= Len(s) THEN f[n] ELSE 10 * f[Len(s)] + (d - 48)]
<1>5. ASSUME NEW n \in 0..Len(t)
      PROVE  g[n] = IF n = 0 THEN 0 ELSE 10 * g[n - 1] + (t[n] - 48)
  <2>1. CASE n = 0
    BY <2>1, <1>2, <1>4
  <2>2. CASE n # 0 /\ n <= Len(s)
    <3>1. n \in 0..Len(s) /\ n \in 1..Len(s) /\ n - 1 \in 0..Len(t) /\ n - 1 <= Len(s)
      BY <2>2, <1>2
    <3>2. g[n - 1] = f[n - 1] /\ g[n] = f[n] /\ t[n] = s[n]
      BY <2>2, <3>1, <1>2
    <3> QED
      BY <3>1, <3>2, <2>2, <1>4
  <2>3. CASE n # 0 /\ ~(n <= Len(s))
    <3>1. n = Len(s) + 1 /\ n - 1 = Len(s) /\ n - 1 \in 0..Len(t) /\ n - 1 <= Len(s)
      BY <2>3, <1>2
    <3>2. g[n - 1] = f[Len(s)] /\ g[n] = 10 * f[Len(s)] + (d - 48) /\ t[n] = d
      BY <2>3, <3>1, <1>2
    <3> QED
      BY <3>2, <2>3
  <2> QED
    BY <2>1, <2>2, <2>3
<1>6. Values(g, t)
  <2>1. g = [n \in 0..Len(t) |-> g[n]]
    OBVIOUS
  <2> HIDE DEF g
  <2> QED
    BY <1>5, <2>1 DEF Values
<1>7. Value(t) = g[Len(t)]
  <2> HIDE DEF g
  <2> QED
    BY <1>2, <1>6, ValueIs
<1>8. g[Len(t)] = 10 * f[Len(s)] + (d - 48)
  BY <1>2
<1> QED
  BY <1>3, <1>7, <1>8 DEF t

\* The value of one digit.
LEMMA ValueOfOne ==
    ASSUME NEW d \in Int
    PROVE  Value(<<d>>) = d - 48
<1>1. Value(<< >>) = 0
  <2> DEFINE f == [n \in 0..0 |-> 0]
  <2>1. << >> \in Seq(Int) /\ Len(<< >>) = 0
    OBVIOUS
  <2>2. Values(f, << >>)
    BY <2>1 DEF Values
  <2>3. f[0] = 0
    OBVIOUS
  <2> HIDE DEF f
  <2> QED
    BY <2>1, <2>2, <2>3, ValueIs
<1>2. Append(<< >>, d) = <<d>> /\ << >> \in Seq(Int)
  OBVIOUS
<1>3. Value(Append(<< >>, d)) = 10 * Value(<< >>) + (d - 48)
  BY <1>2, ValueAppend
<1>4. Value(<<d>>) = 10 * 0 + (d - 48)
  BY <1>1, <1>2, <1>3
<1> QED
  BY <1>4

\* What a number is written with, and what it is when it is read again.
Numeral(s, n) ==
    /\ s \in Seq(Int) /\ s # << >> /\ \A i \in 1..Len(s) : IsDigit(s[i])
    /\ Value(s) = n

\* f has the digits of every number up to n.
DigitsOf(f, n) ==
    f = [k \in 0..n |-> IF k < 10 THEN <<48 + k>> ELSE Append(f[k \div 10], 48 + (k % 10))]

\* There is such a function: it calls itself with a tenth only.
LEMMA DigitsExist ==
    ASSUME NEW n \in Nat
    PROVE  \E f : DigitsOf(f, n)
<1> DEFINE S == 0..n
           V == Seq(Int)
           Rule(k, f) == IF k < 10 THEN <<48 + k>> ELSE Append(f[k \div 10], 48 + (k % 10))
           G == [k \in S |-> [f \in [S -> V] |-> Rule(k, f)]]
           m == [k \in S |-> k]
<1>1. \A k \in S : k >= 10 => k \div 10 \in S /\ k \div 10 < k /\ 48 + (k % 10) \in Int
  OBVIOUS
<1>2. ASSUME NEW k \in S, NEW f \in [S -> V]
      PROVE  Rule(k, f) \in V
  <2>1. CASE k < 10
    <3>1. 48 + k \in Int
      OBVIOUS
    <3> QED
      BY <2>1, <3>1
  <2>2. CASE ~(k < 10)
    <3>1. f[k \div 10] \in V /\ 48 + (k % 10) \in Int
      BY <1>1, <2>2
    <3>2. Append(f[k \div 10], 48 + (k % 10)) \in V
      BY <3>1, AppendProperties
    <3> QED
      BY <2>2, <3>2
  <2> QED
    BY <2>1, <2>2
<1>3. ASSUME NEW k \in S, NEW f \in [S -> V], NEW g \in [S -> V],
             \A j \in S : m[j] < m[k] => f[j] = g[j]
      PROVE  Rule(k, f) = Rule(k, g)
  <2>1. CASE ~(k < 10)
    <3>1. k \div 10 \in S /\ m[k \div 10] < m[k]
      BY <1>1, <2>1
    <3>2. f[k \div 10] = g[k \div 10]
      BY <3>1, <1>3
    <3> QED
      BY <3>2
  <2> QED
    BY <2>1
<1>4. Bounded(m, S)
  BY DEF Bounded
<1>5. V # {}
  <2>1. << >> \in V
    OBVIOUS
  <2> QED
    BY <2>1
<1>6. Solvable(G, S, V)
  <2> HIDE DEF m, Rule, S, V
  <2>1. \A k \in S : \A f \in [S -> V] : G[k][f] = Rule(k, f)
    OBVIOUS
  <2> HIDE DEF G
  <2>2. Defines(G, m, S, V)
    BY <1>2, <1>3, <2>1 DEF Defines
  <2> QED
    BY <1>4, <1>5, <2>2, Recursion
<1>7. PICK f \in [S -> V] : \A k \in S : f[k] = Rule(k, f)
  <2> HIDE DEF Rule, S, V
  <2>1. PICK f \in [S -> V] : \A k \in S : f[k] = G[k][f]
    BY <1>6 DEF Solvable
  <2>2. \A k \in S : f[k] = Rule(k, f)
    BY <2>1
  <2> QED
    BY <2>2
<1>8. f = [k \in 0..n |-> f[k]]
  OBVIOUS
<1>9. \A k \in 0..n : f[k] = IF k < 10 THEN <<48 + k>> ELSE Append(f[k \div 10], 48 + (k % 10))
  BY <1>7
<1> HIDE DEF Rule, S, V
<1> QED
  BY <1>8, <1>9 DEF DigitsOf

\* Decimal writes a number that Value reads, and a small one as one digit.
LEMMA DecimalIs ==
    ASSUME NEW n \in Nat
    PROVE  Numeral(Decimal(n), n) /\ (n < 10 => Decimal(n) = <<48 + n>>)
<1> DEFINE digits == CHOOSE it : DigitsOf(it, n)
           Bad == {k \in 0..n : ~Numeral(digits[k], k)}
<1>1. DigitsOf(digits, n)
  BY DigitsExist
<1>2. Decimal(n) = digits[n]
  BY DEF Decimal, DigitsOf
<1> HIDE DEF digits
<1>3. \A k \in 0..n :
         digits[k] = IF k < 10 THEN <<48 + k>> ELSE Append(digits[k \div 10], 48 + (k % 10))
  BY <1>1 DEF DigitsOf
<1>4. Bad = {}
  <2>1. SUFFICES ASSUME Bad # {}
                 PROVE  FALSE
    OBVIOUS
  <2>2. Bad \subseteq Nat
    OBVIOUS
  <2> HIDE DEF Bad
  <2>3. PICK k \in Bad : \A j \in Bad : k <= j
    BY <2>1, <2>2, LeastNat
  <2>4. k \in 0..n /\ ~Numeral(digits[k], k)
    BY <2>3 DEF Bad
  <2>5. CASE k < 10
    <3>1. 48 + k \in Int
      BY <2>4
    <3>2. digits[k] = <<48 + k>> /\ 48 + k \in Int
      BY <2>4, <2>5, <3>1, <1>3
    <3>3. Value(<<48 + k>>) = k
      <4>1. Value(<<48 + k>>) = (48 + k) - 48
        BY <3>2, ValueOfOne
      <4> QED
        BY <4>1, <2>4
    <3>4. IsDigit(48 + k)
      BY <2>4, <2>5 DEF IsDigit
    <3>5. <<48 + k>> \in Seq(Int) /\ <<48 + k>> # << >> /\ \A i \in 1..Len(<<48 + k>>) : <<48 + k>>[i] = 48 + k
      BY <3>2
    <3> QED
      BY <3>2, <3>3, <3>4, <3>5, <2>4 DEF Numeral
  <2>6. CASE ~(k < 10)
    <3>1. k \div 10 \in 0..n /\ ~(k <= k \div 10) /\ k % 10 \in 0..9 /\ k = 10 * (k \div 10) + (k % 10)
      BY <2>4, <2>6
    <3> DEFINE t == digits[k \div 10]
               d == 48 + (k % 10)
    <3>2. Numeral(t, k \div 10)
      BY <2>3, <3>1 DEF Bad
    <3>3. digits[k] = Append(t, d)
      BY <2>4, <2>6, <1>3
    <3>4. d \in Int /\ IsDigit(d)
      BY <3>1 DEF IsDigit
    <3>5. Value(Append(t, d)) = k
      <4>1. t \in Seq(Int) /\ Value(t) = k \div 10
        BY <3>2 DEF Numeral
      <4>2. Value(Append(t, d)) = 10 * Value(t) + (d - 48)
        BY <4>1, <3>4, ValueAppend
      <4> QED
        BY <4>1, <4>2, <3>1
    <3>6. Numeral(Append(t, d), k)
      <4> HIDE DEF t, d
      <4>1. /\ Append(t, d) \in Seq(Int) /\ Append(t, d) # << >> /\ Len(Append(t, d)) = Len(t) + 1
            /\ \A i \in 1..Len(t) : Append(t, d)[i] = t[i]
            /\ Append(t, d)[Len(t) + 1] = d /\ Len(t) \in Nat
        BY <3>2, <3>4, AppendProperties, LenProperties DEF Numeral
      <4>2. ASSUME NEW i \in 1..Len(Append(t, d))
            PROVE  IsDigit(Append(t, d)[i])
        <5>1. i \in 1..Len(t) \/ i = Len(t) + 1
          BY <4>1
        <5> QED
          BY <5>1, <4>1, <3>2, <3>4 DEF Numeral
      <4> QED
        BY <4>1, <4>2, <3>5 DEF Numeral
    <3> QED
      BY <2>4, <3>3, <3>6
  <2> QED
    BY <2>5, <2>6
<1>5. n \in 0..n
  OBVIOUS
<1> QED
  BY <1>2, <1>3, <1>4, <1>5

\* Hence it is read as it was written.
LEMMA ParseDecimal ==
    ASSUME NEW n \in Nat, NEW largest \in Nat, n <= largest
    PROVE  Parse(Decimal(n), largest) = n
<1> DEFINE s == Decimal(n)
<1>1. s \in Seq(Int) /\ s # << >> /\ (\A i \in 1..Len(s) : IsDigit(s[i])) /\ Value(s) = n
  BY DecimalIs DEF Numeral
<1>2. DOMAIN s = 1..Len(s) /\ 1 \in 1..Len(s)
  BY <1>1, LenProperties, EmptySeq
<1>3. s[1] # Plus
  <2>1. IsDigit(s[1])
    BY <1>1, <1>2
  <2> QED
    BY <2>1 DEF IsDigit, Plus
<1> HIDE DEF s
<1>4. Parse(s, largest) = n
  BY <1>1, <1>2, <1>3 DEF Parse
<1> QED
  BY <1>4 DEF s

-----------------------------------------------------------------------------
(* Lists of parts *)

\* Lists of parts are never empty.
Lists == Seq(Seq(Byte)) \ {<< >>}

\* A byte more makes of the parts
Parted(v, b, sep) ==
    IF b = sep THEN Append(v, << >>) ELSE [v EXCEPT ![Len(v)] = Append(@, b)]

\* f has the parts of every prefix of s.
Parts(f, s, sep) ==
    f = [n \in 0..Len(s) |-> IF n = 0 THEN << << >> >> ELSE Parted(f[n - 1], s[n], sep)]

\* The parts of a text are what any function of its prefixes gives.
LEMMA SplitIs ==
    ASSUME NEW s \in Seq(Byte), NEW sep, NEW f, Parts(f, s, sep)
    PROVE  Split(s, sep) = f[Len(s)]
<1> DEFINE parts == CHOOSE it : Parts(it, s, sep)
<1>1. Parts(parts, s, sep)
  OBVIOUS
<1>2. Split(s, sep) = parts[Len(s)]
  <2>1. Split(s, sep) = (CHOOSE it : it = [n \in 0..Len(s) |->
                              IF n = 0 THEN << << >> >>
                              ELSE IF s[n] = sep THEN Append(it[n - 1], << >>)
                              ELSE [it[n - 1] EXCEPT ![Len(it[n - 1])] = Append(@, s[n])]])[Len(s)]
    BY DEF Split
  <2> QED
    BY <2>1 DEF Parts, Parted
<1> HIDE DEF parts
<1>3. Len(s) \in Nat
  BY LenProperties
<1>4. f[0] = parts[0]
  BY <1>1, <1>3 DEF Parts
<1>5. ASSUME NEW n \in 1..Len(s), f[n - 1] = parts[n - 1]
      PROVE  f[n] = parts[n]
  <2>1. n \in 0..Len(s) /\ n # 0
    BY <1>3
  <2>2. f[n] = Parted(f[n - 1], s[n], sep)
    BY <2>1 DEF Parts
  <2>3. parts[n] = Parted(parts[n - 1], s[n], sep)
    BY <2>1, <1>1 DEF Parts
  <2> QED
    BY <1>5, <2>2, <2>3
<1>6. \A n \in 0..Len(s) : f[n] = parts[n]
  BY <1>3, <1>4, <1>5, Agree
<1> QED
  BY <1>2, <1>3, <1>6

\* A byte more leaves at least one part.
LEMMA PartedType ==
    ASSUME NEW v \in Lists, NEW b \in Byte, NEW sep
    PROVE  Parted(v, b, sep) \in Lists
<1>1. v \in Seq(Seq(Byte)) /\ v # << >> /\ Len(v) \in 1..Len(v)
  BY EmptySeq, LenProperties DEF Lists
<1>2. CASE b = sep
  <2>1. << >> \in Seq(Byte)
    BY EmptySeq
  <2>2. Append(v, << >>) \in Seq(Seq(Byte)) /\ Append(v, << >>) # << >>
    BY <1>1, <2>1, AppendProperties
  <2> QED
    BY <1>2, <2>2 DEF Parted, Lists
<1>3. CASE b # sep
  <2>1. Append(v[Len(v)], b) \in Seq(Byte)
    BY <1>1, ElementOfSeq, AppendProperties
  <2> DEFINE e == Append(v[Len(v)], b)
             w == [v EXCEPT ![Len(v)] = e]
  <2>2. Parted(v, b, sep) = w
    BY <1>3 DEF Parted
  <2>3. w \in Seq(Seq(Byte)) /\ Len(w) = Len(v)
    <3> HIDE DEF e
    <3>1. e \in Seq(Byte)
      BY <2>1 DEF e
    <3> QED
      BY <3>1, <1>1, ExceptSeq
  <2>4. w # << >>
    <3> HIDE DEF w
    <3>1. Len(w) \in 1..Len(w)
      BY <2>3, <1>1
    <3> QED
      BY <3>1
  <2> QED
    BY <2>2, <2>3, <2>4 DEF Lists
<1> QED
  BY <1>2, <1>3

\* There is such a function.
LEMMA PartsExist ==
    ASSUME NEW s \in Seq(Byte), NEW sep
    PROVE  \E f \in [0..Len(s) -> Lists] : Parts(f, s, sep)
<1> DEFINE N == Len(s)
           G == [n \in 1..N |-> [v \in Lists |-> Parted(v, s[n], sep)]]
           first == << << >> >>
<1>1. N \in Nat /\ \A n \in 1..N : s[n] \in Byte
  BY LenProperties, ElementOfSeq
<1>2. G \in [1..N -> [Lists -> Lists]]
  BY <1>1, PartedType
<1>3. \A n \in 1..N : \A v \in Lists : G[n][v] = Parted(v, s[n], sep)
  OBVIOUS
<1>4. first \in Lists
  <2>1. << >> \in Seq(Byte)
    BY EmptySeq
  <2>2. << << >> >> \in Seq(Seq(Byte)) /\ << << >> >> # << >>
    BY <2>1
  <2> QED
    BY <2>2 DEF Lists
<1> HIDE DEF G, N, first
<1>5. PICK f \in [0..N -> Lists] : Iterates(f, first, G, N)
  BY <1>1, <1>2, <1>4, Iterate
<1>6. ASSUME NEW n \in 0..N
      PROVE  f[n] = IF n = 0 THEN first ELSE Parted(f[n - 1], s[n], sep)
  <2>1. CASE n = 0
    BY <2>1, <1>5 DEF Iterates
  <2>2. CASE n # 0
    <3>1. n \in 1..N /\ n - 1 \in 0..N
      BY <2>2, <1>1
    <3>2. f[n - 1] \in Lists /\ f[n] = G[n][f[n - 1]]
      BY <3>1, <1>5 DEF Iterates
    <3> QED
      BY <3>1, <3>2, <2>2, <1>3
  <2> QED
    BY <2>1, <2>2
<1>7. f = [n \in 0..N |-> f[n]]
  OBVIOUS
<1>8. Parts(f, s, sep)
  BY <1>6, <1>7 DEF Parts, N, first
<1> QED
  BY <1>8 DEF N

\* One part before the others.
LEMMA Behind ==
    ASSUME NEW a \in Seq(Byte), NEW v \in Lists
    PROVE  /\ <<a>> \o v \in Lists /\ Len(v) \in Nat /\ Len(v) > 0 /\ Len(<<a>> \o v) = Len(v) + 1
           /\ (<<a>> \o v)[1] = a
           /\ \A i \in 1..Len(v) : (<<a>> \o v)[i + 1] = v[i]
<1>1. v \in Seq(Seq(Byte)) /\ Len(v) \in Nat \ {0}
  BY EmptySeq DEF Lists
<1>2. <<a>> \in Seq(Seq(Byte)) /\ Len(<<a>>) = 1 /\ <<a>>[1] = a
  OBVIOUS
<1> DEFINE w == <<a>> \o v
<1>3. /\ w \in Seq(Seq(Byte)) /\ Len(w) = 1 + Len(v)
      /\ \A i \in 1..(1 + Len(v)) : w[i] = IF i <= 1 THEN <<a>>[i] ELSE v[i - 1]
  BY <1>1, <1>2, ConcatProperties
<1> HIDE DEF w
<1>4. w[1] = a
  BY <1>1, <1>2, <1>3
<1>5. ASSUME NEW i \in 1..Len(v)
      PROVE  w[i + 1] = v[i]
  <2>1. i + 1 \in 1..(1 + Len(v)) /\ ~(i + 1 <= 1) /\ (i + 1) - 1 = i
    BY <1>1
  <2> QED
    BY <2>1, <1>3
<1>6. w # << >>
  <2>1. Len(w) > 0 /\ Len(<< >>) = 0
    BY <1>1, <1>3
  <2> QED
    BY <2>1
<1> QED
  BY <1>1, <1>3, <1>4, <1>5, <1>6 DEF w, Lists

\* A byte more changes the last part, whatever stands before.
LEMMA PartedBehind ==
    ASSUME NEW a \in Seq(Byte), NEW v \in Lists, NEW b \in Byte, NEW sep
    PROVE  Parted(<<a>> \o v, b, sep) = <<a>> \o Parted(v, b, sep)
<1> DEFINE w == <<a>> \o v
           x == Parted(v, b, sep)
           y == Parted(w, b, sep)
           z == <<a>> \o x
<1>1. /\ w \in Lists /\ Len(v) \in Nat /\ Len(v) > 0 /\ Len(w) = Len(v) + 1 /\ w[1] = a
      /\ \A i \in 1..Len(v) : w[i + 1] = v[i]
  BY Behind
<1>2. x \in Lists /\ y \in Lists
  BY <1>1, PartedType
<1>3. /\ z \in Lists /\ Len(x) \in Nat /\ Len(z) = Len(x) + 1 /\ z[1] = a
      /\ \A i \in 1..Len(x) : z[i + 1] = x[i]
  BY <1>2, Behind
<1>4. v \in Seq(Seq(Byte)) /\ w \in Seq(Seq(Byte)) /\ << >> \in Seq(Byte)
  BY <1>1, EmptySeq DEF Lists
<1>5. CASE b = sep
  <2>1. x = Append(v, << >>) /\ y = Append(w, << >>)
    BY <1>5 DEF Parted
  <2> HIDE DEF w
  <2>2. Len(x) = Len(v) + 1 /\ x[Len(v) + 1] = << >> /\ \A i \in 1..Len(v) : x[i] = v[i]
    BY <2>1, <1>4, AppendProperties
  <2>3. Len(y) = Len(w) + 1 /\ y[Len(w) + 1] = << >> /\ \A i \in 1..Len(w) : y[i] = w[i]
    BY <2>1, <1>4, AppendProperties
  <2> HIDE DEF w, x, y, z
  <2>4. Len(y) = Len(z)
    BY <1>1, <1>3, <2>2, <2>3
  <2>5. ASSUME NEW i \in 1..Len(y)
        PROVE  y[i] = z[i]
    <3>1. CASE i = 1
      BY <3>1, <1>1, <1>3, <2>3
    <3>2. CASE i \in 2..(Len(v) + 1)
      <4>1. i - 1 \in 1..Len(v) /\ (i - 1) + 1 = i /\ i - 1 \in 1..Len(x) /\ i \in 1..Len(w)
        BY <3>2, <1>1, <2>2
      <4>2. y[i] = w[i] /\ w[i] = v[i - 1] /\ z[i] = x[i - 1] /\ x[i - 1] = v[i - 1]
        BY <4>1, <1>1, <1>3, <2>2, <2>3
      <4> QED
        BY <4>2
    <3>3. CASE i = Len(v) + 2
      <4>1. i - 1 \in 1..Len(x) /\ (i - 1) + 1 = i /\ i - 1 = Len(v) + 1 /\ i = Len(w) + 1
        BY <3>3, <1>1, <2>2
      <4>2. z[i] = x[i - 1]
        BY <4>1, <1>3
      <4> QED
        BY <4>1, <4>2, <2>2, <2>3
    <3>4. i = 1 \/ i \in 2..(Len(v) + 1) \/ i = Len(v) + 2
      BY <1>1, <2>3
    <3> QED
      BY <3>1, <3>2, <3>3, <3>4
  <2>6. y \in Seq(Seq(Byte)) /\ z \in Seq(Seq(Byte))
    BY <1>2, <1>3 DEF Lists
  <2>7. y = z
    BY <2>4, <2>5, <2>6, SeqEqual
  <2> QED
    BY <2>7 DEF w, x, y, z
<1>6. CASE b # sep
  <2> DEFINE e == Append(v[Len(v)], b)
  <2>1. w[Len(w)] = v[Len(v)] /\ e \in Seq(Byte)
    <3>1. Len(v) \in 1..Len(v)
      BY <1>1
    <3> QED
      BY <3>1, <1>1, <1>4, ElementOfSeq, AppendProperties
  <2>2. x = [v EXCEPT ![Len(v)] = e] /\ y = [w EXCEPT ![Len(w)] = e]
    BY <1>6, <2>1 DEF Parted
  <2>3. \A u \in Seq(Seq(Byte)), e2 \in Seq(Byte), i \in Nat :
          LET n == [u EXCEPT ![i] = e2]
          IN  i \in 1..Len(u) => /\ Len(n) = Len(u)
                                 /\ \A j \in 1..Len(u) : n[j] = IF j = i THEN e2 ELSE u[j]
    BY ExceptSeq
  <2> HIDE DEF e, w, x, y, z
  <2>4. Len(v) \in 1..Len(v) /\ Len(w) \in 1..Len(w) /\ Len(v) \in Nat /\ Len(w) \in Nat
    BY <1>1
  <2>5. Len(x) = Len(v) /\ \A i \in 1..Len(v) : x[i] = IF i = Len(v) THEN e ELSE v[i]
    BY <2>1, <2>2, <2>3, <2>4, <1>4
  <2>6. Len(y) = Len(w) /\ \A i \in 1..Len(w) : y[i] = IF i = Len(w) THEN e ELSE w[i]
    BY <2>1, <2>2, <2>3, <2>4, <1>4
    <2>7. Len(y) = Len(z)
    BY <1>1, <1>3, <2>5, <2>6
  <2>8. ASSUME NEW i \in 1..Len(y)
        PROVE  y[i] = z[i]
    <3>1. CASE i = 1
      <4>1. y[1] = w[1]
        BY <3>1, <1>1, <2>6
      <4> QED
        BY <3>1, <4>1, <1>1, <1>3
    <3>2. CASE i # 1
      <4>1. i - 1 \in 1..Len(v) /\ (i - 1) + 1 = i /\ i - 1 \in 1..Len(x) /\ i \in 1..Len(w)
            /\ (i = Len(w) <=> i - 1 = Len(v))
        BY <3>2, <1>1, <2>5, <2>6
      <4>2. w[i] = v[i - 1] /\ z[i] = x[i - 1]
        BY <4>1, <1>1, <1>3
      <4>3. x[i - 1] = IF i - 1 = Len(v) THEN e ELSE v[i - 1]
        BY <4>1, <2>5
      <4>4. y[i] = IF i = Len(w) THEN e ELSE w[i]
        BY <4>1, <2>6
      <4> QED
        BY <4>1, <4>2, <4>3, <4>4
    <3> QED
      BY <3>1, <3>2
  <2>9. y \in Seq(Seq(Byte)) /\ z \in Seq(Seq(Byte))
    BY <1>2, <1>3 DEF Lists
  <2>10. y = z
    BY <2>7, <2>8, <2>9, SeqEqual
  <2> QED
    BY <2>10 DEF w, x, y, z
<1> QED
  BY <1>5, <1>6

\* A text without the separator is one part.
LEMMA SplitNone ==
    ASSUME NEW a \in Seq(Byte), NEW sep, \A i \in 1..Len(a) : a[i] # sep
    PROVE  Split(a, sep) = <<a>>
<1> DEFINE f == [n \in 0..Len(a) |-> <<SubSeq(a, 1, n)>>]
<1>1. Len(a) \in Nat
  BY LenProperties
<1>2. ASSUME NEW n \in 0..Len(a)
      PROVE  f[n] = IF n = 0 THEN << << >> >> ELSE Parted(f[n - 1], a[n], sep)
  <2>1. CASE n = 0
    <3>1. SubSeq(a, 1, 0) = << >>
      BY SubSeqEmpty
    <3> QED
      BY <2>1, <3>1
  <2>2. CASE n # 0
    <3> DEFINE k == n - 1
               p == SubSeq(a, 1, k)
    <3>1. k \in 0..Len(a) /\ k < Len(a) /\ k + 1 = n /\ n \in 1..Len(a)
      BY <2>2, <1>1
    <3>2. Append(p, a[n]) = SubSeq(a, 1, n)
      BY <3>1, Prefix
    <3>3. f[k] = <<p>> /\ f[n] = <<SubSeq(a, 1, n)>>
      BY <3>1
    <3>4. Len(<<p>>) = 1 /\ <<p>>[1] = p
      OBVIOUS
    <3>5. Parted(<<p>>, a[n], sep) = [<<p>> EXCEPT ![1] = Append(p, a[n])]
      BY <3>1, <3>4 DEF Parted
    <3>6. \A x, y : [<<x>> EXCEPT ![1] = y] = <<y>>
      OBVIOUS
    <3> QED
      BY <2>2, <3>2, <3>3, <3>5, <3>6
  <2> QED
    BY <2>1, <2>2
<1>3. f = [n \in 0..Len(a) |-> f[n]]
  OBVIOUS
<1>4. f[Len(a)] = <<a>>
  BY <1>1, SubSeqFull
<1> HIDE DEF f
<1>5. Parts(f, a, sep)
  BY <1>2, <1>3 DEF Parts
<1> QED
  BY <1>4, <1>5, SplitIs

\* The first part ends with the separator, the rest is split as before.
LEMMA SplitOne ==
    ASSUME NEW a \in Seq(Byte), NEW c \in Seq(Byte), NEW sep \in Byte, \A i \in 1..Len(a) : a[i] # sep
    PROVE  Split(a \o <<sep>> \o c, sep) = <<a>> \o Split(c, sep) /\ Split(c, sep) \in Lists
<1> DEFINE s == a \o <<sep>> \o c
           A == Len(a)
           C == Len(c)
           N == Len(s)
<1>1. A \in Nat /\ C \in Nat /\ s \in Seq(Byte) /\ N = A + 1 + C
      /\ (\A i \in 1..A : s[i] = a[i]) /\ s[A + 1] = sep /\ \A i \in 1..C : s[A + 1 + i] = c[i]
  <2> DEFINE t == a \o <<sep>>
  <2>2. /\ t \in Seq(Byte) /\ A \in Nat /\ Len(t) = A + 1
        /\ (\A i \in 1..A : t[i] = a[i]) /\ t[A + 1] = sep
    BY JoinedOne
  <2> HIDE DEF t
  <2>3. /\ t \o c \in Seq(Byte) /\ C \in Nat /\ Len(t \o c) = Len(t) + C
        /\ (\A i \in 1..Len(t) : (t \o c)[i] = t[i])
        /\ \A i \in 1..C : (t \o c)[Len(t) + i] = c[i]
    <3>1. t \in Seq(Byte)
      BY <2>2
    <3> HIDE DEF s
    <3> QED
      BY <3>1, Joined
  <2>4. s = t \o c
    BY DEF t
  <2> HIDE DEF s
  <2>5. (\A i \in 1..A : i \in 1..(A + 1)) /\ A + 1 \in 1..(A + 1)
    BY <2>2
  <2> QED
    BY <2>2, <2>3, <2>4, <2>5
<1>2. PICK g \in [0..C -> Lists] : Parts(g, c, sep)
  BY PartsExist
<1>3. Split(c, sep) = g[C] /\ g[C] \in Lists
  BY <1>1, <1>2, SplitIs
<1> HIDE DEF s, N
<1> DEFINE f == [n \in 0..N |-> IF n <= A THEN <<SubSeq(a, 1, n)>> ELSE <<a>> \o g[n - (A + 1)]]
<1>4. ASSUME NEW n \in 0..N
      PROVE  f[n] = IF n = 0 THEN << << >> >> ELSE Parted(f[n - 1], s[n], sep)
  <2>1. CASE n = 0
    <3>1. SubSeq(a, 1, 0) = << >> /\ 0 <= A
      BY <1>1, SubSeqEmpty
    <3> QED
      BY <2>1, <3>1
  <2>2. CASE n # 0 /\ n <= A
    <3> DEFINE k == n - 1
               p == SubSeq(a, 1, k)
    <3>1. k \in 0..A /\ k < A /\ k + 1 = n /\ n \in 1..A /\ k \in 0..N /\ k <= A
      BY <2>2, <1>1
    <3>2. Append(p, a[n]) = SubSeq(a, 1, n)
      BY <3>1, Prefix
    <3>3. f[k] = <<p>> /\ f[n] = <<SubSeq(a, 1, n)>> /\ s[n] = a[n] /\ s[n] # sep
      BY <3>1, <2>2, <1>1
    <3>4. Len(<<p>>) = 1 /\ <<p>>[1] = p
      OBVIOUS
    <3>5. Parted(<<p>>, s[n], sep) = [<<p>> EXCEPT ![1] = Append(p, s[n])]
      BY <3>3, <3>4 DEF Parted
    <3>6. \A x, y : [<<x>> EXCEPT ![1] = y] = <<y>>
      OBVIOUS
    <3> QED
      BY <2>2, <3>2, <3>3, <3>5, <3>6
  <2>3. CASE n = A + 1
    <3>1. n - 1 = A /\ A \in 0..N /\ ~(n <= A) /\ n - (A + 1) = 0 /\ n # 0 /\ 0 \in 0..C /\ A <= A
      BY <2>3, <1>1
    <3>2. f[A] = <<SubSeq(a, 1, A)>> /\ f[n] = <<a>> \o g[0]
      BY <3>1
    <3>3. SubSeq(a, 1, A) = a
      BY SubSeqFull
    <3>4. g[0] = << << >> >>
      BY <3>1, <1>2 DEF Parts
    <3>5. Parted(<<a>>, sep, sep) = Append(<<a>>, << >>)
      BY DEF Parted
    <3>6. \A x, y : Append(<<x>>, y) = <<x>> \o <<y>>
      OBVIOUS
    <3>7. f[n] = <<a>> \o << << >> >> /\ f[n - 1] = <<a>>
      BY <3>1, <3>2, <3>3, <3>4
    <3>8. s[n] = sep
      BY <2>3, <1>1
    <3> HIDE DEF f
    <3> QED
      BY <3>1, <3>5, <3>6, <3>7, <3>8
  <2>4. CASE n > A + 1
    <3> DEFINE m == n - (A + 1)
    <3>1. A \in Nat /\ C \in Nat /\ n \in Int /\ n <= A + 1 + C /\ N = A + 1 + C
      BY <1>1
    <3> HIDE DEF A, C
    <3>2. m \in Int /\ 1 <= m /\ m <= C
      BY <3>1, <2>4
    <3>3. n - 1 \in 0..N /\ ~(n <= A) /\ ~(n - 1 <= A) /\ n # 0
      BY <3>1, <2>4
    <3>4. (n - 1) - (A + 1) = m - 1 /\ A + 1 + m = n
      BY <3>1
    <3>5. /\ m \in 1..C /\ m - 1 \in 0..C /\ m \in 0..C /\ n - 1 \in 0..N /\ ~(n <= A) /\ ~(n - 1 <= A)
          /\ (n - 1) - (A + 1) = m - 1 /\ A + 1 + m = n /\ n # 0 /\ m # 0
      <4> HIDE DEF m
      <4> QED
        BY <3>1, <3>2, <3>3, <3>4
    <3> USE DEF A, C
    <3>6. f[n] = <<a>> \o g[m] /\ f[n - 1] = <<a>> \o g[m - 1]
      BY <3>5
    <3>7. s[n] = c[m] /\ c[m] \in Byte
      BY <3>5, <1>1, ElementOfSeq
    <3>8. g[m] = Parted(g[m - 1], c[m], sep) /\ g[m - 1] \in Lists
      BY <3>5, <1>2 DEF Parts
    <3>9. Parted(<<a>> \o g[m - 1], c[m], sep) = <<a>> \o Parted(g[m - 1], c[m], sep)
      BY <3>7, <3>8, PartedBehind
    <3> HIDE DEF f
    <3> QED
      BY <3>5, <3>6, <3>7, <3>8, <3>9
  <2>5. n = 0 \/ (n # 0 /\ n <= A) \/ n = A + 1 \/ n > A + 1
    BY <1>1
  <2> QED
    BY <2>1, <2>2, <2>3, <2>4, <2>5
<1>5. f = [n \in 0..N |-> f[n]]
  OBVIOUS
<1>6. f[N] = <<a>> \o g[C]
  <2>1. N \in 0..N /\ ~(N <= A) /\ N - (A + 1) = C
    BY <1>1
  <2> QED
    BY <2>1
<1> HIDE DEF f
<1>7. Parts(f, s, sep)
  BY <1>4, <1>5 DEF Parts, N
<1>8. Split(s, sep) = f[N]
  BY <1>1, <1>7, SplitIs DEF N
<1> QED
  BY <1>3, <1>6, <1>8 DEF s

-----------------------------------------------------------------------------
(* What an item is made of *)

\* What lies between the head and the tail of a sequence.
LEMMA Framed ==
    ASSUME NEW h \in Seq(Byte), NEW m \in Seq(Byte), NEW t \in Seq(Byte)
    PROVE  LET w == h \o m \o t IN
           /\ w \in Seq(Byte) /\ Len(w) = Len(h) + Len(m) + Len(t)
           /\ Len(h) \in Nat /\ Len(m) \in Nat /\ Len(t) \in Nat
           /\ SubSeq(w, Len(h) + 1, Len(h) + Len(m)) = m
           /\ \A i \in 1..Len(h) : w[i] = h[i]
           /\ \A i \in 1..Len(m) : w[Len(h) + i] = m[i]
           /\ \A i \in 1..Len(t) : w[Len(h) + Len(m) + i] = t[i]
<1> DEFINE u == h \o m
           w == u \o t
           H == Len(h)
           M == Len(m)
           T == Len(t)
<1>1. /\ u \in Seq(Byte) /\ H \in Nat /\ M \in Nat /\ Len(u) = H + M
      /\ (\A i \in 1..H : u[i] = h[i]) /\ \A i \in 1..M : u[H + i] = m[i]
  BY Joined
<1> HIDE DEF u
<1>2. /\ w \in Seq(Byte) /\ T \in Nat /\ Len(w) = Len(u) + T
      /\ (\A i \in 1..Len(u) : w[i] = u[i]) /\ \A i \in 1..T : w[Len(u) + i] = t[i]
  <2>1. u \in Seq(Byte)
    BY <1>1
  <2> QED
    BY <2>1, Joined
<1> HIDE DEF w
<1>3. \A i \in 1..H : i \in 1..Len(u)
  BY <1>1
<1>4. \A i \in 1..M : H + i \in 1..Len(u)
  BY <1>1
<1>5. (\A i \in 1..H : w[i] = h[i]) /\ \A i \in 1..M : w[H + i] = m[i]
  BY <1>1, <1>2, <1>3, <1>4
<1>6. \A i \in 1..T : w[H + M + i] = t[i]
  BY <1>1, <1>2
<1>7. w \in Seq(Byte) /\ Len(w) = H + M + T
  BY <1>1, <1>2
<1>8. SubSeq(w, H + 1, H + M) = m
  <2> DEFINE v == SubSeq(w, H + 1, H + M)
  <2>1. \A i \in (H + 1)..(H + M) : w[i] \in Byte
    <3>1. \A i \in (H + 1)..(H + M) : i \in 1..Len(w)
      BY <1>1, <1>2
    <3> QED
      BY <3>1, <1>2, ElementOfSeq
  <2>2. /\ v \in Seq(Byte) /\ Len(v) = IF H + 1 <= H + M THEN (H + M) - (H + 1) + 1 ELSE 0
        /\ \A i \in 1..((H + M) - (H + 1) + 1) : v[i] = w[(H + 1) + i - 1]
    <3>1. H + 1 \in Int /\ H + M \in Int
      BY <1>1
    <3> QED
      BY <2>1, <3>1, SubSeqProperties
  <2> HIDE DEF v
  <2>3. Len(v) = M
    BY <2>2, <1>1
  <2>4. \A i \in 1..M : v[i] = m[i]
    <3>1. \A i \in 1..M : i \in 1..((H + M) - (H + 1) + 1) /\ (H + 1) + i - 1 = H + i
      BY <1>1
    <3> QED
      BY <3>1, <2>2, <1>5
  <2>5. v = m
    BY <2>2, <2>3, <2>4, SeqEqual
  <2> QED
    BY <2>5 DEF v
<1> QED
  BY <1>1, <1>2, <1>5, <1>6, <1>7, <1>8 DEF w, u

\* The parameters of a control sequence: bytes below its final one.
Low(s) == s \in Seq(Byte) /\ \A i \in 1..Len(s) : s[i] < 64

\* Parameters joined are parameters.
LEMMA LowJoined ==
    ASSUME NEW s, NEW t, Low(s), Low(t)
    PROVE  Low(s \o t)
<1> DEFINE w == s \o t
           N == Len(s)
           M == Len(t)
<1>1. /\ w \in Seq(Byte) /\ N \in Nat /\ M \in Nat /\ Len(w) = N + M
      /\ (\A i \in 1..N : w[i] = s[i]) /\ \A i \in 1..M : w[N + i] = t[i]
  BY Joined DEF Low
<1> HIDE DEF w
<1>2. ASSUME NEW i \in 1..Len(w)
      PROVE  w[i] < 64
  <2>1. CASE i \in 1..N
    BY <2>1, <1>1 DEF Low
  <2>2. CASE i > N
    <3>1. i - N \in 1..M /\ N + (i - N) = i
      BY <2>2, <1>1
    <3>2. w[N + (i - N)] = t[i - N]
      BY <3>1, <1>1
    <3> QED
      BY <3>1, <3>2 DEF Low
  <2> QED
    BY <2>1, <2>2, <1>1
<1> QED
  BY <1>1, <1>2 DEF w, Low

\* A single one.
LEMMA LowOne ==
    ASSUME NEW b \in Byte, b < 64
    PROVE  Low(<<b>>)
<1>1. <<b>> \in Seq(Byte) /\ Len(<<b>>) = 1 /\ <<b>>[1] = b
  OBVIOUS
<1> QED
  BY <1>1 DEF Low

\* The numbers of an item are digits.
LEMMA DecimalText ==
    ASSUME NEW n \in Nat
    PROVE  /\ Low(Decimal(n)) /\ Decimal(n) # << >>
           /\ \A i \in 1..Len(Decimal(n)) : Decimal(n)[i] # Semicolon /\ Decimal(n)[i] # Colon
<1> DEFINE s == Decimal(n)
<1>1. s \in Seq(Int) /\ s # << >> /\ \A i \in 1..Len(s) : IsDigit(s[i])
  BY DecimalIs DEF Numeral
<1> HIDE DEF s
<1>2. \A b : IsDigit(b) => b \in 0..255 /\ b < 64 /\ b # Semicolon /\ b # Colon
  BY DEF IsDigit, Semicolon, Colon
<1>3. s \in Seq(Byte)
  <2>1. Len(s) \in Nat /\ s \in [1..Len(s) -> Int]
    BY <1>1, LenProperties
  <2>2. \A i \in 1..Len(s) : s[i] \in Byte
    BY <1>1, <1>2 DEF Byte
  <2>3. s \in [1..Len(s) -> Byte]
    BY <2>1, <2>2
  <2> QED
    BY <2>1, <2>3
<1> QED
  BY <1>1, <1>2, <1>3 DEF s, Low

\* The modifiers of a key are the bits of their sum.
LEMMA KeyFlags ==
    ASSUME NEW mods, mods \subseteq DOMAIN KeyMods
    PROVE  Sum(mods, KeyMods) \in 0..15 /\ Flags(Sum(mods, KeyMods), KeyMods) = mods
<1> DEFINE of(name) == IF name \in mods THEN KeyMods[name] ELSE 0
           s == Sum(mods, KeyMods)
<1>1. DOMAIN KeyMods = {"shift", "alt", "ctrl", "meta"}
      /\ KeyMods["shift"] = 1 /\ KeyMods["alt"] = 2 /\ KeyMods["ctrl"] = 4 /\ KeyMods["meta"] = 8
  BY DEF KeyMods
<1>2. /\ of("shift") = IF "shift" \in mods THEN 1 ELSE 0
      /\ of("alt") = IF "alt" \in mods THEN 2 ELSE 0
      /\ of("ctrl") = IF "ctrl" \in mods THEN 4 ELSE 0
      /\ of("meta") = IF "meta" \in mods THEN 8 ELSE 0
  BY <1>1
<1>3. s = of("shift") + of("alt") + of("ctrl") + of("meta")
  BY DEF Sum
<1> HIDE DEF of, s
<1>4. ASSUME NEW a \in {0, 1}, NEW b \in {0, 2}, NEW c \in {0, 4}, NEW d \in {0, 8}
      PROVE  LET n == a + b + c + d IN
             /\ n \in 0..15
             /\ Bit(n, 1) <=> a = 1
             /\ Bit(n, 2) <=> b = 2
             /\ Bit(n, 4) <=> c = 4
             /\ Bit(n, 8) <=> d = 8
  BY DEF Bit
<1>5. of("shift") \in {0, 1} /\ of("alt") \in {0, 2} /\ of("ctrl") \in {0, 4} /\ of("meta") \in {0, 8}
  BY <1>2
<1>6. /\ s \in 0..15
      /\ Bit(s, 1) <=> of("shift") = 1
      /\ Bit(s, 2) <=> of("alt") = 2
      /\ Bit(s, 4) <=> of("ctrl") = 4
      /\ Bit(s, 8) <=> of("meta") = 8
  BY <1>3, <1>4, <1>5
<1>7. /\ Bit(s, 1) <=> "shift" \in mods
      /\ Bit(s, 2) <=> "alt" \in mods
      /\ Bit(s, 4) <=> "ctrl" \in mods
      /\ Bit(s, 8) <=> "meta" \in mods
  BY <1>6, <1>2
<1>8. \A name \in DOMAIN KeyMods : Bit(s, KeyMods[name]) <=> name \in mods
  BY <1>1, <1>7
<1>9. Flags(s, KeyMods) = mods
  BY <1>8 DEF Flags
<1> QED
  BY <1>6, <1>9 DEF s

\* The flags of a mouse report: its button, its modifiers, whether it moves.
LEMMA MouseFlags ==
    ASSUME NEW mods, mods \subseteq DOMAIN MouseMods, NEW button \in DOMAIN Buttons, NEW moves \in {0, 32}
    PROVE  LET n == Buttons[button] + Sum(mods, MouseMods) + moves IN
           /\ n \in Nat /\ n < 256
           /\ Flags(n, MouseMods) = mods
           /\ Button(n) = button
           /\ Bit(n, 32) <=> moves = 32
<1> DEFINE of(name) == IF name \in mods THEN MouseMods[name] ELSE 0
           s == Sum(mods, MouseMods)
           o == Buttons[button]
           n == o + s + moves
<1>1. DOMAIN MouseMods = {"shift", "alt", "ctrl"}
      /\ MouseMods["shift"] = 4 /\ MouseMods["alt"] = 8 /\ MouseMods["ctrl"] = 16
  BY DEF MouseMods
<1>2. /\ of("shift") = IF "shift" \in mods THEN 4 ELSE 0
      /\ of("alt") = IF "alt" \in mods THEN 8 ELSE 0
      /\ of("ctrl") = IF "ctrl" \in mods THEN 16 ELSE 0
      /\ of("meta") = 0
  BY <1>1
<1>3. s = of("shift") + of("alt") + of("ctrl") + of("meta")
  BY DEF Sum
<1>4. \/ button = "left" /\ o = 0
      \/ button = "middle" /\ o = 1
      \/ button = "right" /\ o = 2
      \/ button = "up" /\ o = 64
      \/ button = "down" /\ o = 65
  BY DEF Buttons
<1> HIDE DEF of, s, o
<1>5. ASSUME NEW e \in {0, 1, 2, 64, 65}, NEW a \in {0, 4}, NEW b \in {0, 8}, NEW c \in {0, 16}, NEW d \in {0, 32}
      PROVE  LET k == e + a + b + c + d IN
             /\ k \in Nat /\ k < 256
             /\ Bit(k, 4) <=> a = 4
             /\ Bit(k, 8) <=> b = 8
             /\ Bit(k, 16) <=> c = 16
             /\ Bit(k, 32) <=> d = 32
             /\ Bit(k, 64) <=> (e = 64 \/ e = 65)
             /\ (e = 0 \/ e = 64) => k % 4 = 0
             /\ (e = 1 \/ e = 65) => k % 4 = 1
             /\ e = 2 => k % 4 = 2
  BY DEF Bit
<1>6. /\ of("shift") \in {0, 4} /\ of("alt") \in {0, 8} /\ of("ctrl") \in {0, 16} /\ o \in {0, 1, 2, 64, 65}
      /\ n = o + of("shift") + of("alt") + of("ctrl") + moves
  BY <1>2, <1>3, <1>4
<1> HIDE DEF n
<1>7. /\ n \in Nat /\ n < 256
      /\ Bit(n, 4) <=> of("shift") = 4
      /\ Bit(n, 8) <=> of("alt") = 8
      /\ Bit(n, 16) <=> of("ctrl") = 16
      /\ Bit(n, 32) <=> moves = 32
      /\ Bit(n, 64) <=> (o = 64 \/ o = 65)
      /\ (o = 0 \/ o = 64) => n % 4 = 0
      /\ (o = 1 \/ o = 65) => n % 4 = 1
      /\ o = 2 => n % 4 = 2
  BY <1>5, <1>6
<1>8. /\ Bit(n, 4) <=> "shift" \in mods
      /\ Bit(n, 8) <=> "alt" \in mods
      /\ Bit(n, 16) <=> "ctrl" \in mods
  BY <1>7, <1>2
<1>9. \A name \in DOMAIN MouseMods : Bit(n, MouseMods[name]) <=> name \in mods
  BY <1>1, <1>8
<1>10. Flags(n, MouseMods) = mods
  BY <1>9 DEF Flags
<1>11. /\ button = "left" => ~Bit(n, 64) /\ n % 4 = 0 /\ ~(n % 4 = 1) /\ ~(n % 4 = 2)
       /\ button = "middle" => ~Bit(n, 64) /\ n % 4 = 1 /\ ~(n % 4 = 0) /\ ~(n % 4 = 2)
       /\ button = "right" => ~Bit(n, 64) /\ n % 4 = 2 /\ ~(n % 4 = 0) /\ ~(n % 4 = 1)
       /\ button = "up" => Bit(n, 64) /\ n % 4 = 0 /\ ~(n % 4 = 1)
       /\ button = "down" => Bit(n, 64) /\ n % 4 = 1 /\ ~(n % 4 = 0)
  BY <1>4, <1>7
<1>12. Button(n) = button
  <2> DEFINE low == n % 4
  <2>1. Button(n) = CASE ~Bit(n, 64) /\ low = 0 -> "left"   [] ~Bit(n, 64) /\ low = 1 -> "middle"
                      [] ~Bit(n, 64) /\ low = 2 -> "right"  [] Bit(n, 64) /\ low = 0 -> "up"
                      [] Bit(n, 64) /\ low = 1 -> "down"    [] OTHER -> "none"
    BY DEF Button
  <2> HIDE DEF low
  <2>2. CASE button = "left"
    BY <2>1, <2>2, <1>11, Zenon DEF low
  <2>3. CASE button = "middle"
    BY <2>1, <2>3, <1>11, Zenon DEF low
  <2>4. CASE button = "right"
    BY <2>1, <2>4, <1>11, Zenon DEF low
  <2>5. CASE button = "up"
    BY <2>1, <2>5, <1>11, Zenon DEF low
  <2>6. CASE button = "down"
    BY <2>1, <2>6, <1>11, Zenon DEF low
  <2> QED
    BY <1>4, <2>2, <2>3, <2>4, <2>5, <2>6
<1> QED
  BY <1>7, <1>10, <1>12 DEF n, o, s

\* What a byte more makes of the character that is being read.
OneMore(u, b) ==
    LET bad == <<-1>>
        longer == Append(u, b)
    IN  CASE u = bad -> bad
          [] u = << >> /\ b < 128 -> << >>
          [] u = << >> /\ b >= 128 -> IF CharLength(b) = 0 THEN bad ELSE longer
          [] OTHER -> CASE Utf8(longer) = "ok"   -> << >>
                        [] Utf8(longer) = "more" -> longer
                        [] Utf8(longer) = "bad"  -> bad

\* f has the open character behind every prefix of s.
Open(f, s) == f = [n \in 0..Len(s) |-> IF n = 0 THEN << >> ELSE OneMore(f[n - 1], s[n])]

\* An ASCII text is valid.
LEMMA AsciiIsUtf8 ==
    ASSUME NEW s \in Seq(Byte), \A i \in 1..Len(s) : s[i] < 128
    PROVE  IsUtf8(s)
<1> DEFINE char == CHOOSE it : Open(it, s)
           f == [n \in 0..Len(s) |-> << >>]
<1>1. Len(s) \in Nat /\ \A i \in 1..Len(s) : s[i] \in Nat
  BY LenProperties, ElementOfSeq, ByteNat
<1>2. ASSUME NEW i \in 1..Len(s)
      PROVE  OneMore(<< >>, s[i]) = << >>
  <2>1. << >> # <<-1>>
    OBVIOUS
  <2>2. s[i] < 128 /\ ~(s[i] >= 128)
    BY <1>1
  <2> DEFINE b == s[i]
  <2> HIDE DEF b
  <2>3. b < 128 /\ ~(b >= 128)
    BY <2>2 DEF b
  <2>4. OneMore(<< >>, b) = << >>
    BY <2>1, <2>3, Zenon DEF OneMore
  <2> QED
    BY <2>4 DEF b
<1>3. Open(f, s)
  <2>1. ASSUME NEW n \in 0..Len(s), n # 0
        PROVE  n \in 1..Len(s) /\ n - 1 \in 0..Len(s)
    BY <1>1, <2>1
  <2>2. \A n \in 0..Len(s) : f[n] = IF n = 0 THEN << >> ELSE OneMore(f[n - 1], s[n])
    BY <1>2, <2>1
  <2> QED
    BY <2>2 DEF Open
<1>4. Open(char, s)
  BY <1>3
<1>5. IsUtf8(s) <=> char[Len(s)] = << >>
  BY DEF IsUtf8, Open, OneMore
<1> HIDE DEF char, f
<1>6. f[0] = char[0]
  BY <1>1, <1>3, <1>4 DEF Open
<1>7. ASSUME NEW n \in 1..Len(s), f[n - 1] = char[n - 1]
      PROVE  f[n] = char[n]
  <2>1. n \in 0..Len(s) /\ n # 0
    BY <1>1
  <2>2. f[n] = OneMore(f[n - 1], s[n])
    BY <2>1, <1>3 DEF Open
  <2>3. char[n] = OneMore(char[n - 1], s[n])
    BY <2>1, <1>4 DEF Open
  <2> QED
    BY <1>7, <2>2, <2>3
<1>8. \A n \in 0..Len(s) : f[n] = char[n]
  BY <1>1, <1>6, <1>7, Agree
<1>9. f[Len(s)] = << >>
  BY <1>1 DEF f
<1> QED
  BY <1>1, <1>5, <1>8, <1>9

\* A text without a separator.
Free(s, sep) == \A i \in 1..Len(s) : s[i] # sep

\* Texts without a separator, joined, have none.
LEMMA FreeJoined ==
    ASSUME NEW s \in Seq(Byte), NEW t \in Seq(Byte), NEW sep, Free(s, sep), Free(t, sep)
    PROVE  Free(s \o t, sep)
<1> DEFINE w == s \o t
           N == Len(s)
           M == Len(t)
<1>1. /\ w \in Seq(Byte) /\ N \in Nat /\ M \in Nat /\ Len(w) = N + M
      /\ (\A i \in 1..N : w[i] = s[i]) /\ \A i \in 1..M : w[N + i] = t[i]
  BY Joined
<1> HIDE DEF w
<1>2. ASSUME NEW i \in 1..Len(w)
      PROVE  w[i] # sep
  <2>1. CASE i \in 1..N
    BY <2>1, <1>1 DEF Free
  <2>2. CASE i > N
    <3>1. i - N \in 1..M /\ N + (i - N) = i
      BY <2>2, <1>1
    <3>2. w[N + (i - N)] = t[i - N]
      BY <3>1, <1>1
    <3> QED
      BY <3>1, <3>2 DEF Free
  <2> QED
    BY <2>1, <2>2, <1>1
<1> QED
  BY <1>2 DEF w, Free

\* A byte that is no separator.
LEMMA FreeOne ==
    ASSUME NEW b \in Byte, NEW sep, b # sep
    PROVE  Free(<<b>>, sep)
BY DEF Free

\* The parts of a sequence can be read together.
Regrouped(h, a, p, d, c, k) == h \o a \o p \o d \o c \o k = h \o (a \o p \o (d \o c \o k))

\* Concatenation is associative.
LEMMA Regroup ==
    ASSUME NEW h \in Seq(Byte), NEW a \in Seq(Byte), NEW p \in Seq(Byte),
           NEW d \in Seq(Byte), NEW c \in Seq(Byte), NEW k \in Seq(Byte)
    PROVE  Regrouped(h, a, p, d, c, k)
<1>1. PICK x \in Seq(Byte) : x = a \o p
  BY ConcatProperties
<1>2. PICK y \in Seq(Byte) : y = d \o c
  BY ConcatProperties
<1>3. (h \o a) \o p = h \o (a \o p)
  BY SMTT(30)
<1>4. (x \o d) \o c = x \o (d \o c)
  BY SMTT(30)
<1>5. (x \o y) \o k = x \o (y \o k)
  BY SMTT(30)
<1>6. (h \o x) \o d = h \o (x \o d)
  BY SMTT(30)
<1>7. PICK z \in Seq(Byte) : z = x \o d
  BY ConcatProperties
<1>8. (h \o z) \o c = h \o (z \o c)
  BY SMTT(30)
<1>9. PICK v \in Seq(Byte) : v = x \o y
  BY ConcatProperties
<1>10. (h \o v) \o k = h \o (v \o k)
  BY SMTT(30)
<1>11. h \o a \o p \o d \o c \o k = h \o x \o d \o c \o k
  BY <1>1, <1>3, Zenon
<1>12. h \o x \o d \o c \o k = h \o z \o c \o k
  BY <1>6, <1>7, Zenon
<1>13. z \o c = v
  BY <1>2, <1>4, <1>7, <1>9, Zenon
<1>14. h \o z \o c \o k = h \o v \o k
  BY <1>8, <1>13, Zenon
<1>15. v \o k = a \o p \o (d \o c \o k)
  BY <1>1, <1>2, <1>5, <1>9, Zenon
<1> QED
  BY <1>10, <1>11, <1>12, <1>14, <1>15, Zenon DEF Regrouped

\* The parts of two numbers, and of three.
LEMMA TwoParts ==
    ASSUME NEW a \in Seq(Byte), NEW c \in Seq(Byte), NEW sep \in Byte, Free(a, sep), Free(c, sep)
    PROVE  Split(a \o <<sep>> \o c, sep) = <<a, c>>
<1>1. Split(a \o <<sep>> \o c, sep) = <<a>> \o Split(c, sep)
  BY SplitOne DEF Free
<1>2. Split(c, sep) = <<c>>
  BY SplitNone DEF Free
<1>3. <<a>> \o <<c>> = <<a, c>>
  BY Tuples
<1> QED
  BY <1>1, <1>2, <1>3

\* Three numbers with two separators have three parts.
LEMMA ThreeParts ==
    ASSUME NEW a \in Seq(Byte), NEW b \in Seq(Byte), NEW c \in Seq(Byte), NEW sep \in Byte,
           Free(a, sep), Free(b, sep), Free(c, sep)
    PROVE  Split(a \o <<sep>> \o (b \o <<sep>> \o c), sep) = <<a, b, c>>
<1> DEFINE d == b \o <<sep>> \o c
<1>1. d \in Seq(Byte)
  <2>1. <<sep>> \in Seq(Byte)
    OBVIOUS
  <2> QED
    BY <2>1, ConcatProperties
<1>2. Split(d, sep) = <<b, c>>
  BY TwoParts
<1> HIDE DEF d
<1>3. Split(a \o <<sep>> \o d, sep) = <<a>> \o Split(d, sep)
  BY <1>1, SplitOne DEF Free
<1>4. <<a>> \o <<b, c>> = <<a, b, c>>
  BY Tuples
<1> QED
  BY <1>2, <1>3, <1>4 DEF d

-----------------------------------------------------------------------------
(* Items *)

\* A control sequence: its parameters between ESC [ and its final byte.
LEMMA CsiOf ==
    ASSUME NEW m, Low(m), m # << >>, NEW f \in Byte, IsFinal(f)
    PROVE  LET s == <<ESC, 91>> \o m \o <<f>> IN
           /\ s \in Seq(Byte) /\ IsCsi(s) /\ Len(s) \in Nat /\ Len(s) > 3 /\ s[Len(s)] = f
           /\ s[3] = m[1] /\ SubSeq(s, 3, Len(s) - 1) = m
<1> DEFINE h == <<ESC, 91>>
           t == <<f>>
           s == h \o m \o t
           n == Len(s)
           M == Len(m)
<1>1. h \in Seq(Byte) /\ Len(h) = 2 /\ h[1] = ESC /\ h[2] = 91
  BY DEF ESC, Byte
<1>2. t \in Seq(Byte) /\ Len(t) = 1 /\ t[1] = f
  OBVIOUS
<1>3. m \in Seq(Byte)
  BY DEF Low
<1> HIDE DEF h, t
<1>4. /\ s \in Seq(Byte) /\ n = Len(h) + M + Len(t) /\ M \in Nat /\ M > 0
      /\ SubSeq(s, Len(h) + 1, Len(h) + M) = m
      /\ \A i \in 1..Len(h) : s[i] = h[i]
      /\ \A i \in 1..M : s[Len(h) + i] = m[i]
      /\ \A i \in 1..Len(t) : s[Len(h) + M + i] = t[i]
  <2>1. h \in Seq(Byte) /\ t \in Seq(Byte)
    BY <1>1, <1>2
  <2>2. M \in Nat /\ M > 0
    BY <1>3, EmptySeq
  <2>3. /\ s \in Seq(Byte) /\ n = Len(h) + M + Len(t)
        /\ SubSeq(s, Len(h) + 1, Len(h) + M) = m
        /\ \A i \in 1..Len(h) : s[i] = h[i]
        /\ \A i \in 1..M : s[Len(h) + i] = m[i]
        /\ \A i \in 1..Len(t) : s[Len(h) + M + i] = t[i]
    BY <2>1, <1>3, Framed
  <2> HIDE DEF s, n, M
  <2> QED
    BY <2>2, <2>3
<1> HIDE DEF s, M, n
<1>5. n = M + 3 /\ n \in Nat /\ n > 3 /\ 2 + M + 1 = n /\ 2 + M = n - 1
  BY <1>1, <1>2, <1>4
<1>6. s[1] = ESC /\ s[2] = 91 /\ s[3] = m[1] /\ s[n] = f
  <2>1. 1 \in 1..Len(h) /\ 2 \in 1..Len(h) /\ 1 \in 1..M /\ 1 \in 1..Len(t)
    BY <1>1, <1>2, <1>4
  <2>2. s[1] = h[1] /\ s[2] = h[2] /\ s[Len(h) + 1] = m[1] /\ s[Len(h) + M + 1] = t[1]
    BY <2>1, <1>4
  <2>3. Len(h) + 1 = 3 /\ Len(h) + M + 1 = n
    BY <1>1, <1>5
  <2> QED
    BY <2>2, <2>3, <1>1, <1>2
<1>7. SubSeq(s, 3, n - 1) = m
  BY <1>1, <1>4, <1>5
<1>8. ASSUME NEW i \in 3..(n - 1)
      PROVE  ~IsFinal(s[i])
  <2>1. i - 2 \in 1..M /\ 2 + (i - 2) = i
    BY <1>4, <1>5
  <2>2. s[2 + (i - 2)] = m[i - 2] /\ m[i - 2] < 64 /\ m[i - 2] \in Byte
    BY <2>1, <1>1, <1>3, <1>4, ElementOfSeq DEF Low, M
  <2>3. m[i - 2] \in Nat
    BY <2>2, ByteNat
  <2> QED
    BY <2>1, <2>2, <2>3 DEF IsFinal
<1>9. IsCsi(s)
  <2>1. n = Len(s)
    BY DEF n
  <2> QED
    BY <2>1, <1>5, <1>6, <1>8 DEF IsCsi
<1> QED
  BY <1>4, <1>5, <1>6, <1>7, <1>9 DEF s, n, h, t

\* Parameters are ASCII.
LEMMA LowNat ==
    ASSUME NEW m, Low(m)
    PROVE  IsUtf8(m)
<1>1. m \in Seq(Byte) /\ \A i \in 1..Len(m) : m[i] < 64 /\ m[i] \in Nat
  BY LenProperties, ElementOfSeq, ByteNat DEF Low
<1>2. \A i \in 1..Len(m) : m[i] < 128
  BY <1>1
<1> QED
  BY <1>1, <1>2, AsciiIsUtf8

\* The phase of a key that a report's last number names.
Phase(k) == IF k = <<50>> THEN "repeat" ELSE IF k = <<51>> THEN "release" ELSE "press"

\* What a key of the Kitty protocol says.
LEMMA KittySays ==
    ASSUME NEW data, NEW seq, IsUtf8(seq), NEW a, NEW d, NEW k, NEW sub,
           Split(seq, Semicolon) = <<a, sub>>, Split(sub, Colon) = <<d, k>>,
           NEW cp \in Nat, IsChar(cp), Parse(a, MaxU32) = cp,
           NEW s \in Nat, Parse(d, MaxU32) = 1 + s,
           NEW kind, kind = Phase(k)
    PROVE  ParseKitty(seq, data) = Key(cp, Flags(s, KeyMods), kind)
<1> DEFINE parts == Split(seq, Semicolon)
           two == Split(sub, Colon)
<1>1. parts[1] = a /\ parts[2] = sub /\ Len(parts) = 2
  OBVIOUS
<1>2. two[1] = d /\ two[2] = k /\ Len(two) = 2
  OBVIOUS
<1>3. cp # -1 /\ ~(1 + s < 1) /\ (1 + s) - 1 = s
  OBVIOUS
<1> DEFINE mods == Parse(two[1], MaxU32)
           code == Parse(parts[1], MaxU32)
           what == IF Len(two) > 1 /\ two[2] = <<50>> THEN "repeat"
                   ELSE IF Len(two) > 1 /\ two[2] = <<51>> THEN "release" ELSE "press"
<1>4. mods = 1 + s /\ ~(mods < 1) /\ mods - 1 = s
  BY <1>2, <1>3
<1>5. code = cp /\ Split(parts[2], Colon) = two
  BY <1>1
<1>6. what = kind
  BY <1>2 DEF Phase
<1>7. ParseKitty(seq, data) =
          IF ~IsUtf8(seq) \/ code = -1 \/ ~IsChar(code) THEN Unknown(data)
          ELSE IF Len(parts) = 1 THEN Typed(code)
          ELSE Key(code, IF mods < 1 THEN {} ELSE Flags(mods - 1, KeyMods), what)
  <2> HIDE DEF two
  <2> QED
    BY <1>5 DEF ParseKitty
<1>8. ~(Len(parts) = 1)
  BY <1>1
<1> HIDE DEF mods, code, what, two, parts
<1> QED
  BY <1>3, <1>4, <1>5, <1>6, <1>7, <1>8

\* A number of the protocols is read as it was written.
LEMMA NumberRead ==
    ASSUME NEW n \in Nat, n < 1114112
    PROVE  Parse(Decimal(n), MaxU32) = n
<1>1. MaxU32 \in Nat /\ n <= MaxU32
  BY DEF MaxU32
<1> QED
  BY <1>1, ParseDecimal

\* A key of the Kitty protocol gives its event.
LEMMA KittyShape ==
    ASSUME NEW cp, IsChar(cp), NEW mods, mods \subseteq DOMAIN KeyMods, NEW kind \in DOMAIN KeyKinds
    PROVE  Shaped(KittyItem(cp, mods, kind))
<1> DEFINE s == Sum(mods, KeyMods)
           a == Decimal(cp)
           d == Decimal(1 + s)
           k == Decimal(KeyKinds[kind])
           p == <<Semicolon>>
           c == <<Colon>>
           h == <<ESC, 91>>
           f == 117
           sub == d \o c \o k
           m == a \o p \o sub
           i == KittyItem(cp, mods, kind)
<1>1. cp \in Nat /\ cp < 1114112
  BY DEF IsChar
<1>2. s \in Nat /\ 1 + s \in Nat /\ 1 + s < 1114112 /\ Flags(s, KeyMods) = mods
  BY KeyFlags
<1>3. \/ kind = "press" /\ KeyKinds[kind] = 1
      \/ kind = "repeat" /\ KeyKinds[kind] = 2
      \/ kind = "release" /\ KeyKinds[kind] = 3
  BY DEF KeyKinds
<1>4. KeyKinds[kind] \in Nat /\ KeyKinds[kind] < 10
  BY <1>3
<1>5. k = <<48 + KeyKinds[kind]>>
  BY <1>4, DecimalIs
<1>6. kind = Phase(k)
  <2>1. kind = "press" => k[1] = 49
    BY <1>3, <1>5
  <2>2. kind = "repeat" => k = <<50>>
    BY <1>3, <1>5
  <2>3. kind = "release" => k = <<51>>
    BY <1>3, <1>5
  <2>4. <<50>>[1] = 50 /\ <<51>>[1] = 51
    OBVIOUS
  <2> HIDE DEF k
  <2>5. kind = "press" => k # <<50>> /\ k # <<51>>
    BY <2>1, <2>4
  <2>6. <<50>> # <<51>>
    BY <2>4
  <2> QED
    BY <1>3, <2>2, <2>3, <2>5, <2>6 DEF Phase
<1> HIDE DEF s
<1>7. /\ Low(a) /\ a # << >> /\ Free(a, Semicolon)
      /\ Low(d) /\ d # << >> /\ Free(d, Semicolon) /\ Free(d, Colon)
      /\ Low(k) /\ k # << >> /\ Free(k, Semicolon) /\ Free(k, Colon)
  BY <1>1, <1>2, <1>4, DecimalText DEF Free
<1>8. Low(p) /\ Low(c) /\ Free(c, Semicolon) /\ Semicolon \in Byte /\ Colon \in Byte
  BY LowOne, FreeOne DEF Semicolon, Colon, Byte
<1> HIDE DEF a, d, k, p, c
<1>9. Low(sub)
  BY <1>7, <1>8, LowJoined
<1>10. Free(sub, Semicolon)
  <2>1. d \in Seq(Byte) /\ c \in Seq(Byte) /\ k \in Seq(Byte)
    BY <1>7, <1>8 DEF Low
  <2>2. Free(d \o c, Semicolon) /\ d \o c \in Seq(Byte)
    BY <2>1, <1>7, <1>8, FreeJoined, Joined
  <2> QED
    BY <2>1, <2>2, <1>7, FreeJoined
<1>11. Split(sub, Colon) = <<d, k>>
  <2>1. d \in Seq(Byte) /\ k \in Seq(Byte)
    BY <1>7 DEF Low
  <2> QED
    BY <2>1, <1>7, <1>8, TwoParts DEF c
<1> HIDE DEF sub
<1>12. Split(m, Semicolon) = <<a, sub>>
  <2>1. a \in Seq(Byte) /\ sub \in Seq(Byte)
    BY <1>7, <1>9 DEF Low
  <2> QED
    BY <2>1, <1>7, <1>8, <1>10, TwoParts DEF p
<1>13. Low(m) /\ m # << >>
  <2>1. Low(a \o p) /\ a \in Seq(Byte) /\ p \in Seq(Byte) /\ sub \in Seq(Byte)
    BY <1>7, <1>8, <1>9, LowJoined DEF Low
  <2>2. Low(m)
    BY <2>1, <1>9, LowJoined
  <2>3. a \o p # << >> /\ a \o p \in Seq(Byte)
    BY <2>1, <1>7, ConcatEqualIffEmpty, ConcatProperties
  <2>4. m # << >>
    <3> DEFINE x == a \o p
    <3> HIDE DEF x
    <3>1. x \in Seq(Byte) /\ x # << >> /\ sub \in Seq(Byte)
      BY <2>1, <2>3 DEF x
    <3>2. x \o sub # << >>
      BY <3>1, ConcatEqualIffEmpty
    <3> QED
      BY <3>2 DEF x
  <2> QED
    BY <2>2, <2>4
<1> HIDE DEF m
<1>14. IsUtf8(m)
  BY <1>13, LowNat
<1>15. Parse(a, MaxU32) = cp /\ Parse(d, MaxU32) = 1 + s
  BY <1>1, <1>2, NumberRead DEF a, d
<1>16. ASSUME NEW data
       PROVE  ParseKitty(m, data) = Key(cp, mods, kind)
  <2>1. ParseKitty(m, data) = Key(cp, Flags(s, KeyMods), kind)
    BY <1>1, <1>2, <1>6, <1>11, <1>12, <1>14, <1>15, KittySays
  <2> QED
    BY <2>1, <1>2
<1> DEFINE b == h \o m \o <<f>>
<1>17. f \in Byte /\ IsFinal(f)
  BY DEF Byte, IsFinal
<1>18. /\ b \in Seq(Byte) /\ IsCsi(b) /\ Len(b) \in Nat /\ Len(b) > 3 /\ b[Len(b)] = f
       /\ SubSeq(b, 3, Len(b) - 1) = m
  <2> HIDE DEF f
  <2> QED
    BY <1>13, <1>17, CsiOf
<1>19. i.bytes = h \o a \o p \o d \o c \o k \o <<f>> /\ i.event = Key(cp, mods, kind)
  BY DEF KittyItem, a, d, k, p, c, s
<1>20. i.bytes = b
  <2>1. a \in Seq(Byte) /\ p \in Seq(Byte) /\ d \in Seq(Byte) /\ c \in Seq(Byte) /\ k \in Seq(Byte)
    BY <1>7, <1>8 DEF Low
  <2>2. h \in Seq(Byte)
    BY DEF ESC, Byte
  <2> HIDE DEF h, f
  <2>3. h \o a \o p \o d \o c \o k = h \o m
    <3>1. Regrouped(h, a, p, d, c, k)
      BY <2>1, <2>2, Regroup
    <3> QED
      BY <3>1, Zenon DEF Regrouped, m, sub
  <2> QED
    BY <2>3, <1>19, Zenon
<1> HIDE DEF b
<1>21. Sequence(b) = ParseKitty(m, b)
  BY <1>18 DEF Sequence
<1> HIDE DEF i
<1> QED
  BY <1>16, <1>18, <1>19, <1>20, <1>21 DEF Shaped, i

\* What a mouse report says.
LEMMA MouseSays ==
    ASSUME NEW data, NEW seq, NEW a, NEW c, NEW r, NEW pressed \in BOOLEAN,
           Split(seq, Semicolon) = <<a, c, r>>,
           NEW b \in Nat, Parse(a, MaxU32) = b,
           NEW col \in Nat, Parse(c, MaxU16) = col, NEW row \in Nat, Parse(r, MaxU16) = row
    PROVE  ParseSgr(seq, pressed, data) =
               Mouse(Button(b), IF Bit(b, 32) THEN "move" ELSE IF pressed THEN "press" ELSE "release",
                     Flags(b, MouseMods), col, row)
<1> DEFINE parts == Split(seq, Semicolon)
<1>1. parts[1] = a /\ parts[2] = c /\ parts[3] = r /\ Len(parts) = 3
  OBVIOUS
<1>2. -1 \notin {b, col, row}
  OBVIOUS
<1> HIDE DEF parts
<1>3. ParseSgr(seq, pressed, data) =
          IF Len(parts) # 3 \/ -1 \in {Parse(parts[1], MaxU32), Parse(parts[2], MaxU16), Parse(parts[3], MaxU16)}
          THEN Unknown(data)
          ELSE Mouse(Button(Parse(parts[1], MaxU32)),
                     IF Bit(Parse(parts[1], MaxU32), 32) THEN "move" ELSE IF pressed THEN "press" ELSE "release",
                     Flags(Parse(parts[1], MaxU32), MouseMods),
                     Parse(parts[2], MaxU16), Parse(parts[3], MaxU16))
  BY DEF ParseSgr, parts
<1> QED
  BY <1>1, <1>2, <1>3

\* Three numbers of a report.
LEMMA ThreeNumbers ==
    ASSUME NEW x \in Nat, NEW y \in Nat, NEW z \in Nat
    PROVE  LET m == Decimal(x) \o <<Semicolon>> \o (Decimal(y) \o <<Semicolon>> \o Decimal(z)) IN
           /\ Low(m) /\ m # << >> /\ Split(m, Semicolon) = <<Decimal(x), Decimal(y), Decimal(z)>>
<1> DEFINE p == <<Semicolon>>
           a == Decimal(x)
           c == Decimal(y)
           r == Decimal(z)
           u == a \o p
           d == c \o p
           sub == d \o r
           m == u \o sub
<1>1. /\ Low(a) /\ a # << >> /\ Free(a, Semicolon)
      /\ Low(c) /\ c # << >> /\ Free(c, Semicolon)
      /\ Low(r) /\ r # << >> /\ Free(r, Semicolon)
  BY DecimalText DEF Free
<1>2. Low(p) /\ Semicolon \in Byte
  BY LowOne DEF Semicolon, Byte
<1>3. a \in Seq(Byte) /\ c \in Seq(Byte) /\ r \in Seq(Byte) /\ p \in Seq(Byte)
  BY <1>1, <1>2 DEF Low
<1> HIDE DEF a, c, r
<1>4. Split(m, Semicolon) = <<a, c, r>>
  BY <1>1, <1>2, <1>3, ThreeParts
<1> HIDE DEF p
<1>5. Low(u) /\ Low(d)
  BY <1>1, <1>2, LowJoined
<1>6. u # << >>
  BY <1>1, <1>3, ConcatEqualIffEmpty
<1> HIDE DEF u, d
<1>7. Low(sub)
  BY <1>1, <1>5, LowJoined
<1> HIDE DEF sub
<1>8. Low(m)
  BY <1>5, <1>7, LowJoined
<1>9. u \o sub # << >>
  <2>1. u \in Seq(Byte) /\ sub \in Seq(Byte)
    BY <1>5, <1>7 DEF Low
  <2> QED
    BY <2>1, <1>6, ConcatEqualIffEmpty
<1> HIDE DEF m
<1>10. m # << >>
  BY <1>9 DEF m
<1> QED
  BY <1>4, <1>8, <1>10 DEF m, sub, u, d, p, a, c, r

\* A mouse report gives its event.
LEMMA MouseShape ==
    ASSUME NEW e, IsMouse(e)
    PROVE  Shaped(MouseItem(e.button, e.action, e.mods, e.col, e.row))
<1> DEFINE moves == IF e.action = "move" THEN 32 ELSE 0
           x == Buttons[e.button] + Sum(e.mods, MouseMods) + moves
           f == IF e.action = "release" THEN 109 ELSE 77
           a == Decimal(x)
           c == Decimal(e.col)
           r == Decimal(e.row)
           p == <<Semicolon>>
           h == <<ESC, 91, 60>>
           m == a \o p \o (c \o p \o r)
           v == <<60>> \o m
           b == h \o m \o <<f>>
           i == MouseItem(e.button, e.action, e.mods, e.col, e.row)
<1>1. /\ x \in Nat /\ x < 256 /\ Flags(x, MouseMods) = e.mods /\ Button(x) = e.button
      /\ Bit(x, 32) <=> moves = 32
  <2>1. moves \in {0, 32}
    OBVIOUS
  <2> HIDE DEF moves
  <2> QED
    BY <2>1, MouseFlags DEF IsMouse
<1>2. /\ e.col \in Nat /\ e.row \in Nat /\ e.col <= MaxU16 /\ e.row <= MaxU16
      /\ e.action \in {"press", "release", "move"}
  BY DEF IsMouse
<1>3. /\ moves = 32 <=> e.action = "move"
      /\ f \in Byte /\ IsFinal(f) /\ f \in {77, 109} /\ (f = 77 <=> e.action # "release") /\ f # 117
  BY DEF Byte, IsFinal
<1> HIDE DEF x, f, moves
<1>4. Low(m) /\ m # << >> /\ Split(m, Semicolon) = <<a, c, r>>
  BY <1>1, <1>2, ThreeNumbers
<1>5. Parse(a, MaxU32) = x /\ Parse(c, MaxU16) = e.col /\ Parse(r, MaxU16) = e.row
  <2>1. MaxU16 \in Nat /\ x < 1114112
    BY <1>1 DEF MaxU16
  <2> QED
    BY <2>1, <1>1, <1>2, NumberRead, ParseDecimal
<1>6. a \in Seq(Byte) /\ c \in Seq(Byte) /\ r \in Seq(Byte) /\ p \in Seq(Byte) /\ h \in Seq(Byte)
  <2>1. p \in Seq(Byte) /\ h \in Seq(Byte)
    BY DEF Semicolon, ESC, Byte
  <2>2. a \in Seq(Byte) /\ c \in Seq(Byte) /\ r \in Seq(Byte)
    BY <1>1, <1>2, DecimalText DEF Low
  <2> QED
    BY <2>1, <2>2
<1>7. i.bytes = h \o a \o p \o c \o p \o r \o <<f>>
      /\ i.event = Mouse(e.button, e.action, e.mods, e.col, e.row)
  <2>1. <<f>> = IF e.action = "release" THEN <<109>> ELSE <<77>>
    BY DEF f
  <2> QED
    BY <2>1 DEF MouseItem, x, moves
<1> HIDE DEF a, c, r, p, h, i
<1>8. i.bytes = b
  <2>1. Regrouped(h, a, p, c, p, r)
    BY <1>6, Regroup
  <2> QED
    BY <2>1, <1>7, Zenon DEF Regrouped
<1> HIDE DEF m
<1>9. ASSUME NEW data, NEW pressed \in BOOLEAN, pressed <=> f = 77
      PROVE  ParseSgr(m, pressed, data) = Mouse(e.button, e.action, e.mods, e.col, e.row)
  <2>1. e.action = IF Bit(x, 32) THEN "move" ELSE IF pressed THEN "press" ELSE "release"
    BY <1>1, <1>2, <1>3, <1>9
  <2>2. ParseSgr(m, pressed, data) =
            Mouse(Button(x), IF Bit(x, 32) THEN "move" ELSE IF pressed THEN "press" ELSE "release",
                  Flags(x, MouseMods), e.col, e.row)
    BY <1>1, <1>2, <1>4, <1>5, MouseSays
  <2> QED
    BY <2>1, <2>2, <1>1
<1>10. /\ b \in Seq(Byte) /\ Len(b) \in Nat /\ SubSeq(b, 4, Len(b) - 1) = m
  <2> DEFINE t == <<f>>
  <2>1. m \in Seq(Byte) /\ t \in Seq(Byte) /\ Len(t) = 1 /\ Len(h) = 3
    BY <1>3, <1>4 DEF Low, h
  <2> HIDE DEF t
  <2>2. h \o m \o t \in Seq(Byte) /\ SubSeq(h \o m \o t, Len(h) + 1, Len(h) + Len(m)) = m
        /\ Len(h \o m \o t) = Len(h) + Len(m) + Len(t) /\ Len(m) \in Nat
    <3>1. h \in Seq(Byte) /\ m \in Seq(Byte) /\ t \in Seq(Byte) /\ m # << >>
      BY <2>1, <1>4, <1>6
    <3> HIDE DEF b
    <3> QED
      BY <3>1, Framed
  <2> DEFINE w == h \o m \o t
  <2> HIDE DEF w
  <2>3. Len(w) \in Nat /\ Len(h) + 1 = 4 /\ Len(h) + Len(m) = Len(w) - 1
    BY <2>1, <2>2 DEF w
  <2>4. w \in Seq(Byte) /\ SubSeq(w, 4, Len(w) - 1) = m
    BY <2>2, <2>3 DEF w
  <2> QED
    BY <2>3, <2>4 DEF w, t
<1>11. b = <<ESC, 91>> \o v \o <<f>>
  <2>1. m \in Seq(Byte)
    BY <1>4 DEF Low
  <2>2. h = <<ESC, 91>> \o <<60>>
    BY DEF h
  <2>3. <<ESC, 91>> \o <<60>> \o m = <<ESC, 91>> \o (<<60>> \o m)
    <3>1. <<ESC, 91>> \in Seq(Byte) /\ <<60>> \in Seq(Byte)
      BY DEF ESC, Byte
    <3> DEFINE q == <<ESC, 91>>
               o == <<60>>
    <3> HIDE DEF q, o
    <3>2. q \o o \o m = q \o (o \o m)
      BY <3>1, <2>1 DEF q, o
    <3> QED
      BY <3>2 DEF q, o
  <2> QED
    BY <2>2, <2>3
<1>12. Low(v) /\ v # << >> /\ v[1] = 60
  <2> DEFINE o == <<60>>
  <2>1. Low(o) /\ o[1] = 60 /\ Len(o) = 1 /\ o \in Seq(Byte) /\ m \in Seq(Byte)
    BY <1>4, LowOne DEF Byte, Low
  <2> HIDE DEF o
  <2>2. Low(o \o m) /\ (o \o m)[1] = 60 /\ o \o m # << >>
    <3>1. Low(o \o m)
      BY <2>1, <1>4, LowJoined
    <3>2. \A j \in 1..Len(o) : (o \o m)[j] = o[j]
      BY <2>1, Joined
    <3>3. o # << >>
      BY <2>1
    <3>4. o \o m # << >>
      BY <3>3, <2>1, ConcatEqualIffEmpty
    <3> QED
      BY <3>1, <3>2, <3>4, <2>1
  <2> QED
    BY <2>2 DEF o
<1> HIDE DEF v
<1>13. /\ IsCsi(b) /\ Len(b) > 3 /\ b[Len(b)] = f /\ b[3] = 60
  <2> DEFINE w == <<ESC, 91>> \o v \o <<f>>
  <2>1. f \in Byte /\ IsFinal(f) /\ Low(v) /\ v # << >>
    BY <1>3, <1>12
  <2>2. IsCsi(w) /\ Len(w) > 3 /\ w[Len(w)] = f /\ w[3] = v[1]
    BY <2>1, CsiOf
  <2> HIDE DEF w
  <2> QED
    BY <2>2, <1>11, <1>12 DEF w
<1> HIDE DEF b
<1>14. Sequence(b) = ParseSgr(m, f = 77, b)
  BY <1>3, <1>10, <1>13 DEF Sequence
<1>15. Sequence(b) = i.event
  BY <1>7, <1>9, <1>14
<1> QED
  BY <1>8, <1>10, <1>13, <1>15 DEF Shaped, i

\* An app token gives its event.
LEMMA TokenShape ==
    ASSUME NEW token \in Seq(Byte), IsApc(TokenItem(token).bytes)
    PROVE  Shaped(TokenItem(token))
<1> DEFINE h == <<ESC, 95, 65>>
           t == <<ESC, 92>>
           b == h \o token \o t
           M == Len(token)
           i == TokenItem(token)
<1>1. h \in Seq(Byte) /\ t \in Seq(Byte) /\ Len(h) = 3 /\ Len(t) = 2 /\ h[3] = 65
  BY DEF ESC, Byte
<1>2. i.bytes = b /\ i.event = AppToken(token)
  BY DEF TokenItem
<1> HIDE DEF h, t
<1>3. /\ b \in Seq(Byte) /\ Len(b) = Len(h) + M + Len(t) /\ M \in Nat
      /\ SubSeq(b, Len(h) + 1, Len(h) + M) = token
      /\ \A j \in 1..Len(h) : b[j] = h[j]
  <2>1. h \in Seq(Byte) /\ t \in Seq(Byte)
    BY <1>1
  <2> QED
    BY <2>1, Framed
<1> HIDE DEF b, M
<1>4. Len(h) + 1 = 4 /\ Len(h) + M = Len(b) - 2 /\ 3 \in 1..Len(h)
  BY <1>1, <1>3
<1>5. SubSeq(b, 4, Len(b) - 2) = token /\ b[3] = 65
  BY <1>1, <1>3, <1>4
<1>6. Command(b) = AppToken(token)
  <2>1. Command(b) = IF b[3] = 71 THEN Capability(b)
                     ELSE IF b[3] = 65 THEN AppToken(SubSeq(b, 4, Len(b) - 2)) ELSE Unknown(b)
    BY DEF Command
  <2> DEFINE q == SubSeq(b, 4, Len(b) - 2)
  <2>2. q = token
    BY <1>5
  <2> HIDE DEF q
  <2>3. Command(b) = AppToken(q)
    BY <2>1, <1>5 DEF q
  <2> QED
    BY <2>2, <2>3
<1> HIDE DEF i
<1>7. IsApc(b)
  BY <1>2 DEF i
<1> QED
  BY <1>2, <1>3, <1>6, <1>7 DEF Shaped, i

\* The decoder makes of every item its event.
LEMMA ItemShapes ==
    ASSUME NEW i, IsItem(i)
    PROVE  Shaped(i)
<1> DEFINE e == i.event
<1>1. i.bytes \in Seq(Byte)
  BY DEF IsItem
<1>2. ASSUME IsKey(e), i = CharItem(e.cp), e.cp \notin {ESC, XON, XOFF}
      PROVE  Shaped(i)
  <2>1. i.bytes = Encoded(e.cp) /\ i.event = Typed(e.cp)
    <3> DEFINE cp == e.cp
    <3>1. i = CharItem(cp)
      BY <1>2
    <3> HIDE DEF cp
    <3>2. i.bytes = Encoded(cp) /\ i.event = Typed(cp)
      BY <3>1 DEF CharItem
    <3> QED
      BY <3>2 DEF cp
  <2>2. IsCoded(i.bytes, e.cp)
    BY <2>1, <1>2, Coded DEF IsKey
  <2> QED
    BY <2>1, <2>2, <1>1, <1>2 DEF Shaped
<1>3. ASSUME IsKey(e), i = KittyItem(e.cp, e.mods, e.kind)
      PROVE  Shaped(i)
  BY <1>3, KittyShape DEF IsKey
<1>4. ASSUME IsMouse(e), i = MouseItem(e.button, e.action, e.mods, e.col, e.row)
      PROVE  Shaped(i)
  BY <1>4, MouseShape
<1>5. ASSUME i \in {FlowItem(XON, "xon"), FlowItem(XOFF, "xoff")}
      PROVE  Shaped(i)
  BY <1>5, <1>1 DEF Shaped, FlowItem
<1>6. ASSUME i = AnswerItem(i.bytes), IsCsi(i.bytes), i.bytes[3] = 63, i.bytes[Len(i.bytes)] = 99
      PROVE  Shaped(i)
  <2>1. i.event = Capability(i.bytes)
    BY <1>6 DEF AnswerItem
  <2>2. Len(i.bytes) > 3
    BY <1>6 DEF IsCsi
  <2>3. Sequence(i.bytes) = Capability(i.bytes)
    BY <2>2, <1>6 DEF Sequence
  <2> QED
    BY <2>1, <2>3, <1>1, <1>6 DEF Shaped
<1>7. ASSUME i = AnswerItem(i.bytes), IsApc(i.bytes), i.bytes[3] = 71
      PROVE  Shaped(i)
  <2>1. i.event = Capability(i.bytes)
    BY <1>7 DEF AnswerItem
  <2>2. Command(i.bytes) = Capability(i.bytes)
    BY <1>7 DEF Command
  <2> QED
    BY <2>1, <2>2, <1>1, <1>7 DEF Shaped
<1>8. ASSUME e.data \in Seq(Byte), i = TokenItem(e.data), IsApc(i.bytes)
      PROVE  Shaped(i)
  BY <1>8, TokenShape
<1> QED
  BY <1>2, <1>3, <1>4, <1>5, <1>6, <1>7, <1>8 DEF IsItem

\* What was read of the item, at every step.
LEMMA InitReads == LineInit => Reads
BY DEF LineInit, Reads

\* Every step of the line reads on.
LEMMA StepReads ==
    ASSUME DecoderInv, Reads, [LineNext]_lineVars
    PROVE  Reads'
<1>1. CASE Send
  <2>1. item' = item /\ (torn => torn')
    BY <1>1 DEF Send
  <2>2. ASSUME item # Silence, ~torn', Len(item.bytes) <= Capacity
        PROVE  /\ Shaped(item)'
               /\ pos' = 0 => AtRest'
               /\ pos' > 0 /\ pos' < Len(item.bytes) => Inside'
               /\ pos' = Len(item.bytes) => Told'
    BY <1>1, <2>2, SendReads
  <2>3. Len(item.bytes)' = Len(item.bytes) /\ (item # Silence)' = (item # Silence)
    BY <2>1
  <2> QED
    BY <2>1, <2>2, <2>3 DEF Reads
<1>2. CASE Begin
  <2>1. item' \in Items /\ pos' = 0 /\ got' = << >> /\ state' = state /\ utf8' = utf8 /\ quiet' = quiet
        /\ partial' = (state = "idle" /\ utf8 # << >>) /\ (state = "idle" \/ quiet)
    BY <1>2 DEF Begin, decoder
  <2>2. Shaped(item)'
    <3>1. \A i \in Items : Shaped(i)
      BY DecoderAssumption, ItemShapes
    <3> QED
      BY <3>1, <2>1
  <2>3. AtRest'
    BY <2>1 DEF AtRest
  <2>4. Len(item'.bytes) > 0
    BY <2>2, ShapedStart
  <2> QED
    BY <2>1, <2>2, <2>3, <2>4 DEF Reads
<1>3. ASSUME NEW b \in Noise, Disturb(b)
      PROVE  Reads'
  <2>1. item' = Silence
    BY <1>3 DEF Disturb
  <2> QED
    BY <2>1 DEF Reads
<1>4. CASE Pause
  <2>1. item' = item /\ pos' = pos /\ got' = got /\ state' = state /\ utf8' = utf8 /\ buffer' = buffer
        /\ partial' = partial /\ torn' = torn /\ quiet' = TRUE
    BY <1>4 DEF Pause, decoder, line
  <2>2. Shaped(item)' <=> Shaped(item)
    BY <2>1
  <2>3. /\ AtRest => AtRest'
        /\ Inside => Inside'
        /\ Told => Told'
    BY <2>1 DEF AtRest, Inside, Told
  <2> QED
    BY <2>1, <2>2, <2>3 DEF Reads
<1>5. CASE UNCHANGED lineVars
  <2>1. item' = item /\ pos' = pos /\ got' = got /\ state' = state /\ utf8' = utf8 /\ buffer' = buffer
        /\ partial' = partial /\ torn' = torn /\ quiet' = quiet
    BY <1>5 DEF lineVars, decoder, line
  <2>2. /\ Shaped(item)' <=> Shaped(item)
        /\ AtRest' <=> AtRest
        /\ Inside' <=> Inside
        /\ Told' <=> Told
    BY <2>1 DEF AtRest, Inside, Told
  <2> QED
    BY <2>1, <2>2 DEF Reads
<1> QED
  BY <1>1, <1>2, <1>3, <1>4, <1>5 DEF LineNext

\* Wherever the stream is cut, an item gives exactly its event (feed_slice).
THEOREM DecoderReads == LineSpec => []DecodesEachItem
<1>1. DecoderInv /\ Reads => DecodesEachItem
  <2> SUFFICES ASSUME DecoderInv, Reads, Whole, item # Silence, ~torn, Len(item.bytes) <= Capacity
               PROVE  IF partial /\ Head(item.bytes) >= 128 THEN got = << >> ELSE got = <<item.event>>
    BY DEF DecodesEachItem
  <2>1. Shaped(item) /\ Told
    BY DEF Reads, Whole
  <2>2. Len(item.bytes) > 0 /\ item.bytes \in Seq(Byte)
    BY <2>1, ShapedStart DEF Shaped
  <2>3. Head(item.bytes) = item.bytes[1]
    <3>1. item.bytes # << >>
      BY <2>2
    <3> QED
      BY <3>1, <2>2
  <2> QED
    BY <2>1, <2>3 DEF Told
<1>2. LineInit => DecoderInv /\ Reads
  BY InitDecoder, InitReads
<1>3. DecoderInv /\ Reads /\ [LineNext]_lineVars => DecoderInv' /\ Reads'
  BY DecoderStep, StepReads
<1> QED
  BY <1>1, <1>2, <1>3, PTL DEF LineSpec
=============================================================================
