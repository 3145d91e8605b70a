--------------------------- MODULE LobbyRoomProofs ---------------------------
(***************************************************************************)
(* room_map and the rooms, for any number of rooms and clients.  While no  *)
(* code is drawn twice, every room that runs is listed under its code      *)
(* (RoomsAreListed), there are no more of them than max_rooms              *)
(* (RoomsWithinLimit), the lobby awaits no room that runs                  *)
(* (AwaitedRoomIsDone), and every listing implements RoomLifecycle.        *)
(*                                                                         *)
(* The inductive invariant ListInv ties the three sides together: what is  *)
(* listed, what the rooms do, and the signals still on their way.          *)
(***************************************************************************)
EXTENDS LobbyProofs, FiniteSetTheorems

\* The phases after a room has said SealRoom.
Over == {"sealed", "swept", "closed", "aborted"}

CodesDiffer ==
  \A r, s \in RoomId :
    phase[r] # "none" /\ phase[s] # "none" /\ codeOf[r] = codeOf[s] => r = s

ListedRight ==
  \A k \in Listed :
    phase[roomMap[k]] # "none" /\ codeOf[roomMap[k]] = k /\ roomMap[k] \notin doomed

RunningListed ==
  \A r \in RoomId : Running(r) /\ r \notin doomed => roomMap[codeOf[r]] = r

\* CloseRoom is on its way for the room with code k.
ClosePending(queue, k) ==
  \E i \in 1..Len(queue) : queue[i] = [kind |-> "close", code |-> k]

OverIsSaid ==
  LobbyIsUp => \A k \in Listed : Running(roomMap[k]) \/ ClosePending(controls, k)

\* A signal is sent by a room that is so far.
IsMeant(signal) ==
  \E r \in RoomId :
    /\ codeOf[r] = signal.code
    /\ phase[r] \in Over
    /\ signal.kind = "close" => phase[r] = "closed"

SignalsMeant == \A i \in 1..Len(controls) : IsMeant(controls[i])
AwaitedOver == lpc = "awaitRoom" => phase[awaited] = "closed"
SealedMeant == \A r \in isSealed : phase[r] \in Over
AbortMeant == \A r \in RoomId : phase[r] = "aborted" => r \in doomed
DoomedMeant == \A r \in doomed : phase[r] # "none"
ListedFew == Cardinality(Listed) <= config.rooms

RoomsRight == CodesDiffer /\ ListedRight /\ RunningListed
SignalsRight == OverIsSaid /\ SignalsMeant
RestRight == AwaitedOver /\ SealedMeant /\ AbortMeant /\ DoomedMeant

ListInv == LobbyTypeInv /\ RoomsRight /\ SignalsRight /\ RestRight /\ ListedFew

LEMMA ListedFinite ==
  ASSUME NEW map \in [RoomCode -> RoomId \cup {NoRoom}]
  PROVE  IsFiniteSet({k \in RoomCode : map[k] # NoRoom})
BY FS_Subset, LobbyLimitAssumption

LEMMA ListInit == Init => ListInv
<1> SUFFICES ASSUME Init PROVE ListInv
  OBVIOUS
<1>1. LobbyTypeInv
  BY LobbyInitTypes
<1>2. Listed = {}
  BY DEF Init, Listed
<1>3. RoomsRight /\ RestRight
  BY <1>2 DEF Init, RoomsRight, RestRight, CodesDiffer, ListedRight, RunningListed,
              Running, AwaitedOver, SealedMeant, AbortMeant, DoomedMeant
<1>4. SignalsRight
  BY <1>2 DEF Init, SignalsRight, OverIsSaid, SignalsMeant
<1>5. ListedFew
  <2>1. config.rooms \in Nat
    BY LobbyLimitAssumption DEF Init
  <2> QED
    BY <1>2, <2>1, FS_EmptySet DEF ListedFew
<1> QED
  BY <1>1, <1>3, <1>4, <1>5 DEF ListInv
-----------------------------------------------------------------------------
(* Steps that have nothing to do with the list.                            *)

LEMMA ListUndisturbed ==
  ASSUME ListInv, LobbyTypeInv',
         UNCHANGED lpc \/ (lpc = "start" /\ lpc' = "select"),
         UNCHANGED <<roomMap, isSealed, config, awaited, controls, phase, codeOf, doomed>>
  PROVE  ListInv'
BY DEF ListInv, RoomsRight, SignalsRight, RestRight, CodesDiffer, ListedRight,
       RunningListed, OverIsSaid, SignalsMeant, IsMeant, AwaitedOver, SealedMeant,
       AbortMeant, DoomedMeant, ListedFew, Listed, Running, LobbyIsUp

LEMMA ListUntouched ==
  ASSUME ListInv, LobbyTypeInv',
         \/ NewConnection \/ RefuseConnection \/ SendToRoom \/ RefuseRequest \/ DropClient
         \/ \E c \in Client : ClientStep(c)
         \/ \E r \in RoomId : RoomTakesClient(r)
         \/ ServerStep \/ Shutdown \/ UNCHANGED lobbyAndAll
  PROVE  ListInv'
<1> USE DEF lobbyVars, queueVars, clientVars, roomVars, serverVars
<1>1. CASE NewConnection \/ RefuseConnection
  BY <1>1, ListUndisturbed DEF NewConnection, RefuseConnection
<1>2. CASE SendToRoom \/ RefuseRequest \/ DropClient
  BY <1>2, ListUndisturbed DEF SendToRoom, RefuseRequest, DropClient
<1>3. ASSUME NEW c \in Client, ClientStep(c) PROVE ListInv'
  <2>1. CASE ClientAsks(c) \/ ClientTimesOut(c)
    <3>1. PICK command : PostRequest(c, command)
      BY <2>1 DEF ClientAsks, ClientTimesOut
    <3> QED
      BY <3>1, ListUndisturbed DEF PostRequest
  <2> QED
    BY <1>3, <2>1, ListUndisturbed
    DEF ClientStep, Accept, Established, UnblockConnection, ConnectionFails, AcceptEnds,
        UnblockRequest, SendCloseDone, LeavesRoom, HandshakeOver
<1>4. ASSUME NEW r \in RoomId, RoomTakesClient(r) PROVE ListInv'
  BY <1>4, ListUndisturbed DEF RoomTakesClient
<1>5. CASE ServerStep \/ Shutdown
  BY <1>5, ListUndisturbed
  DEF ServerStep, SpawnLobby, ServerHearsShutdown, AcceptsAwaited, LobbyAwaited,
      ConfigAwaited, ServerGoto, Shutdown
<1>6. CASE UNCHANGED lobbyAndAll
  BY <1>6, ListUndisturbed DEF lobbyAndAll
<1> QED
  BY <1>1, <1>2, <1>3, <1>4, <1>5, <1>6
-----------------------------------------------------------------------------
(* A room goes on, and may send a signal.                                  *)

LEMMA PendingKept ==
  ASSUME NEW queue \in Seq(LobbyControl), NEW signal \in LobbyControl, NEW k
  PROVE  /\ ClosePending(queue, k) => ClosePending(Append(queue, signal), k)
         /\ signal = [kind |-> "close", code |-> k] => ClosePending(Append(queue, signal), k)
<1> DEFINE longer == Append(queue, signal)
<1>1. /\ Len(longer) = Len(queue) + 1
      /\ longer[Len(queue) + 1] = signal
      /\ \A i \in 1..Len(queue) : longer[i] = queue[i]
  OBVIOUS
<1>2. Len(queue) \in Nat
  OBVIOUS
<1> HIDE DEF longer
<1>3. ClosePending(queue, k) => ClosePending(longer, k)
  BY <1>1, <1>2 DEF ClosePending
<1>4. Len(queue) + 1 \in 1..Len(longer)
  BY <1>1, <1>2
<1>5. signal = [kind |-> "close", code |-> k] => ClosePending(longer, k)
  BY <1>1, <1>4 DEF ClosePending
<1> QED
  BY <1>3, <1>5 DEF longer

LEMMA PendingUntilTaken ==
  ASSUME NEW queue \in Seq(LobbyControl), queue # <<>>, NEW k, ClosePending(queue, k),
         Head(queue) # [kind |-> "close", code |-> k]
  PROVE  ClosePending(Tail(queue), k)
<1>1. PICK i \in 1..Len(queue) : queue[i] = [kind |-> "close", code |-> k]
  BY DEF ClosePending
<1>2. i - 1 \in 1..Len(Tail(queue)) /\ Tail(queue)[i - 1] = queue[i]
  BY <1>1
<1> QED
  BY <1>1, <1>2 DEF ClosePending

RoomAdvances(r, place) ==
  /\ Running(r)
  /\ place \in RoomPhase \ {"none", "open"}
  /\ phase' = [phase EXCEPT ![r] = place]
  /\ phase[r] \in Over => place \in Over
  /\ place = "aborted" => r \in doomed
  /\ UNCHANGED <<lpc, roomMap, isSealed, config, awaited, codeOf, doomed>>

LEMMA AdvanceKeepsRooms ==
  ASSUME ListInv, NEW r \in RoomId, NEW place, RoomAdvances(r, place)
  PROVE  RoomsRight' /\ RestRight' /\ ListedFew'
<1> USE DEF ListInv, LobbyTypeInv, LobbyTypeOK, RoomTypeOK, RoomAdvances
<1>1. \A s \in RoomId : phase'[s] = IF s = r THEN place ELSE phase[s]
  OBVIOUS
<1>2. Listed' = Listed /\ \A k \in Listed : roomMap[k] \in RoomId
  BY DEF Listed, LobbyTaskTypeOK
<1>3. (CodesDiffer /\ ListedRight)'
  BY <1>1, <1>2 DEF RoomsRight, CodesDiffer, ListedRight, Running
<1>4. RunningListed'
  BY <1>1 DEF RoomsRight, RunningListed, Running
<1>5. RestRight'
  BY <1>1 DEF RestRight, AwaitedOver, SealedMeant, AbortMeant, DoomedMeant, Running,
              LobbyTaskTypeOK, Over
<1>6. ListedFew'
  BY <1>2 DEF ListedFew
<1> QED
  BY <1>3, <1>4, <1>5, <1>6 DEF RoomsRight

LEMMA AdvanceKeepsMeaning ==
  ASSUME ListInv, NEW r \in RoomId, NEW place, RoomAdvances(r, place),
         NEW signal, IsMeant(signal)
  PROVE  IsMeant(signal)'
<1>1. PICK s \in RoomId :
        codeOf[s] = signal.code /\ phase[s] \in Over
          /\ (signal.kind = "close" => phase[s] = "closed")
  BY DEF IsMeant
<1>2. phase'[s] = IF s = r THEN place ELSE phase[s]
  BY DEF ListInv, LobbyTypeInv, LobbyTypeOK, RoomTypeOK, RoomAdvances
<1>3. codeOf'[s] = codeOf[s] /\ phase'[s] \in Over
  BY <1>1, <1>2 DEF RoomAdvances
<1>4. signal.kind = "close" => phase'[s] = "closed"
  BY <1>1, <1>2 DEF RoomAdvances, Running
<1> QED
  BY <1>1, <1>3, <1>4 DEF IsMeant

\* No signal is sent.
LEMMA RoomAdvancesQuietly ==
  ASSUME ListInv, LobbyTypeInv', NEW r \in RoomId, NEW place,
         RoomAdvances(r, place), place # "closed", UNCHANGED controls
  PROVE  ListInv'
<1>1. SignalsMeant'
  BY AdvanceKeepsMeaning DEF ListInv, SignalsRight, SignalsMeant
<1>2. OverIsSaid'
  <2> SUFFICES ASSUME LobbyIsUp', NEW k \in Listed'
               PROVE  Running(roomMap[k])' \/ ClosePending(controls', k)
    BY DEF OverIsSaid
  <2>1. k \in Listed /\ roomMap[k] \in RoomId /\ roomMap'[k] = roomMap[k]
    BY DEF Listed, RoomAdvances, ListInv, LobbyTypeInv, LobbyTypeOK, LobbyTaskTypeOK
  <2>2. roomMap[k] \notin doomed
    BY <2>1 DEF ListInv, RoomsRight, ListedRight
  <2>3. Running(roomMap[k]) \/ ClosePending(controls, k)
    BY <2>1 DEF ListInv, SignalsRight, OverIsSaid, LobbyIsUp, RoomAdvances
  <2>4. Running(roomMap[k]) => Running(roomMap[k])'
    BY <2>1, <2>2 DEF Running, RoomAdvances, RoomPhase, ListInv, LobbyTypeInv, LobbyTypeOK,
                      RoomTypeOK
  <2> QED
    BY <2>3, <2>4
<1> QED
  BY <1>1, <1>2, AdvanceKeepsRooms DEF ListInv, SignalsRight

\* SealRoom or CloseRoom is sent.
LEMMA RoomAdvancesSignalling ==
  ASSUME ListInv, LobbyTypeInv', NEW r \in RoomId, NEW place \in {"sealed", "closed"},
         RoomAdvances(r, place), NEW kind \in {"seal", "close"},
         kind = "close" <=> place = "closed",
         controls' = Append(controls, [kind |-> kind, code |-> codeOf[r]])
  PROVE  ListInv'
<1>1. PICK signal \in LobbyControl : signal = [kind |-> kind, code |-> codeOf[r]]
  BY DEF ListInv, LobbyTypeInv, CodesKnown, LobbyControl, RoomAdvances, Running
<1>2. controls \in Seq(LobbyControl)
  BY DEF ListInv, LobbyTypeInv, LobbyTypeOK, QueueTypeOK
<1>3. phase' = [phase EXCEPT ![r] = place] /\ codeOf' = codeOf
  BY DEF RoomAdvances
<1>4. IsMeant(signal)'
  <2>1. phase'[r] = place
    BY <1>3 DEF ListInv, LobbyTypeInv, LobbyTypeOK, RoomTypeOK
  <2>2. signal.kind = kind /\ signal.code = codeOf[r]
    BY <1>1
  <2> QED
    BY <1>3, <2>1, <2>2 DEF IsMeant, Over
<1>5. controls' = Append(controls, signal)
  BY <1>1
<1>6. SignalsMeant'
  <2> SUFFICES ASSUME NEW i \in 1..Len(controls') PROVE IsMeant(controls[i])'
    BY DEF SignalsMeant
  <2>1. CASE i \in 1..Len(controls)
    <3>1. IsMeant(controls[i])
      BY <2>1 DEF ListInv, SignalsRight, SignalsMeant
    <3>2. controls'[i] = controls[i]
      BY <1>1, <1>2, <1>5, <2>1
    <3> QED
      BY <3>1, <3>2, AdvanceKeepsMeaning
  <2>2. CASE i = Len(controls) + 1
    <3>1. controls'[i] = signal
      BY <1>1, <1>2, <1>5, <2>2
    <3> QED
      BY <1>4, <3>1
  <2> QED
    BY <1>1, <1>2, <1>5, <2>1, <2>2
<1>7. OverIsSaid'
  <2> SUFFICES ASSUME LobbyIsUp', NEW k \in Listed'
               PROVE  Running(roomMap[k])' \/ ClosePending(controls', k)
    BY DEF OverIsSaid
  <2>1. k \in Listed /\ roomMap[k] \in RoomId /\ roomMap'[k] = roomMap[k]
    BY DEF Listed, RoomAdvances, ListInv, LobbyTypeInv, LobbyTypeOK, LobbyTaskTypeOK
  <2>2. codeOf[roomMap[k]] = k
    BY <2>1 DEF ListInv, RoomsRight, ListedRight
  <2>3. CASE roomMap[k] = r
    <3>1. place = "closed" => ClosePending(controls', k)
      BY <1>1, <1>2, <1>5, <2>2, <2>3, PendingKept
    <3>2. place = "sealed" => Running(roomMap[k])'
      BY <1>3, <2>1, <2>3 DEF Running, ListInv, LobbyTypeInv, LobbyTypeOK, RoomTypeOK
    <3> QED
      BY <3>1, <3>2
  <2>4. CASE roomMap[k] # r
    <3>1. Running(roomMap[k]) \/ ClosePending(controls, k)
      BY <2>1 DEF ListInv, SignalsRight, OverIsSaid, LobbyIsUp, RoomAdvances
    <3>2. Running(roomMap[k]) => Running(roomMap[k])'
      BY <1>3, <2>1, <2>4 DEF Running, ListInv, LobbyTypeInv, LobbyTypeOK, RoomTypeOK
    <3> QED
      BY <1>1, <1>2, <1>5, <3>1, <3>2, PendingKept
  <2> QED
    BY <2>3, <2>4
<1> QED
  BY <1>6, <1>7, AdvanceKeepsRooms DEF ListInv, SignalsRight

LEMMA RoomStepKeepsList ==
  ASSUME ListInv, LobbyTypeInv', NEW r \in RoomId, RoomStep(r)
  PROVE  ListInv'
<1> USE DEF lobbyVars, queueVars, RoomGoto
<1>1. CASE RoomBeginsClosing(r)
  <2>1. RoomAdvances(r, "closing")
    BY <1>1 DEF RoomBeginsClosing, RoomAdvances, Running, RoomPhase, Over
  <2> QED
    BY <1>1, <2>1, RoomAdvancesQuietly DEF RoomBeginsClosing
<1>2. CASE RoomSwept(r)
  <2>1. RoomAdvances(r, "swept")
    BY <1>2 DEF RoomSwept, RoomAdvances, Running, RoomPhase, Over
  <2> QED
    BY <1>2, <2>1, RoomAdvancesQuietly DEF RoomSwept
<1>3. CASE RoomAborted(r)
  <2>1. RoomAdvances(r, "aborted")
    BY <1>3 DEF RoomAborted, ReceiverDropped, RoomAdvances, Running, RoomPhase, Over
  <2> QED
    BY <1>3, <2>1, RoomAdvancesQuietly DEF RoomAborted
<1>4. CASE RoomSeals(r)
  <2>1. RoomAdvances(r, "sealed")
    BY <1>4 DEF RoomSeals, RoomAdvances, Running, RoomPhase, Over
  <2> QED
    BY <1>4, <2>1, RoomAdvancesSignalling DEF RoomSeals
<1>5. CASE RoomCloses(r)
  <2>1. RoomAdvances(r, "closed")
    BY <1>5 DEF RoomCloses, ReceiverDropped, RoomAdvances, Running, RoomPhase, Over
  <2> QED
    BY <1>5, <2>1, RoomAdvancesSignalling DEF RoomCloses
<1>6. CASE RoomTakesClient(r)
  BY <1>6, ListUntouched
<1> QED
  BY <1>1, <1>2, <1>3, <1>4, <1>5, <1>6 DEF RoomStep, RoomWindsDown
-----------------------------------------------------------------------------
(* The lobby lists a room.                                                 *)

LEMMA HostRoomKeepsList ==
  ASSUME UniqueCodes, ListInv, LobbyTypeInv', HostRoom
  PROVE  ListInv'
<1> USE DEF ListInv, LobbyTypeInv, LobbyTypeOK, RoomTypeOK, LobbyTaskTypeOK
<1>1. PICK r \in RoomId, k \in RoomCode :
        /\ phase[r] = "none"
        /\ FreshCode(k)
        /\ phase' = [phase EXCEPT ![r] = "open"]
        /\ codeOf' = [codeOf EXCEPT ![r] = k]
        /\ roomMap' = [roomMap EXCEPT ![k] = r]
  BY DEF HostRoom
<1>2. UNCHANGED <<lpc, isSealed, config, awaited, controls, doomed>>
  BY DEF HostRoom
<1>3. /\ \A s \in RoomId : phase'[s] = IF s = r THEN "open" ELSE phase[s]
      /\ \A s \in RoomId : codeOf'[s] = IF s = r THEN k ELSE codeOf[s]
      /\ \A j \in RoomCode : roomMap'[j] = IF j = k THEN r ELSE roomMap[j]
  BY <1>1
<1>4. \A s \in RoomId : phase[s] # "none" => codeOf[s] # k
  BY <1>1 DEF FreshCode
<1>5. k \notin Listed /\ Listed' = Listed \cup {k}
  BY <1>1, <1>3, NameAssumption DEF FreshCode, Listed
<1>6. r \notin doomed /\ r \notin isSealed
  BY <1>1 DEF RestRight, DoomedMeant, SealedMeant, Over
<1>7. CodesDiffer'
  BY <1>3, <1>4 DEF RoomsRight, CodesDiffer
<1>8. ListedRight'
  <2> SUFFICES ASSUME NEW j \in Listed'
               PROVE  (phase[roomMap[j]] # "none" /\ codeOf[roomMap[j]] = j
                         /\ roomMap[j] \notin doomed)'
    BY DEF ListedRight
  <2>1. CASE j = k
    BY <1>2, <1>3, <1>6, <2>1
  <2>2. CASE j # k
    <3>1. j \in Listed /\ roomMap'[j] = roomMap[j] /\ roomMap[j] \in RoomId
      BY <1>3, <1>5, <2>2 DEF Listed
    <3>2. phase[roomMap[j]] # "none" /\ codeOf[roomMap[j]] = j /\ roomMap[j] \notin doomed
      BY <3>1 DEF RoomsRight, ListedRight
    <3> QED
      BY <1>1, <1>2, <1>3, <3>1, <3>2
  <2> QED
    BY <2>1, <2>2
<1>9. RunningListed'
  <2> SUFFICES ASSUME NEW s \in RoomId, Running(s)', s \notin doomed
               PROVE  roomMap'[codeOf'[s]] = s
    BY <1>2 DEF RunningListed
  <2>1. CASE s = r
    BY <1>3, <2>1
  <2>2. CASE s # r
    <3>1. Running(s) /\ codeOf'[s] = codeOf[s]
      BY <1>3, <2>2 DEF Running
    <3>2. roomMap[codeOf[s]] = s /\ codeOf[s] # k /\ codeOf[s] \in RoomCode
      BY <1>4, <3>1 DEF RoomsRight, RunningListed, Running, CodesKnown
    <3> QED
      BY <1>3, <3>1, <3>2
  <2> QED
    BY <2>1, <2>2
<1>10. OverIsSaid'
  <2> SUFFICES ASSUME LobbyIsUp', NEW j \in Listed'
               PROVE  Running(roomMap[j])' \/ ClosePending(controls', j)
    BY DEF OverIsSaid
  <2>1. CASE j = k
    BY <1>3, <2>1 DEF Running
  <2>2. CASE j # k
    <3>1. j \in Listed /\ roomMap'[j] = roomMap[j] /\ roomMap[j] \in RoomId
      BY <1>3, <1>5, <2>2 DEF Listed
    <3>2. Running(roomMap[j]) \/ ClosePending(controls, j)
      BY <1>2, <3>1 DEF SignalsRight, OverIsSaid, LobbyIsUp
    <3> QED
      BY <1>2, <1>3, <3>1, <3>2 DEF Running
  <2> QED
    BY <2>1, <2>2
<1>11. SignalsMeant'
  <2> SUFFICES ASSUME NEW i \in 1..Len(controls) PROVE IsMeant(controls[i])'
    BY <1>2 DEF SignalsMeant
  <2>1. IsMeant(controls[i])
    BY DEF SignalsRight, SignalsMeant
  <2> QED
    BY <1>1, <1>2, <1>3, <2>1 DEF IsMeant, Over
<1>12. RestRight'
  <2>1. awaited \in RoomId /\ phase[awaited] = "closed" => phase'[awaited] = "closed"
    BY <1>1, <1>3
  <2>2. AwaitedOver'
    BY <1>2, <2>1 DEF RestRight, AwaitedOver
  <2>3. (SealedMeant /\ AbortMeant /\ DoomedMeant)'
    BY <1>2, <1>3, <1>6 DEF RestRight, SealedMeant, AbortMeant, DoomedMeant, Over
  <2> QED
    BY <2>2, <2>3 DEF RestRight
<1>13. ListedFew'
  <2>1. IsFiniteSet(Listed)
    BY ListedFinite DEF Listed
  <2>2. Cardinality(Listed) \in Nat /\ Cardinality(Listed') = Cardinality(Listed) + 1
    BY <1>5, <2>1, FS_CardinalityType, FS_AddElement
  <2>3. Cardinality(Listed) < config.rooms /\ config.rooms \in Nat
    BY LobbyLimitAssumption DEF HostRoom, RoomsLeft
  <2> QED
    BY <1>2, <2>2, <2>3 DEF ListedFew
<1> QED
  BY <1>7, <1>8, <1>9, <1>10, <1>11, <1>12, <1>13 DEF RoomsRight, SignalsRight
-----------------------------------------------------------------------------
(* The lobby reads a signal.                                               *)

\* A signal is taken from the channel: what the others say still holds.
LEMMA SignalTaken ==
  ASSUME ListInv, controls # <<>>, controls' = Tail(controls),
         UNCHANGED <<phase, codeOf>>
  PROVE  SignalsMeant'
<1> SUFFICES ASSUME NEW i \in 1..Len(controls') PROVE IsMeant(controls[i])'
  BY DEF SignalsMeant
<1>1. controls \in Seq(LobbyControl)
  BY DEF ListInv, LobbyTypeInv, LobbyTypeOK, QueueTypeOK
<1>2. i + 1 \in 1..Len(controls) /\ controls'[i] = controls[i + 1]
  BY <1>1
<1>3. IsMeant(controls[i + 1])
  BY <1>2 DEF ListInv, SignalsRight, SignalsMeant
<1> QED
  BY <1>2, <1>3 DEF IsMeant

\* Who sent the signal at the head.
LEMMA HeadIsMeant ==
  ASSUME ListInv, controls # <<>>
  PROVE  Head(controls) \in LobbyControl /\ IsMeant(Head(controls))
<1>1. controls \in Seq(LobbyControl)
  BY DEF ListInv, LobbyTypeInv, LobbyTypeOK, QueueTypeOK
<1>2. 1 \in 1..Len(controls) /\ Head(controls) = controls[1] /\ controls[1] \in LobbyControl
  BY <1>1
<1> QED
  BY <1>2 DEF ListInv, SignalsRight, SignalsMeant

\* The room listed under its code is the one that sent it.
LEMMA SenderIsListed ==
  ASSUME ListInv, controls # <<>>, NEW r, r = roomMap[Head(controls).code], r # NoRoom
  PROVE  /\ r \in RoomId /\ phase[r] \in Over
         /\ Head(controls).code \in Listed
         /\ Head(controls).kind = "close" => phase[r] = "closed"
<1>1. Head(controls).code \in RoomCode
  BY HeadIsMeant DEF LobbyControl
<1>2. Head(controls).code \in Listed /\ r \in RoomId
  BY <1>1 DEF Listed, ListInv, LobbyTypeInv, LobbyTypeOK, LobbyTaskTypeOK
<1>3. phase[r] # "none" /\ codeOf[r] = Head(controls).code
  BY <1>2 DEF ListInv, RoomsRight, ListedRight
<1>4. PICK s \in RoomId :
        codeOf[s] = Head(controls).code /\ phase[s] \in Over
          /\ (Head(controls).kind = "close" => phase[s] = "closed")
  BY HeadIsMeant DEF IsMeant
<1>5. s = r
  BY <1>2, <1>3, <1>4 DEF ListInv, RoomsRight, CodesDiffer, Over
<1> QED
  BY <1>2, <1>4, <1>5

LEMMA RecvSealKeepsList ==
  ASSUME ListInv, LobbyTypeInv', RecvSeal
  PROVE  ListInv'
<1>1. controls # <<>> /\ controls' = Tail(controls) /\ Head(controls).kind = "seal"
  BY DEF RecvSeal, TakeControl
<1>2. UNCHANGED <<lpc, roomMap, config, awaited, phase, codeOf, doomed>>
  BY DEF RecvSeal, TakeControl, roomVars
<1>3. SignalsMeant'
  BY <1>1, <1>2, SignalTaken
<1>4. OverIsSaid'
  <2> SUFFICES ASSUME LobbyIsUp, NEW k \in Listed, ~Running(roomMap[k])
               PROVE  ClosePending(controls', k)
    BY <1>2 DEF OverIsSaid, LobbyIsUp, Listed, Running
  <2>1. ClosePending(controls, k)
    BY DEF ListInv, SignalsRight, OverIsSaid
  <2>2. Head(controls) # [kind |-> "close", code |-> k]
    BY <1>1
  <2>3. controls \in Seq(LobbyControl)
    BY DEF ListInv, LobbyTypeInv, LobbyTypeOK, QueueTypeOK
  <2> QED
    BY <1>1, <2>1, <2>2, <2>3, PendingUntilTaken
<1>5. SealedMeant'
  <2>1. \A r \in isSealed : phase[r] \in Over
    BY DEF ListInv, RestRight, SealedMeant
  <2>2. \A r \in isSealed' : r \in isSealed \/ (r = roomMap[Head(controls).code] /\ r # NoRoom)
    BY DEF RecvSeal
  <2> QED
    BY <1>1, <1>2, <2>1, <2>2, SenderIsListed DEF SealedMeant
<1>6. (RoomsRight /\ AwaitedOver /\ AbortMeant /\ DoomedMeant /\ ListedFew)'
  BY <1>2 DEF ListInv, RoomsRight, RestRight, CodesDiffer, ListedRight, RunningListed,
              AwaitedOver, AbortMeant, DoomedMeant, ListedFew, Listed, Running
<1> QED
  BY <1>3, <1>4, <1>5, <1>6 DEF ListInv, SignalsRight, RestRight

LEMMA RecvCloseKeepsList ==
  ASSUME ListInv, LobbyTypeInv', RecvClose
  PROVE  ListInv'
<1> DEFINE code == Head(controls).code
           r == roomMap[code]
<1>1. controls # <<>> /\ controls' = Tail(controls) /\ Head(controls).kind = "close"
  BY DEF RecvClose, TakeControl
<1>2. UNCHANGED <<isSealed, config, phase, codeOf, doomed>>
  BY DEF RecvClose, TakeControl, roomVars
<1>3. code \in RoomCode /\ controls \in Seq(LobbyControl)
  BY <1>1, HeadIsMeant DEF LobbyControl, ListInv, LobbyTypeInv, LobbyTypeOK, QueueTypeOK
<1>4. roomMap \in [RoomCode -> RoomId \cup {NoRoom}]
  BY DEF ListInv, LobbyTypeInv, LobbyTypeOK, LobbyTaskTypeOK
<1>5. \/ /\ r # NoRoom
         /\ roomMap' = [roomMap EXCEPT ![code] = NoRoom]
         /\ awaited' = r /\ lpc' = "awaitRoom"
      \/ r = NoRoom /\ UNCHANGED <<roomMap, awaited, lpc>>
  BY DEF RecvClose
<1>6. LobbyIsUp
  BY DEF RecvClose, TakeControl, LobbyIsUp
<1>7. r # NoRoom => r \in RoomId /\ phase[r] = "closed"
  BY <1>1, SenderIsListed
<1> HIDE DEF code, r
<1>8. Listed' = Listed \ {code}
  BY <1>3, <1>4, <1>5 DEF Listed, r
<1>9. \A k \in Listed' : k \in Listed /\ k # code /\ roomMap'[k] = roomMap[k]
  BY <1>3, <1>4, <1>5, <1>8 DEF Listed
<1>10. (CodesDiffer /\ ListedRight)'
  BY <1>2, <1>9 DEF ListInv, RoomsRight, CodesDiffer, ListedRight
<1>11. RunningListed'
  <2> SUFFICES ASSUME NEW s \in RoomId, Running(s), s \notin doomed
               PROVE  roomMap'[codeOf[s]] = s
    BY <1>2 DEF RunningListed, Running
  <2>1. roomMap[codeOf[s]] = s /\ codeOf[s] \in RoomCode
    BY DEF ListInv, RoomsRight, RunningListed, LobbyTypeInv, CodesKnown, Running
  <2>2. codeOf[s] = code => s = r /\ r \in RoomId /\ r # NoRoom
    BY <2>1, NameAssumption DEF r
  <2>3. codeOf[s] # code
    BY <1>7, <2>2 DEF Running
  <2> QED
    BY <1>3, <1>4, <1>5, <2>1, <2>3
<1>12. SignalsMeant'
  BY <1>1, <1>2, SignalTaken
<1>13. OverIsSaid'
  <2> SUFFICES ASSUME NEW k \in Listed', ~Running(roomMap'[k])
               PROVE  ClosePending(controls', k)
    BY <1>2 DEF OverIsSaid, Running
  <2>1. k \in Listed /\ k # code /\ ~Running(roomMap[k])
    BY <1>9
  <2>2. ClosePending(controls, k)
    BY <1>6, <2>1 DEF ListInv, SignalsRight, OverIsSaid
  <2>3. Head(controls) # [kind |-> "close", code |-> k]
    BY <2>1 DEF code
  <2> QED
    BY <1>1, <1>3, <2>2, <2>3, PendingUntilTaken
<1>14. RestRight'
  <2>1. AwaitedOver'
    BY <1>2, <1>5, <1>7 DEF ListInv, RestRight, AwaitedOver
  <2> QED
    BY <1>2, <2>1 DEF ListInv, RestRight, SealedMeant, AbortMeant, DoomedMeant
<1>15. ListedFew'
  <2>1. IsFiniteSet(Listed) /\ Listed' \in SUBSET Listed
    BY <1>4, <1>8, ListedFinite DEF Listed
  <2>2. /\ IsFiniteSet(Listed')
        /\ Cardinality(Listed') <= Cardinality(Listed)
    BY <2>1, FS_Subset
  <2>3. Cardinality(Listed) \in Nat /\ Cardinality(Listed') \in Nat
    BY <2>1, <2>2, FS_CardinalityType
  <2>4. config.rooms \in Nat
    BY LobbyLimitAssumption DEF ListInv, LobbyTypeInv, LobbyTypeOK, LobbyTaskTypeOK
  <2> QED
    BY <1>2, <2>2, <2>3, <2>4 DEF ListInv, ListedFew
<1> QED
  BY <1>10, <1>11, <1>12, <1>13, <1>14, <1>15 DEF ListInv, RoomsRight, SignalsRight
-----------------------------------------------------------------------------
(* The lobby takes rooms off the list that are too many.                   *)

LEMMA ReconfigureKeepsList ==
  ASSUME ListInv, LobbyTypeInv', Reconfigure
  PROVE  ListInv'
<1> USE DEF ListInv, LobbyTypeInv, LobbyTypeOK, LobbyTaskTypeOK
<1>1. PICK new \in [rooms : RoomLimits, queue : QueueLimits], ks \in SUBSET Listed :
        /\ Cardinality(ks) = ExcessRooms(new.rooms)
        /\ config' = new
        /\ roomMap' = [k \in RoomCode |-> IF k \in ks THEN NoRoom ELSE roomMap[k]]
        /\ doomed' = doomed \cup {roomMap[k] : k \in ks}
  BY DEF Reconfigure
<1>2. UNCHANGED <<lpc, isSealed, awaited, controls, phase, codeOf>>
  BY DEF Reconfigure, queueVars
<1>3. Listed' = Listed \ ks /\ \A k \in Listed' : roomMap'[k] = roomMap[k]
  BY <1>1 DEF Listed
<1>4. \A k \in Listed : roomMap[k] \in RoomId /\ phase[roomMap[k]] # "none"
                          /\ codeOf[roomMap[k]] = k /\ roomMap[k] \notin doomed
  BY DEF RoomsRight, ListedRight, Listed
<1>5. ListedRight'
  <2> SUFFICES ASSUME NEW k \in Listed' PROVE roomMap[k] \notin doomed'
    BY <1>2, <1>3, <1>4 DEF ListedRight
  <2>1. k \in Listed /\ k \notin ks
    BY <1>3
  <2>2. \A j \in ks : roomMap[j] # roomMap[k]
    BY <1>4, <2>1
  <2> QED
    BY <1>1, <1>4, <2>1, <2>2
<1>6. RunningListed'
  <2> SUFFICES ASSUME NEW s \in RoomId, Running(s), s \notin doomed'
               PROVE  roomMap'[codeOf[s]] = s
    BY <1>2 DEF RunningListed, Running
  <2>1. roomMap[codeOf[s]] = s /\ codeOf[s] \in RoomCode
    BY <1>1 DEF RoomsRight, RunningListed, CodesKnown, Running
  <2>2. codeOf[s] \notin ks
    BY <1>1, <2>1
  <2> QED
    BY <1>1, <2>1, <2>2
<1>7. SignalsRight'
  <2>1. SignalsMeant'
    BY <1>2 DEF SignalsRight, SignalsMeant, IsMeant
  <2>2. OverIsSaid'
    BY <1>2, <1>3 DEF SignalsRight, OverIsSaid, LobbyIsUp, Running
  <2> QED
    BY <2>1, <2>2 DEF SignalsRight
<1>8. RestRight'
  <2>1. doomed \subseteq doomed'
    BY <1>1
  <2>2. DoomedMeant'
    BY <1>1, <1>2, <1>4 DEF RestRight, DoomedMeant
  <2> QED
    BY <1>2, <2>1, <2>2 DEF RestRight, AwaitedOver, SealedMeant, AbortMeant
<1>9. ListedFew'
  <2>1. IsFiniteSet(Listed)
    BY ListedFinite DEF Listed
  <2>2. Listed \cap ks = ks
    BY <1>1
  <2>3. Cardinality(Listed') = Cardinality(Listed) - Cardinality(ks)
    BY <1>3, <2>1, <2>2, FS_Difference
  <2>4. Cardinality(Listed) \in Nat
    BY <2>1, FS_CardinalityType
  <2>5. new.rooms \in Nat
    BY LobbyLimitAssumption
  <2>6. Cardinality(Listed) - ExcessRooms(new.rooms) <= new.rooms
    BY <2>4, <2>5 DEF ExcessRooms
  <2> QED
    BY <1>1, <2>3, <2>6 DEF ListedFew
<1>10. CodesDiffer'
  BY <1>2 DEF RoomsRight, CodesDiffer
<1> QED
  BY <1>5, <1>6, <1>7, <1>8, <1>9, <1>10 DEF RoomsRight
-----------------------------------------------------------------------------
(* The lobby has awaited the room, or winds down.                          *)

LEMMA WindingDownKeepsList ==
  ASSUME ListInv, LobbyTypeInv',
         RoomAwaited \/ LobbyHearsShutdown \/ LobbyWindsDown
  PROVE  ListInv'
<1>1. UNCHANGED <<roomMap, isSealed, config, phase, codeOf, doomed>>
  BY DEF RoomAwaited, LobbyHearsShutdown, LobbyWindsDown, DrainRequests, DrainControls,
         LobbyStops, roomVars
<1>2. lpc' # "awaitRoom" /\ (LobbyIsUp' => LobbyIsUp /\ UNCHANGED controls)
  BY DEF RoomAwaited, LobbyHearsShutdown, LobbyWindsDown, DrainRequests, DrainControls,
         LobbyStops, LobbyIsUp, queueVars
<1>3. SignalsMeant'
  <2>1. CASE UNCHANGED controls
    BY <1>1, <2>1 DEF ListInv, SignalsRight, SignalsMeant, IsMeant
  <2>2. CASE controls # <<>> /\ controls' = Tail(controls)
    BY <1>1, <2>2, SignalTaken
  <2> QED
    BY <2>1, <2>2 DEF RoomAwaited, LobbyHearsShutdown, LobbyWindsDown, DrainRequests,
                      DrainControls, LobbyStops, queueVars
<1>4. OverIsSaid'
  BY <1>1, <1>2 DEF ListInv, SignalsRight, OverIsSaid, Listed, Running
<1>5. (RoomsRight /\ RestRight /\ ListedFew)'
  BY <1>1, <1>2 DEF ListInv, RoomsRight, RestRight, CodesDiffer, ListedRight,
                    RunningListed, AwaitedOver, SealedMeant, AbortMeant, DoomedMeant,
                    ListedFew, Listed, Running
<1> QED
  BY <1>3, <1>4, <1>5 DEF ListInv, SignalsRight
-----------------------------------------------------------------------------
LEMMA NextKeepsList ==
  ASSUME UniqueCodes, ListInv, [Next]_lobbyAndAll
  PROVE  ListInv'
<1>1. LobbyTypeInv'
  BY LobbyStepTypes DEF ListInv
<1>2. CASE LobbyStep
  BY <1>1, <1>2, ListUntouched, HostRoomKeepsList, RecvSealKeepsList, RecvCloseKeepsList,
     ReconfigureKeepsList, WindingDownKeepsList
  DEF LobbyStep, LobbyServes
<1>3. ASSUME NEW r \in RoomId, RoomStep(r) PROVE ListInv'
  BY <1>1, <1>3, RoomStepKeepsList
<1> QED
  BY <1>1, <1>2, <1>3, ListUntouched DEF Next, Finished

\* ListInv is an invariant.
THEOREM ListInvariant ==
  ASSUME UniqueCodes
  PROVE  Spec => []ListInv
<1>1. ListInv /\ [Next]_lobbyAndAll => ListInv'
  BY NextKeepsList
<1> QED
  BY <1>1, ListInit, PTL DEF Spec

\* room_map follows the rooms, however many there are: one that runs and was not
\* aborted is listed under its code, and one that is listed though it has ended
\* has said CloseRoom.
THEOREM ListFollowsRooms ==
  ASSUME UniqueCodes
  PROVE  Spec => []RoomsAreListed
<1>1. ASSUME ListInv PROVE RoomsAreListed
  <2> SUFFICES ASSUME LobbyIsUp, NEW k \in Listed, ~Running(roomMap[k])
               PROVE  [kind |-> "close", code |-> k] \in ToSet(controls)
    BY <1>1 DEF RoomsAreListed, ListInv, RoomsRight, RunningListed
  <2>1. ClosePending(controls, k)
    BY <1>1 DEF ListInv, SignalsRight, OverIsSaid
  <2> QED
    BY <2>1 DEF ClosePending, ToSet
<1> QED
  BY <1>1, ListInvariant, PTL

\* The lobby never awaits a room whose task has not ended.
THEOREM OnlyEndedAwaited ==
  ASSUME UniqueCodes
  PROVE  Spec => []AwaitedRoomIsDone
<1>1. ListInv => AwaitedRoomIsDone
  BY DEF ListInv, RestRight, AwaitedOver, AwaitedRoomIsDone, Running
<1> QED
  BY <1>1, ListInvariant, PTL

\* The rooms that run, those told to abort not counted, are at most max_rooms:
\* each has an entry of its own in room_map.
THEOREM RoomLimitKept ==
  ASSUME UniqueCodes
  PROVE  Spec => []RoomsWithinLimit
<1>1. ASSUME ListInv PROVE RoomsWithinLimit
  <2> DEFINE R == {r \in RoomId : Running(r) /\ r \notin doomed}
             f == [r \in R |-> codeOf[r]]
  <2>1. \A r \in R : codeOf[r] \in Listed /\ roomMap[codeOf[r]] = r
    BY <1>1, NameAssumption
    DEF ListInv, RoomsRight, RunningListed, Listed, LobbyTypeInv, CodesKnown, Running
  <2>2. f \in Injection(R, Listed)
    BY <2>1 DEF Injection, IsInjective
  <2>3. IsFiniteSet(Listed)
    BY <1>1, ListedFinite DEF ListInv, LobbyTypeInv, LobbyTypeOK, LobbyTaskTypeOK, Listed
  <2>4. IsFiniteSet(R) /\ Cardinality(R) <= Cardinality(Listed)
    BY <2>2, <2>3, FS_Injection
  <2>5. Cardinality(R) \in Nat /\ Cardinality(Listed) \in Nat
    BY <2>3, <2>4, FS_CardinalityType
  <2>6. config.rooms \in Nat
    BY <1>1, LobbyLimitAssumption DEF ListInv, LobbyTypeInv, LobbyTypeOK, LobbyTaskTypeOK
  <2> QED
    BY <1>1, <2>4, <2>5, <2>6 DEF RoomsWithinLimit, ListInv, ListedFew
<1> QED
  BY <1>1, ListInvariant, PTL
-----------------------------------------------------------------------------
(* room_map implements RoomLifecycle for every room: what the lobby lists  *)
(* never runs ahead of what the room does.  It rests on the order of a     *)
(* room's two signals, SealRoom before CloseRoom (SealedFirst).            *)

\* SealRoom is on its way for code k, ahead of any CloseRoom.
SealAhead(queue, k) ==
  \E i \in 1..Len(queue) :
    /\ queue[i] = [kind |-> "seal", code |-> k]
    /\ \A j \in 1..Len(queue) : queue[j] = [kind |-> "close", code |-> k] => i < j

\* The lobby knows, or is told next, that a listed room is sealed.
SealedFirst ==
  LobbyIsUp =>
    \A k \in Listed :
      phase[roomMap[k]] \in Over => roomMap[k] \in isSealed \/ SealAhead(controls, k)

SealInv == ListInv /\ SealedFirst
-----------------------------------------------------------------------------
LEMMA AheadKept ==
  ASSUME NEW queue \in Seq(LobbyControl), NEW signal \in LobbyControl, NEW k
  PROVE  /\ SealAhead(queue, k) => SealAhead(Append(queue, signal), k)
         /\ signal = [kind |-> "seal", code |-> k] /\ ~ClosePending(queue, k)
              => SealAhead(Append(queue, signal), k)
<1> DEFINE longer == Append(queue, signal)
<1>1. /\ Len(longer) = Len(queue) + 1 /\ Len(queue) \in Nat
      /\ longer[Len(queue) + 1] = signal
      /\ \A i \in 1..Len(queue) : longer[i] = queue[i]
  OBVIOUS
<1> HIDE DEF longer
<1>2. \A j \in 1..Len(longer) : j \in 1..Len(queue) \/ j = Len(queue) + 1
  BY <1>1
<1>3. ASSUME SealAhead(queue, k) PROVE SealAhead(longer, k)
  <2>1. PICK i \in 1..Len(queue) :
          /\ queue[i] = [kind |-> "seal", code |-> k]
          /\ \A j \in 1..Len(queue) : queue[j] = [kind |-> "close", code |-> k] => i < j
    BY <1>3 DEF SealAhead
  <2>2. i \in 1..Len(longer) /\ longer[i] = [kind |-> "seal", code |-> k]
    BY <1>1, <2>1
  <2>3. ASSUME NEW j \in 1..Len(longer), longer[j] = [kind |-> "close", code |-> k]
        PROVE  i < j
    <3>1. CASE j \in 1..Len(queue)
      BY <1>1, <2>1, <2>3, <3>1
    <3>2. CASE j = Len(queue) + 1
      BY <1>1, <3>2
    <3> QED
      BY <1>2, <3>1, <3>2
  <2> QED
    BY <2>2, <2>3 DEF SealAhead
<1>4. ASSUME signal = [kind |-> "seal", code |-> k], ~ClosePending(queue, k)
      PROVE  SealAhead(longer, k)
  <2>1. Len(queue) + 1 \in 1..Len(longer)
    BY <1>1
  <2>2. ASSUME NEW j \in 1..Len(longer), longer[j] = [kind |-> "close", code |-> k]
        PROVE  FALSE
    <3>1. j \notin 1..Len(queue)
      BY <1>1, <1>4, <2>2 DEF ClosePending
    <3>2. longer[j] = [kind |-> "seal", code |-> k]
      BY <1>1, <1>2, <1>4, <3>1
    <3>3. [kind |-> "seal", code |-> k] # [kind |-> "close", code |-> k]
      OBVIOUS
    <3> QED
      BY <2>2, <3>2, <3>3
  <2> QED
    BY <1>1, <1>4, <2>1, <2>2 DEF SealAhead
<1> QED
  BY <1>3, <1>4 DEF longer

LEMMA AheadUntilTaken ==
  ASSUME NEW queue \in Seq(LobbyControl), queue # <<>>, NEW k, SealAhead(queue, k),
         Head(queue) # [kind |-> "seal", code |-> k]
  PROVE  SealAhead(Tail(queue), k)
<1> DEFINE rest == Tail(queue)
<1>1. /\ Len(rest) = Len(queue) - 1 /\ Len(queue) \in Nat \ {0}
      /\ Head(queue) = queue[1]
      /\ \A i \in 1..Len(rest) : i + 1 \in 1..Len(queue) /\ rest[i] = queue[i + 1]
  OBVIOUS
<1> HIDE DEF rest
<1>2. PICK i \in 1..Len(queue) :
        /\ queue[i] = [kind |-> "seal", code |-> k]
        /\ \A j \in 1..Len(queue) : queue[j] = [kind |-> "close", code |-> k] => i < j
  BY DEF SealAhead
<1>3. i # 1
  BY <1>1, <1>2
<1>4. i - 1 \in 1..Len(rest) /\ (i - 1) + 1 = i
  BY <1>1, <1>3
<1>5. rest[i - 1] = [kind |-> "seal", code |-> k]
  BY <1>1, <1>2, <1>4
<1>6. ASSUME NEW j \in 1..Len(rest), rest[j] = [kind |-> "close", code |-> k]
      PROVE  i - 1 < j
  <2>1. j + 1 \in 1..Len(queue) /\ queue[j + 1] = [kind |-> "close", code |-> k]
    BY <1>1, <1>6
  <2>2. i < j + 1
    BY <1>2, <2>1
  <2> QED
    BY <2>2
<1> QED
  BY <1>4, <1>5, <1>6 DEF SealAhead, rest

\* At the head of the channel there is no CloseRoom before its SealRoom.
LEMMA HeadComesLast ==
  ASSUME NEW queue \in Seq(LobbyControl), queue # <<>>, NEW k,
         Head(queue) = [kind |-> "close", code |-> k]
  PROVE  ~SealAhead(queue, k)
<1>1. 1 \in 1..Len(queue) /\ queue[1] = [kind |-> "close", code |-> k]
  OBVIOUS
<1>2. \A i \in 1..Len(queue) : ~(i < 1)
  OBVIOUS
<1> QED
  BY <1>1, <1>2 DEF SealAhead
-----------------------------------------------------------------------------
(* SealedFirst is kept.                                                    *)

LEMMA SealedInit == Init => SealedFirst
BY DEF Init, SealedFirst, Listed

\* Steps after which no more rooms are listed and none is further.
LEMMA SealedUndisturbed ==
  ASSUME SealInv, LobbyIsUp' => LobbyIsUp /\ UNCHANGED controls,
         UNCHANGED <<isSealed, phase>>,
         \A k \in Listed' : k \in Listed /\ roomMap'[k] = roomMap[k]
  PROVE  SealedFirst'
BY DEF SealInv, SealedFirst

LEMMA HostRoomKeepsSealed ==
  ASSUME SealInv, HostRoom
  PROVE  SealedFirst'
<1>1. PICK r \in RoomId, k \in RoomCode :
        /\ phase[r] = "none"
        /\ phase' = [phase EXCEPT ![r] = "open"]
        /\ roomMap' = [roomMap EXCEPT ![k] = r]
  BY DEF HostRoom
<1>2. UNCHANGED <<lpc, isSealed, controls>>
  BY DEF HostRoom
<1>3. /\ \A s \in RoomId : phase'[s] = IF s = r THEN "open" ELSE phase[s]
      /\ \A j \in RoomCode : roomMap'[j] = IF j = k THEN r ELSE roomMap[j]
  BY <1>1 DEF SealInv, ListInv, LobbyTypeInv, LobbyTypeOK, RoomTypeOK, LobbyTaskTypeOK
<1> SUFFICES ASSUME LobbyIsUp, NEW j \in Listed', phase'[roomMap'[j]] \in Over
             PROVE  roomMap'[j] \in isSealed \/ SealAhead(controls, j)
  BY <1>2 DEF SealedFirst, LobbyIsUp
<1>4. j # k
  BY <1>3 DEF Over, Listed
<1>5. j \in Listed /\ roomMap'[j] = roomMap[j] /\ roomMap[j] \in RoomId
  BY <1>3, <1>4 DEF Listed, SealInv, ListInv, LobbyTypeInv, LobbyTypeOK, LobbyTaskTypeOK
<1>6. phase[roomMap[j]] \in Over
  BY <1>3, <1>5 DEF Over
<1> QED
  BY <1>5, <1>6 DEF SealInv, SealedFirst

LEMMA ControlKeepsSealed ==
  ASSUME SealInv, RecvSeal \/ RecvClose
  PROVE  SealedFirst'
<1> DEFINE code == Head(controls).code
<1>1. controls # <<>> /\ controls' = Tail(controls) /\ LobbyIsUp /\ UNCHANGED phase
  BY DEF RecvSeal, RecvClose, TakeControl, LobbyIsUp, roomVars
<1>2. controls \in Seq(LobbyControl) /\ code \in RoomCode
  BY <1>1, HeadIsMeant
  DEF SealInv, ListInv, LobbyTypeInv, LobbyTypeOK, QueueTypeOK, LobbyControl
<1>3. isSealed \subseteq isSealed'
  BY DEF RecvSeal, RecvClose
<1> SUFFICES ASSUME NEW k \in Listed', phase[roomMap'[k]] \in Over
             PROVE  roomMap'[k] \in isSealed' \/ SealAhead(controls', k)
  BY <1>1 DEF SealedFirst
<1>4. k \in Listed /\ roomMap'[k] = roomMap[k] /\ (RecvClose => k # code)
  BY <1>2 DEF RecvSeal, RecvClose, Listed, SealInv, ListInv, LobbyTypeInv, LobbyTypeOK,
              LobbyTaskTypeOK
<1>5. roomMap[k] \in isSealed \/ SealAhead(controls, k)
  BY <1>1, <1>4 DEF SealInv, SealedFirst
<1>6. CASE Head(controls) = [kind |-> "seal", code |-> k]
  <2>1. ~RecvClose /\ code = k
    BY <1>6 DEF RecvClose, TakeControl
  <2>2. roomMap[k] # NoRoom
    BY <1>4 DEF Listed
  <2> QED
    BY <1>4, <2>1, <2>2 DEF RecvSeal
<1>7. CASE Head(controls) # [kind |-> "seal", code |-> k]
  BY <1>1, <1>2, <1>3, <1>4, <1>5, <1>7, AheadUntilTaken
<1> QED
  BY <1>6, <1>7

\* The room listed under k has said CloseRoom only when it is closed.
LEMMA CloseMeansClosed ==
  ASSUME ListInv, NEW k \in Listed, ClosePending(controls, k)
  PROVE  phase[roomMap[k]] = "closed"
<1>1. PICK i \in 1..Len(controls) : controls[i] = [kind |-> "close", code |-> k]
  BY DEF ClosePending
<1>2. IsMeant(controls[i])
  BY DEF ListInv, SignalsRight, SignalsMeant
<1>3. controls[i].kind = "close" /\ controls[i].code = k
  BY <1>1
<1>4. PICK s \in RoomId : codeOf[s] = k /\ phase[s] = "closed"
  BY <1>2, <1>3 DEF IsMeant
<1>5. /\ roomMap[k] \in RoomId
      /\ phase[roomMap[k]] # "none" /\ codeOf[roomMap[k]] = k
  BY DEF ListInv, RoomsRight, ListedRight, Listed, LobbyTypeInv, LobbyTypeOK,
         LobbyTaskTypeOK
<1>6. roomMap[k] = s
  BY <1>4, <1>5 DEF ListInv, RoomsRight, CodesDiffer
<1> QED
  BY <1>4, <1>6

LEMMA RoomStepKeepsSealed ==
  ASSUME SealInv, NEW r \in RoomId, RoomStep(r)
  PROVE  SealedFirst'
<1>1. UNCHANGED <<lpc, roomMap, isSealed, codeOf, doomed>>
  BY DEF RoomStep, RoomWindsDown, RoomBeginsClosing, RoomTakesClient, RoomSeals, RoomSwept,
         RoomCloses, RoomAborted, lobbyVars
<1> SUFFICES ASSUME LobbyIsUp, NEW k \in Listed, phase'[roomMap[k]] \in Over
             PROVE  roomMap[k] \in isSealed \/ SealAhead(controls', k)
  BY <1>1 DEF SealedFirst, LobbyIsUp, Listed
<1>2. /\ roomMap[k] \in RoomId /\ k \in RoomCode /\ roomMap[k] \notin doomed
      /\ codeOf[roomMap[k]] = k
  BY DEF SealInv, ListInv, RoomsRight, ListedRight, Listed, LobbyTypeInv, LobbyTypeOK,
         LobbyTaskTypeOK
<1>3. controls \in Seq(LobbyControl) /\ phase \in [RoomId -> RoomPhase]
  BY DEF SealInv, ListInv, LobbyTypeInv, LobbyTypeOK, QueueTypeOK, RoomTypeOK
<1>4. phase[roomMap[k]] \in Over => roomMap[k] \in isSealed \/ SealAhead(controls, k)
  BY DEF SealInv, SealedFirst
<1>5. CASE RoomSeals(r)
  <2>1. PICK signal \in LobbyControl : signal = [kind |-> "seal", code |-> codeOf[r]]
    BY <1>5 DEF RoomSeals, SealInv, ListInv, LobbyTypeInv, CodesKnown, LobbyControl
  <2>2. controls' = Append(controls, signal)
    BY <1>5, <2>1 DEF RoomSeals
  <2>3. CASE roomMap[k] = r
    <3>1. phase[roomMap[k]] = "closing"
      BY <1>5, <2>3 DEF RoomSeals
    <3>2. ~ClosePending(controls, k)
      BY <3>1, CloseMeansClosed DEF SealInv
    <3> QED
      BY <1>2, <1>3, <2>1, <2>2, <2>3, <3>2, AheadKept
  <2>4. CASE roomMap[k] # r
    <3>1. phase[roomMap[k]] \in Over
      BY <1>2, <1>3, <1>5, <2>4 DEF RoomSeals, RoomGoto
    <3> QED
      BY <1>3, <1>4, <2>2, <3>1, AheadKept
  <2> QED
    BY <2>3, <2>4
<1>6. CASE RoomCloses(r)
  <2>1. PICK signal \in LobbyControl : signal = [kind |-> "close", code |-> codeOf[r]]
    BY <1>6 DEF RoomCloses, SealInv, ListInv, LobbyTypeInv, CodesKnown, LobbyControl
  <2>2. controls' = Append(controls, signal)
    BY <1>6, <2>1 DEF RoomCloses
  <2>3. phase[roomMap[k]] \in Over
    BY <1>2, <1>3, <1>6 DEF RoomCloses, RoomGoto, Over
  <2> QED
    BY <1>3, <1>4, <2>2, <2>3, AheadKept
<1>7. CASE RoomBeginsClosing(r) \/ RoomTakesClient(r) \/ RoomSwept(r) \/ RoomAborted(r)
  <2>1. UNCHANGED controls
    BY <1>7 DEF RoomBeginsClosing, RoomTakesClient, RoomSwept, RoomAborted, queueVars
  <2>2. phase[roomMap[k]] \in Over
    BY <1>2, <1>3, <1>7 DEF RoomBeginsClosing, RoomTakesClient, RoomSwept, RoomAborted,
                            RoomGoto, Over
  <2> QED
    BY <1>4, <2>1, <2>2
<1> QED
  BY <1>5, <1>6, <1>7 DEF RoomStep, RoomWindsDown

LEMMA OthersKeepSealed ==
  ASSUME SealInv,
         \/ NewConnection \/ RefuseConnection \/ SendToRoom \/ RefuseRequest \/ DropClient
         \/ Reconfigure \/ RoomAwaited \/ LobbyHearsShutdown \/ LobbyWindsDown
         \/ \E c \in Client : ClientStep(c)
         \/ ServerStep \/ Shutdown \/ UNCHANGED lobbyAndAll
  PROVE  SealedFirst'
<1> USE DEF lobbyVars, queueVars, clientVars, roomVars, serverVars
<1>1. CASE NewConnection \/ RefuseConnection
  BY <1>1, SealedUndisturbed DEF NewConnection, RefuseConnection, LobbyIsUp, Listed
<1>2. CASE SendToRoom \/ RefuseRequest \/ DropClient
  BY <1>2, SealedUndisturbed DEF SendToRoom, RefuseRequest, DropClient, LobbyIsUp, Listed
<1>3. CASE Reconfigure
  BY <1>3, SealedUndisturbed DEF Reconfigure, LobbyIsUp, Listed
<1>4. CASE RoomAwaited \/ LobbyHearsShutdown \/ LobbyWindsDown
  BY <1>4, SealedUndisturbed DEF RoomAwaited, LobbyHearsShutdown, LobbyWindsDown,
     DrainRequests, DrainControls, LobbyStops, LobbyIsUp, Listed
<1>5. ASSUME NEW c \in Client, ClientStep(c) PROVE SealedFirst'
  <2>1. UNCHANGED <<lpc, roomMap, isSealed, controls, phase>>
    BY <1>5 DEF ClientStep, ClientAsks, ClientTimesOut, PostRequest, Accept, Established,
       UnblockConnection, ConnectionFails, AcceptEnds, UnblockRequest, SendCloseDone,
       LeavesRoom, HandshakeOver
  <2> QED
    BY <2>1, SealedUndisturbed DEF LobbyIsUp, Listed
<1>6. CASE ServerStep \/ Shutdown
  BY <1>6, SealedUndisturbed
  DEF ServerStep, SpawnLobby, ServerHearsShutdown, AcceptsAwaited, LobbyAwaited,
      ConfigAwaited, ServerGoto, Shutdown, LobbyIsUp, Listed
<1>7. CASE UNCHANGED lobbyAndAll
  BY <1>7, SealedUndisturbed DEF lobbyAndAll, LobbyIsUp, Listed
<1> QED
  BY <1>1, <1>2, <1>3, <1>4, <1>5, <1>6, <1>7

LEMMA NextKeepsSealed ==
  ASSUME UniqueCodes, SealInv, [Next]_lobbyAndAll
  PROVE  SealInv'
<1>1. ListInv'
  BY NextKeepsList DEF SealInv
<1>2. SealedFirst'
  BY HostRoomKeepsSealed, ControlKeepsSealed, RoomStepKeepsSealed, OthersKeepSealed
  DEF Next, Finished, LobbyStep, LobbyServes
<1> QED
  BY <1>1, <1>2 DEF SealInv

\* SealInv is an invariant.
THEOREM SealInvariant ==
  ASSUME UniqueCodes
  PROVE  Spec => []SealInv
<1>1. Init => SealInv
  BY ListInit, SealedInit DEF SealInv
<1>2. SealInv /\ [Next]_lobbyAndAll => SealInv'
  BY NextKeepsSealed
<1> QED
  BY <1>1, <1>2, PTL DEF Spec
-----------------------------------------------------------------------------
(* Each signal is said once, and the list knows of it only when it was     *)
(* heard.                                                                  *)

NoRepeats(queue) == \A i, j \in 1..Len(queue) : queue[i] = queue[j] => i = j

SealOf(r) == [kind |-> "seal", code |-> codeOf[r]]
CloseOf(r) == [kind |-> "close", code |-> codeOf[r]]

\* The lobby lists a room as sealed when it has heard its SealRoom.
HeardFirst == \A r \in isSealed : SealOf(r) \notin ToSet(controls)

OnceInv == SealInv /\ NoRepeats(controls) /\ HeardFirst

LEMMA SetOfAppend ==
  ASSUME NEW queue \in Seq(LobbyControl), NEW signal \in LobbyControl
  PROVE  /\ ToSet(Append(queue, signal)) = ToSet(queue) \cup {signal}
         /\ NoRepeats(queue) /\ signal \notin ToSet(queue)
              => NoRepeats(Append(queue, signal))
<1> DEFINE longer == Append(queue, signal)
<1>1. /\ Len(queue) \in Nat /\ DOMAIN queue = 1..Len(queue)
      /\ DOMAIN longer = 1..(Len(queue) + 1) /\ Len(longer) = Len(queue) + 1
      /\ longer[Len(queue) + 1] = signal
      /\ \A i \in 1..Len(queue) : longer[i] = queue[i]
  OBVIOUS
<1> HIDE DEF longer
<1>2. DOMAIN longer = DOMAIN queue \cup {Len(queue) + 1}
  BY <1>1
<1>3. ToSet(longer) = {longer[i] : i \in DOMAIN queue} \cup {longer[Len(queue) + 1]}
  BY <1>2 DEF ToSet
<1>4. {longer[i] : i \in DOMAIN queue} = ToSet(queue)
  BY <1>1 DEF ToSet
<1>5. ASSUME NoRepeats(queue), signal \notin ToSet(queue)
      PROVE  NoRepeats(longer)
  <2>1. \A i \in 1..Len(queue) : longer[i] # signal
    BY <1>1, <1>5 DEF ToSet
  <2> QED
    BY <1>1, <1>5, <2>1 DEF NoRepeats
<1> QED
  BY <1>1, <1>3, <1>4, <1>5 DEF longer

LEMMA SetOfTail ==
  ASSUME NEW queue \in Seq(LobbyControl), queue # <<>>, NoRepeats(queue)
  PROVE  /\ Head(queue) \in ToSet(queue)
         /\ ToSet(Tail(queue)) = ToSet(queue) \ {Head(queue)}
         /\ NoRepeats(Tail(queue))
<1> DEFINE rest == Tail(queue)
<1>1. /\ Len(queue) \in Nat \ {0} /\ DOMAIN queue = 1..Len(queue)
      /\ Len(rest) = Len(queue) - 1 /\ DOMAIN rest = 1..(Len(queue) - 1)
      /\ Head(queue) = queue[1]
      /\ \A i \in 1..(Len(queue) - 1) : rest[i] = queue[i + 1]
  OBVIOUS
<1> HIDE DEF rest
<1>2. Head(queue) \in ToSet(queue)
  BY <1>1 DEF ToSet
<1>3. ASSUME NEW signal \in ToSet(rest) PROVE signal \in ToSet(queue) \ {Head(queue)}
  <2>1. PICK i \in 1..(Len(queue) - 1) : signal = queue[i + 1]
    BY <1>1, <1>3 DEF ToSet
  <2>2. i + 1 \in 1..Len(queue) /\ 1 \in 1..Len(queue) /\ i + 1 # 1
    BY <1>1
  <2>3. queue[i + 1] # queue[1]
    BY <2>2 DEF NoRepeats
  <2> QED
    BY <1>1, <2>1, <2>2, <2>3 DEF ToSet
<1>4. ASSUME NEW signal \in ToSet(queue), signal # Head(queue) PROVE signal \in ToSet(rest)
  <2>1. PICK i \in 1..Len(queue) : signal = queue[i]
    BY <1>1 DEF ToSet
  <2>2. i - 1 \in 1..(Len(queue) - 1) /\ (i - 1) + 1 = i
    BY <1>1, <1>4, <2>1
  <2>3. rest[i - 1] = signal
    BY <1>1, <2>1, <2>2
  <2> QED
    BY <1>1, <2>2, <2>3 DEF ToSet
<1>5. ToSet(rest) = ToSet(queue) \ {Head(queue)}
  BY <1>3, <1>4
<1>6. NoRepeats(rest)
  <2> SUFFICES ASSUME NEW i \in 1..Len(rest), NEW j \in 1..Len(rest), rest[i] = rest[j]
               PROVE  i = j
    BY DEF NoRepeats
  <2>1. i + 1 \in 1..Len(queue) /\ j + 1 \in 1..Len(queue) /\ queue[i + 1] = queue[j + 1]
    BY <1>1
  <2>2. i + 1 = j + 1
    BY <2>1 DEF NoRepeats
  <2> QED
    BY <1>1, <2>2
<1> QED
  BY <1>2, <1>5, <1>6 DEF rest

\* What is on its way was said by a room that is so far.
LEMMA OnItsWay ==
  ASSUME ListInv, NEW signal \in ToSet(controls)
  PROVE  signal \in LobbyControl /\ IsMeant(signal)
<1>1. PICK i \in 1..Len(controls) : signal = controls[i]
  BY DEF ToSet, ListInv, LobbyTypeInv, LobbyTypeOK, QueueTypeOK
<1>2. controls[i] \in LobbyControl
  BY DEF ListInv, LobbyTypeInv, LobbyTypeOK, QueueTypeOK
<1> QED
  BY <1>1, <1>2 DEF ListInv, SignalsRight, SignalsMeant

LEMMA NotYetSaid ==
  ASSUME ListInv, NEW r \in RoomId, phase[r] # "none"
  PROVE  /\ phase[r] \notin Over => SealOf(r) \notin ToSet(controls)
         /\ phase[r] # "closed" => CloseOf(r) \notin ToSet(controls)
<1>1. ASSUME NEW signal \in ToSet(controls), signal.code = codeOf[r]
      PROVE  phase[r] \in Over /\ (signal.kind = "close" => phase[r] = "closed")
  <2>1. PICK s \in RoomId :
          codeOf[s] = signal.code /\ phase[s] \in Over
            /\ (signal.kind = "close" => phase[s] = "closed")
    BY OnItsWay DEF IsMeant
  <2>2. s = r
    BY <1>1, <2>1 DEF ListInv, RoomsRight, CodesDiffer, Over
  <2> QED
    BY <2>1, <2>2
<1>2. SealOf(r).code = codeOf[r] /\ CloseOf(r).code = codeOf[r] /\ CloseOf(r).kind = "close"
  BY DEF SealOf, CloseOf
<1> QED
  BY <1>1, <1>2

LEMMA CodesOfRooms ==
  ASSUME ListInv, NEW r \in RoomId, phase[r] # "none"
  PROVE  SealOf(r) \in LobbyControl /\ CloseOf(r) \in LobbyControl
BY DEF ListInv, LobbyTypeInv, CodesKnown, LobbyControl, SealOf, CloseOf

\* A room says its next signal.
LEMMA SayingKeepsOnce ==
  ASSUME OnceInv, NEW r \in RoomId, UNCHANGED <<isSealed, codeOf>>,
         \/ phase[r] = "closing" /\ controls' = Append(controls, SealOf(r))
         \/ phase[r] = "swept" /\ controls' = Append(controls, CloseOf(r))
  PROVE  NoRepeats(controls)' /\ HeardFirst'
<1>1. ListInv /\ controls \in Seq(LobbyControl)
  BY DEF OnceInv, SealInv, ListInv, LobbyTypeInv, LobbyTypeOK, QueueTypeOK
<1>2. PICK signal \in LobbyControl :
        /\ controls' = Append(controls, signal) /\ signal \notin ToSet(controls)
        /\ (signal = SealOf(r) /\ phase[r] = "closing") \/ signal = CloseOf(r)
  BY <1>1, NotYetSaid, CodesOfRooms DEF Over
<1>3. ToSet(controls') = ToSet(controls) \cup {signal} /\ NoRepeats(controls')
  BY <1>1, <1>2, SetOfAppend DEF OnceInv
<1>4. \A s \in isSealed : SealOf(s) # signal
  <2> SUFFICES ASSUME NEW s \in isSealed, SealOf(s) = signal PROVE FALSE
    OBVIOUS
  <2>1. s \in RoomId /\ phase[s] \in Over
    BY <1>1 DEF ListInv, RestRight, SealedMeant, LobbyTypeInv, LobbyTypeOK, LobbyTaskTypeOK
  <2>2. signal.kind = "seal" /\ signal.code = codeOf[s]
    BY DEF SealOf
  <2>3. signal = SealOf(r) /\ phase[r] = "closing"
    BY <1>2, <2>2 DEF CloseOf
  <2>4. codeOf[s] = codeOf[r]
    BY <2>2, <2>3 DEF SealOf
  <2>5. s = r
    BY <1>1, <2>1, <2>3, <2>4 DEF ListInv, RoomsRight, CodesDiffer, Over
  <2> QED
    BY <2>1, <2>3, <2>5 DEF Over
<1>5. HeardFirst'
  BY <1>3, <1>4 DEF OnceInv, HeardFirst, SealOf
<1> QED
  BY <1>3, <1>5

\* The lobby hears a signal.
LEMMA HearingKeepsOnce ==
  ASSUME OnceInv, controls # <<>>, controls' = Tail(controls),
         UNCHANGED codeOf,
         \A r \in isSealed' \ isSealed : SealOf(r) = Head(controls)
  PROVE  NoRepeats(controls)' /\ HeardFirst'
<1>1. controls \in Seq(LobbyControl)
  BY DEF OnceInv, SealInv, ListInv, LobbyTypeInv, LobbyTypeOK, QueueTypeOK
<1>2. ToSet(controls') = ToSet(controls) \ {Head(controls)} /\ NoRepeats(controls')
  BY <1>1, SetOfTail DEF OnceInv
<1>3. HeardFirst'
  <2> SUFFICES ASSUME NEW r \in isSealed' PROVE SealOf(r) \notin ToSet(controls')
    BY DEF HeardFirst, SealOf
  <2> QED
    BY <1>2 DEF OnceInv, HeardFirst
<1> QED
  BY <1>2, <1>3

LEMMA RoomStepKeepsOnce ==
  ASSUME OnceInv, NEW r \in RoomId, RoomStep(r)
  PROVE  NoRepeats(controls)' /\ HeardFirst'
<1>1. UNCHANGED <<isSealed, codeOf>>
  BY DEF RoomStep, RoomWindsDown, RoomBeginsClosing, RoomTakesClient, RoomSeals, RoomSwept,
         RoomCloses, RoomAborted, lobbyVars
<1>2. CASE RoomSeals(r) \/ RoomCloses(r)
  BY <1>1, <1>2, SayingKeepsOnce DEF RoomSeals, RoomCloses, SealOf, CloseOf
<1>3. CASE RoomBeginsClosing(r) \/ RoomTakesClient(r) \/ RoomSwept(r) \/ RoomAborted(r)
  <2>1. UNCHANGED controls
    BY <1>3 DEF RoomBeginsClosing, RoomTakesClient, RoomSwept, RoomAborted, queueVars
  <2> QED
    BY <1>1, <2>1 DEF OnceInv, HeardFirst, SealOf
<1> QED
  BY <1>2, <1>3 DEF RoomStep, RoomWindsDown

LEMMA HostRoomKeepsOnce ==
  ASSUME OnceInv, HostRoom
  PROVE  NoRepeats(controls)' /\ HeardFirst'
<1>1. UNCHANGED <<isSealed, controls>>
  BY DEF HostRoom
<1>2. PICK r \in RoomId, k \in RoomCode :
        phase[r] = "none" /\ codeOf' = [codeOf EXCEPT ![r] = k]
  BY DEF HostRoom
<1>3. ASSUME NEW s \in isSealed PROVE codeOf'[s] = codeOf[s]
  <2>1. s \in RoomId /\ phase[s] \in Over
    BY DEF OnceInv, SealInv, ListInv, RestRight, SealedMeant, LobbyTypeInv, LobbyTypeOK,
           LobbyTaskTypeOK
  <2> QED
    BY <1>2, <2>1 DEF Over
<1> QED
  BY <1>1, <1>3 DEF OnceInv, HeardFirst, SealOf

LEMMA ControlKeepsOnce ==
  ASSUME OnceInv, RecvSeal \/ RecvClose
  PROVE  NoRepeats(controls)' /\ HeardFirst'
<1>1. controls # <<>> /\ controls' = Tail(controls) /\ UNCHANGED codeOf
  BY DEF RecvSeal, RecvClose, TakeControl, roomVars
<1>2. CASE RecvSeal
  <2>1. Head(controls).kind = "seal" /\ Head(controls) \in LobbyControl
    BY <1>1, <1>2 DEF RecvSeal, TakeControl, OnceInv, SealInv, ListInv, LobbyTypeInv,
       LobbyTypeOK, QueueTypeOK
  <2>2. ASSUME NEW r \in isSealed' \ isSealed PROVE SealOf(r) = Head(controls)
    <3>1. r = roomMap[Head(controls).code] /\ r # NoRoom
      BY <1>2, <2>2 DEF RecvSeal
    <3>2. Head(controls).code \in RoomCode
      BY <2>1 DEF LobbyControl
    <3>3. codeOf[r] = Head(controls).code
      BY <3>1, <3>2 DEF OnceInv, SealInv, ListInv, RoomsRight, ListedRight, Listed
    <3>4. Head(controls) = [kind |-> "seal", code |-> Head(controls).code]
      BY <2>1 DEF LobbyControl
    <3> QED
      BY <3>3, <3>4 DEF SealOf
  <2> QED
    BY <1>1, <2>2, HearingKeepsOnce
<1>3. CASE RecvClose
  BY <1>1, <1>3, HearingKeepsOnce DEF RecvClose
<1> QED
  BY <1>2, <1>3

LEMMA OthersKeepOnce ==
  ASSUME OnceInv,
         \/ NewConnection \/ RefuseConnection \/ SendToRoom \/ RefuseRequest \/ DropClient
         \/ Reconfigure \/ RoomAwaited \/ LobbyHearsShutdown \/ LobbyWindsDown
         \/ \E c \in Client : ClientStep(c)
         \/ ServerStep \/ Shutdown \/ UNCHANGED lobbyAndAll
  PROVE  NoRepeats(controls)' /\ HeardFirst'
<1> USE DEF lobbyVars, queueVars, clientVars, roomVars, serverVars
<1>1. /\ UNCHANGED <<isSealed, codeOf>>
      /\ UNCHANGED controls \/ (controls # <<>> /\ controls' = Tail(controls))
  <2>1. ASSUME NEW c \in Client, ClientStep(c) PROVE UNCHANGED <<isSealed, codeOf, controls>>
    BY <2>1 DEF ClientStep, ClientAsks, ClientTimesOut, PostRequest, Accept, Established,
       UnblockConnection, ConnectionFails, AcceptEnds, UnblockRequest, SendCloseDone,
       LeavesRoom, HandshakeOver
  <2>2. CASE \/ NewConnection \/ RefuseConnection \/ SendToRoom \/ RefuseRequest
             \/ DropClient \/ Reconfigure
    BY <2>2 DEF NewConnection, RefuseConnection, SendToRoom, RefuseRequest, DropClient,
       Reconfigure
  <2>3. CASE RoomAwaited \/ LobbyHearsShutdown \/ LobbyWindsDown
    BY <2>3 DEF RoomAwaited, LobbyHearsShutdown, LobbyWindsDown, DrainRequests,
       DrainControls, LobbyStops
  <2>4. CASE ServerStep \/ Shutdown \/ UNCHANGED lobbyAndAll
    BY <2>4
    DEF ServerStep, SpawnLobby, ServerHearsShutdown, AcceptsAwaited, LobbyAwaited,
        ConfigAwaited, ServerGoto, Shutdown, lobbyAndAll
  <2> QED
    BY <2>1, <2>2, <2>3, <2>4
<1>2. CASE UNCHANGED controls
  BY <1>1, <1>2 DEF OnceInv, HeardFirst, SealOf
<1>3. CASE controls # <<>> /\ controls' = Tail(controls)
  BY <1>1, <1>3, HearingKeepsOnce
<1> QED
  BY <1>1, <1>2, <1>3

LEMMA NextKeepsOnce ==
  ASSUME UniqueCodes, OnceInv, [Next]_lobbyAndAll
  PROVE  OnceInv'
<1>1. SealInv'
  BY NextKeepsSealed DEF OnceInv
<1>2. NoRepeats(controls)' /\ HeardFirst'
  BY HostRoomKeepsOnce, ControlKeepsOnce, RoomStepKeepsOnce, OthersKeepOnce
  DEF Next, Finished, LobbyStep, LobbyServes
<1> QED
  BY <1>1, <1>2 DEF OnceInv

\* Each room says SealRoom and CloseRoom at most once each, and a room is listed
\* as sealed when the first was heard.
THEOREM OnceInvariant ==
  ASSUME UniqueCodes
  PROVE  Spec => []OnceInv
<1>1. Init => OnceInv
  BY ListInit, SealedInit DEF OnceInv, SealInv, Init, NoRepeats, HeardFirst
<1>2. OnceInv /\ [Next]_lobbyAndAll => OnceInv'
  BY NextKeepsOnce
<1> QED
  BY <1>1, <1>2, PTL DEF Spec
-----------------------------------------------------------------------------
(* What becomes of a room as the lobby sees it.                            *)

\* Nothing, as seen from RoomLifecycle.
LEMMA ListingUndisturbed ==
  ASSUME NEW r \in RoomId,
         phase'[r] = phase[r], codeOf'[r] = codeOf[r], newClients'[r] = newClients[r],
         UNCHANGED <<roomMap, isSealed, doomed, controls>>, LobbyIsUp' <=> LobbyIsUp
  PROVE  KeepsLifecycle(r)
<1>1. UNCHANGED <<PhaseOf(r), ListingOf(r), SignalsOf(r), Len(newClients[r])>>
  BY DEF PhaseOf, ListingOf, SignalsOf
<1> QED
  BY <1>1 DEF KeepsLifecycle, Lifecycle!vars

\* The lobby hears a signal: only the room under that code is concerned.
LEMMA Heard ==
  ASSUME OnceInv, controls # <<>>, controls' = Tail(controls), UNCHANGED <<phase, codeOf>>,
         NEW s \in RoomId
  PROVE  /\ Head(controls) \in LobbyControl
         /\ phase[s] # "none" /\ codeOf[s] = Head(controls).code =>
              /\ Head(controls).kind \in SignalsOf(s)
              /\ SignalsOf(s)' = SignalsOf(s) \ {Head(controls).kind}
         /\ ~(phase[s] # "none" /\ codeOf[s] = Head(controls).code) =>
              SignalsOf(s)' = SignalsOf(s)
<1> DEFINE head == Head(controls)
<1>1. controls \in Seq(LobbyControl) /\ ListInv
  BY DEF OnceInv, SealInv, ListInv, LobbyTypeInv, LobbyTypeOK, QueueTypeOK
<1>2. /\ head \in ToSet(controls)
      /\ ToSet(controls') = ToSet(controls) \ {head}
  BY <1>1, SetOfTail DEF OnceInv
<1>3. head \in LobbyControl
  BY <1>1, <1>2, OnItsWay
<1> HIDE DEF head
<1>4. /\ head = [kind |-> head.kind, code |-> head.code]
      /\ head.kind \in {"seal", "close"}
  BY <1>3 DEF LobbyControl
<1>5. CASE phase[s] # "none" /\ codeOf[s] = head.code
  <2>1. \A kind \in {"seal", "close"} :
          [kind |-> kind, code |-> codeOf[s]] = head <=> kind = head.kind
    BY <1>4, <1>5
  <2> QED
    BY <1>2, <1>3, <1>4, <1>5, <2>1 DEF SignalsOf, head
<1>6. CASE ~(phase[s] # "none" /\ codeOf[s] = head.code)
  <2>1. phase[s] # "none" =>
          \A kind \in {"seal", "close"} : [kind |-> kind, code |-> codeOf[s]] # head
    BY <1>4, <1>6
  <2> QED
    BY <1>2, <1>3, <1>6, <2>1 DEF SignalsOf, head
<1> QED
  BY <1>5, <1>6 DEF head

LEMMA HostRoomKeepsLifecycle ==
  ASSUME UniqueCodes, OnceInv, HostRoom, NEW s \in RoomId
  PROVE  KeepsLifecycle(s)
<1> USE DEF OnceInv, SealInv, ListInv, LobbyTypeInv, LobbyTypeOK, RoomTypeOK,
            LobbyTaskTypeOK
<1>1. PICK r \in RoomId, k \in RoomCode :
        /\ phase[r] = "none"
        /\ FreshCode(k)
        /\ phase' = [phase EXCEPT ![r] = "open"]
        /\ codeOf' = [codeOf EXCEPT ![r] = k]
        /\ roomMap' = [roomMap EXCEPT ![k] = r]
  BY DEF HostRoom
<1>2. UNCHANGED <<lpc, isSealed, doomed, controls, newClients>> /\ LobbyIsUp
  BY DEF HostRoom, TakeRequest, LobbyIsUp
<1>3. CASE s = r
  <2>1. phase'[s] = "open" /\ codeOf'[s] = k /\ roomMap'[k] = s
          /\ s \notin doomed /\ s \notin isSealed
    BY <1>1, <1>3 DEF RestRight, DoomedMeant, SealedMeant, Over
  <2>2. SignalsOf(s) = {}
    BY <1>1, <1>3 DEF SignalsOf
  <2>3. SignalsOf(s)' = {}
    <3>1. ASSUME NEW signal \in ToSet(controls) PROVE signal.code # k
      <4>1. PICK o \in RoomId : codeOf[o] = signal.code /\ phase[o] \in Over
        BY OnItsWay DEF IsMeant
      <4> QED
        BY <1>1, <4>1 DEF FreshCode, Over
    <3>2. \A kind : [kind |-> kind, code |-> k].code = k
      OBVIOUS
    <3> QED
      BY <1>2, <2>1, <3>1, <3>2 DEF SignalsOf
  <2>4. PhaseOf(s) = "open" /\ PhaseOf(s)' = "open"
    BY <1>1, <1>3, <2>1 DEF PhaseOf
  <2>5. ListingOf(s) = "open" /\ ListingOf(s)' = "open"
    BY <1>1, <1>2, <1>3, <2>1 DEF ListingOf, LobbyIsUp
  <2> QED
    BY <1>2, <2>2, <2>3, <2>4, <2>5 DEF KeepsLifecycle, Lifecycle!vars
<1>4. CASE s # r
  <2>1. phase'[s] = phase[s] /\ codeOf'[s] = codeOf[s]
    BY <1>1, <1>4
  <2>2. phase[s] # "none" => (roomMap'[codeOf[s]] = s <=> roomMap[codeOf[s]] = s)
    <3> SUFFICES ASSUME phase[s] # "none", codeOf[s] = k
                 PROVE  roomMap'[k] # s /\ roomMap[k] # s
      BY <1>1 DEF CodesKnown
    <3>1. roomMap'[k] = r /\ roomMap[k] = NoRoom
      BY <1>1 DEF FreshCode, Listed
    <3> QED
      BY <1>4, <3>1, NameAssumption
  <2>3. PhaseOf(s)' = PhaseOf(s) /\ ListingOf(s)' = ListingOf(s)
          /\ SignalsOf(s)' = SignalsOf(s)
    BY <1>2, <2>1, <2>2 DEF PhaseOf, ListingOf, SignalsOf, LobbyIsUp
  <2> QED
    BY <1>2, <2>3 DEF KeepsLifecycle, Lifecycle!vars
<1> QED
  BY <1>3, <1>4

\* A client is sent only to a room that is listed as open.
LEMMA SendToRoomKeepsLifecycle ==
  ASSUME OnceInv, SendToRoom, NEW s \in RoomId
  PROVE  KeepsLifecycle(s)
<1> USE DEF OnceInv, SealInv, ListInv, LobbyTypeInv, LobbyTypeOK, RoomTypeOK,
            LobbyTaskTypeOK
<1> DEFINE c == Head(requests)
           k == ask[c].code
           r == roomMap[k]
<1>1. /\ r # NoRoom /\ TakesClients(r)
      /\ newClients' = [newClients EXCEPT ![r] = Append(@, c)]
      /\ UNCHANGED <<lpc, roomMap, isSealed, controls, phase, codeOf, doomed>>
      /\ LobbyIsUp
  BY DEF SendToRoom, TakeRequest, LobbyIsUp
<1>2. LobbyIsUp' <=> LobbyIsUp
  BY <1>1 DEF LobbyIsUp
<1>3. c \in Client /\ k \in RoomCode
  <2>1. requests # <<>> /\ ask[c].kind = "join"
    BY DEF SendToRoom, TakeRequest
  <2>2. c \in Client
    BY <2>1 DEF QueueTypeOK
  <2>3. ask[c] \in LobbyCommand \cup {NoCommand}
    BY <2>2 DEF ClientTypeOK
  <2>4. ask[c] \in [kind : {"join"}, code : RoomCode]
    BY <2>1, <2>3 DEF LobbyCommand, NoCommand
  <2> QED
    BY <2>2, <2>4
<1>4. k \in Listed /\ r \in RoomId
  BY <1>1, <1>3 DEF Listed
<1> HIDE DEF c, k, r
<1>5. CASE s = r
  <2>1. phase[r] # "none" /\ codeOf[r] = k /\ r \notin doomed /\ roomMap[k] = r
    BY <1>4 DEF RoomsRight, ListedRight, r
  <2>2. ListingOf(s) = "open"
    BY <1>1, <1>5, <2>1 DEF ListingOf, TakesClients
  <2>3. PhaseOf(s) \in {"open", "closing", "sealed", "swept"}
    BY <1>1, <1>5 DEF PhaseOf, TakesClients, Running
  <2>4. UNCHANGED <<PhaseOf(s), ListingOf(s), SignalsOf(s)>>
    BY <1>1, <1>2 DEF PhaseOf, ListingOf, SignalsOf
  <2>5. Len(newClients[s]) < NEW_CLIENT_CHANNEL_BUFFER_SIZE
    BY <1>1, <1>5 DEF TakesClients
  <2>6. Len(newClients'[s]) = Len(newClients[s]) + 1
    <3>1. newClients[r] \in Seq(Client) /\ newClients'[r] = Append(newClients[r], c)
      BY <1>1, <1>4
    <3> QED
      BY <1>3, <1>5, <3>1
  <2>7. Lifecycle(s)!Send
    BY <2>2, <2>3, <2>4, <2>5, <2>6 DEF Lifecycle!Send, Lifecycle!Running
  <2> QED
    BY <2>7 DEF KeepsLifecycle, Lifecycle!Next, Lifecycle!LobbyActs
<1>6. CASE s # r
  <2>1. newClients'[s] = newClients[s]
    BY <1>1, <1>6
  <2> QED
    BY <1>1, <1>2, <2>1, ListingUndisturbed
<1> QED
  BY <1>5, <1>6

LEMMA RecvSealKeepsLifecycle ==
  ASSUME OnceInv, RecvSeal, NEW s \in RoomId
  PROVE  KeepsLifecycle(s)
<1> DEFINE k == Head(controls).code
           r == roomMap[k]
<1>1. /\ controls # <<>> /\ controls' = Tail(controls) /\ Head(controls).kind = "seal"
      /\ UNCHANGED <<lpc, roomMap, phase, codeOf, doomed, newClients>> /\ LobbyIsUp
      /\ isSealed' = isSealed \cup ({r} \ {NoRoom})
  BY DEF RecvSeal, TakeControl, roomVars, LobbyIsUp
<1>2. k \in RoomCode /\ Head(controls) = [kind |-> "seal", code |-> k]
  BY <1>1, Heard DEF LobbyControl
<1>3. r # NoRoom => r \in RoomId /\ phase[r] \in Over /\ codeOf[r] = k /\ r \notin doomed
  <2> SUFFICES ASSUME r # NoRoom
               PROVE  r \in RoomId /\ phase[r] \in Over /\ codeOf[r] = k /\ r \notin doomed
    OBVIOUS
  <2>1. k \in Listed
    BY <1>2 DEF Listed
  <2>2. phase[r] \in Over
    BY <1>1, SenderIsListed DEF OnceInv, SealInv
  <2> QED
    BY <2>1, <2>2 DEF OnceInv, SealInv, ListInv, RoomsRight, ListedRight, Listed,
       LobbyTypeInv, LobbyTypeOK, LobbyTaskTypeOK
<1>4. UNCHANGED <<PhaseOf(s), Len(newClients[s])>> /\ (LobbyIsUp' <=> LobbyIsUp)
  BY <1>1 DEF PhaseOf, LobbyIsUp
<1>5. CASE s = r
  <2>1. r # NoRoom
    BY <1>5, NameAssumption
  <2>2. phase[s] \in Over /\ codeOf[s] = k /\ s \notin doomed
    BY <1>3, <1>5, <2>1
  <2>3. s \notin isSealed /\ s \in isSealed'
    <3>1. SealOf(s) \in ToSet(controls)
      BY <1>1, <1>2, <2>2, SetOfTail DEF SealOf, OnceInv, SealInv, ListInv, LobbyTypeInv,
         LobbyTypeOK, QueueTypeOK
    <3> QED
      BY <1>1, <1>5, <2>1, <3>1 DEF OnceInv, HeardFirst
  <2>4. ListingOf(s) = "open" /\ ListingOf(s)' = "sealed"
    <3>1. roomMap[codeOf[s]] = s
      BY <1>5, <2>2
    <3> QED
      BY <1>1, <1>4, <2>2, <2>3, <3>1 DEF ListingOf
  <2>5. "seal" \in SignalsOf(s) /\ SignalsOf(s)' = SignalsOf(s) \ {"seal"}
    BY <1>1, <2>2, Heard DEF Over
  <2>6. Lifecycle(s)!ListAsSealed
    BY <1>4, <2>4, <2>5 DEF Lifecycle!ListAsSealed, Lifecycle!Hear
  <2> QED
    BY <2>6 DEF KeepsLifecycle, Lifecycle!Next, Lifecycle!LobbyActs
<1>6. CASE s # r
  <2>1. (s \in isSealed' <=> s \in isSealed) /\ ListingOf(s)' = ListingOf(s)
    BY <1>1, <1>4, <1>6 DEF ListingOf
  <2>2. CASE phase[s] # "none" /\ codeOf[s] = k
    <3>1. ListingOf(s) = "removed"
      BY <1>6, <2>2 DEF ListingOf
    <3>2. "seal" \in SignalsOf(s) /\ SignalsOf(s)' = SignalsOf(s) \ {"seal"}
      BY <1>1, <2>2, Heard
    <3>3. Lifecycle(s)!Hear("seal", "removed", "removed")
      BY <1>4, <2>1, <3>1, <3>2 DEF Lifecycle!Hear
    <3> QED
      BY <3>2, <3>3 DEF KeepsLifecycle, Lifecycle!Next, Lifecycle!LobbyActs,
         Lifecycle!Ignore
  <2>3. CASE ~(phase[s] # "none" /\ codeOf[s] = k)
    <3>1. SignalsOf(s)' = SignalsOf(s)
      BY <1>1, <2>3, Heard
    <3> QED
      BY <1>4, <2>1, <3>1 DEF KeepsLifecycle, Lifecycle!vars
  <2> QED
    BY <2>2, <2>3
<1> QED
  BY <1>5, <1>6

LEMMA RecvCloseKeepsLifecycle ==
  ASSUME OnceInv, RecvClose, NEW s \in RoomId
  PROVE  KeepsLifecycle(s)
<1> DEFINE k == Head(controls).code
           r == roomMap[k]
<1>1. /\ controls # <<>> /\ controls' = Tail(controls) /\ Head(controls).kind = "close"
      /\ UNCHANGED <<isSealed, phase, codeOf, doomed, newClients>>
      /\ LobbyIsUp /\ LobbyIsUp'
  BY DEF RecvClose, TakeControl, LobbyIsUp, roomVars
<1>2. Head(controls) = [kind |-> "close", code |-> k] /\ k \in RoomCode
      /\ controls \in Seq(LobbyControl)
  BY <1>1, Heard DEF LobbyControl, OnceInv, SealInv, ListInv, LobbyTypeInv, LobbyTypeOK,
     QueueTypeOK
<1>3. roomMap \in [RoomCode -> RoomId \cup {NoRoom}]
  BY DEF OnceInv, SealInv, ListInv, LobbyTypeInv, LobbyTypeOK, LobbyTaskTypeOK
<1>4. \/ r # NoRoom /\ roomMap' = [roomMap EXCEPT ![k] = NoRoom]
      \/ r = NoRoom /\ UNCHANGED roomMap
  BY DEF RecvClose
<1>5. UNCHANGED <<PhaseOf(s), Len(newClients[s])>>
  BY <1>1 DEF PhaseOf
<1>6. CASE r = s
  <2>1. r # NoRoom /\ k \in Listed /\ roomMap' = [roomMap EXCEPT ![k] = NoRoom]
    BY <1>2, <1>4, <1>6, NameAssumption DEF Listed
  <2>2. phase[s] # "none" /\ codeOf[s] = k /\ s \notin doomed
    BY <1>6, <2>1 DEF OnceInv, SealInv, ListInv, RoomsRight, ListedRight
  <2>3. phase[s] = "closed"
    BY <1>1, <1>2, <1>6, <2>1, SenderIsListed DEF OnceInv, SealInv
  <2>4. ~SealAhead(controls, k)
    BY <1>1, <1>2, HeadComesLast
  <2>5. s \in isSealed
    BY <1>1, <1>6, <2>1, <2>3, <2>4 DEF OnceInv, SealInv, SealedFirst, Over
  <2>6. roomMap'[k] # s /\ roomMap[k] = s
    BY <1>2, <1>3, <1>6, <2>1, NameAssumption
  <2>7. ListingOf(s) = "sealed" /\ ListingOf(s)' = "removed"
    BY <1>1, <2>2, <2>5, <2>6 DEF ListingOf
  <2>8. PhaseOf(s) = "closed"
    BY <2>3 DEF PhaseOf
  <2>9. "close" \in SignalsOf(s) /\ SignalsOf(s)' = SignalsOf(s) \ {"close"}
    BY <1>1, <2>2, Heard
  <2>10. Lifecycle(s)!Unlist
    BY <1>5, <2>7, <2>8, <2>9 DEF Lifecycle!Unlist, Lifecycle!Hear
  <2> QED
    BY <2>10 DEF KeepsLifecycle, Lifecycle!Next, Lifecycle!LobbyActs
<1>7. CASE r # s
  <2>1. phase[s] # "none" => (roomMap'[codeOf[s]] = s <=> roomMap[codeOf[s]] = s)
    <3> SUFFICES ASSUME phase[s] # "none"
                 PROVE  roomMap'[codeOf[s]] = s <=> roomMap[codeOf[s]] = s
      OBVIOUS
    <3>1. codeOf[s] \in RoomCode
      BY DEF OnceInv, SealInv, ListInv, LobbyTypeInv, CodesKnown
    <3> QED
      BY <1>2, <1>3, <1>4, <1>7, <3>1, NameAssumption
  <2>2. ListingOf(s)' = ListingOf(s)
    BY <1>1, <2>1 DEF ListingOf
  <2>3. CASE phase[s] # "none" /\ codeOf[s] = k
    <3>1. ListingOf(s) = "removed"
      BY <1>7, <2>3 DEF ListingOf
    <3>2. "close" \in SignalsOf(s) /\ SignalsOf(s)' = SignalsOf(s) \ {"close"}
      BY <1>1, <2>3, Heard
    <3>3. Lifecycle(s)!Hear("close", "removed", "removed")
      BY <1>5, <2>2, <3>1, <3>2 DEF Lifecycle!Hear
    <3> QED
      BY <3>2, <3>3 DEF KeepsLifecycle, Lifecycle!Next, Lifecycle!LobbyActs,
         Lifecycle!Ignore
  <2>4. CASE ~(phase[s] # "none" /\ codeOf[s] = k)
    <3>1. SignalsOf(s)' = SignalsOf(s)
      BY <1>1, <2>4, Heard
    <3> QED
      BY <1>5, <2>2, <3>1 DEF KeepsLifecycle, Lifecycle!vars
  <2> QED
    BY <2>3, <2>4
<1> QED
  BY <1>6, <1>7

\* The lobby winds down and does not look at the signals any more.
LEMMA DrainControlsKeepsLifecycle ==
  ASSUME OnceInv, DrainControls, NEW s \in RoomId
  PROVE  KeepsLifecycle(s)
<1>1. /\ UNCHANGED <<roomMap, isSealed, phase, codeOf, doomed, newClients>>
      /\ ~LobbyIsUp /\ ~LobbyIsUp'
      /\ (controls # <<>> /\ controls' = Tail(controls)) \/ UNCHANGED controls
  BY DEF DrainControls, LobbyIsUp, roomVars
<1>2. UNCHANGED <<PhaseOf(s), ListingOf(s), Len(newClients[s])>>
      /\ ListingOf(s) \in {"removed", "unread"}
  BY <1>1 DEF PhaseOf, ListingOf
<1>3. CASE UNCHANGED controls
  BY <1>1, <1>3, ListingUndisturbed
<1>4. CASE controls # <<>> /\ controls' = Tail(controls)
  <2> DEFINE signal == Head(controls).kind
  <2>1. CASE phase[s] # "none" /\ codeOf[s] = Head(controls).code
    <3>1. signal \in SignalsOf(s) /\ SignalsOf(s)' = SignalsOf(s) \ {signal}
      BY <1>1, <1>4, <2>1, Heard
    <3>2. Lifecycle(s)!Hear(signal, ListingOf(s), ListingOf(s))
      BY <1>2, <3>1 DEF Lifecycle!Hear
    <3> QED
      BY <1>2, <3>1, <3>2 DEF KeepsLifecycle, Lifecycle!Next, Lifecycle!LobbyActs,
         Lifecycle!Ignore
  <2>2. CASE ~(phase[s] # "none" /\ codeOf[s] = Head(controls).code)
    <3>1. SignalsOf(s)' = SignalsOf(s)
      BY <1>1, <1>4, <2>2, Heard
    <3> QED
      BY <1>2, <3>1 DEF KeepsLifecycle, Lifecycle!vars
  <2> QED
    BY <2>1, <2>2
<1> QED
  BY <1>1, <1>3, <1>4

LEMMA ShutdownKeepsLifecycle ==
  ASSUME LobbyHearsShutdown, NEW s \in RoomId
  PROVE  KeepsLifecycle(s)
<1>1. /\ UNCHANGED <<roomMap, isSealed, controls, phase, codeOf, doomed, newClients>>
      /\ LobbyIsUp /\ ~LobbyIsUp'
  BY DEF LobbyHearsShutdown, LobbyIsUp, queueVars, roomVars
<1>2. UNCHANGED <<PhaseOf(s), SignalsOf(s), Len(newClients[s])>>
  BY <1>1 DEF PhaseOf, SignalsOf
<1>3. CASE ListingOf(s) = "removed"
  <2>1. ListingOf(s)' = "removed"
    BY <1>1, <1>3 DEF ListingOf
  <2> QED
    BY <1>2, <1>3, <2>1 DEF KeepsLifecycle, Lifecycle!vars
<1>4. CASE ListingOf(s) # "removed"
  <2>1. ListingOf(s) \in {"open", "sealed"} /\ ListingOf(s)' = "unread"
    BY <1>1, <1>4 DEF ListingOf
  <2>2. Lifecycle(s)!StopListing
    BY <1>2, <2>1 DEF Lifecycle!StopListing
  <2> QED
    BY <2>2 DEF KeepsLifecycle, Lifecycle!Next, Lifecycle!LobbyActs
<1> QED
  BY <1>3, <1>4

LEMMA ReconfigureKeepsLifecycle ==
  ASSUME OnceInv, Reconfigure, NEW s \in RoomId
  PROVE  KeepsLifecycle(s)
<1>1. PICK ks \in SUBSET Listed :
        /\ roomMap' = [k \in RoomCode |-> IF k \in ks THEN NoRoom ELSE roomMap[k]]
        /\ doomed' = doomed \cup {roomMap[k] : k \in ks}
  BY DEF Reconfigure
<1>2. UNCHANGED <<lpc, isSealed, controls, phase, codeOf, newClients>> /\ LobbyIsUp
  BY DEF Reconfigure, queueVars, LobbyIsUp
<1>3. UNCHANGED <<PhaseOf(s), SignalsOf(s), Len(newClients[s])>> /\ LobbyIsUp'
  BY <1>2 DEF PhaseOf, SignalsOf, LobbyIsUp
<1>4. \A k \in Listed : phase[roomMap[k]] # "none" /\ codeOf[roomMap[k]] = k
                          /\ roomMap[k] \notin doomed
  BY DEF OnceInv, SealInv, ListInv, RoomsRight, ListedRight
<1>5. CASE \E k \in ks : roomMap[k] = s
  <2>1. phase[s] # "none" /\ s \in doomed'
    BY <1>1, <1>4, <1>5
  <2>2. ListingOf(s)' = "removed"
    BY <1>2, <2>1 DEF ListingOf
  <2>3. ListingOf(s) \in {"open", "sealed"}
    BY <1>1, <1>2, <1>4, <1>5 DEF ListingOf
  <2>4. Lifecycle(s)!Evict
    BY <1>3, <2>2, <2>3 DEF Lifecycle!Evict
  <2> QED
    BY <2>1, <2>4 DEF KeepsLifecycle
<1>6. CASE phase[s] # "none" /\ ~(\E k \in ks : roomMap[k] = s)
  <2>1. s \in doomed' <=> s \in doomed
    BY <1>1, <1>6
  <2>2. codeOf[s] \in RoomCode
    BY <1>6 DEF OnceInv, SealInv, ListInv, LobbyTypeInv, CodesKnown
  <2>3. roomMap'[codeOf[s]] = s <=> roomMap[codeOf[s]] = s
    BY <1>1, <1>6, <2>2, NameAssumption
  <2>4. ListingOf(s)' = ListingOf(s)
    BY <1>2, <1>3, <2>1, <2>3 DEF ListingOf
  <2> QED
    BY <1>3, <2>4 DEF KeepsLifecycle, Lifecycle!vars
<1>7. CASE phase[s] = "none"
  <2>1. ListingOf(s)' = ListingOf(s)
    BY <1>2, <1>3, <1>7 DEF ListingOf
  <2> QED
    BY <1>3, <2>1 DEF KeepsLifecycle, Lifecycle!vars
<1> QED
  BY <1>5, <1>6, <1>7

\* A signal that a room says concerns no other room.
LEMMA OthersSayNothing ==
  ASSUME OnceInv, NEW r \in RoomId, NEW s \in RoomId, s # r, phase[r] # "none",
         phase'[s] = phase[s], UNCHANGED codeOf,
         NEW kind \in {"seal", "close"},
         controls' = Append(controls, [kind |-> kind, code |-> codeOf[r]])
  PROVE  SignalsOf(s)' = SignalsOf(s)
<1>1. controls \in Seq(LobbyControl) /\ [kind |-> kind, code |-> codeOf[r]] \in LobbyControl
  BY DEF OnceInv, SealInv, ListInv, LobbyTypeInv, LobbyTypeOK, QueueTypeOK, CodesKnown,
         LobbyControl
<1>2. ToSet(controls') = ToSet(controls) \cup {[kind |-> kind, code |-> codeOf[r]]}
  BY <1>1, SetOfAppend
<1>3. phase[s] # "none" => codeOf[s] # codeOf[r]
  BY DEF OnceInv, SealInv, ListInv, RoomsRight, CodesDiffer
<1>4. phase[s] # "none" =>
        \A other : [kind |-> other, code |-> codeOf[s]] # [kind |-> kind, code |-> codeOf[r]]
  BY <1>3
<1> QED
  BY <1>2, <1>4 DEF SignalsOf

LEMMA RoomSaysItsOwn ==
  ASSUME OnceInv, NEW r \in RoomId, phase[r] # "none", phase'[r] # "none",
         UNCHANGED codeOf, NEW kind \in {"seal", "close"},
         controls' = Append(controls, [kind |-> kind, code |-> codeOf[r]])
  PROVE  SignalsOf(r)' = SignalsOf(r) \cup {kind}
<1>1. controls \in Seq(LobbyControl) /\ [kind |-> kind, code |-> codeOf[r]] \in LobbyControl
  BY DEF OnceInv, SealInv, ListInv, LobbyTypeInv, LobbyTypeOK, QueueTypeOK, CodesKnown,
         LobbyControl
<1>2. ToSet(controls') = ToSet(controls) \cup {[kind |-> kind, code |-> codeOf[r]]}
  BY <1>1, SetOfAppend
<1>3. \A other : [kind |-> other, code |-> codeOf[r]] = [kind |-> kind, code |-> codeOf[r]]
                   <=> other = kind
  OBVIOUS
<1> QED
  BY <1>2, <1>3 DEF SignalsOf

LEMMA RoomStepKeepsLifecycle ==
  ASSUME OnceInv, NEW r \in RoomId, RoomStep(r), NEW s \in RoomId
  PROVE  KeepsLifecycle(s)
<1> USE DEF Lifecycle!Next, Lifecycle!RoomActs
<1>1. UNCHANGED <<lpc, roomMap, isSealed, codeOf, doomed>>
  BY DEF RoomStep, RoomWindsDown, RoomBeginsClosing, RoomTakesClient, RoomSeals, RoomSwept,
         RoomCloses, RoomAborted, lobbyVars
<1>2. LobbyIsUp' <=> LobbyIsUp
  BY <1>1 DEF LobbyIsUp
<1>3. /\ phase \in [RoomId -> RoomPhase] /\ newClients \in [RoomId -> Seq(Client)]
  BY DEF OnceInv, SealInv, ListInv, LobbyTypeInv, LobbyTypeOK, RoomTypeOK
<1>4. phase[s] # "none" /\ phase'[s] # "none" => ListingOf(s)' = ListingOf(s)
  BY <1>1, <1>2 DEF ListingOf
<1>5. UNCHANGED controls /\ phase[s] # "none" /\ phase'[s] # "none"
        => SignalsOf(s)' = SignalsOf(s)
  BY <1>1 DEF SignalsOf
<1>6. CASE s # r
  <2>1. phase'[s] = phase[s] /\ newClients'[s] = newClients[s]
    BY <1>3, <1>6 DEF RoomStep, RoomWindsDown, RoomBeginsClosing, RoomTakesClient, RoomSeals,
       RoomSwept, RoomCloses, RoomAborted, RoomGoto, ReceiverDropped
  <2>2. CASE UNCHANGED controls
    BY <1>1, <1>2, <2>1, <2>2, ListingUndisturbed
  <2>3. CASE RoomSeals(r) \/ RoomCloses(r)
    <3>1. SignalsOf(s)' = SignalsOf(s)
      BY <1>1, <1>6, <2>1, <2>3, OthersSayNothing DEF RoomSeals, RoomCloses
    <3>2. UNCHANGED <<PhaseOf(s), ListingOf(s)>>
      BY <1>1, <1>2, <2>1 DEF PhaseOf, ListingOf
    <3> QED
      BY <2>1, <3>1, <3>2 DEF KeepsLifecycle, Lifecycle!vars
  <2> QED
    BY <2>2, <2>3 DEF RoomStep, RoomWindsDown, RoomBeginsClosing, RoomTakesClient, RoomSwept,
       RoomAborted, queueVars
<1>7. CASE RoomBeginsClosing(s)
  <2>1. /\ phase[s] = "open" /\ phase'[s] = "closing"
        /\ UNCHANGED <<controls, newClients>>
    BY <1>3, <1>7 DEF RoomBeginsClosing, RoomGoto, queueVars
  <2>2. Lifecycle(s)!BeginClosing
    BY <1>4, <1>5, <2>1 DEF PhaseOf, Lifecycle!BeginClosing
  <2> QED
    BY <2>2 DEF KeepsLifecycle
<1>8. CASE RoomSeals(s)
  <2>1. /\ phase[s] = "closing" /\ phase'[s] = "sealed" /\ UNCHANGED newClients
        /\ controls' = Append(controls, [kind |-> "seal", code |-> codeOf[s]])
    BY <1>3, <1>8 DEF RoomSeals, RoomGoto
  <2>2. SignalsOf(s)' = SignalsOf(s) \cup {"seal"}
    BY <1>1, <2>1, RoomSaysItsOwn
  <2>3. Lifecycle(s)!Seal
    BY <1>4, <2>1, <2>2 DEF PhaseOf, Lifecycle!Seal
  <2> QED
    BY <2>3 DEF KeepsLifecycle
<1>9. CASE RoomTakesClient(s)
  <2>1. /\ phase[s] \in {"open", "sealed"} /\ newClients[s] # <<>>
        /\ newClients' = [newClients EXCEPT ![s] = Tail(@)]
        /\ UNCHANGED <<phase, controls>>
    BY <1>9 DEF RoomTakesClient, queueVars
  <2>2. Len(newClients[s]) > 0 /\ Len(newClients'[s]) = Len(newClients[s]) - 1
    <3>1. newClients'[s] = Tail(newClients[s]) /\ newClients[s] \in Seq(Client)
      BY <1>3, <2>1
    <3>2. ASSUME NEW queue \in Seq(Client), queue # <<>>
          PROVE  Len(queue) > 0 /\ Len(Tail(queue)) = Len(queue) - 1
      BY <3>2
    <3> QED
      BY <2>1, <3>1, <3>2, Zenon
  <2>3. Lifecycle(s)!TurnAway
    BY <1>4, <1>5, <2>1, <2>2 DEF PhaseOf, Lifecycle!TurnAway
  <2> QED
    BY <2>3 DEF KeepsLifecycle
<1>10. CASE RoomSwept(s)
  <2>1. /\ phase[s] = "sealed" /\ phase'[s] = "swept" /\ newClients[s] = <<>>
        /\ UNCHANGED <<controls, newClients>>
    BY <1>3, <1>10 DEF RoomSwept, RoomGoto, queueVars
  <2>2. Len(newClients[s]) = 0
    BY <2>1
  <2>3. Lifecycle(s)!Sweep
    BY <1>4, <1>5, <2>1, <2>2 DEF PhaseOf, Lifecycle!Sweep
  <2> QED
    BY <2>3 DEF KeepsLifecycle
<1>11. CASE RoomCloses(s)
  <2>1. /\ phase[s] = "swept" /\ phase'[s] = "closed"
        /\ controls' = Append(controls, [kind |-> "close", code |-> codeOf[s]])
        /\ newClients'[s] = <<>>
    BY <1>3, <1>11 DEF RoomCloses, RoomGoto, ReceiverDropped
  <2>2. SignalsOf(s)' = SignalsOf(s) \cup {"close"}
    BY <1>1, <2>1, RoomSaysItsOwn
  <2>3. Len(newClients'[s]) = 0
    BY <2>1
  <2>4. Lifecycle(s)!Close
    BY <1>4, <2>1, <2>2, <2>3 DEF PhaseOf, Lifecycle!Close
  <2> QED
    BY <2>4 DEF KeepsLifecycle
<1>12. CASE RoomAborted(s)
  <2>1. /\ Running(s) /\ s \in doomed' /\ s \in doomed /\ phase'[s] = "aborted"
        /\ UNCHANGED controls /\ newClients'[s] = <<>>
    BY <1>1, <1>3, <1>12 DEF RoomAborted, RoomGoto, ReceiverDropped, queueVars
  <2>2. PhaseOf(s) \in {"open", "closing", "sealed", "swept"} /\ PhaseOf(s)' = "aborted"
    BY <2>1 DEF PhaseOf, Running
  <2>3. ListingOf(s) = "removed" /\ ListingOf(s)' = ListingOf(s)
    BY <1>4, <2>1 DEF ListingOf, Running
  <2>4. Len(newClients'[s]) = 0
    BY <2>1
  <2>5. SignalsOf(s)' = SignalsOf(s)
    BY <1>5, <2>1 DEF Running
  <2>6. Lifecycle(s)!Abort
    BY <2>2, <2>3, <2>4, <2>5 DEF Lifecycle!Abort, Lifecycle!Running
  <2> QED
    BY <2>1, <2>6 DEF KeepsLifecycle
<1> QED
  BY <1>6, <1>7, <1>8, <1>9, <1>10, <1>11, <1>12 DEF RoomStep, RoomWindsDown

LEMMA OthersKeepLifecycle ==
  ASSUME NEW s \in RoomId,
         \/ NewConnection \/ RefuseConnection \/ RefuseRequest \/ DropClient
         \/ RoomAwaited \/ DrainRequests \/ LobbyStops
         \/ \E c \in Client : ClientStep(c)
         \/ ServerStep \/ Shutdown \/ UNCHANGED lobbyAndAll
  PROVE  KeepsLifecycle(s)
<1> USE DEF lobbyVars, queueVars, clientVars, roomVars, serverVars
<1>1. CASE NewConnection \/ RefuseConnection \/ RefuseRequest \/ DropClient
  BY <1>1, ListingUndisturbed DEF NewConnection, RefuseConnection, RefuseRequest, DropClient,
                                  LobbyIsUp
<1>2. CASE RoomAwaited \/ DrainRequests \/ LobbyStops
  BY <1>2, ListingUndisturbed DEF RoomAwaited, DrainRequests, LobbyStops, LobbyIsUp
<1>3. ASSUME NEW c \in Client, ClientStep(c) PROVE KeepsLifecycle(s)
  <2>1. UNCHANGED <<lpc, roomMap, isSealed, controls, codeOf, doomed, phase, newClients>>
    BY <1>3 DEF ClientStep, ClientAsks, ClientTimesOut, PostRequest, Accept, Established,
       UnblockConnection, ConnectionFails, AcceptEnds, UnblockRequest, SendCloseDone,
       LeavesRoom, HandshakeOver
  <2> QED
    BY <2>1, ListingUndisturbed DEF LobbyIsUp
<1>4. CASE ServerStep \/ Shutdown
  BY <1>4, ListingUndisturbed
  DEF ServerStep, SpawnLobby, ServerHearsShutdown, AcceptsAwaited, LobbyAwaited,
      ConfigAwaited, ServerGoto, Shutdown, LobbyIsUp
<1>5. CASE UNCHANGED lobbyAndAll
  BY <1>5, ListingUndisturbed DEF lobbyAndAll, LobbyIsUp
<1> QED
  BY <1>1, <1>2, <1>3, <1>4, <1>5

\* While no code is drawn twice, the lobby and its rooms keep what RoomLifecycle
\* promises, for any number of rooms and any capacities: a client is sent only
\* to a room that is listed as open, each signal means the room it came from and is
\* heard once, a room is listed as sealed only when it is, and taken off the list
\* only when it is closed, or to be aborted.
THEOREM ListingsKept ==
  ASSUME UniqueCodes
  PROVE  Spec => ListingsKeepLifecycle
<1>1. Init => \A r \in RoomId : Lifecycle(r)!Init
  BY DEF Init, Lifecycle!Init, PhaseOf, ListingOf, SignalsOf, LobbyIsUp
<1>2. OnceInv /\ [Next]_lobbyAndAll => \A r \in RoomId : KeepsLifecycle(r)
  <2> SUFFICES ASSUME OnceInv, [Next]_lobbyAndAll, NEW s \in RoomId
               PROVE  KeepsLifecycle(s)
    OBVIOUS
  <2>1. CASE LobbyStep
    BY <2>1, HostRoomKeepsLifecycle, SendToRoomKeepsLifecycle, RecvSealKeepsLifecycle,
       RecvCloseKeepsLifecycle, ReconfigureKeepsLifecycle, DrainControlsKeepsLifecycle,
       ShutdownKeepsLifecycle, OthersKeepLifecycle
    DEF LobbyStep, LobbyServes, LobbyWindsDown
  <2> QED
    BY <2>1, RoomStepKeepsLifecycle, OthersKeepLifecycle DEF Next, Finished
<1> QED
  BY <1>1, <1>2, OnceInvariant, PTL DEF Spec, ListingsKeepLifecycle
=============================================================================
