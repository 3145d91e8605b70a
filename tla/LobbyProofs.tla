---------------------------- MODULE LobbyProofs -----------------------------
(***************************************************************************)
(* Type correctness of LobbySystem, for any number of clients and rooms    *)
(* and any channel capacity.                                               *)
(***************************************************************************)
EXTENDS LobbySystem, TLAPS

\* A room task knows its code from its beginning.
CodesKnown == \A r \in RoomId : phase[r] # "none" => codeOf[r] \in RoomCode

LobbyTypeInv == LobbyTypeOK /\ CodesKnown

LEMMA LobbyInitTypes == Init => LobbyTypeInv
<1> SUFFICES ASSUME Init PROVE LobbyTypeInv
  OBVIOUS
<1>1. LobbyTaskTypeOK
  BY DEF Init, LobbyTaskTypeOK, LobbyPlace
<1>2. QueueTypeOK
  BY ChannelAssumption DEF Init, QueueTypeOK
<1>3. ClientTypeOK
  BY DEF Init, ClientTypeOK, ClientPlace
<1>4. RoomTypeOK /\ CodesKnown
  BY ChannelAssumption DEF Init, RoomTypeOK, RoomPhase, CodesKnown
<1>5. ServerTypeOK
  <2>1. /\ acceptHears \in [Client -> BOOLEAN]
        /\ lobbyHears \in BOOLEAN /\ shutdown \in BOOLEAN
    BY Zenon DEF Init
  <2>2. reconfigs \in 0..MaxReconfigs
    BY LobbyBoundAssumption DEF Init
  <2> QED
    BY <2>1, <2>2 DEF Init, ServerTypeOK, ServerPlace
<1> QED
  BY <1>1, <1>2, <1>3, <1>4, <1>5 DEF LobbyTypeInv, LobbyTypeOK
-----------------------------------------------------------------------------
\* Sequences of clients, and what becomes of them.
LEMMA TailOfSeq ==
  ASSUME NEW S, NEW q \in Seq(S), q # <<>>
  PROVE  /\ Head(q) \in S
         /\ Tail(q) \in Seq(S)
         /\ Len(Tail(q)) = Len(q) - 1
OBVIOUS

LEMMA AppendToSeq ==
  ASSUME NEW S, NEW q \in Seq(S), NEW e \in S
  PROVE  /\ Append(q, e) \in Seq(S)
         /\ Len(Append(q, e)) = Len(q) + 1
OBVIOUS

\* A client that goes somewhere.
LEMMA ClientMoves ==
  ASSUME ClientTypeOK, NEW c, NEW place \in ClientPlace,
         at' = [at EXCEPT ![c] = place],
         UNCHANGED <<handleOf, ask>>,
         roomOf' \in [Client -> RoomId \cup {NoRoom}]
  PROVE  ClientTypeOK'
BY DEF ClientTypeOK
-----------------------------------------------------------------------------
(* The lobby's steps.                                                      *)

LEMMA NewConnectionTypes ==
  ASSUME LobbyTypeInv, NewConnection
  PROVE  LobbyTypeInv'
<1> USE DEF LobbyTypeInv, LobbyTypeOK
<1>1. Head(connections) \in Client
  BY TailOfSeq DEF NewConnection, QueueTypeOK
<1>2. LobbyTaskTypeOK'
  BY <1>1 DEF NewConnection, LobbyTaskTypeOK
<1>3. QueueTypeOK'
  BY TailOfSeq, ChannelAssumption DEF NewConnection, QueueTypeOK
<1>4. ClientTypeOK'
  BY <1>1 DEF NewConnection, ClientTypeOK, ClientPlace
<1>5. (RoomTypeOK /\ CodesKnown /\ ServerTypeOK)'
  BY DEF NewConnection, RoomTypeOK, CodesKnown, ServerTypeOK, roomVars, serverVars
<1> QED
  BY <1>2, <1>3, <1>4, <1>5

LEMMA RefuseConnectionTypes ==
  ASSUME LobbyTypeInv, RefuseConnection
  PROVE  LobbyTypeInv'
<1> USE DEF LobbyTypeInv, LobbyTypeOK
<1>1. QueueTypeOK'
  BY TailOfSeq, ChannelAssumption DEF RefuseConnection, QueueTypeOK
<1>2. ClientTypeOK'
  BY ClientMoves DEF RefuseConnection, ClientTypeOK, ClientPlace
<1>3. (LobbyTaskTypeOK /\ RoomTypeOK /\ CodesKnown /\ ServerTypeOK)'
  BY DEF RefuseConnection, LobbyTaskTypeOK, RoomTypeOK, CodesKnown, ServerTypeOK,
         lobbyVars, roomVars, serverVars
<1> QED
  BY <1>1, <1>2, <1>3

\* A request is taken, and the client sent somewhere.
LEMMA TakeRequestTypes ==
  ASSUME LobbyTypeOK, NEW kind, TakeRequest(kind),
         UNCHANGED <<lpc, isSealed, config, awaited, connections, controls>>,
         roomOf' \in [Client -> RoomId \cup {NoRoom}],
         NEW place \in ClientPlace, at' = [at EXCEPT ![Head(requests)] = place]
  PROVE  /\ roomMap' \in [RoomCode -> RoomId \cup {NoRoom}] => LobbyTaskTypeOK'
         /\ QueueTypeOK' /\ ClientTypeOK'
<1> USE DEF LobbyTypeOK, TakeRequest, RequestDone
<1>1. joinQueue' \in [HandleId -> Client \cup {NoClient}]
  BY DEF Dequeued, LobbyTaskTypeOK
<1>2. QueueTypeOK'
  BY TailOfSeq, ChannelAssumption DEF QueueTypeOK
<1>3. ClientTypeOK'
  BY DEF ClientTypeOK
<1> QED
  BY <1>1, <1>2, <1>3 DEF LobbyTaskTypeOK

LEMMA HostRoomTypes ==
  ASSUME LobbyTypeInv, HostRoom
  PROVE  LobbyTypeInv'
<1> USE DEF LobbyTypeInv, LobbyTypeOK
<1>1. (LobbyTaskTypeOK /\ QueueTypeOK /\ ClientTypeOK)'
  <2>1. PICK r \in RoomId, k \in RoomCode :
          /\ roomMap' = [roomMap EXCEPT ![k] = r]
          /\ roomOf' = [roomOf EXCEPT ![Head(requests)] = r]
    BY DEF HostRoom
  <2>2. roomMap' \in [RoomCode -> RoomId \cup {NoRoom}]
    BY <2>1 DEF LobbyTaskTypeOK
  <2>3. roomOf' \in [Client -> RoomId \cup {NoRoom}]
    BY <2>1 DEF ClientTypeOK
  <2> QED
    BY <2>2, <2>3, TakeRequestTypes DEF HostRoom, ClientPlace
<1>2. (RoomTypeOK /\ CodesKnown)'
  BY DEF HostRoom, RoomTypeOK, CodesKnown, RoomPhase
<1>3. ServerTypeOK'
  BY DEF HostRoom, ServerTypeOK, serverVars
<1> QED
  BY <1>1, <1>2, <1>3

LEMMA SendToRoomTypes ==
  ASSUME LobbyTypeInv, SendToRoom
  PROVE  LobbyTypeInv'
<1> USE DEF LobbyTypeInv, LobbyTypeOK
<1>1. (LobbyTaskTypeOK /\ QueueTypeOK /\ ClientTypeOK)'
  <2>1. /\ roomMap' \in [RoomCode -> RoomId \cup {NoRoom}]
        /\ roomOf' \in [Client -> RoomId \cup {NoRoom}]
    BY DEF SendToRoom, LobbyTaskTypeOK, ClientTypeOK
  <2> QED
    BY <2>1, TakeRequestTypes DEF SendToRoom, ClientPlace
<1>2. RoomTypeOK'
  <2> DEFINE c == Head(requests)
             r == roomMap[ask[c].code]
  <2>1. c \in Client
    BY TailOfSeq DEF SendToRoom, TakeRequest, QueueTypeOK
  <2>2. newClients' = [newClients EXCEPT ![r] = Append(newClients[r], c)]
    BY DEF SendToRoom
  <2>3. Len(newClients[r]) < NEW_CLIENT_CHANNEL_BUFFER_SIZE
    BY DEF SendToRoom, TakesClients
  <2>4. ASSUME NEW s \in RoomId
        PROVE  /\ newClients'[s] \in Seq(Client)
               /\ Len(newClients'[s]) <= NEW_CLIENT_CHANNEL_BUFFER_SIZE
    BY <2>1, <2>2, <2>3, AppendToSeq, ChannelAssumption DEF RoomTypeOK
  <2>5. newClients' \in [RoomId -> Seq(Client)]
    BY <2>2, <2>4 DEF RoomTypeOK
  <2> QED
    BY <2>4, <2>5 DEF SendToRoom, RoomTypeOK
<1>3. (CodesKnown /\ ServerTypeOK)'
  BY DEF SendToRoom, CodesKnown, ServerTypeOK, serverVars
<1> QED
  BY <1>1, <1>2, <1>3

LEMMA TurnedAwayTypes ==
  ASSUME LobbyTypeInv, RefuseRequest \/ DropClient
  PROVE  LobbyTypeInv'
<1> USE DEF LobbyTypeInv, LobbyTypeOK
<1>1. (LobbyTaskTypeOK /\ QueueTypeOK /\ ClientTypeOK)'
  <2>1. /\ roomMap' \in [RoomCode -> RoomId \cup {NoRoom}]
        /\ roomOf' \in [Client -> RoomId \cup {NoRoom}]
    BY DEF RefuseRequest, DropClient, LobbyTaskTypeOK, ClientTypeOK
  <2>2. PICK kind : TakeRequest(kind)
    BY DEF RefuseRequest, DropClient
  <2>3. PICK place \in {"closing", "gone"} :
          at' = [at EXCEPT ![Head(requests)] = place]
    BY DEF RefuseRequest, DropClient
  <2> QED
    BY <2>1, <2>2, <2>3, TakeRequestTypes DEF RefuseRequest, DropClient, ClientPlace
<1>2. (RoomTypeOK /\ CodesKnown /\ ServerTypeOK)'
  BY DEF RefuseRequest, DropClient, RoomTypeOK, CodesKnown, ServerTypeOK, roomVars,
         serverVars
<1> QED
  BY <1>1, <1>2

LEMMA ControlTypes ==
  ASSUME LobbyTypeInv, RecvSeal \/ RecvClose
  PROVE  LobbyTypeInv'
<1> USE DEF LobbyTypeInv, LobbyTypeOK
<1>1. controls # <<>> /\ controls' = Tail(controls)
  BY DEF RecvSeal, RecvClose, TakeControl
<1>2. Head(controls) \in LobbyControl
  BY <1>1, TailOfSeq DEF QueueTypeOK
<1>3. roomMap[Head(controls).code] \in RoomId \cup {NoRoom}
  BY <1>2 DEF LobbyTaskTypeOK, LobbyControl
<1>4. LobbyTaskTypeOK'
  <2>1. CASE RecvSeal
    BY <1>3, <2>1 DEF RecvSeal, TakeControl, LobbyTaskTypeOK
  <2>2. CASE RecvClose
    BY <1>3, <2>2 DEF RecvClose, TakeControl, LobbyTaskTypeOK, LobbyPlace
  <2> QED
    BY <2>1, <2>2
<1>5. QueueTypeOK'
  BY <1>1, TailOfSeq, ChannelAssumption DEF RecvSeal, RecvClose, TakeControl, QueueTypeOK
<1>6. (ClientTypeOK /\ RoomTypeOK /\ CodesKnown /\ ServerTypeOK)'
  BY DEF RecvSeal, RecvClose, TakeControl, ClientTypeOK, RoomTypeOK, CodesKnown,
         ServerTypeOK, clientVars, roomVars, serverVars
<1> QED
  BY <1>4, <1>5, <1>6

LEMMA ReconfigureTypes ==
  ASSUME LobbyTypeInv, Reconfigure
  PROVE  LobbyTypeInv'
<1> USE DEF LobbyTypeInv, LobbyTypeOK
<1>1. PICK new \in [rooms : RoomLimits, queue : QueueLimits], ks \in SUBSET Listed :
        /\ config' = new
        /\ roomMap' = [k \in RoomCode |-> IF k \in ks THEN NoRoom ELSE roomMap[k]]
        /\ doomed' = doomed \cup {roomMap[k] : k \in ks}
  BY DEF Reconfigure
<1>2. LobbyTaskTypeOK'
  BY <1>1 DEF Reconfigure, LobbyTaskTypeOK
<1>3. RoomTypeOK'
  <2>1. doomed' \in SUBSET RoomId
    BY <1>1 DEF Listed, RoomTypeOK, LobbyTaskTypeOK
  <2> QED
    BY <2>1 DEF Reconfigure, RoomTypeOK
<1>4. ServerTypeOK'
  <2>1. reconfigs' \in 0..MaxReconfigs
    BY LobbyBoundAssumption DEF Reconfigure, ServerTypeOK
  <2> QED
    BY <2>1 DEF Reconfigure, ServerTypeOK
<1>5. (QueueTypeOK /\ ClientTypeOK /\ CodesKnown)'
  BY DEF Reconfigure, QueueTypeOK, ClientTypeOK, CodesKnown, queueVars, clientVars
<1> QED
  BY <1>2, <1>3, <1>4, <1>5

LEMMA WindingDownTypes ==
  ASSUME LobbyTypeInv, RoomAwaited \/ LobbyHearsShutdown \/ LobbyWindsDown
  PROVE  LobbyTypeInv'
<1> USE DEF LobbyTypeInv, LobbyTypeOK
<1>1. LobbyTaskTypeOK'
  BY DEF RoomAwaited, LobbyHearsShutdown, LobbyWindsDown, DrainRequests, DrainControls,
         LobbyStops, LobbyTaskTypeOK, LobbyPlace
<1>2. (QueueTypeOK /\ ClientTypeOK)'
  <2>1. CASE RoomAwaited \/ LobbyHearsShutdown
    BY <2>1 DEF RoomAwaited, LobbyHearsShutdown, QueueTypeOK, ClientTypeOK, queueVars,
                clientVars
  <2>2. CASE DrainRequests
    <3>1. CASE requests # <<>> /\ RequestDone(Head(requests))
               /\ at' = [at EXCEPT ![Head(requests)] = "gone"]
               /\ UNCHANGED <<lpc, roomOf>>
      <4>1. QueueTypeOK'
        BY <2>2, <3>1, TailOfSeq, ChannelAssumption
        DEF DrainRequests, RequestDone, QueueTypeOK
      <4>2. ClientTypeOK'
        BY <2>2, <3>1 DEF DrainRequests, RequestDone, ClientTypeOK, ClientPlace
      <4> QED
        BY <4>1, <4>2
    <3>2. CASE UNCHANGED <<requests, clientVars>>
      BY <2>2, <3>2 DEF DrainRequests, QueueTypeOK, ClientTypeOK, clientVars
    <3> QED
      BY <2>2, <3>1, <3>2 DEF DrainRequests
  <2>3. CASE DrainControls
    <3>1. ClientTypeOK'
      BY <2>3 DEF DrainControls, ClientTypeOK, clientVars
    <3>2. CASE controls # <<>> /\ controls' = Tail(controls)
      <4>1. controls' \in Seq(LobbyControl) /\ Len(controls') = Len(controls) - 1
        BY <3>2, TailOfSeq DEF QueueTypeOK
      <4> QED
        BY <2>3, <3>1, <4>1, ChannelAssumption DEF DrainControls, QueueTypeOK
    <3>3. CASE UNCHANGED controls
      BY <2>3, <3>1, <3>3 DEF DrainControls, QueueTypeOK
    <3> QED
      BY <2>3, <3>2, <3>3 DEF DrainControls
  <2>4. CASE LobbyStops
    BY <2>4, ChannelAssumption DEF LobbyStops, QueueTypeOK, ClientTypeOK, ClientPlace
  <2> QED
    BY <2>1, <2>2, <2>3, <2>4 DEF LobbyWindsDown
<1>3. (RoomTypeOK /\ CodesKnown /\ ServerTypeOK)'
  BY DEF RoomAwaited, LobbyHearsShutdown, LobbyWindsDown, DrainRequests, DrainControls,
         LobbyStops, RoomTypeOK, CodesKnown, ServerTypeOK, roomVars, serverVars
<1> QED
  BY <1>1, <1>2, <1>3
-----------------------------------------------------------------------------
(* The clients' steps.                                                     *)

LEMMA AcceptTypes ==
  ASSUME LobbyTypeInv, NEW c \in Client, Accept(c)
  PROVE  LobbyTypeInv'
<1> USE DEF LobbyTypeInv, LobbyTypeOK
<1>1. ClientTypeOK'
  BY ClientMoves DEF Accept, ClientTypeOK, ClientPlace
<1>2. ServerTypeOK'
  <2>1. (~shutdown) \in BOOLEAN
    BY Zenon DEF ServerTypeOK
  <2>2. acceptHears' \in [Client -> BOOLEAN]
    BY <2>1 DEF Accept, ServerTypeOK
  <2> QED
    BY <2>2 DEF Accept, ServerTypeOK
<1>3. (LobbyTaskTypeOK /\ QueueTypeOK /\ RoomTypeOK /\ CodesKnown)'
  BY DEF Accept, LobbyTaskTypeOK, QueueTypeOK, RoomTypeOK, CodesKnown, lobbyVars,
         queueVars, roomVars
<1> QED
  BY <1>1, <1>2, <1>3

LEMMA HandshakeOverTypes ==
  ASSUME LobbyTypeInv, NEW c \in Client, NEW place \in ClientPlace,
         HandshakeOver(c, place)
  PROVE  (LobbyTaskTypeOK /\ ClientTypeOK /\ RoomTypeOK /\ CodesKnown /\ ServerTypeOK)'
<1> USE DEF LobbyTypeInv, LobbyTypeOK, HandshakeOver
<1>1. ClientTypeOK'
  BY ClientMoves DEF ClientTypeOK
<1>2. ServerTypeOK'
  <2>1. acceptHears' \in [Client -> BOOLEAN]
    BY DEF ServerTypeOK
  <2> QED
    BY <2>1 DEF ServerTypeOK
<1>3. (LobbyTaskTypeOK /\ RoomTypeOK /\ CodesKnown)'
  BY DEF LobbyTaskTypeOK, RoomTypeOK, CodesKnown, lobbyVars, roomVars
<1> QED
  BY <1>1, <1>2, <1>3

LEMMA EstablishedTypes ==
  ASSUME LobbyTypeInv, NEW c \in Client, Established(c)
  PROVE  LobbyTypeInv'
<1>1. QueueTypeOK'
  <2> USE DEF LobbyTypeInv, LobbyTypeOK
  <2>1. UNCHANGED <<requests, controls>>
    BY DEF Established, HandshakeOver
  <2>2. CASE connections' = Append(connections, c) /\ SpaceForConnection
    BY <2>1, <2>2, AppendToSeq, ChannelAssumption DEF SpaceForConnection, QueueTypeOK
  <2>3. CASE UNCHANGED connections
    BY <2>1, <2>3 DEF QueueTypeOK
  <2> QED
    BY <2>2, <2>3 DEF Established
<1>2. PICK place \in {"queued", "sending"} : HandshakeOver(c, place)
  BY DEF Established
<1> QED
  BY <1>1, <1>2, HandshakeOverTypes DEF LobbyTypeInv, LobbyTypeOK, ClientPlace

LEMMA UnblockConnectionTypes ==
  ASSUME LobbyTypeInv, NEW c \in Client, UnblockConnection(c)
  PROVE  LobbyTypeInv'
<1> USE DEF LobbyTypeInv, LobbyTypeOK
<1>1. QueueTypeOK'
  BY AppendToSeq, ChannelAssumption
  DEF UnblockConnection, SpaceForConnection, QueueTypeOK
<1>2. ClientTypeOK'
  BY ClientMoves DEF UnblockConnection, ClientTypeOK, ClientPlace
<1>3. (LobbyTaskTypeOK /\ RoomTypeOK /\ CodesKnown /\ ServerTypeOK)'
  BY DEF UnblockConnection, LobbyTaskTypeOK, RoomTypeOK, CodesKnown, ServerTypeOK,
         lobbyVars, roomVars, serverVars
<1> QED
  BY <1>1, <1>2, <1>3

LEMMA ConnectionEndsTypes ==
  ASSUME LobbyTypeInv, NEW c \in Client, ConnectionFails(c) \/ AcceptEnds(c)
  PROVE  LobbyTypeInv'
<1>1. HandshakeOver(c, "gone") /\ UNCHANGED connections
  BY DEF ConnectionFails, AcceptEnds
<1>2. QueueTypeOK'
  BY <1>1 DEF HandshakeOver, LobbyTypeInv, LobbyTypeOK, QueueTypeOK
<1> QED
  BY <1>1, <1>2, HandshakeOverTypes DEF LobbyTypeInv, LobbyTypeOK, ClientPlace

LEMMA ClientGoesTypes ==
  ASSUME LobbyTypeInv, NEW c \in Client, SendCloseDone(c) \/ LeavesRoom(c)
  PROVE  LobbyTypeInv'
<1> USE DEF LobbyTypeInv, LobbyTypeOK
<1>1. ClientTypeOK'
  BY ClientMoves DEF SendCloseDone, LeavesRoom, ClientTypeOK, ClientPlace
<1>2. (LobbyTaskTypeOK /\ QueueTypeOK /\ RoomTypeOK /\ CodesKnown /\ ServerTypeOK)'
  BY DEF SendCloseDone, LeavesRoom, LobbyTaskTypeOK, QueueTypeOK, RoomTypeOK, CodesKnown,
         ServerTypeOK, lobbyVars, queueVars, roomVars, serverVars
<1> QED
  BY <1>1, <1>2

LEMMA PostRequestTypes ==
  ASSUME LobbyTypeInv, NEW c \in Client, NEW command \in LobbyCommand,
         PostRequest(c, command)
  PROVE  LobbyTypeInv'
<1> USE DEF LobbyTypeInv, LobbyTypeOK
<1>1. QueueTypeOK'
  <2>1. CASE requests' = Append(requests, c) /\ SpaceForRequest
    BY <2>1, AppendToSeq, ChannelAssumption DEF PostRequest, SpaceForRequest, QueueTypeOK
  <2>2. CASE UNCHANGED requests
    BY <2>2 DEF PostRequest, QueueTypeOK
  <2> QED
    BY <2>1, <2>2 DEF PostRequest
<1>2. ClientTypeOK'
  BY DEF PostRequest, ClientTypeOK, ClientPlace
<1>3. (LobbyTaskTypeOK /\ RoomTypeOK /\ CodesKnown /\ ServerTypeOK)'
  BY DEF PostRequest, LobbyTaskTypeOK, RoomTypeOK, CodesKnown, ServerTypeOK, lobbyVars,
         roomVars, serverVars
<1> QED
  BY <1>1, <1>2, <1>3

LEMMA UnblockRequestTypes ==
  ASSUME LobbyTypeInv, NEW c \in Client, UnblockRequest(c)
  PROVE  LobbyTypeInv'
<1> USE DEF LobbyTypeInv, LobbyTypeOK
<1>1. QueueTypeOK'
  BY AppendToSeq, ChannelAssumption DEF UnblockRequest, SpaceForRequest, QueueTypeOK
<1>2. ClientTypeOK'
  BY ClientMoves DEF UnblockRequest, ClientTypeOK, ClientPlace
<1>3. (LobbyTaskTypeOK /\ RoomTypeOK /\ CodesKnown /\ ServerTypeOK)'
  BY DEF UnblockRequest, LobbyTaskTypeOK, RoomTypeOK, CodesKnown, ServerTypeOK,
         lobbyVars, roomVars, serverVars
<1> QED
  BY <1>1, <1>2, <1>3

LEMMA ClientStepTypes ==
  ASSUME LobbyTypeInv, NEW c \in Client, ClientStep(c)
  PROVE  LobbyTypeInv'
<1>1. CASE ClientAsks(c) \/ ClientTimesOut(c)
  <2>1. PICK command \in LobbyCommand : PostRequest(c, command)
    BY <1>1 DEF ClientAsks, ClientTimesOut, CreateRoom, JoinRoom, CloseConnection,
                DropConnection, LobbyCommand
  <2> QED
    BY <2>1, PostRequestTypes
<1> QED
  BY <1>1, AcceptTypes, EstablishedTypes, UnblockConnectionTypes, ConnectionEndsTypes,
     UnblockRequestTypes, ClientGoesTypes
  DEF ClientStep
-----------------------------------------------------------------------------
(* The rooms' steps.                                                       *)

LEMMA RoomGoesOnTypes ==
  ASSUME LobbyTypeInv, NEW r \in RoomId, RoomBeginsClosing(r) \/ RoomSwept(r)
  PROVE  LobbyTypeInv'
<1> USE DEF LobbyTypeInv, LobbyTypeOK
<1>1. (RoomTypeOK /\ CodesKnown)'
  BY DEF RoomBeginsClosing, RoomSwept, RoomGoto, RoomTypeOK, RoomPhase, CodesKnown
<1>2. (LobbyTaskTypeOK /\ QueueTypeOK /\ ClientTypeOK /\ ServerTypeOK)'
  BY DEF RoomBeginsClosing, RoomSwept, LobbyTaskTypeOK, QueueTypeOK, ClientTypeOK,
         ServerTypeOK, lobbyVars, queueVars, clientVars, serverVars
<1> QED
  BY <1>1, <1>2

LEMMA SignalTypes ==
  ASSUME LobbyTypeInv, NEW r \in RoomId, phase[r] # "none", SpaceForControl,
         NEW kind \in {"seal", "close"},
         controls' = Append(controls, [kind |-> kind, code |-> codeOf[r]]),
         UNCHANGED <<connections, requests>>
  PROVE  QueueTypeOK'
<1> DEFINE signal == [kind |-> kind, code |-> codeOf[r]]
<1>1. signal \in LobbyControl
  BY DEF LobbyTypeInv, CodesKnown, LobbyControl
<1> HIDE DEF signal
<1>2. controls' = Append(controls, signal)
  BY DEF signal
<1> QED
  BY <1>1, <1>2, AppendToSeq, ChannelAssumption
  DEF LobbyTypeInv, LobbyTypeOK, QueueTypeOK, SpaceForControl

LEMMA RoomSealsTypes ==
  ASSUME LobbyTypeInv, NEW r \in RoomId, RoomSeals(r)
  PROVE  LobbyTypeInv'
<1> USE DEF LobbyTypeInv, LobbyTypeOK
<1>1. QueueTypeOK'
  BY SignalTypes DEF RoomSeals
<1>2. (RoomTypeOK /\ CodesKnown)'
  BY DEF RoomSeals, RoomGoto, RoomTypeOK, RoomPhase, CodesKnown
<1>3. (LobbyTaskTypeOK /\ ClientTypeOK /\ ServerTypeOK)'
  BY DEF RoomSeals, LobbyTaskTypeOK, ClientTypeOK, ServerTypeOK, lobbyVars, clientVars,
         serverVars
<1> QED
  BY <1>1, <1>2, <1>3

LEMMA RoomTakesClientTypes ==
  ASSUME LobbyTypeInv, NEW r \in RoomId, RoomTakesClient(r)
  PROVE  LobbyTypeInv'
<1> USE DEF LobbyTypeInv, LobbyTypeOK
<1>1. newClients' = [newClients EXCEPT ![r] = Tail(newClients[r])]
  BY DEF RoomTakesClient
<1>2. /\ Tail(newClients[r]) \in Seq(Client)
      /\ Len(Tail(newClients[r])) <= NEW_CLIENT_CHANNEL_BUFFER_SIZE
  BY TailOfSeq, ChannelAssumption DEF RoomTakesClient, RoomTypeOK
<1>3. (RoomTypeOK /\ CodesKnown)'
  BY <1>1, <1>2 DEF RoomTakesClient, RoomTypeOK, CodesKnown
<1>4. ClientTypeOK'
  BY ClientMoves DEF RoomTakesClient, ClientTypeOK, ClientPlace
<1>5. (LobbyTaskTypeOK /\ QueueTypeOK /\ ServerTypeOK)'
  BY DEF RoomTakesClient, LobbyTaskTypeOK, QueueTypeOK, ServerTypeOK, lobbyVars,
         queueVars, serverVars
<1> QED
  BY <1>3, <1>4, <1>5

LEMMA RoomOverTypes ==
  ASSUME LobbyTypeInv, NEW r \in RoomId, RoomCloses(r) \/ RoomAborted(r)
  PROVE  LobbyTypeInv'
<1> USE DEF LobbyTypeInv, LobbyTypeOK
<1>1. newClients' = [newClients EXCEPT ![r] = <<>>]
  BY DEF RoomCloses, RoomAborted, ReceiverDropped
<1>2. (RoomTypeOK /\ CodesKnown)'
  <2>1. PICK over \in {"closed", "aborted"} : phase' = [phase EXCEPT ![r] = over]
    BY DEF RoomCloses, RoomAborted, RoomGoto
  <2>2. phase[r] # "none" /\ UNCHANGED <<codeOf, doomed>>
    BY DEF RoomCloses, RoomAborted, Running
  <2>3. \A s \in RoomId : newClients'[s] = IF s = r THEN <<>> ELSE newClients[s]
    BY <1>1 DEF RoomTypeOK
  <2>4. \A s \in RoomId : Len(newClients'[s]) <= NEW_CLIENT_CHANNEL_BUFFER_SIZE
    BY <2>3, ChannelAssumption DEF RoomTypeOK
  <2> QED
    BY <1>1, <2>1, <2>2, <2>4 DEF RoomTypeOK, RoomPhase, CodesKnown
<1>3. ClientTypeOK'
  BY DEF RoomCloses, RoomAborted, ReceiverDropped, ClientTypeOK, ClientPlace
<1>4. QueueTypeOK'
  <2>1. CASE RoomCloses(r)
    BY <2>1, SignalTypes DEF RoomCloses
  <2>2. CASE RoomAborted(r)
    BY <2>2 DEF RoomAborted, QueueTypeOK, queueVars
  <2> QED
    BY <2>1, <2>2
<1>5. (LobbyTaskTypeOK /\ ServerTypeOK)'
  BY DEF RoomCloses, RoomAborted, LobbyTaskTypeOK, ServerTypeOK, lobbyVars, serverVars
<1> QED
  BY <1>2, <1>3, <1>4, <1>5

LEMMA RoomStepTypes ==
  ASSUME LobbyTypeInv, NEW r \in RoomId, RoomStep(r)
  PROVE  LobbyTypeInv'
BY RoomGoesOnTypes, RoomSealsTypes, RoomTakesClientTypes, RoomOverTypes
DEF RoomStep, RoomWindsDown
-----------------------------------------------------------------------------
LEMMA SpawnLobbyTypes ==
  ASSUME LobbyTypeInv, SpawnLobby
  PROVE  LobbyTypeInv'
<1> USE DEF LobbyTypeInv, LobbyTypeOK
<1>1. ServerTypeOK'
  <2>1. (~shutdown) \in BOOLEAN
    BY Zenon DEF ServerTypeOK
  <2> QED
    BY <2>1 DEF SpawnLobby, ServerTypeOK, ServerPlace
<1>2. LobbyTaskTypeOK'
  BY DEF SpawnLobby, LobbyTaskTypeOK, LobbyPlace
<1>3. (QueueTypeOK /\ ClientTypeOK /\ RoomTypeOK /\ CodesKnown)'
  BY DEF SpawnLobby, QueueTypeOK, ClientTypeOK, RoomTypeOK, CodesKnown, queueVars,
         clientVars, roomVars
<1> QED
  BY <1>1, <1>2, <1>3

LEMMA ServerGotoTypes ==
  ASSUME LobbyTypeInv, NEW place \in ServerPlace, ServerGoto(place)
  PROVE  LobbyTypeInv'
BY DEF LobbyTypeInv, LobbyTypeOK, ServerGoto, ServerTypeOK, LobbyTaskTypeOK, QueueTypeOK,
       ClientTypeOK, RoomTypeOK, CodesKnown, lobbyVars, queueVars, clientVars, roomVars

LEMMA ServerStepTypes ==
  ASSUME LobbyTypeInv, ServerStep \/ Shutdown
  PROVE  LobbyTypeInv'
<1>1. CASE ServerStep
  BY <1>1, SpawnLobbyTypes, ServerGotoTypes
  DEF ServerStep, ServerHearsShutdown, AcceptsAwaited, LobbyAwaited, ConfigAwaited,
      ServerPlace
<1>2. CASE Shutdown
  BY <1>2
  DEF Shutdown, LobbyTypeInv, LobbyTypeOK, ServerTypeOK, LobbyTaskTypeOK, QueueTypeOK,
      ClientTypeOK, RoomTypeOK, CodesKnown, lobbyVars, queueVars, clientVars, roomVars
<1> QED
  BY <1>1, <1>2

LEMMA LobbyStutterTypes ==
  ASSUME LobbyTypeInv, UNCHANGED lobbyAndAll
  PROVE  LobbyTypeInv'
BY DEF LobbyTypeInv, LobbyTypeOK, LobbyTaskTypeOK, QueueTypeOK, ClientTypeOK, RoomTypeOK,
       ServerTypeOK, CodesKnown, lobbyAndAll, lobbyVars, queueVars, clientVars, roomVars,
       serverVars

LEMMA LobbyStepTypes ==
  ASSUME LobbyTypeInv, [Next]_lobbyAndAll
  PROVE  LobbyTypeInv'
<1>1. CASE LobbyStep
  BY <1>1, NewConnectionTypes, RefuseConnectionTypes, HostRoomTypes, SendToRoomTypes,
     TurnedAwayTypes, ControlTypes, ReconfigureTypes, WindingDownTypes
  DEF LobbyStep, LobbyServes
<1>2. CASE UNCHANGED lobbyAndAll
  BY <1>2, LobbyStutterTypes
<1> QED
  BY <1>1, <1>2, ClientStepTypes, RoomStepTypes, ServerStepTypes DEF Next, Finished

\* LobbyTypeInv is an invariant.
THEOREM LobbyTypeInvariant == Spec => []LobbyTypeInv
<1> QED
  BY LobbyInitTypes, LobbyStepTypes, PTL DEF Spec

\* Every variable of lobby_task, server_task and the tasks around them keeps its
\* type, and no channel ever holds more than its capacity.
THEOREM LobbyTypes == Spec => []LobbyTypeOK
<1>1. LobbyTypeInv => LobbyTypeOK
  BY DEF LobbyTypeInv
<1> QED
  BY <1>1, LobbyTypeInvariant, PTL
=============================================================================
