----------------------------- MODULE LobbySystem -----------------------------
(***************************************************************************)
(* The lobby with everything that talks to it: server_task and its accept  *)
(* tasks (src/lib.rs, src/connection.rs), the join tasks                   *)
(* (src/player/joining.rs), the rooms as RoomLifecycle promises them, and  *)
(* the close tasks.                                                        *)
(*                                                                         *)
(* at[c]: "away" not connected yet; "handshake" in accept_connection;      *)
(* "sending" blocked sending the stream to the lobby; "queued" in that     *)
(* channel; "joining" in PlayerJoining::task; "asking" blocked sending the *)
(* request; "asked" in the request channel; "sentToRoom" in a room's       *)
(* new-client channel; "inRoom" with a room, roomOf[c]: its player, or in  *)
(* one of its send_close tasks; "closing" in a send_close task of the      *)
(* lobby; "gone" dropped.                                                  *)
(***************************************************************************)
EXTENDS LobbyTask, SequencesExt

\* tcp_listener.accept(): an accept task, whose shutdown receiver only hears a
\* signal sent from now on.
Accept(c) ==
  /\ spc = "listen"
  /\ at[c] = "away"
  /\ at' = [at EXCEPT ![c] = "handshake"]
  /\ acceptHears' = [acceptHears EXCEPT ![c] = ~shutdown]
  /\ UNCHANGED <<lobbyVars, queueVars, handleOf, ask, roomOf, roomVars, spc,
                 lobbyHears, shutdown, reconfigs>>

SpaceForConnection ==
  Len(connections) < LOBBY_CONNECTION_CHANNEL_BUFFER_SIZE

\* The handshakes of c are over, and nobody listens to c's shutdown receiver.
HandshakeOver(c, place) ==
  /\ at' = [at EXCEPT ![c] = place]
  /\ acceptHears' = [acceptHears EXCEPT ![c] = FALSE]
  /\ UNCHANGED <<lobbyVars, requests, controls, handleOf, ask, roomOf, roomVars,
                 spc, lobbyHears, shutdown, reconfigs>>

\* The handshakes are done: send_to_lobby.send(stream).await
Established(c) ==
  /\ at[c] = "handshake"
  /\ lpc # "done"
  /\ \/ /\ SpaceForConnection
        /\ connections' = Append(connections, c)
        /\ HandshakeOver(c, "queued")
     \/ /\ ~SpaceForConnection
        /\ HandshakeOver(c, "sending")
        /\ UNCHANGED connections

UnblockConnection(c) ==
  /\ at[c] = "sending"
  /\ lpc # "done"
  /\ SpaceForConnection
  /\ connections' = Append(connections, c)
  /\ at' = [at EXCEPT ![c] = "queued"]
  /\ UNCHANGED <<lobbyVars, requests, controls, handleOf, ask, roomOf, roomVars,
                 serverVars>>

\* A handshake fails, or ends when the lobby's receiver is gone.
ConnectionFails(c) ==
  /\ at[c] = "handshake"
  /\ HandshakeOver(c, "gone")
  /\ UNCHANGED connections

\* Mutant: the handshakes do not listen to the shutdown signal.
OnlyBlockedSendsEnd(c) ==
  /\ at[c] = "sending" /\ lpc = "done"
  /\ HandshakeOver(c, "gone")
  /\ UNCHANGED connections

\* The accept task ends without the client's help: it hears the signal, or it is
\* blocked on a channel whose receiver is gone.
AcceptEnds(c) ==
  /\ \/ at[c] = "handshake" /\ shutdown /\ acceptHears[c]
     \/ at[c] = "sending" /\ lpc = "done"
  /\ HandshakeOver(c, "gone")
  /\ UNCHANGED connections
-----------------------------------------------------------------------------
SpaceForRequest == Len(requests) < LOBBY_REQUEST_CHANNEL_BUFFER_SIZE

\* PlayerJoining::task comes to its command and sends it.  A client only knows
\* the codes of rooms there were, any other is refused in the same way.
PostRequest(c, command) ==
  /\ at[c] = "joining"
  /\ ask' = [ask EXCEPT ![c] = command]
  /\ \/ /\ SpaceForRequest
        /\ requests' = Append(requests, c)
        /\ at' = [at EXCEPT ![c] = "asked"]
     \/ /\ ~SpaceForRequest
        /\ at' = [at EXCEPT ![c] = "asking"]
        /\ UNCHANGED requests
  /\ UNCHANGED <<lobbyVars, connections, controls, handleOf, roomOf, roomVars,
                 serverVars>>

\* Bound: there is a room task for each request to create a room.
MayCreate ==
  Cardinality({c \in Client : ask[c] = CreateRoom})
    < Cardinality({r \in RoomId : phase[r] = "none"})

ClientAsks(c) ==
  \/ MayCreate /\ PostRequest(c, CreateRoom)
  \/ \E k \in RoomCode : PostRequest(c, JoinRoom(k))
  \/ PostRequest(c, DropConnection)

\* The client sent nothing in time, or something else than a request.
ClientTimesOut(c) == PostRequest(c, CloseConnection)

UnblockRequest(c) ==
  /\ at[c] = "asking"
  /\ SpaceForRequest
  /\ requests' = Append(requests, c)
  /\ at' = [at EXCEPT ![c] = "asked"]
  /\ UNCHANGED <<lobbyVars, connections, controls, handleOf, ask, roomOf, roomVars,
                 serverVars>>

\* send_close ends, and with it the connection.
SendCloseDone(c) ==
  /\ at[c] = "closing"
  /\ at' = [at EXCEPT ![c] = "gone"]
  /\ UNCHANGED <<lobbyVars, queueVars, handleOf, ask, roomOf, roomVars, serverVars>>

\* A player's task or a send_close task of the room ends, and with it the
\* connection, or the room drops the stream.
LeavesRoom(c) ==
  /\ at[c] = "inRoom"
  /\ at' = [at EXCEPT ![c] = "gone"]
  /\ roomOf' = [roomOf EXCEPT ![c] = NoRoom]
  /\ UNCHANGED <<lobbyVars, queueVars, handleOf, ask, roomVars, serverVars>>

ClientStep(c) ==
  \/ Accept(c) \/ Established(c) \/ UnblockConnection(c) \/ ConnectionFails(c)
  \/ AcceptEnds(c) \/ ClientAsks(c) \/ ClientTimesOut(c) \/ UnblockRequest(c)
  \/ SendCloseDone(c) \/ LeavesRoom(c)
-----------------------------------------------------------------------------
RoomGoto(r, place) == phase' = [phase EXCEPT ![r] = place]

\* The main loop of Room::task ends; the room's reasons to end are many,
\* one of them the shutdown signal, unless the room was created too late to hear
\* it.
RoomBeginsClosing(r) ==
  /\ phase[r] = "open"
  /\ RoomGoto(r, "closing")
  /\ UNCHANGED <<lobbyVars, queueVars, clientVars, codeOf, doomed,
                 newClients, serverVars>>

\* Mutant: off by one.
OneMoreControl == Len(controls) <= LOBBY_CONTROL_CHANNEL_BUFFER_SIZE

SpaceForControl == Len(controls) < LOBBY_CONTROL_CHANNEL_BUFFER_SIZE

\* Mutant: the room says that it is closed when it begins to close.
ClosedIsSaidFirst(r) ==
  /\ phase[r] = "closing"
  /\ SpaceForControl
  /\ controls' = Append(controls, [kind |-> "close", code |-> codeOf[r]])
  /\ RoomGoto(r, "sealed")
  /\ UNCHANGED <<lobbyVars, connections, requests, clientVars, codeOf, doomed,
                 newClients, serverVars>>

RoomSeals(r) ==
  /\ phase[r] = "closing"
  /\ SpaceForControl
  /\ controls' = Append(controls, [kind |-> "seal", code |-> codeOf[r]])
  /\ RoomGoto(r, "sealed")
  /\ UNCHANGED <<lobbyVars, connections, requests, clientVars, codeOf, doomed,
                 newClients, serverVars>>

\* A new client: a player or turned away while the room is open, told that the
\* room is sealed when it comes too late.
RoomTakesClient(r) ==
  /\ phase[r] \in {"open", "sealed"}
  /\ newClients[r] # <<>>
  /\ newClients' = [newClients EXCEPT ![r] = Tail(@)]
  /\ at' = [at EXCEPT ![Head(newClients[r])] = "inRoom"]
  /\ roomOf' = [roomOf EXCEPT ![Head(newClients[r])] = r]
  /\ UNCHANGED <<lobbyVars, queueVars, handleOf, ask, phase, codeOf, doomed, serverVars>>

\* try_recv() finds no client; those that come later are dropped.
RoomSwept(r) ==
  /\ phase[r] = "sealed"
  /\ newClients[r] = <<>>
  /\ RoomGoto(r, "swept")
  /\ UNCHANGED <<lobbyVars, queueVars, clientVars, codeOf, doomed,
                 newClients, serverVars>>

\* The room's receiver is dropped with its task, and the streams in it.
ReceiverDropped(r) ==
  /\ newClients' = [newClients EXCEPT ![r] = <<>>]
  /\ at' = [c \in Client |-> IF c \in ToSet(newClients[r]) THEN "gone" ELSE at[c]]

\* Mutant: the room does not wait for anybody.
NobodyAwaited(r) == TRUE

\* No task of a player or of a client being closed is left (ClosedMeansQuiet of
\* RoomSystem): the room awaits each of them before its last signal.
RoomIsEmpty(r) == \A c \in Client : ~(at[c] = "inRoom" /\ roomOf[c] = r)

RoomCloses(r) ==
  /\ phase[r] = "swept"
  /\ RoomIsEmpty(r)
  /\ SpaceForControl
  /\ controls' = Append(controls, [kind |-> "close", code |-> codeOf[r]])
  /\ RoomGoto(r, "closed")
  /\ ReceiverDropped(r)
  /\ UNCHANGED <<lobbyVars, connections, requests, handleOf, ask, roomOf, codeOf,
                 doomed, serverVars>>

\* An abort takes effect when the task is next at an await.  The tasks of the
\* room's players and its send_close tasks are not aborted with it: they go on,
\* nobody has their handles any more.
RoomAborted(r) ==
  /\ r \in doomed
  /\ Running(r)
  /\ RoomGoto(r, "aborted")
  /\ ReceiverDropped(r)
  /\ UNCHANGED <<lobbyVars, queueVars, handleOf, ask, roomOf, codeOf, doomed,
                 serverVars>>

RoomWindsDown(r) ==
  RoomSeals(r) \/ RoomSwept(r) \/ RoomCloses(r)

RoomStep(r) ==
  RoomBeginsClosing(r) \/ RoomTakesClient(r) \/ RoomWindsDown(r) \/ RoomAborted(r)
-----------------------------------------------------------------------------
Accepting == {c \in Client : at[c] \in {"handshake", "sending"}}

\* server_task spawns update_config_task and then the lobby, each with a receiver
\* that only hears a signal sent from now on (resubscribe), before it listens.
SpawnLobby ==
  /\ spc = "start" /\ lpc = "start"
  /\ spc' = "listen"
  /\ lpc' = "select"
  /\ lobbyHears' = ~shutdown
  /\ UNCHANGED <<joinQueue, roomMap, isSealed, config, awaited, queueVars, clientVars,
                 roomVars, acceptHears, shutdown, reconfigs>>

ServerGoto(place) ==
  /\ spc' = place
  /\ UNCHANGED <<lobbyVars, queueVars, clientVars, roomVars, acceptHears, lobbyHears,
                 shutdown, reconfigs>>

\* It breaks its loop, awaits the accept tasks, then the lobby, then
\* update_config_task, which was subscribed before the lobby: it hears what the
\* lobby hears, and ends.
ServerHearsShutdown == spc = "listen" /\ shutdown /\ ServerGoto("awaitAccepts")
AcceptsAwaited == spc = "awaitAccepts" /\ Accepting = {} /\ ServerGoto("awaitLobby")
LobbyAwaited == spc = "awaitLobby" /\ lpc = "done" /\ ServerGoto("awaitConfig")
ConfigAwaited == spc = "awaitConfig" /\ shutdown /\ lobbyHears /\ ServerGoto("done")

\* main.rs: the process was told to terminate.
Shutdown ==
  /\ MayShutdown
  /\ ~shutdown
  /\ shutdown' = TRUE
  /\ UNCHANGED <<lobbyVars, queueVars, clientVars, roomVars, spc, acceptHears,
                 lobbyHears, reconfigs>>

\* main has returned, or waits for ever: the signal was sent before the lobby was
\* there to hear it, and server_task awaits the lobby.
Finished ==
  /\ spc = "done" \/ (spc = "awaitLobby" /\ ~lobbyHears)
  /\ UNCHANGED lobbyAndAll

ServerStep ==
  \/ SpawnLobby \/ ServerHearsShutdown
  \/ AcceptsAwaited \/ LobbyAwaited \/ ConfigAwaited
-----------------------------------------------------------------------------
Init ==
  /\ lpc = "start"
  /\ joinQueue = [h \in HandleId |-> NoClient]
  /\ roomMap = [k \in RoomCode |-> NoRoom]
  /\ isSealed = {}
  /\ config \in [rooms : RoomLimits, queue : QueueLimits]
  /\ awaited = NoRoom
  /\ connections = <<>> /\ requests = <<>> /\ controls = <<>>
  /\ at = [c \in Client |-> "away"]
  /\ handleOf = [c \in Client |-> NoHandle]
  /\ ask = [c \in Client |-> NoCommand]
  /\ roomOf = [c \in Client |-> NoRoom]
  /\ phase = [r \in RoomId |-> "none"]
  /\ codeOf = [r \in RoomId |-> NoCode]
  /\ doomed = {}
  /\ newClients = [r \in RoomId |-> <<>>]
  /\ spc = "start"
  /\ acceptHears = [c \in Client |-> FALSE]
  /\ lobbyHears = FALSE
  /\ shutdown = FALSE
  /\ reconfigs = 0

Next ==
  \/ LobbyStep
  \/ \E c \in Client : ClientStep(c)
  \/ \E r \in RoomId : RoomStep(r)
  \/ ServerStep \/ Shutdown \/ Finished

Spec == Init /\ [][Next]_lobbyAndAll

\* select! polls its branches in random order: strong fairness for each receiver.
\* Blocked senders are served in turn: strong fairness.  A join task gives up
\* after join_room_time_limit_secs, a send_close task by itself.  A client's tasks
\* come one after the other and never again, so they share a conjunct.  Nothing
\* obliges a client to finish its handshake (it has no time limit), or a room to
\* end.
LobbyFairness ==
  /\ SF_lobbyAndAll(NewConnection \/ RefuseConnection)
  /\ SF_lobbyAndAll(HostRoom \/ SendToRoom \/ RefuseRequest \/ DropClient)
  /\ SF_lobbyAndAll(RecvSeal \/ RecvClose)
  /\ SF_lobbyAndAll(LobbyHearsShutdown)
  /\ WF_lobbyAndAll(RoomAwaited \/ LobbyWindsDown)

ClientFairness ==
  \A c \in Client :
    /\ SF_lobbyAndAll(UnblockConnection(c) \/ UnblockRequest(c))
    /\ WF_lobbyAndAll(AcceptEnds(c) \/ ClientTimesOut(c) \/ SendCloseDone(c))

FairSpec == Spec /\ LobbyFairness /\ ClientFairness /\ WF_lobbyAndAll(ServerStep)
-----------------------------------------------------------------------------
LobbyPlace == {"start", "select", "awaitRoom", "drainRequests", "drainControls",
               "joinTasks", "done"}
ServerPlace == {"start", "listen", "awaitAccepts", "awaitLobby", "awaitConfig",
                "done"}
ClientPlace == {"away", "handshake", "sending", "queued", "joining", "asking",
                "asked", "sentToRoom", "inRoom", "closing", "gone"}
RoomPhase == {"none", "open", "closing", "sealed", "swept", "closed", "aborted"}

LobbyTaskTypeOK ==
  /\ lpc \in LobbyPlace
  /\ joinQueue \in [HandleId -> Client \cup {NoClient}]
  /\ roomMap \in [RoomCode -> RoomId \cup {NoRoom}]
  /\ isSealed \in SUBSET RoomId
  /\ config \in [rooms : RoomLimits, queue : QueueLimits]
  /\ awaited \in RoomId \cup {NoRoom}
  /\ lpc = "awaitRoom" => awaited \in RoomId

QueueTypeOK ==
  /\ connections \in Seq(Client) /\ requests \in Seq(Client)
  /\ controls \in Seq(LobbyControl)
  /\ Len(connections) <= LOBBY_CONNECTION_CHANNEL_BUFFER_SIZE
  /\ Len(requests) <= LOBBY_REQUEST_CHANNEL_BUFFER_SIZE
  /\ Len(controls) <= LOBBY_CONTROL_CHANNEL_BUFFER_SIZE

ClientTypeOK ==
  /\ at \in [Client -> ClientPlace]
  /\ handleOf \in [Client -> HandleId \cup {NoHandle}]
  /\ ask \in [Client -> LobbyCommand \cup {NoCommand}]
  /\ roomOf \in [Client -> RoomId \cup {NoRoom}]

RoomTypeOK ==
  /\ phase \in [RoomId -> RoomPhase]
  /\ codeOf \in [RoomId -> RoomCode \cup {NoCode}]
  /\ doomed \in SUBSET RoomId
  /\ newClients \in [RoomId -> Seq(Client)]
  /\ \A r \in RoomId : Len(newClients[r]) <= NEW_CLIENT_CHANNEL_BUFFER_SIZE

ServerTypeOK ==
  /\ spc \in ServerPlace
  /\ acceptHears \in [Client -> BOOLEAN]
  /\ lobbyHears \in BOOLEAN
  /\ shutdown \in BOOLEAN /\ reconfigs \in 0..MaxReconfigs

\* Type invariant: the locals of lobby_task and server_task, the tasks' places
\* and the channels have their types, and no channel exceeds its capacity.
LobbyTypeOK ==
  LobbyTaskTypeOK /\ QueueTypeOK /\ ClientTypeOK /\ RoomTypeOK /\ ServerTypeOK
-----------------------------------------------------------------------------
LobbyIsUp == lpc \in {"start", "select", "awaitRoom"}

\* join_queue lists exactly the clients whose join task runs or whose request is
\* still to be read, each under the handle id its task was given: the error
\* "handle id not found in join queue" is never logged, and the place of a client
\* in the queue is free again once it is served.
QueueFollowsTasks ==
  LobbyIsUp =>
    \A c \in Client :
      IF at[c] \in {"joining", "asking", "asked"}
      THEN {h \in HandleId : joinQueue[h] = c} = {handleOf[c]}
      ELSE {h \in HandleId : joinQueue[h] = c} = {}

\* room_map follows the rooms: a room that runs and was not aborted is listed
\* under its code, so that it can be joined, sealed, closed and awaited; a room
\* that is listed though it has ended is about to be taken off the list.
RoomsAreListed ==
  LobbyIsUp =>
    /\ \A r \in RoomId : Running(r) /\ r \notin doomed => roomMap[codeOf[r]] = r
    /\ \A k \in Listed :
         ~Running(roomMap[k]) => [kind |-> "close", code |-> k] \in ToSet(controls)

\* There are never more rooms than max_rooms, those not counted that were told to
\* abort when it was lowered: room_map.len() is the number of room tasks.
RoomsWithinLimit ==
  LobbyIsUp =>
    Cardinality({r \in RoomId : Running(r) /\ r \notin doomed}) <= config.rooms

\* The lobby only awaits rooms whose task is over ("Since it gave us the close
\* signal, we can safely assume that it's task is done", src/lobby.rs): otherwise
\* nobody joins or leaves the lobby until the players of one room have left.
AwaitedRoomIsDone == lpc = "awaitRoom" => ~Running(awaited)

\* When the server stops nothing is left of it: no accept, join or close task, no
\* room, no stream in a channel and nobody in a room - but for the rooms that were
\* aborted when max_rooms was lowered.  The tasks of their players, and of the
\* clients they were closing, are awaited by nobody and may still run, against the
\* words of main.rs ("Wait for the server task to finish, which itself should wait
\* for all of its spawned tasks to finish").
StoppedMeansQuiet ==
  spc = "done" =>
    /\ \A c \in Client :
         \/ at[c] \in {"away", "gone"}
         \/ at[c] = "inRoom" /\ phase[roomOf[c]] = "aborted"
    /\ \A r \in RoomId : ~Running(r)

\* A client that has connected gets an answer: it is sent to a room, or told why
\* not, or its connection is dropped - whatever the rooms and the other clients
\* do, until the server is told to stop.
JoinersAreAnswered ==
  \A c \in Client :
    at[c] \in {"sending", "queued", "joining", "asking", "asked"} ~>
      shutdown \/ at[c] \in {"sentToRoom", "inRoom", "closing", "gone"}

\* Once it was told to stop, the server stops when the rooms are over and no task
\* that was subscribed too late keeps it waiting: the handshake of a client that
\* came in after the signal, or the lobby itself when the signal was ahead of it.
NothingToWaitFor ==
  /\ lobbyHears
  /\ \A r \in RoomId : ~Running(r)
  /\ \A c \in Client : at[c] = "handshake" => acceptHears[c]
ServerStops == shutdown /\ NothingToWaitFor ~> spc = "done" \/ ~NothingToWaitFor
-----------------------------------------------------------------------------
\* A room as RoomLifecycle sees it.  Who is inside is not the lobby's business.
ListingOf(r) ==
  IF phase[r] # "none" /\ (r \in doomed \/ roomMap[codeOf[r]] # r) THEN "removed"
  ELSE IF ~LobbyIsUp THEN "unread"
  ELSE IF r \in isSealed THEN "sealed" ELSE "open"

PhaseOf(r) == IF phase[r] = "none" THEN "open" ELSE phase[r]

SignalsOf(r) ==
  {kind \in {"seal", "close"} :
     phase[r] # "none" /\ [kind |-> kind, code |-> codeOf[r]] \in ToSet(controls)}

Lifecycle(r) ==
  INSTANCE RoomLifecycle
    WITH Member <- {}, Host <- NoClient, MayEvict <- FALSE,
         Capacity <- NEW_CLIENT_CHANNEL_BUFFER_SIZE,
         phase <- PhaseOf(r), inside <- {}, queued <- Len(newClients[r]),
         signals <- SignalsOf(r), listing <- ListingOf(r)

KeepsLifecycle(r) ==
  \/ Lifecycle(r)!Next
  \/ r \in doomed' /\ (Lifecycle(r)!Evict \/ Lifecycle(r)!Abort)
  \/ UNCHANGED Lifecycle(r)!vars

\* The lobby keeps its side of RoomLifecycle with every room, and what it takes
\* the rooms to do is what RoomSystem shows a room to do: it sends clients only to
\* a room it lists as open, takes each signal for what the room meant, lists a
\* room as sealed only when it is, takes it off the list only when it is closed,
\* or told to abort.
ListingsKeepLifecycle ==
  /\ \A r \in RoomId : Lifecycle(r)!Init
  /\ [][\A r \in RoomId : KeepsLifecycle(r)]_lobbyAndAll
=============================================================================
