------------------------------ MODULE LobbyTask ------------------------------
(***************************************************************************)
(* lobby_task (src/lobby.rs): the clients that wait to create or join a    *)
(* room, and the rooms there are.                                          *)
(*                                                                         *)
(*   "start"          not spawned yet                                      *)
(*   "select"         at the select! of the main loop                      *)
(*   "awaitRoom"      CloseRoom was read: awaiting the room's handle       *)
(*   "drainRequests"  after the shutdown signal, until the last sender of  *)
(*                    a request is gone                                    *)
(*   "drainControls"  the same for the rooms' control signals              *)
(*   "joinTasks"      awaiting the join tasks, rooms and close tasks left  *)
(*   "done"           the task has returned                                *)
(*                                                                         *)
(* A client stands for its stream and for the task that has the stream; at *)
(* says which one it is.  A room is the task that RoomSystem models, seen  *)
(* from outside: phase says how far it is.                                 *)
(***************************************************************************)
EXTENDS Naturals, Sequences, FiniteSets

CONSTANTS
  Client, NoClient,
  HandleId,       \* the values of a random HandleID
  NoHandle,
  RoomCode,       \* the codes that RoomCode::random may draw, no profanity
  NoCode,
  RoomId, NoRoom, \* room tasks, each created once
  LOBBY_CONNECTION_CHANNEL_BUFFER_SIZE,
  LOBBY_REQUEST_CHANNEL_BUFFER_SIZE,
  LOBBY_CONTROL_CHANNEL_BUFFER_SIZE,
  NEW_CLIENT_CHANNEL_BUFFER_SIZE,
  RoomLimits,     \* the values max_rooms takes
  QueueLimits,    \* the values player_queue_capacity takes
  UniqueCodes,    \* TRUE: RoomCode::random never draws a code twice
  MaxReconfigs,   \* bound: configuration changes
  MayShutdown     \* may the main thread send the shutdown signal?

ASSUME NameAssumption ==
  /\ NoClient \notin Client /\ NoRoom \notin RoomId
  /\ NoHandle \notin HandleId /\ NoCode \notin RoomCode

\* There is a handle id or a room code to draw while there is space: a HandleID
\* is any u32, and VariableConfig::validate keeps player_queue_capacity and
\* max_rooms below 10 000 and 400 000 (of 26^4 codes).
ASSUME LobbyLimitAssumption ==
  /\ QueueLimits \subseteq Nat \ {0} /\ RoomLimits \subseteq Nat \ {0}
  /\ IsFiniteSet(HandleId) /\ IsFiniteSet(RoomCode) /\ IsFiniteSet(RoomId)
  /\ \A n \in QueueLimits : n <= Cardinality(HandleId)
  /\ \A n \in RoomLimits : n <= Cardinality(RoomCode)
  /\ UniqueCodes => Cardinality(RoomId) <= Cardinality(RoomCode)

ASSUME ChannelAssumption ==
  /\ LOBBY_CONNECTION_CHANNEL_BUFFER_SIZE \in Nat \ {0}
  /\ LOBBY_REQUEST_CHANNEL_BUFFER_SIZE \in Nat \ {0}
  /\ LOBBY_CONTROL_CHANNEL_BUFFER_SIZE \in Nat \ {0}
  /\ NEW_CLIENT_CHANNEL_BUFFER_SIZE \in Nat \ {0}

ASSUME LobbyBoundAssumption ==
  MaxReconfigs \in Nat /\ UniqueCodes \in BOOLEAN /\ MayShutdown \in BOOLEAN

VARIABLES
  \* the lobby task
  lpc,
  joinQueue,   \* joinQueue[h]: the client whose join task has handle h
  roomMap,     \* roomMap[k]: the room listed under code k
  isSealed,    \* the rooms listed as sealed
  config,      \* max_rooms and player_queue_capacity
  awaited,     \* the room whose handle is awaited
  \* its channels
  connections, \* connection_receiver
  requests,    \* req_receiver: clients, each with its command in ask
  controls,    \* control_receiver
  \* the clients
  at,          \* at[c]: where c and its stream are
  handleOf,    \* handleOf[c]: the handle_id of c's join task
  ask,         \* ask[c]: the command of c's request
  roomOf,      \* roomOf[c]: the room whose business c is
  \* the rooms
  phase,       \* phase[r]: how far the room task is
  codeOf,      \* codeOf[r]: its room code
  doomed,      \* the rooms that were told to abort
  newClients,  \* newClients[r]: its new_client_receiver
  \* server_task and main
  spc,         \* where server_task is
  acceptHears, \* is c in a handshake that was subscribed before the signal?
  lobbyHears,  \* was the lobby subscribed before the signal?
  shutdown,
  reconfigs

lobbyVars == <<lpc, joinQueue, roomMap, isSealed, config, awaited>>
queueVars == <<connections, requests, controls>>
clientVars == <<at, handleOf, ask, roomOf>>
roomVars == <<phase, codeOf, doomed, newClients>>
serverVars == <<spc, acceptHears, lobbyHears, shutdown, reconfigs>>
lobbyAndAll == <<lobbyVars, queueVars, clientVars, roomVars, serverVars>>
-----------------------------------------------------------------------------
\* LobbyCommand
NoCommand == [kind |-> "none"]
CreateRoom == [kind |-> "create"]
JoinRoom(k) == [kind |-> "join", code |-> k]
CloseConnection == [kind |-> "close"]
DropConnection == [kind |-> "drop"]
LobbyCommand == [kind : {"create", "close", "drop"}]
                  \cup [kind : {"join"}, code : RoomCode]

\* LobbyControl
LobbyControl == [kind : {"seal", "close"}, code : RoomCode]

Waiting == {h \in HandleId : joinQueue[h] # NoClient}
Listed == {k \in RoomCode : roomMap[k] # NoRoom}

\* A room task that has not come to its end, and holds its channels.
Running(r) == phase[r] \in {"open", "closing", "sealed", "swept"}

\* join_queue.remove(&request.handle_id)
Dequeued(c) == [joinQueue EXCEPT ![handleOf[c]] = NoClient]

\* The request goes with its handling, and what was in it.
RequestDone(c) ==
  /\ requests' = Tail(requests)
  /\ handleOf' = [handleOf EXCEPT ![c] = NoHandle]
  /\ ask' = [ask EXCEPT ![c] = NoCommand]
-----------------------------------------------------------------------------
\* A random HandleID, drawn again while it is in join_queue.
FreshHandle(h) == h \notin Waiting

\* connection_receiver: the client gets a join task ...
NewConnection ==
  /\ lpc = "select"
  /\ connections # <<>>
  /\ Cardinality(Waiting) < config.queue
  /\ LET c == Head(connections)
     IN  \E h \in HandleId :
           /\ FreshHandle(h)
           /\ joinQueue' = [joinQueue EXCEPT ![h] = c]
           /\ handleOf' = [handleOf EXCEPT ![c] = h]
           /\ at' = [at EXCEPT ![c] = "joining"]
  /\ connections' = Tail(connections)
  /\ UNCHANGED <<lpc, roomMap, isSealed, config, awaited, requests, controls, ask,
                 roomOf, roomVars, serverVars>>

\* ... or, the queue being full, a close task that says JoinQueueFull.
RefuseConnection ==
  /\ lpc = "select"
  /\ connections # <<>>
  /\ Cardinality(Waiting) >= config.queue
  /\ at' = [at EXCEPT ![Head(connections)] = "closing"]
  /\ connections' = Tail(connections)
  /\ UNCHANGED <<lobbyVars, requests, controls, handleOf, ask, roomOf, roomVars,
                 serverVars>>
-----------------------------------------------------------------------------
\* Mutant: the player stays in the queue.
TakeRequestOnly(kind) ==
  /\ lpc = "select"
  /\ requests # <<>>
  /\ ask[Head(requests)].kind = kind
  /\ RequestDone(Head(requests))
  /\ UNCHANGED joinQueue

\* req_receiver: whatever the client asked for, it is not queueing any more.
TakeRequest(kind) ==
  /\ lpc = "select"
  /\ requests # <<>>
  /\ ask[Head(requests)].kind = kind
  /\ RequestDone(Head(requests))
  /\ joinQueue' = Dequeued(Head(requests))

\* Mutant: off by one.
OneMoreRoom == Cardinality(Listed) <= config.rooms

RoomsLeft == Cardinality(Listed) < config.rooms

\* Mutant: the code is not looked for in room_map.
AnyCode(k) == TRUE

\* RoomCode::random, drawn again while the code is in room_map.
FreshCode(k) ==
  /\ k \notin Listed
  /\ UniqueCodes => \A r \in RoomId : phase[r] # "none" => codeOf[r] # k

\* CreateRoom: the client is the host of a new room.
HostRoom ==
  /\ TakeRequest("create")
  /\ RoomsLeft
  /\ \E r \in RoomId, k \in RoomCode :
       /\ phase[r] = "none"
       /\ FreshCode(k)
       /\ phase' = [phase EXCEPT ![r] = "open"]
       /\ codeOf' = [codeOf EXCEPT ![r] = k]
       /\ roomMap' = [roomMap EXCEPT ![k] = r]
       /\ roomOf' = [roomOf EXCEPT ![Head(requests)] = r]
  /\ at' = [at EXCEPT ![Head(requests)] = "inRoom"]
  /\ UNCHANGED <<lpc, isSealed, config, awaited, connections, controls, doomed,
                 newClients, serverVars>>

\* A client may be sent to the room: it is listed, it is not sealed, its task
\* still has its receiver and there is space in the channel.
TakesClients(r) ==
  r \notin isSealed /\ Running(r)
    /\ Len(newClients[r]) < NEW_CLIENT_CHANNEL_BUFFER_SIZE

\* JoinRoom
SendToRoom ==
  /\ TakeRequest("join")
  /\ LET c == Head(requests)
         r == roomMap[ask[c].code]
     IN  /\ r # NoRoom
         /\ TakesClients(r)
         /\ newClients' = [newClients EXCEPT ![r] = Append(@, c)]
         /\ at' = [at EXCEPT ![c] = "sentToRoom"]
  /\ UNCHANGED <<lpc, roomMap, isSealed, config, awaited, connections, controls,
                 roomOf, phase, codeOf, doomed, serverVars>>

\* The requests that end in a close task: TooManyRooms, RoomDoesNotExist,
\* RoomSealed (also when the receiver is gone), Again (the channel is full), and
\* the code the join task has chosen.
RefuseRequest ==
  /\ \/ TakeRequest("create") /\ ~RoomsLeft
     \/ /\ TakeRequest("join")
        /\ LET r == roomMap[ask[Head(requests)].code]
           IN  r # NoRoom => ~TakesClients(r)
     \/ TakeRequest("close")
  /\ at' = [at EXCEPT ![Head(requests)] = "closing"]
  /\ UNCHANGED <<lpc, roomMap, isSealed, config, awaited, connections, controls,
                 roomOf, roomVars, serverVars>>

\* DropConnection: the stream goes out of scope.
DropClient ==
  /\ TakeRequest("drop")
  /\ at' = [at EXCEPT ![Head(requests)] = "gone"]
  /\ UNCHANGED <<lpc, roomMap, isSealed, config, awaited, connections, controls,
                 roomOf, roomVars, serverVars>>
-----------------------------------------------------------------------------
TakeControl(kind) ==
  /\ lpc = "select"
  /\ controls # <<>>
  /\ Head(controls).kind = kind
  /\ controls' = Tail(controls)
  /\ UNCHANGED <<joinQueue, config, connections, requests, clientVars, roomVars,
                 serverVars>>

\* control_receiver: SealRoom, which may find no room under the code.
RecvSeal ==
  /\ TakeControl("seal")
  /\ isSealed' = isSealed \cup ({roomMap[Head(controls).code]} \ {NoRoom})
  /\ UNCHANGED <<lpc, roomMap, awaited>>

\* CloseRoom: the room is taken off the list, its task awaited.
RecvClose ==
  /\ TakeControl("close")
  /\ LET r == roomMap[Head(controls).code]
     IN  \/ /\ r # NoRoom
            /\ roomMap' = [roomMap EXCEPT ![Head(controls).code] = NoRoom]
            /\ awaited' = r
            /\ lpc' = "awaitRoom"
         \/ /\ r = NoRoom
            /\ UNCHANGED <<roomMap, awaited, lpc>>
  /\ UNCHANGED isSealed

RoomAwaited ==
  /\ lpc = "awaitRoom"
  /\ ~Running(awaited)
  /\ lpc' = "select"
  /\ awaited' = NoRoom
  /\ UNCHANGED <<joinQueue, roomMap, isSealed, config, queueVars, clientVars,
                 roomVars, serverVars>>
-----------------------------------------------------------------------------
ExcessRooms(limit) ==
  IF Cardinality(Listed) > limit THEN Cardinality(Listed) - limit ELSE 0

\* config_receiver.changed(): rooms in excess are removed and aborted, in the
\* order of the map.
Reconfigure ==
  /\ lpc = "select"
  /\ reconfigs < MaxReconfigs
  /\ reconfigs' = reconfigs + 1
  /\ \E new \in [rooms : RoomLimits, queue : QueueLimits], ks \in SUBSET Listed :
       /\ Cardinality(ks) = ExcessRooms(new.rooms)
       /\ config' = new
       /\ roomMap' = [k \in RoomCode |-> IF k \in ks THEN NoRoom ELSE roomMap[k]]
       /\ doomed' = doomed \cup {roomMap[k] : k \in ks}
  /\ UNCHANGED <<lpc, joinQueue, isSealed, awaited, queueVars, clientVars, phase,
                 codeOf, newClients, spc, acceptHears, lobbyHears, shutdown>>

\* shutdown_signal.recv(): server_task subscribed the receiver just before it
\* spawned the lobby, too late for a signal that was sent by then.
LobbyHearsShutdown ==
  /\ lpc = "select"
  /\ shutdown /\ lobbyHears
  /\ lpc' = "drainRequests"
  /\ UNCHANGED <<joinQueue, roomMap, isSealed, config, awaited, queueVars,
                 clientVars, roomVars, serverVars>>
-----------------------------------------------------------------------------
\* The senders of requests, apart from the lobby's own: the join tasks.
JoinTasks == {c \in Client : at[c] \in {"joining", "asking"}}

\* Mutant: the channel is emptied, but nobody waits for the senders.
NothingBuffered(queue, senders) == queue = <<>>

\* recv() returns None.
Drained(queue, senders) == queue = <<>> /\ senders = {}

\* What is received is dropped, the stream with it.
DrainRequests ==
  /\ lpc = "drainRequests"
  /\ \/ /\ requests # <<>>
        /\ RequestDone(Head(requests))
        /\ at' = [at EXCEPT ![Head(requests)] = "gone"]
        /\ UNCHANGED <<lpc, roomOf>>
     \/ /\ Drained(requests, JoinTasks)
        /\ lpc' = "drainControls"
        /\ UNCHANGED <<requests, clientVars>>
  /\ UNCHANGED <<joinQueue, roomMap, isSealed, config, awaited, connections,
                 controls, roomVars, serverVars>>

DrainControls ==
  /\ lpc = "drainControls"
  /\ \/ /\ controls # <<>>
        /\ controls' = Tail(controls)
        /\ UNCHANGED lpc
     \/ /\ Drained(controls, {r \in RoomId : Running(r)})
        /\ lpc' = "joinTasks"
        /\ UNCHANGED controls
  /\ UNCHANGED <<joinQueue, roomMap, isSealed, config, awaited, connections,
                 requests, clientVars, roomVars, serverVars>>

\* The join tasks, the rooms and the close tasks are awaited in turn: none of
\* them, once ended, comes back.  The lobby's receivers are dropped with it.
LobbyStops ==
  /\ lpc = "joinTasks"
  /\ \A h \in Waiting : joinQueue[h] \notin JoinTasks
  /\ \A k \in Listed : ~Running(roomMap[k])
  /\ \A c \in Client : at[c] # "closing"
  /\ lpc' = "done"
  /\ connections' = <<>>
  /\ at' = [c \in Client |-> IF at[c] = "queued" THEN "gone" ELSE at[c]]
  /\ UNCHANGED <<joinQueue, roomMap, isSealed, config, awaited, requests, controls,
                 handleOf, ask, roomOf, roomVars, serverVars>>

LobbyServes ==
  \/ NewConnection \/ RefuseConnection \/ HostRoom \/ SendToRoom \/ RefuseRequest
  \/ DropClient \/ RecvSeal \/ RecvClose \/ Reconfigure

LobbyWindsDown == DrainRequests \/ DrainControls \/ LobbyStops

LobbyStep == LobbyServes \/ RoomAwaited \/ LobbyHearsShutdown \/ LobbyWindsDown
=============================================================================
