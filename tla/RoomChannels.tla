---------------------------- MODULE RoomChannels ----------------------------
(***************************************************************************)
(* The state shared by the room task (src/room.rs, module RoomTask) and    *)
(* the player tasks it spawns (src/player/in_room.rs, module               *)
(* PlayerInRoom): the channels between them, and the two program counters. *)
(*                                                                         *)
(* A player is named by its PlayerID.  Payloads, the three kinds of WebRTC *)
(* message and the WebSocket streams are abstracted: a stream is wherever  *)
(* its owner is (a queued client, a player task, a close request, a        *)
(* send_close task).                                                       *)
(***************************************************************************)
EXTENDS Naturals, Sequences, FiniteSets

CONSTANTS
  PlayerId,      \* the values random_player_id may draw, and HOST_ID
  HOST_ID,
  NoId,          \* "no player", never a PlayerID
  PLAYER_REQUEST_BUFFER_SIZE,
  ROOM_NOTIFICATION_CAPACITY,
  NEW_CLIENT_CHANNEL_BUFFER_SIZE,
  PlayerLimits,  \* the values max_players_per_room takes
  MessageLimits, \* the values max_message_count takes
  UniqueIds,     \* TRUE: random_player_id never draws an id twice
  MaxArrivals,   \* bound: clients the lobby sends to the room
  MaxRequests,   \* bound: requests made by all clients together
  MaxReconfigs,  \* bound: configuration changes
  MayShutdown,   \* may the main thread send the shutdown signal?
  MayAbort       \* may the lobby abort the room task (max_rooms lowered)?

ASSUME IdAssumption ==
  /\ HOST_ID \in PlayerId
  /\ NoId \notin PlayerId

ASSUME CapacityAssumption ==
  /\ PLAYER_REQUEST_BUFFER_SIZE \in Nat \ {0}
  /\ ROOM_NOTIFICATION_CAPACITY \in Nat \ {0}
  /\ NEW_CLIENT_CHANNEL_BUFFER_SIZE \in Nat \ {0}

\* VariableConfig::validate admits 1..=100 players and 5..=100 messages.
ASSUME LimitAssumption ==
  /\ PlayerLimits \subseteq Nat \ {0}
  /\ MessageLimits \subseteq Nat \ {0}

ASSUME BoundAssumption ==
  /\ MaxArrivals \in Nat /\ MaxRequests \in Nat /\ MaxReconfigs \in Nat
  /\ UniqueIds \in BOOLEAN /\ MayShutdown \in BOOLEAN /\ MayAbort \in BOOLEAN

VARIABLES
  \* the room task
  rpc,        \* where Room::task is
  players,    \* the keys of player_map
  msgSent,    \* msgSent[a][b]: a's PlayerTask.msg_sent entry for b (0: none)
  limits,     \* the room's copies of max_players_per_room, max_message_count, and
              \* (not in the code) what was counted when it took these
  closing,    \* the arguments and locals of on_close
  departing,  \* the arguments of on_disconnect
  handle,     \* the player whose JoinHandle the room is awaiting
  tracker,    \* number of send_close tasks running for the room
  \* the channels
  newClients, \* number of clients waiting in new_client_receiver
  requests,   \* player_request_receiver
  closes,     \* player_close_receiver, each entry carries a stream
  notes,      \* notes[i]: what i's room_notification_receiver will read
  control,    \* signals sent to the lobby and not yet read
  \* the player tasks
  ppc,        \* ppc[i]: where i's task is
  pend,       \* pend[i]: what i is blocked sending, the channel being full
  hears,      \* hears[i]: was i's receiver subscribed before the signal?
  view,       \* view[i]: the ids i's client has been told are in the room
  \* the environment
  lobbySees,  \* what the lobby's room_map says of this room
  shutdown,   \* has the main thread sent the shutdown signal?
  budget      \* arrivals, requests and reconfigurations so far

roomVars == <<rpc, players, msgSent, limits, closing, departing, handle,
              tracker>>
playerVars == <<ppc, pend, hears, view>>
channelVars == <<newClients, requests, closes, notes, control>>
envVars == <<lobbySees, shutdown, budget>>
vars == <<roomVars, playerVars, channelVars, envVars>>
-----------------------------------------------------------------------------
\* The close codes the room and the player tasks use.  ClientFault stands for
\* every code a player task chooses from what its client sent: Protocol, Size,
\* Invalid, Unsupported, AlreadyInRoom, InvalidFormat, InvalidCommand, ...
CloseCode == {"ClientFault", "HostDisconnected", "RoomSealed", "Policy",
              "InvalidDestination", "OnlyHostCanSeal", "TooManyPlayers",
              "Error"}
NoCode == "none"

\* RoomRequest: Offer, Answer and Candidate are all "send".
SealRoom(i) == [from |-> i, command |-> "seal", to |-> i]
SendTo(i, j) == [from |-> i, command |-> "send", to |-> j]
DropRequest(i) == [from |-> i, command |-> "drop", to |-> i]
RoomRequest == [from : PlayerId, command : {"seal", "send", "drop"},
                to : PlayerId]

\* (PlayerID, PlayerStream, CloseCode)
CloseRequest == [from : PlayerId, code : CloseCode]

\* RoomNotification: HostLeft, RoomSealed and Error(code) all make the player
\* task close its connection, with the code carried here.
PlayerJoined(i) == [kind |-> "joined", of |-> i]
PlayerLeft(i) == [kind |-> "left", of |-> i]
MessageReceived(i) == [kind |-> "message", of |-> i]
EndOfStay(code) == [kind |-> "end", of |-> code]
RoomNotification == [kind : {"joined", "left", "message"}, of : PlayerId]
                      \cup [kind : {"end"}, of : CloseCode]

\* A broadcast receiver that fell more than the capacity behind: its next
\* recv() returns RecvError::Lagged whatever else was sent.
Lagged == [kind |-> "lagged", of |-> "Error"]

\* Mutant: the channel holds one notification more than it was made for.
PushOneMore(queue, note) ==
  IF queue = <<Lagged>> \/ Len(queue) > ROOM_NOTIFICATION_CAPACITY
  THEN <<Lagged>>
  ELSE Append(queue, note)

\* broadcast::Sender::send to a receiver that is alive.
Push(queue, note) ==
  IF queue = <<Lagged>> \/ Len(queue) = ROOM_NOTIFICATION_CAPACITY
  THEN <<Lagged>>
  ELSE Append(queue, note)

\* The room's receivers are dropped with its task.
RoomGone == rpc \in {"done", "aborted"}

\* A task's receiver and senders live until its task has finished.
Alive(i) == ppc[i] # "done"
NoSenders == \A i \in PlayerId : ppc[i] \in {"absent", "done"}

\* What a client believes after one more notification.
Heard(known, note) ==
  CASE note.kind = "joined" -> known \cup {note.of}
    [] note.kind = "left" -> known \ {note.of}
    [] OTHER -> known
=============================================================================
