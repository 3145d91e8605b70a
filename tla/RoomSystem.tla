----------------------------- MODULE RoomSystem -----------------------------
(***************************************************************************)
(* One room with its players: the room task (RoomTask), the player tasks   *)
(* (PlayerInRoom), and what surrounds them - the lobby, which sends clients *)
(* in and reads the room's signals, and the main thread, which may send    *)
(* the shutdown signal.                                                    *)
(***************************************************************************)
EXTENDS RoomTask, PlayerInRoom

\* lobby.rs: a JoinRoom request for a room that is not sealed.  A client that
\* does not fit in the channel, or finds it closed, never reaches the room.
Arrive ==
  /\ lobbySees = "open"
  /\ ~RoomGone
  /\ budget.arrivals < MaxArrivals
  /\ newClients < NEW_CLIENT_CHANNEL_BUFFER_SIZE
  /\ newClients' = newClients + 1
  /\ budget' = [budget EXCEPT !.arrivals = @ + 1]
  /\ UNCHANGED <<roomVars, requests, closes, notes, control, playerVars,
                 lobbySees, shutdown>>

\* lobby.rs: SealRoom and CloseRoom, in the order the room sent them.
Listing(signal) ==
  IF lobbySees \in {"removed", "unread"} THEN lobbySees
  ELSE IF signal = "seal" THEN "sealed" ELSE "removed"

LobbyReads ==
  /\ control # <<>>
  /\ control' = Tail(control)
  /\ lobbySees' = Listing(Head(control))
  /\ UNCHANGED <<roomVars, newClients, requests, closes, notes, playerVars,
                 shutdown, budget>>

\* lobby.rs: the lobby hears the shutdown signal and leaves its loop; from then
\* on it only empties its channels.
LobbyHearsShutdown ==
  /\ shutdown
  /\ lobbySees \in {"open", "sealed"}
  /\ lobbySees' = "unread"
  /\ UNCHANGED <<roomVars, playerVars, channelVars, shutdown, budget>>

\* lobby.rs: max_rooms was lowered, the room is removed and its task aborted.
LobbyAborts ==
  /\ MayAbort
  /\ lobbySees \in {"open", "sealed"}
  /\ lobbySees' = "removed"
  /\ UNCHANGED <<roomVars, playerVars, channelVars, shutdown, budget>>

\* The runtime drops an aborted task, where it is at an await, and what it owns;
\* until then the task may go on (it may be running on another thread).
Aborted ==
  /\ MayAbort
  /\ lobbySees = "removed"
  /\ ~RoomGone
  /\ RoomGoto("aborted")
  /\ players' = {}
  /\ closing' = NotClosing
  /\ departing' = NotDeparting
  /\ handle' = NoId
  /\ newClients' = 0
  /\ requests' = <<>>
  /\ closes' = <<>>
  /\ UNCHANGED <<msgSent, limits, tracker, notes, control, playerVars, envVars>>

\* main.rs: the process was told to terminate.
Shutdown ==
  /\ MayShutdown
  /\ ~shutdown
  /\ shutdown' = TRUE
  /\ UNCHANGED <<roomVars, channelVars, playerVars, lobbySees, budget>>

\* Nothing is left to run.
Finished ==
  /\ RoomGone
  /\ NoSenders
  /\ tracker = 0
  /\ control = <<>>
  /\ UNCHANGED vars
-----------------------------------------------------------------------------
Init ==
  /\ rpc = "start"
  /\ players = {}
  /\ msgSent = NoCounts
  /\ limits \in [players : PlayerLimits, messages : MessageLimits,
                counted : {NoCounts}]
  /\ closing = NotClosing
  /\ departing = NotDeparting
  /\ handle = NoId
  /\ tracker = 0
  /\ newClients = 0
  /\ requests = <<>>
  /\ closes = <<>>
  /\ notes = [p \in PlayerId |-> <<>>]
  /\ control = <<>>
  /\ ppc = [p \in PlayerId |-> "absent"]
  /\ pend = [p \in PlayerId |-> <<>>]
  /\ hears = [p \in PlayerId |-> FALSE]
  /\ view = [p \in PlayerId |-> {}]
  /\ lobbySees = "open"
  /\ shutdown = FALSE
  /\ budget = [arrivals |-> 0, requests |-> 0, reconfigs |-> 0]

Environment ==
  \/ Arrive \/ LobbyReads \/ LobbyHearsShutdown \/ LobbyAborts
  \/ Aborted \/ Shutdown \/ Finished

Next ==
  \/ RoomStep
  \/ \E i \in PlayerId : PlayerStep(i)
  \/ Environment

Spec == Init /\ [][Next]_vars

\* select! polls its branches in random order, so a branch that is ready again
\* and again is taken at last: strong fairness for each of the receivers.  A
\* task that is not at select! has one thing to do and the runtime lets it: weak
\* fairness.  The tokio channels serve blocked senders in turn: strong fairness.
\* A send_close task ends by itself: it waits a limited time for the client to echo
\* the close frame; that the frame itself can be written is assumed, as it is for
\* the messages of the player tasks.  Nothing obliges a client, a timer, the lobby
\* or the main thread to act, and the progress properties are claimed for rooms
\* that end without the shutdown signal and are not aborted.
RoomFairness ==
  /\ WF_vars(Start)
  /\ SF_vars(NewClient \/ TurnClientAway)
  /\ SF_vars(RecvSeal \/ RecvSend \/ RecvDrop \/ CollectRequest)
  /\ SF_vars(RecvClose \/ CollectClose)
  /\ WF_vars(RoomWindsDown)
  /\ WF_vars(SendCloseDone)

PlayerFairness ==
  \A i \in PlayerId :
    /\ SF_vars(ReadNews(i) \/ ReadEnd(i) \/ ReadClosed(i))
    /\ SF_vars(ResumeAsking(i) \/ ResumeLeaving(i))
    /\ WF_vars(Return(i))

FairSpec == Spec /\ RoomFairness /\ PlayerFairness
-----------------------------------------------------------------------------
RoomPlace == {"start", "select", "leave", "notify", "collect", "seal",
              "drainCloses", "drainRequests", "joinPlayers", "drainClients",
              "awaitCloses", "signal", "done", "aborted"}

PlayerPlace == {"absent", "run", "asking", "leaving", "ending", "done"}

RoomTypeOK ==
  /\ rpc \in RoomPlace
  /\ players \in SUBSET PlayerId
  /\ msgSent \in [PlayerId -> [PlayerId -> Nat]]
  /\ limits \in [players : PlayerLimits, messages : MessageLimits,
                counted : [PlayerId -> [PlayerId -> Nat]]]
  /\ closing \in [code : CloseCode \cup {NoCode}, toHost : BOOLEAN,
                  awaiting : SUBSET PlayerId, streams : Nat]
  /\ departing \in [id : PlayerId \cup {NoId}, code : CloseCode \cup {NoCode}]
  /\ rpc = "notify" => closing.code \in CloseCode
  /\ rpc = "leave" => departing.id \in PlayerId
  /\ handle \in PlayerId \cup {NoId}
  /\ tracker \in Nat

ChannelTypeOK ==
  /\ newClients \in Nat
  /\ requests \in Seq(RoomRequest)
  /\ Len(requests) <= PLAYER_REQUEST_BUFFER_SIZE
  /\ closes \in Seq(CloseRequest)
  /\ Len(closes) <= PLAYER_REQUEST_BUFFER_SIZE
  /\ notes \in [PlayerId -> Seq(RoomNotification \cup {Lagged})]
  /\ \A p \in PlayerId : Len(notes[p]) <= ROOM_NOTIFICATION_CAPACITY
  /\ control \in Seq({"seal", "close"})

PlayerTypeOK ==
  /\ ppc \in [PlayerId -> PlayerPlace]
  /\ pend \in [PlayerId -> Seq(RoomRequest \cup CloseRequest)]
  /\ hears \in [PlayerId -> BOOLEAN]
  /\ view \in [PlayerId -> SUBSET PlayerId]

EnvTypeOK ==
  /\ lobbySees \in {"open", "sealed", "removed", "unread"}
  /\ shutdown \in BOOLEAN
  /\ budget \in [arrivals : Nat, requests : Nat, reconfigs : Nat]

\* Type invariant: every variable of the room, its channels and its players
\* (struct fields and locals of src/room.rs and src/player/in_room.rs) has its
\* type, and the channels hold no more than their capacity.
TypeOK == RoomTypeOK /\ ChannelTypeOK /\ PlayerTypeOK /\ EnvTypeOK
-----------------------------------------------------------------------------
\* The players whose last request the room has still to receive.
LastRequestsIn(rs, cs) ==
  {i \in PlayerId :
     \/ \E k \in DOMAIN rs : rs[k].from = i /\ rs[k].command = "drop"
     \/ \E k \in DOMAIN cs : cs[k].from = i}
Posted == LastRequestsIn(requests, closes)

\* i is going to leave its loop, or has left it.
ToldToEnd(i) ==
  \E k \in DOMAIN notes[i] : notes[i][k].kind \in {"end", "lagged"}
OnTheWayOut(i) == ppc[i] \notin {"run", "asking"} \/ ToldToEnd(i)

\* Nobody waits for a task that is still talking to its client: whenever the
\* room awaits a player's handle (on_disconnect, on_close, the end of the
\* task), that player's task is out of its loop.  Otherwise the room, and with
\* it everybody inside, hangs until one client chooses to leave.
AwaitedTaskIsOver == handle # NoId => ppc[handle] \in {"ending", "done"}

\* on_close can count on every player it waits for: each has posted its last
\* request, is blocked posting it, or has the notification that makes it do so
\* in its channel (the NOTE on on_close, src/room.rs).
CloseRequestsComing ==
  \A i \in closing.awaiting :
    \/ i \in Posted
    \/ ppc[i] = "leaving"
    \/ ppc[i] \in {"run", "asking"} /\ ToldToEnd(i)

\* When the task returns, nothing of the room is left: no player task, no
\* send_close task, no request or stream in its channels.
ClosedMeansQuiet ==
  rpc = "done" =>
    /\ NoSenders
    /\ players = {} /\ closing.awaiting = {}
    /\ tracker = 0 /\ requests = <<>> /\ closes = <<>>

\* No player task escapes the room: while the room is in its main loop (or in
\* on_disconnect), each task that runs is in player_map, or is the one whose
\* last request is being handled or is still in the channels.
NoStrayTask ==
  rpc \in {"select", "leave"} =>
    \A i \in PlayerId :
      ppc[i] \in {"run", "asking", "leaving"} => i \in players

\* The drains of Room::task, one channel after the other and each until its last
\* sender is gone, meet no player task that might still be blocked on the other
\* channel: on_close has seen the last of every one of them.  Only after the
\* shutdown signal there may be some, and those are in player_map, to be awaited.
DrainsMeetNobody ==
  rpc \in {"seal", "drainCloses"} =>
    \A i \in PlayerId :
      ppc[i] \in {"run", "asking", "leaving"} => shutdown /\ i \in players

\* A client whose list is `known` has j in it once it has been sent the whole
\* queue: the last word on j is that it has joined.
Knows(known, j, queue) ==
  \/ /\ j \in known
     /\ \A k \in DOMAIN queue : queue[k] # PlayerLeft(j)
  \/ \E k \in DOMAIN queue :
       /\ queue[k] = PlayerJoined(j)
       /\ \A l \in DOMAIN queue : l > k => queue[l] # PlayerLeft(j)

\* What i's client will believe when i's task has passed on every notification.
ToldBy(i, queue) == {j \in PlayerId : Knows(view[i], j, queue)}

\* The clients' lists of who is in the room, made of the N: and D: lines they
\* are sent, follow player_map: once the notifications on their way are read, a
\* client that stays knows every other player, and beyond these only players
\* that have left but whose last request is still to be handled.
ViewFollowsMembership ==
  rpc \in {"select", "leave"} /\ ~shutdown =>
    \A i \in players :
      OnTheWayOut(i) \/
        /\ players \ {i} \subseteq ToldBy(i, notes[i])
        /\ ToldBy(i, notes[i]) \subseteq
             (players \cup Posted \cup {departing.id}) \ {i}

\* A client is never handed an offer, answer or candidate of a peer it has not
\* been told of, or has been told has left.
MessagesFromKnown ==
  \A i \in PlayerId :
    ppc[i] \in {"run", "asking"} =>
      \A k \in DOMAIN notes[i] :
        notes[i][k].kind = "message" =>
          notes[i][k].of \in ToldBy(i, SubSeq(notes[i], 1, k - 1))

\* A room over its limit is on its way back: at least as many players as there
\* are in excess of max_players_per_room are leaving, or told to leave.
ExcessIsLeaving ==
  rpc \in {"select", "leave"} =>
    Cardinality({p \in players : OnTheWayOut(p)}) >= Excess(limits.players)

\* No player can flood another: what q has queued for p never exceeds the count
\* the room keeps of it, and a count that is over max_message_count, because the
\* limit was lowered below it, has not grown since the room took that limit.
QueuedFrom(q, p) ==
  Cardinality({k \in DOMAIN notes[p] : notes[p][k] = MessageReceived(q)})

FloodsAreCounted ==
  rpc \in {"select", "leave"} =>
    \A q, p \in players :
      /\ QueuedFrom(q, p) <= msgSent[q][p]
      /\ msgSent[q][p] > limits.messages => msgSent[q][p] = limits.counted[q][p]

\* The counts of messages to a player go with it: once the last request of a
\* player that left is handled, also of one that notify_all had found gone
\* before, nobody's count of messages to its id is left, and whoever draws that
\* id next can be sent as many as anybody.
LeaversAreForgotten ==
  rpc \in {"select", "leave"} /\ ~shutdown =>
    \A q \in players, p \in PlayerId :
      msgSent[q][p] > 0 => p \in players \cup Posted \cup {departing.id}
-----------------------------------------------------------------------------
\* What makes the properties above inductive.

\* A task holds a request back only while it is blocked sending it.
PendOK ==
  \A i \in PlayerId :
    /\ ppc[i] = "asking" => \E r \in RoomRequest : pend[i] = <<r>>
    /\ ppc[i] = "leaving" => \E r \in RoomRequest \cup CloseRequest : pend[i] = <<r>>

\* What the room has done by the time it is at each place of its last part.
AfterDrain == {"drainRequests", "joinPlayers", "drainClients", "awaitCloses",
               "signal", "done"}
DrainOK ==
  /\ rpc \in AfterDrain => NoSenders /\ closes = <<>>
  /\ rpc \in AfterDrain \ {"drainRequests"} => requests = <<>>
  /\ rpc \in AfterDrain \ {"drainRequests", "joinPlayers"} => players = {}
  /\ rpc \in {"signal", "done"} => tracker = 0
  /\ closing.awaiting # {} => rpc \in {"notify", "collect"}

\* Once its last request is in a channel, a task has nothing left to do; the
\* host's is such a task when on_close does not send to it.
Over(i) == ppc[i] \in {"ending", "done"}
LastRequestOK ==
  /\ \A i \in Posted : Over(i)
  /\ \A i \in PlayerId :
       /\ ppc[i] = "asking" => pend[i][1].command # "drop"
       /\ ppc[i] = "leaving" => pend[i][1].from = i
  /\ rpc = "notify" /\ ~closing.toHost => Over(HOST_ID)
  /\ rpc = "start" => ppc[HOST_ID] = "absent"
  /\ \A i \in players : ppc[i] # "absent"

\* What the room has sent to the lobby when it is at each place, and what may be
\* on its way of that: all of it, or what is left when the lobby has read some.
Sent(place) ==
  IF place \in AfterDrain \cup {"drainCloses"}
  THEN IF place = "done" THEN <<"seal", "close">> ELSE <<"seal">>
  ELSE <<>>
Unheard(place) ==
  IF place = "done" THEN {<<>>, <<"close">>, <<"seal", "close">>}
  ELSE IF place \in AfterDrain \cup {"drainCloses", "aborted"} THEN {<<>>, <<"seal">>}
  ELSE {<<>>}

\* The signals on their way to the lobby are those it has not seen of what the
\* room has sent.
SignalsOK ==
  \/ /\ lobbySees = "removed" /\ (MayAbort \/ rpc = "done")
     /\ control \in Unheard(rpc)
  \/ lobbySees = "unread" /\ rpc # "aborted" /\ control \in Unheard(rpc)
  \/ lobbySees = "open" /\ rpc # "aborted" /\ control = Sent(rpc)
  \/ /\ lobbySees = "sealed" /\ rpc # "aborted"
     /\ Sent(rpc) # <<>> /\ control = Tail(Sent(rpc))

\* The inductive invariant: what on_disconnect and on_close wait for, what the
\* drains at the end of Room::task establish one after the other, and what the
\* lobby has been told, for every number of players and every channel size.
RoomInv ==
  /\ TypeOK /\ PendOK /\ DrainOK
  /\ UniqueIds => LastRequestOK /\ AwaitedTaskIsOver
  /\ SignalsOK
-----------------------------------------------------------------------------
\* Three expectations of the source that the code does not meet.

\* The doc of on_close: "Each client stream is then gracefully closed with the
\* corresponding CloseCode", so when the room starts to drain its channels no
\* stream is left in them (there its client gets no close frame at all).
NoStreamIsDrained ==
  rpc = "drainCloses" /\ ~shutdown => closes = <<>>

\* Room::task: the channels are emptied "to ensure that the tasks are not stuck
\* waiting to send requests", so no task is stuck on a channel that the room
\* will not read before that task has ended.
DrainFreesSenders ==
  rpc = "drainCloses" /\ Len(requests) = PLAYER_REQUEST_BUFFER_SIZE =>
    \A i \in PlayerId : pend[i] # <<>> => pend[i][1] \in CloseRequest

\* main.rs: "let all of the spawned tasks know": the signal reaches every player
\* task there is.
EveryTaskHearsShutdown ==
  shutdown => \A i \in PlayerId : ppc[i] \in {"run", "asking"} => hears[i]
-----------------------------------------------------------------------------
\* A room that has begun to close does close.
ClosingPlace == RoomPlace \ {"start", "select", "leave", "done", "aborted"}
ClosingEnds == rpc \in ClosingPlace ~> rpc = "done"

\* When the host has left, and said so, the room closes.
HostLeavingEndsRoom == HOST_ID \in Posted ~> rpc = "done"

\* A player whose task has ended leaves the room, and so do its streams: the
\* others are told, the slot is free again.
LeaverIsRemoved ==
  \A i \in PlayerId : (i \in players /\ ppc[i] = "done") ~> i \notin players

\* A player told to leave (kicked, refused, lagging, at a closing) does.
ToldToEndEnds ==
  \A i \in PlayerId : ToldToEnd(i) ~> ppc[i] = "done"
-----------------------------------------------------------------------------
\* The room keeps the promises of RoomLifecycle.
Phase == CASE rpc \in {"start", "select", "leave"} -> "open"
           [] rpc \in {"notify", "collect", "seal"} -> "closing"
           [] rpc \in {"drainCloses", "drainRequests", "joinPlayers",
                       "drainClients"} -> "sealed"
           [] rpc \in {"awaitCloses", "signal"} -> "swept"
           [] rpc = "done" -> "closed"
           [] OTHER -> "aborted"

Lifecycle ==
  INSTANCE RoomLifecycle
    WITH Member <- PlayerId, Host <- HOST_ID, MayEvict <- MayAbort,
         Capacity <- NEW_CLIENT_CHANNEL_BUFFER_SIZE,
         phase <- Phase, listing <- lobbySees, queued <- newClients,
         inside <- {i \in PlayerId : ppc[i] \notin {"absent", "done"}},
         signals <- {control[k] : k \in DOMAIN control}

KeepsLifecycle == Lifecycle!Spec
=============================================================================
