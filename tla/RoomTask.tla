------------------------------ MODULE RoomTask ------------------------------
(***************************************************************************)
(* Room::task (src/room.rs): the task that owns a room.                    *)
(*                                                                         *)
(*   "start"         before the host is added                              *)
(*   "select"        at the select! of the main loop                       *)
(*   "leave"         in on_disconnect, awaiting the player's task          *)
(*   "notify"        in on_close, going through the players                *)
(*   "collect"       in on_close, waiting for their close requests         *)
(*   "seal"          out of the loop, the lobby is still to be told        *)
(*   "drainCloses", "drainRequests", "joinPlayers", "drainClients",        *)
(*   "awaitCloses", "signal"   the rest of the task, in that order         *)
(*   "done"          the task has returned                                 *)
(*   "aborted"       the lobby aborted the task                            *)
(*                                                                         *)
(* While handle is a player the room is blocked in player_task.handle()    *)
(* .await, wherever it is.                                                 *)
(***************************************************************************)
EXTENDS RoomChannels

At(place) == rpc = place /\ handle = NoId

RoomGoto(place) == rpc' = place

\* Nobody has sent anything to anybody.
NoMessages == [q \in PlayerId |-> 0]
NoCounts == [p \in PlayerId |-> NoMessages]

\* The locals of on_close and on_disconnect, outside of them.
NotClosing == [code |-> NoCode, toHost |-> FALSE, awaiting |-> {},
               streams |-> 0]
NotDeparting == [id |-> NoId, code |-> NoCode]

\* player_task.send_notification for one player; a dead receiver gets nothing.
Notify(i, note) ==
  notes' = [notes EXCEPT ![i] = IF Alive(i) THEN Push(@, note) ELSE @]

\* Mutant: a player that lags behind is thrown out as if its task had ended.
SurvivorsNotLagging(map) == {p \in map : Alive(p) /\ notes[p] # <<Lagged>>}

\* notify_all: the players whose receiver is gone leave player_map.
Survivors(map) == {p \in map : Alive(p)}

\* Mutant: the host is not told.
NotifyGuests(map, note) ==
  [p \in PlayerId |-> IF p \in Survivors(map) /\ p # HOST_ID
                      THEN Push(notes[p], note) ELSE notes[p]]

NotifyAll(map, note) ==
  [p \in PlayerId |-> IF p \in Survivors(map) THEN Push(notes[p], note)
                                              ELSE notes[p]]
-----------------------------------------------------------------------------
\* on_connect: the others are told, then the task of the new player starts with
\* an empty notification channel and a shutdown receiver that only hears a
\* signal sent from now on (resubscribe).
OnConnect(i) ==
  /\ notes' = [NotifyAll(players, PlayerJoined(i)) EXCEPT ![i] = <<>>]
  /\ players' = Survivors(players) \cup {i}
  /\ msgSent' = [msgSent EXCEPT ![i] = NoMessages]
  /\ ppc' = [ppc EXCEPT ![i] = "run"]
  /\ hears' = [hears EXCEPT ![i] = ~shutdown]
  /\ view' = [view EXCEPT ![i] = Survivors(players)]
  /\ UNCHANGED <<limits, closing, departing, handle, requests, closes,
                 control, pend>>

\* The start of the task: the host is the first player of the room.
Start ==
  /\ At("start")
  /\ OnConnect(HOST_ID)
  /\ RoomGoto("select")
  /\ UNCHANGED <<tracker, newClients, envVars>>

\* random_player_id, drawn again while the room has a player with that id.
FreshId(i) ==
  /\ i \in PlayerId \ ({HOST_ID} \cup players)
  /\ UniqueIds => ppc[i] = "absent"

\* Mutant: off by one.
HasSpaceForOneMore == Cardinality(players) <= limits.players

HasSpace == Cardinality(players) < limits.players

\* new_client_receiver: there is room for the client ...
NewClient ==
  /\ At("select")
  /\ newClients > 0
  /\ HasSpace
  /\ newClients' = newClients - 1
  /\ \E i \in PlayerId : FreshId(i) /\ OnConnect(i)
  /\ UNCHANGED <<rpc, tracker, envVars>>

\* ... or there is none: a send_close task tells the client TooManyPlayers.
TurnClientAway ==
  /\ At("select")
  /\ newClients > 0
  /\ ~HasSpace
  /\ newClients' = newClients - 1
  /\ tracker' = tracker + 1
  /\ UNCHANGED <<rpc, players, msgSent, limits, closing, departing, handle,
                 requests, closes, notes, control, playerVars, envVars>>
-----------------------------------------------------------------------------
\* Mutant: a sender that has left meanwhile is not noticed.
SenderGoneIgnored(i) == FALSE

SenderGone(i) == i \notin players

\* Mutant: not the limit the room has now, the largest there may ever be.
LargestLimitAllows(i, j) == \E limit \in MessageLimits : msgSent[i][j] < limit

MessageAllowed(i, j) == msgSent[i][j] < limits.messages

CanReceiveFrom(i, j) == j \in players /\ j # i

\* try_send_message
TrySendMessage(i, j) ==
  \/ /\ SenderGone(i)
     /\ UNCHANGED <<notes, msgSent>>
  \/ /\ ~SenderGone(i) /\ ~CanReceiveFrom(i, j)
     /\ Notify(i, EndOfStay("InvalidDestination"))
     /\ UNCHANGED msgSent
  \/ /\ ~SenderGone(i) /\ CanReceiveFrom(i, j) /\ MessageAllowed(i, j)
     /\ msgSent' = [msgSent EXCEPT ![i][j] = @ + 1]
     /\ Notify(j, MessageReceived(i))
  \/ /\ ~SenderGone(i) /\ CanReceiveFrom(i, j) /\ ~MessageAllowed(i, j)
     /\ Notify(i, EndOfStay("Policy"))
     /\ UNCHANGED msgSent

\* try_seal_room for a player that is not the host.
RefuseSeal(i) ==
  IF i \in players THEN Notify(i, EndOfStay("OnlyHostCanSeal"))
                   ELSE UNCHANGED notes

\* on_close as far as its first loop; `streams` counts the streams that a
\* send_close task will be spawned for when on_close has returned.
BeginClose(code, toHost, streams) ==
  /\ RoomGoto("notify")
  /\ closing' = [code |-> code, toHost |-> toHost, awaiting |-> {},
                 streams |-> streams]
  /\ UNCHANGED <<players, msgSent, limits, departing, handle, tracker, notes>>

\* on_disconnect as far as awaiting the player's task.
BeginDisconnect(i, code) ==
  /\ RoomGoto("leave")
  /\ departing' = [id |-> i, code |-> code]
  /\ players' = players \ {i}
  /\ handle' = IF i \in players THEN i ELSE NoId
  /\ UNCHANGED <<msgSent, limits, closing, tracker, notes>>

\* player_request_receiver, one action for each kind of request.
TakeRequest(command) ==
  /\ At("select")
  /\ requests # <<>>
  /\ Head(requests).command = command
  /\ requests' = Tail(requests)
  /\ UNCHANGED <<newClients, closes, control, playerVars, envVars>>

RecvSeal ==
  /\ TakeRequest("seal")
  /\ LET i == Head(requests).from
     IN  \/ i = HOST_ID /\ BeginClose("RoomSealed", TRUE, 0)
         \/ /\ i # HOST_ID
            /\ RefuseSeal(i)
            /\ UNCHANGED roomVars

RecvSend ==
  /\ TakeRequest("send")
  /\ TrySendMessage(Head(requests).from, Head(requests).to)
  /\ UNCHANGED <<rpc, players, limits, closing, departing, handle, tracker>>

\* Mutant: the host's connection is dropped like any other.
RecvDropOfAnyone ==
  /\ TakeRequest("drop")
  /\ BeginDisconnect(Head(requests).from, NoCode)

RecvDrop ==
  /\ TakeRequest("drop")
  /\ LET i == Head(requests).from
     IN  \/ i = HOST_ID /\ BeginClose("HostDisconnected", FALSE, 0)
         \/ i # HOST_ID /\ BeginDisconnect(i, NoCode)

\* player_close_receiver: the host's own stream is closed with the host's code.
RecvClose ==
  /\ At("select")
  /\ closes # <<>>
  /\ closes' = Tail(closes)
  /\ LET close == Head(closes)
     IN  \/ close.from = HOST_ID /\ BeginClose("HostDisconnected", FALSE, 1)
         \/ close.from # HOST_ID /\ BeginDisconnect(close.from, close.code)
  /\ UNCHANGED <<newClients, requests, control, playerVars, envVars>>
-----------------------------------------------------------------------------
\* config_receiver.changed(): the room is older than the new time limit (a room
\* that closes has no more use for its other new limits) ...
ReconfigureExpired ==
  /\ At("select")
  /\ budget.reconfigs < MaxReconfigs
  /\ budget' = [budget EXCEPT !.reconfigs = @ + 1]
  /\ BeginClose("Policy", TRUE, 0)
  /\ UNCHANGED <<newClients, requests, closes, control, playerVars, lobbySees,
                 shutdown>>

\* ... or it goes on, and players in excess, never the host, are kicked in the
\* order of the map.
Excess(limit) == IF Cardinality(players) > limit
                 THEN Cardinality(players) - limit ELSE 0

Reconfigure ==
  /\ At("select")
  /\ budget.reconfigs < MaxReconfigs
  /\ budget' = [budget EXCEPT !.reconfigs = @ + 1]
  /\ \E new \in [players : PlayerLimits, messages : MessageLimits,
                counted : {msgSent}],
        kicked \in SUBSET (players \ {HOST_ID}) :
       /\ limits' = new
       /\ \/ Cardinality(kicked) = Excess(new.players)
          \/ /\ kicked = players \ {HOST_ID}
             /\ Cardinality(kicked) < Excess(new.players)
       /\ notes' = [p \in PlayerId |->
                      IF p \in kicked /\ Alive(p)
                      THEN Push(notes[p], EndOfStay("TooManyPlayers"))
                      ELSE notes[p]]
  /\ UNCHANGED <<rpc, players, msgSent, closing, departing, handle, tracker,
                 newClients, requests, closes, control, playerVars, lobbySees,
                 shutdown>>

\* Mutant: the players are not told, the main loop is just left.
TimeLimitUntold ==
  /\ At("select")
  /\ RoomGoto("seal")
  /\ UNCHANGED <<players, msgSent, limits, closing, departing, handle, tracker,
                 channelVars, playerVars, envVars>>

\* time_limit_interval.tick()
TimeLimit ==
  /\ At("select")
  /\ BeginClose("Policy", TRUE, 0)
  /\ UNCHANGED <<newClients, requests, closes, control, playerVars, envVars>>

\* Mutant: return instead of break.
RoomReturnsAtShutdown ==
  /\ At("select")
  /\ shutdown
  /\ RoomGoto("done")
  /\ UNCHANGED <<players, msgSent, limits, closing, departing, handle, tracker,
                 channelVars, playerVars, envVars>>

\* shutdown_signal.recv(): the room's receiver was subscribed in the lobby.
RoomHearsShutdown ==
  /\ At("select")
  /\ shutdown
  /\ RoomGoto("seal")
  /\ UNCHANGED <<players, msgSent, limits, closing, departing, handle, tracker,
                 channelVars, playerVars, envVars>>
-----------------------------------------------------------------------------
\* handle().await returns.
AwaitHandle ==
  /\ handle # NoId
  /\ ppc[handle] = "done"
  /\ handle' = NoId
  /\ UNCHANGED <<rpc, players, msgSent, limits, closing, departing, tracker,
                 channelVars, playerVars, envVars>>

\* Mutant: who left is forgotten as a sender, but not as a receiver.
KeepCounts(i) == msgSent

\* clear_message_count for every player there is.
ClearCounts(i) ==
  [p \in PlayerId |-> IF p \in players THEN [msgSent[p] EXCEPT ![i] = 0]
                                      ELSE msgSent[p]]

\* The rest of on_disconnect.
FinishDisconnect ==
  /\ At("leave")
  /\ LET i == departing.id
     IN  /\ msgSent' = ClearCounts(i)
         /\ notes' = NotifyAll(players, PlayerLeft(i))
  /\ players' = Survivors(players)
  /\ tracker' = tracker + (IF departing.code = NoCode THEN 0 ELSE 1)
  /\ departing' = NotDeparting
  /\ RoomGoto("select")
  /\ UNCHANGED <<limits, closing, handle, newClients, requests, closes, control,
                 playerVars, envVars>>
-----------------------------------------------------------------------------
\* Mutant: on_close waits for the host whatever send_to_host says.
EndedEarlyOnly(i) == ~Alive(i)

\* No close request is to be expected of i: send_to_host is false, or the
\* notification could not be sent.
EndedAnyway(i) == (i = HOST_ID /\ ~closing.toHost) \/ ~Alive(i)

\* The first loop of on_close, for one player of player_map.drain().
NotifyClosing ==
  /\ At("notify")
  /\ \E i \in players :
       /\ players' = players \ {i}
       /\ \/ /\ EndedAnyway(i)
             /\ handle' = i
             /\ UNCHANGED <<notes, closing>>
          \/ /\ ~EndedAnyway(i)
             /\ Notify(i, EndOfStay(closing.code))
             /\ closing' = [closing EXCEPT !.awaiting = @ \cup {i}]
             /\ UNCHANGED handle
  /\ UNCHANGED <<rpc, msgSent, limits, departing, tracker, newClients, requests,
                 closes, control, playerVars, envVars>>

NotifyClosingDone ==
  /\ At("notify")
  /\ players = {}
  /\ RoomGoto("collect")
  /\ UNCHANGED <<players, msgSent, limits, closing, departing, handle, tracker,
                 channelVars, playerVars, envVars>>

\* Mutant: the stream is kept, the player is not removed from to_await.
KeepAwaiting(i, streams) ==
  /\ closing' = [closing EXCEPT !.streams = @ + streams]
  /\ handle' = IF i \in closing.awaiting THEN i ELSE NoId

\* to_await.remove, and await the task that was found there.
StopAwaiting(i, streams) ==
  /\ closing' = [closing EXCEPT !.awaiting = @ \ {i}, !.streams = @ + streams]
  /\ handle' = IF i \in closing.awaiting THEN i ELSE NoId

\* Mutant: every request is taken for a last one.
AnyRequestIsLast(request) == TRUE

IsLastRequest(request) == request.command = "drop"

\* The second loop of on_close: only drop requests count.
CollectRequest ==
  /\ At("collect")
  /\ closing.awaiting # {}
  /\ requests # <<>>
  /\ requests' = Tail(requests)
  /\ \/ IsLastRequest(Head(requests)) /\ StopAwaiting(Head(requests).from, 0)
     \/ ~IsLastRequest(Head(requests)) /\ UNCHANGED <<closing, handle>>
  /\ UNCHANGED <<rpc, players, msgSent, limits, departing, tracker, newClients,
                 closes, notes, control, playerVars, envVars>>

CollectClose ==
  /\ At("collect")
  /\ closing.awaiting # {}
  /\ closes # <<>>
  /\ closes' = Tail(closes)
  /\ StopAwaiting(Head(closes).from, 1)
  /\ UNCHANGED <<rpc, players, msgSent, limits, departing, tracker, newClients,
                 requests, notes, control, playerVars, envVars>>

CollectDone ==
  /\ At("collect")
  /\ closing.awaiting = {}
  /\ tracker' = tracker + closing.streams
  /\ closing' = NotClosing
  /\ RoomGoto("seal")
  /\ UNCHANGED <<players, msgSent, limits, departing, handle, channelVars,
                 playerVars, envVars>>
-----------------------------------------------------------------------------
\* After the main loop: the lobby is told, the room's own senders are dropped.
SendSeal ==
  /\ At("seal")
  /\ control' = Append(control, "seal")
  /\ RoomGoto("drainCloses")
  /\ UNCHANGED <<players, msgSent, limits, closing, departing, handle, tracker,
                 newClients, requests, closes, notes, playerVars, envVars>>

\* Mutant: try_recv() until the channel is empty.
EmptyNow(queue) == queue = <<>>

\* recv() returns None: every sender is dropped and nothing is buffered.
Drained(queue) == queue = <<>> /\ NoSenders

DrainCloses ==
  /\ At("drainCloses")
  /\ \/ /\ closes # <<>>
        /\ closes' = Tail(closes)
        /\ UNCHANGED rpc
     \/ /\ Drained(closes)
        /\ RoomGoto("drainRequests")
        /\ UNCHANGED closes
  /\ UNCHANGED <<players, msgSent, limits, closing, departing, handle, tracker,
                 newClients, requests, notes, control, playerVars, envVars>>

DrainRequests ==
  /\ At("drainRequests")
  /\ \/ /\ requests # <<>>
        /\ requests' = Tail(requests)
        /\ UNCHANGED rpc
     \/ /\ Drained(requests)
        /\ RoomGoto("joinPlayers")
        /\ UNCHANGED requests
  /\ UNCHANGED <<players, msgSent, limits, closing, departing, handle, tracker,
                 newClients, closes, notes, control, playerVars, envVars>>

\* player_map.drain() at the end of the task: each handle is awaited.
JoinPlayers ==
  /\ At("joinPlayers")
  /\ \/ /\ players # {}
        /\ \E i \in players : players' = players \ {i} /\ handle' = i
        /\ UNCHANGED rpc
     \/ /\ players = {}
        /\ RoomGoto("drainClients")
        /\ UNCHANGED <<players, handle>>
  /\ UNCHANGED <<msgSent, limits, closing, departing, tracker, channelVars,
                 playerVars, envVars>>

\* Clients that were sent to the room too late are told that it is sealed.
DrainClients ==
  /\ At("drainClients")
  /\ \/ /\ newClients > 0
        /\ newClients' = newClients - 1
        /\ tracker' = tracker + 1
        /\ UNCHANGED rpc
     \/ /\ newClients = 0
        /\ RoomGoto("awaitCloses")
        /\ UNCHANGED <<newClients, tracker>>
  /\ UNCHANGED <<players, msgSent, limits, closing, departing, handle, requests,
                 closes, notes, control, playerVars, envVars>>

\* close_task_tracker.wait()
AwaitCloses ==
  /\ At("awaitCloses")
  /\ tracker = 0
  /\ RoomGoto("signal")
  /\ UNCHANGED <<players, msgSent, limits, closing, departing, handle, tracker,
                 channelVars, playerVars, envVars>>

\* The last thing the task does; its receivers are dropped with what they hold.
SignalClosed ==
  /\ At("signal")
  /\ control' = Append(control, "close")
  /\ newClients' = 0
  /\ RoomGoto("done")
  /\ UNCHANGED <<players, msgSent, limits, closing, departing, handle, tracker,
                 requests, closes, notes, playerVars, envVars>>

\* A send_close task ends: the client echoed the frame, or took too long.
SendCloseDone ==
  /\ tracker > 0
  /\ tracker' = tracker - 1
  /\ UNCHANGED <<rpc, players, msgSent, limits, closing, departing, handle,
                 channelVars, playerVars, envVars>>

RoomCloses == RecvSeal \/ RecvDrop \/ RecvClose \/ ReconfigureExpired
                \/ TimeLimit \/ RoomHearsShutdown

RoomWindsDown ==
  \/ AwaitHandle \/ FinishDisconnect
  \/ NotifyClosing \/ NotifyClosingDone \/ CollectRequest \/ CollectClose
  \/ CollectDone \/ SendSeal \/ DrainCloses \/ DrainRequests \/ JoinPlayers
  \/ DrainClients \/ AwaitCloses \/ SignalClosed

RoomStep ==
  \/ Start \/ NewClient \/ TurnClientAway \/ RecvSend \/ Reconfigure
  \/ RoomCloses \/ RoomWindsDown \/ SendCloseDone
=============================================================================
