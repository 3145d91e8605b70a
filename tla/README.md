# Tabletop Club lobby server: a verification project

The server lets players of Tabletop Club find each other: a client creates a
room or joins one with a room code, and the room passes WebRTC offers, answers
and candidates between its players until they are connected to each other.
Everything is a tokio task, everything between tasks is a channel. This project
models those tasks and channels in TLA+, checks them with TLC on small
instances, and proves the most important facts with TLAPS: for every number of
players, clients and rooms and every channel capacity, all time limits, all lists
of room codes.

## Inventory

| Part | Source | State | Operations | Talks to |
| --- | --- | --- | --- | --- |
| Server task | `src/lib.rs` | accept tasks, the limits of the stream | accept, reconfigure, shut down and await everybody | main, accept tasks, lobby, configuration |
| Accepting a connection | `src/connection.rs` | one stream | TLS and WebSocket handshakes, send the stream to the lobby | lobby |
| Lobby | `src/lobby.rs` | `join_queue`, `room_map`, limits, close tasks | new connection, create, join, close, drop, `SealRoom`, `CloseRoom`, reconfigure (abort rooms), shut down | joining players, rooms |
| Player joining | `src/player/joining.rs` | one stream | one request, or an error, or a timeout | lobby |
| Room | `src/room.rs` | `player_map` with message counts, limits, close tasks | join, seal, send, drop, close, reconfigure (kick), time limit, shut down, drain | lobby, its players |
| Player in a room | `src/player/in_room.rs` | one stream, expected pongs, two intervals | client messages, notifications, ping, timeout, reconfigure, shut down | client, room |
| Closing a connection | `src/player/mod.rs` (`send_close`) | one stream | send the close frame, wait for the echo | client |
| Request parsing | `src/player/mod.rs` | none | text to request or close code | |
| Room codes | `src/room_code.rs` | none | random code, code to integer and back, profanity | lobby |
| Configuration | `src/config.rs` | the last good values of the file, in a watch channel | read, validate, publish | everybody |
| Messages, close codes | `src/message.rs`, `src/close_code.rs` | | | |
| Main | `src/main.rs` | | start, wait for an OS signal, send the shutdown signal | server task |

What is hard in this code is the order of things: a room and its players are
tasks that send to each other over bounded channels and await each other's end;
a request may be handled long after its sender has left; the shutdown signal
reaches the tasks at different times; the lobby and its rooms learn of each
other's state through signals that may be late. What makes each part correct:

* **Room and players.** Nobody waits for a task that will not end; a closing
  room does close; nothing is left behind when it has; clients are told who is
  in the room, in an order that makes sense of the messages they are handed;
  limits (players, messages, channel capacities) are kept, or on their way to be.
* **Lobby.** A stream is always in exactly one place until it is dropped or
  handed to a close task; no more rooms than allowed; the map follows the rooms.
* **Shutdown.** Every task that is awaited ends.
* **One connection in time.** Who is dropped has earned it, who is silent is
  dropped, and a changed configuration, which restarts the timers, breaks neither.
* **Configuration.** No task ever works with limits that make no sense together;
  a good file reaches every task at last.
* **Request parser, room codes, profanity search.** A text is read as the request
  it is the written form of, or refused; the code of a new room is free and
  clean, and the client that sends it back is understood.

## Modules

| Module | Models | Extends |
| --- | --- | --- |
| `RoomChannels` | the constants, the variables and the channels shared by a room and its players; `Push` is a tokio broadcast receiver that lags, `Heard` what a client believes after a notification | |
| `RoomTask` | `Room::task` and its helpers, one action per branch of `select!` and per `await` of the rest | `RoomChannels` |
| `PlayerInRoom` | `PlayerInRoom::task`, its macros `send_req!`, `close_connection!`, `drop_connection!` | `RoomChannels` |
| `RoomSystem` | one room with its players, the lobby as the room sees it, the shutdown signal; the properties | both |
| `RoomLifecycle` | the abstract specification: what a room and the lobby promise each other | |
| `MCRoom` | instances of `RoomSystem` for TLC | `RoomSystem` |
| `RoomSystemProofs` | type correctness of `RoomSystem` | `RoomSystem`, TLAPS |
| `RoomInvProofs` | the inductive invariant, what follows from it, the refinement | `RoomSystemProofs` |
| `RoomPlayersProofs` | who is in `player_map`, what the clients are told, who is leaving, who has sent how much | `RoomInvProofs` |
| `LobbyTask` | `lobby_task`, one action per branch and per kind of request or signal | |
| `LobbySystem` | the lobby with `server_task`, accept tasks, join tasks, close tasks and rooms; the properties | `LobbyTask` |
| `MCLobby` | instances of `LobbySystem` for TLC | `LobbySystem` |
| `LobbyProofs` | type correctness of `LobbySystem` | `LobbySystem`, TLAPS |
| `LobbyClientProofs` | where the clients' streams are, and what is left when the server stops | `LobbyProofs` |
| `LobbyRoomProofs` | `room_map`, the rooms and their signals; the lobby's list implements `RoomLifecycle` | `LobbyProofs` |
| `ServerConfig` | the configuration file, `validate`, `update_config_task`, the watch channel and its readers | |
| `ClientSession` | one connection in time: `PlayerJoining::task`, the timers of `PlayerInRoom::task`, `send_close`; the properties | `ServerConfig` |
| `MCSession` | an instance of `ClientSession` for TLC | `ClientSession` |
| `SessionProofs` | the inductive invariant of `ClientSession` and what follows from it | `ClientSession`, TLAPS |
| `RoomCodes` | `RoomCode`, its conversions, `is_profanity`, the lobby's loop that draws a code | |
| `PlayerRequests` | `parse_player_request` and its close codes | `RoomCodes` |
| `RequestSystem` | a text from its arrival to its answer, and a room's code from its drawing to the client that joins with it; the properties | `PlayerRequests` |
| `MCRequests` | an instance of `RequestSystem` for TLC | `RequestSystem` |
| `RequestProofs` | the binary search, the conversions, the codes of new rooms, the parser, invitations | `RequestSystem`, TLAPS |

### A room and its players

`rpc` is where `Room::task` is. The names are listed at the head of `RoomTask`;
`"select"` is the main loop, `"leave"` is `on_disconnect`, `"notify"` and
`"collect"` are the two loops of `on_close`, the rest is the end of the task in
its order. `handle` is the player whose `JoinHandle` is being awaited: while it
is set the room does nothing else. `players` is the key set of `player_map`,
`msgSent` the `msg_sent` counts, `closing` and `departing` the arguments and
locals of `on_close` and `on_disconnect`, `tracker` the number of `send_close`
tasks.

`requests` and `closes` are the bounded mpsc channels from all players to the
room. `notes[i]` is the broadcast channel from the room to player i, which
drops the oldest entries when the reader falls behind: the reader then gets
`Lagged`, whatever else is in it. `ppc[i]` is where i's task is, `pend[i]` the
request it is blocked sending. A player task handles one thing at a time, so an
action covers one turn of its loop, up to where it may block.

`limits` holds the limits as the room has them, and as history, `counted`, the
`msg_sent` counts at the moment it took them. `FloodsAreCounted` needs it: after
`max_message_count` was lowered a count may be over the limit, but then it is
what it was and has not grown. `LeaversAreForgotten` is the other end of a
count: once the last request of a player that left is handled, nobody's count of
messages to its id is left, also when `notify_all` had removed it before.

Abstractions: the payload of messages, and the three kinds of WebRTC message
(one command, `"send"`); the stream, which is wherever its owner is; the close
codes that only differ in what the client did wrong (`ClientFault`); time: the
ping interval, the response limit and the room's time limit may act at any
time. An abort by the lobby takes effect at some later await (`Aborted`), and
until then the task goes on.

`UniqueIds` says whether `random_player_id` may draw the id of a player that
has left. With 2^32 ids it hardly ever does, but the code does not exclude it: only
ids in `player_map` are drawn again. With `UniqueIds = FALSE` TLC refutes
`AwaitedTaskIsOver`: the last request of the player that has left removes the
new one, and the room waits for its running task.

The room's own shutdown receiver is taken to be subscribed before the signal.
In the code the lobby may create a room after it was sent; the room then misses
it as a player may (`shutdown_unheard`). In `LobbySystem` no room is obliged to
end, so this case is included there, and the lobby's own receiver, which
`server_task` subscribes just before it spawns the lobby, may miss the signal too.

### The lobby and the server

`at[c]` is the task that has client c's stream: `accept_connection`, the
channel to the lobby, `PlayerJoining::task`, the request channel, a room, a
`send_close` task. `"inRoom"` is a player of the room `roomOf[c]`, or one of its
close tasks, until `LeavesRoom`. `joinQueue` and `roomMap` are the two maps of `lobby_task`,
by `HandleID` and by room code. A room is a task with a phase: `"open"`,
`"closing"`, `"sealed"` (`SealRoom` sent), `"swept"` (it has emptied its channel
of new clients), `"closed"` (`CloseRoom` sent), `"aborted"`. This is how
`RoomSystem` ends, seen from outside; what happens inside is left to it, but for
one thing: a room says `CloseRoom` only when nobody is with it any more
(`RoomIsEmpty`), as `ClosedMeansQuiet` of `RoomSystem` has it. An aborted room does
not wait for anybody.
`controls` carries codes, not rooms, as in the code.

`server_task` spawns the lobby (`SpawnLobby`), accepts, hears the signal, and
awaits its accept tasks, the lobby, and `update_config_task`, in this order.
`lobbyHears` says whether the lobby was subscribed before the signal. When it was
not, `server_task` breaks its loop and awaits, for ever, a lobby that has nothing
to stop it: `Finished` counts this as an end, so that TLC looks for other states
that are stuck, and `ServerStops` names it in its condition.

Abstractions: which request a client makes, and which close code it gets; the
handshakes, which succeed, fail or are interrupted at any time. The awaits at
the end of `lobby_task` are one action, `LobbyStops`: what they wait for does
not come back. `RoomCode` holds no profanity.

`UniqueCodes` says whether `RoomCode::random` may draw the code of a room that
is not in `room_map` any more. With `UniqueCodes = FALSE` and a room taken off the
map by a lowered `max_rooms`, TLC refutes `AwaitedRoomIsDone`: the old room's
`CloseRoom` is taken for the new one's, and the lobby waits for a room that is
in use. Both repetitions need a random draw of one in thousands of millions, or
hundreds of thousands, which is why the passing runs and the theorems exclude
them.

### One connection and its configuration

`RoomSystem` lets a player time out at any moment. `ClientSession` is the other
half: one client, with its timers, in seconds, and the room and the lobby reduced
to what they may do to it. `place` is the task that has the stream (`"joining"`,
`"entering"` while the lobby and the room pass it on, `"setup"` while the player's
task, which is spawned with a shutdown receiver of its own, writes the room
details, `"loop"`, `"frame"` and `"echo"` in `send_close`). `wait` is the time left of the limit that applies
there (`join_room_time_limit_secs`, the timeout interval, the five seconds for
the echo), `pingDue` the time to the next tick of the ping interval, negative
when the tick is late, `expected` is `num_expected_pongs`. `Tick` lets time
pass, and never past the moment at which a timer is due whose task is polling:
the action of that timer, or another that is ready at the same moment, comes
first. While `stalled` the task is inside a branch, waiting for space in the
room's channel or in the socket; the timers run, nothing is polled, and on its
return everything may be ready at once.

History variables say what the client did: `asked` holds the ages of the pings
it has not answered, oldest first, `cheated` whether it sent a ping or a pong
too many, `broken` that its stream failed with one of the errors that
`websocket_error_to_close_code` turns into `CloseCode::Protocol`, `mute` that it has
fallen silent, `stall` how long its task was held up. `ProtocolCloseIsFounded` and
`TimeoutIsEarned` relate the code's own bookkeeping to them. A client that only drops
its stream is closed with `CloseCode::Protocol` too (the tests at
`src/player/joining.rs:202` and `src/player/in_room.rs:681` expect it), so that
this code does not always mean a breach of the protocol by choice; what
`ProtocolCloseIsFounded` excludes is that it is given to a client that only answered
its pings. What the latter states is weaker than the comment at `src/config.rs:215`
("how long the server will wait for a player's response") suggests: the limit
runs from the last pong, not from the ping, so a client can rely on the
difference of the two settings only. With 10 and 30 seconds that is 20; with 59
and 60, which `validate` accepts, it is one second.

`MuteClientIsDropped` has a condition: the configuration changes no more. Each
published change that reaches the player makes a new `timeout_interval`
(`src/player/in_room.rs:438`), so that changes which come sooner than the limit
keep a client that answers nothing. The file is read every 30 seconds
(`CONFIG_UPDATE_INTERVAL`) and the limit may be set longer than that. Without the
condition TLC shows such a behaviour.

`ServerConfig` is what all this reads. `file` may be changed, broken or removed
at any time, any number of times; `CheckFile` is one turn of `update_config_task` and publishes a file
that parses and validates, and differs; a reader sees the last value only, when
it polls. `updater` is `"deaf"` when the task was subscribed after the signal. `Bounds` are the ranges of `validate`, to the number.

Abstractions: a message is read in the same step in which it is sent, so that the
time it is under way is part of how long the client took; the file is read whole
(a half-written one is `Unreadable`); the room's time limit is in `RoomTask`.

### Requests and room codes

A text is a sequence of tokens, a token of four bytes is that tuple of bytes, any
other is a tuple of its name. `parse_player_request` splits it at the first
newline, then the line at its first space, as the code does, so that payloads and
arguments may contain anything. `TextsAreRead` compares it with `Readings`,
which goes the other way: the set of requests that a text is the written form
of. `ParsedAsWritten` proves that the two agree on every text; TLC compares them on
all texts of at most five tokens, and on longer ones with a number. A number is what
`str::parse` takes for one: digits, perhaps after a sign, up to 2^32 - 1. In
`RequestSystem` the text is then answered by the task it came to (`PlayerJoining` or `PlayerInRoom`)
and by the lobby. A host's room code is drawn in the loop of `lobby_task`, with the
binary search of `is_profanity` one step at a time, and passed on by the host;
`InvitesAreUnderstood` says that it gets the next client into the room.

Abstractions: tokens for characters; the alphabet and the list of profanity are
parameters, the list non-empty and sorted, which the code assumes too
(`room_code.rs:72`); what the parsed request carries on to the room is
`RoomSystem`'s matter.

### The abstract specification

`RoomLifecycle` is what a room and the lobby rely on in each other. It has five
variables: the phase of the room, who is inside, how many clients are in the
channel to it, which signals it has said that the lobby has not heard, and what
the lobby's list says.

* The room: clients come in one for one from the channel, the host excepted, and
  only while the room is open; it says `SealRoom` when it takes nobody in any more
  and *before* its last look into the channel; it says `CloseRoom` after that look,
  when nobody is inside. Each is said once.
* The lobby: it sends clients only to a room that it lists as open, and no more
  than the channel holds; it lists the room as sealed when it has heard `SealRoom`,
  as removed when it has heard `CloseRoom`, never earlier; or it evicts the room
  because of `max_rooms`, and only then may the room be aborted; or it has heard
  the shutdown signal, and what it hears changes nothing any more (`"unread"`).

A client that is sent between the last look and the moment when the lobby hears
`SealRoom` is lost with the channel. The comment at `src/lobby.rs:313` leaves this
open, and so does `Close`.

Both sides are shown to keep it. `RoomSystem`, where the room is detailed and the
lobby is an environment, implements it with the room's channel, the sequence
`control` and the list as the room's lobby has it (`KeepsLifecycle`, checked in
`room_endings` and proved). `LobbySystem`, where the lobby is detailed and a room
is a phase, implements it for each of its rooms (`ListingsKeepLifecycle`, checked
in `lobby` and proved); there the signals of a room are those in `controls` that
carry its code, and clients are counted in the channel only, so `inside` is
empty. As far as safety goes, neither model needs more of the other than these
promises: what each assumes of its environment the other has been shown to do.

## Runs

| Run | Instance | Question |
| --- | --- | --- |
| `room_messages` | 3 ids, 2 arrivals, 1 client request, player limits 1 to 3, 1 reconfiguration, notification channel 2, request channel 1 | do the clients' lists follow `player_map`, is every message from somebody the client knows, is every close request that `on_close` waits for on its way, are players in excess leaving, is no task outside `player_map`, is what was counted of a leaver forgotten |
| `room_flood` | host and one player, limits 1 and 2, 3 requests, 1 reconfiguration | is what one player queues for another counted, does no count grow past the limit there is |
| `room_endings` | 3 ids, shutdown and abort allowed | is nobody awaited that is still talking, is nothing left at the end, do the drains meet blocked tasks, is `RoomInv` an invariant, is `RoomLifecycle` implemented |
| `room_live` | host and one player, fairness | does a closing room close, do leavers leave |
| `lobby` | 3 clients, 2 rooms, 2 codes, join queues of 1 or 2, 2 signals, other channels 1, 1 change of `max_rooms`, shutdown at any time | do the two maps follow the tasks and `RoomLifecycle`, are limits kept, are only finished rooms awaited, is no state stuck, is nothing left when the server has stopped but the tasks of aborted rooms |
| `lobby_live` | 2 clients, 2 rooms, 2 codes, all channels 1, fairness, shutdown at any time | is everybody answered, does the server stop when nobody keeps it |
| `session` | 1 client, 3 configurations, any number of edits of the file, steps of 5 s, 5 s of stall, fairness, shutdown at any time | are the limits in order, is nobody accused or timed out without cause, is the silent client dropped once the configuration stays, does closing end, do good files that stay arrive |
| `requests` | all texts of up to 5 of 9 tokens, longer ones with a number of up to 3 digits and signs, 81 codes over 3 letters, 7 of them profanity, 2 rooms, fairness | is a text read as what it says, are new codes fit and found, do they work when sent back |

The bounds: capacity 1 or 2 makes every channel fill, and makes a sender block,
with one or two messages; a notification channel of 2 lags with three. Three
players are a host, one that acts and one that watches; two suffice where a
property is about a pair. Client requests are bounded by `MaxRequests`, clients
by `MaxArrivals`, changes of limits in the room and the lobby by `MaxReconfigs`; what ends
a player (fault, disconnect, kick) is not bounded. Two rooms and two codes let a room end
while another lives; three clients fill a queue of two. Every property is also
checked against a mutant of the code (`mutants` in `PROJECT.json`), which it
refutes in the same instance: the bounds are large enough for the case to
happen.

In `session` the time limits are multiples of the five seconds of a step, in
three configurations: the default, a tighter one, and one whose limits are in
range but not in order, which must never be published. `MaxStall` is one step,
which is enough for a tick to be late and for everything to be ready at once.
`MaxOwed` caps the pings a client may leave unanswered and still answer later: one
more is sent and counted, which it never answers, and those after it change nothing.
Pings older than `MaxAge` are not told apart; `AgeAssumption` says that the ages that
matter, the response limit less the ping interval of every valid configuration, are.
The file may change for ever, so that a configuration can come back again and again:
the two valid ones are what the properties about changes need. In `requests` five tokens
hold every form of request with a payload of one token, and every way of
spoiling one, and three tokens hold a number with a sign, one that is too large (the
largest is 70 here), and signs where none may be; three letters are the two ends of the alphabet and one between; the
list of seven is searched to depth three, with codes before, between and after
its entries.

`room_endings` does not check deadlock: it includes the shutdown signal, and with it
the states of `shutdown_hangs_close` and `shutdown_hangs_drain`, in which nothing can
move. All other passing runs do.

## Findings

Four runs show where the code does not do what its comments say. Each checks
one property that states the comment.

* `shutdown_hangs_close`: a player that takes its shutdown branch while the
  closing notification is in its channel sends no close request, and `on_close`
  waits for it for ever.
* `shutdown_hangs_drain`: after the signal the room waits for all close senders
  to be dropped before it reads the request channel, on which one of them may be
  blocked. Before the signal this cannot happen (`DrainsMeetNobody`).
* `shutdown_unheard`: a player created after the signal was sent, by a room that
  has not heard it yet, has a receiver that misses it (`resubscribe`); the same
  goes for a room that the lobby creates then (`src/lobby.rs:214`), and for the
  lobby and `update_config_task` when the signal is ahead of them (`src/lib.rs:79`
  and 90). In `LobbySystem` the server then waits for ever.
* `close_without_frame`: a stream left in the close channel when `on_close`
  returns is dropped without a close frame.

A fifth place has no run of its own, as `StoppedMeansQuiet` states what the code
does: `src/main.rs:203` says that the server task "should wait for all of its
spawned tasks to finish". The tasks of players, and of clients being closed, of a room
that was aborted (`src/lobby.rs:393`) have lost their handles and are awaited by
nobody; they may still run when `server_task` returns.

## Fairness

`select!` polls its branches in random order, so a branch that is ready again
and again is taken at last: strong fairness for each receiver. A task that is not
at a `select!` has one thing to do and the runtime runs it: weak fairness. Tokio
serves the senders blocked on a channel in turn: strong fairness for each. A
`send_close` task has a time limit, a join task too. That a message can be
written to a client's socket is assumed. Nothing is assumed of clients, of
timers that are not limits, of the main thread, or of rooms in `LobbySystem`.
`room_live` holds without the shutdown signal and without an abort: with the
signal it does not, as the findings show. `ServerStops` therefore takes the end
of the rooms as its condition, and that no handshake, nor the lobby, has missed the
signal. In `session` the branches that become ready by
themselves (ping, timeout, reconfiguration, shutdown) are taken at last, however
often the client's messages are polled first; time passes; a write completes or
fails. The client owes nothing. In `requests` a code that is fit is drawn at last
if drawing goes on for ever, which is what random means here.

## Proofs

TLAPS proves, under the named assumptions of the modules that declare the
constants only: that `Letter` is within the alphabet and the list sorted,
that the steps of time are positive and the ages that matter are told apart
(`AgeAssumption`), that the host is a player. For a room, with
every set of player ids, all channel capacities and limits:

* `TypeCorrect`: `TypeOK` and `PendOK` always hold; in particular no channel
  holds more than its capacity.
* `RoomInvariant`: `RoomInv` always holds. From it
  * `ClosedIsQuiet`: when `Room::task` returns nothing of the room is left;
  * `AwaitedIsOver`, if ids are not drawn twice: the room only awaits tasks that
    are out of their loop, so that `handle().await` does not hang;
  * `KeepsItsPromises`, if ids are not drawn twice: the room implements
    `RoomLifecycle`.

None of these is inductive alone. `ClosedMeansQuiet` needs to know what each
drain has left behind once the room is past it: `DrainOK` says that from
`"drainRequests"` on no player task has a sender, so nothing can be posted any
more; that after it the requests are gone, then the players, then the close
tasks. `AwaitedTaskIsOver` needs `LastRequestOK`: a drop or close request in a
channel belongs to a task that has nothing left to do, and when `on_close` skips
the host the host is such a task. This fails when an id is used again, hence the
condition. The refinement needs `SignalsOK`: the signals on their way are those
the room has sent and the lobby has not seen, in their order. While the lobby
keeps its list this fixes `control` exactly; once it has evicted the room, or does
not listen, it is one of the ends of what was sent (`Unheard`). That each signal is
said once is what makes the step from the sequence to the set sound. Each is proved action by action,
in a lemma per group of actions; the players' steps are treated once, for the
part of the state that they share.

For the players of a room (`RoomPlayersProofs`), in the same generality. Those
marked with * take it that ids are not drawn twice.

* `NobodyIsLeftOut`*: `NoStrayTask`;
* `DrainsAreSafe`*: `DrainsMeetNobody`;
* `ExcessLeaves`: `ExcessIsLeaving`;
* `PeersAreKnown`: `MessagesFromKnown`;
* `ViewsFollow`*: `ViewFollowsMembership`;
* `RequestsAreComing`*, without the shutdown signal: `CloseRequestsComing`;
* `LeaversAreClearedAway`*: `LeaversAreForgotten`;
* `FloodsAreStopped`*: `FloodsAreCounted`.

They rest on lemmas about one notification channel, of any capacity: what `Push`
and reading do to what its reader will know (`KnowsPush`, `KnowsRead`), to the
order of its messages and to their number. `OpenStep` says all that a room may do
in its main loop as a player sees it: nothing, talk, let somebody depart, tell
the others. `ExcessIsLeaving` follows from a bound that is easier to keep, that
the players who stay are no more than the limit (`FitInv`): who is on the way out
stays so. `DrainsMeetNobody` follows the tasks that are not over through `on_close`:
from `player_map` to those it waits for, where each stays until its last request,
or its end, was seen (`PassedOn`); that a last request is of a task that is over is
`LastRequestOK` again. With `CloseRequestsComing`, `AwaitedTaskIsOver` and
`DrainOK` this says of each await at the end of a room that closes before the signal
that what it waits for is over, or on its way; that it comes is left to the fairness of `room_live`.
`MessagesFromKnown` needs that a client which is still served, and
whose channel has not lagged, knows all other players (`KnowsAll`), as the room
only hands on messages of players. For the reverse, that a client knows of nobody
else, and for `CloseRequestsComing`, the key is `EndedPosted`: before the
shutdown signal, a player whose task is over has its last request in a channel.
It fails with the signal, which is what `shutdown_hangs_close` shows.
`FloodsAreCounted` needs that nothing is queued yet from a player that has not
joined. `LeaversAreForgotten` needs `EndedPosted` too: a player that `notify_all` finds
gone leaves `player_map` at once, and its counts stay until its own request is
handled, which is then in a channel.

For a connection (`SessionProofs`), with all configurations in the file, all time
limits, all steps of time and any stall:

* `SessionInvariant`: `SessionInv` always holds. From it
  * `SessionTypes`: `SessionTypeOK`; whatever is in the file, no task works with
    limits in the wrong order;
  * `NobodyIsFramed`: `ProtocolCloseIsFounded`;
  * `TimeoutsAreEarned`: `TimeoutIsEarned`.

`ProtocolCloseIsFounded` needs that `num_expected_pongs` is the length of `asked` in
the loop, across restarts of the intervals. `TimeoutIsEarned` needs a bound that
relates the two timers, which are set at different moments (`OnTime`): with no
ping unanswered, the response limit has run for no longer than the ping interval
has, and otherwise for no longer than the age of the oldest such ping, the stall
and one ping interval together, unless that ping is too old to be told apart. Each
action keeps it; only the order of the
two limits, which `ConfigOK` carries through the watch channel, makes it say
something at the moment of the timeout.

For room codes and requests (`RequestProofs`), with every sorted list of
profanity, every alphabet, all tokens and digits and all texts:

* `CodeConversion`: `to_be_bytes` undoes `from_be_bytes` on all tuples of bytes;
* `RequestsImplementCodes`: `RequestSystem` implements the specification of the
  codes alone, so that what is proved of `CodesSpec` holds of it;
* `SearchIsRight`: the code is nowhere in what the binary search has left out;
* `OpenedCodesAreFitThm`: a room is opened under a code that is not in use and
  not in the list;
* `RequestTypes`: the search never leaves the list, and every key of `room_map`
  is the integer of a code;
* `ParsedAsWritten`: `parse_player_request` answers with a request exactly when the
  text is a written form of it, and of no other, however long the text is;
* `MessageInvariant`: `MessageInv` always holds. From it
  * `TextsAreReadThm`: `TextsAreRead`;
  * `InvitesAreUnderstoodThm`: `InvitesAreUnderstood`.

The invariant `SearchInv` says that all entries before `left` precede the code
and all after `right` follow it; that the list is sorted is used once, to carry
this from one entry to those beyond it.

`ParsedAsWritten` goes through what `FirstOf`, `Before` and `After` do to a text:
the first newline is found whatever follows it, the two parts and the separator
make up the text again, and neither a command nor an argument that is accepted
holds a separator, so that each written form is split where it was joined. A
number is opaque there: which `PlayerID` the digits stand for does not matter, only
that both sides use the same. `MessageInv` says that what was read is what the
message says, and that an invitation on its way names, in text, a room that is
open. It needs `SearchInv` for the moment when a code becomes a room's.

For the lobby, with every number of clients, rooms, codes and handles, all
capacities and limits:

* `LobbyTypes` (`LobbyProofs`): `LobbyTypeOK`, the capacities included;
* `PlaceInvariant` (`LobbyClientProofs`): `PlaceInv` always holds. From it
  * `QueueNamesTasks`: `QueueFollowsTasks`;
  * `StoppedIsQuiet`: `StoppedMeansQuiet`, with
* `InsideInvariant` (`LobbyClientProofs`): who is with a room is with one that has
  not closed, as a room closes only when nobody is with it; when all rooms are over
  it is one that was aborted;
* `ListInvariant` (`LobbyRoomProofs`), if codes are not drawn twice: `ListInv`
  always holds. From it
  * `ListFollowsRooms`: `RoomsAreListed`;
  * `OnlyEndedAwaited`: `AwaitedRoomIsDone`;
  * `RoomLimitKept`: `RoomsWithinLimit`;
* `ListingsKept` (`LobbyRoomProofs`), if codes are not drawn twice: every room,
  as the lobby lists it, implements `RoomLifecycle`.

`PlaceInv` says that a stream is in exactly one place of exactly one channel,
that of the task which `at` names, that handles are not shared, and what is over
at each step of the shutdown: no requests after the join tasks, no rooms after
the lobby's drains, no accept tasks before the connection channel closes.
`ListInv` relates three things which change at different times: the rooms, the
list, and the signals in `controls`, which carry codes and not rooms. It says
that the codes of listed rooms differ, that a room which is over and still
listed has its `CloseRoom` on the way, and that a signal means the room listed
under its code. The last needs that codes are not drawn again, since a room
taken off the list by a lowered `max_rooms` may still send. The limit follows
because the running rooms map one to one to the listed codes.

The refinement needs two more things, each an invariant above the one before.
`SealedFirst` (`SealInvariant`): the `SealRoom` of a room is ahead of its
`CloseRoom`, with any number of other rooms' signals between them. `OnceInvariant`:
no signal is in the channel twice, so that hearing one leaves none of the kind, and
a room is listed as sealed only when its own `SealRoom` was heard, so that what is
still on its way and what the list says are two halves of what the room has said.
Both are true of codes only as far as codes name rooms, which is `ListInv`. With
them each action of the lobby is one step of `RoomLifecycle` for the room it is
about, and none for all others (`ListingUndisturbed`).

Only model-checked: all liveness, which the provers do not reach. Every invariant
and every safety property of actions that a passing run checks is also proved.
That `Decimal` is the number its digits stand for is left to TLC's texts: it is a
fold, and induction over data is out of the provers' reach.

## What is left

* `RoomSystem` and `ClientSession` are two views of a player task, with the
  channels in one and the time in the other. A joint model is too large for TLC;
  each admits what the other does to it at any moment.

## Not modelled

TLS and WebSocket handshakes beyond their outcome, the limits on the size of a
message (the WebSocket library enforces them; `server_task` only hands them on),
command line arguments and OS signals, the text of the configuration file and
its comments, logging and the wording of messages: I/O or data. Test code and the
test utilities. Whether a write to a socket completes is the client's and the
network's affair; the liveness runs assume that it does, or fails.
