-------------------------- MODULE LobbyClientProofs --------------------------
(***************************************************************************)
(* Where the clients are, for any number of them: each stream is in at     *)
(* most one place of one channel, join_queue names exactly the clients     *)
(* whose join task or request is not done with (QueueFollowsTasks), and    *)
(* nothing is left when the server has stopped (StoppedMeansQuiet).        *)
(***************************************************************************)
EXTENDS LobbyProofs

\* The channel holds the clients at this place, each once.
InChannel(queue, where, place) ==
  /\ \A i \in 1..Len(queue) : where[queue[i]] = place
  /\ \A i, j \in 1..Len(queue) : queue[i] = queue[j] => i = j
  /\ \A c \in Client : where[c] = place => \E i \in 1..Len(queue) : queue[i] = c

\* The rooms' channels hold the clients sent to a room, each once.
RoomsHold(queues, where) ==
  /\ \A r \in RoomId : \A i \in 1..Len(queues[r]) : where[queues[r][i]] = "sentToRoom"
  /\ \A r, s \in RoomId : \A i \in 1..Len(queues[r]), j \in 1..Len(queues[s]) :
       queues[r][i] = queues[s][j] => r = s /\ i = j
  /\ \A c \in Client : where[c] = "sentToRoom" =>
       \E r \in RoomId : \E i \in 1..Len(queues[r]) : queues[r][i] = c

\* c has a join task, or a request that was not read.
Joins(where, c) == where[c] \in {"joining", "asking", "asked"}

QueueNames(queue, where, handles) ==
  \A c \in Client :
    /\ Joins(where, c) => handles[c] \in HandleId
    /\ \A h \in HandleId : queue[h] = c <=> Joins(where, c) /\ handles[c] = h

ConnectionsHeld == InChannel(connections, at, "queued")
RequestsHeld == InChannel(requests, at, "asked")
SentHeld == RoomsHold(newClients, at)
OnlyRunningHold == \A r \in RoomId : newClients[r] # <<>> => Running(r)
QueueRight == LobbyIsUp => QueueNames(joinQueue, at, handleOf)

\* What is over once the lobby, or the server, is so far.
RequestsOver ==
  lpc \in {"drainControls", "joinTasks", "done"} => requests = <<>> /\ JoinTasks = {}
RoomsOver == lpc \in {"joinTasks", "done"} => \A r \in RoomId : ~Running(r)
ClientsOver == lpc = "done" => \A c \in Client : at[c] \notin {"queued", "closing"}
AcceptsOver == spc \in {"awaitLobby", "awaitConfig", "done"} => Accepting = {}
LobbyOver == spc \in {"awaitConfig", "done"} => lpc = "done"

Held == ConnectionsHeld /\ RequestsHeld /\ SentHeld /\ OnlyRunningHold
WoundDown == RequestsOver /\ RoomsOver /\ ClientsOver /\ AcceptsOver /\ LobbyOver

PlaceInv == LobbyTypeInv /\ Held /\ QueueRight /\ WoundDown
-----------------------------------------------------------------------------
(* Channels.                                                               *)

LEMMA Sent ==
  ASSUME NEW queue \in Seq(Client), NEW where \in [Client -> ClientPlace], NEW place,
         InChannel(queue, where, place), NEW c \in Client, where[c] # place,
         NEW after \in [Client -> ClientPlace],
         \A d \in Client : after[d] = IF d = c THEN place ELSE where[d]
  PROVE  InChannel(Append(queue, c), after, place)
<1> DEFINE longer == Append(queue, c)
<1>1. /\ Len(longer) = Len(queue) + 1 /\ Len(queue) \in Nat
      /\ longer[Len(queue) + 1] = c
      /\ \A i \in 1..Len(queue) : longer[i] = queue[i] /\ queue[i] \in Client
  OBVIOUS
<1> HIDE DEF longer
<1>2. \A i \in 1..Len(longer) : i \in 1..Len(queue) \/ i = Len(queue) + 1
  BY <1>1
<1>3. \A i \in 1..Len(queue) : queue[i] # c /\ i \in 1..Len(longer)
  BY <1>1 DEF InChannel
<1>4. \A i \in 1..Len(longer) : after[longer[i]] = place
  BY <1>1, <1>2 DEF InChannel
<1>5. \A i, j \in 1..Len(longer) : longer[i] = longer[j] => i = j
  BY <1>1, <1>2, <1>3 DEF InChannel
<1>6. \A d \in Client : after[d] = place => \E i \in 1..Len(longer) : longer[i] = d
  <2> SUFFICES ASSUME NEW d \in Client, after[d] = place
               PROVE  \E i \in 1..Len(longer) : longer[i] = d
    OBVIOUS
  <2>1. CASE d = c
    BY <1>1, <2>1
  <2>2. CASE d # c
    BY <1>1, <1>3, <2>2 DEF InChannel
  <2> QED
    BY <2>1, <2>2
<1> QED
  BY <1>4, <1>5, <1>6 DEF InChannel, longer

LEMMA Received ==
  ASSUME NEW queue \in Seq(Client), queue # <<>>,
         NEW where \in [Client -> ClientPlace], NEW place,
         InChannel(queue, where, place),
         NEW after \in [Client -> ClientPlace], after[Head(queue)] # place,
         \A d \in Client : d # Head(queue) => after[d] = where[d]
  PROVE  InChannel(Tail(queue), after, place)
<1> DEFINE rest == Tail(queue)
<1>1. /\ Len(queue) \in Nat \ {0} /\ Len(rest) = Len(queue) - 1
      /\ \A i \in 1..Len(rest) : i + 1 \in 1..Len(queue) /\ rest[i] = queue[i + 1]
      /\ \A i \in 1..Len(queue) : queue[i] \in Client
      /\ Head(queue) = queue[1] /\ 1 \in 1..Len(queue)
  OBVIOUS
<1> HIDE DEF rest
<1>2. \A i \in 1..Len(rest) : rest[i] # Head(queue)
  BY <1>1 DEF InChannel
<1>3. \A i \in 1..Len(rest) : after[rest[i]] = place
  BY <1>1, <1>2 DEF InChannel
<1>4. \A i, j \in 1..Len(rest) : rest[i] = rest[j] => i = j
  BY <1>1 DEF InChannel
<1>5. \A d \in Client : after[d] = place => \E i \in 1..Len(rest) : rest[i] = d
  <2> SUFFICES ASSUME NEW d \in Client, after[d] = place
               PROVE  \E i \in 1..Len(rest) : rest[i] = d
    OBVIOUS
  <2>1. PICK i \in 1..Len(queue) : queue[i] = d
    BY DEF InChannel
  <2>2. i - 1 \in 1..Len(rest) /\ rest[i - 1] = queue[(i - 1) + 1]
    BY <1>1, <2>1
  <2> QED
    BY <1>1, <2>1, <2>2
<1> QED
  BY <1>3, <1>4, <1>5 DEF InChannel, rest

\* Others go elsewhere.
LEMMA NotMoved ==
  ASSUME NEW queue \in Seq(Client), NEW where, NEW after, NEW place,
         InChannel(queue, where, place),
         \A d \in Client : after[d] = place <=> where[d] = place
  PROVE  InChannel(queue, after, place)
<1>1. \A i \in 1..Len(queue) : queue[i] \in Client
  OBVIOUS
<1> QED
  BY <1>1 DEF InChannel

LEMMA SentNotMoved ==
  ASSUME NEW queues \in [RoomId -> Seq(Client)], NEW where, NEW after,
         RoomsHold(queues, where),
         \A d \in Client : after[d] = "sentToRoom" <=> where[d] = "sentToRoom"
  PROVE  RoomsHold(queues, after)
<1>1. \A r \in RoomId : \A i \in 1..Len(queues[r]) : queues[r][i] \in Client
  OBVIOUS
<1> QED
  BY <1>1 DEF RoomsHold

LEMMA SentToOne ==
  ASSUME NEW queues \in [RoomId -> Seq(Client)],
         NEW where \in [Client -> ClientPlace], RoomsHold(queues, where),
         NEW r \in RoomId, NEW c \in Client, where[c] # "sentToRoom",
         NEW after \in [Client -> ClientPlace],
         \A d \in Client : after[d] = IF d = c THEN "sentToRoom" ELSE where[d],
         NEW longer, longer = [queues EXCEPT ![r] = Append(queues[r], c)]
  PROVE  RoomsHold(longer, after)
<1>1. \A s \in RoomId : s # r => longer[s] = queues[s]
  OBVIOUS
<1>2. longer[r] = Append(queues[r], c)
  OBVIOUS
<1>3. queues[r] \in Seq(Client)
  OBVIOUS
<1>4. /\ Len(longer[r]) = Len(queues[r]) + 1 /\ Len(queues[r]) \in Nat
      /\ longer[r][Len(queues[r]) + 1] = c
      /\ \A i \in 1..Len(queues[r]) : longer[r][i] = queues[r][i]
  BY <1>2, <1>3
<1>5. \A s \in RoomId : \A i \in 1..Len(queues[s]) :
        queues[s][i] \in Client /\ queues[s][i] # c /\ i \in 1..Len(longer[s])
          /\ longer[s][i] = queues[s][i]
  <2> SUFFICES ASSUME NEW s \in RoomId, NEW i \in 1..Len(queues[s])
               PROVE  queues[s][i] \in Client /\ queues[s][i] # c
                        /\ i \in 1..Len(longer[s]) /\ longer[s][i] = queues[s][i]
    OBVIOUS
  <2>1. queues[s][i] \in Client
    OBVIOUS
  <2>2. queues[s][i] # c
    BY DEF RoomsHold
  <2>3. i \in 1..Len(longer[s]) /\ longer[s][i] = queues[s][i]
    BY <1>1, <1>4
  <2> QED
    BY <2>1, <2>2, <2>3
<1>6. \A s \in RoomId : \A i \in 1..Len(longer[s]) :
        i \in 1..Len(queues[s]) \/ (s = r /\ i = Len(queues[r]) + 1)
  BY <1>1, <1>4
<1>7. \A s \in RoomId : \A i \in 1..Len(longer[s]) : after[longer[s][i]] = "sentToRoom"
  BY <1>4, <1>5, <1>6 DEF RoomsHold
<1>8. ASSUME NEW s \in RoomId, NEW t \in RoomId,
             NEW i \in 1..Len(longer[s]), NEW j \in 1..Len(longer[t]),
             longer[s][i] = longer[t][j]
      PROVE  s = t /\ i = j
  <2>1. CASE i \in 1..Len(queues[s]) /\ j \in 1..Len(queues[t])
    <3>1. queues[s][i] = queues[t][j]
      BY <1>5, <1>8, <2>1
    <3> QED
      BY <2>1, <3>1 DEF RoomsHold
  <2>2. CASE i \notin 1..Len(queues[s]) /\ j \in 1..Len(queues[t])
    BY <1>4, <1>5, <1>6, <1>8, <2>2
  <2>3. CASE i \in 1..Len(queues[s]) /\ j \notin 1..Len(queues[t])
    BY <1>4, <1>5, <1>6, <1>8, <2>3
  <2>4. CASE i \notin 1..Len(queues[s]) /\ j \notin 1..Len(queues[t])
    BY <1>6, <2>4
  <2> QED
    BY <2>1, <2>2, <2>3, <2>4
<1>9. ASSUME NEW d \in Client, after[d] = "sentToRoom"
      PROVE  \E s \in RoomId : \E i \in 1..Len(longer[s]) : longer[s][i] = d
  <2>1. CASE d = c
    <3>1. Len(queues[r]) + 1 \in 1..Len(longer[r])
      BY <1>4
    <3> QED
      BY <1>4, <2>1, <3>1
  <2>2. CASE d # c
    <3>1. PICK s \in RoomId : \E i \in 1..Len(queues[s]) : queues[s][i] = d
      BY <1>9, <2>2 DEF RoomsHold
    <3> QED
      BY <1>5, <3>1
  <2> QED
    BY <2>1, <2>2
<1> QED
  BY <1>7, <1>8, <1>9 DEF RoomsHold

\* A room takes the client at the head of its channel.
LEMMA TakenByOne ==
  ASSUME NEW queues \in [RoomId -> Seq(Client)],
         NEW where \in [Client -> ClientPlace], RoomsHold(queues, where),
         NEW r \in RoomId, queues[r] # <<>>,
         NEW after \in [Client -> ClientPlace], after[Head(queues[r])] # "sentToRoom",
         \A d \in Client : d # Head(queues[r]) => after[d] = where[d],
         NEW shorter, shorter = [queues EXCEPT ![r] = Tail(queues[r])]
  PROVE  RoomsHold(shorter, after)
<1> DEFINE c == Head(queues[r])
           from(s, i) == IF s = r THEN i + 1 ELSE i
<1>1. \A s \in RoomId : s # r => shorter[s] = queues[s]
  OBVIOUS
<1>2. shorter[r] = Tail(queues[r]) /\ queues[r] \in Seq(Client)
  OBVIOUS
<1>3. /\ Len(queues[r]) \in Nat \ {0} /\ Len(shorter[r]) = Len(queues[r]) - 1
      /\ \A i \in 1..Len(shorter[r]) : shorter[r][i] = queues[r][i + 1]
      /\ c = queues[r][1] /\ 1 \in 1..Len(queues[r])
  BY <1>2
<1> HIDE DEF c
<1>4. \A s \in RoomId : \A i \in 1..Len(shorter[s]) :
        from(s, i) \in 1..Len(queues[s]) /\ shorter[s][i] = queues[s][from(s, i)]
  <2> SUFFICES ASSUME NEW s \in RoomId, NEW i \in 1..Len(shorter[s])
               PROVE  from(s, i) \in 1..Len(queues[s])
                        /\ shorter[s][i] = queues[s][from(s, i)]
    OBVIOUS
  <2>1. CASE s = r
    BY <1>3, <2>1
  <2>2. CASE s # r
    BY <1>1, <2>2
  <2> QED
    BY <2>1, <2>2
<1> HIDE DEF from
<1>5. ASSUME NEW s \in RoomId, NEW i \in 1..Len(shorter[s])
      PROVE  shorter[s][i] # c /\ shorter[s][i] \in Client
  <2>1. from(s, i) \in 1..Len(queues[s]) /\ shorter[s][i] = queues[s][from(s, i)]
    BY <1>4
  <2>2. shorter[s][i] = c => s = r /\ from(s, i) = 1
    <3> SUFFICES ASSUME shorter[s][i] = c PROVE s = r /\ from(s, i) = 1
      OBVIOUS
    <3>1. queues[s][from(s, i)] = queues[r][1]
      BY <1>3, <2>1
    <3> QED
      BY <1>3, <2>1, <3>1 DEF RoomsHold
  <2>3. s = r => from(s, i) # 1
    BY DEF from
  <2>4. queues[s] \in Seq(Client)
    OBVIOUS
  <2> QED
    BY <2>1, <2>2, <2>3, <2>4
<1>6. ASSUME NEW s \in RoomId, NEW i \in 1..Len(shorter[s])
      PROVE  after[shorter[s][i]] = "sentToRoom"
  <2>1. where[shorter[s][i]] = "sentToRoom"
    <3>1. from(s, i) \in 1..Len(queues[s]) /\ shorter[s][i] = queues[s][from(s, i)]
      BY <1>4
    <3> QED
      BY <3>1 DEF RoomsHold
  <2>2. shorter[s][i] # c /\ shorter[s][i] \in Client
    BY <1>5
  <2>3. \A d \in Client : d # c => after[d] = where[d]
    BY DEF c
  <2> QED
    BY <2>1, <2>2, <2>3
<1>7. ASSUME NEW s \in RoomId, NEW t \in RoomId,
             NEW i \in 1..Len(shorter[s]), NEW j \in 1..Len(shorter[t]),
             shorter[s][i] = shorter[t][j]
      PROVE  s = t /\ i = j
  <2>1. s = t /\ from(s, i) = from(t, j)
    <3>1. queues[s][from(s, i)] = queues[t][from(t, j)]
      BY <1>4, <1>7
    <3> QED
      BY <1>4, <3>1 DEF RoomsHold
  <2> QED
    BY <2>1 DEF from
<1>8. ASSUME NEW d \in Client, after[d] = "sentToRoom"
      PROVE  \E s \in RoomId : \E i \in 1..Len(shorter[s]) : shorter[s][i] = d
  <2>1. d # c /\ where[d] = "sentToRoom"
    BY <1>8 DEF c
  <2>2. PICK s \in RoomId : \E i \in 1..Len(queues[s]) : queues[s][i] = d
    BY <2>1 DEF RoomsHold
  <2>3. PICK i \in 1..Len(queues[s]) : queues[s][i] = d
    BY <2>2
  <2>4. CASE s = r
    <3>1. i # 1
      BY <1>3, <2>1, <2>3, <2>4
    <3>2. i - 1 \in 1..Len(shorter[r])
      BY <1>3, <2>3, <2>4, <3>1
    <3>3. shorter[r][i - 1] = queues[r][(i - 1) + 1] /\ (i - 1) + 1 = i
      BY <1>3, <3>2
    <3> QED
      BY <2>3, <2>4, <3>2, <3>3
  <2>5. CASE s # r
    BY <1>1, <2>3, <2>5
  <2> QED
    BY <2>4, <2>5
<1> QED
  BY <1>6, <1>7, <1>8 DEF RoomsHold

\* A room's channel is dropped with what is in it.
LEMMA DroppedByOne ==
  ASSUME NEW queues \in [RoomId -> Seq(Client)],
         NEW where \in [Client -> ClientPlace], RoomsHold(queues, where), NEW r \in RoomId,
         NEW rest, rest = [queues EXCEPT ![r] = <<>>],
         NEW after,
         after = [c \in Client |-> IF c \in ToSet(queues[r]) THEN "gone" ELSE where[c]]
  PROVE  RoomsHold(rest, after)
<1>1. \A s \in RoomId : s # r => rest[s] = queues[s]
  OBVIOUS
<1>2. Len(rest[r]) = 0
  OBVIOUS
<1>3. \A s \in RoomId : \A i \in 1..Len(rest[s]) : s # r /\ rest[s][i] = queues[s][i]
                                                     /\ i \in 1..Len(queues[s])
  BY <1>1, <1>2
<1>4. \A s \in RoomId : \A i \in 1..Len(rest[s]) :
        rest[s][i] \notin ToSet(queues[r]) /\ rest[s][i] \in Client
  <2> SUFFICES ASSUME NEW s \in RoomId, NEW i \in 1..Len(rest[s])
               PROVE  rest[s][i] \notin ToSet(queues[r]) /\ rest[s][i] \in Client
    OBVIOUS
  <2>1. queues[s] \in Seq(Client)
    OBVIOUS
  <2> QED
    BY <1>3, <2>1 DEF RoomsHold, ToSet
<1>5. \A s \in RoomId : \A i \in 1..Len(rest[s]) : after[rest[s][i]] = "sentToRoom"
  BY <1>3, <1>4 DEF RoomsHold
<1>6. \A s, t \in RoomId : \A i \in 1..Len(rest[s]), j \in 1..Len(rest[t]) :
        rest[s][i] = rest[t][j] => s = t /\ i = j
  BY <1>3 DEF RoomsHold
<1>7. ASSUME NEW d \in Client, after[d] = "sentToRoom"
      PROVE  \E s \in RoomId : \E i \in 1..Len(rest[s]) : rest[s][i] = d
  <2>1. d \notin ToSet(queues[r]) /\ where[d] = "sentToRoom"
    BY <1>7
  <2>2. PICK s \in RoomId : \E i \in 1..Len(queues[s]) : queues[s][i] = d
    BY <2>1 DEF RoomsHold
  <2>3. s # r
    BY <2>1, <2>2 DEF ToSet
  <2> QED
    BY <1>1, <2>2, <2>3
<1> QED
  BY <1>5, <1>6, <1>7 DEF RoomsHold
-----------------------------------------------------------------------------
(* What a step leaves as it was.                                           *)

LEMMA PlacesTyped ==
  ASSUME LobbyTypeInv
  PROVE  /\ at \in [Client -> ClientPlace] /\ handleOf \in [Client -> HandleId \cup {NoHandle}]
         /\ connections \in Seq(Client) /\ requests \in Seq(Client)
         /\ newClients \in [RoomId -> Seq(Client)]
         /\ joinQueue \in [HandleId -> Client \cup {NoClient}]
BY DEF LobbyTypeInv, LobbyTypeOK, LobbyTaskTypeOK, QueueTypeOK, ClientTypeOK, RoomTypeOK

LEMMA NextPlacesTyped ==
  ASSUME LobbyTypeInv'
  PROVE  at' \in [Client -> ClientPlace]
BY DEF LobbyTypeInv, LobbyTypeOK, ClientTypeOK

LEMMA QueueKept ==
  ASSUME QueueRight, LobbyIsUp' => LobbyIsUp, UNCHANGED <<joinQueue, handleOf>>,
         \A d \in Client : Joins(at', d) <=> Joins(at, d)
  PROVE  QueueRight'
BY DEF QueueRight, QueueNames

LEMMA ConnectionsKept ==
  ASSUME LobbyTypeInv, ConnectionsHeld, UNCHANGED connections,
         \A d \in Client : at'[d] = "queued" <=> at[d] = "queued"
  PROVE  ConnectionsHeld'
BY PlacesTyped, NotMoved DEF ConnectionsHeld

LEMMA RequestsKept ==
  ASSUME LobbyTypeInv, RequestsHeld, UNCHANGED requests,
         \A d \in Client : at'[d] = "asked" <=> at[d] = "asked"
  PROVE  RequestsHeld'
BY PlacesTyped, NotMoved DEF RequestsHeld

LEMMA SentKept ==
  ASSUME LobbyTypeInv, SentHeld, UNCHANGED newClients,
         \A d \in Client : at'[d] = "sentToRoom" <=> at[d] = "sentToRoom"
  PROVE  SentHeld'
BY PlacesTyped, SentNotMoved DEF SentHeld

\* A client goes from one of these places to another: no channel, no handle.
Outside == {"away", "handshake", "sending", "inRoom", "closing", "gone"}

LEMMA OutsideKept ==
  ASSUME PlaceInv, LobbyIsUp' => LobbyIsUp, NEW c \in Client,
         at[c] \in Outside, at'[c] \in Outside,
         \A d \in Client : d # c => at'[d] = at[d],
         UNCHANGED <<connections, requests, newClients, joinQueue, handleOf>>
  PROVE  ConnectionsHeld' /\ RequestsHeld' /\ SentHeld' /\ QueueRight'
<1> USE DEF PlaceInv, Held, Outside
<1>1. ConnectionsHeld'
  BY ConnectionsKept
<1>2. RequestsHeld'
  BY RequestsKept
<1>3. SentHeld'
  BY SentKept
<1>4. QueueRight'
  BY QueueKept DEF Joins
<1> QED
  BY <1>1, <1>2, <1>3, <1>4

\* Steps that move no client and end no room.
LEMMA NobodyMoves ==
  ASSUME PlaceInv, LobbyTypeInv', LobbyIsUp' => LobbyIsUp,
         UNCHANGED <<at, handleOf, connections, requests, newClients, joinQueue>>,
         \A r \in RoomId : Running(r)' <=> Running(r)
  PROVE  Held' /\ QueueRight'
<1>1. Held'
  BY ConnectionsKept, RequestsKept, SentKept DEF PlaceInv, Held, OnlyRunningHold
<1>2. QueueRight'
  BY QueueKept DEF PlaceInv
<1> QED
  BY <1>1, <1>2
-----------------------------------------------------------------------------
LEMMA PlaceInit == Init => PlaceInv
<1> SUFFICES ASSUME Init PROVE PlaceInv
  OBVIOUS
<1>1. LobbyTypeInv
  BY LobbyInitTypes
<1>2. Held
  BY DEF Init, Held, ConnectionsHeld, RequestsHeld, SentHeld, InChannel, RoomsHold,
         OnlyRunningHold
<1>3. QueueRight
  BY NameAssumption DEF Init, QueueRight, QueueNames, Joins
<1>4. WoundDown
  BY DEF Init, WoundDown, RequestsOver, RoomsOver, ClientsOver, AcceptsOver, LobbyOver
<1> QED
  BY <1>1, <1>2, <1>3, <1>4 DEF PlaceInv
-----------------------------------------------------------------------------
(* The lobby's steps.                                                      *)

LEMMA NewConnectionKeepsPlaces ==
  ASSUME PlaceInv, LobbyTypeInv', NewConnection
  PROVE  PlaceInv'
<1> DEFINE c == Head(connections)
<1>1. connections # <<>> /\ connections' = Tail(connections) /\ c \in Client
  BY PlacesTyped, TailOfSeq DEF NewConnection, PlaceInv
<1>2. PICK h \in HandleId :
        /\ FreshHandle(h)
        /\ joinQueue' = [joinQueue EXCEPT ![h] = c]
        /\ handleOf' = [handleOf EXCEPT ![c] = h]
        /\ at' = [at EXCEPT ![c] = "joining"]
  BY DEF NewConnection
<1>3. at[c] = "queued"
  BY <1>1, PlacesTyped DEF PlaceInv, Held, ConnectionsHeld, InChannel
<1>4. UNCHANGED <<lpc, requests, newClients, phase, spc>> /\ lpc = "select"
  BY DEF NewConnection, roomVars, serverVars
<1>5. \A d \in Client : at'[d] = IF d = c THEN "joining" ELSE at[d]
  BY <1>2, PlacesTyped DEF PlaceInv
<1>6. ConnectionsHeld'
  BY <1>1, <1>5, PlacesTyped, NextPlacesTyped, Received
  DEF PlaceInv, Held, ConnectionsHeld
<1>7. RequestsHeld' /\ SentHeld'
  BY <1>3, <1>4, <1>5, RequestsKept, SentKept DEF PlaceInv, Held
<1>8. QueueRight'
  <2>1. QueueNames(joinQueue, at, handleOf) /\ ~Joins(at, c)
    BY <1>3, <1>4 DEF PlaceInv, QueueRight, LobbyIsUp, Joins
  <2>2. joinQueue[h] = NoClient
    BY <1>2 DEF FreshHandle, Waiting
  <2>3. \A j \in HandleId : joinQueue'[j] = IF j = h THEN c ELSE joinQueue[j]
    BY <1>2, PlacesTyped DEF PlaceInv
  <2>4. \A d \in Client : handleOf'[d] = IF d = c THEN h ELSE handleOf[d]
    BY <1>2, PlacesTyped DEF PlaceInv
  <2>5. \A d \in Client : Joins(at', d) <=> d = c \/ Joins(at, d)
    BY <1>5 DEF Joins
  <2> HIDE DEF c
  <2>6. ASSUME NEW d \in Client
        PROVE  /\ Joins(at', d) => handleOf'[d] \in HandleId
               /\ \A j \in HandleId : joinQueue'[j] = d <=> Joins(at', d) /\ handleOf'[d] = j
    <3>1. CASE d = c
      BY <2>1, <2>3, <2>4, <2>5, <3>1 DEF QueueNames
    <3>2. CASE d # c
      BY <2>1, <2>2, <2>3, <2>4, <2>5, <3>2, NameAssumption DEF QueueNames
    <3> QED
      BY <3>1, <3>2
  <2> QED
    BY <2>6 DEF QueueRight, QueueNames
<1>9. WoundDown'
  BY <1>3, <1>4, <1>5 DEF PlaceInv, WoundDown, RequestsOver, RoomsOver, ClientsOver,
                          AcceptsOver, Accepting, LobbyOver
<1> QED
  BY <1>4, <1>6, <1>7, <1>8, <1>9 DEF PlaceInv, Held, OnlyRunningHold, Running

LEMMA RefuseConnectionKeepsPlaces ==
  ASSUME PlaceInv, LobbyTypeInv', RefuseConnection
  PROVE  PlaceInv'
<1> DEFINE c == Head(connections)
<1>1. connections # <<>> /\ connections' = Tail(connections) /\ c \in Client
  BY PlacesTyped, TailOfSeq DEF RefuseConnection, PlaceInv
<1>2. at[c] = "queued"
  BY <1>1, PlacesTyped DEF PlaceInv, Held, ConnectionsHeld, InChannel
<1>3. UNCHANGED <<lpc, joinQueue, handleOf, requests, newClients, phase, spc>>
      /\ lpc = "select"
  BY DEF RefuseConnection, lobbyVars, roomVars, serverVars
<1>4. \A d \in Client : at'[d] = IF d = c THEN "closing" ELSE at[d]
  BY PlacesTyped DEF PlaceInv, RefuseConnection
<1>5. ConnectionsHeld'
  BY <1>1, <1>4, PlacesTyped, NextPlacesTyped, Received
  DEF PlaceInv, Held, ConnectionsHeld
<1>6. RequestsHeld' /\ SentHeld'
  BY <1>2, <1>3, <1>4, RequestsKept, SentKept DEF PlaceInv, Held
<1>7. QueueRight'
  BY <1>2, <1>3, <1>4, QueueKept DEF PlaceInv, Joins, LobbyIsUp
<1>8. WoundDown'
  BY <1>2, <1>3, <1>4 DEF PlaceInv, WoundDown, RequestsOver, RoomsOver, ClientsOver,
                          AcceptsOver, Accepting, LobbyOver
<1> QED
  BY <1>3, <1>5, <1>6, <1>7, <1>8 DEF PlaceInv, Held, OnlyRunningHold, Running

\* The lobby goes on to serve, or hears the signal: nothing is over that was not.
LEMMA NothingOver ==
  ASSUME PlaceInv, LobbyIsUp, lpc' \in {"select", "awaitRoom", "drainRequests"},
         UNCHANGED spc, Accepting' \subseteq Accepting
  PROVE  WoundDown'
BY DEF PlaceInv, LobbyIsUp, WoundDown, RequestsOver, RoomsOver, ClientsOver, AcceptsOver,
       LobbyOver

\* A request is taken: its client leaves the queue.
LEMMA RequestTaken ==
  ASSUME PlaceInv, LobbyTypeInv', NEW kind, TakeRequest(kind), UNCHANGED <<lpc, connections>>,
         NEW place \in {"inRoom", "sentToRoom", "closing", "gone"},
         at' = [at EXCEPT ![Head(requests)] = place]
  PROVE  /\ Head(requests) \in Client /\ at[Head(requests)] = "asked"
         /\ \A d \in Client : at'[d] = IF d = Head(requests) THEN place ELSE at[d]
         /\ ConnectionsHeld' /\ RequestsHeld' /\ QueueRight'
         /\ UNCHANGED spc => WoundDown'
<1> DEFINE c == Head(requests)
<1>1. requests # <<>> /\ requests' = Tail(requests) /\ c \in Client /\ LobbyIsUp
  BY PlacesTyped, TailOfSeq DEF TakeRequest, RequestDone, PlaceInv, LobbyIsUp
<1>2. at[c] = "asked"
  BY <1>1, PlacesTyped DEF PlaceInv, Held, RequestsHeld, InChannel
<1>3. \A d \in Client : at'[d] = IF d = c THEN place ELSE at[d]
  BY PlacesTyped DEF PlaceInv
<1>4. ConnectionsHeld'
  BY <1>2, <1>3, ConnectionsKept DEF PlaceInv, Held
<1>5. RequestsHeld'
  BY <1>1, <1>3, PlacesTyped, NextPlacesTyped, Received DEF PlaceInv, Held, RequestsHeld
<1>6. QueueRight'
  <2>1. QueueNames(joinQueue, at, handleOf) /\ Joins(at, c)
    BY <1>1, <1>2 DEF PlaceInv, QueueRight, Joins
  <2>2. PICK h \in HandleId : h = handleOf[c]
    BY <1>1, <2>1 DEF QueueNames
  <2>3. \A j \in HandleId : joinQueue'[j] = IF j = h THEN NoClient ELSE joinQueue[j]
    BY <2>2, PlacesTyped DEF TakeRequest, Dequeued, PlaceInv
  <2>4. \A d \in Client : d # c => handleOf'[d] = handleOf[d]
    BY PlacesTyped DEF TakeRequest, RequestDone, PlaceInv
  <2>5. \A d \in Client : Joins(at', d) <=> d # c /\ Joins(at, d)
    BY <1>3 DEF Joins
  <2> HIDE DEF c
  <2>6. joinQueue[h] = c
    BY <1>1, <2>1, <2>2 DEF QueueNames
  <2>7. ASSUME NEW d \in Client, Joins(at', d) PROVE handleOf'[d] \in HandleId
    BY <2>1, <2>4, <2>5, <2>7 DEF QueueNames
  <2>8. ASSUME NEW d \in Client, NEW j \in HandleId
        PROVE  joinQueue'[j] = d <=> Joins(at', d) /\ handleOf'[d] = j
    <3>1. joinQueue[j] = d <=> Joins(at, d) /\ handleOf[d] = j
      BY <2>1 DEF QueueNames
    <3>2. CASE d = c
      BY <2>2, <2>3, <2>5, <3>1, <3>2, NameAssumption
    <3>3. CASE d # c
      BY <2>3, <2>4, <2>5, <2>6, <3>1, <3>3, NameAssumption
    <3> QED
      BY <3>2, <3>3
  <2> QED
    BY <2>7, <2>8 DEF QueueRight, QueueNames
<1>7. UNCHANGED spc => WoundDown'
  BY <1>1, <1>2, <1>3, NothingOver DEF Accepting, LobbyIsUp, TakeRequest
<1> QED
  BY <1>1, <1>2, <1>3, <1>4, <1>5, <1>6, <1>7

LEMMA HostRoomKeepsPlaces ==
  ASSUME PlaceInv, LobbyTypeInv', HostRoom
  PROVE  PlaceInv'
<1>1. /\ at[Head(requests)] = "asked"
      /\ \A d \in Client : at'[d] = IF d = Head(requests) THEN "inRoom" ELSE at[d]
      /\ ConnectionsHeld' /\ RequestsHeld' /\ QueueRight' /\ WoundDown'
  BY RequestTaken DEF HostRoom, serverVars
<1>2. SentHeld'
  BY <1>1, SentKept DEF HostRoom, PlaceInv, Held
<1>3. OnlyRunningHold'
  <2>1. PICK r \in RoomId : phase[r] = "none" /\ phase' = [phase EXCEPT ![r] = "open"]
    BY DEF HostRoom
  <2>2. \A s \in RoomId : Running(s) => Running(s)'
    BY <2>1 DEF Running, PlaceInv, LobbyTypeInv, LobbyTypeOK, RoomTypeOK
  <2> QED
    BY <2>2 DEF HostRoom, OnlyRunningHold, PlaceInv, Held
<1> QED
  BY <1>1, <1>2, <1>3 DEF PlaceInv, Held

LEMMA SendToRoomKeepsPlaces ==
  ASSUME PlaceInv, LobbyTypeInv', SendToRoom
  PROVE  PlaceInv'
<1> DEFINE c == Head(requests)
           r == roomMap[ask[c].code]
<1>1. /\ c \in Client /\ at[c] = "asked"
      /\ \A d \in Client : at'[d] = IF d = c THEN "sentToRoom" ELSE at[d]
      /\ ConnectionsHeld' /\ RequestsHeld' /\ QueueRight' /\ WoundDown'
  BY RequestTaken DEF SendToRoom, serverVars
<1>2. r \in RoomId /\ Running(r)
  <2>1. ask[c] \in LobbyCommand /\ ask[c].kind = "join"
    BY <1>1 DEF SendToRoom, TakeRequest, PlaceInv, LobbyTypeInv, LobbyTypeOK, ClientTypeOK,
                NoCommand
  <2>2. ask[c].code \in RoomCode
    BY <2>1 DEF LobbyCommand
  <2> QED
    BY <2>2 DEF SendToRoom, TakesClients, PlaceInv, LobbyTypeInv, LobbyTypeOK,
                LobbyTaskTypeOK
<1>3. newClients' = [newClients EXCEPT ![r] = Append(newClients[r], c)]
  BY DEF SendToRoom
<1> HIDE DEF c, r
<1>4. SentHeld'
  BY <1>1, <1>2, <1>3, PlacesTyped, NextPlacesTyped, SentToOne DEF PlaceInv, Held, SentHeld
<1>5. OnlyRunningHold'
  <2>1. \A s \in RoomId : s # r => newClients'[s] = newClients[s]
    BY <1>3, PlacesTyped DEF PlaceInv
  <2> QED
    BY <1>2, <2>1 DEF SendToRoom, OnlyRunningHold, Running, PlaceInv, Held
<1> QED
  BY <1>1, <1>4, <1>5 DEF PlaceInv, Held

LEMMA TurnedAwayKeepsPlaces ==
  ASSUME PlaceInv, LobbyTypeInv', RefuseRequest \/ DropClient
  PROVE  PlaceInv'
<1>1. UNCHANGED <<lpc, connections, newClients, phase, spc>>
  BY DEF RefuseRequest, DropClient, roomVars, serverVars
<1>2. PICK kind : TakeRequest(kind)
  BY DEF RefuseRequest, DropClient
<1>3. PICK place \in {"closing", "gone"} : at' = [at EXCEPT ![Head(requests)] = place]
  BY DEF RefuseRequest, DropClient
<1>4. /\ at[Head(requests)] = "asked"
      /\ \A d \in Client : at'[d] = IF d = Head(requests) THEN place ELSE at[d]
      /\ ConnectionsHeld' /\ RequestsHeld' /\ QueueRight' /\ WoundDown'
  BY <1>1, <1>2, <1>3, RequestTaken
<1>5. SentHeld'
  BY <1>1, <1>4, SentKept DEF PlaceInv, Held
<1> QED
  BY <1>1, <1>4, <1>5 DEF PlaceInv, Held, OnlyRunningHold, Running

LEMMA LobbyAloneKeepsPlaces ==
  ASSUME PlaceInv, LobbyTypeInv',
         RecvSeal \/ RecvClose \/ RoomAwaited \/ Reconfigure \/ LobbyHearsShutdown
  PROVE  PlaceInv'
<1> USE DEF RecvSeal, RecvClose, TakeControl, RoomAwaited, Reconfigure, LobbyHearsShutdown
<1>1. UNCHANGED <<at, handleOf, connections, requests, newClients, joinQueue, phase, spc>>
  BY DEF queueVars, clientVars, roomVars, serverVars
<1>2. LobbyIsUp /\ lpc' \in {"select", "awaitRoom", "drainRequests"}
  BY DEF LobbyIsUp
<1>3. Held' /\ QueueRight'
  BY <1>1, <1>2, NobodyMoves DEF Running
<1>4. WoundDown'
  BY <1>1, <1>2, NothingOver DEF Accepting
<1> QED
  BY <1>3, <1>4 DEF PlaceInv
-----------------------------------------------------------------------------
(* The lobby winds down.                                                   *)

LEMMA DrainRequestsKeepsPlaces ==
  ASSUME PlaceInv, LobbyTypeInv', DrainRequests
  PROVE  PlaceInv'
<1>1. UNCHANGED <<joinQueue, connections, newClients, phase, spc>> /\ lpc = "drainRequests"
  BY DEF DrainRequests, roomVars, serverVars
<1>2. ~LobbyIsUp'
  BY DEF DrainRequests, LobbyIsUp
<1>3. CASE requests # <<>> /\ RequestDone(Head(requests)) /\ UNCHANGED lpc
           /\ at' = [at EXCEPT ![Head(requests)] = "gone"]
  <2> DEFINE c == Head(requests)
  <2>1. requests' = Tail(requests) /\ c \in Client
    BY <1>3, PlacesTyped, TailOfSeq DEF RequestDone, PlaceInv
  <2>2. at[c] = "asked"
    BY <1>3, PlacesTyped DEF PlaceInv, Held, RequestsHeld, InChannel
  <2>3. \A d \in Client : at'[d] = IF d = c THEN "gone" ELSE at[d]
    BY <1>3, PlacesTyped DEF PlaceInv
  <2>4. ConnectionsHeld' /\ SentHeld'
    BY <1>1, <2>2, <2>3, ConnectionsKept, SentKept DEF PlaceInv, Held
  <2>5. RequestsHeld'
    BY <1>3, <2>1, <2>3, PlacesTyped, NextPlacesTyped, Received
    DEF PlaceInv, Held, RequestsHeld
  <2>6. WoundDown'
    BY <1>1, <1>3, <2>2, <2>3 DEF PlaceInv, WoundDown, RequestsOver, RoomsOver, ClientsOver,
                                  AcceptsOver, Accepting, LobbyOver
  <2> QED
    BY <1>1, <1>2, <2>4, <2>5, <2>6
    DEF PlaceInv, Held, OnlyRunningHold, Running, QueueRight
<1>4. CASE Drained(requests, JoinTasks) /\ lpc' = "drainControls"
           /\ UNCHANGED <<requests, clientVars>>
  <2>1. Held' /\ QueueRight'
    BY <1>1, <1>2, <1>4, NobodyMoves DEF clientVars, Running
  <2>2. WoundDown'
    BY <1>1, <1>4 DEF PlaceInv, WoundDown, RequestsOver, RoomsOver, ClientsOver,
                      AcceptsOver, Accepting, LobbyOver, Drained, JoinTasks, clientVars
  <2> QED
    BY <2>1, <2>2 DEF PlaceInv
<1> QED
  BY <1>3, <1>4 DEF DrainRequests

LEMMA DrainControlsKeepsPlaces ==
  ASSUME PlaceInv, LobbyTypeInv', DrainControls
  PROVE  PlaceInv'
<1>1. UNCHANGED <<joinQueue, connections, requests, at, handleOf, newClients, phase, spc>>
      /\ lpc = "drainControls"
  BY DEF DrainControls, clientVars, roomVars, serverVars
<1>2. lpc' = "drainControls"
        \/ (lpc' = "joinTasks" /\ \A r \in RoomId : ~Running(r))
  BY <1>1 DEF DrainControls, Drained
<1>3. Held' /\ QueueRight'
  BY <1>1, <1>2, NobodyMoves DEF LobbyIsUp, Running
<1>4. WoundDown'
  BY <1>1, <1>2 DEF PlaceInv, WoundDown, RequestsOver, RoomsOver, ClientsOver, AcceptsOver,
                    Accepting, LobbyOver, JoinTasks, Running
<1> QED
  BY <1>3, <1>4 DEF PlaceInv

LEMMA LobbyStopsKeepsPlaces ==
  ASSUME PlaceInv, LobbyTypeInv', LobbyStops
  PROVE  PlaceInv'
<1>1. /\ UNCHANGED <<joinQueue, requests, handleOf, newClients, phase, spc>>
      /\ lpc = "joinTasks" /\ lpc' = "done" /\ connections' = <<>>
      /\ \A c \in Client : at[c] # "closing"
  BY DEF LobbyStops, roomVars, serverVars
<1>2. \A c \in Client : at'[c] = IF at[c] = "queued" THEN "gone" ELSE at[c]
  BY DEF LobbyStops
<1>3. ConnectionsHeld'
  BY <1>1, <1>2 DEF ConnectionsHeld, InChannel
<1>4. RequestsHeld' /\ SentHeld'
  BY <1>1, <1>2, RequestsKept, SentKept DEF PlaceInv, Held
<1>5. WoundDown'
  BY <1>1, <1>2 DEF PlaceInv, WoundDown, RequestsOver, RoomsOver, ClientsOver, AcceptsOver,
                    Accepting, LobbyOver, JoinTasks, Running
<1> QED
  BY <1>1, <1>3, <1>4, <1>5
  DEF PlaceInv, Held, OnlyRunningHold, Running, QueueRight, LobbyIsUp
-----------------------------------------------------------------------------
(* The clients' and the server's steps.                                    *)

LEMMA AsideKeepsPlaces ==
  ASSUME PlaceInv, LobbyTypeInv', NEW c \in Client,
         \/ Accept(c) \/ ConnectionFails(c) \/ AcceptEnds(c)
         \/ SendCloseDone(c) \/ LeavesRoom(c)
  PROVE  PlaceInv'
<1> USE DEF Accept, ConnectionFails, AcceptEnds, HandshakeOver, SendCloseDone, LeavesRoom
<1>1. UNCHANGED <<connections, requests, newClients, joinQueue, handleOf, lpc, phase, spc>>
  BY DEF lobbyVars, queueVars, roomVars, serverVars
<1>2. PICK place \in {"handshake", "gone"} : at' = [at EXCEPT ![c] = place]
  OBVIOUS
<1>3. at[c] \in {"away", "handshake", "sending", "inRoom", "closing"}
        /\ (place = "handshake" => spc = "listen")
  <2>1. at'[c] = place
    BY <1>2, PlacesTyped DEF PlaceInv
  <2>2. at[c] \in {"away", "handshake", "sending", "inRoom", "closing"}
    OBVIOUS
  <2>3. place = "handshake" => spc = "listen"
    BY <2>1, PlacesTyped DEF PlaceInv
  <2> QED
    BY <2>2, <2>3
<1>4. \A d \in Client : at'[d] = IF d = c THEN place ELSE at[d]
  BY <1>2, PlacesTyped DEF PlaceInv
<1>5. ConnectionsHeld' /\ RequestsHeld' /\ SentHeld' /\ QueueRight'
  BY <1>1, <1>3, <1>4, OutsideKept DEF Outside, LobbyIsUp
<1>6. WoundDown'
  <2>1. RequestsOver'
    BY <1>1, <1>4 DEF PlaceInv, WoundDown, RequestsOver, JoinTasks
  <2>2. (RoomsOver /\ ClientsOver /\ LobbyOver)'
    BY <1>1, <1>4 DEF PlaceInv, WoundDown, RoomsOver, ClientsOver, LobbyOver, Running
  <2>3. AcceptsOver'
    BY <1>1, <1>3, <1>4 DEF PlaceInv, WoundDown, AcceptsOver, Accepting
  <2> QED
    BY <2>1, <2>2, <2>3 DEF WoundDown
<1> QED
  BY <1>1, <1>5, <1>6 DEF PlaceInv, Held, OnlyRunningHold, Running

LEMMA ConnectsKeepsPlaces ==
  ASSUME PlaceInv, LobbyTypeInv', NEW c \in Client, Established(c) \/ UnblockConnection(c)
  PROVE  PlaceInv'
<1> USE DEF Established, HandshakeOver, UnblockConnection
<1>1. UNCHANGED <<requests, newClients, joinQueue, handleOf, lpc, phase, spc>>
      /\ lpc # "done" /\ at[c] \in {"handshake", "sending"}
  BY DEF lobbyVars, roomVars, serverVars
<1>2. \/ /\ connections' = Append(connections, c)
         /\ \A d \in Client : at'[d] = IF d = c THEN "queued" ELSE at[d]
      \/ /\ UNCHANGED connections
         /\ \A d \in Client : at'[d] = IF d = c THEN "sending" ELSE at[d]
  BY PlacesTyped DEF PlaceInv
<1>3. ConnectionsHeld'
  <2>1. CASE UNCHANGED connections /\ \A d \in Client : at'[d] = IF d = c THEN "sending" ELSE at[d]
    BY <1>1, <2>1, ConnectionsKept DEF PlaceInv, Held
  <2>2. CASE /\ connections' = Append(connections, c)
             /\ \A d \in Client : at'[d] = IF d = c THEN "queued" ELSE at[d]
    <3>1. InChannel(connections, at, "queued") /\ at[c] # "queued"
      BY <1>1 DEF PlaceInv, Held, ConnectionsHeld
    <3>2. InChannel(Append(connections, c), at', "queued")
      BY <2>2, <3>1, PlacesTyped, NextPlacesTyped, Sent DEF PlaceInv
    <3> QED
      BY <2>2, <3>2 DEF ConnectionsHeld
  <2> QED
    BY <1>2, <2>1, <2>2
<1>4. RequestsHeld' /\ SentHeld' /\ QueueRight'
  BY <1>1, <1>2, RequestsKept, SentKept, QueueKept DEF PlaceInv, Held, Joins, LobbyIsUp
<1>5. WoundDown'
  <2>1. RequestsOver'
    BY <1>1, <1>2 DEF PlaceInv, WoundDown, RequestsOver, JoinTasks
  <2>2. (RoomsOver /\ ClientsOver /\ LobbyOver)'
    BY <1>1 DEF PlaceInv, WoundDown, RoomsOver, ClientsOver, LobbyOver, Running
  <2>3. AcceptsOver'
    BY <1>1, <1>2 DEF PlaceInv, WoundDown, AcceptsOver, Accepting
  <2> QED
    BY <2>1, <2>2, <2>3 DEF WoundDown
<1> QED
  BY <1>1, <1>3, <1>4, <1>5 DEF PlaceInv, Held, OnlyRunningHold, Running

LEMMA AsksKeepsPlaces ==
  ASSUME PlaceInv, LobbyTypeInv', NEW c \in Client,
         (\E command : PostRequest(c, command)) \/ UnblockRequest(c)
  PROVE  PlaceInv'
<1> USE DEF PostRequest, UnblockRequest
<1>1. UNCHANGED <<connections, newClients, joinQueue, handleOf, lpc, phase, spc>>
      /\ at[c] \in {"joining", "asking"}
  BY DEF lobbyVars, roomVars, serverVars
<1>2. \/ /\ requests' = Append(requests, c)
         /\ \A d \in Client : at'[d] = IF d = c THEN "asked" ELSE at[d]
      \/ /\ UNCHANGED requests
         /\ \A d \in Client : at'[d] = IF d = c THEN "asking" ELSE at[d]
  BY PlacesTyped DEF PlaceInv
<1>3. RequestsHeld'
  <2>1. CASE UNCHANGED requests /\ \A d \in Client : at'[d] = IF d = c THEN "asking" ELSE at[d]
    BY <1>1, <2>1, RequestsKept DEF PlaceInv, Held
  <2>2. CASE /\ requests' = Append(requests, c)
             /\ \A d \in Client : at'[d] = IF d = c THEN "asked" ELSE at[d]
    <3>1. InChannel(requests, at, "asked") /\ at[c] # "asked"
      BY <1>1 DEF PlaceInv, Held, RequestsHeld
    <3>2. InChannel(Append(requests, c), at', "asked")
      BY <2>2, <3>1, PlacesTyped, NextPlacesTyped, Sent DEF PlaceInv
    <3> QED
      BY <2>2, <3>2 DEF RequestsHeld
  <2> QED
    BY <1>2, <2>1, <2>2
<1>4. ConnectionsHeld' /\ SentHeld' /\ QueueRight'
  BY <1>1, <1>2, ConnectionsKept, SentKept, QueueKept DEF PlaceInv, Held, Joins, LobbyIsUp
<1>5. WoundDown'
  <2>1. lpc \notin {"drainControls", "joinTasks", "done"}
    BY <1>1 DEF PlaceInv, WoundDown, RequestsOver, JoinTasks
  <2>2. AcceptsOver'
    BY <1>1, <1>2 DEF PlaceInv, WoundDown, AcceptsOver, Accepting
  <2> QED
    BY <1>1, <2>1, <2>2
    DEF PlaceInv, WoundDown, RequestsOver, RoomsOver, ClientsOver, LobbyOver
<1> QED
  BY <1>1, <1>3, <1>4, <1>5 DEF PlaceInv, Held, OnlyRunningHold, Running

LEMMA ClientStepKeepsPlaces ==
  ASSUME PlaceInv, LobbyTypeInv', NEW c \in Client, ClientStep(c)
  PROVE  PlaceInv'
<1>1. CASE ClientAsks(c) \/ ClientTimesOut(c)
  BY <1>1, AsksKeepsPlaces DEF ClientAsks, ClientTimesOut
<1> QED
  BY <1>1, AsideKeepsPlaces, ConnectsKeepsPlaces, AsksKeepsPlaces DEF ClientStep

LEMMA ServerStepKeepsPlaces ==
  ASSUME PlaceInv, LobbyTypeInv', ServerStep \/ Shutdown \/ UNCHANGED lobbyAndAll
  PROVE  PlaceInv'
<1> USE DEF ServerStep, SpawnLobby, ServerHearsShutdown, AcceptsAwaited, LobbyAwaited,
            ConfigAwaited, ServerGoto, Shutdown, lobbyAndAll, lobbyVars, queueVars,
            clientVars, roomVars, serverVars
<1>1. /\ UNCHANGED <<at, handleOf, connections, requests, newClients, joinQueue, phase>>
      /\ UNCHANGED lpc \/ (lpc = "start" /\ lpc' = "select" /\ spc' = "listen")
  OBVIOUS
<1>2. Held' /\ QueueRight'
  BY <1>1, NobodyMoves DEF LobbyIsUp, Running
<1>3. (RequestsOver /\ RoomsOver /\ ClientsOver)'
  BY <1>1 DEF PlaceInv, WoundDown, RequestsOver, RoomsOver, ClientsOver, JoinTasks, Running
<1>4. (AcceptsOver /\ LobbyOver)'
  BY <1>1 DEF PlaceInv, WoundDown, AcceptsOver, Accepting, LobbyOver
<1> QED
  BY <1>2, <1>3, <1>4 DEF PlaceInv, WoundDown
-----------------------------------------------------------------------------
(* The rooms' steps.                                                       *)

LEMMA RoomGoesOnKeepsPlaces ==
  ASSUME PlaceInv, LobbyTypeInv', NEW r \in RoomId,
         RoomBeginsClosing(r) \/ RoomSeals(r) \/ RoomSwept(r)
  PROVE  PlaceInv'
<1> USE DEF RoomBeginsClosing, RoomSeals, RoomSwept, RoomGoto
<1>1. UNCHANGED <<at, handleOf, connections, requests, newClients, joinQueue, lpc, spc>>
  BY DEF lobbyVars, queueVars, clientVars, serverVars
<1>2. \A s \in RoomId : Running(s)' <=> Running(s)
  BY DEF Running, PlaceInv, LobbyTypeInv, LobbyTypeOK, RoomTypeOK
<1>3. Held' /\ QueueRight'
  BY <1>1, <1>2, NobodyMoves DEF LobbyIsUp
<1>4. WoundDown'
  BY <1>1, <1>2 DEF PlaceInv, WoundDown, RequestsOver, RoomsOver, ClientsOver, AcceptsOver,
                    Accepting, LobbyOver, JoinTasks
<1> QED
  BY <1>3, <1>4 DEF PlaceInv

LEMMA RoomTakesClientKeepsPlaces ==
  ASSUME PlaceInv, LobbyTypeInv', NEW r \in RoomId, RoomTakesClient(r)
  PROVE  PlaceInv'
<1> DEFINE c == Head(newClients[r])
<1>1. /\ UNCHANGED <<handleOf, connections, requests, joinQueue, lpc, phase, spc>>
      /\ newClients[r] # <<>>
      /\ newClients' = [newClients EXCEPT ![r] = Tail(newClients[r])]
  BY DEF RoomTakesClient, lobbyVars, queueVars, serverVars
<1>2. newClients[r] \in Seq(Client)
  BY PlacesTyped DEF PlaceInv
<1>3. c \in Client /\ 1 \in 1..Len(newClients[r]) /\ c = newClients[r][1]
  BY <1>1, <1>2
<1>4. at[c] = "sentToRoom"
  BY <1>3 DEF PlaceInv, Held, SentHeld, RoomsHold
<1>5. \A d \in Client : at'[d] = IF d = c THEN "inRoom" ELSE at[d]
  BY PlacesTyped DEF RoomTakesClient, PlaceInv
<1>6. SentHeld'
  BY <1>1, <1>3, <1>5, PlacesTyped, NextPlacesTyped, TakenByOne DEF PlaceInv, Held, SentHeld
<1> HIDE DEF c
<1>7. ConnectionsHeld' /\ RequestsHeld' /\ QueueRight'
  BY <1>1, <1>4, <1>5, ConnectionsKept, RequestsKept, QueueKept
  DEF PlaceInv, Held, Joins, LobbyIsUp
<1>8. OnlyRunningHold'
  <2>1. \A s \in RoomId : newClients'[s] # <<>> => newClients[s] # <<>>
    BY <1>1, PlacesTyped DEF PlaceInv
  <2> QED
    BY <1>1, <2>1 DEF PlaceInv, Held, OnlyRunningHold, Running
<1>9. WoundDown'
  BY <1>1, <1>4, <1>5 DEF PlaceInv, WoundDown, RequestsOver, RoomsOver, ClientsOver,
                          AcceptsOver, Accepting, LobbyOver, JoinTasks, Running
<1> QED
  BY <1>6, <1>7, <1>8, <1>9 DEF PlaceInv, Held

LEMMA RoomOverKeepsPlaces ==
  ASSUME PlaceInv, LobbyTypeInv', NEW r \in RoomId, RoomCloses(r) \/ RoomAborted(r)
  PROVE  PlaceInv'
<1> USE DEF RoomCloses, RoomAborted, ReceiverDropped
<1>1. /\ UNCHANGED <<handleOf, connections, requests, joinQueue, lpc, spc>>
      /\ newClients' = [newClients EXCEPT ![r] = <<>>]
      /\ Running(r)
  BY DEF lobbyVars, queueVars, serverVars, Running
<1>2. at' = [c \in Client |-> IF c \in ToSet(newClients[r]) THEN "gone" ELSE at[c]]
  OBVIOUS
<1>3. \A c \in ToSet(newClients[r]) : at[c] = "sentToRoom"
  BY DEF PlaceInv, Held, SentHeld, RoomsHold, ToSet
<1>4. \A c \in Client : at'[c] = at[c] \/ (at[c] = "sentToRoom" /\ at'[c] = "gone")
  BY <1>2, <1>3
<1>5. SentHeld'
  BY <1>1, <1>2, PlacesTyped, DroppedByOne DEF PlaceInv, Held, SentHeld
<1>6. ConnectionsHeld' /\ RequestsHeld' /\ QueueRight'
  BY <1>1, <1>4, ConnectionsKept, RequestsKept, QueueKept DEF PlaceInv, Held, Joins, LobbyIsUp
<1>7. \A s \in RoomId : s # r => newClients'[s] = newClients[s] /\ phase'[s] = phase[s]
  BY <1>1, PlacesTyped DEF PlaceInv, LobbyTypeInv, LobbyTypeOK, RoomTypeOK, RoomGoto
<1>8. OnlyRunningHold'
  <2>1. newClients'[r] = <<>>
    BY <1>1, PlacesTyped DEF PlaceInv
  <2> QED
    BY <1>7, <2>1 DEF PlaceInv, Held, OnlyRunningHold, Running
<1>9. WoundDown'
  <2>1. RequestsOver' /\ ClientsOver' /\ AcceptsOver' /\ LobbyOver'
    BY <1>1, <1>4 DEF PlaceInv, WoundDown, RequestsOver, ClientsOver, AcceptsOver, Accepting,
                      LobbyOver, JoinTasks
  <2>2. RoomsOver'
    BY <1>1 DEF PlaceInv, WoundDown, RoomsOver
  <2> QED
    BY <2>1, <2>2 DEF WoundDown
<1> QED
  BY <1>5, <1>6, <1>8, <1>9 DEF PlaceInv, Held

LEMMA RoomStepKeepsPlaces ==
  ASSUME PlaceInv, LobbyTypeInv', NEW r \in RoomId, RoomStep(r)
  PROVE  PlaceInv'
BY RoomGoesOnKeepsPlaces, RoomTakesClientKeepsPlaces, RoomOverKeepsPlaces
DEF RoomStep, RoomWindsDown
-----------------------------------------------------------------------------
LEMMA NextKeepsPlaces ==
  ASSUME PlaceInv, [Next]_lobbyAndAll
  PROVE  PlaceInv'
<1>1. LobbyTypeInv'
  BY LobbyStepTypes DEF PlaceInv
<1>2. CASE LobbyStep
  BY <1>1, <1>2, NewConnectionKeepsPlaces, RefuseConnectionKeepsPlaces, HostRoomKeepsPlaces,
     SendToRoomKeepsPlaces, TurnedAwayKeepsPlaces, LobbyAloneKeepsPlaces,
     DrainRequestsKeepsPlaces, DrainControlsKeepsPlaces, LobbyStopsKeepsPlaces
  DEF LobbyStep, LobbyServes, LobbyWindsDown
<1> QED
  BY <1>1, <1>2, ClientStepKeepsPlaces, RoomStepKeepsPlaces, ServerStepKeepsPlaces
  DEF Next, Finished

\* PlaceInv is an invariant.
THEOREM PlaceInvariant == Spec => []PlaceInv
<1>1. PlaceInv /\ [Next]_lobbyAndAll => PlaceInv'
  BY NextKeepsPlaces
<1> QED
  BY <1>1, PlaceInit, PTL DEF Spec

\* join_queue lists exactly the clients with a join task or an unread request,
\* each under the handle id of its task, for any number of clients.
THEOREM QueueNamesTasks == Spec => []QueueFollowsTasks
<1>1. ASSUME PlaceInv PROVE QueueFollowsTasks
  <2> SUFFICES ASSUME LobbyIsUp, NEW c \in Client
               PROVE  IF at[c] \in {"joining", "asking", "asked"}
                      THEN {h \in HandleId : joinQueue[h] = c} = {handleOf[c]}
                      ELSE {h \in HandleId : joinQueue[h] = c} = {}
    BY DEF QueueFollowsTasks
  <2> QED
    BY <1>1 DEF PlaceInv, QueueRight, QueueNames, Joins
<1> QED
  BY <1>1, PlaceInvariant, PTL

-----------------------------------------------------------------------------
(* Who is in a room is in one that was not closed: a room only closes when *)
(* nobody is in it any more.                                               *)

InsideOK ==
  \A c \in Client :
    at[c] = "inRoom" => roomOf[c] \in RoomId /\ phase[roomOf[c]] \notin {"none", "closed"}

\* Nobody comes in, and no room begins or closes.
LEMMA NobodyComesIn ==
  ASSUME LobbyTypeInv, InsideOK, UNCHANGED roomOf,
         \A c \in Client : at'[c] = "inRoom" => at[c] = "inRoom",
         \A r \in RoomId : phase'[r] = phase[r] \/ phase'[r] \notin {"none", "closed"}
  PROVE  InsideOK'
BY DEF InsideOK

LEMMA LobbyKeepsInside ==
  ASSUME LobbyTypeInv, InsideOK, LobbyStep
  PROVE  InsideOK'
<1> USE PlacesTyped
<1>1. CASE HostRoom
  <2>1. PICK r \in RoomId : /\ phase[r] = "none"
                            /\ phase' = [phase EXCEPT ![r] = "open"]
                            /\ roomOf' = [roomOf EXCEPT ![Head(requests)] = r]
    BY <1>1 DEF HostRoom
  <2>2. /\ at' = [at EXCEPT ![Head(requests)] = "inRoom"]
        /\ roomOf \in [Client -> RoomId \cup {NoRoom}]
        /\ phase \in [RoomId -> RoomPhase]
    BY <1>1 DEF HostRoom, LobbyTypeInv, LobbyTypeOK, ClientTypeOK, RoomTypeOK
  <2> QED
    BY <2>1, <2>2 DEF InsideOK
<1>2. CASE NewConnection \/ RefuseConnection \/ SendToRoom \/ RefuseRequest \/ DropClient
  <2>1. UNCHANGED <<roomOf, phase>>
    BY <1>2 DEF NewConnection, RefuseConnection, SendToRoom, RefuseRequest, DropClient,
                roomVars
  <2>2. \E c : \E place \in {"joining", "sentToRoom", "closing", "gone"} :
          at' = [at EXCEPT ![c] = place]
    BY <1>2 DEF NewConnection, RefuseConnection, SendToRoom, RefuseRequest, DropClient
  <2> QED
    BY <2>1, <2>2, NobodyComesIn
<1>3. CASE RecvSeal \/ RecvClose \/ Reconfigure \/ RoomAwaited \/ LobbyHearsShutdown
             \/ DrainControls
  BY <1>3, NobodyComesIn
  DEF RecvSeal, RecvClose, TakeControl, Reconfigure, RoomAwaited, LobbyHearsShutdown,
      DrainControls, clientVars, roomVars
<1>4. CASE DrainRequests
  <2>1. \/ at' = [at EXCEPT ![Head(requests)] = "gone"]
        \/ UNCHANGED at
    BY <1>4 DEF DrainRequests, clientVars
  <2> QED
    BY <1>4, <2>1, NobodyComesIn DEF DrainRequests, clientVars, roomVars
<1>5. CASE LobbyStops
  BY <1>5, NobodyComesIn DEF LobbyStops, roomVars
<1> QED
  BY <1>1, <1>2, <1>3, <1>4, <1>5 DEF LobbyStep, LobbyServes, LobbyWindsDown

LEMMA ClientKeepsInside ==
  ASSUME LobbyTypeInv, InsideOK, NEW c \in Client, ClientStep(c)
  PROVE  InsideOK'
<1>1. UNCHANGED phase
  BY DEF ClientStep, Accept, Established, UnblockConnection, ConnectionFails, AcceptEnds,
         ClientAsks, ClientTimesOut, PostRequest, UnblockRequest, SendCloseDone, LeavesRoom,
         HandshakeOver, roomVars
<1>2. CASE LeavesRoom(c)
  BY <1>1, <1>2, PlacesTyped DEF LeavesRoom, InsideOK, LobbyTypeInv, LobbyTypeOK, ClientTypeOK
<1>3. CASE ~LeavesRoom(c)
  <2>1. UNCHANGED roomOf
    BY <1>3
    DEF ClientStep, Accept, Established, UnblockConnection, ConnectionFails, AcceptEnds,
        ClientAsks, ClientTimesOut, PostRequest, UnblockRequest, SendCloseDone,
        HandshakeOver, clientVars
  <2>2. \E place \in {"handshake", "sending", "queued", "asking", "asked", "gone"} :
          at' = [at EXCEPT ![c] = place]
    BY <1>3
    DEF ClientStep, Accept, Established, UnblockConnection, ConnectionFails, AcceptEnds,
        ClientAsks, ClientTimesOut, PostRequest, UnblockRequest, SendCloseDone,
        HandshakeOver
  <2> QED
    BY <1>1, <2>1, <2>2, PlacesTyped, NobodyComesIn
<1> QED
  BY <1>2, <1>3

LEMMA RoomKeepsInside ==
  ASSUME LobbyTypeInv, InsideOK, NEW r \in RoomId, RoomStep(r)
  PROVE  InsideOK'
<1>1. /\ phase \in [RoomId -> RoomPhase] /\ at \in [Client -> ClientPlace]
      /\ roomOf \in [Client -> RoomId \cup {NoRoom}]
  BY DEF LobbyTypeInv, LobbyTypeOK, ClientTypeOK, RoomTypeOK
<1>2. CASE RoomTakesClient(r)
  BY <1>1, <1>2 DEF RoomTakesClient, InsideOK
<1>3. CASE RoomBeginsClosing(r) \/ RoomSeals(r) \/ RoomSwept(r) \/ RoomAborted(r)
  <2>1. UNCHANGED roomOf
    BY <1>3 DEF RoomBeginsClosing, RoomSeals, RoomSwept, RoomAborted, clientVars
  <2>2. \A c \in Client : at'[c] = "inRoom" => at[c] = "inRoom"
    BY <1>3
    DEF RoomBeginsClosing, RoomSeals, RoomSwept, RoomAborted, ReceiverDropped, clientVars
  <2>3. \E place \in {"closing", "sealed", "swept", "aborted"} :
          phase' = [phase EXCEPT ![r] = place]
    BY <1>3 DEF RoomBeginsClosing, RoomSeals, RoomSwept, RoomAborted, RoomGoto
  <2> QED
    BY <1>1, <2>1, <2>2, <2>3, NobodyComesIn
<1>4. CASE RoomCloses(r)
  <2>1. \A c \in Client : ~(at[c] = "inRoom" /\ roomOf[c] = r)
    BY <1>4 DEF RoomCloses, RoomIsEmpty
  <2>2. \A c \in Client : at'[c] = "inRoom" => at[c] = "inRoom"
    BY <1>4 DEF RoomCloses, ReceiverDropped
  <2>3. UNCHANGED roomOf /\ phase' = [phase EXCEPT ![r] = "closed"]
    BY <1>4 DEF RoomCloses, RoomGoto
  <2> QED
    BY <1>1, <2>1, <2>2, <2>3 DEF InsideOK
<1> QED
  BY <1>2, <1>3, <1>4 DEF RoomStep, RoomWindsDown

\* InsideOK is an invariant.
THEOREM InsideInvariant == Spec => []InsideOK
<1>1. Init => InsideOK
  BY DEF Init, InsideOK
<1>2. LobbyTypeInv /\ InsideOK /\ [Next]_lobbyAndAll => InsideOK'
  <2> SUFFICES ASSUME LobbyTypeInv, InsideOK, [Next]_lobbyAndAll PROVE InsideOK'
    OBVIOUS
  <2>1. CASE ServerStep \/ Shutdown \/ Finished \/ UNCHANGED lobbyAndAll
    <3>1. UNCHANGED <<at, roomOf, phase>>
      BY <2>1
      DEF ServerStep, SpawnLobby, ServerHearsShutdown, AcceptsAwaited, LobbyAwaited,
          ConfigAwaited, ServerGoto, Shutdown, Finished, lobbyAndAll, clientVars, roomVars
    <3> QED
      BY <3>1 DEF InsideOK
  <2> QED
    BY <2>1, LobbyKeepsInside, ClientKeepsInside, RoomKeepsInside DEF Next
<1> QED
  BY <1>1, <1>2, LobbyTypeInvariant, PTL DEF Spec

\* When the server has stopped, no accept, join, room or close task is left and no
\* stream is in a channel, whatever was going on when it was told to; a client that
\* is in a room then is in one that was aborted.
THEOREM StoppedIsQuiet == Spec => []StoppedMeansQuiet
<1>1. ASSUME PlaceInv, InsideOK PROVE StoppedMeansQuiet
  <2> SUFFICES ASSUME spc = "done"
               PROVE  /\ \A c \in Client :
                           \/ at[c] \in {"away", "gone"}
                           \/ at[c] = "inRoom" /\ phase[roomOf[c]] = "aborted"
                      /\ \A r \in RoomId : ~Running(r)
    BY DEF StoppedMeansQuiet
  <2>1. lpc = "done" /\ Accepting = {} /\ requests = <<>> /\ JoinTasks = {}
    BY <1>1 DEF PlaceInv, WoundDown, LobbyOver, AcceptsOver, RequestsOver
  <2>2. \A r \in RoomId : ~Running(r)
    BY <1>1, <2>1 DEF PlaceInv, WoundDown, RoomsOver
  <2>3. \A c \in Client : at[c] \notin {"handshake", "sending", "joining", "asking",
                                        "queued", "closing"}
    BY <1>1, <2>1 DEF Accepting, JoinTasks, PlaceInv, WoundDown, ClientsOver
  <2>4. \A c \in Client : at[c] # "asked"
    BY <1>1, <2>1 DEF PlaceInv, Held, RequestsHeld, InChannel
  <2>5. \A c \in Client : at[c] # "sentToRoom"
    <3>1. \A r \in RoomId : Len(newClients[r]) = 0
      BY <1>1, <2>2 DEF PlaceInv, Held, OnlyRunningHold
    <3> QED
      BY <1>1, <3>1 DEF PlaceInv, Held, SentHeld, RoomsHold
  <2>6. \A c \in Client : at[c] \in {"away", "gone", "inRoom"}
    BY <1>1, <2>3, <2>4, <2>5, PlacesTyped DEF PlaceInv, ClientPlace
  <2>7. \A c \in Client : at[c] = "inRoom" => phase[roomOf[c]] = "aborted"
    <3>1. \A r \in RoomId : phase[r] \in {"none", "closed", "aborted"}
      BY <1>1, <2>2
      DEF Running, PlaceInv, LobbyTypeInv, LobbyTypeOK, RoomTypeOK, RoomPhase
    <3> QED
      BY <1>1, <3>1 DEF InsideOK
  <2> QED
    BY <2>2, <2>6, <2>7
<1> QED
  BY <1>1, PlaceInvariant, InsideInvariant, PTL
=============================================================================
