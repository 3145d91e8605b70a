-------------------------- MODULE RoomSystemProofs --------------------------
(***************************************************************************)
(* Theorems about RoomSystem, for every set of players, every capacity of  *)
(* the channels and every limit of the configuration.                      *)
(***************************************************************************)
EXTENDS RoomSystem, TLAPS

LEMMA InitTypeOK == Init => TypeOK /\ PendOK
<1> SUFFICES ASSUME Init PROVE TypeOK /\ PendOK
  OBVIOUS
<1> USE IdAssumption, CapacityAssumption DEF Init
<1>1. RoomTypeOK
  BY DEF RoomTypeOK, RoomPlace, NoMessages, NoCounts, NotClosing, NotDeparting, NoCode
<1>2. ChannelTypeOK
  BY DEF ChannelTypeOK
<1>3. PlayerTypeOK
  BY DEF PlayerTypeOK, PlayerPlace
<1>4. EnvTypeOK
  BY DEF EnvTypeOK
<1>5. PendOK
  BY DEF PendOK
<1> QED
  BY <1>1, <1>2, <1>3, <1>4, <1>5 DEF TypeOK

LEMMA PushType ==
  ASSUME CapacityAssumption,
         NEW queue \in Seq(RoomNotification \cup {Lagged}),
         Len(queue) <= ROOM_NOTIFICATION_CAPACITY,
         NEW note \in RoomNotification
  PROVE  /\ Push(queue, note) \in Seq(RoomNotification \cup {Lagged})
         /\ Len(Push(queue, note)) <= ROOM_NOTIFICATION_CAPACITY
<1>1. Len(<<Lagged>>) = 1 /\ <<Lagged>> \in Seq(RoomNotification \cup {Lagged})
  OBVIOUS
<1>2. CASE queue = <<Lagged>> \/ Len(queue) = ROOM_NOTIFICATION_CAPACITY
  BY <1>1, <1>2 DEF Push, CapacityAssumption
<1>3. CASE ~(queue = <<Lagged>> \/ Len(queue) = ROOM_NOTIFICATION_CAPACITY)
  <2>1. Push(queue, note) = Append(queue, note)
    BY <1>3 DEF Push
  <2>2. Append(queue, note) \in Seq(RoomNotification \cup {Lagged})
    OBVIOUS
  <2>3. Len(Append(queue, note)) = Len(queue) + 1
    OBVIOUS
  <2> QED
    BY <1>3, <2>1, <2>2, <2>3 DEF CapacityAssumption
<1> QED
  BY <1>2, <1>3
-----------------------------------------------------------------------------
\* The operators the actions are built from keep the types.
NotesOK(f) ==
  /\ f \in [PlayerId -> Seq(RoomNotification \cup {Lagged})]
  /\ \A p \in PlayerId : Len(f[p]) <= ROOM_NOTIFICATION_CAPACITY

LEMMA MessageTypes ==
  ASSUME NEW i \in PlayerId
  PROVE  /\ SealRoom(i) \in RoomRequest
         /\ \A j \in PlayerId : SendTo(i, j) \in RoomRequest
         /\ DropRequest(i) \in RoomRequest
         /\ \A code \in CloseCode : [from |-> i, code |-> code] \in CloseRequest
         /\ PlayerJoined(i) \in RoomNotification
         /\ PlayerLeft(i) \in RoomNotification
         /\ MessageReceived(i) \in RoomNotification
         /\ \A code \in CloseCode : EndOfStay(code) \in RoomNotification
  BY DEF SealRoom, SendTo, DropRequest, RoomRequest, CloseRequest, PlayerJoined,
         PlayerLeft, MessageReceived, EndOfStay, RoomNotification

LEMMA NotifyType ==
  ASSUME ChannelTypeOK, NEW i \in PlayerId, NEW note \in RoomNotification,
         Notify(i, note)
  PROVE  NotesOK(notes')
<1>1. NotesOK(notes)
  BY DEF NotesOK, ChannelTypeOK
<1>2. \/ notes' = [notes EXCEPT ![i] = Push(notes[i], note)]
      \/ notes' = [notes EXCEPT ![i] = notes[i]]
  BY DEF Notify
<1>3. /\ Push(notes[i], note) \in Seq(RoomNotification \cup {Lagged})
      /\ Len(Push(notes[i], note)) <= ROOM_NOTIFICATION_CAPACITY
  BY <1>1, PushType, CapacityAssumption DEF NotesOK
<1> QED
  BY <1>1, <1>2, <1>3 DEF NotesOK

LEMMA NotifyAllType ==
  ASSUME ChannelTypeOK, NEW map, NEW note \in RoomNotification
  PROVE  NotesOK(NotifyAll(map, note))
<1>1. NotesOK(notes)
  BY DEF NotesOK, ChannelTypeOK
<1>2. \A p \in PlayerId :
        /\ Push(notes[p], note) \in Seq(RoomNotification \cup {Lagged})
        /\ Len(Push(notes[p], note)) <= ROOM_NOTIFICATION_CAPACITY
  BY <1>1, PushType, CapacityAssumption DEF NotesOK
<1> QED
  BY <1>1, <1>2 DEF NotesOK, NotifyAll

LEMMA TakeType ==
  ASSUME NEW S, NEW capacity \in Nat, NEW q \in Seq(S), q # <<>>,
         Len(q) <= capacity
  PROVE  /\ Head(q) \in S
         /\ Tail(q) \in Seq(S)
         /\ Len(Tail(q)) <= capacity
  OBVIOUS

LEMMA PutType ==
  ASSUME NEW S, NEW capacity \in Nat, NEW q \in Seq(S), NEW e \in S,
         Len(q) <= capacity, Len(q) # capacity
  PROVE  /\ Append(q, e) \in Seq(S)
         /\ Len(Append(q, e)) <= capacity
<1>1. Append(q, e) \in Seq(S) /\ Len(Append(q, e)) = Len(q) + 1
  OBVIOUS
<1> QED
  BY <1>1
-----------------------------------------------------------------------------
\* Every action of the room task keeps the types.
LEMMA OnConnectType ==
  ASSUME TypeOK, PendOK, NEW i \in PlayerId, OnConnect(i)
  PROVE  /\ players' \in SUBSET PlayerId
         /\ msgSent' \in [PlayerId -> [PlayerId -> Nat]]
         /\ NotesOK(notes')
         /\ PlayerTypeOK'
         /\ PendOK'
<1> USE DEF TypeOK
<1>1. players' \in SUBSET PlayerId
  BY DEF OnConnect, Survivors, RoomTypeOK
<1>2. msgSent' \in [PlayerId -> [PlayerId -> Nat]]
  BY DEF OnConnect, NoMessages, RoomTypeOK
<1>3. NotesOK(notes')
  <2>1. NotesOK(NotifyAll(players, PlayerJoined(i)))
    BY NotifyAllType, MessageTypes
  <2>2. Len(<<>>) <= ROOM_NOTIFICATION_CAPACITY
    BY CapacityAssumption DEF CapacityAssumption
  <2> QED
    BY <2>1, <2>2 DEF OnConnect, NotesOK
<1>4. PlayerTypeOK'
  BY DEF OnConnect, Survivors, PlayerTypeOK, PlayerPlace, RoomTypeOK
<1>5. PendOK'
  BY DEF OnConnect, PendOK, PlayerTypeOK
<1> QED
  BY <1>1, <1>2, <1>3, <1>4, <1>5

LEMMA StartType == TypeOK /\ PendOK /\ Start => TypeOK' /\ PendOK'
<1> SUFFICES ASSUME TypeOK, PendOK, Start PROVE TypeOK' /\ PendOK'
  OBVIOUS
<1> USE IdAssumption DEF TypeOK
<1>1. OnConnect(HOST_ID)
  BY DEF Start
<1>2. /\ players' \in SUBSET PlayerId
      /\ msgSent' \in [PlayerId -> [PlayerId -> Nat]]
      /\ NotesOK(notes') /\ PlayerTypeOK' /\ PendOK'
  BY <1>1, OnConnectType DEF IdAssumption
<1>3. RoomTypeOK'
  BY <1>1, <1>2 DEF Start, OnConnect, RoomTypeOK, RoomPlace, RoomGoto
<1>4. ChannelTypeOK'
  BY <1>1, <1>2 DEF Start, OnConnect, ChannelTypeOK, NotesOK
<1>5. EnvTypeOK'
  BY DEF Start, EnvTypeOK, envVars
<1> QED
  BY <1>2, <1>3, <1>4, <1>5

LEMMA UnchangedPlayers ==
  ASSUME UNCHANGED playerVars
  PROVE  /\ PlayerTypeOK => PlayerTypeOK'
         /\ PendOK => PendOK'
BY DEF playerVars, PlayerTypeOK, PendOK

LEMMA UnchangedEnv == EnvTypeOK /\ UNCHANGED envVars => EnvTypeOK'
BY DEF envVars, EnvTypeOK

LEMMA UnchangedRoom == RoomTypeOK /\ UNCHANGED roomVars => RoomTypeOK'
BY DEF roomVars, RoomTypeOK

LEMMA UnchangedChannels ==
  ChannelTypeOK /\ UNCHANGED channelVars => ChannelTypeOK'
BY DEF channelVars, ChannelTypeOK

LEMMA NewClientType == TypeOK /\ PendOK /\ NewClient => TypeOK' /\ PendOK'
<1> SUFFICES ASSUME TypeOK, PendOK, NewClient PROVE TypeOK' /\ PendOK'
  OBVIOUS
<1> USE DEF TypeOK
<1> PICK i \in PlayerId : OnConnect(i)
  BY DEF NewClient
<1>1. /\ players' \in SUBSET PlayerId
      /\ msgSent' \in [PlayerId -> [PlayerId -> Nat]]
      /\ NotesOK(notes') /\ PlayerTypeOK' /\ PendOK'
  BY OnConnectType
<1>2. RoomTypeOK'
  BY <1>1 DEF NewClient, OnConnect, RoomTypeOK
<1>3. ChannelTypeOK'
  BY <1>1 DEF NewClient, OnConnect, ChannelTypeOK, NotesOK
<1>4. EnvTypeOK'
  BY UnchangedEnv DEF NewClient
<1> QED
  BY <1>1, <1>2, <1>3, <1>4

LEMMA TurnClientAwayType ==
  TypeOK /\ PendOK /\ TurnClientAway => TypeOK' /\ PendOK'
<1> SUFFICES ASSUME TypeOK, PendOK, TurnClientAway PROVE TypeOK' /\ PendOK'
  OBVIOUS
<1> USE DEF TypeOK, TurnClientAway
<1>1. RoomTypeOK'
  BY DEF RoomTypeOK
<1>2. ChannelTypeOK'
  BY DEF ChannelTypeOK
<1> QED
  BY <1>1, <1>2, UnchangedPlayers, UnchangedEnv

\* The channels after a request is taken, when the notifications have their type.
LEMMA TakeRequestType ==
  ASSUME TypeOK, NEW command, TakeRequest(command)
  PROVE  /\ Head(requests) \in RoomRequest
         /\ NotesOK(notes') => ChannelTypeOK'
         /\ EnvTypeOK'
<1> USE DEF TypeOK
<1>1. /\ Head(requests) \in RoomRequest
      /\ requests' \in Seq(RoomRequest)
      /\ Len(requests') <= PLAYER_REQUEST_BUFFER_SIZE
  BY TakeType, CapacityAssumption DEF TakeRequest, ChannelTypeOK, CapacityAssumption
<1>2. NotesOK(notes') => ChannelTypeOK'
  BY <1>1 DEF TakeRequest, ChannelTypeOK, NotesOK
<1>3. EnvTypeOK'
  BY UnchangedEnv DEF TakeRequest
<1> QED
  BY <1>1, <1>2, <1>3

LEMMA BeginCloseType ==
  ASSUME TypeOK, NEW code \in CloseCode, NEW toHost \in BOOLEAN,
         NEW streams \in Nat, BeginClose(code, toHost, streams)
  PROVE  RoomTypeOK' /\ NotesOK(notes')
<1> USE DEF TypeOK
<1>1. RoomTypeOK'
  BY DEF BeginClose, RoomTypeOK, RoomPlace, RoomGoto
<1>2. NotesOK(notes')
  BY DEF BeginClose, NotesOK, ChannelTypeOK
<1> QED
  BY <1>1, <1>2

LEMMA BeginDisconnectType ==
  ASSUME TypeOK, NEW i \in PlayerId, NEW code \in CloseCode \cup {NoCode},
         BeginDisconnect(i, code)
  PROVE  RoomTypeOK' /\ NotesOK(notes')
<1> USE DEF TypeOK
<1>1. RoomTypeOK'
  BY DEF BeginDisconnect, RoomTypeOK, RoomPlace, RoomGoto
<1>2. NotesOK(notes')
  BY DEF BeginDisconnect, NotesOK, ChannelTypeOK
<1> QED
  BY <1>1, <1>2

LEMMA RecvSealType == TypeOK /\ PendOK /\ RecvSeal => TypeOK' /\ PendOK'
<1> SUFFICES ASSUME TypeOK, PendOK, RecvSeal PROVE TypeOK' /\ PendOK'
  OBVIOUS
<1> DEFINE i == Head(requests).from
<1>1. i \in PlayerId
  BY TakeRequestType DEF RecvSeal, RoomRequest
<1>2. UNCHANGED playerVars
  BY DEF RecvSeal, TakeRequest
<1>3. RoomTypeOK' /\ NotesOK(notes')
  <2>1. CASE BeginClose("RoomSealed", TRUE, 0)
    BY <2>1, BeginCloseType DEF CloseCode
  <2>2. CASE RefuseSeal(i) /\ UNCHANGED roomVars
    <3>1. RoomTypeOK'
      BY <2>2, UnchangedRoom DEF TypeOK
    <3>2. NotesOK(notes')
      BY <1>1, <2>2, NotifyType, MessageTypes
         DEF RefuseSeal, NotesOK, TypeOK, ChannelTypeOK, CloseCode
    <3> QED
      BY <3>1, <3>2
  <2> QED
    BY <2>1, <2>2 DEF RecvSeal
<1> QED
  BY <1>2, <1>3, TakeRequestType, UnchangedPlayers DEF RecvSeal, TypeOK

LEMMA RecvSendType == TypeOK /\ PendOK /\ RecvSend => TypeOK' /\ PendOK'
<1> SUFFICES ASSUME TypeOK, PendOK, RecvSend PROVE TypeOK' /\ PendOK'
  OBVIOUS
<1> DEFINE i == Head(requests).from
           j == Head(requests).to
<1>1. i \in PlayerId /\ j \in PlayerId
  BY TakeRequestType DEF RecvSend, RoomRequest
<1>2. UNCHANGED playerVars
  BY DEF RecvSend, TakeRequest
<1>3. TrySendMessage(i, j)
  BY DEF RecvSend
<1>4. NotesOK(notes')
  <2>1. /\ EndOfStay("InvalidDestination") \in RoomNotification
        /\ EndOfStay("Policy") \in RoomNotification
        /\ MessageReceived(i) \in RoomNotification
    BY <1>1, MessageTypes DEF CloseCode
  <2>2. CASE UNCHANGED notes
    BY <2>2 DEF NotesOK, TypeOK, ChannelTypeOK
  <2>3. CASE \/ Notify(i, EndOfStay("InvalidDestination"))
             \/ Notify(i, EndOfStay("Policy"))
             \/ Notify(j, MessageReceived(i))
    BY <1>1, <2>1, <2>3, NotifyType DEF TypeOK
  <2> QED
    BY <1>3, <2>2, <2>3 DEF TrySendMessage
<1>5. RoomTypeOK'
  <2>1. msgSent' \in [PlayerId -> [PlayerId -> Nat]]
    <3>1. \/ msgSent' = msgSent
          \/ msgSent' = [msgSent EXCEPT ![i][j] = msgSent[i][j] + 1]
      BY <1>3 DEF TrySendMessage
    <3>2. msgSent \in [PlayerId -> [PlayerId -> Nat]]
      BY DEF TypeOK, RoomTypeOK
    <3>3. [msgSent[i] EXCEPT ![j] = msgSent[i][j] + 1] \in [PlayerId -> Nat]
      BY <1>1, <3>2
    <3> QED
      BY <1>1, <3>1, <3>2, <3>3
  <2> QED
    BY <2>1 DEF RecvSend, TypeOK, RoomTypeOK
<1> QED
  BY <1>2, <1>4, <1>5, TakeRequestType, UnchangedPlayers DEF RecvSend, TypeOK

LEMMA RecvDropType == TypeOK /\ PendOK /\ RecvDrop => TypeOK' /\ PendOK'
<1> SUFFICES ASSUME TypeOK, PendOK, RecvDrop PROVE TypeOK' /\ PendOK'
  OBVIOUS
<1>1. Head(requests).from \in PlayerId
  BY TakeRequestType DEF RecvDrop, RoomRequest
<1>2. UNCHANGED playerVars
  BY DEF RecvDrop, TakeRequest
<1>3. RoomTypeOK' /\ NotesOK(notes')
  BY <1>1, BeginCloseType, BeginDisconnectType DEF RecvDrop, CloseCode, NoCode
<1> QED
  BY <1>2, <1>3, TakeRequestType, UnchangedPlayers DEF RecvDrop, TypeOK

LEMMA RecvCloseType == TypeOK /\ PendOK /\ RecvClose => TypeOK' /\ PendOK'
<1> SUFFICES ASSUME TypeOK, PendOK, RecvClose PROVE TypeOK' /\ PendOK'
  OBVIOUS
<1>1. /\ Head(closes) \in CloseRequest
      /\ closes' \in Seq(CloseRequest)
      /\ Len(closes') <= PLAYER_REQUEST_BUFFER_SIZE
  BY TakeType, CapacityAssumption
     DEF RecvClose, TypeOK, ChannelTypeOK, CapacityAssumption
<1>2. Head(closes).from \in PlayerId /\ Head(closes).code \in CloseCode
  BY <1>1 DEF CloseRequest
<1>3. RoomTypeOK' /\ NotesOK(notes')
  BY <1>2, BeginCloseType, BeginDisconnectType DEF RecvClose, CloseCode
<1>4. ChannelTypeOK'
  BY <1>1, <1>3 DEF RecvClose, TypeOK, ChannelTypeOK, NotesOK
<1> QED
  BY <1>3, <1>4, UnchangedPlayers, UnchangedEnv DEF RecvClose, TypeOK

LEMMA ReconfigureExpiredType ==
  TypeOK /\ PendOK /\ ReconfigureExpired => TypeOK' /\ PendOK'
<1> SUFFICES ASSUME TypeOK, PendOK, ReconfigureExpired PROVE TypeOK' /\ PendOK'
  OBVIOUS
<1> USE DEF TypeOK, ReconfigureExpired
<1>1. RoomTypeOK' /\ NotesOK(notes')
  BY BeginCloseType DEF CloseCode
<1>2. ChannelTypeOK'
  BY <1>1 DEF ChannelTypeOK, NotesOK
<1>3. EnvTypeOK'
  BY DEF EnvTypeOK
<1> QED
  BY <1>1, <1>2, <1>3, UnchangedPlayers

LEMMA ReconfigureType == TypeOK /\ PendOK /\ Reconfigure => TypeOK' /\ PendOK'
<1> SUFFICES ASSUME TypeOK, PendOK, Reconfigure PROVE TypeOK' /\ PendOK'
  OBVIOUS
<1> USE DEF TypeOK
<1>1. RoomTypeOK'
  BY DEF Reconfigure, RoomTypeOK
<1>2. NotesOK(notes')
  <2>1. EndOfStay("TooManyPlayers") \in RoomNotification
    BY DEF EndOfStay, RoomNotification, CloseCode
  <2>2. NotesOK(notes)
    BY DEF NotesOK, ChannelTypeOK
  <2>3. \A p \in PlayerId :
          /\ Push(notes[p], EndOfStay("TooManyPlayers"))
               \in Seq(RoomNotification \cup {Lagged})
          /\ Len(Push(notes[p], EndOfStay("TooManyPlayers")))
               <= ROOM_NOTIFICATION_CAPACITY
    BY <2>1, <2>2, PushType, CapacityAssumption DEF NotesOK
  <2> PICK kicked \in SUBSET (players \ {HOST_ID}) :
         notes' = [p \in PlayerId |->
                     IF p \in kicked /\ Alive(p)
                     THEN Push(notes[p], EndOfStay("TooManyPlayers"))
                     ELSE notes[p]]
    BY DEF Reconfigure
  <2> QED
    BY <2>2, <2>3 DEF NotesOK
<1>3. ChannelTypeOK'
  BY <1>2 DEF Reconfigure, ChannelTypeOK, NotesOK
<1>4. EnvTypeOK'
  BY DEF Reconfigure, EnvTypeOK
<1> QED
  BY <1>1, <1>3, <1>4, UnchangedPlayers DEF Reconfigure

LEMMA TimeLimitType == TypeOK /\ PendOK /\ TimeLimit => TypeOK' /\ PendOK'
<1> SUFFICES ASSUME TypeOK, PendOK, TimeLimit PROVE TypeOK' /\ PendOK'
  OBVIOUS
<1> USE DEF TypeOK, TimeLimit
<1>1. RoomTypeOK' /\ NotesOK(notes')
  BY BeginCloseType DEF CloseCode
<1>2. ChannelTypeOK'
  BY <1>1 DEF ChannelTypeOK, NotesOK
<1> QED
  BY <1>1, <1>2, UnchangedPlayers, UnchangedEnv

LEMMA FinishDisconnectType ==
  TypeOK /\ PendOK /\ FinishDisconnect => TypeOK' /\ PendOK'
<1> SUFFICES ASSUME TypeOK, PendOK, FinishDisconnect PROVE TypeOK' /\ PendOK'
  OBVIOUS
<1> USE DEF TypeOK
<1> DEFINE i == departing.id
<1>0. i \in PlayerId
  BY DEF FinishDisconnect, At, RoomTypeOK
<1>1. RoomTypeOK'
  <2>1. msgSent' \in [PlayerId -> [PlayerId -> Nat]]
    <3>1. \A p \in PlayerId : [msgSent[p] EXCEPT ![i] = 0] \in [PlayerId -> Nat]
      BY DEF RoomTypeOK
    <3> QED
      BY <3>1 DEF FinishDisconnect, ClearCounts, RoomTypeOK
  <2>2. tracker' \in Nat
    BY DEF FinishDisconnect, RoomTypeOK
  <2>3. players' \in SUBSET PlayerId
    BY DEF FinishDisconnect, RoomTypeOK, Survivors
  <2>4. departing' \in [id : PlayerId \cup {NoId}, code : CloseCode \cup {NoCode}]
    BY DEF FinishDisconnect, NotDeparting
  <2> QED
    BY <2>1, <2>2, <2>3, <2>4 DEF FinishDisconnect, RoomTypeOK, RoomPlace, RoomGoto
<1>2. ChannelTypeOK'
  <2>1. NotesOK(notes')
    BY <1>0, NotifyAllType, MessageTypes DEF FinishDisconnect
  <2> QED
    BY <2>1 DEF FinishDisconnect, ChannelTypeOK, NotesOK
<1> QED
  BY <1>1, <1>2, UnchangedPlayers, UnchangedEnv DEF FinishDisconnect

LEMMA NotifyClosingType ==
  TypeOK /\ PendOK /\ NotifyClosing => TypeOK' /\ PendOK'
<1> SUFFICES ASSUME TypeOK, PendOK, NotifyClosing PROVE TypeOK' /\ PendOK'
  OBVIOUS
<1> USE DEF TypeOK
<1> PICK i \in players :
      \/ handle' = i /\ UNCHANGED <<notes, closing>>
      \/ /\ Notify(i, EndOfStay(closing.code))
         /\ closing' = [closing EXCEPT !.awaiting = @ \cup {i}]
         /\ UNCHANGED handle
  BY DEF NotifyClosing
<1>1. i \in PlayerId /\ EndOfStay(closing.code) \in RoomNotification
  BY MessageTypes DEF NotifyClosing, At, RoomTypeOK
<1>2. RoomTypeOK'
  BY <1>1 DEF NotifyClosing, RoomTypeOK
<1>3. NotesOK(notes')
  BY <1>1, NotifyType DEF NotesOK, ChannelTypeOK
<1>4. ChannelTypeOK'
  BY <1>3 DEF NotifyClosing, ChannelTypeOK, NotesOK
<1> QED
  BY <1>2, <1>4, UnchangedPlayers, UnchangedEnv DEF NotifyClosing

LEMMA StopAwaitingType ==
  ASSUME RoomTypeOK, NEW i \in PlayerId, NEW streams \in Nat,
         StopAwaiting(i, streams)
  PROVE  /\ closing' \in [code : CloseCode \cup {NoCode}, toHost : BOOLEAN,
                         awaiting : SUBSET PlayerId, streams : Nat]
         /\ handle' \in PlayerId \cup {NoId}
<1>1. handle' \in PlayerId \cup {NoId}
  BY DEF StopAwaiting
<1>2. /\ closing.awaiting \ {i} \in SUBSET PlayerId
      /\ closing.streams + streams \in Nat
  BY DEF RoomTypeOK
<1>3. closing' \in [code : CloseCode \cup {NoCode}, toHost : BOOLEAN,
                   awaiting : SUBSET PlayerId, streams : Nat]
  BY <1>2 DEF StopAwaiting, RoomTypeOK
<1> QED
  BY <1>1, <1>3

\* The actions that take something out of a channel.
LEMMA CollectType ==
  TypeOK /\ PendOK /\ (CollectRequest \/ CollectClose) => TypeOK' /\ PendOK'
<1> SUFFICES ASSUME TypeOK, PendOK, CollectRequest \/ CollectClose
             PROVE  TypeOK' /\ PendOK'
  OBVIOUS
<1> USE DEF TypeOK
<1>1. CASE CollectRequest
  <2>1. /\ Head(requests) \in RoomRequest
        /\ requests' \in Seq(RoomRequest)
        /\ Len(requests') <= PLAYER_REQUEST_BUFFER_SIZE
    BY <1>1, TakeType, CapacityAssumption
       DEF CollectRequest, ChannelTypeOK, CapacityAssumption
  <2>2. RoomTypeOK'
    <3>1. Head(requests).from \in PlayerId
      BY <2>1 DEF RoomRequest
    <3>2. /\ closing' \in [code : CloseCode \cup {NoCode}, toHost : BOOLEAN,
                          awaiting : SUBSET PlayerId, streams : Nat]
          /\ handle' \in PlayerId \cup {NoId}
      BY <1>1, <3>1, StopAwaitingType DEF CollectRequest, RoomTypeOK
    <3> QED
      BY <1>1, <3>2 DEF CollectRequest, At, RoomTypeOK
  <2>3. ChannelTypeOK'
    BY <1>1, <2>1 DEF CollectRequest, ChannelTypeOK
  <2> QED
    BY <1>1, <2>2, <2>3, UnchangedPlayers, UnchangedEnv DEF CollectRequest
<1>2. CASE CollectClose
  <2>1. /\ Head(closes) \in CloseRequest
        /\ closes' \in Seq(CloseRequest)
        /\ Len(closes') <= PLAYER_REQUEST_BUFFER_SIZE
    BY <1>2, TakeType, CapacityAssumption
       DEF CollectClose, ChannelTypeOK, CapacityAssumption
  <2>2. RoomTypeOK'
    <3>1. Head(closes).from \in PlayerId
      BY <2>1 DEF CloseRequest
    <3>2. /\ closing' \in [code : CloseCode \cup {NoCode}, toHost : BOOLEAN,
                          awaiting : SUBSET PlayerId, streams : Nat]
          /\ handle' \in PlayerId \cup {NoId}
      BY <1>2, <3>1, StopAwaitingType DEF CollectClose, RoomTypeOK
    <3> QED
      BY <1>2, <3>2 DEF CollectClose, At, RoomTypeOK
  <2>3. ChannelTypeOK'
    BY <1>2, <2>1 DEF CollectClose, ChannelTypeOK
  <2> QED
    BY <1>2, <2>2, <2>3, UnchangedPlayers, UnchangedEnv DEF CollectClose
<1> QED
  BY <1>1, <1>2

LEMMA DrainType ==
  TypeOK /\ PendOK /\ (DrainCloses \/ DrainRequests \/ DrainClients)
    => TypeOK' /\ PendOK'
<1> SUFFICES ASSUME TypeOK, PendOK, DrainCloses \/ DrainRequests \/ DrainClients
             PROVE  TypeOK' /\ PendOK'
  OBVIOUS
<1> USE DEF TypeOK
<1>1. UNCHANGED playerVars /\ UNCHANGED envVars
  BY DEF DrainCloses, DrainRequests, DrainClients
<1>2. RoomTypeOK'
  BY DEF DrainCloses, DrainRequests, DrainClients, RoomTypeOK, RoomPlace, RoomGoto
<1>3. ChannelTypeOK'
  <2>1. CASE DrainCloses
    <3>1. closes' \in Seq(CloseRequest) /\ Len(closes') <= PLAYER_REQUEST_BUFFER_SIZE
      <4>1. CASE closes # <<>> /\ closes' = Tail(closes)
        BY <4>1, TakeType, CapacityAssumption
           DEF ChannelTypeOK, CapacityAssumption
      <4>2. CASE closes' = closes
        BY <4>2 DEF ChannelTypeOK
      <4> QED
        BY <2>1, <4>1, <4>2 DEF DrainCloses
    <3> QED
      BY <2>1, <3>1 DEF DrainCloses, ChannelTypeOK
  <2>2. CASE DrainRequests
    <3>1. requests' \in Seq(RoomRequest) /\ Len(requests') <= PLAYER_REQUEST_BUFFER_SIZE
      <4>1. CASE requests # <<>> /\ requests' = Tail(requests)
        BY <4>1, TakeType, CapacityAssumption
           DEF ChannelTypeOK, CapacityAssumption
      <4>2. CASE requests' = requests
        BY <4>2 DEF ChannelTypeOK
      <4> QED
        BY <2>2, <4>1, <4>2 DEF DrainRequests
    <3> QED
      BY <2>2, <3>1 DEF DrainRequests, ChannelTypeOK
  <2>3. CASE DrainClients
    BY <2>3 DEF DrainClients, ChannelTypeOK
  <2> QED
    BY <2>1, <2>2, <2>3
<1> QED
  BY <1>1, <1>2, <1>3, UnchangedPlayers, UnchangedEnv

LEMMA SignalType ==
  TypeOK /\ PendOK /\ (SendSeal \/ SignalClosed) => TypeOK' /\ PendOK'
<1> SUFFICES ASSUME TypeOK, PendOK, SendSeal \/ SignalClosed
             PROVE  TypeOK' /\ PendOK'
  OBVIOUS
<1> USE DEF TypeOK
<1>1. UNCHANGED playerVars /\ UNCHANGED envVars
  BY DEF SendSeal, SignalClosed
<1>2. RoomTypeOK'
  BY DEF SendSeal, SignalClosed, RoomTypeOK, RoomPlace, RoomGoto
<1>3. ChannelTypeOK'
  <2>1. control' \in Seq({"seal", "close"})
    <3>1. \A e \in {"seal", "close"} : Append(control, e) \in Seq({"seal", "close"})
      BY DEF ChannelTypeOK
    <3> QED
      BY <3>1 DEF SendSeal, SignalClosed
  <2> QED
    BY <2>1 DEF SendSeal, SignalClosed, ChannelTypeOK
<1> QED
  BY <1>1, <1>2, <1>3, UnchangedPlayers, UnchangedEnv

\* The actions that touch no channel and no player.
LEMMA OtherRoomType ==
  /\ TypeOK /\ PendOK
  /\ \/ RoomHearsShutdown \/ AwaitHandle \/ NotifyClosingDone \/ CollectDone
     \/ JoinPlayers \/ AwaitCloses \/ SendCloseDone
  => TypeOK' /\ PendOK'
<1> SUFFICES ASSUME TypeOK, PendOK,
                    \/ RoomHearsShutdown \/ AwaitHandle \/ NotifyClosingDone
                    \/ CollectDone \/ JoinPlayers \/ AwaitCloses
                    \/ SendCloseDone
             PROVE  TypeOK' /\ PendOK'
  OBVIOUS
<1> USE DEF TypeOK
<1>1. UNCHANGED playerVars /\ UNCHANGED channelVars /\ UNCHANGED envVars
  BY DEF RoomHearsShutdown, AwaitHandle, NotifyClosingDone, CollectDone,
         JoinPlayers, AwaitCloses, SendCloseDone
<1>2. RoomTypeOK'
  <2>1. CASE RoomHearsShutdown \/ AwaitHandle \/ NotifyClosingDone
               \/ AwaitCloses \/ SendCloseDone
    BY <2>1 DEF RoomHearsShutdown, AwaitHandle, NotifyClosingDone, AwaitCloses,
                SendCloseDone, RoomTypeOK, RoomPlace, RoomGoto
  <2>2. CASE CollectDone
    BY <2>2 DEF CollectDone, NotClosing, RoomTypeOK, RoomPlace, RoomGoto
  <2>3. CASE JoinPlayers
    BY <2>3 DEF JoinPlayers, RoomTypeOK, RoomPlace, RoomGoto
  <2> QED
    BY <2>1, <2>2, <2>3
<1> QED
  BY <1>1, <1>2, UnchangedPlayers, UnchangedChannels, UnchangedEnv

LEMMA RoomStepType == TypeOK /\ PendOK /\ RoomStep => TypeOK' /\ PendOK'
BY StartType, NewClientType, TurnClientAwayType, RecvSealType, RecvSendType,
   RecvDropType, RecvCloseType, ReconfigureExpiredType, ReconfigureType,
   TimeLimitType, FinishDisconnectType, NotifyClosingType, CollectType,
   DrainType, SignalType, OtherRoomType
   DEF RoomStep, RoomCloses, RoomWindsDown
-----------------------------------------------------------------------------
\* Every action of a player task keeps the types.
LEMMA PostRequestType ==
  ASSUME TypeOK, PendOK, NEW i \in PlayerId, ppc[i] = "run",
         NEW request \in RoomRequest,
         NEW next \in {"run", "ending"}, NEW blocked \in {"asking", "leaving"},
         PostRequest(i, request, next, blocked)
  PROVE  /\ requests' \in Seq(RoomRequest)
         /\ Len(requests') <= PLAYER_REQUEST_BUFFER_SIZE
         /\ UNCHANGED closes
         /\ ppc' \in [PlayerId -> PlayerPlace]
         /\ pend' \in [PlayerId -> Seq(RoomRequest \cup CloseRequest)]
         /\ PendOK'
<1> USE DEF TypeOK
<1>1. UNCHANGED closes
  BY DEF PostRequest
<1>2. requests' \in Seq(RoomRequest) /\ Len(requests') <= PLAYER_REQUEST_BUFFER_SIZE
  <2>1. CASE /\ Len(requests) < PLAYER_REQUEST_BUFFER_SIZE
             /\ requests' = Append(requests, request)
    BY <2>1, PutType, CapacityAssumption DEF ChannelTypeOK, CapacityAssumption
  <2>2. CASE requests' = requests
    BY <2>2 DEF ChannelTypeOK
  <2> QED
    BY <2>1, <2>2 DEF PostRequest
<1>3. \/ pend' = pend
      \/ pend' = [pend EXCEPT ![i] = <<request>>]
  BY DEF PostRequest
<1>4. /\ ppc' \in [PlayerId -> PlayerPlace]
      /\ pend' \in [PlayerId -> Seq(RoomRequest \cup CloseRequest)]
  <2>1. <<request>> \in Seq(RoomRequest \cup CloseRequest)
    OBVIOUS
  <2> QED
    BY <1>3, <2>1 DEF PostRequest, PlayerGoto, PlayerTypeOK, PlayerPlace
<1>5. PendOK'
  <2> SUFFICES ASSUME NEW p \in PlayerId
               PROVE  /\ ppc'[p] = "asking" => \E r \in RoomRequest : pend'[p] = <<r>>
                      /\ ppc'[p] = "leaving" =>
                           \E r \in RoomRequest \cup CloseRequest : pend'[p] = <<r>>
    BY DEF PendOK
  <2>1. CASE p # i
    BY <2>1, <1>3 DEF PostRequest, PlayerGoto, PendOK, PlayerTypeOK
  <2>2. CASE p = i
    BY <2>2 DEF PostRequest, PlayerGoto, PlayerTypeOK
  <2> QED
    BY <2>1, <2>2
<1> QED
  BY <1>1, <1>2, <1>4, <1>5

LEMMA CloseConnectionType ==
  ASSUME TypeOK, PendOK, NEW i \in PlayerId, ppc[i] = "run",
         NEW code \in CloseCode, CloseConnection(i, code)
  PROVE  /\ closes' \in Seq(CloseRequest)
         /\ Len(closes') <= PLAYER_REQUEST_BUFFER_SIZE
         /\ UNCHANGED requests
         /\ ppc' \in [PlayerId -> PlayerPlace]
         /\ pend' \in [PlayerId -> Seq(RoomRequest \cup CloseRequest)]
         /\ PendOK'
<1> USE DEF TypeOK
<1> DEFINE request == [from |-> i, code |-> code]
<1>0. request \in CloseRequest
  BY MessageTypes
<1>1. UNCHANGED requests
  BY DEF CloseConnection
<1>2. closes' \in Seq(CloseRequest) /\ Len(closes') <= PLAYER_REQUEST_BUFFER_SIZE
  <2>1. CASE /\ Len(closes) < PLAYER_REQUEST_BUFFER_SIZE
             /\ closes' = Append(closes, request)
    BY <1>0, <2>1, PutType, CapacityAssumption
       DEF ChannelTypeOK, CapacityAssumption
  <2>2. CASE closes' = closes
    BY <2>2 DEF ChannelTypeOK
  <2> QED
    BY <2>1, <2>2 DEF CloseConnection
<1>3. \/ pend' = pend /\ ppc' = [ppc EXCEPT ![i] = "ending"]
      \/ /\ pend' = [pend EXCEPT ![i] = <<request>>]
         /\ ppc' = [ppc EXCEPT ![i] = "leaving"]
  BY DEF CloseConnection, PlayerGoto
<1> HIDE DEF request
<1>4. /\ ppc' \in [PlayerId -> PlayerPlace]
      /\ pend' \in [PlayerId -> Seq(RoomRequest \cup CloseRequest)]
  <2>1. <<request>> \in Seq(RoomRequest \cup CloseRequest)
    BY <1>0
  <2> QED
    BY <1>3, <2>1 DEF PlayerTypeOK, PlayerPlace
<1>5. PendOK'
  <2> SUFFICES ASSUME NEW p \in PlayerId
               PROVE  /\ ppc'[p] = "asking" => \E r \in RoomRequest : pend'[p] = <<r>>
                      /\ ppc'[p] = "leaving" =>
                           \E r \in RoomRequest \cup CloseRequest : pend'[p] = <<r>>
    BY DEF PendOK
  <2>1. CASE p # i
    BY <2>1, <1>3 DEF PendOK, PlayerTypeOK
  <2>2. CASE p = i
    BY <2>2, <1>0, <1>3 DEF PlayerTypeOK
  <2> QED
    BY <2>1, <2>2
<1> QED
  BY <1>1, <1>2, <1>4, <1>5

LEMMA ClientType ==
  ASSUME TypeOK, PendOK, NEW i \in PlayerId,
         ClientAsks(i) \/ ClientFaults(i) \/ ClientGone(i)
  PROVE  TypeOK' /\ PendOK'
<1> USE DEF TypeOK
<1>1. UNCHANGED roomVars /\ UNCHANGED <<newClients, notes, control, hears, view>>
  BY DEF ClientAsks, ClientFaults, ClientGone
<1>2. EnvTypeOK'
  <2>1. CASE ClientAsks(i)
    BY <2>1 DEF ClientAsks, EnvTypeOK
  <2>2. CASE ClientFaults(i) \/ ClientGone(i)
    BY <2>2, UnchangedEnv DEF ClientFaults, ClientGone
  <2> QED
    BY <2>1, <2>2
<1>3. /\ requests' \in Seq(RoomRequest)
      /\ Len(requests') <= PLAYER_REQUEST_BUFFER_SIZE
      /\ closes' \in Seq(CloseRequest)
      /\ Len(closes') <= PLAYER_REQUEST_BUFFER_SIZE
      /\ ppc' \in [PlayerId -> PlayerPlace]
      /\ pend' \in [PlayerId -> Seq(RoomRequest \cup CloseRequest)]
      /\ PendOK'
  <2>0. /\ requests \in Seq(RoomRequest)
        /\ Len(requests) <= PLAYER_REQUEST_BUFFER_SIZE
        /\ closes \in Seq(CloseRequest)
        /\ Len(closes) <= PLAYER_REQUEST_BUFFER_SIZE
    BY DEF ChannelTypeOK
  <2>1. CASE ClientAsks(i)
    <3> PICK request \in {SealRoom(i)} \cup {SendTo(i, j) : j \in PlayerId} :
           PostRequest(i, request, "run", "asking")
      BY <2>1 DEF ClientAsks, SendReq
    <3>1. request \in RoomRequest
      BY MessageTypes
    <3> QED
      BY <2>0, <2>1, <3>1, PostRequestType DEF ClientAsks
  <2>2. CASE ClientFaults(i)
    BY <2>0, <2>2, CloseConnectionType DEF ClientFaults, CloseCode
  <2>3. CASE ClientGone(i)
    <3>1. PostRequest(i, DropRequest(i), "ending", "leaving")
      BY <2>3 DEF ClientGone, DropConnection
    <3>2. DropRequest(i) \in RoomRequest
      BY MessageTypes
    <3> QED
      BY <2>0, <2>3, <3>1, <3>2, PostRequestType DEF ClientGone
  <2> QED
    BY <2>1, <2>2, <2>3
<1>4. RoomTypeOK'
  BY <1>1, UnchangedRoom
<1>5. ChannelTypeOK'
  BY <1>1, <1>3 DEF ChannelTypeOK
<1>6. PlayerTypeOK'
  BY <1>1, <1>3 DEF PlayerTypeOK
<1> QED
  BY <1>2, <1>3, <1>4, <1>5, <1>6

LEMMA ReadType ==
  ASSUME TypeOK, PendOK, NEW i \in PlayerId, ReadNews(i) \/ ReadEnd(i)
  PROVE  TypeOK' /\ PendOK'
<1> USE DEF TypeOK
<1> DEFINE note == Head(notes[i])
<1>1. UNCHANGED roomVars /\ UNCHANGED envVars /\ UNCHANGED <<newClients, control, hears>>
  BY DEF ReadNews, ReadEnd
<1>2. notes[i] # <<>> /\ notes' = [notes EXCEPT ![i] = Tail(notes[i])]
  BY DEF ReadNews, ReadEnd
<1>3. note \in RoomNotification \cup {Lagged} /\ NotesOK(notes')
  <2>1. /\ note \in RoomNotification \cup {Lagged}
        /\ Tail(notes[i]) \in Seq(RoomNotification \cup {Lagged})
        /\ Len(Tail(notes[i])) <= ROOM_NOTIFICATION_CAPACITY
    BY <1>2, TakeType, CapacityAssumption DEF ChannelTypeOK, CapacityAssumption
  <2> QED
    BY <1>2, <2>1 DEF ChannelTypeOK, NotesOK
<1>4. RoomTypeOK' /\ EnvTypeOK'
  BY <1>1, UnchangedRoom, UnchangedEnv
<1>5. CASE ReadNews(i)
  <2>1. note.kind \in {"joined", "left", "message"} => note.of \in PlayerId
    BY <1>3 DEF RoomNotification, Lagged
  <2>2. view' \in [PlayerId -> SUBSET PlayerId]
    BY <1>5, <2>1 DEF ReadNews, Heard, PlayerTypeOK
  <2>3. PlayerTypeOK' /\ PendOK'
    BY <1>1, <1>5, <2>2 DEF ReadNews, PlayerTypeOK, PendOK
  <2>4. ChannelTypeOK'
    BY <1>1, <1>3, <1>5 DEF ReadNews, ChannelTypeOK, NotesOK
  <2> QED
    BY <1>4, <2>3, <2>4
<1>6. CASE ReadEnd(i)
  <2>1. note.of \in CloseCode
    BY <1>3, <1>6 DEF ReadEnd, Ends, RoomNotification, Lagged, CloseCode
  <2>2. /\ closes' \in Seq(CloseRequest)
        /\ Len(closes') <= PLAYER_REQUEST_BUFFER_SIZE
        /\ UNCHANGED requests
        /\ ppc' \in [PlayerId -> PlayerPlace]
        /\ pend' \in [PlayerId -> Seq(RoomRequest \cup CloseRequest)]
        /\ PendOK'
    BY <1>6, <2>1, CloseConnectionType DEF ReadEnd
  <2>3. PlayerTypeOK'
    BY <1>1, <1>6, <2>2 DEF ReadEnd, PlayerTypeOK
  <2>4. ChannelTypeOK'
    BY <1>1, <1>3, <2>2 DEF ChannelTypeOK, NotesOK
  <2> QED
    BY <1>4, <2>2, <2>3, <2>4
<1> QED
  BY <1>5, <1>6

\* The task leaves its loop without a request, or returns.
LEMMA EndType ==
  ASSUME TypeOK, PendOK, NEW i \in PlayerId,
         ReadClosed(i) \/ HearShutdown(i) \/ Return(i)
  PROVE  TypeOK' /\ PendOK'
<1> USE DEF TypeOK
<1>1. UNCHANGED roomVars /\ UNCHANGED envVars
      /\ UNCHANGED <<newClients, requests, closes, control, pend>>
  BY DEF ReadClosed, HearShutdown, Return, channelVars
<1>2. \E place \in {"ending", "done"} : ppc' = [ppc EXCEPT ![i] = place]
  BY DEF ReadClosed, HearShutdown, Return, PlayerGoto
<1>3. NotesOK(notes')
  <2>1. NotesOK(notes)
    BY DEF ChannelTypeOK, NotesOK
  <2>2. CASE notes' = notes
    BY <2>1, <2>2
  <2>3. CASE notes' = [notes EXCEPT ![i] = <<>>]
    <3>1. /\ <<>> \in Seq(RoomNotification \cup {Lagged})
          /\ Len(<<>>) <= ROOM_NOTIFICATION_CAPACITY
      BY CapacityAssumption DEF CapacityAssumption
    <3> QED
      BY <2>1, <2>3, <3>1 DEF NotesOK
  <2> QED
    BY <2>2, <2>3 DEF ReadClosed, HearShutdown, Return, channelVars
<1>4. PlayerTypeOK'
  BY <1>1, <1>2 DEF ReadClosed, HearShutdown, Return, PlayerTypeOK, PlayerPlace
<1>5. PendOK'
  BY <1>1, <1>2 DEF PendOK, PlayerTypeOK
<1>6. ChannelTypeOK'
  BY <1>1, <1>3 DEF ChannelTypeOK, NotesOK
<1> QED
  BY <1>1, <1>4, <1>5, <1>6, UnchangedRoom, UnchangedEnv

LEMMA ResumeType ==
  ASSUME TypeOK, PendOK, NEW i \in PlayerId, ResumeAsking(i) \/ ResumeLeaving(i)
  PROVE  TypeOK' /\ PendOK'
<1> USE DEF TypeOK
<1>1. UNCHANGED roomVars /\ UNCHANGED envVars
      /\ UNCHANGED <<newClients, notes, control, hears, view>>
  BY DEF ResumeAsking, ResumeLeaving, Unblock
<1>2. /\ \E place \in {"run", "ending"} : ppc' = [ppc EXCEPT ![i] = place]
      /\ pend' = [pend EXCEPT ![i] = <<>>]
  BY DEF ResumeAsking, ResumeLeaving, Unblock, PlayerGoto
<1>3. /\ requests' \in Seq(RoomRequest)
      /\ Len(requests') <= PLAYER_REQUEST_BUFFER_SIZE
  <2>1. CASE /\ pend[i][1] \in RoomRequest
             /\ Len(requests) < PLAYER_REQUEST_BUFFER_SIZE
             /\ requests' = Append(requests, pend[i][1])
    BY <2>1, PutType, CapacityAssumption DEF ChannelTypeOK, CapacityAssumption
  <2>2. CASE requests' = requests
    BY <2>2 DEF ChannelTypeOK
  <2>3. ppc[i] = "asking" => pend[i][1] \in RoomRequest
    BY DEF PendOK
  <2> QED
    BY <2>1, <2>2, <2>3 DEF ResumeAsking, ResumeLeaving
<1>4. /\ closes' \in Seq(CloseRequest)
      /\ Len(closes') <= PLAYER_REQUEST_BUFFER_SIZE
  <2>1. CASE /\ pend[i][1] \in CloseRequest
             /\ Len(closes) < PLAYER_REQUEST_BUFFER_SIZE
             /\ closes' = Append(closes, pend[i][1])
    BY <2>1, PutType, CapacityAssumption DEF ChannelTypeOK, CapacityAssumption
  <2>2. CASE closes' = closes
    BY <2>2 DEF ChannelTypeOK
  <2> QED
    BY <2>1, <2>2 DEF ResumeAsking, ResumeLeaving
<1>5. PlayerTypeOK'
  <2>1. <<>> \in Seq(RoomRequest \cup CloseRequest)
    OBVIOUS
  <2> QED
    BY <1>1, <1>2, <2>1 DEF PlayerTypeOK, PlayerPlace
<1>6. PendOK'
  BY <1>2 DEF PendOK, PlayerTypeOK
<1>7. ChannelTypeOK'
  BY <1>1, <1>3, <1>4 DEF ChannelTypeOK
<1> QED
  BY <1>1, <1>5, <1>6, <1>7, UnchangedRoom, UnchangedEnv

LEMMA PlayerStepType ==
  ASSUME TypeOK, PendOK, NEW i \in PlayerId, PlayerStep(i)
  PROVE  TypeOK' /\ PendOK'
BY ClientType, ReadType, EndType, ResumeType DEF PlayerStep
-----------------------------------------------------------------------------
LEMMA EnvironmentType ==
  ASSUME TypeOK, PendOK, Environment
  PROVE  TypeOK' /\ PendOK'
<1> USE DEF TypeOK
<1>1. UNCHANGED playerVars
  BY DEF Environment, Arrive, LobbyReads, LobbyHearsShutdown, LobbyAborts,
         Aborted, Shutdown,
     Finished, vars
<1>2. CASE Arrive
  <2>1. EnvTypeOK'
    BY <1>2 DEF Arrive, EnvTypeOK
  <2>2. ChannelTypeOK'
    BY <1>2 DEF Arrive, ChannelTypeOK
  <2> QED
    BY <1>1, <1>2, <2>1, <2>2, UnchangedPlayers, UnchangedRoom DEF Arrive
<1>3. CASE LobbyReads
  <2>1. control' \in Seq({"seal", "close"}) /\ Head(control) \in {"seal", "close"}
    BY <1>3 DEF LobbyReads, ChannelTypeOK
  <2>2. EnvTypeOK'
    BY <1>3, <2>1 DEF LobbyReads, Listing, EnvTypeOK
  <2>3. ChannelTypeOK'
    BY <1>3, <2>1 DEF LobbyReads, ChannelTypeOK
  <2> QED
    BY <1>1, <1>3, <2>2, <2>3, UnchangedPlayers, UnchangedRoom DEF LobbyReads
<1>4. CASE LobbyHearsShutdown \/ LobbyAborts
  <2>1. EnvTypeOK'
    BY <1>4 DEF LobbyHearsShutdown, LobbyAborts, EnvTypeOK
  <2> QED
    BY <1>1, <1>4, <2>1, UnchangedPlayers, UnchangedRoom, UnchangedChannels
       DEF LobbyHearsShutdown, LobbyAborts
<1>5. CASE Aborted
  <2>1. Len(<<>>) <= PLAYER_REQUEST_BUFFER_SIZE
    BY CapacityAssumption DEF CapacityAssumption
  <2>2. ChannelTypeOK'
    BY <1>5, <2>1 DEF Aborted, ChannelTypeOK
  <2>3. RoomTypeOK'
    BY <1>5 DEF Aborted, RoomGoto, RoomTypeOK, RoomPlace, NotClosing, NotDeparting
  <2> QED
    BY <1>1, <1>5, <2>2, <2>3, UnchangedPlayers, UnchangedEnv DEF Aborted
<1>6. CASE Shutdown
  <2>1. EnvTypeOK'
    BY <1>6 DEF Shutdown, EnvTypeOK
  <2> QED
    BY <1>1, <1>6, <2>1, UnchangedPlayers, UnchangedRoom, UnchangedChannels
       DEF Shutdown
<1>7. CASE Finished
  BY <1>1, <1>7, UnchangedPlayers, UnchangedRoom, UnchangedChannels, UnchangedEnv
     DEF Finished, vars
<1> QED
  BY <1>2, <1>3, <1>4, <1>5, <1>6, <1>7 DEF Environment

LEMMA NextTypeOK == TypeOK /\ PendOK /\ [Next]_vars => TypeOK' /\ PendOK'
<1> SUFFICES ASSUME TypeOK, PendOK, [Next]_vars PROVE TypeOK' /\ PendOK'
  OBVIOUS
<1>1. CASE Next
  BY <1>1, RoomStepType, PlayerStepType, EnvironmentType DEF Next
<1>2. CASE UNCHANGED vars
  BY <1>2, UnchangedPlayers, UnchangedRoom, UnchangedChannels, UnchangedEnv
     DEF vars, TypeOK
<1> QED
  BY <1>1, <1>2

\* Type correctness of the room, its players and the channels between them:
\* in particular no channel ever holds more than it was made for, and a task
\* holds a request back only while it is blocked sending it.
THEOREM TypeCorrect == Spec => [](TypeOK /\ PendOK)
<1>1. Init => TypeOK /\ PendOK
  BY InitTypeOK
<1>2. (TypeOK /\ PendOK) /\ [Next]_vars => (TypeOK /\ PendOK)'
  BY NextTypeOK
<1> QED
  BY <1>1, <1>2, PTL DEF Spec
=============================================================================
