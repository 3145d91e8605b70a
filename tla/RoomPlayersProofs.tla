-------------------------- MODULE RoomPlayersProofs --------------------------
(***************************************************************************)
(* The players of a room, for any number of them: no task is left outside  *)
(* player_map (NoStrayTask), players over the limit are leaving            *)
(* (ExcessIsLeaving), what the clients are told follows who is in the room *)
(* (MessagesFromKnown, ViewFollowsMembership), the requests that on_close  *)
(* waits for are coming (CloseRequestsComing), nobody is blocked on the    *)
(* channels that it drains (DrainsMeetNobody) and no player floods another *)
(* (FloodsAreCounted).                                                     *)
(***************************************************************************)
EXTENDS RoomInvProofs, FiniteSetTheorems

Note == RoomNotification \cup {Lagged}

\* A notification that ends the reader's stay.
IsLast(note) == note.kind \in {"end", "lagged"}
EndIn(queue) == \E k \in DOMAIN queue : IsLast(queue[k])
-----------------------------------------------------------------------------
(* Notification channels.                                                  *)

LEMMA PushIs ==
  ASSUME NEW queue, NEW note, Push(queue, note) # <<Lagged>>
  PROVE  queue # <<Lagged>> /\ Push(queue, note) = Append(queue, note)
BY DEF Push

LEMMA AppendIs ==
  ASSUME NEW queue \in Seq(Note), NEW note
  PROVE  /\ DOMAIN Append(queue, note) = 1..(Len(queue) + 1)
         /\ Append(queue, note)[Len(queue) + 1] = note
         /\ \A k \in DOMAIN queue : Append(queue, note)[k] = queue[k]
         /\ DOMAIN queue = 1..Len(queue) /\ Len(queue) \in Nat
OBVIOUS

LEMMA TailIs ==
  ASSUME NEW queue \in Seq(Note), queue # <<>>
  PROVE  /\ Tail(queue) \in Seq(Note) /\ Head(queue) = queue[1]
         /\ Len(queue) \in Nat \ {0} /\ Len(Tail(queue)) = Len(queue) - 1
         /\ DOMAIN queue = 1..Len(queue) /\ DOMAIN Tail(queue) = 1..(Len(queue) - 1)
         /\ \A k \in DOMAIN Tail(queue) : Tail(queue)[k] = queue[k + 1]
OBVIOUS

LEMMA LaggedIs ==
  /\ <<Lagged>> \in Seq(Note) /\ DOMAIN <<Lagged>> = {1} /\ <<Lagged>>[1] = Lagged
  /\ EndIn(<<Lagged>>)
<1>1. /\ <<Lagged>> \in Seq(Note) /\ DOMAIN <<Lagged>> = {1} /\ <<Lagged>>[1] = Lagged
  BY DEF Note
<1> QED
  BY <1>1 DEF EndIn, IsLast, Lagged

LEMMA PushKeepsEnd ==
  ASSUME NEW queue \in Seq(Note), NEW note, EndIn(queue) \/ IsLast(note)
  PROVE  EndIn(Push(queue, note))
<1>1. CASE Push(queue, note) = <<Lagged>>
  BY <1>1, LaggedIs
<1>2. CASE Push(queue, note) # <<Lagged>>
  <2>1. Len(queue) + 1 \in 1..(Len(queue) + 1) /\ 1..Len(queue) \subseteq 1..(Len(queue) + 1)
    BY AppendIs
  <2> QED
    BY <1>2, <2>1, PushIs, AppendIs DEF EndIn
<1> QED
  BY <1>1, <1>2

LEMMA ReadKeepsEnd ==
  ASSUME NEW queue \in Seq(Note), queue # <<>>, ~IsLast(Head(queue)), EndIn(queue)
  PROVE  EndIn(Tail(queue))
<1>1. PICK k \in DOMAIN queue : IsLast(queue[k])
  BY DEF EndIn
<1>2. k - 1 \in DOMAIN Tail(queue) /\ Tail(queue)[k - 1] = queue[k]
  <2>1. k # 1 /\ k \in 1..Len(queue)
    BY <1>1, TailIs
  <2>2. k - 1 \in 1..(Len(queue) - 1)
    BY <2>1, TailIs
  <2>3. (k - 1) + 1 = k
    BY <2>1
  <2> QED
    BY <2>2, <2>3, TailIs
<1> QED
  BY <1>1, <1>2 DEF EndIn

\* What a client will know, when one more notification is on its way.
LEMMA KnowsPush ==
  ASSUME NEW known, NEW j, NEW queue \in Seq(Note), NEW note,
         Push(queue, note) # <<Lagged>>
  PROVE  /\ note = PlayerJoined(j) => Knows(known, j, Push(queue, note))
         /\ note = PlayerLeft(j) => ~Knows(known, j, Push(queue, note))
         /\ note \notin {PlayerJoined(j), PlayerLeft(j)} =>
              (Knows(known, j, Push(queue, note)) <=> Knows(known, j, queue))
<1> DEFINE longer == Append(queue, note)
           n == Len(queue) + 1
<1>1. Push(queue, note) = longer
  BY PushIs
<1>2. /\ DOMAIN longer = 1..n /\ longer[n] = note /\ n \in Nat
      /\ DOMAIN queue = 1..(n - 1)
      /\ \A k \in DOMAIN queue : longer[k] = queue[k]
  BY AppendIs
<1> HIDE DEF longer, n
<1>3. /\ n \in DOMAIN longer /\ DOMAIN queue \subseteq DOMAIN longer
      /\ \A k \in DOMAIN longer : k \in DOMAIN queue \/ k = n
      /\ \A k \in DOMAIN queue : k < n /\ k # n
  <2>1. n >= 1
    BY AppendIs DEF n
  <2> QED
    BY <1>2, <2>1
<1>4. PlayerJoined(j) # PlayerLeft(j)
  BY DEF PlayerJoined, PlayerLeft
<1>5. ASSUME note = PlayerJoined(j) PROVE Knows(known, j, longer)
  <2>1. \A l \in DOMAIN longer : ~(l > n)
    BY <1>2
  <2> QED
    BY <1>2, <1>3, <1>5, <2>1 DEF Knows
<1>6. ASSUME note = PlayerLeft(j) PROVE ~Knows(known, j, longer)
  BY <1>2, <1>3, <1>4, <1>6 DEF Knows
<1>7. ASSUME note # PlayerJoined(j), note # PlayerLeft(j)
      PROVE  Knows(known, j, longer) <=> Knows(known, j, queue)
  BY <1>2, <1>3, <1>7 DEF Knows
<1> QED
  BY <1>1, <1>5, <1>6, <1>7

\* Reading a notification takes it from the channel into the client's list.
LEMMA KnowsRead ==
  ASSUME NEW known, NEW j, NEW queue \in Seq(Note), queue # <<>>,
         Head(queue) \in RoomNotification, ~IsLast(Head(queue))
  PROVE  Knows(Heard(known, Head(queue)), j, Tail(queue)) <=> Knows(known, j, queue)
<1> DEFINE rest == Tail(queue)
           first == Head(queue)
           more == Heard(known, first)
<1>1. /\ first = queue[1] /\ 1 \in DOMAIN queue
      /\ \A k \in DOMAIN rest : k + 1 \in DOMAIN queue /\ rest[k] = queue[k + 1]
      /\ \A k \in DOMAIN rest : k \in Nat /\ k >= 1
      /\ \A k \in DOMAIN queue : k = 1 \/ (k - 1 \in DOMAIN rest /\ k > 1)
      /\ \A k \in DOMAIN queue : k \in Nat
  BY TailIs
<1>2. \A k \in DOMAIN queue : k # 1 => rest[k - 1] = queue[k]
  BY <1>1
<1>3. /\ first = PlayerJoined(j) => j \in more
      /\ first = PlayerLeft(j) => j \notin more
      /\ first # PlayerJoined(j) /\ first # PlayerLeft(j) => (j \in more <=> j \in known)
  BY DEF Heard, PlayerJoined, PlayerLeft, RoomNotification, IsLast
<1>4. PlayerJoined(j) # PlayerLeft(j)
  BY DEF PlayerJoined, PlayerLeft
<1> HIDE DEF rest, first, more
<1>5. (\A k \in DOMAIN queue : queue[k] # PlayerLeft(j)) <=>
        first # PlayerLeft(j) /\ \A k \in DOMAIN rest : rest[k] # PlayerLeft(j)
  BY <1>1, <1>2
<1>6. ASSUME NEW k \in DOMAIN queue, k # 1
      PROVE  (\A l \in DOMAIN queue : l > k => queue[l] # PlayerLeft(j)) <=>
               (\A l \in DOMAIN rest : l > k - 1 => rest[l] # PlayerLeft(j))
  <2>1. ASSUME \A l \in DOMAIN queue : l > k => queue[l] # PlayerLeft(j),
               NEW l \in DOMAIN rest, l > k - 1
        PROVE  rest[l] # PlayerLeft(j)
    BY <1>1, <2>1
  <2>2. ASSUME \A l \in DOMAIN rest : l > k - 1 => rest[l] # PlayerLeft(j),
               NEW l \in DOMAIN queue, l > k
        PROVE  queue[l] # PlayerLeft(j)
    <3>1. l # 1 /\ l - 1 \in DOMAIN rest /\ l - 1 > k - 1 /\ rest[l - 1] = queue[l]
      BY <1>1, <1>2, <2>2
    <3> QED
      BY <2>2, <3>1
  <2> QED
    BY <2>1, <2>2
<1>7. (\A l \in DOMAIN queue : l > 1 => queue[l] # PlayerLeft(j)) <=>
        (\A l \in DOMAIN rest : rest[l] # PlayerLeft(j))
  <2>1. ASSUME \A l \in DOMAIN queue : l > 1 => queue[l] # PlayerLeft(j), NEW l \in DOMAIN rest
        PROVE  rest[l] # PlayerLeft(j)
    <3>1. l + 1 \in DOMAIN queue /\ l + 1 > 1 /\ rest[l] = queue[l + 1]
      BY <1>1
    <3> QED
      BY <2>1, <3>1
  <2>2. ASSUME \A l \in DOMAIN rest : rest[l] # PlayerLeft(j), NEW l \in DOMAIN queue, l > 1
        PROVE  queue[l] # PlayerLeft(j)
    <3>1. l - 1 \in DOMAIN rest /\ rest[l - 1] = queue[l]
      BY <1>1, <1>2, <2>2
    <3> QED
      BY <2>2, <3>1
  <2> QED
    BY <2>1, <2>2
<1>8. ASSUME Knows(known, j, queue) PROVE Knows(more, j, rest)
  <2>1. CASE j \in known /\ \A k \in DOMAIN queue : queue[k] # PlayerLeft(j)
    BY <1>3, <1>5, <2>1 DEF Knows
  <2>2. ASSUME NEW k \in DOMAIN queue, queue[k] = PlayerJoined(j),
               \A l \in DOMAIN queue : l > k => queue[l] # PlayerLeft(j)
        PROVE  Knows(more, j, rest)
    <3>1. CASE k = 1
      BY <1>1, <1>3, <1>7, <2>2, <3>1 DEF Knows
    <3>2. CASE k # 1
      BY <1>1, <1>2, <1>6, <2>2, <3>2 DEF Knows
    <3> QED
      BY <3>1, <3>2
  <2> QED
    BY <1>8, <2>1, <2>2 DEF Knows
<1>9. ASSUME Knows(more, j, rest) PROVE Knows(known, j, queue)
  <2>1. CASE j \in more /\ \A k \in DOMAIN rest : rest[k] # PlayerLeft(j)
    <3>1. CASE first = PlayerJoined(j)
      BY <1>1, <1>7, <2>1, <3>1 DEF Knows
    <3>2. CASE first # PlayerJoined(j)
      BY <1>3, <1>5, <2>1, <3>2 DEF Knows
    <3> QED
      BY <3>1, <3>2
  <2>2. ASSUME NEW k \in DOMAIN rest, rest[k] = PlayerJoined(j),
               \A l \in DOMAIN rest : l > k => rest[l] # PlayerLeft(j)
        PROVE  Knows(known, j, queue)
    <3>1. k + 1 \in DOMAIN queue /\ queue[k + 1] = PlayerJoined(j) /\ k + 1 # 1
          /\ (k + 1) - 1 = k
      BY <1>1, <2>2
    <3> QED
      BY <1>6, <2>2, <3>1 DEF Knows
  <2> QED
    BY <1>9, <2>1, <2>2 DEF Knows
<1> QED
  BY <1>8, <1>9 DEF rest, first, more

\* The messages in the channel are from players the client knows by then.
InOrder(known, queue) ==
  \A k \in DOMAIN queue :
    queue[k].kind = "message" => Knows(known, queue[k].of, SubSeq(queue, 1, k - 1))

LEMMA InOrderPush ==
  ASSUME NEW known, NEW queue \in Seq(Note), NEW note \in Note, InOrder(known, queue),
         note.kind = "message" /\ Push(queue, note) # <<Lagged>> =>
           Knows(known, note.of, queue)
  PROVE  InOrder(known, Push(queue, note))
<1>1. CASE Push(queue, note) = <<Lagged>>
  BY <1>1, LaggedIs DEF InOrder, Lagged
<1>2. CASE Push(queue, note) # <<Lagged>>
  <2> DEFINE longer == Append(queue, note)
             n == Len(queue) + 1
  <2>1. Push(queue, note) = longer
    BY <1>2, PushIs
  <2>2. /\ DOMAIN longer = 1..n /\ longer[n] = note /\ n \in Nat /\ n - 1 = Len(queue)
        /\ DOMAIN queue = 1..(n - 1)
        /\ \A k \in DOMAIN queue : longer[k] = queue[k]
    BY AppendIs
  <2>3. \A k \in 1..n : SubSeq(longer, 1, k - 1) = SubSeq(queue, 1, k - 1)
    OBVIOUS
  <2>4. SubSeq(queue, 1, Len(queue)) = queue
    BY SubSeqFull
  <2> HIDE DEF longer, n
  <2> SUFFICES ASSUME NEW k \in DOMAIN longer, longer[k].kind = "message"
               PROVE  Knows(known, longer[k].of, SubSeq(longer, 1, k - 1))
    BY <2>1 DEF InOrder
  <2>5. CASE k = n
    BY <1>2, <2>2, <2>3, <2>4, <2>5
  <2>6. CASE k # n
    <3>1. k \in DOMAIN queue
      BY <2>2, <2>6
    <3> QED
      BY <2>2, <2>3, <3>1 DEF InOrder
  <2> QED
    BY <2>5, <2>6
<1> QED
  BY <1>1, <1>2

LEMMA InOrderRead ==
  ASSUME NEW known, NEW queue \in Seq(Note), queue # <<>>,
         Head(queue) \in RoomNotification, ~IsLast(Head(queue)), InOrder(known, queue)
  PROVE  InOrder(Heard(known, Head(queue)), Tail(queue))
<1> DEFINE rest == Tail(queue)
<1> SUFFICES ASSUME NEW k \in DOMAIN rest, rest[k].kind = "message"
             PROVE  Knows(Heard(known, Head(queue)), rest[k].of, SubSeq(rest, 1, k - 1))
  BY DEF InOrder
<1>1. /\ k + 1 \in DOMAIN queue /\ rest[k] = queue[k + 1] /\ k \in Nat /\ k >= 1
      /\ (k + 1) - 1 = k /\ k \in 1..Len(queue)
  BY TailIs
<1> DEFINE part == SubSeq(queue, 1, k)
<1>2. Knows(known, rest[k].of, part)
  BY <1>1 DEF InOrder
<1>3. Head(part) = queue[1] /\ Tail(part) = SubSeq(queue, 2, k)
  BY <1>1, HeadTailOfSubSeq
<1>4. part \in Seq(Note) /\ part # <<>>
  BY <1>1
<1>5. SubSeq(rest, 1, k - 1) = SubSeq(queue, 2, k)
  BY <1>1
<1>6. Head(queue) = queue[1]
  BY TailIs
<1>7. part # <<>> /\ Head(part) \in RoomNotification /\ ~IsLast(Head(part))
  BY <1>3, <1>4, <1>6
<1> HIDE DEF part
<1>8. Knows(Heard(known, Head(part)), rest[k].of, Tail(part))
  BY <1>2, <1>4, <1>7, KnowsRead
<1> QED
  BY <1>3, <1>5, <1>6, <1>8
-----------------------------------------------------------------------------
(* What the room does in its main loop, to its players and their channels. *)

Open == {"select", "leave"}

\* A step that none of the players notices.
Rests ==
  UNCHANGED <<rpc, players, msgSent, limits, departing, notes, requests, closes, shutdown,
              playerVars>>

\* p is sent a message, or told to end, or nothing.
TalksTo(p) ==
  \/ notes'[p] = notes[p]
  \/ \E note \in RoomNotification :
       /\ note.kind \in {"message", "end"}
       /\ notes'[p] = Push(notes[p], note)
       /\ note.kind = "message" => p \in players /\ note.of \in players \ {p}

Talks ==
  /\ rpc = "select"
  /\ UNCHANGED <<rpc, players, departing, shutdown, playerVars>>
  /\ Posted' = Posted
  /\ \A p \in PlayerId : TalksTo(p)
  /\ limits' = limits \/ Reconfigure
  /\ notes' \in [PlayerId -> Seq(Note)]

\* The last request of i is received.
Departs(i) ==
  /\ rpc = "select" /\ rpc' = "leave"
  /\ players' = players \ {i}
  /\ departing'.id = i
  /\ i \in Posted /\ Posted \ {i} \subseteq Posted' /\ Posted' \subseteq Posted
  /\ UNCHANGED <<msgSent, limits, notes, shutdown, playerVars>>

\* A request that is not its sender's last one is received.
LEMMA PostedByTail ==
  ASSUME TypeOK, requests # <<>>, requests' = Tail(requests), closes' = closes
  PROVE  /\ Posted' \subseteq Posted
         /\ Posted \ {Head(requests).from} \subseteq Posted'
         /\ Head(requests).command # "drop" => Posted' = Posted
<1>1. Posted' \subseteq Posted
  BY PostedByTake
<1>2. /\ requests \in Seq(RoomRequest) /\ Head(requests) = requests[1]
      /\ \A k \in DOMAIN requests :
           k = 1 \/ (k - 1 \in DOMAIN requests' /\ requests'[k - 1] = requests[k])
  BY DEF TypeOK, ChannelTypeOK
<1>3. ASSUME NEW i \in Posted, i # Head(requests).from \/ Head(requests).command # "drop"
      PROVE  i \in Posted'
  BY <1>2, <1>3 DEF Posted, LastRequestsIn
<1> QED
  BY <1>1, <1>3

LEMMA PostedByTailOfCloses ==
  ASSUME TypeOK, closes # <<>>, closes' = Tail(closes), requests' = requests
  PROVE  /\ Posted' \subseteq Posted
         /\ Posted \ {Head(closes).from} \subseteq Posted'
<1>1. Posted' \subseteq Posted
  BY PostedByTake
<1>2. /\ closes \in Seq(CloseRequest) /\ Head(closes) = closes[1]
      /\ \A k \in DOMAIN closes :
           k = 1 \/ (k - 1 \in DOMAIN closes' /\ closes'[k - 1] = closes[k])
  BY DEF TypeOK, ChannelTypeOK
<1>3. ASSUME NEW i \in Posted, i # Head(closes).from PROVE i \in Posted'
  BY <1>2, <1>3 DEF Posted, LastRequestsIn
<1> QED
  BY <1>1, <1>3

LEMMA NotesTyped ==
  ASSUME TypeOK
  PROVE  notes \in [PlayerId -> Seq(Note)]
BY DEF TypeOK, ChannelTypeOK, Note

\* Notify reaches one player.
LEMMA NotifyTalks ==
  ASSUME TypeOK, NEW i \in PlayerId, NEW note \in RoomNotification, Notify(i, note),
         note.kind \in {"message", "end"},
         note.kind = "message" => i \in players /\ note.of \in players \ {i}
  PROVE  \A p \in PlayerId : TalksTo(p)
<1> SUFFICES ASSUME NEW p \in PlayerId PROVE TalksTo(p)
  OBVIOUS
<1>1. notes \in [PlayerId -> Seq(Note)]
  BY NotesTyped
<1>2. \/ notes'[p] = notes[p]
      \/ p = i /\ notes'[p] = Push(notes[p], note)
  BY <1>1 DEF Notify
<1> QED
  BY <1>2 DEF TalksTo

LEMMA SendTalks ==
  ASSUME TypeOK, TypeOK', RecvSend
  PROVE  Talks
<1> DEFINE i == Head(requests).from
           j == Head(requests).to
<1>1. i \in PlayerId /\ j \in PlayerId /\ Head(requests).command = "send"
  <2>1. Head(requests) \in RoomRequest
    BY TakeType DEF RecvSend, TakeRequest, TypeOK, ChannelTypeOK
  <2> QED
    BY <2>1 DEF RoomRequest, RecvSend, TakeRequest
<1>2. \A p \in PlayerId : TalksTo(p)
  <2>1. CASE UNCHANGED notes
    BY <2>1 DEF TalksTo
  <2>2. CASE ~SenderGone(i) /\ CanReceiveFrom(i, j) /\ Notify(j, MessageReceived(i))
    <3>1. /\ MessageReceived(i) \in RoomNotification
          /\ MessageReceived(i).kind = "message" /\ MessageReceived(i).of = i
      BY <1>1, MessageTypes DEF MessageReceived
    <3>2. i \in players /\ j \in players /\ i # j
      BY <2>2 DEF SenderGone, CanReceiveFrom
    <3> QED
      BY <1>1, <2>2, <3>1, <3>2, NotifyTalks
  <2>3. ASSUME NEW code \in CloseCode, Notify(i, EndOfStay(code))
        PROVE  \A p \in PlayerId : TalksTo(p)
    <3>1. EndOfStay(code) \in RoomNotification /\ EndOfStay(code).kind = "end"
      BY <1>1, MessageTypes DEF EndOfStay
    <3> QED
      BY <1>1, <2>3, <3>1, NotifyTalks
  <2>4. "InvalidDestination" \in CloseCode /\ "Policy" \in CloseCode
    BY DEF CloseCode
  <2> QED
    BY <2>1, <2>2, <2>3, <2>4 DEF RecvSend, TrySendMessage
<1>3. Posted' = Posted
  BY <1>1, PostedByTail DEF RecvSend, TakeRequest
<1>4. notes' \in [PlayerId -> Seq(Note)]
  BY NotesTyped DEF TypeOK, ChannelTypeOK, Note
<1> QED
  BY <1>2, <1>3, <1>4 DEF RecvSend, TakeRequest, Talks, At, envVars

LEMMA RefusalTalks ==
  ASSUME TypeOK, TypeOK', RecvSeal, rpc' = "select"
  PROVE  Talks /\ limits' = limits /\ msgSent' = msgSent
<1> DEFINE i == Head(requests).from
<1>1. i \in PlayerId /\ Head(requests).command = "seal"
  <2>1. Head(requests) \in RoomRequest
    BY TakeType DEF RecvSeal, TakeRequest, TypeOK, ChannelTypeOK
  <2> QED
    BY <2>1 DEF RoomRequest, RecvSeal, TakeRequest
<1>2. RefuseSeal(i) /\ UNCHANGED roomVars
  BY DEF RecvSeal, BeginClose, RoomGoto
<1>3. \A p \in PlayerId : TalksTo(p)
  <2>1. CASE UNCHANGED notes
    BY <2>1 DEF TalksTo
  <2>2. CASE Notify(i, EndOfStay("OnlyHostCanSeal"))
    <3>1. /\ EndOfStay("OnlyHostCanSeal") \in RoomNotification
          /\ EndOfStay("OnlyHostCanSeal").kind = "end"
      BY <1>1, MessageTypes DEF EndOfStay, CloseCode
    <3> QED
      BY <1>1, <2>2, <3>1, NotifyTalks
  <2> QED
    BY <1>2, <2>1, <2>2 DEF RefuseSeal
<1>4. Posted' = Posted
  BY <1>1, PostedByTail DEF RecvSeal, TakeRequest
<1>5. notes' \in [PlayerId -> Seq(Note)]
  BY DEF TypeOK, ChannelTypeOK, Note
<1> QED
  BY <1>2, <1>3, <1>4, <1>5 DEF RecvSeal, TakeRequest, Talks, At, envVars, roomVars

LEMMA ReconfigureTalks ==
  ASSUME TypeOK, TypeOK', Reconfigure
  PROVE  Talks /\ msgSent' = msgSent
<1>1. PICK new \in [players : PlayerLimits, messages : MessageLimits, counted : {msgSent}],
           kicked \in SUBSET (players \ {HOST_ID}) :
             notes' = [p \in PlayerId |->
                         IF p \in kicked /\ Alive(p)
                         THEN Push(notes[p], EndOfStay("TooManyPlayers")) ELSE notes[p]]
  BY DEF Reconfigure
<1>2. ASSUME NEW p \in PlayerId PROVE TalksTo(p)
  <2>1. /\ EndOfStay("TooManyPlayers") \in RoomNotification
        /\ EndOfStay("TooManyPlayers").kind = "end"
    BY MessageTypes DEF EndOfStay, CloseCode
  <2>2. notes'[p] = notes[p] \/ notes'[p] = Push(notes[p], EndOfStay("TooManyPlayers"))
    BY <1>1
  <2> QED
    BY <2>1, <2>2 DEF TalksTo
<1>3. Posted' = Posted
  BY DEF Reconfigure, Posted
<1>4. notes' \in [PlayerId -> Seq(Note)]
  BY DEF TypeOK, ChannelTypeOK, Note
<1> QED
  BY <1>2, <1>3, <1>4 DEF Reconfigure, Talks, At

LEMMA DepartureIs ==
  ASSUME TypeOK, RecvDrop \/ RecvClose, rpc' = "leave"
  PROVE  \E i \in PlayerId : Departs(i)
<1> USE DEF At, RoomGoto, BeginClose, BeginDisconnect, envVars
<1>1. CASE RecvDrop
  <2> DEFINE i == Head(requests).from
  <2>1. /\ requests # <<>> /\ requests' = Tail(requests) /\ closes' = closes
        /\ Head(requests).command = "drop" /\ rpc = "select"
        /\ UNCHANGED <<shutdown, playerVars>>
    BY <1>1 DEF RecvDrop, TakeRequest
  <2>2. \E code : BeginDisconnect(i, code)
    BY <1>1 DEF RecvDrop
  <2>3. i \in Posted
    BY <2>1, HeadIsPosted
  <2>4. Posted' \subseteq Posted /\ Posted \ {i} \subseteq Posted'
    BY <2>1, PostedByTail
  <2>5. i \in PlayerId
    BY <2>3 DEF Posted, LastRequestsIn
  <2> QED
    BY <2>1, <2>2, <2>3, <2>4, <2>5 DEF Departs
<1>2. CASE RecvClose
  <2> DEFINE i == Head(closes).from
  <2>1. /\ closes # <<>> /\ closes' = Tail(closes) /\ requests' = requests
        /\ rpc = "select" /\ UNCHANGED <<shutdown, playerVars>>
    BY <1>2 DEF RecvClose
  <2>2. \E code : BeginDisconnect(i, code)
    BY <1>2 DEF RecvClose
  <2>3. i \in Posted
    BY <2>1, HeadIsPosted
  <2>4. Posted' \subseteq Posted /\ Posted \ {i} \subseteq Posted'
    BY <2>1, PostedByTailOfCloses
  <2>5. i \in PlayerId
    BY <2>3 DEF Posted, LastRequestsIn
  <2> QED
    BY <2>1, <2>2, <2>3, <2>4, <2>5 DEF Departs
<1> QED
  BY <1>1, <1>2

\* All that a room may do in its main loop, and stay there.
LEMMA OpenStep ==
  ASSUME TypeOK, TypeOK', RoomStep, ~Start, ~NewClient, rpc' \in Open
  PROVE  /\ rpc \in Open
         /\ UNCHANGED playerVars /\ shutdown' = shutdown
         /\ \/ Rests \/ Talks \/ FinishDisconnect
            \/ \E i \in PlayerId : Departs(i)
<1> USE DEF At, RoomGoto, Open, envVars
<1>1. UNCHANGED playerVars
  BY PlayersLeftAlone
<1>2. CASE TurnClientAway \/ AwaitHandle \/ SendCloseDone
  BY <1>1, <1>2 DEF TurnClientAway, AwaitHandle, SendCloseDone, Rests, channelVars
<1>3. CASE RecvSend \/ Reconfigure
  BY <1>3, SendTalks, ReconfigureTalks DEF Talks
<1>4. CASE RecvSeal
  BY <1>1, <1>4, RefusalTalks DEF RecvSeal, BeginClose, TakeRequest, Talks, roomVars
<1>5. CASE RecvDrop \/ RecvClose
  BY <1>1, <1>5, DepartureIs DEF RecvDrop, RecvClose, TakeRequest, BeginClose,
     BeginDisconnect
<1>6. CASE FinishDisconnect
  BY <1>1, <1>6 DEF FinishDisconnect
<1>7. CASE ReconfigureExpired \/ TimeLimit \/ RoomHearsShutdown
  BY <1>7 DEF ReconfigureExpired, TimeLimit, RoomHearsShutdown, BeginClose
<1>8. CASE NotifyClosing \/ NotifyClosingDone \/ CollectRequest \/ CollectClose
           \/ CollectDone \/ SendSeal
  BY <1>8 DEF NotifyClosing, NotifyClosingDone, CollectRequest, CollectClose, CollectDone,
              SendSeal
<1>9. CASE DrainCloses \/ DrainRequests \/ JoinPlayers \/ DrainClients \/ AwaitCloses
           \/ SignalClosed
  BY <1>9 DEF DrainCloses, DrainRequests, JoinPlayers, DrainClients, AwaitCloses,
              SignalClosed
<1> QED
  BY <1>2, <1>3, <1>4, <1>5, <1>6, <1>7, <1>8, <1>9 DEF RoomStep, RoomCloses, RoomWindsDown

\* A player joins.
LEMMA JoinIs ==
  ASSUME TypeOK, Start \/ NewClient
  PROVE  \E i \in PlayerId :
           /\ OnConnect(i) /\ rpc' = "select" /\ UNCHANGED <<limits, shutdown>>
           /\ Posted' = Posted
           /\ \/ rpc = "start" /\ i = HOST_ID
              \/ rpc = "select" /\ i \notin players /\ HasSpace
           /\ rpc = "select" /\ UniqueIds => ppc[i] = "absent"
<1>1. CASE Start
  BY <1>1, IdAssumption DEF Start, IdAssumption, At, RoomGoto, OnConnect, Posted, envVars
<1>2. CASE NewClient
  <2>1. PICK i \in PlayerId : FreshId(i) /\ OnConnect(i)
    BY <1>2 DEF NewClient
  <2> QED
    BY <1>2, <2>1 DEF NewClient, FreshId, At, OnConnect, Posted, envVars
<1> QED
  BY <1>1, <1>2

\* Before the host has joined there is nobody.
StartOK == rpc = "start" => NoSenders /\ players = {}

LEMMA StartNext ==
  ASSUME TypeOK, StartOK, [Next]_vars
  PROVE  StartOK'
<1> SUFFICES ASSUME rpc' = "start" PROVE NoSenders' /\ players' = {}
  BY DEF StartOK
<1> USE DEF RoomGoto, At
<1>1. CASE RoomStep
  <2>1. rpc = "start" /\ UNCHANGED <<players, ppc>>
    BY <1>1 DEF RoomStep, RoomCloses, RoomWindsDown, Start, NewClient, TurnClientAway, RecvSend,
       Reconfigure, RecvSeal, RecvDrop, RecvClose, BeginClose, BeginDisconnect,
       ReconfigureExpired, TimeLimit, roomVars,
       RoomHearsShutdown, TakeRequest, AwaitHandle, FinishDisconnect, NotifyClosing,
       NotifyClosingDone, CollectRequest, CollectClose, CollectDone, SendSeal, DrainCloses,
       DrainRequests, JoinPlayers, DrainClients, AwaitCloses, SignalClosed, SendCloseDone,
       playerVars
  <2> QED
    BY <2>1 DEF StartOK, NoSenders
<1>2. ASSUME NEW i \in PlayerId, PlayerStep(i) PROVE FALSE
  BY <1>2, PlayerStepMoves DEF StartOK, NoSenders, roomVars
<1>3. CASE Arrive \/ LobbyReads \/ LobbyHearsShutdown \/ LobbyAborts
           \/ Shutdown \/ Finished \/ UNCHANGED vars
  BY <1>3 DEF Arrive, LobbyReads, LobbyHearsShutdown, LobbyAborts, Shutdown,
              Finished, vars, roomVars, playerVars,
              StartOK, NoSenders
<1>4. CASE Aborted
  BY <1>4 DEF Aborted
<1> QED
  BY <1>1, <1>2, <1>3, <1>4 DEF Next, Environment
-----------------------------------------------------------------------------
(* No task is left outside player_map.                                     *)

StrayInv == StartOK /\ NoStrayTask

LEMMA StrayNext ==
  ASSUME UniqueIds, RoomInv, TypeOK', StrayInv, [Next]_vars
  PROVE  StrayInv'
<1> USE DEF RoomInv
<1>1. StartOK'
  BY StartNext DEF StrayInv
<1> SUFFICES ASSUME rpc' \in Open, NEW i \in PlayerId,
                    ppc'[i] \in {"run", "asking", "leaving"}
             PROVE  i \in players'
  BY <1>1 DEF StrayInv, NoStrayTask, Open
<1>2. CASE RoomStep /\ (Start \/ NewClient)
  <2>1. PICK j \in PlayerId : OnConnect(j) /\ (rpc = "start" \/ rpc = "select")
    BY <1>2, JoinIs
  <2>2. CASE i # j
    <3>1. ppc[i] \in {"run", "asking", "leaving"}
      BY <2>1, <2>2 DEF OnConnect, TypeOK, PlayerTypeOK
    <3>2. i \in players
      BY <2>1, <3>1 DEF StrayInv, StartOK, NoSenders, NoStrayTask
    <3> QED
      BY <2>1, <3>1, <3>2 DEF OnConnect, Survivors, Alive
  <2> QED
    BY <2>1, <2>2 DEF OnConnect
<1>3. CASE RoomStep /\ ~(Start \/ NewClient)
  <2>1. rpc \in Open /\ ppc[i] = ppc'[i]
    BY <1>3, OpenStep DEF playerVars
  <2>2. i \in players
    BY <2>1 DEF StrayInv, NoStrayTask, Open
  <2>3. CASE Rests \/ Talks
    BY <2>2, <2>3 DEF Rests, Talks
  <2>4. CASE FinishDisconnect
    BY <2>1, <2>2, <2>4 DEF FinishDisconnect, Survivors, Alive
  <2>5. ASSUME NEW j \in PlayerId, Departs(j) PROVE i \in players'
    BY <2>1, <2>2, <2>5 DEF Departs, LastRequestOK, Over
  <2> QED
    BY <1>3, <2>3, <2>4, <2>5, OpenStep
<1>4. ASSUME NEW j \in PlayerId, PlayerStep(j) PROVE i \in players'
  <2>1. ppc[i] \in {"run", "asking", "leaving"}
    BY <1>4, PlayerStepMoves DEF TypeOK, PlayerTypeOK
  <2> QED
    BY <1>4, <2>1, PlayerStepMoves DEF StrayInv, NoStrayTask, roomVars, Open
<1>5. CASE Arrive \/ LobbyReads \/ LobbyHearsShutdown \/ LobbyAborts
           \/ Shutdown \/ Finished \/ UNCHANGED vars
  BY <1>5 DEF Arrive, LobbyReads, LobbyHearsShutdown, LobbyAborts, Shutdown,
              Finished, vars, roomVars, playerVars,
              StrayInv, NoStrayTask, Open
<1>6. CASE Aborted
  BY <1>6 DEF Aborted, RoomGoto, Open
<1> QED
  BY <1>2, <1>3, <1>4, <1>5, <1>6 DEF Next, Environment

\* While no id is drawn twice, every player task that runs is in player_map as
\* long as the room is in its main loop, so that it can be told, kicked, awaited.
THEOREM NobodyIsLeftOut ==
  ASSUME UniqueIds
  PROVE  Spec => []NoStrayTask
<1>1. Init => StrayInv
  BY DEF Init, StrayInv, StartOK, NoSenders, NoStrayTask
<1>2. RoomInv /\ RoomInv' /\ StrayInv /\ [Next]_vars => StrayInv'
  BY StrayNext DEF RoomInv
<1>3. StrayInv => NoStrayTask
  BY DEF StrayInv
<1> QED
  BY <1>1, <1>2, <1>3, RoomInvariant, PTL DEF Spec
-----------------------------------------------------------------------------
(* Players over the limit are leaving.                                     *)

\* What a player's task does with its channel, and with what its client knows.
LEMMA PlayerStepReads ==
  ASSUME TypeOK, NEW i \in PlayerId, PlayerStep(i)
  PROVE  /\ UNCHANGED roomVars /\ shutdown' = shutdown
         /\ \A p \in PlayerId \ {i} :
              notes'[p] = notes[p] /\ view'[p] = view[p] /\ ppc'[p] = ppc[p]
         /\ ppc'[i] \in {"run", "asking"} =>
              /\ ppc[i] \in {"run", "asking"}
              /\ \/ notes'[i] = notes[i] /\ view'[i] = view[i]
                 \/ /\ notes[i] # <<>> /\ notes'[i] = Tail(notes[i])
                    /\ Head(notes[i]) \in RoomNotification /\ ~IsLast(Head(notes[i]))
                    /\ view'[i] = Heard(view[i], Head(notes[i]))
<1> USE DEF PlayerGoto
<1>1. /\ ppc \in [PlayerId -> PlayerPlace]
      /\ notes \in [PlayerId -> Seq(Note)] /\ view \in [PlayerId -> SUBSET PlayerId]
  BY NotesTyped DEF TypeOK, PlayerTypeOK
<1>2. CASE ClientAsks(i)
  BY <1>1, <1>2 DEF ClientAsks, SendReq, PostRequest
<1>3. CASE ClientFaults(i) \/ ClientGone(i)
  BY <1>1, <1>3 DEF ClientFaults, ClientGone, CloseConnection, DropConnection, PostRequest,
     envVars
<1>4. CASE ReadNews(i)
  <2>1. Head(notes[i]) \in Note
    BY <1>1, <1>4, TailIs DEF ReadNews
  <2> QED
    BY <1>1, <1>4, <2>1 DEF ReadNews, IsLast, Note, Lagged, envVars
<1>5. CASE ReadEnd(i)
  BY <1>1, <1>5 DEF ReadEnd, CloseConnection, envVars
<1>6. CASE ReadClosed(i) \/ HearShutdown(i) \/ Return(i)
  BY <1>1, <1>6 DEF ReadClosed, HearShutdown, Return, channelVars, envVars
<1>7. CASE ResumeAsking(i) \/ ResumeLeaving(i)
  BY <1>1, <1>7 DEF ResumeAsking, ResumeLeaving, Unblock, envVars
<1> QED
  BY <1>2, <1>3, <1>4, <1>5, <1>6, <1>7 DEF PlayerStep

\* Who is on the way out stays so.
LEMMA OutStays ==
  ASSUME TypeOK, NEW p \in PlayerId, ppc'[p] = ppc[p], OnTheWayOut(p),
         notes'[p] = notes[p] \/ \E note : notes'[p] = Push(notes[p], note)
  PROVE  OnTheWayOut(p)'
<1>1. notes[p] \in Seq(Note)
  BY NotesTyped
<1>2. EndIn(notes[p]) => EndIn(notes'[p])
  BY <1>1, PushKeepsEnd
<1> QED
  BY <1>2 DEF OnTheWayOut, ToldToEnd, EndIn, IsLast

LEMMA OutStaysForPlayer ==
  ASSUME TypeOK, NEW i \in PlayerId, PlayerStep(i), NEW p \in PlayerId, OnTheWayOut(p)
  PROVE  OnTheWayOut(p)'
<1>1. notes[p] \in Seq(Note)
  BY NotesTyped
<1>2. CASE p # i
  BY <1>2, PlayerStepReads, OutStays
<1>3. CASE p = i /\ ppc'[p] \in {"run", "asking"}
  <2>1. EndIn(notes[p])
    BY <1>3, PlayerStepReads DEF OnTheWayOut, ToldToEnd, EndIn, IsLast
  <2>2. EndIn(notes'[p])
    BY <1>1, <1>3, <2>1, PlayerStepReads, ReadKeepsEnd
  <2> QED
    BY <2>2 DEF OnTheWayOut, ToldToEnd, EndIn, IsLast
<1> QED
  BY <1>2, <1>3 DEF OnTheWayOut

Staying == {p \in players : ~OnTheWayOut(p)}
FitInv ==
  /\ StartOK /\ IsFiniteSet(players)
  /\ rpc \in Open => Cardinality(Staying) <= limits.players

LEMMA FewerStay ==
  ASSUME FitInv, TypeOK, TypeOK', players' \subseteq players, StartOK',
         rpc' \in Open => rpc \in Open /\ limits' = limits /\ Staying' \subseteq Staying
  PROVE  FitInv'
<1>1. IsFiniteSet(players)' /\ IsFiniteSet(Staying)
  BY FS_Subset DEF FitInv, Staying
<1>2. ASSUME rpc' \in Open PROVE Cardinality(Staying') <= limits.players
  <2>1. /\ Cardinality(Staying') <= Cardinality(Staying)
        /\ Cardinality(Staying) \in Nat /\ Cardinality(Staying') \in Nat
    BY <1>1, <1>2, FS_Subset, FS_CardinalityType
  <2>2. limits.players \in Nat
    BY LimitAssumption DEF LimitAssumption, TypeOK, RoomTypeOK
  <2> QED
    BY <1>2, <2>1, <2>2 DEF FitInv
<1> QED
  BY <1>1, <1>2 DEF FitInv

LEMMA FitJoin ==
  ASSUME TypeOK, TypeOK', FitInv, Start \/ NewClient, StartOK'
  PROVE  FitInv'
<1>1. PICK i \in PlayerId :
        /\ OnConnect(i) /\ limits' = limits
        /\ rpc = "start" \/ HasSpace
  BY JoinIs
<1>2. IsFiniteSet(players) /\ Cardinality(players) \in Nat
  BY FS_CardinalityType DEF FitInv
<1>3. limits.players \in Nat \ {0}
  BY LimitAssumption DEF LimitAssumption, TypeOK, RoomTypeOK
<1>4. players' \subseteq players \cup {i}
  BY <1>1 DEF OnConnect, Survivors
<1>5. /\ IsFiniteSet(players \cup {i})
      /\ Cardinality(players \cup {i}) <= Cardinality(players) + 1
      /\ Cardinality(players \cup {i}) \in Nat
  <2>1. /\ IsFiniteSet(players \cup {i})
        /\ Cardinality(players \cup {i}) =
             IF i \in players THEN Cardinality(players) ELSE Cardinality(players) + 1
    BY <1>2, FS_AddElement
  <2> QED
    BY <1>2, <2>1
<1>6. Cardinality(players) < limits.players
  <2>1. CASE rpc = "start"
    BY <1>3, <2>1, FS_EmptySet DEF FitInv, StartOK
  <2> QED
    BY <1>1, <2>1 DEF HasSpace
<1>7. /\ IsFiniteSet(players')
      /\ Cardinality(Staying') <= Cardinality(players \cup {i})
      /\ Cardinality(Staying') \in Nat
  BY <1>4, <1>5, FS_Subset, FS_CardinalityType DEF Staying
<1> QED
  BY <1>1, <1>2, <1>3, <1>5, <1>6, <1>7 DEF FitInv

LEMMA FitReconfigure ==
  ASSUME TypeOK, TypeOK', FitInv, Reconfigure, StartOK'
  PROVE  FitInv'
<1>1. PICK new \in [players : PlayerLimits, messages : MessageLimits, counted : {msgSent}],
           kicked \in SUBSET (players \ {HOST_ID}) :
        /\ limits' = new
        /\ \/ Cardinality(kicked) = Excess(new.players)
           \/ kicked = players \ {HOST_ID}
        /\ notes' = [p \in PlayerId |->
                       IF p \in kicked /\ Alive(p)
                       THEN Push(notes[p], EndOfStay("TooManyPlayers")) ELSE notes[p]]
  BY DEF Reconfigure
<1>2. players' = players /\ ppc' = ppc /\ players \subseteq PlayerId
  BY DEF Reconfigure, playerVars, TypeOK, RoomTypeOK
<1>3. new.players \in Nat \ {0}
  BY LimitAssumption DEF LimitAssumption
<1>4. IsFiniteSet(players) /\ Cardinality(players) \in Nat
  BY FS_CardinalityType DEF FitInv
<1>5. ASSUME NEW p \in kicked PROVE OnTheWayOut(p)'
  <2>1. CASE Alive(p)
    <3>1. notes[p] \in Seq(Note) /\ notes'[p] = Push(notes[p], EndOfStay("TooManyPlayers"))
      BY <1>1, <1>2, <2>1, NotesTyped
    <3>2. EndIn(notes'[p])
      BY <3>1, PushKeepsEnd DEF IsLast, EndOfStay
    <3> QED
      BY <3>2 DEF OnTheWayOut, ToldToEnd, EndIn, IsLast
  <2>2. CASE ~Alive(p)
    BY <1>2, <2>2 DEF Alive, OnTheWayOut
  <2> QED
    BY <2>1, <2>2
<1>6. Staying' \subseteq players \ kicked
  BY <1>2, <1>5 DEF Staying
<1>7. /\ IsFiniteSet(kicked) /\ IsFiniteSet(players \ kicked)
      /\ Cardinality(players \ kicked) \in Nat
      /\ Cardinality(players \ kicked) = Cardinality(players) - Cardinality(kicked)
  <2>1. IsFiniteSet(kicked) /\ IsFiniteSet(players \ kicked)
    BY <1>4, FS_Subset
  <2>2. players \cap kicked = kicked
    OBVIOUS
  <2> QED
    BY <1>4, <2>1, <2>2, FS_Difference, FS_CardinalityType
<1>8. Cardinality(players \ kicked) <= new.players
  <2>1. CASE Cardinality(kicked) = Excess(new.players)
    BY <1>3, <1>4, <1>7, <2>1, FS_CardinalityType DEF Excess
  <2>2. CASE kicked = players \ {HOST_ID}
    <3>1. players \ kicked \subseteq {HOST_ID}
      BY <2>2
    <3>2. IsFiniteSet({HOST_ID}) /\ Cardinality({HOST_ID}) = 1
      BY FS_Singleton
    <3>3. Cardinality(players \ kicked) <= 1
      BY <3>1, <3>2, FS_Subset
    <3> QED
      BY <1>3, <1>7, <3>3
  <2> QED
    BY <1>1, <2>1, <2>2
<1>9. Cardinality(Staying') <= Cardinality(players \ kicked) /\ Cardinality(Staying') \in Nat
  BY <1>6, <1>7, FS_Subset, FS_CardinalityType
<1> QED
  BY <1>1, <1>2, <1>3, <1>4, <1>7, <1>8, <1>9 DEF FitInv

LEMMA FitNext ==
  ASSUME TypeOK, TypeOK', FitInv, [Next]_vars
  PROVE  FitInv'
<1>1. StartOK'
  BY StartNext DEF FitInv
<1>2. CASE RoomStep /\ (Start \/ NewClient)
  BY <1>1, <1>2, FitJoin
<1>3. CASE RoomStep /\ ~(Start \/ NewClient)
  <2>1. CASE rpc' \notin Open
    <3>1. players' \subseteq players
      BY <1>3 DEF RoomStep, RoomCloses, RoomWindsDown, TurnClientAway, RecvSend, Reconfigure,
         RecvSeal, RecvDrop, RecvClose, BeginClose, BeginDisconnect, ReconfigureExpired,
         TimeLimit, roomVars, RoomHearsShutdown, TakeRequest, AwaitHandle, FinishDisconnect,
         Survivors, NotifyClosing, NotifyClosingDone, CollectRequest, CollectClose,
         CollectDone, SendSeal, DrainCloses, DrainRequests, JoinPlayers, DrainClients,
         AwaitCloses, SignalClosed, SendCloseDone
    <3> QED
      BY <1>1, <2>1, <3>1, FewerStay
  <2>2. CASE rpc' \in Open /\ Reconfigure
    BY <1>1, <2>2, FitReconfigure
  <2>3. CASE rpc' \in Open /\ ~Reconfigure
    <3>1. rpc \in Open /\ ppc' = ppc
      BY <1>3, <2>3, OpenStep DEF playerVars
    <3>2. /\ players' \subseteq players /\ limits' = limits
          /\ \A p \in PlayerId :
               p \in players' => notes'[p] = notes[p] \/ \E note : notes'[p] = Push(notes[p], note)
      <4>1. CASE Rests
        BY <4>1 DEF Rests
      <4>2. CASE Talks
        BY <2>3, <4>2 DEF Talks, TalksTo
      <4>3. CASE FinishDisconnect
        BY <4>3 DEF FinishDisconnect, Survivors, NotifyAll
      <4>4. ASSUME NEW j \in PlayerId, Departs(j)
            PROVE  players' \subseteq players /\ limits' = limits /\ notes' = notes
        BY <4>4 DEF Departs
      <4> QED
        BY <1>3, <2>3, <4>1, <4>2, <4>3, <4>4, OpenStep
    <3>3. ASSUME NEW p \in Staying' PROVE p \in Staying
      <4>1. p \in players /\ p \in PlayerId /\ p \in players' /\ ~OnTheWayOut(p)'
        BY <3>2 DEF Staying, TypeOK, RoomTypeOK
      <4> QED
        BY <3>1, <3>2, <4>1, OutStays DEF Staying
    <3> QED
      BY <1>1, <3>1, <3>2, <3>3, FewerStay
  <2> QED
    BY <2>1, <2>2, <2>3
<1>4. ASSUME NEW i \in PlayerId, PlayerStep(i) PROVE FitInv'
  <2>1. /\ UNCHANGED <<rpc, players, limits>> /\ players \subseteq PlayerId
    BY <1>4, PlayerStepReads DEF roomVars, TypeOK, RoomTypeOK
  <2>2. Staying' \subseteq Staying
    BY <1>4, <2>1, OutStaysForPlayer DEF Staying
  <2> QED
    BY <1>1, <2>1, <2>2, FewerStay
<1>5. CASE Arrive \/ LobbyReads \/ LobbyHearsShutdown \/ LobbyAborts
           \/ Shutdown \/ Finished \/ UNCHANGED vars
  <2>1. UNCHANGED <<rpc, players, limits, notes, ppc>>
    BY <1>5 DEF Arrive, LobbyReads, LobbyHearsShutdown, LobbyAborts, Shutdown,
                Finished, vars, roomVars,
                playerVars, channelVars
  <2>2. Staying' = Staying
    BY <2>1 DEF Staying, OnTheWayOut, ToldToEnd
  <2> QED
    BY <1>1, <2>1, <2>2, FewerStay
<1>6. CASE Aborted
  BY <1>1, <1>6, FewerStay DEF Aborted, RoomGoto, Open
<1> QED
  BY <1>2, <1>3, <1>4, <1>5, <1>6 DEF Next, Environment

\* When max_players_per_room is lowered, and whatever happens to the players
\* meanwhile, those in excess are leaving, and nobody joins in their place.
THEOREM ExcessLeaves == Spec => []ExcessIsLeaving
<1>1. Init => FitInv
  BY FS_EmptySet DEF Init, FitInv, StartOK, NoSenders, Open
<1>2. TypeOK /\ TypeOK' /\ FitInv /\ [Next]_vars => FitInv'
  BY FitNext
<1>3. ASSUME TypeOK, FitInv PROVE ExcessIsLeaving
  <2> SUFFICES ASSUME rpc \in Open
               PROVE  Cardinality({p \in players : OnTheWayOut(p)}) >= Excess(limits.players)
    BY DEF ExcessIsLeaving, Open
  <2> DEFINE out == {p \in players : OnTheWayOut(p)}
  <2>1. IsFiniteSet(players) /\ Cardinality(players) \in Nat
    BY <1>3, FS_CardinalityType DEF FitInv
  <2>2. IsFiniteSet(out) /\ Cardinality(out) \in Nat
    BY <2>1, FS_Subset, FS_CardinalityType
  <2>3. Staying = players \ out /\ players \cap out = out
    BY DEF Staying
  <2>4. Cardinality(Staying) = Cardinality(players) - Cardinality(out)
    BY <2>1, <2>2, <2>3, FS_Difference
  <2>5. limits.players \in Nat /\ Cardinality(Staying) <= limits.players
    BY <1>3, LimitAssumption DEF LimitAssumption, TypeOK, RoomTypeOK, FitInv
  <2> QED
    BY <2>1, <2>2, <2>4, <2>5 DEF Excess
<1> QED
  BY <1>1, <1>2, <1>3, TypeCorrect, PTL DEF Spec
-----------------------------------------------------------------------------
(* Who is left when the room drains its channels.                          *)

Busy(i) == ppc[i] \in {"run", "asking", "leaving"}

\* on_close passes the tasks that are not over from player_map to those it waits
\* for, and loses none of them.
PassedOn ==
  /\ rpc = "notify" => \A i \in PlayerId : Busy(i) => i \in players \cup closing.awaiting
  /\ rpc = "collect" => \A i \in PlayerId : Busy(i) => i \in closing.awaiting
PassingInv == StrayInv /\ PassedOn /\ DrainsMeetNobody

LEMMA PassedOnByNotify ==
  ASSUME RoomInv, PassingInv, UniqueIds, NotifyClosing
  PROVE  PassedOn' /\ DrainsMeetNobody'
<1> USE DEF RoomInv, At
<1>1. PICK i \in players :
        /\ players' = players \ {i}
        /\ \/ EndedAnyway(i) /\ UNCHANGED closing
           \/ closing' = [closing EXCEPT !.awaiting = @ \cup {i}]
  BY DEF NotifyClosing
<1>2. rpc = "notify" /\ rpc' = "notify" /\ ppc' = ppc
  BY DEF NotifyClosing, playerVars
<1>3. EndedAnyway(i) => ~Busy(i)
  BY <1>2 DEF EndedAnyway, Alive, LastRequestOK, Over, Busy
<1>4. closing.awaiting \subseteq closing'.awaiting
      /\ (~EndedAnyway(i) => i \in closing'.awaiting)
  BY <1>1 DEF TypeOK, RoomTypeOK
<1> QED
  BY <1>1, <1>2, <1>3, <1>4 DEF PassingInv, PassedOn, DrainsMeetNobody, Busy

LEMMA PassedOnByCollect ==
  ASSUME RoomInv, PassingInv, UniqueIds, CollectRequest \/ CollectClose
  PROVE  PassedOn' /\ DrainsMeetNobody'
<1> USE DEF RoomInv, At
<1>1. rpc = "collect" /\ rpc' = "collect" /\ ppc' = ppc
  BY DEF CollectRequest, CollectClose, playerVars
<1>2. PICK j \in Posted \cup {NoId} : closing.awaiting \ {j} \subseteq closing'.awaiting
  <2>1. CASE CollectClose
    <3>1. closes \in Seq(CloseRequest) /\ closes # <<>>
      BY <2>1 DEF CollectClose, TypeOK, ChannelTypeOK
    <3>2. 1 \in DOMAIN closes /\ Head(closes) = closes[1] /\ closes[1] \in CloseRequest
      BY <3>1
    <3>3. 1 \in DOMAIN closes /\ Head(closes) = closes[1] /\ closes[1].from \in PlayerId
      BY <3>2 DEF CloseRequest
    <3>4. Head(closes).from \in Posted
      BY <3>3 DEF Posted, LastRequestsIn
    <3> QED
      BY <2>1, <3>4 DEF CollectClose, StopAwaiting, TypeOK, RoomTypeOK
  <2>2. CASE CollectRequest /\ Head(requests).command = "drop"
    <3>1. requests \in Seq(RoomRequest) /\ requests # <<>>
      BY <2>2 DEF CollectRequest, TypeOK, ChannelTypeOK
    <3>2. 1 \in DOMAIN requests /\ Head(requests) = requests[1] /\ requests[1] \in RoomRequest
      BY <3>1
    <3>3. 1 \in DOMAIN requests /\ Head(requests) = requests[1]
          /\ requests[1].from \in PlayerId
      BY <3>2 DEF RoomRequest
    <3>4. Head(requests).from \in Posted
      BY <2>2, <3>3 DEF Posted, LastRequestsIn
    <3> QED
      BY <2>2, <3>4 DEF CollectRequest, StopAwaiting, IsLastRequest, TypeOK, RoomTypeOK
  <2>3. CASE CollectRequest /\ Head(requests).command # "drop"
    BY <2>3 DEF CollectRequest, IsLastRequest
  <2> QED
    BY <2>1, <2>2, <2>3
<1>3. ASSUME NEW i \in PlayerId, Busy(i) PROVE i # j
  BY <1>3, IdAssumption DEF IdAssumption, LastRequestOK, Over, Busy
<1> QED
  BY <1>1, <1>2, <1>3 DEF PassingInv, PassedOn, DrainsMeetNobody, Busy

LEMMA PassedOnByRoom ==
  ASSUME RoomInv, PassingInv, UniqueIds, RoomStep
  PROVE  PassedOn' /\ DrainsMeetNobody'
<1> USE DEF At, RoomGoto, PassedOn, DrainsMeetNobody
<1>1. CASE Start \/ NewClient
  <2>1. rpc' = "select"
    BY <1>1, JoinIs DEF RoomInv
  <2> QED
    BY <2>1
<1>2. CASE NotifyClosing
  BY <1>2, PassedOnByNotify
<1>3. CASE CollectRequest \/ CollectClose
  BY <1>3, PassedOnByCollect
<1>4. CASE RecvSeal \/ RecvDrop \/ RecvClose \/ ReconfigureExpired \/ TimeLimit
  <2>1. \/ rpc' \in Open
        \/ rpc = "select" /\ rpc' = "notify" /\ players' = players /\ ppc' = ppc
    BY <1>4 DEF RecvSeal, RecvDrop, RecvClose, ReconfigureExpired, TimeLimit, TakeRequest,
                BeginClose, BeginDisconnect, playerVars, roomVars, Open
  <2> QED
    BY <2>1 DEF Open, PassingInv, StrayInv, NoStrayTask, Busy
<1>5. CASE RoomHearsShutdown
  BY <1>5 DEF RoomHearsShutdown, envVars, playerVars, PassingInv, StrayInv, NoStrayTask
<1>6. CASE NotifyClosingDone \/ CollectDone
  BY <1>6 DEF NotifyClosingDone, CollectDone, playerVars, PassingInv, Busy
<1>7. CASE SendSeal \/ DrainCloses \/ DrainRequests \/ JoinPlayers \/ DrainClients
             \/ AwaitCloses \/ SignalClosed
  BY <1>7 DEF SendSeal, DrainCloses, DrainRequests, JoinPlayers, DrainClients, AwaitCloses,
              SignalClosed, playerVars, envVars, PassingInv
<1>8. CASE AwaitHandle \/ SendCloseDone
  BY <1>8 DEF AwaitHandle, SendCloseDone, playerVars, envVars, PassingInv, Busy
<1>9. CASE TurnClientAway \/ RecvSend \/ Reconfigure \/ FinishDisconnect
  BY <1>9 DEF TurnClientAway, RecvSend, TakeRequest, Reconfigure, FinishDisconnect
<1> QED
  BY <1>1, <1>2, <1>3, <1>4, <1>5, <1>6, <1>7, <1>8, <1>9
     DEF RoomStep, RoomCloses, RoomWindsDown

LEMMA PassingNext ==
  ASSUME UniqueIds, RoomInv, TypeOK', PassingInv, [Next]_vars
  PROVE  PassingInv'
<1>1. StrayInv'
  BY StrayNext DEF PassingInv
<1>2. CASE RoomStep
  BY <1>1, <1>2, PassedOnByRoom DEF PassingInv
<1>3. ASSUME NEW j \in PlayerId, PlayerStep(j) PROVE PassedOn' /\ DrainsMeetNobody'
  <2>1. /\ UNCHANGED <<rpc, players, closing, shutdown>>
        /\ \A i \in PlayerId : Busy(i)' => Busy(i)
    <3>1. UNCHANGED <<rpc, players, closing, shutdown>>
      BY <1>3, PlayerStepReads DEF RoomInv, roomVars
    <3> QED
      BY <1>3, <3>1, PlayerStepMoves DEF RoomInv, TypeOK, PlayerTypeOK, Busy
  <2> QED
    BY <2>1 DEF PassingInv, PassedOn, DrainsMeetNobody, Busy
<1>4. CASE Arrive \/ LobbyReads \/ LobbyHearsShutdown \/ LobbyAborts
           \/ Shutdown \/ Finished \/ UNCHANGED vars
  <2>1. UNCHANGED <<rpc, players, closing, ppc>> /\ (shutdown => shutdown')
    BY <1>4 DEF Arrive, LobbyReads, LobbyHearsShutdown, LobbyAborts, Shutdown, Finished,
                vars, roomVars, playerVars, envVars
  <2> QED
    BY <1>1, <2>1 DEF PassingInv, PassedOn, DrainsMeetNobody, Busy
<1>5. CASE Aborted
  BY <1>1, <1>5 DEF Aborted, RoomGoto, PassingInv, PassedOn, DrainsMeetNobody
<1> QED
  BY <1>1, <1>2, <1>3, <1>4, <1>5 DEF Next, Environment, PassingInv

\* While no id is drawn twice: until the shutdown signal, no task can be blocked
\* on one of the room's channels, nor talk to its client, when the room drains
\* them; after it, such a task is in player_map.
THEOREM DrainsAreSafe ==
  ASSUME UniqueIds
  PROVE  Spec => []DrainsMeetNobody
<1>1. Init => PassingInv
  BY DEF Init, PassingInv, PassedOn, DrainsMeetNobody, StrayInv, StartOK, NoSenders,
         NoStrayTask
<1>2. RoomInv /\ RoomInv' /\ PassingInv /\ [Next]_vars => PassingInv'
  BY PassingNext DEF RoomInv
<1>3. PassingInv => DrainsMeetNobody
  BY DEF PassingInv
<1> QED
  BY <1>1, <1>2, <1>3, RoomInvariant, PTL DEF Spec
-----------------------------------------------------------------------------
(* What the clients are told.                                              *)

\* A step that leads out of the main loop tells the players to end, if anything.
LEMMA CloseStep ==
  ASSUME TypeOK, RoomStep, ~Start, ~NewClient, rpc' \notin Open
  PROVE  \A p \in PlayerId :
           \/ notes'[p] = notes[p]
           \/ \E note \in RoomNotification :
                note.kind = "end" /\ notes'[p] = Push(notes[p], note)
<1>1. CASE UNCHANGED notes
  BY <1>1
<1>2. CASE NotifyClosing
  <2>1. closing.code \in CloseCode
    BY <1>2 DEF NotifyClosing, At, TypeOK, RoomTypeOK
  <2>2. EndOfStay(closing.code) \in RoomNotification /\ EndOfStay(closing.code).kind = "end"
    BY <2>1, MessageTypes, IdAssumption DEF IdAssumption, EndOfStay
  <2>3. notes \in [PlayerId -> Seq(Note)]
    BY NotesTyped
  <2> QED
    BY <1>2, <2>2, <2>3 DEF NotifyClosing, Notify
<1>3. CASE ~NotifyClosing
  BY <1>1, <1>3 DEF RoomStep, RoomCloses, RoomWindsDown, TurnClientAway, RecvSend, Reconfigure,
     RecvSeal, RecvDrop, RecvClose, BeginClose, BeginDisconnect, ReconfigureExpired, TimeLimit,
     RoomHearsShutdown, TakeRequest, AwaitHandle, FinishDisconnect, NotifyClosingDone,
     CollectRequest, CollectClose, CollectDone, SendSeal, DrainCloses, DrainRequests,
     JoinPlayers, DrainClients, AwaitCloses, SignalClosed, SendCloseDone, channelVars,
     At, RoomGoto, Open, roomVars
<1> QED
  BY <1>2, <1>3

Talking(i) == ppc[i] \in {"run", "asking"}
GoneOK == rpc = "leave" => departing.id \notin players

\* A client that is still served knows all the others, whatever it has to read yet.
KnowsAll ==
  rpc \in Open =>
    \A i, j \in players :
      i # j /\ Talking(i) /\ notes[i] # <<Lagged>> => Knows(view[i], j, notes[i])
AllInOrder == \A i \in PlayerId : Talking(i) => InOrder(view[i], notes[i])

KnownInv == StartOK /\ GoneOK /\ KnowsAll /\ AllInOrder

LEMMA KnownJoin ==
  ASSUME TypeOK, TypeOK', KnownInv, StartOK', Start \/ NewClient
  PROVE  KnownInv'
<1>1. PICK i \in PlayerId :
        /\ OnConnect(i) /\ rpc' = "select"
        /\ \/ rpc = "start"
           \/ rpc = "select" /\ i \notin players
  BY JoinIs
<1> DEFINE news(p) == NotifyAll(players, PlayerJoined(i))[p]
<1>2. /\ notes \in [PlayerId -> Seq(Note)] /\ players \subseteq PlayerId
      /\ ppc \in [PlayerId -> PlayerPlace] /\ view \in [PlayerId -> SUBSET PlayerId]
  BY NotesTyped DEF TypeOK, RoomTypeOK, PlayerTypeOK
<1>3. /\ notes'[i] = <<>> /\ view'[i] = Survivors(players)
      /\ \A p \in PlayerId \ {i} :
           ppc'[p] = ppc[p] /\ view'[p] = view[p] /\ notes'[p] = news(p)
  BY <1>1, <1>2 DEF OnConnect, NotifyAll
<1>4. \A p \in PlayerId :
        IF p \in Survivors(players) THEN news(p) = Push(notes[p], PlayerJoined(i))
                                    ELSE news(p) = notes[p]
  BY <1>2 DEF NotifyAll
<1>5. PlayerJoined(i) \in RoomNotification /\ PlayerJoined(i).kind = "joined"
  BY MessageTypes DEF PlayerJoined
<1>6. ASSUME NEW p \in PlayerId, NEW j \in PlayerId, p \in players', j \in players', p # j,
             Talking(p)', notes'[p] # <<Lagged>>
      PROVE  Knows(view'[p], j, notes'[p])
  <2>1. CASE p = i
    <3>1. j \in Survivors(players)
      BY <1>1, <1>6, <2>1 DEF OnConnect
    <3> QED
      BY <1>3, <2>1, <3>1 DEF Knows
  <2>2. CASE p # i
    <3>1. /\ p \in Survivors(players) /\ p \in players /\ notes'[p] = Push(notes[p], PlayerJoined(i))
          /\ view'[p] = view[p] /\ Talking(p)
      BY <1>1, <1>3, <1>4, <1>6, <2>2 DEF OnConnect, Survivors, Talking
    <3>2. Push(notes[p], PlayerJoined(i)) # <<Lagged>> /\ notes[p] # <<Lagged>>
      BY <1>6, <3>1, PushIs
    <3>3. CASE j = i
      <4>1. notes[p] \in Seq(Note)
        BY <1>2
      <4>2. Knows(view[p], i, Push(notes[p], PlayerJoined(i)))
        BY <3>2, <4>1, KnowsPush
      <4> QED
        BY <3>1, <3>3, <4>2
    <3>4. CASE j # i
      <4>1. j \in players /\ rpc = "select"
        BY <1>1, <1>6, <3>1, <3>4 DEF OnConnect, Survivors, KnownInv, StartOK
      <4>2. Knows(view[p], j, notes[p])
        BY <1>6, <3>1, <3>2, <4>1 DEF KnownInv, KnowsAll, Open
      <4>3. PlayerJoined(i) \notin {PlayerJoined(j), PlayerLeft(j)}
        BY <3>4 DEF PlayerJoined, PlayerLeft
      <4> QED
        BY <1>2, <3>1, <3>2, <4>2, <4>3, KnowsPush
    <3> QED
      BY <3>3, <3>4
  <2> QED
    BY <2>1, <2>2
<1>7. ASSUME NEW p \in PlayerId, Talking(p)' PROVE InOrder(view'[p], notes'[p])
  <2>1. CASE p = i
    BY <1>3, <2>1 DEF InOrder
  <2>2. CASE p # i
    <3>1. InOrder(view[p], notes[p]) /\ view'[p] = view[p]
      BY <1>3, <1>7, <2>2 DEF KnownInv, AllInOrder, Talking
    <3>2. InOrder(view[p], Push(notes[p], PlayerJoined(i)))
      BY <1>2, <1>5, <3>1, InOrderPush DEF Note
    <3> QED
      BY <1>3, <1>4, <2>2, <3>1, <3>2
  <2> QED
    BY <2>1, <2>2
<1>8. players' \subseteq PlayerId
  BY DEF TypeOK, RoomTypeOK
<1> QED
  BY <1>1, <1>6, <1>7, <1>8 DEF KnownInv, GoneOK, KnowsAll, AllInOrder

\* One more notification, of which each client that is served still knows j.
LEMMA KnownTalk ==
  ASSUME TypeOK, TypeOK', KnownInv, StartOK', UNCHANGED playerVars, players' \subseteq players,
         rpc' \in Open => rpc \in Open,
         rpc' = "leave" => departing'.id \notin players',
         NEW left,
         rpc' \in Open => left \notin players',
         \A p \in PlayerId :
           \/ notes'[p] = notes[p]
           \/ \E note \in RoomNotification :
                /\ note.kind \in {"message", "end"} \/ note = PlayerLeft(left)
                /\ notes'[p] = Push(notes[p], note)
                /\ note.kind = "message" =>
                     rpc \in Open /\ p \in players /\ note.of \in players \ {p}
  PROVE  KnownInv'
<1>1. /\ notes \in [PlayerId -> Seq(Note)] /\ players \subseteq PlayerId
      /\ players' \subseteq PlayerId
  BY NotesTyped DEF TypeOK, RoomTypeOK
<1>2. ppc' = ppc /\ view' = view
  BY DEF playerVars
<1>3. ASSUME NEW p \in PlayerId, NEW j \in PlayerId, p \in players', j \in players', p # j,
             Talking(p)', notes'[p] # <<Lagged>>, rpc' \in Open
      PROVE  Knows(view'[p], j, notes'[p])
  <2>1. CASE notes'[p] = notes[p]
    BY <1>2, <1>3, <2>1 DEF KnownInv, KnowsAll, Talking
  <2>2. ASSUME NEW note \in RoomNotification,
               note.kind \in {"message", "end"} \/ note = PlayerLeft(left),
               notes'[p] = Push(notes[p], note)
        PROVE  Knows(view'[p], j, notes'[p])
    <3>1. notes[p] # <<Lagged>> /\ Push(notes[p], note) # <<Lagged>>
      BY <1>3, <2>2, PushIs
    <3>2. Knows(view[p], j, notes[p])
      BY <1>2, <1>3, <3>1 DEF KnownInv, KnowsAll, Talking
    <3>3. note \notin {PlayerJoined(j), PlayerLeft(j)}
      BY <1>3, <2>2 DEF PlayerJoined, PlayerLeft
    <3> QED
      BY <1>1, <1>2, <2>2, <3>1, <3>2, <3>3, KnowsPush
  <2> QED
    BY <2>1, <2>2
<1>4. ASSUME NEW p \in PlayerId, Talking(p)' PROVE InOrder(view'[p], notes'[p])
  <2>1. InOrder(view[p], notes[p])
    BY <1>2, <1>4 DEF KnownInv, AllInOrder, Talking
  <2>2. ASSUME NEW note \in RoomNotification, notes'[p] = Push(notes[p], note),
               note.kind = "message" =>
                 rpc \in Open /\ p \in players /\ note.of \in players \ {p}
        PROVE  InOrder(view'[p], notes'[p])
    <3>1. ASSUME note.kind = "message", Push(notes[p], note) # <<Lagged>>
          PROVE  Knows(view[p], note.of, notes[p])
      BY <1>2, <1>4, <2>2, <3>1, PushIs DEF KnownInv, KnowsAll, Talking
    <3> QED
      BY <1>1, <1>2, <2>1, <2>2, <3>1, InOrderPush DEF Note
  <2> QED
    BY <1>2, <2>1, <2>2
<1> QED
  BY <1>1, <1>3, <1>4 DEF KnownInv, GoneOK, KnowsAll, AllInOrder

LEMMA KnownRoom ==
  ASSUME TypeOK, TypeOK', KnownInv, StartOK', RoomStep, ~Start, ~NewClient
  PROVE  KnownInv'
<1> USE DEF KnownInv
<1>1. UNCHANGED playerVars /\ NoId \notin players'
  BY PlayersLeftAlone, IdAssumption DEF IdAssumption, TypeOK, RoomTypeOK
<1>2. CASE rpc' \notin Open
  <2>1. players' \subseteq players
    BY DEF RoomStep, RoomCloses, RoomWindsDown, TurnClientAway, RecvSend, Reconfigure,
       RecvSeal, RecvDrop, RecvClose, BeginClose, BeginDisconnect, ReconfigureExpired,
       TimeLimit, roomVars, RoomHearsShutdown, TakeRequest, AwaitHandle, FinishDisconnect,
       Survivors, NotifyClosing, NotifyClosingDone, CollectRequest, CollectClose,
       CollectDone, SendSeal, DrainCloses, DrainRequests, JoinPlayers, DrainClients,
       AwaitCloses, SignalClosed, SendCloseDone
  <2>2. \A p \in PlayerId :
          \/ notes'[p] = notes[p]
          \/ \E note \in RoomNotification :
               note.kind = "end" /\ notes'[p] = Push(notes[p], note)
    BY <1>2, CloseStep
  <2> QED
    BY <1>1, <1>2, <2>1, <2>2, KnownTalk DEF Open
<1>3. CASE rpc' \in Open
  <2>1. rpc \in Open
    BY <1>3, OpenStep
  <2>2. CASE Rests
    BY <1>1, <2>1, <2>2, KnownTalk DEF Rests, GoneOK
  <2>3. CASE Talks
    <3>1. \A p \in PlayerId : TalksTo(p)
      BY <2>3 DEF Talks
    <3>2. rpc' = "select" /\ players' = players
      BY <2>3 DEF Talks
    <3> QED
      BY <1>1, <2>1, <3>1, <3>2, KnownTalk DEF TalksTo
  <2>4. CASE FinishDisconnect
    <3> DEFINE d == departing.id
    <3>1. /\ rpc = "leave" /\ rpc' = "select" /\ players' \subseteq players
          /\ d \in PlayerId /\ d \notin players
          /\ notes' = NotifyAll(players, PlayerLeft(d))
      BY <2>4 DEF FinishDisconnect, Survivors, At, RoomGoto, GoneOK, TypeOK, RoomTypeOK
    <3>2. PlayerLeft(d) \in RoomNotification /\ PlayerLeft(d).kind = "left"
      BY <3>1, MessageTypes DEF PlayerLeft
    <3>3. \A p \in PlayerId :
            notes'[p] = notes[p] \/ notes'[p] = Push(notes[p], PlayerLeft(d))
      BY <3>1 DEF NotifyAll
    <3> HIDE DEF d
    <3> QED
      BY <1>1, <2>1, <3>1, <3>2, <3>3, KnownTalk
  <2>5. ASSUME NEW i \in PlayerId, Departs(i) PROVE KnownInv'
    <3>1. /\ players' \subseteq players /\ notes' = notes /\ departing'.id \notin players'
      BY <2>5 DEF Departs
    <3> QED
      BY <1>1, <2>1, <3>1, KnownTalk
  <2> QED
    BY <1>3, <2>2, <2>3, <2>4, <2>5, OpenStep
<1> QED
  BY <1>2, <1>3

LEMMA KnownNext ==
  ASSUME TypeOK, TypeOK', KnownInv, [Next]_vars
  PROVE  KnownInv'
<1>1. StartOK'
  BY StartNext DEF KnownInv
<1>2. CASE RoomStep
  BY <1>1, <1>2, KnownJoin, KnownRoom
<1>3. ASSUME NEW i \in PlayerId, PlayerStep(i) PROVE KnownInv'
  <2>1. /\ UNCHANGED <<rpc, players, departing>> /\ players \subseteq PlayerId
        /\ notes \in [PlayerId -> Seq(Note)]
    BY <1>3, PlayerStepReads, NotesTyped DEF roomVars, TypeOK, RoomTypeOK
  <2>2. ASSUME NEW p \in PlayerId, Talking(p)'
        PROVE  /\ InOrder(view'[p], notes'[p]) /\ Talking(p)
               /\ notes'[p] # <<Lagged>> => notes[p] # <<Lagged>>
               /\ \A j : Knows(view'[p], j, notes'[p]) <=> Knows(view[p], j, notes[p])
    <3>1. Talking(p)
      BY <1>3, <2>2, PlayerStepReads DEF Talking
    <3>2. InOrder(view[p], notes[p])
      BY <3>1 DEF KnownInv, AllInOrder
    <3>3. CASE notes'[p] = notes[p] /\ view'[p] = view[p]
      BY <3>1, <3>2, <3>3
    <3>4. CASE /\ notes[p] # <<>> /\ notes'[p] = Tail(notes[p])
               /\ Head(notes[p]) \in RoomNotification /\ ~IsLast(Head(notes[p]))
               /\ view'[p] = Heard(view[p], Head(notes[p]))
      <4>1. notes[p] # <<Lagged>>
        BY <3>4 DEF IsLast, Lagged
      <4> QED
        BY <2>1, <3>1, <3>2, <3>4, <4>1, KnowsRead, InOrderRead
    <3> QED
      BY <1>3, <2>2, <3>3, <3>4, PlayerStepReads DEF Talking
  <2> QED
    BY <1>1, <2>1, <2>2 DEF KnownInv, GoneOK, KnowsAll, AllInOrder
<1>4. CASE Arrive \/ LobbyReads \/ LobbyHearsShutdown \/ LobbyAborts
           \/ Shutdown \/ Finished \/ UNCHANGED vars
  <2>1. UNCHANGED <<rpc, players, departing, notes, ppc, view>>
    BY <1>4 DEF Arrive, LobbyReads, LobbyHearsShutdown, LobbyAborts, Shutdown,
                Finished, vars, roomVars,
                playerVars, channelVars
  <2> QED
    BY <1>1, <2>1 DEF KnownInv, GoneOK, KnowsAll, AllInOrder, Talking
<1>5. CASE Aborted
  BY <1>1, <1>5 DEF Aborted, RoomGoto, playerVars, Open, KnownInv, GoneOK, KnowsAll, AllInOrder,
                    Talking
<1> QED
  BY <1>2, <1>3, <1>4, <1>5 DEF Next, Environment

\* Offers, answers and candidates come from peers the client has been told of, in
\* whatever order the players join, leave, lag behind and are thrown out.
THEOREM PeersAreKnown == Spec => []MessagesFromKnown
<1>1. Init => KnownInv
  BY DEF Init, KnownInv, StartOK, GoneOK, KnowsAll, AllInOrder, Talking, NoSenders, Open
<1>2. TypeOK /\ TypeOK' /\ KnownInv /\ [Next]_vars => KnownInv'
  BY KnownNext
<1>3. ASSUME TypeOK, KnownInv PROVE MessagesFromKnown
  <2> SUFFICES ASSUME NEW i \in PlayerId, Talking(i), NEW k \in DOMAIN notes[i],
                      notes[i][k].kind = "message"
               PROVE  notes[i][k].of \in ToldBy(i, SubSeq(notes[i], 1, k - 1))
    BY DEF MessagesFromKnown, Talking
  <2>1. notes[i] \in Seq(Note)
    BY <1>3, NotesTyped
  <2>2. notes[i][k] \in Note
    BY <2>1
  <2>3. notes[i][k].of \in PlayerId
    BY <2>2 DEF Note, RoomNotification, Lagged
  <2> QED
    BY <1>3, <2>3 DEF KnownInv, AllInOrder, InOrder, ToldBy
<1> QED
  BY <1>1, <1>2, <1>3, TypeCorrect, PTL DEF Spec
-----------------------------------------------------------------------------
(* The last requests of the players, while no id is drawn twice.           *)

LeavingDrops ==
  \A i \in PlayerId :
    ppc[i] = "leaving" /\ pend[i][1] \in RoomRequest => pend[i][1].command = "drop"

\* Whose task is over has said so, except for the host when on_close knows.
EndedPosted ==
  ~shutdown /\ rpc \in {"select", "leave", "notify"} =>
    \A i \in players :
      Over(i) => i \in Posted \/ (rpc = "notify" /\ i = HOST_ID /\ ~closing.toHost)

Coming == ~shutdown => CloseRequestsComing

PostedInv == StartOK /\ LeavingDrops /\ EndedPosted /\ Coming

LEMMA PostedGrows ==
  ASSUME TypeOK,
         requests' = requests \/ \E r \in RoomRequest : requests' = Append(requests, r),
         closes' = closes \/ \E r \in CloseRequest : closes' = Append(closes, r)
  PROVE  /\ Posted \subseteq Posted'
         /\ \A r \in RoomRequest :
              requests' = Append(requests, r) /\ r.command = "drop" => r.from \in Posted'
         /\ \A r \in CloseRequest : closes' = Append(closes, r) => r.from \in Posted'
<1>1. requests \in Seq(RoomRequest) /\ closes \in Seq(CloseRequest)
  BY DEF TypeOK, ChannelTypeOK
<1>2. \A k \in DOMAIN requests : k \in DOMAIN requests' /\ requests'[k] = requests[k]
  BY <1>1
<1>3. \A k \in DOMAIN closes : k \in DOMAIN closes' /\ closes'[k] = closes[k]
  BY <1>1
<1>4. ASSUME NEW r \in RoomRequest, requests' = Append(requests, r), r.command = "drop"
      PROVE  r.from \in Posted'
  <2>1. /\ Len(requests) + 1 \in DOMAIN requests' /\ requests'[Len(requests) + 1] = r
    BY <1>1, <1>4
  <2> QED
    BY <1>4, <2>1 DEF Posted, LastRequestsIn, RoomRequest
<1>5. ASSUME NEW r \in CloseRequest, closes' = Append(closes, r)
      PROVE  r.from \in Posted'
  <2>1. /\ Len(closes) + 1 \in DOMAIN closes' /\ closes'[Len(closes) + 1] = r
    BY <1>1, <1>5
  <2> QED
    BY <2>1 DEF Posted, LastRequestsIn, CloseRequest
<1>6. Posted \subseteq Posted'
  BY <1>2, <1>3 DEF Posted, LastRequestsIn
<1> QED
  BY <1>4, <1>5, <1>6

\* A task that posts a request: it ends only when it could.
LEMMA PostEnds ==
  ASSUME TypeOK, NEW i \in PlayerId, ppc[i] = "run", NEW r \in RoomRequest, r.from = i,
         \/ r.command # "drop" /\ PostRequest(i, r, "run", "asking")
         \/ r.command = "drop" /\ PostRequest(i, r, "ending", "leaving")
  PROVE  /\ ~RoomGone => Posted \subseteq Posted' /\ (Over(i)' => i \in Posted')
         /\ ppc'[i] = "leaving" => pend'[i][1] = r /\ r.command = "drop"
         /\ \A j \in PlayerId \ {i} : pend'[j] = pend[j]
<1> USE DEF PlayerGoto
<1>1. ppc \in [PlayerId -> PlayerPlace] /\ pend \in [PlayerId -> Seq(RoomRequest \cup CloseRequest)]
  BY DEF TypeOK, PlayerTypeOK
<1>2. /\ ppc'[i] = "leaving" => pend'[i][1] = r /\ r.command = "drop"
      /\ \A j \in PlayerId \ {i} : pend'[j] = pend[j]
  BY <1>1 DEF PostRequest
<1>3. ASSUME ~RoomGone PROVE Posted \subseteq Posted' /\ (Over(i)' => i \in Posted')
  <2>1. requests' = requests \/ requests' = Append(requests, r)
    BY DEF PostRequest
  <2>2. closes' = closes
    BY DEF PostRequest
  <2>3. /\ Posted \subseteq Posted'
        /\ requests' = Append(requests, r) /\ r.command = "drop" => i \in Posted'
    BY <2>1, <2>2, PostedGrows
  <2>4. Over(i)' => r.command = "drop" /\ requests' = Append(requests, r)
    BY <1>1, <1>3 DEF PostRequest, Over
  <2> QED
    BY <2>3, <2>4
<1> QED
  BY <1>2, <1>3

LEMMA CloseEnds ==
  ASSUME TypeOK, NEW i \in PlayerId, ppc[i] = "run", NEW code \in CloseCode,
         CloseConnection(i, code)
  PROVE  /\ ~RoomGone => Posted \subseteq Posted' /\ (Over(i)' => i \in Posted')
         /\ ppc'[i] = "leaving" => pend'[i][1] \notin RoomRequest
         /\ \A j \in PlayerId \ {i} : pend'[j] = pend[j]
<1> DEFINE r == [from |-> i, code |-> code]
<1> USE DEF PlayerGoto
<1>1. ppc \in [PlayerId -> PlayerPlace] /\ pend \in [PlayerId -> Seq(RoomRequest \cup CloseRequest)]
  BY DEF TypeOK, PlayerTypeOK
<1>2. r \in CloseRequest /\ r.from = i /\ r \notin RoomRequest
  BY DEF CloseRequest, RoomRequest
<1>3. /\ ppc'[i] = "leaving" => pend'[i][1] = r
      /\ \A j \in PlayerId \ {i} : pend'[j] = pend[j]
  BY <1>1 DEF CloseConnection
<1>4. ASSUME ~RoomGone PROVE Posted \subseteq Posted' /\ (Over(i)' => i \in Posted')
  <2>1. closes' = closes \/ closes' = Append(closes, r)
    BY DEF CloseConnection
  <2>2. requests' = requests
    BY DEF CloseConnection
  <2>3. /\ Posted \subseteq Posted'
        /\ closes' = Append(closes, r) => r.from \in Posted'
    BY <1>2, <2>1, <2>2, PostedGrows
  <2>4. Over(i)' => closes' = Append(closes, r)
    BY <1>1, <1>4 DEF CloseConnection, Over
  <2> QED
    BY <1>2, <2>3, <2>4
<1> QED
  BY <1>2, <1>3, <1>4

LEMMA PlayerPosts ==
  ASSUME TypeOK, PendOK, LastRequestOK, LeavingDrops, NEW i \in PlayerId, PlayerStep(i)
  PROVE  /\ LeavingDrops'
         /\ ~RoomGone /\ ~shutdown =>
              Posted \subseteq Posted' /\ (Over(i)' => Over(i) \/ i \in Posted')
<1> USE DEF PlayerGoto
<1>1. /\ ppc \in [PlayerId -> PlayerPlace]
      /\ pend \in [PlayerId -> Seq(RoomRequest \cup CloseRequest)]
  BY DEF TypeOK, PlayerTypeOK
<1>2. \A j \in PlayerId \ {i} : ppc'[j] = ppc[j]
  BY PlayerStepReads
<1> SUFFICES
      /\ \A j \in PlayerId \ {i} : pend'[j] = pend[j]
      /\ ppc'[i] = "leaving" /\ pend'[i][1] \in RoomRequest => pend'[i][1].command = "drop"
      /\ ~RoomGone /\ ~shutdown =>
           Posted \subseteq Posted' /\ (Over(i)' => Over(i) \/ i \in Posted')
  BY <1>2 DEF LeavingDrops
<1>3. CASE ClientAsks(i)
  <2>1. PICK r \in {SealRoom(i)} \cup {SendTo(i, j) : j \in PlayerId} : SendReq(i, r)
    BY <1>3 DEF ClientAsks
  <2>2. r \in RoomRequest /\ r.from = i /\ r.command # "drop"
    BY MessageTypes DEF SealRoom, SendTo, RoomRequest
  <2> QED
    BY <1>3, <2>1, <2>2, PostEnds DEF ClientAsks, SendReq
<1>4. CASE ClientGone(i)
  <2>1. DropRequest(i) \in RoomRequest /\ DropRequest(i).from = i
        /\ DropRequest(i).command = "drop"
    BY DEF DropRequest, RoomRequest
  <2> QED
    BY <1>4, <2>1, PostEnds DEF ClientGone, DropConnection
<1>5. CASE ClientFaults(i)
  <2>1. "ClientFault" \in CloseCode
    BY DEF CloseCode
  <2> QED
    BY <1>5, <2>1, CloseEnds DEF ClientFaults
<1>6. CASE ReadEnd(i)
  <2>1. Head(notes[i]) \in Note
    BY <1>6, NotesTyped, TailIs DEF ReadEnd
  <2>2. Head(notes[i]).of \in CloseCode
    BY <1>6, <2>1 DEF ReadEnd, Ends, RoomNotification, Lagged, CloseCode, Note
  <2> QED
    BY <1>6, <2>2, CloseEnds DEF ReadEnd
<1>7. CASE ReadNews(i) \/ ReadClosed(i) \/ HearShutdown(i) \/ Return(i)
  <2>1. UNCHANGED <<requests, closes, pend>>
    BY <1>7 DEF ReadNews, ReadClosed, HearShutdown, Return, channelVars
  <2>2. ppc'[i] # "leaving" /\ (~RoomGone /\ ~shutdown /\ Over(i)' => Over(i))
    BY <1>1, <1>7 DEF ReadNews, ReadClosed, HearShutdown, Return, Over
  <2> QED
    BY <2>1, <2>2 DEF Posted
<1>8. CASE ResumeAsking(i) \/ ResumeLeaving(i)
  <2>1. /\ ppc'[i] \in {"run", "ending"}
        /\ \A j \in PlayerId \ {i} : pend'[j] = pend[j]
        /\ ~RoomGone /\ ppc'[i] = "ending" => ppc[i] = "leaving"
    BY <1>1, <1>8 DEF ResumeAsking, ResumeLeaving, Unblock
  <2>2. ASSUME ~RoomGone
        PROVE  /\ Posted \subseteq Posted' /\ (ppc[i] = "leaving" => i \in Posted')
    <3>1. CASE /\ pend[i][1] \in RoomRequest /\ closes' = closes
               /\ requests' = Append(requests, pend[i][1])
      <4>1. ppc[i] = "leaving" => pend[i][1].command = "drop" /\ pend[i][1].from = i
        BY <3>1 DEF LeavingDrops, LastRequestOK
      <4> QED
        BY <3>1, <4>1, PostedGrows
    <3>2. CASE /\ pend[i][1] \in CloseRequest /\ requests' = requests
               /\ closes' = Append(closes, pend[i][1]) /\ ppc[i] = "leaving"
      <4>1. pend[i][1].from = i
        BY <3>2 DEF LastRequestOK
      <4> QED
        BY <3>2, <4>1, PostedGrows
    <3>3. ppc[i] = "asking" => pend[i][1] \in RoomRequest
      BY DEF PendOK
    <3> QED
      BY <1>8, <2>2, <3>1, <3>2, <3>3 DEF ResumeAsking, ResumeLeaving
  <2> QED
    BY <2>1, <2>2 DEF Over
<1> QED
  BY <1>3, <1>4, <1>5, <1>6, <1>7, <1>8 DEF PlayerStep

\* on_close begins, for whatever reason.
LEMMA BeginPosted ==
  ASSUME RoomInv, RoomInv', PostedInv, UniqueIds, RoomStep, rpc = "select", rpc' = "notify"
  PROVE  EndedPosted' /\ Coming'
<1> USE DEF RoomInv, At, RoomGoto
<1>1. /\ ~Start /\ ~NewClient
  BY DEF Start, NewClient
<1>2. UNCHANGED playerVars
  BY <1>1, PlayersLeftAlone
<1>3. /\ players' = players /\ closing'.awaiting = {} /\ shutdown' = shutdown
      /\ \/ Posted' = Posted
         \/ Posted \ {HOST_ID} \subseteq Posted' /\ ~closing'.toHost
  <2>1. CASE RecvSeal
    <3>1. Posted' = Posted
      BY <2>1, PostedByTail DEF RecvSeal, TakeRequest
    <3> QED
      BY <2>1, <3>1 DEF RecvSeal, TakeRequest, BeginClose, roomVars, envVars
  <2>2. CASE RecvDrop
    <3>1. Posted \ {Head(requests).from} \subseteq Posted'
      BY <2>2, PostedByTail DEF RecvDrop, TakeRequest
    <3> QED
      BY <2>2, <3>1 DEF RecvDrop, TakeRequest, BeginClose, BeginDisconnect, envVars
  <2>3. CASE RecvClose
    <3>1. Posted \ {Head(closes).from} \subseteq Posted'
      BY <2>3, PostedByTailOfCloses DEF RecvClose
    <3> QED
      BY <2>3, <3>1 DEF RecvClose, BeginClose, BeginDisconnect, envVars
  <2>4. CASE ReconfigureExpired \/ TimeLimit
    BY <2>4 DEF ReconfigureExpired, TimeLimit, BeginClose, Posted, envVars
  <2> QED
    BY <1>1, <2>1, <2>2, <2>3, <2>4 DEF RoomStep, RoomCloses, RoomWindsDown, TurnClientAway,
       RecvSend, Reconfigure, RoomHearsShutdown, TakeRequest, AwaitHandle, FinishDisconnect,
       NotifyClosing, NotifyClosingDone, CollectRequest, CollectClose, CollectDone, SendSeal,
       DrainCloses, DrainRequests, JoinPlayers, DrainClients, AwaitCloses, SignalClosed,
       SendCloseDone
<1>4. EndedPosted'
  BY <1>2, <1>3 DEF PostedInv, EndedPosted, Over, playerVars
<1> QED
  BY <1>3, <1>4 DEF Coming, CloseRequestsComing

\* The first loop of on_close.
LEMMA NotifyPosted ==
  ASSUME RoomInv, RoomInv', PostedInv, UniqueIds, NotifyClosing
  PROVE  EndedPosted' /\ Coming'
<1> USE DEF RoomInv, At
<1>1. PICK i \in players :
        /\ players' = players \ {i}
        /\ \/ EndedAnyway(i) /\ UNCHANGED <<notes, closing>>
           \/ /\ ~EndedAnyway(i) /\ Notify(i, EndOfStay(closing.code))
              /\ closing' = [closing EXCEPT !.awaiting = @ \cup {i}]
  BY DEF NotifyClosing
<1>2. /\ rpc = "notify" /\ rpc' = "notify" /\ UNCHANGED <<playerVars, requests, closes, shutdown>>
      /\ i \in PlayerId /\ closing'.toHost = closing.toHost
      /\ closing'.awaiting \subseteq closing.awaiting \cup {i}
  BY <1>1 DEF NotifyClosing, envVars, TypeOK, RoomTypeOK
<1>3. Posted' = Posted /\ ppc' = ppc
  BY <1>2 DEF Posted, playerVars
<1>4. EndedPosted'
  BY <1>1, <1>2, <1>3 DEF PostedInv, EndedPosted, Over
<1>5. \A p \in PlayerId : ToldToEnd(p) => ToldToEnd(p)'
  <2> SUFFICES ASSUME NEW p \in PlayerId, EndIn(notes[p]) PROVE EndIn(notes'[p])
    BY DEF ToldToEnd, EndIn, IsLast
  <2>1. notes'[p] = notes[p] \/ \E note : notes'[p] = Push(notes[p], note)
    BY <1>1, NotesTyped DEF Notify
  <2> QED
    BY <2>1, NotesTyped, PushKeepsEnd
<1>6. ASSUME ~shutdown, ~EndedAnyway(i), Notify(i, EndOfStay(closing.code))
      PROVE  \/ i \in Posted
             \/ ppc[i] = "leaving"
             \/ ppc[i] \in {"run", "asking"} /\ ToldToEnd(i)'
  <2>1. ppc[i] \in {"run", "asking", "leaving", "ending"}
    BY <1>1, <1>2, <1>6 DEF EndedAnyway, Alive, LastRequestOK, TypeOK, PlayerTypeOK, PlayerPlace
  <2>2. ppc[i] = "ending" => i \in Posted
    BY <1>1, <1>2, <1>6 DEF EndedAnyway, PostedInv, EndedPosted, Over
  <2>3. notes'[i] = Push(notes[i], EndOfStay(closing.code))
    BY <1>2, <1>6, NotesTyped DEF Notify, EndedAnyway
  <2>4. EndIn(notes'[i])
    BY <1>2, <2>3, NotesTyped, PushKeepsEnd DEF IsLast, EndOfStay
  <2> QED
    BY <2>1, <2>2, <2>4 DEF ToldToEnd, EndIn, IsLast
<1>7. Coming'
  <2> SUFFICES ASSUME ~shutdown, NEW p \in closing'.awaiting
               PROVE  \/ p \in Posted
                      \/ ppc[p] = "leaving"
                      \/ ppc[p] \in {"run", "asking"} /\ ToldToEnd(p)'
    BY <1>2, <1>3 DEF Coming, CloseRequestsComing
  <2>1. CASE p \in closing.awaiting
    BY <1>5, <2>1 DEF PostedInv, Coming, CloseRequestsComing, TypeOK, RoomTypeOK
  <2>2. CASE p \notin closing.awaiting
    BY <1>1, <1>2, <1>6, <2>2
  <2> QED
    BY <2>1, <2>2
<1> QED
  BY <1>4, <1>7

\* The second loop.
LEMMA CollectPosted ==
  ASSUME RoomInv, RoomInv', PostedInv, UniqueIds, CollectRequest \/ CollectClose
  PROVE  EndedPosted' /\ Coming'
<1> USE DEF RoomInv, At
<1>1. rpc' = "collect" /\ UNCHANGED <<playerVars, notes, shutdown>>
  BY DEF CollectRequest, CollectClose, envVars
<1>2. closing'.awaiting \subseteq closing.awaiting
      /\ \A p \in closing'.awaiting : p \in Posted => p \in Posted'
  <2>1. CASE CollectRequest
    <3>1. /\ Posted \ {Head(requests).from} \subseteq Posted'
          /\ Head(requests).command # "drop" => Posted' = Posted
      BY <2>1, PostedByTail DEF CollectRequest
    <3>2. CASE Head(requests).command = "drop"
      <4>1. closing'.awaiting = closing.awaiting \ {Head(requests).from}
        BY <2>1, <3>2 DEF CollectRequest, StopAwaiting, IsLastRequest, TypeOK, RoomTypeOK
      <4> QED
        BY <3>1, <4>1
    <3>3. CASE Head(requests).command # "drop"
      <4>1. closing' = closing
        BY <2>1, <3>3 DEF CollectRequest, IsLastRequest
      <4> QED
        BY <3>1, <3>3, <4>1
    <3> QED
      BY <3>2, <3>3
  <2>2. CASE CollectClose
    <3>1. Posted \ {Head(closes).from} \subseteq Posted'
      BY <2>2, PostedByTailOfCloses DEF CollectClose
    <3> QED
      BY <2>2, <3>1 DEF CollectClose, StopAwaiting, TypeOK, RoomTypeOK
  <2> QED
    BY <2>1, <2>2
<1> QED
  BY <1>1, <1>2 DEF PostedInv, EndedPosted, Coming, CloseRequestsComing, ToldToEnd, playerVars

LEMMA PostedRoom ==
  ASSUME RoomInv, RoomInv', PostedInv, UniqueIds, RoomStep
  PROVE  EndedPosted' /\ Coming'
<1> USE DEF RoomInv
<1>1. ASSUME rpc' \notin {"notify", "collect"} PROVE Coming'
  BY <1>1 DEF DrainOK, Coming, CloseRequestsComing
<1>2. CASE Start \/ NewClient
  <2>1. PICK i \in PlayerId :
          /\ OnConnect(i) /\ rpc' = "select" /\ shutdown' = shutdown /\ Posted' = Posted
          /\ rpc = "start" \/ rpc = "select"
    BY <1>2, JoinIs
  <2>2. ASSUME NEW p \in players', Over(p)', ~shutdown PROVE p \in Posted
    <3>1. p # i /\ p \in PlayerId
      BY <2>1, <2>2 DEF OnConnect, Over, TypeOK, PlayerTypeOK, RoomTypeOK
    <3>2. p \in players /\ Over(p)
      BY <2>1, <2>2, <3>1 DEF OnConnect, Survivors, Over, TypeOK, PlayerTypeOK
    <3> QED
      BY <2>1, <2>2, <3>2 DEF PostedInv, EndedPosted, StartOK
  <2> QED
    BY <1>1, <2>1, <2>2 DEF EndedPosted
<1>3. CASE rpc' \in Open /\ ~(Start \/ NewClient)
  <2>1. /\ rpc \in Open /\ ppc' = ppc /\ shutdown' = shutdown
        /\ \/ Rests \/ Talks \/ FinishDisconnect
           \/ \E i \in PlayerId : Departs(i)
    BY <1>3, OpenStep DEF playerVars
  <2>2. /\ players' \subseteq players
        /\ \A p \in players' : p \in Posted => p \in Posted'
    <3>1. CASE Rests
      BY <3>1 DEF Rests, Posted
    <3>2. CASE Talks
      BY <3>2 DEF Talks
    <3>3. CASE FinishDisconnect
      BY <3>3 DEF FinishDisconnect, Survivors, Posted
    <3>4. ASSUME NEW i \in PlayerId, Departs(i)
          PROVE  /\ players' \subseteq players
                 /\ \A p \in players' : p \in Posted => p \in Posted'
      BY <3>4 DEF Departs
    <3> QED
      BY <2>1, <3>1, <3>2, <3>3, <3>4
  <2> QED
    BY <1>1, <1>3, <2>1, <2>2 DEF Open, PostedInv, EndedPosted, Over
<1>4. CASE rpc' = "notify" /\ ~(Start \/ NewClient)
  <2>1. CASE NotifyClosing
    BY <2>1, NotifyPosted
  <2>2. CASE AwaitHandle \/ SendCloseDone
    <3>1. UNCHANGED <<rpc, players, closing, requests, closes, notes, playerVars, shutdown>>
      BY <2>2 DEF AwaitHandle, SendCloseDone, channelVars, envVars
    <3> QED
      BY <3>1 DEF PostedInv, EndedPosted, Coming, CloseRequestsComing, ToldToEnd, Posted, Over,
                  playerVars
  <2>3. CASE rpc = "select"
    BY <1>4, <2>3, BeginPosted
  <2> QED
    BY <1>4, <2>1, <2>2, <2>3 DEF RoomStep, RoomCloses, RoomWindsDown, TurnClientAway, RecvSend,
       Reconfigure, RecvSeal, RecvDrop, RecvClose, ReconfigureExpired, TimeLimit,
       RoomHearsShutdown, TakeRequest, FinishDisconnect, NotifyClosingDone, CollectRequest,
       CollectClose, CollectDone, SendSeal, DrainCloses, DrainRequests, JoinPlayers,
       DrainClients, AwaitCloses, SignalClosed, At, RoomGoto
<1>5. CASE rpc' = "collect" /\ ~(Start \/ NewClient)
  <2>1. CASE CollectRequest \/ CollectClose
    BY <2>1, CollectPosted
  <2>2. CASE AwaitHandle \/ SendCloseDone \/ NotifyClosingDone
    <3>1. UNCHANGED <<closing, requests, closes, notes, playerVars, shutdown>>
      BY <2>2 DEF AwaitHandle, SendCloseDone, NotifyClosingDone, channelVars, envVars
    <3> QED
      BY <1>5, <3>1 DEF PostedInv, EndedPosted, Coming, CloseRequestsComing, ToldToEnd, Posted,
                        playerVars
  <2> QED
    BY <1>5, <2>1, <2>2 DEF RoomStep, RoomCloses, RoomWindsDown, TurnClientAway, RecvSend,
       Reconfigure, RecvSeal, RecvDrop, RecvClose, BeginClose, BeginDisconnect,
       ReconfigureExpired, TimeLimit, roomVars,
       RoomHearsShutdown, TakeRequest, FinishDisconnect, NotifyClosing,
       CollectDone, SendSeal, DrainCloses, DrainRequests, JoinPlayers,
       DrainClients, AwaitCloses, SignalClosed, At, RoomGoto
<1> QED
  BY <1>1, <1>2, <1>3, <1>4, <1>5 DEF EndedPosted, Open

LEMMA PostedNext ==
  ASSUME RoomInv, RoomInv', PostedInv, UniqueIds, [Next]_vars
  PROVE  PostedInv'
<1> USE DEF RoomInv
<1>1. StartOK'
  BY StartNext DEF PostedInv
<1>2. CASE RoomStep
  <2>1. LeavingDrops'
    <3>1. CASE Start \/ NewClient
      <4>1. \E i \in PlayerId : OnConnect(i)
        BY <3>1, JoinIs
      <4> QED
        BY <4>1 DEF OnConnect, PostedInv, LeavingDrops, TypeOK, PlayerTypeOK
    <3>2. CASE ~Start /\ ~NewClient
      BY <1>2, <3>2, PlayersLeftAlone DEF playerVars, PostedInv, LeavingDrops
    <3> QED
      BY <3>1, <3>2
  <2> QED
    BY <1>1, <1>2, <2>1, PostedRoom DEF PostedInv
<1>3. ASSUME NEW i \in PlayerId, PlayerStep(i) PROVE PostedInv'
  <2>1. /\ UNCHANGED roomVars /\ shutdown' = shutdown
        /\ \A p \in PlayerId \ {i} : notes'[p] = notes[p] /\ ppc'[p] = ppc[p]
        /\ players \subseteq PlayerId /\ closing.awaiting \subseteq PlayerId
    BY <1>3, PlayerStepReads DEF TypeOK, RoomTypeOK
  <2>2. /\ LeavingDrops'
        /\ ~RoomGone /\ ~shutdown =>
             Posted \subseteq Posted' /\ (Over(i)' => Over(i) \/ i \in Posted')
    BY <1>3, PlayerPosts DEF PostedInv
  <2>3. EndedPosted'
    BY <2>1, <2>2 DEF PostedInv, EndedPosted, RoomGone, roomVars, Over
  <2>4. Coming'
    <3> SUFFICES ASSUME ~shutdown, NEW p \in closing.awaiting
                 PROVE  \/ p \in Posted'
                        \/ ppc'[p] = "leaving"
                        \/ ppc'[p] \in {"run", "asking"} /\ ToldToEnd(p)'
      BY <2>1 DEF Coming, CloseRequestsComing, roomVars
    <3>1. ~RoomGone
      BY DEF DrainOK, RoomGone
    <3>2. \/ p \in Posted
          \/ ppc[p] = "leaving"
          \/ ppc[p] \in {"run", "asking"} /\ ToldToEnd(p)
      BY DEF PostedInv, Coming, CloseRequestsComing
    <3>3. CASE p # i
      BY <2>1, <2>2, <3>1, <3>2, <3>3 DEF ToldToEnd
    <3>4. CASE p = i
      <4>1. CASE p \in Posted
        BY <2>2, <3>1, <4>1
      <4>2. CASE p \notin Posted
        <5>1. ~Over(p) /\ OnTheWayOut(p) /\ p \in PlayerId
          BY <2>1, <3>2, <4>2 DEF Over, OnTheWayOut
        <5>2. OnTheWayOut(p)'
          BY <1>3, <5>1, OutStaysForPlayer
        <5>3. ppc'[p] \in {"run", "asking", "leaving", "ending", "done"}
          BY <1>3, <3>4, PlayerStepMoves DEF TypeOK, PlayerTypeOK
        <5>4. Over(p)' => p \in Posted'
          BY <2>2, <3>1, <3>4, <5>1
        <5> QED
          BY <5>2, <5>3, <5>4 DEF Over, OnTheWayOut
      <4> QED
        BY <4>1, <4>2
    <3> QED
      BY <3>3, <3>4
  <2> QED
    BY <1>1, <2>2, <2>3, <2>4 DEF PostedInv
<1>4. CASE Arrive \/ LobbyReads \/ LobbyHearsShutdown \/ LobbyAborts
           \/ Shutdown \/ Finished \/ UNCHANGED vars
  <2>1. /\ UNCHANGED <<rpc, players, closing, notes, ppc, pend, requests, closes>>
        /\ shutdown => shutdown'
    BY <1>4 DEF Arrive, LobbyReads, LobbyHearsShutdown, LobbyAborts, Shutdown,
                Finished, vars, roomVars,
                playerVars, channelVars, envVars
  <2> QED
    BY <1>1, <2>1 DEF PostedInv, LeavingDrops, EndedPosted, Coming, CloseRequestsComing,
                      ToldToEnd, Posted, Over
<1>5. CASE Aborted
  BY <1>1, <1>5 DEF Aborted, RoomGoto, playerVars, PostedInv, LeavingDrops, EndedPosted, Coming,
                    CloseRequestsComing, NotClosing
<1> QED
  BY <1>2, <1>3, <1>4, <1>5 DEF Next, Environment

LEMMA PostedInitially == Init => PostedInv
BY DEF Init, PostedInv, StartOK, NoSenders, LeavingDrops, EndedPosted, Coming,
       CloseRequestsComing, NotClosing

\* While no id is drawn twice, and before the shutdown signal, on_close waits only
\* for players whose last request is in a channel or is going to be.
THEOREM RequestsAreComing ==
  ASSUME UniqueIds, ~MayShutdown
  PROVE  Spec => []CloseRequestsComing
<1>1. RoomInv /\ RoomInv' /\ PostedInv /\ [Next]_vars => PostedInv'
  BY PostedNext
<1>2. Init => ~shutdown
  BY DEF Init
<1>3. ~shutdown /\ [Next]_vars => ~shutdown'
  <2>1. ASSUME ~shutdown, NEW i \in PlayerId, PlayerStep(i) PROVE ~shutdown'
    BY <2>1 DEF PlayerStep, ClientAsks, ClientFaults, ClientGone, ReadNews, ReadEnd, ReadClosed,
       HearShutdown, ResumeAsking, ResumeLeaving, Unblock, Return, envVars
  <2>2. ASSUME ~shutdown, RoomStep PROVE ~shutdown'
    BY <2>2 DEF RoomStep, RoomCloses, RoomWindsDown, Start, NewClient, TurnClientAway, RecvSend,
       Reconfigure, RecvSeal, RecvDrop, RecvClose, ReconfigureExpired, TimeLimit,
       RoomHearsShutdown, TakeRequest, AwaitHandle, FinishDisconnect, NotifyClosing,
       NotifyClosingDone, CollectRequest, CollectClose, CollectDone, SendSeal, DrainCloses,
       DrainRequests, JoinPlayers, DrainClients, AwaitCloses, SignalClosed, SendCloseDone,
       envVars
  <2>3. ASSUME ~shutdown, Environment \/ UNCHANGED vars PROVE ~shutdown'
    BY <2>3 DEF Environment, Arrive, LobbyReads, LobbyHearsShutdown, LobbyAborts,
                Aborted, Shutdown, Finished, vars,
       envVars
  <2> QED
    BY <2>1, <2>2, <2>3 DEF Next
<1>4. PostedInv /\ ~shutdown => CloseRequestsComing
  BY DEF PostedInv, Coming
<1> QED
  BY <1>1, <1>2, <1>3, <1>4, PostedInitially, RoomInvariant, PTL DEF Spec
-----------------------------------------------------------------------------
(* The clients' lists, while no id is drawn twice.                         *)

\* A client that is not leaving knows of nobody who is not in the room, except of
\* those whose last request is on its way or being handled.
KnownAreHere ==
  ~shutdown /\ rpc \in Open =>
    \A i \in players, j \in PlayerId :
      ~OnTheWayOut(i) /\ Knows(view[i], j, notes[i]) =>
        j # i /\ j \in players \cup Posted \cup {departing.id}
DepartingOK == rpc \in {"start", "select"} => departing.id = NoId

ViewInv == DepartingOK /\ KnownAreHere

LEMMA NotOut ==
  ASSUME TypeOK, NEW i \in PlayerId, ~OnTheWayOut(i)
  PROVE  Talking(i) /\ notes[i] # <<Lagged>>
<1>1. notes[i] = <<Lagged>> => EndIn(notes[i])
  BY LaggedIs
<1> QED
  BY <1>1 DEF OnTheWayOut, ToldToEnd, EndIn, IsLast, Talking

LEMMA ViewJoin ==
  ASSUME RoomInv, TypeOK', PostedInv, ViewInv, UniqueIds, Start \/ NewClient
  PROVE  ViewInv'
<1> USE DEF RoomInv
<1>1. PICK i \in PlayerId :
        /\ OnConnect(i) /\ rpc' = "select" /\ shutdown' = shutdown /\ Posted' = Posted
        /\ \/ rpc = "start" /\ i = HOST_ID
           \/ rpc = "select" /\ i \notin players
  BY JoinIs
<1>2. /\ notes \in [PlayerId -> Seq(Note)] /\ players \subseteq PlayerId
      /\ ppc \in [PlayerId -> PlayerPlace] /\ view \in [PlayerId -> SUBSET PlayerId]
  BY NotesTyped DEF TypeOK, RoomTypeOK, PlayerTypeOK
<1>3. rpc = "start" => players = {}
  BY DEF PostedInv, StartOK
<1>4. departing' = departing /\ departing.id = NoId
  BY <1>1 DEF OnConnect, ViewInv, DepartingOK
<1>5. /\ notes'[i] = <<>> /\ view'[i] = Survivors(players)
      /\ players' = Survivors(players) \cup {i} /\ i \notin players
      /\ \A p \in Survivors(players) :
           /\ p \in players /\ p # i /\ ppc'[p] = ppc[p] /\ view'[p] = view[p]
           /\ notes'[p] = Push(notes[p], PlayerJoined(i))
  BY <1>1, <1>2, <1>3 DEF OnConnect, NotifyAll, Survivors
<1>6. ASSUME ~shutdown, NEW p \in players', NEW j \in PlayerId, ~OnTheWayOut(p)',
             Knows(view'[p], j, notes'[p])
      PROVE  j # p /\ j \in players' \cup Posted
  <2>1. CASE p = i
    BY <1>5, <1>6, <2>1 DEF Knows, Survivors
  <2>2. CASE p # i
    <3>1. p \in Survivors(players) /\ p \in PlayerId
      BY <1>2, <1>5, <1>6, <2>2
    <3>2. ~OnTheWayOut(p)
      BY <1>5, <1>6, <3>1, OutStays
    <3>3. notes'[p] # <<Lagged>>
      BY <1>6, <3>1, LaggedIs DEF OnTheWayOut, ToldToEnd, EndIn, IsLast
    <3>4. notes[p] \in Seq(Note) /\ Push(notes[p], PlayerJoined(i)) # <<Lagged>>
      BY <1>2, <1>5, <3>1, <3>3
    <3>5. CASE j = i
      BY <1>5, <2>2, <3>5
    <3>6. CASE j # i
      <4>1. PlayerJoined(i) \notin {PlayerJoined(j), PlayerLeft(j)}
        BY <3>6 DEF PlayerJoined, PlayerLeft
      <4>2. Knows(view[p], j, notes[p])
        BY <1>5, <1>6, <3>1, <3>4, <4>1, KnowsPush
      <4>3. j # p /\ j \in players \cup Posted
        BY <1>1, <1>3, <1>4, <1>5, <1>6, <3>1, <3>2, <4>2, IdAssumption
           DEF IdAssumption, ViewInv, KnownAreHere, Open
      <4>4. j \in players /\ j \notin Survivors(players) => j \in Posted
        BY <1>1, <1>3, <1>6 DEF Survivors, Alive, Over, PostedInv, EndedPosted
      <4> QED
        BY <1>5, <4>3, <4>4
    <3> QED
      BY <3>5, <3>6
  <2> QED
    BY <2>1, <2>2
<1> QED
  BY <1>1, <1>4, <1>6 DEF ViewInv, DepartingOK, KnownAreHere

\* One more notification; whoever is neither in the room any more nor on the way
\* out is `left`, and the others are told.
LEMMA ViewTalk ==
  ASSUME TypeOK, TypeOK', ViewInv, DepartingOK', UNCHANGED <<playerVars, shutdown>>, ~shutdown,
         rpc \in Open, rpc' \in Open, players' \subseteq players,
         NEW left,
         \A j \in PlayerId :
           j \in players \cup Posted \cup {departing.id} =>
             \/ j \in players' \cup Posted' \cup {departing'.id}
             \/ /\ j = left
                /\ \A p \in players' : notes'[p] = Push(notes[p], PlayerLeft(left)),
         \A p \in PlayerId :
           \/ notes'[p] = notes[p]
           \/ \E note : /\ note.kind \in {"message", "end"} \/ note = PlayerLeft(left)
                        /\ notes'[p] = Push(notes[p], note)
  PROVE  ViewInv'
<1>1. /\ notes \in [PlayerId -> Seq(Note)] /\ players \subseteq PlayerId
      /\ ppc' = ppc /\ view' = view
  BY NotesTyped DEF TypeOK, RoomTypeOK, playerVars
<1>2. ASSUME NEW p \in players', NEW j \in PlayerId, ~OnTheWayOut(p)',
             Knows(view[p], j, notes'[p])
      PROVE  j # p /\ j \in players' \cup Posted' \cup {departing'.id}
  <2>1. p \in players /\ p \in PlayerId
    BY <1>1
  <2>2. ~OnTheWayOut(p)
    BY <1>1, <1>2, <2>1, OutStays
  <2>3. notes'[p] # <<Lagged>>
    BY <1>2, LaggedIs DEF OnTheWayOut, ToldToEnd, EndIn, IsLast
  <2>4. Knows(view[p], j, notes[p])
    <3>1. CASE notes'[p] = notes[p]
      BY <1>2, <3>1
    <3>2. ASSUME NEW note, note.kind \in {"message", "end"} \/ note = PlayerLeft(left),
                 notes'[p] = Push(notes[p], note)
          PROVE  Knows(view[p], j, notes[p])
      <4>1. notes[p] \in Seq(Note) /\ Push(notes[p], note) # <<Lagged>>
        BY <1>1, <2>1, <2>3, <3>2
      <4>2. note # PlayerJoined(j)
        <5>1. PlayerJoined(j).kind = "joined" /\ PlayerLeft(left).kind = "left"
          BY DEF PlayerJoined, PlayerLeft
        <5> QED
          BY <3>2, <5>1
      <4>3. note = PlayerLeft(j) => ~Knows(view[p], j, Push(notes[p], note))
        BY <4>1, KnowsPush
      <4> QED
        BY <1>2, <3>2, <4>1, <4>2, <4>3, KnowsPush
    <3> QED
      BY <2>1, <3>1, <3>2
  <2>5. j # p /\ j \in players \cup Posted \cup {departing.id}
    BY <2>1, <2>2, <2>4 DEF ViewInv, KnownAreHere
  <2>6. CASE j = left /\ notes'[p] = Push(notes[p], PlayerLeft(left))
    <3>1. notes'[p] = Push(notes[p], PlayerLeft(j))
      BY <2>6
    <3>2. notes[p] \in Seq(Note) /\ Push(notes[p], PlayerLeft(j)) # <<Lagged>>
      BY <1>1, <2>1, <2>3, <3>1
    <3>3. ~Knows(view[p], j, Push(notes[p], PlayerLeft(j)))
      BY <3>2, KnowsPush
    <3> QED
      BY <1>2, <3>1, <3>3
  <2> QED
    BY <2>5, <2>6
<1> QED
  BY <1>1, <1>2 DEF ViewInv, KnownAreHere

LEMMA ViewRoom ==
  ASSUME RoomInv, TypeOK', PostedInv, ViewInv, RoomStep, ~Start, ~NewClient
  PROVE  ViewInv'
<1> USE DEF RoomInv
<1>1. CASE rpc' \notin Open
  <2>1. rpc' # "start" \/ (rpc = "start" /\ departing' = departing)
    BY DEF RoomStep, RoomCloses, RoomWindsDown, TurnClientAway, RecvSend, Reconfigure,
       RecvSeal, RecvDrop, RecvClose, BeginClose, BeginDisconnect, ReconfigureExpired,
       TimeLimit, roomVars, RoomHearsShutdown, TakeRequest, AwaitHandle, FinishDisconnect,
       Survivors, NotifyClosing, NotifyClosingDone, CollectRequest, CollectClose,
       CollectDone, SendSeal, DrainCloses, DrainRequests, JoinPlayers, DrainClients,
       AwaitCloses, SignalClosed, SendCloseDone, At, RoomGoto
  <2> QED
    BY <1>1, <2>1 DEF ViewInv, DepartingOK, KnownAreHere, Open
<1>2. CASE rpc' \in Open
  <2>1. rpc \in Open /\ UNCHANGED <<playerVars, shutdown>>
    BY <1>2, OpenStep
  <2>2. DepartingOK'
    <3>1. CASE Rests \/ Talks
      BY <3>1 DEF Rests, Talks, ViewInv, DepartingOK
    <3>2. CASE FinishDisconnect
      BY <3>2 DEF FinishDisconnect, NotDeparting, DepartingOK
    <3>3. ASSUME NEW i \in PlayerId, Departs(i) PROVE DepartingOK'
      BY <3>3 DEF Departs, DepartingOK
    <3> QED
      BY <1>2, <3>1, <3>2, <3>3, OpenStep
  <2> SUFFICES ASSUME ~shutdown PROVE ViewInv'
    BY <2>1, <2>2 DEF ViewInv, KnownAreHere
  <2>3. CASE Rests
    <3>1. UNCHANGED <<players, departing, notes>> /\ Posted' = Posted
      BY <2>3 DEF Rests, Posted
    <3> QED
      BY <1>2, <2>1, <2>2, <3>1, ViewTalk
  <2>4. CASE Talks
    <3>1. /\ UNCHANGED <<players, departing>> /\ Posted' = Posted
          /\ \A p \in PlayerId : TalksTo(p)
      BY <2>4 DEF Talks
    <3> QED
      BY <1>2, <2>1, <2>2, <3>1, ViewTalk DEF TalksTo
  <2>5. CASE FinishDisconnect
    <3> DEFINE d == departing.id
    <3>1. /\ players' = Survivors(players) /\ players' \subseteq players
          /\ notes' = NotifyAll(players, PlayerLeft(d)) /\ Posted' = Posted
      BY <2>5 DEF FinishDisconnect, Survivors, Posted
    <3>2. players \subseteq PlayerId
      BY DEF TypeOK, RoomTypeOK
    <3>3. \A p \in players' : notes'[p] = Push(notes[p], PlayerLeft(d))
      BY <3>1, <3>2 DEF NotifyAll
    <3>4. \A p \in PlayerId :
            notes'[p] = notes[p] \/ notes'[p] = Push(notes[p], PlayerLeft(d))
      BY <3>1 DEF NotifyAll
    <3>5. \A j \in players : j \in players' \/ j \in Posted
      BY <2>1, <3>1 DEF Survivors, Alive, Over, PostedInv, EndedPosted, Open
    <3>6. \A j \in PlayerId :
            j \in players \cup Posted \cup {d} => j \in players' \cup Posted' \/ j = d
      BY <3>1, <3>5
    <3> HIDE DEF d
    <3> QED
      BY <1>2, <2>1, <2>2, <3>1, <3>3, <3>4, <3>6, ViewTalk DEF d
  <2>6. ASSUME NEW i \in PlayerId, Departs(i) PROVE ViewInv'
    <3>1. /\ players' = players \ {i} /\ departing'.id = i /\ notes' = notes
          /\ Posted \ {i} \subseteq Posted' /\ departing.id = NoId
      BY <2>6 DEF Departs, ViewInv, DepartingOK
    <3>2. \A j \in PlayerId :
            j \in players \cup Posted \cup {departing.id} =>
              j \in players' \cup Posted' \cup {departing'.id}
      BY <3>1, IdAssumption DEF IdAssumption
    <3> QED
      BY <1>2, <2>1, <2>2, <3>1, <3>2, ViewTalk
  <2> QED
    BY <1>2, <2>3, <2>4, <2>5, <2>6, OpenStep
<1> QED
  BY <1>1, <1>2

LEMMA ViewNext ==
  ASSUME RoomInv, TypeOK', PostedInv, ViewInv, UniqueIds, [Next]_vars
  PROVE  ViewInv'
<1> USE DEF RoomInv
<1>1. CASE RoomStep
  BY <1>1, ViewJoin, ViewRoom
<1>2. ASSUME NEW i \in PlayerId, PlayerStep(i) PROVE ViewInv'
  <2>1. /\ UNCHANGED <<rpc, players, departing, shutdown>> /\ players \subseteq PlayerId
        /\ notes \in [PlayerId -> Seq(Note)]
    BY <1>2, PlayerStepReads, NotesTyped DEF roomVars, TypeOK, RoomTypeOK
  <2> SUFFICES ASSUME ~shutdown, rpc \in Open, NEW p \in players, NEW j \in PlayerId,
                      ~OnTheWayOut(p)', Knows(view'[p], j, notes'[p])
               PROVE  j # p /\ j \in players \cup Posted' \cup {departing.id}
    BY <2>1 DEF ViewInv, DepartingOK, KnownAreHere
  <2>2. Posted \subseteq Posted'
    BY <1>2, PlayerPosts DEF PostedInv, RoomGone, Open
  <2>3. p \in PlayerId /\ ~OnTheWayOut(p)
    BY <1>2, <2>1, OutStaysForPlayer
  <2>4. Talking(p)'
    BY DEF OnTheWayOut, Talking
  <2>5. Knows(view[p], j, notes[p])
    <3>1. CASE notes'[p] = notes[p] /\ view'[p] = view[p]
      BY <3>1
    <3>2. CASE /\ notes[p] # <<>> /\ notes'[p] = Tail(notes[p])
               /\ Head(notes[p]) \in RoomNotification /\ ~IsLast(Head(notes[p]))
               /\ view'[p] = Heard(view[p], Head(notes[p]))
      BY <2>1, <3>2, KnowsRead
    <3> QED
      BY <1>2, <2>3, <2>4, <3>1, <3>2, PlayerStepReads DEF Talking
  <2> QED
    BY <2>2, <2>3, <2>5 DEF ViewInv, KnownAreHere
<1>3. CASE Arrive \/ LobbyReads \/ LobbyHearsShutdown \/ LobbyAborts
           \/ Shutdown \/ Finished \/ UNCHANGED vars
  <2>1. /\ UNCHANGED <<rpc, players, departing, notes, ppc, view, requests, closes>>
        /\ shutdown => shutdown'
    BY <1>3 DEF Arrive, LobbyReads, LobbyHearsShutdown, LobbyAborts, Shutdown,
                Finished, vars, roomVars,
                playerVars, channelVars, envVars
  <2> QED
    BY <2>1 DEF ViewInv, DepartingOK, KnownAreHere, OnTheWayOut, ToldToEnd, Posted
<1>4. CASE Aborted
  BY <1>4 DEF Aborted, RoomGoto, ViewInv, DepartingOK, KnownAreHere, Open
<1> QED
  BY <1>1, <1>2, <1>3, <1>4 DEF Next, Environment

\* While no id is drawn twice, and until the shutdown signal, the lists that the
\* clients keep of who is in the room follow player_map.
THEOREM ViewsFollow ==
  ASSUME UniqueIds
  PROVE  Spec => []ViewFollowsMembership
<1>1. Init => KnownInv /\ ViewInv
  BY DEF Init, KnownInv, StartOK, GoneOK, KnowsAll, AllInOrder, Talking, NoSenders, Open,
         NotDeparting, ViewInv, DepartingOK, KnownAreHere
<1>2. RoomInv /\ RoomInv' /\ PostedInv /\ [Next]_vars => PostedInv'
  BY PostedNext
<1>3. RoomInv /\ RoomInv' /\ PostedInv /\ KnownInv /\ ViewInv /\ [Next]_vars
        => KnownInv' /\ ViewInv'
  BY KnownNext, ViewNext DEF RoomInv
<1>4. ASSUME TypeOK, KnownInv, ViewInv PROVE ViewFollowsMembership
  <2> SUFFICES ASSUME rpc \in Open, ~shutdown, NEW i \in players, ~OnTheWayOut(i)
               PROVE  /\ players \ {i} \subseteq ToldBy(i, notes[i])
                      /\ ToldBy(i, notes[i]) \subseteq
                           (players \cup Posted \cup {departing.id}) \ {i}
    BY DEF ViewFollowsMembership, Open
  <2>1. players \subseteq PlayerId /\ i \in PlayerId
    BY <1>4 DEF TypeOK, RoomTypeOK
  <2>2. Talking(i) /\ notes[i] # <<Lagged>>
    BY <1>4, <2>1, NotOut
  <2>3. players \ {i} \subseteq ToldBy(i, notes[i])
    BY <1>4, <2>1, <2>2 DEF KnownInv, KnowsAll, ToldBy
  <2>4. ToldBy(i, notes[i]) \subseteq (players \cup Posted \cup {departing.id}) \ {i}
    BY <1>4 DEF ViewInv, KnownAreHere, ToldBy
  <2> QED
    BY <2>3, <2>4
<1>5. RoomInv => TypeOK
  BY DEF RoomInv
<1> QED
  BY <1>1, <1>2, <1>3, <1>4, <1>5, PostedInitially, RoomInvariant, PTL DEF Spec
-----------------------------------------------------------------------------
(* The messages from one player to another, while no id is drawn twice.    *)

From(q, queue) == {k \in DOMAIN queue : queue[k] = MessageReceived(q)}
CountOf(q, queue) == Cardinality(From(q, queue))

LEMMA CountType ==
  ASSUME NEW queue \in Seq(Note), NEW q
  PROVE  IsFiniteSet(From(q, queue)) /\ CountOf(q, queue) \in Nat
<1>1. From(q, queue) \subseteq 1..Len(queue) /\ Len(queue) \in Nat
  BY DEF From
<1>2. IsFiniteSet(1..Len(queue))
  BY <1>1, FS_Interval
<1>3. IsFiniteSet(From(q, queue))
  BY <1>1, <1>2, FS_Subset
<1> QED
  BY <1>3, FS_CardinalityType DEF CountOf

LEMMA CountEmpty == \A q : From(q, <<>>) = {} /\ CountOf(q, <<>>) = 0
<1>1. \A q : From(q, <<>>) = {}
  BY DEF From
<1> QED
  BY <1>1, FS_EmptySet DEF CountOf

\* A notification adds at most one message, and a queue that lagged has none.
LEMMA CountPush ==
  ASSUME NEW queue \in Seq(Note), NEW note \in Note, NEW q
  PROVE  /\ CountOf(q, Push(queue, note)) <= CountOf(q, queue) + 1
         /\ note # MessageReceived(q) =>
              /\ CountOf(q, Push(queue, note)) <= CountOf(q, queue)
              /\ From(q, queue) = {} => From(q, Push(queue, note)) = {}
<1>1. CountOf(q, queue) \in Nat /\ IsFiniteSet(From(q, queue))
  BY CountType
<1>2. CASE Push(queue, note) = <<Lagged>>
  <2>1. MessageReceived(q) # Lagged
    BY DEF MessageReceived, Lagged
  <2>2. From(q, <<Lagged>>) = {}
    BY <2>1, LaggedIs DEF From
  <2>3. CountOf(q, <<Lagged>>) = 0
    BY <2>2, FS_EmptySet DEF CountOf
  <2> QED
    BY <1>1, <1>2, <2>2, <2>3
<1>3. CASE Push(queue, note) # <<Lagged>>
  <2> DEFINE longer == Append(queue, note)
             n == Len(queue) + 1
  <2>1. Push(queue, note) = longer
    BY <1>3, PushIs
  <2>2. /\ DOMAIN longer = 1..n /\ longer[n] = note /\ n \in Nat \ {0}
        /\ DOMAIN queue = 1..(n - 1)
        /\ \A k \in DOMAIN queue : longer[k] = queue[k]
    BY AppendIs
  <2> HIDE DEF longer, n
  <2>3. 1..n = 1..(n - 1) \cup {n} /\ n \notin 1..(n - 1)
    BY <2>2
  <2>4. CASE note = MessageReceived(q)
    <3>1. From(q, longer) = From(q, queue) \cup {n}
      BY <2>2, <2>3, <2>4 DEF From
    <3>2. \/ CountOf(q, longer) = CountOf(q, queue)
          \/ CountOf(q, longer) = CountOf(q, queue) + 1
      BY <1>1, <3>1, FS_AddElement DEF CountOf
    <3> QED
      BY <1>1, <2>1, <2>4, <3>2
  <2>5. CASE note # MessageReceived(q)
    <3>1. From(q, longer) = From(q, queue)
      BY <2>2, <2>3, <2>5 DEF From
    <3> QED
      BY <1>1, <2>1, <3>1 DEF CountOf
  <2> QED
    BY <2>4, <2>5
<1> QED
  BY <1>2, <1>3

\* Reading takes messages away, if anything.
LEMMA CountRead ==
  ASSUME NEW queue \in Seq(Note), queue # <<>>, NEW q
  PROVE  /\ CountOf(q, Tail(queue)) <= CountOf(q, queue)
         /\ From(q, queue) = {} => From(q, Tail(queue)) = {}
<1> DEFINE rest == From(q, Tail(queue))
           all == From(q, queue)
           next == [k \in rest |-> k + 1]
<1>1. /\ DOMAIN queue = 1..Len(queue) /\ DOMAIN Tail(queue) = 1..(Len(queue) - 1)
      /\ Len(queue) \in Nat \ {0}
      /\ \A k \in DOMAIN Tail(queue) : Tail(queue)[k] = queue[k + 1]
  BY TailIs
<1>2. \A k \in rest : k \in Nat /\ k + 1 \in all
  BY <1>1 DEF From
<1>3. IsFiniteSet(all)
  BY CountType
<1> HIDE DEF rest, all
<1>4. next \in [rest -> all]
  BY <1>2
<1>5. \A a, b \in rest : next[a] = next[b] => a = b
  <2>1. \A a \in rest : next[a] = a + 1 /\ a \in Nat
    BY <1>2
  <2> HIDE DEF next
  <2> QED
    BY <2>1
<1> HIDE DEF next
<1>6. next \in Injection(rest, all)
  BY <1>4, <1>5 DEF Injection, IsInjective
<1>7. Cardinality(rest) <= Cardinality(all)
  BY <1>3, <1>6, FS_Injection
<1> QED
  BY <1>2, <1>7 DEF CountOf, rest, all

\* A player's messages are counted, a count that is over the limit has stood still
\* since the limit was set, and nothing is queued from an id that was never drawn.
Counted ==
  rpc \in Open => \A q, p \in players : CountOf(q, notes[p]) <= msgSent[q][p]
WithinLimits ==
  \A q, p \in PlayerId :
    msgSent[q][p] > limits.messages => msgSent[q][p] = limits.counted[q][p]
NothingFromAbsent ==
  \A q, p \in PlayerId : ppc[q] = "absent" => From(q, notes[p]) = {}

FloodInv == Counted /\ WithinLimits /\ NothingFromAbsent

\* A notification to each player at most; a message is counted when it is sent.
LEMMA FloodTalk ==
  ASSUME TypeOK, TypeOK', Counted, NothingFromAbsent, UNCHANGED ppc,
         rpc' \in Open => rpc \in Open /\ players' \subseteq players,
         \A q \in players : ppc[q] # "absent",
         \A q, p \in players' : msgSent[q][p] <= msgSent'[q][p],
         \A p \in PlayerId :
           \/ notes'[p] = notes[p]
           \/ \E note \in RoomNotification :
                /\ notes'[p] = Push(notes[p], note)
                /\ note.kind = "message" =>
                     /\ note.of \in players
                     /\ p \in players' => msgSent[note.of][p] + 1 <= msgSent'[note.of][p]
  PROVE  Counted' /\ NothingFromAbsent'
<1>1. /\ notes \in [PlayerId -> Seq(Note)] /\ notes' \in [PlayerId -> Seq(Note)]
      /\ players \subseteq PlayerId /\ players' \subseteq PlayerId
      /\ msgSent \in [PlayerId -> [PlayerId -> Nat]]
      /\ msgSent' \in [PlayerId -> [PlayerId -> Nat]]
  BY DEF TypeOK, RoomTypeOK, ChannelTypeOK, Note
<1>2. \A q : MessageReceived(q).kind = "message" /\ MessageReceived(q).of = q
  BY DEF MessageReceived
<1>3. ASSUME NEW q \in players', NEW p \in players', rpc' \in Open
      PROVE  CountOf(q, notes'[p]) <= msgSent'[q][p]
  <2>1. /\ q \in players /\ p \in players /\ q \in PlayerId /\ p \in PlayerId
        /\ CountOf(q, notes[p]) <= msgSent[q][p] /\ msgSent[q][p] <= msgSent'[q][p]
    BY <1>1, <1>3 DEF Counted
  <2>2. /\ CountOf(q, notes[p]) \in Nat /\ CountOf(q, notes'[p]) \in Nat
        /\ msgSent[q][p] \in Nat /\ msgSent'[q][p] \in Nat
    BY <1>1, <2>1, CountType
  <2>3. CASE notes'[p] = notes[p]
    BY <2>1, <2>2, <2>3
  <2>4. ASSUME NEW note \in RoomNotification, notes'[p] = Push(notes[p], note),
               note.kind = "message" => msgSent[note.of][p] + 1 <= msgSent'[note.of][p]
        PROVE  CountOf(q, notes'[p]) <= msgSent'[q][p]
    <3>1. /\ CountOf(q, notes'[p]) <= CountOf(q, notes[p]) + 1
          /\ note # MessageReceived(q) => CountOf(q, notes'[p]) <= CountOf(q, notes[p])
      BY <1>1, <2>1, <2>4, CountPush DEF Note
    <3>2. note = MessageReceived(q) => msgSent[q][p] + 1 <= msgSent'[q][p]
      BY <1>2, <2>4
    <3> QED
      BY <2>1, <2>2, <3>1, <3>2
  <2> QED
    BY <1>3, <2>1, <2>3, <2>4
<1>4. ASSUME NEW q \in PlayerId, NEW p \in PlayerId, ppc[q] = "absent"
      PROVE  From(q, notes'[p]) = {}
  <2>1. From(q, notes[p]) = {} /\ q \notin players
    BY <1>4 DEF NothingFromAbsent
  <2>2. ASSUME NEW note \in RoomNotification, notes'[p] = Push(notes[p], note),
               note.kind = "message" => note.of \in players
        PROVE  From(q, notes'[p]) = {}
    <3>1. note # MessageReceived(q)
      BY <1>2, <2>1, <2>2
    <3> QED
      BY <1>1, <2>1, <2>2, <3>1, CountPush DEF Note
  <2> QED
    BY <2>1, <2>2
<1> QED
  BY <1>3, <1>4 DEF Counted, NothingFromAbsent

LEMMA FloodJoin ==
  ASSUME RoomInv, TypeOK', KnownInv, FloodInv, UniqueIds, Start \/ NewClient
  PROVE  FloodInv'
<1> USE DEF RoomInv
<1>1. PICK i \in PlayerId :
        /\ OnConnect(i) /\ rpc' = "select" /\ limits' = limits
        /\ rpc \in {"start", "select"}
        /\ rpc = "start" => i = HOST_ID
        /\ rpc = "select" => ppc[i] = "absent"
  BY JoinIs
<1>2. /\ notes \in [PlayerId -> Seq(Note)] /\ notes' \in [PlayerId -> Seq(Note)]
      /\ players \subseteq PlayerId /\ players' \subseteq PlayerId
      /\ msgSent \in [PlayerId -> [PlayerId -> Nat]]
      /\ msgSent' \in [PlayerId -> [PlayerId -> Nat]]
      /\ ppc \in [PlayerId -> PlayerPlace]
  BY DEF TypeOK, RoomTypeOK, ChannelTypeOK, PlayerTypeOK, Note
<1>3. /\ players' = Survivors(players) \cup {i} /\ notes'[i] = <<>> /\ msgSent'[i] = NoMessages
      /\ \A q \in PlayerId \ {i} : msgSent'[q] = msgSent[q] /\ ppc'[q] = ppc[q]
      /\ ppc'[i] # "absent" /\ ppc[i] = "absent"
      /\ \A p \in PlayerId \ {i} :
           notes'[p] = notes[p] \/ notes'[p] = Push(notes[p], PlayerJoined(i))
  BY <1>1, <1>2 DEF OnConnect, NotifyAll, LastRequestOK
<1>4. PlayerJoined(i) \in Note /\ \A q : PlayerJoined(i) # MessageReceived(q)
  BY MessageTypes DEF PlayerJoined, MessageReceived, Note
<1>5. \A q, p \in PlayerId :
        /\ p # i => CountOf(q, notes'[p]) <= CountOf(q, notes[p])
        /\ From(q, notes[p]) = {} => From(q, notes'[p]) = {}
  <2> TAKE q, p \in PlayerId
  <2>1. CASE p = i
    BY <1>3, <2>1, CountEmpty
  <2>2. CASE notes'[p] = notes[p]
    <3>1. CountOf(q, notes[p]) \in Nat
      BY <1>2, CountType
    <3> QED
      BY <2>2, <3>1
  <2>3. CASE p # i /\ notes'[p] = Push(notes[p], PlayerJoined(i))
    BY <1>2, <1>4, <2>3, CountPush
  <2> QED
    BY <1>3, <2>1, <2>2, <2>3
<1>6. NothingFromAbsent'
  BY <1>3, <1>5 DEF FloodInv, NothingFromAbsent
<1>7. ASSUME NEW q \in players', NEW p \in players' PROVE CountOf(q, notes'[p]) <= msgSent'[q][p]
  <2>1. q \in PlayerId /\ p \in PlayerId /\ msgSent'[q][p] \in Nat
    BY <1>2
  <2>2. CASE p = i
    BY <1>3, <2>1, <2>2, CountEmpty
  <2>3. CASE p # i /\ q = i
    <3>1. From(i, notes'[p]) = {}
      BY <1>3, <1>5, <2>1 DEF FloodInv, NothingFromAbsent
    <3>2. CountOf(i, notes'[p]) = 0
      BY <3>1, FS_EmptySet DEF CountOf
    <3> QED
      BY <2>1, <2>3, <3>2
  <2>4. CASE p # i /\ q # i
    <3>1. q \in players /\ p \in players /\ rpc = "select"
      BY <1>1, <1>3, <2>4 DEF Survivors, KnownInv, StartOK
    <3>2. CountOf(q, notes[p]) <= msgSent[q][p] /\ msgSent'[q][p] = msgSent[q][p]
      BY <1>3, <2>1, <2>4, <3>1 DEF FloodInv, Counted, Open
    <3>3. CountOf(q, notes'[p]) <= CountOf(q, notes[p])
      BY <1>5, <2>1, <2>4
    <3>4. CountOf(q, notes[p]) \in Nat /\ CountOf(q, notes'[p]) \in Nat
      BY <1>2, <2>1, CountType
    <3> QED
      BY <2>1, <3>2, <3>3, <3>4
  <2> QED
    BY <2>2, <2>3, <2>4
<1>8. WithinLimits'
  <2> SUFFICES ASSUME NEW q \in PlayerId, NEW p \in PlayerId, msgSent'[q][p] > limits.messages
               PROVE  msgSent'[q][p] = limits.counted[q][p]
    BY <1>1 DEF WithinLimits
  <2>1. limits.messages \in Nat
    BY LimitAssumption DEF LimitAssumption, TypeOK, RoomTypeOK
  <2>2. msgSent'[q][p] = msgSent[q][p] \/ msgSent'[q][p] = 0
    BY <1>3 DEF NoMessages
  <2> QED
    BY <2>1, <2>2 DEF FloodInv, WithinLimits
<1> QED
  BY <1>6, <1>7, <1>8 DEF FloodInv, Counted

\* The room hands on a message, or sends its sender away.
LEMMA FloodSend ==
  ASSUME RoomInv, TypeOK', FloodInv, UniqueIds, RecvSend
  PROVE  FloodInv'
<1> USE DEF RoomInv
<1> DEFINE i == Head(requests).from
           j == Head(requests).to
<1>1. i \in PlayerId /\ j \in PlayerId /\ rpc \in Open
      /\ TrySendMessage(i, j) /\ UNCHANGED <<rpc, players, limits, ppc>>
  <2>1. Head(requests) \in RoomRequest
    BY TakeType DEF RecvSend, TakeRequest, TypeOK, ChannelTypeOK
  <2> QED
    BY <2>1 DEF RoomRequest, RecvSend, TakeRequest, At, Open, playerVars
<1>2. /\ notes \in [PlayerId -> Seq(Note)] /\ players \subseteq PlayerId
      /\ msgSent \in [PlayerId -> [PlayerId -> Nat]]
      /\ limits.messages \in MessageLimits /\ limits.messages \in Nat
  BY LimitAssumption DEF LimitAssumption, TypeOK, RoomTypeOK, ChannelTypeOK, Note
<1>3. \A q \in players : ppc[q] # "absent"
  BY DEF LastRequestOK
<1> HIDE DEF i, j
<1>4. ASSUME msgSent' = msgSent, notes' = notes \/ \E code \in CloseCode : Notify(i, EndOfStay(code))
      PROVE  FloodInv'
  <2>1. ASSUME NEW p \in PlayerId
        PROVE  \/ notes'[p] = notes[p]
               \/ \E note \in RoomNotification :
                    notes'[p] = Push(notes[p], note) /\ note.kind = "end"
    <3>1. \A code \in CloseCode :
            EndOfStay(code) \in RoomNotification /\ EndOfStay(code).kind = "end"
      BY MessageTypes, IdAssumption DEF IdAssumption, EndOfStay
    <3>2. CASE notes' = notes
      BY <3>2
    <3>3. ASSUME NEW code \in CloseCode, Notify(i, EndOfStay(code))
          PROVE  notes'[p] = notes[p] \/ notes'[p] = Push(notes[p], EndOfStay(code))
      BY <1>2, <3>3 DEF Notify
    <3> QED
      BY <1>4, <3>1, <3>2, <3>3
  <2>2. \A q, p \in players' : msgSent[q][p] <= msgSent'[q][p]
    BY <1>1, <1>2, <1>4
  <2>3. Counted' /\ NothingFromAbsent'
    BY <1>1, <1>3, <2>1, <2>2, FloodTalk DEF FloodInv
  <2> QED
    BY <1>1, <1>4, <2>3 DEF FloodInv, WithinLimits
<1>5. ASSUME ~SenderGone(i), CanReceiveFrom(i, j), MessageAllowed(i, j),
             msgSent' = [msgSent EXCEPT ![i][j] = @ + 1], Notify(j, MessageReceived(i))
      PROVE  FloodInv'
  <2>1. MessageReceived(i) \in RoomNotification /\ MessageReceived(i).of = i /\ i \in players
    BY <1>1, <1>5, MessageTypes DEF MessageReceived, SenderGone
  <2>2. /\ msgSent'[i][j] = msgSent[i][j] + 1
        /\ \A q, p \in PlayerId : q # i \/ p # j => msgSent'[q][p] = msgSent[q][p]
    BY <1>1, <1>2, <1>5
  <2>3. \A p \in PlayerId :
          notes'[p] = notes[p] \/ (p = j /\ notes'[p] = Push(notes[p], MessageReceived(i)))
    BY <1>1, <1>2, <1>5 DEF Notify
  <2>4. ASSUME NEW q \in players', NEW p \in players'
        PROVE  msgSent[q][p] <= msgSent'[q][p]
    <3>1. q \in PlayerId /\ p \in PlayerId /\ msgSent[q][p] \in Nat
      BY <1>1, <1>2
    <3>2. msgSent'[q][p] = msgSent[q][p] \/ msgSent'[q][p] = msgSent[q][p] + 1
      BY <2>2, <3>1
    <3> QED
      BY <3>1, <3>2
  <2>5. msgSent[i][j] + 1 <= msgSent'[i][j]
    BY <1>1, <1>2, <2>2
  <2>6. \A p \in PlayerId :
          \/ notes'[p] = notes[p]
          \/ \E note \in RoomNotification :
               /\ notes'[p] = Push(notes[p], note)
               /\ note.kind = "message" =>
                    /\ note.of \in players
                    /\ p \in players' => msgSent[note.of][p] + 1 <= msgSent'[note.of][p]
    BY <2>1, <2>3, <2>5
  <2>7. Counted' /\ NothingFromAbsent'
    BY <1>1, <1>3, <2>4, <2>6, FloodTalk DEF FloodInv
  <2>8. msgSent'[i][j] <= limits.messages
    BY <1>1, <1>2, <1>5, <2>2 DEF MessageAllowed
  <2>9. ASSUME NEW q \in PlayerId, NEW p \in PlayerId, msgSent'[q][p] > limits.messages
        PROVE  msgSent'[q][p] = limits.counted[q][p]
    <3>1. CASE q = i /\ p = j
      BY <1>1, <1>2, <2>2, <2>8, <2>9, <3>1
    <3>2. CASE q # i \/ p # j
      BY <2>2, <2>9, <3>2 DEF FloodInv, WithinLimits
    <3> QED
      BY <3>1, <3>2
  <2> QED
    BY <1>1, <2>7, <2>9 DEF FloodInv, WithinLimits
<1>6. "InvalidDestination" \in CloseCode /\ "Policy" \in CloseCode
  BY DEF CloseCode
<1> QED
  BY <1>1, <1>4, <1>5, <1>6 DEF TrySendMessage

LEMMA FloodRoom ==
  ASSUME RoomInv, TypeOK', KnownInv, FloodInv, UniqueIds, RoomStep, ~Start, ~NewClient
  PROVE  FloodInv'
<1> USE DEF RoomInv
<1>1. /\ notes \in [PlayerId -> Seq(Note)] /\ players \subseteq PlayerId
      /\ msgSent \in [PlayerId -> [PlayerId -> Nat]]
  BY DEF TypeOK, RoomTypeOK, ChannelTypeOK, Note
<1>2. (\A q \in players : ppc[q] # "absent") /\ UNCHANGED ppc
  BY PlayersLeftAlone DEF LastRequestOK, playerVars
<1>3. CASE RecvSend
  BY <1>3, FloodSend
<1>4. CASE FinishDisconnect
  <2> DEFINE d == departing.id
  <2>1. /\ rpc \in Open /\ players' \subseteq players /\ d \in PlayerId /\ d \notin players
        /\ notes' = NotifyAll(players, PlayerLeft(d))
        /\ msgSent' = [p \in PlayerId |->
                         IF p \in players THEN [msgSent[p] EXCEPT ![d] = 0] ELSE msgSent[p]]
    BY <1>4 DEF FinishDisconnect, ClearCounts, At, Survivors, Open, KnownInv, GoneOK, TypeOK,
                RoomTypeOK
  <2>2. PlayerLeft(d) \in RoomNotification /\ PlayerLeft(d).kind = "left"
    BY <2>1, MessageTypes DEF PlayerLeft
  <2> HIDE DEF d
  <2>3. \A q, p \in PlayerId :
          msgSent'[q][p] = (IF q \in players /\ p = d THEN 0 ELSE msgSent[q][p])
    BY <1>1, <2>1
  <2>4. \A q, p \in players' : msgSent[q][p] <= msgSent'[q][p]
    BY <1>1, <2>1, <2>3
  <2>5. \A p \in PlayerId :
          notes'[p] = notes[p] \/ notes'[p] = Push(notes[p], PlayerLeft(d))
    BY <2>1 DEF NotifyAll
  <2>6. Counted' /\ NothingFromAbsent'
    BY <1>2, <2>1, <2>2, <2>4, <2>5, FloodTalk DEF FloodInv
  <2>7. WithinLimits'
    <3>1. limits' = limits /\ limits.messages \in Nat
      BY <1>4, LimitAssumption DEF LimitAssumption, FinishDisconnect, TypeOK, RoomTypeOK
    <3> QED
      BY <2>3, <3>1 DEF FloodInv, WithinLimits
  <2> QED
    BY <2>6, <2>7 DEF FloodInv
<1>5. CASE ~RecvSend /\ ~FinishDisconnect
  <2>1. msgSent' = msgSent
    BY <1>5 DEF RoomStep, RoomCloses, RoomWindsDown, TurnClientAway, Reconfigure,
       RecvSeal, RecvDrop, RecvClose, BeginClose, BeginDisconnect, ReconfigureExpired,
       TimeLimit, roomVars, RoomHearsShutdown, TakeRequest, AwaitHandle,
       NotifyClosing, NotifyClosingDone, CollectRequest, CollectClose,
       CollectDone, SendSeal, DrainCloses, DrainRequests, JoinPlayers, DrainClients,
       AwaitCloses, SignalClosed, SendCloseDone
  <2>2. players' \subseteq players
    BY <1>5 DEF RoomStep, RoomCloses, RoomWindsDown, TurnClientAway, Reconfigure,
       RecvSeal, RecvDrop, RecvClose, BeginClose, BeginDisconnect, ReconfigureExpired,
       TimeLimit, roomVars, RoomHearsShutdown, TakeRequest, AwaitHandle,
       NotifyClosing, NotifyClosingDone, CollectRequest, CollectClose,
       CollectDone, SendSeal, DrainCloses, DrainRequests, JoinPlayers, DrainClients,
       AwaitCloses, SignalClosed, SendCloseDone
  <2>3. ASSUME NEW p \in PlayerId
        PROVE  \/ notes'[p] = notes[p]
               \/ \E note \in RoomNotification :
                    notes'[p] = Push(notes[p], note) /\ note.kind = "end"
    <3>1. CASE rpc' \notin Open
      BY <3>1, CloseStep
    <3>2. CASE Reconfigure
      <4>1. /\ EndOfStay("TooManyPlayers") \in RoomNotification
            /\ EndOfStay("TooManyPlayers").kind = "end"
        BY MessageTypes, IdAssumption DEF IdAssumption, EndOfStay, CloseCode
      <4>2. notes'[p] = notes[p] \/ notes'[p] = Push(notes[p], EndOfStay("TooManyPlayers"))
        BY <3>2 DEF Reconfigure
      <4> QED
        BY <4>1, <4>2
    <3>3. CASE RecvSeal
      <4>1. /\ EndOfStay("OnlyHostCanSeal") \in RoomNotification
            /\ EndOfStay("OnlyHostCanSeal").kind = "end"
        BY MessageTypes, IdAssumption DEF IdAssumption, EndOfStay, CloseCode
      <4>2. notes'[p] = notes[p] \/ notes'[p] = Push(notes[p], EndOfStay("OnlyHostCanSeal"))
        BY <1>1, <3>3 DEF RecvSeal, RefuseSeal, Notify, BeginClose
      <4> QED
        BY <4>1, <4>2
    <3>4. CASE rpc' \in Open /\ ~Reconfigure /\ ~RecvSeal
      BY <1>5, <3>4 DEF RoomStep, RoomCloses, RoomWindsDown, TurnClientAway,
         RecvDrop, RecvClose, BeginClose, BeginDisconnect, ReconfigureExpired, TimeLimit,
         RoomHearsShutdown, AwaitHandle, NotifyClosing, NotifyClosingDone, CollectRequest,
         CollectClose, CollectDone, SendSeal, DrainCloses, DrainRequests, JoinPlayers,
         DrainClients, AwaitCloses, SignalClosed, SendCloseDone, At, RoomGoto, Open, channelVars
    <3> QED
      BY <3>1, <3>2, <3>3, <3>4
  <2>4. rpc' \in Open => rpc \in Open
    BY OpenStep
  <2>5. \A q, p \in players' : msgSent[q][p] <= msgSent'[q][p]
    BY <1>1, <2>1, <2>2
  <2>6. Counted' /\ NothingFromAbsent'
    BY <1>2, <2>2, <2>3, <2>4, <2>5, FloodTalk DEF FloodInv
  <2>7. limits' = limits \/ limits'.counted = msgSent
    BY <1>5 DEF RoomStep, RoomCloses, RoomWindsDown, TurnClientAway, Reconfigure,
       RecvSeal, RecvDrop, RecvClose, BeginClose, BeginDisconnect, ReconfigureExpired,
       TimeLimit, roomVars, RoomHearsShutdown, TakeRequest, AwaitHandle,
       NotifyClosing, NotifyClosingDone, CollectRequest, CollectClose,
       CollectDone, SendSeal, DrainCloses, DrainRequests, JoinPlayers, DrainClients,
       AwaitCloses, SignalClosed, SendCloseDone
  <2> QED
    BY <2>1, <2>6, <2>7 DEF FloodInv, WithinLimits
<1> QED
  BY <1>3, <1>4, <1>5

\* A player's task reads its own channel, and drops it when it returns.
LEMMA PlayerStepKeeps ==
  ASSUME TypeOK, NEW i \in PlayerId, PlayerStep(i)
  PROVE  /\ UNCHANGED roomVars
         /\ \A p \in PlayerId :
              /\ ppc'[p] = "absent" => ppc[p] = "absent"
              /\ \/ notes'[p] = notes[p] \/ notes'[p] = <<>>
                 \/ notes[p] # <<>> /\ notes'[p] = Tail(notes[p])
<1>1. notes \in [PlayerId -> Seq(Note)] /\ ppc \in [PlayerId -> PlayerPlace]
  BY NotesTyped DEF TypeOK, PlayerTypeOK
<1>2. \A p \in PlayerId : ppc'[p] = "absent" => ppc[p] = "absent"
  BY <1>1, PlayerStepMoves
<1>3. CASE ClientAsks(i) \/ ClientFaults(i) \/ ClientGone(i)
  BY <1>3, PlayerStepMoves, <1>2 DEF ClientAsks, ClientFaults, ClientGone
<1>4. CASE ReadNews(i) \/ ReadEnd(i) \/ Return(i)
  BY <1>1, <1>2, <1>4, PlayerStepMoves DEF ReadNews, ReadEnd, Return
<1>5. CASE ReadClosed(i) \/ HearShutdown(i) \/ ResumeAsking(i) \/ ResumeLeaving(i)
  BY <1>2, <1>5, PlayerStepMoves DEF ReadClosed, HearShutdown, ResumeAsking, ResumeLeaving,
     Unblock, channelVars
<1> QED
  BY <1>3, <1>4, <1>5 DEF PlayerStep

LEMMA FloodNext ==
  ASSUME RoomInv, TypeOK', KnownInv, FloodInv, UniqueIds, [Next]_vars
  PROVE  FloodInv'
<1> USE DEF RoomInv
<1>1. CASE RoomStep
  BY <1>1, FloodJoin, FloodRoom
<1>2. ASSUME NEW i \in PlayerId, PlayerStep(i) PROVE FloodInv'
  <2>1. /\ UNCHANGED <<rpc, players, msgSent, limits>> /\ players \subseteq PlayerId
        /\ notes \in [PlayerId -> Seq(Note)] /\ msgSent \in [PlayerId -> [PlayerId -> Nat]]
    BY <1>2, PlayerStepKeeps, NotesTyped DEF roomVars, TypeOK, RoomTypeOK
  <2>2. ASSUME NEW q \in PlayerId, NEW p \in PlayerId
        PROVE  /\ CountOf(q, notes'[p]) <= CountOf(q, notes[p])
               /\ From(q, notes[p]) = {} => From(q, notes'[p]) = {}
               /\ CountOf(q, notes'[p]) \in Nat /\ CountOf(q, notes[p]) \in Nat
    <3>1. CountOf(q, notes[p]) \in Nat /\ notes[p] \in Seq(Note)
      BY <2>1, CountType
    <3>2. CASE notes'[p] = notes[p]
      BY <3>1, <3>2
    <3>3. CASE notes'[p] = <<>>
      BY <3>1, <3>3, CountEmpty
    <3>4. CASE notes[p] # <<>> /\ notes'[p] = Tail(notes[p])
      <4>1. Tail(notes[p]) \in Seq(Note)
        BY <3>1, <3>4, TailIs
      <4>2. CountOf(q, Tail(notes[p])) \in Nat
        BY <4>1, CountType
      <4>3. /\ CountOf(q, Tail(notes[p])) <= CountOf(q, notes[p])
            /\ From(q, notes[p]) = {} => From(q, Tail(notes[p])) = {}
        BY <3>1, <3>4, CountRead
      <4> QED
        BY <3>1, <3>4, <4>2, <4>3
    <3> QED
      BY <1>2, <3>2, <3>3, <3>4, PlayerStepKeeps
  <2>3. Counted'
    <3> SUFFICES ASSUME rpc \in Open, NEW q \in players, NEW p \in players
                 PROVE  CountOf(q, notes'[p]) <= msgSent[q][p]
      BY <2>1 DEF Counted
    <3>1. CountOf(q, notes[p]) <= msgSent[q][p]
      BY DEF FloodInv, Counted
    <3>2. q \in PlayerId /\ p \in PlayerId /\ msgSent[q][p] \in Nat
      BY <2>1
    <3>3. /\ CountOf(q, notes'[p]) <= CountOf(q, notes[p])
          /\ CountOf(q, notes'[p]) \in Nat /\ CountOf(q, notes[p]) \in Nat
      BY <2>2, <3>2
    <3> QED
      BY <3>1, <3>2, <3>3
  <2>4. NothingFromAbsent'
    BY <1>2, <2>2, PlayerStepKeeps DEF FloodInv, NothingFromAbsent
  <2> QED
    BY <2>1, <2>3, <2>4 DEF FloodInv, WithinLimits
<1>3. CASE Arrive \/ LobbyReads \/ LobbyHearsShutdown \/ LobbyAborts
           \/ Shutdown \/ Finished \/ UNCHANGED vars
  <2>1. UNCHANGED <<rpc, players, msgSent, limits, notes, ppc>>
    BY <1>3 DEF Arrive, LobbyReads, LobbyHearsShutdown, LobbyAborts, Shutdown,
                Finished, vars, roomVars,
                playerVars, channelVars
  <2> QED
    BY <2>1 DEF FloodInv, Counted, WithinLimits, NothingFromAbsent
<1>4. CASE Aborted
  BY <1>4 DEF Aborted, RoomGoto, playerVars, FloodInv, Counted, WithinLimits, NothingFromAbsent,
              Open
<1> QED
  BY <1>1, <1>2, <1>3, <1>4 DEF Next, Environment

\* While no id is drawn twice, no player has more messages queued for another than
\* the room has counted, and a count over max_message_count has not grown since the
\* room took that limit.
THEOREM FloodsAreStopped ==
  ASSUME UniqueIds
  PROVE  Spec => []FloodsAreCounted
<1>1. Init => KnownInv /\ FloodInv
  <2> SUFFICES ASSUME Init PROVE KnownInv /\ FloodInv
    OBVIOUS
  <2>1. KnownInv
    BY DEF Init, KnownInv, StartOK, GoneOK, KnowsAll, AllInOrder, Talking, NoSenders, Open
  <2>2. Counted /\ NothingFromAbsent
    BY CountEmpty DEF Init, Counted, NothingFromAbsent, Open
  <2>3. WithinLimits
    <3>1. limits.messages \in Nat
      BY LimitAssumption DEF LimitAssumption, Init
    <3>2. \A q, p \in PlayerId : msgSent[q][p] = 0
      BY DEF Init, NoMessages, NoCounts
    <3> QED
      BY <3>1, <3>2 DEF WithinLimits
  <2> QED
    BY <2>1, <2>2, <2>3 DEF FloodInv
<1>2. RoomInv /\ RoomInv' /\ KnownInv /\ FloodInv /\ [Next]_vars => KnownInv' /\ FloodInv'
  BY KnownNext, FloodNext DEF RoomInv
<1>3. RoomInv /\ FloodInv => FloodsAreCounted
  BY DEF RoomInv, TypeOK, RoomTypeOK, FloodInv, Counted, WithinLimits, FloodsAreCounted,
         QueuedFrom, CountOf, From, Open
<1> QED
  BY <1>1, <1>2, <1>3, RoomInvariant, PTL DEF Spec
-----------------------------------------------------------------------------
(* The counts of messages to those that left.                              *)

\* A count goes up only for a player that is in the room.
LEMMA CountGrows ==
  ASSUME TypeOK, RoomStep, ~Start, ~NewClient, ~FinishDisconnect, NEW q \in PlayerId,
         NEW p \in PlayerId
  PROVE  msgSent'[q][p] = msgSent[q][p] \/ (p \in players /\ RecvSend)
<1>1. msgSent \in [PlayerId -> [PlayerId -> Nat]]
  BY DEF TypeOK, RoomTypeOK
<1>2. CASE RecvSend
  <2> DEFINE i == Head(requests).from
             j == Head(requests).to
  <2>1. \/ UNCHANGED msgSent
        \/ j \in players /\ msgSent' = [msgSent EXCEPT ![i][j] = @ + 1]
    BY <1>2 DEF RecvSend, TrySendMessage, CanReceiveFrom
  <2> HIDE DEF i, j
  <2>2. j \in players /\ msgSent' = [msgSent EXCEPT ![i][j] = @ + 1] /\ p # j =>
          msgSent'[q][p] = msgSent[q][p]
    BY <1>1
  <2> QED
    BY <1>2, <2>1, <2>2
<1>3. CASE ~RecvSend
  BY <1>3 DEF RoomStep, RoomCloses, RoomWindsDown, TurnClientAway, Reconfigure,
     RecvSeal, RecvDrop, RecvClose, BeginClose, BeginDisconnect, ReconfigureExpired,
     TimeLimit, roomVars, RoomHearsShutdown, TakeRequest, AwaitHandle,
     NotifyClosing, NotifyClosingDone, CollectRequest, CollectClose,
     CollectDone, SendSeal, DrainCloses, DrainRequests, JoinPlayers, DrainClients,
     AwaitCloses, SignalClosed, SendCloseDone
<1> QED
  BY <1>2, <1>3

LEMMA ForgottenRoom ==
  ASSUME RoomInv, TypeOK', PostedInv, KnownInv, ViewInv, LeaversAreForgotten, UniqueIds,
         RoomStep
  PROVE  LeaversAreForgotten'
<1> USE DEF RoomInv
<1> SUFFICES ASSUME rpc' \in Open, ~shutdown', NEW q \in players', NEW p \in PlayerId,
                    msgSent'[q][p] > 0
             PROVE  p \in players' \cup Posted' \cup {departing'.id}
  BY DEF LeaversAreForgotten, Open
<1>1. /\ players \subseteq PlayerId /\ players' \subseteq PlayerId
      /\ msgSent \in [PlayerId -> [PlayerId -> Nat]]
  BY DEF TypeOK, RoomTypeOK
\* Who is found gone by notify_all has posted its last request.
<1>2. rpc \in Open /\ ~shutdown => players \subseteq Survivors(players) \cup Posted
  BY DEF PostedInv, EndedPosted, Survivors, Alive, Over, Open
<1>3. CASE Start \/ NewClient
  <2>1. PICK i \in PlayerId :
          /\ OnConnect(i) /\ shutdown' = shutdown /\ Posted' = Posted
          /\ rpc = "start" \/ rpc = "select"
    BY <1>3, JoinIs
  <2>2. /\ players' = Survivors(players) \cup {i} /\ departing' = departing
        /\ msgSent'[i] = NoMessages
        /\ q # i => msgSent'[q] = msgSent[q] /\ q \in players
    BY <1>1, <2>1 DEF OnConnect, Survivors
  <2>3. q # i
    BY <2>2 DEF NoMessages
  <2>4. rpc = "select"
    BY <2>1, <2>2, <2>3 DEF KnownInv, StartOK
  <2>5. p \in players \cup Posted \cup {departing.id}
    BY <2>1, <2>2, <2>3, <2>4 DEF LeaversAreForgotten
  <2> QED
    BY <1>2, <2>1, <2>2, <2>4, <2>5 DEF Open
<1>4. CASE FinishDisconnect
  <2>1. /\ rpc = "leave" /\ players' = Survivors(players) /\ UNCHANGED <<requests, closes, shutdown>>
        /\ msgSent' = ClearCounts(departing.id) /\ q \in players
    BY <1>4 DEF FinishDisconnect, At, envVars, Survivors
  <2>2. p # departing.id /\ msgSent'[q][p] = msgSent[q][p]
    BY <1>1, <2>1 DEF ClearCounts
  <2>3. p \in players \cup Posted
    BY <2>1, <2>2 DEF LeaversAreForgotten
  <2> QED
    BY <1>2, <2>1, <2>3 DEF Posted, Open
<1>5. CASE ~Start /\ ~NewClient /\ ~FinishDisconnect
  <2>1. /\ rpc \in Open /\ shutdown' = shutdown
        /\ \/ Rests \/ Talks
           \/ \E i \in PlayerId : Departs(i)
    BY <1>5, OpenStep
  <2>2. /\ q \in players
        /\ msgSent'[q][p] = msgSent[q][p] \/ p \in players
    BY <1>1, <1>5, <2>1, CountGrows DEF Rests, Talks, Departs
  <2>3. p \in players \cup Posted \cup {departing.id}
    BY <2>1, <2>2 DEF LeaversAreForgotten, Open
  <2>4. CASE Rests \/ Talks
    <3>1. Posted' = Posted /\ UNCHANGED <<players, departing>>
      BY <2>4 DEF Rests, Talks, Posted
    <3> QED
      BY <2>3, <3>1
  <2>5. ASSUME NEW i \in PlayerId, Departs(i)
        PROVE  p \in players' \cup Posted' \cup {departing'.id}
    <3>1. p \in players \cup Posted
      BY <2>3, <2>5, IdAssumption DEF Departs, ViewInv, DepartingOK, IdAssumption
    <3> QED
      BY <2>5, <3>1 DEF Departs
  <2> QED
    BY <2>1, <2>4, <2>5
<1> QED
  BY <1>3, <1>4, <1>5

LEMMA ForgottenNext ==
  ASSUME RoomInv, RoomInv', PostedInv, KnownInv, ViewInv, LeaversAreForgotten, UniqueIds,
         [Next]_vars
  PROVE  LeaversAreForgotten'
<1> USE DEF RoomInv
<1>1. CASE RoomStep
  BY <1>1, ForgottenRoom
<1>2. ASSUME NEW i \in PlayerId, PlayerStep(i) PROVE LeaversAreForgotten'
  <2>1. UNCHANGED roomVars /\ shutdown' = shutdown
    BY <1>2, PlayerStepReads
  <2>2. ~RoomGone /\ ~shutdown => Posted \subseteq Posted'
    BY <1>2, PlayerPosts DEF PostedInv
  <2> QED
    BY <2>1, <2>2 DEF LeaversAreForgotten, RoomGone, roomVars
<1>3. CASE Arrive \/ LobbyReads \/ LobbyHearsShutdown \/ LobbyAborts
           \/ Shutdown \/ Finished \/ UNCHANGED vars
  <2>1. /\ UNCHANGED <<rpc, players, msgSent, departing, requests, closes>>
        /\ shutdown => shutdown'
    BY <1>3 DEF Arrive, LobbyReads, LobbyHearsShutdown, LobbyAborts, Shutdown,
                Finished, vars, roomVars,
                playerVars, channelVars, envVars
  <2> QED
    BY <2>1 DEF LeaversAreForgotten, Posted
<1>4. CASE Aborted
  BY <1>4 DEF Aborted, RoomGoto, LeaversAreForgotten
<1> QED
  BY <1>1, <1>2, <1>3, <1>4 DEF Next, Environment

\* While no id is drawn twice, and until the shutdown signal: once the last request
\* of a player that left has been handled, nobody's count of messages to it is left.
THEOREM LeaversAreClearedAway ==
  ASSUME UniqueIds
  PROVE  Spec => []LeaversAreForgotten
<1>1. Init => KnownInv /\ ViewInv /\ LeaversAreForgotten
  <2> SUFFICES ASSUME Init PROVE KnownInv /\ ViewInv /\ LeaversAreForgotten
    OBVIOUS
  <2>1. KnownInv
    BY DEF Init, KnownInv, StartOK, GoneOK, KnowsAll, AllInOrder, Talking, NoSenders, Open
  <2>2. ViewInv
    BY DEF Init, ViewInv, DepartingOK, KnownAreHere, NotDeparting, Open
  <2> QED
    BY <2>1, <2>2 DEF Init, LeaversAreForgotten
<1>2. RoomInv /\ RoomInv' /\ PostedInv /\ [Next]_vars => PostedInv'
  BY PostedNext
<1>3. RoomInv /\ RoomInv' /\ PostedInv /\ KnownInv /\ ViewInv /\ [Next]_vars
        => KnownInv' /\ ViewInv'
  BY KnownNext, ViewNext DEF RoomInv
<1>4. RoomInv /\ RoomInv' /\ PostedInv /\ KnownInv /\ ViewInv /\ LeaversAreForgotten
        /\ [Next]_vars => LeaversAreForgotten'
  BY ForgottenNext
<1> QED
  BY <1>1, <1>2, <1>3, <1>4, PostedInitially, RoomInvariant, PTL DEF Spec
=============================================================================
