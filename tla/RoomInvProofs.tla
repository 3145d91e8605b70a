---------------------------- MODULE RoomInvProofs ----------------------------
(***************************************************************************)
(* RoomInv, the inductive invariant of RoomSystem, and what follows from   *)
(* it: a room that has returned leaves nothing behind (ClosedMeansQuiet),  *)
(* the room only ever awaits tasks that are over (AwaitedTaskIsOver), and  *)
(* it keeps the promises of RoomLifecycle (KeepsLifecycle).                *)
(***************************************************************************)
EXTENDS RoomSystemProofs, SequenceTheorems

\* The steps of the room that leave its tasks alone.
LEMMA PlayersLeftAlone ==
  ASSUME RoomStep, ~Start, ~NewClient
  PROVE  UNCHANGED playerVars
BY DEF RoomStep, RoomCloses, RoomWindsDown, TurnClientAway, RecvSend, Reconfigure,
       RecvSeal, RecvDrop, RecvClose, ReconfigureExpired, TimeLimit,
       RoomHearsShutdown, TakeRequest, AwaitHandle, FinishDisconnect,
       NotifyClosing, NotifyClosingDone, CollectRequest, CollectClose,
       CollectDone, SendSeal, DrainCloses, DrainRequests, JoinPlayers,
       DrainClients, AwaitCloses, SignalClosed, SendCloseDone

\* A task that is over, or not yet there, stays so while the tasks move.
LEMMA PlayerStepMoves ==
  ASSUME TypeOK, NEW i \in PlayerId, PlayerStep(i)
  PROVE  /\ UNCHANGED roomVars
         /\ ppc[i] \in {"run", "asking", "leaving", "ending"}
         /\ \E place \in {"run", "asking", "leaving", "ending", "done"} :
              /\ ppc' = [ppc EXCEPT ![i] = place]
              /\ ppc[i] = "ending" => place = "done"
<1> USE DEF PlayerGoto
<1>1. CASE ClientAsks(i)
  BY <1>1 DEF ClientAsks, SendReq, PostRequest, TypeOK, PlayerTypeOK
<1>2. CASE ClientFaults(i)
  BY <1>2 DEF ClientFaults, CloseConnection
<1>3. CASE ClientGone(i)
  BY <1>3 DEF ClientGone, DropConnection, PostRequest
<1>4. CASE ReadNews(i)
  <2>1. ppc' = [ppc EXCEPT ![i] = "run"]
    BY <1>4 DEF ReadNews, TypeOK, PlayerTypeOK
  <2> QED
    BY <1>4, <2>1 DEF ReadNews
<1>5. CASE ReadEnd(i)
  BY <1>5 DEF ReadEnd, CloseConnection
<1>6. CASE ReadClosed(i) \/ HearShutdown(i) \/ Return(i)
  BY <1>6 DEF ReadClosed, HearShutdown, Return
<1>7. CASE ResumeAsking(i) \/ ResumeLeaving(i)
  BY <1>7 DEF ResumeAsking, ResumeLeaving, Unblock
<1> QED
  BY <1>1, <1>2, <1>3, <1>4, <1>5, <1>6, <1>7 DEF PlayerStep
-----------------------------------------------------------------------------
\* The drains at the end of Room::task.
LEMMA DrainInit == Init => DrainOK
BY DEF Init, DrainOK, AfterDrain, NotClosing

\* A step that takes the room somewhere before the drains, or leaves it there.
LEMMA DrainOutside ==
  ASSUME rpc' \notin AfterDrain,
         closing'.awaiting # {} => rpc' \in {"notify", "collect"}
  PROVE  DrainOK'
BY DEF DrainOK, AfterDrain

LEMMA DrainSelect ==
  ASSUME TypeOK, DrainOK, rpc = "select", RoomStep, ~SendCloseDone
  PROVE  DrainOK'
<1>1. closing.awaiting = {}
  BY DEF DrainOK
<1> USE DrainOutside DEF RoomGoto, AfterDrain
<1>2. CASE NewClient \/ TurnClientAway \/ RecvSend \/ Reconfigure
  BY <1>1, <1>2 DEF NewClient, OnConnect, TurnClientAway, RecvSend, Reconfigure
<1>3. CASE RecvSeal \/ ReconfigureExpired \/ TimeLimit
  BY <1>1, <1>3 DEF RecvSeal, ReconfigureExpired, TimeLimit, BeginClose, roomVars
<1>4. CASE RecvDrop \/ RecvClose
  BY <1>1, <1>4 DEF RecvDrop, RecvClose, BeginClose, BeginDisconnect
<1>5. CASE RoomHearsShutdown \/ AwaitHandle
  BY <1>1, <1>5 DEF RoomHearsShutdown, AwaitHandle
<1> QED
  BY <1>2, <1>3, <1>4, <1>5 DEF RoomStep, RoomCloses, RoomWindsDown, Start, At,
     FinishDisconnect, NotifyClosing, NotifyClosingDone, CollectRequest,
     CollectClose, CollectDone, SendSeal, DrainCloses, DrainRequests,
     JoinPlayers, DrainClients, AwaitCloses, SignalClosed

\* The rest of the task, place by place.
LEMMA DrainLater ==
  ASSUME TypeOK, DrainOK, rpc # "select", RoomStep
  PROVE  DrainOK'
<1> USE DEF At, RoomGoto
<1>1. CASE Start
  BY <1>1, DrainOutside DEF Start, OnConnect, DrainOK, AfterDrain
<1>2. CASE AwaitHandle \/ SendCloseDone
  <2>1. tracker' = 0 \/ rpc \notin {"signal", "done"}
    BY <1>2 DEF AwaitHandle, SendCloseDone, DrainOK
  <2> QED
    BY <1>2, <2>1 DEF AwaitHandle, SendCloseDone, DrainOK, AfterDrain, NoSenders,
                      channelVars, playerVars
<1>3. CASE FinishDisconnect
  BY <1>3, DrainOutside DEF FinishDisconnect, DrainOK, AfterDrain
<1>4. CASE NotifyClosing \/ NotifyClosingDone \/ CollectRequest \/ CollectClose
  BY <1>4, DrainOutside DEF NotifyClosing, NotifyClosingDone, CollectRequest,
     CollectClose, AfterDrain
<1>5. CASE CollectDone \/ SendSeal
  BY <1>5, DrainOutside DEF CollectDone, SendSeal, NotClosing, DrainOK, AfterDrain
<1>6. CASE DrainCloses
  BY <1>6 DEF DrainCloses, Drained, NoSenders, playerVars, DrainOK, AfterDrain
<1>7. CASE DrainRequests
  BY <1>7 DEF DrainRequests, Drained, NoSenders, playerVars, DrainOK, AfterDrain
<1>8. CASE JoinPlayers \/ DrainClients
  BY <1>8 DEF JoinPlayers, DrainClients, NoSenders, channelVars, playerVars,
              DrainOK, AfterDrain
<1>9. CASE AwaitCloses \/ SignalClosed
  BY <1>9 DEF AwaitCloses, SignalClosed, NoSenders, channelVars, playerVars,
              DrainOK, AfterDrain
<1> QED
  BY <1>1, <1>2, <1>3, <1>4, <1>5, <1>6, <1>7, <1>8, <1>9 DEF RoomStep,
     RoomCloses, RoomWindsDown, NewClient, TurnClientAway, RecvSend, Reconfigure,
     RecvSeal, RecvDrop, RecvClose, TakeRequest, ReconfigureExpired, TimeLimit,
     RoomHearsShutdown

LEMMA DrainNext == TypeOK /\ DrainOK /\ [Next]_vars => DrainOK'
<1> SUFFICES ASSUME TypeOK, DrainOK, [Next]_vars PROVE DrainOK'
  OBVIOUS
<1>1. CASE RoomStep
  <2>1. CASE SendCloseDone /\ rpc = "select"
    BY <2>1, DrainOutside DEF SendCloseDone, DrainOK, AfterDrain
  <2> QED
    BY <1>1, <2>1, DrainSelect, DrainLater
<1>2. ASSUME NEW i \in PlayerId, PlayerStep(i) PROVE DrainOK'
  <2>1. UNCHANGED roomVars /\ ~NoSenders
    BY <1>2, PlayerStepMoves DEF NoSenders
  <2> QED
    BY <2>1, DrainOutside DEF roomVars, DrainOK
<1>3. CASE Arrive \/ LobbyReads \/ LobbyHearsShutdown \/ LobbyAborts
           \/ Shutdown \/ Finished
             \/ UNCHANGED vars
  BY <1>3 DEF Arrive, LobbyReads, LobbyHearsShutdown, LobbyAborts, Shutdown,
              Finished, vars, roomVars,
              channelVars, playerVars, NoSenders, DrainOK
<1>4. CASE Aborted
  BY <1>4 DEF Aborted, RoomGoto, NotClosing, playerVars, NoSenders, DrainOK,
              AfterDrain
<1> QED
  BY <1>1, <1>2, <1>3, <1>4 DEF Next, Environment
-----------------------------------------------------------------------------
\* What the room awaits: LastRequestOK and AwaitedTaskIsOver, while no id is
\* drawn twice.

\* Receiving takes nothing but the head of a channel.
LEMMA TailOfQueue ==
  ASSUME NEW S, NEW s \in Seq(S), s # <<>>
  PROVE  /\ 1 \in DOMAIN s /\ Head(s) = s[1]
         /\ \A k \in DOMAIN Tail(s) : k + 1 \in DOMAIN s /\ Tail(s)[k] = s[k + 1]
OBVIOUS

LEMMA AppendToQueue ==
  ASSUME NEW S, NEW s \in Seq(S), NEW e \in S
  PROVE  \A k \in DOMAIN Append(s, e) :
            \/ k \in DOMAIN s /\ Append(s, e)[k] = s[k]
            \/ Append(s, e)[k] = e
OBVIOUS

LEMMA PostedByTake ==
  ASSUME TypeOK,
         \/ requests' = requests
         \/ requests' = <<>>
         \/ requests # <<>> /\ requests' = Tail(requests),
         \/ closes' = closes
         \/ closes' = <<>>
         \/ closes # <<>> /\ closes' = Tail(closes)
  PROVE  Posted' \subseteq Posted
<1>1. \A k \in DOMAIN requests' : \E j \in DOMAIN requests : requests'[k] = requests[j]
  <2>1. CASE requests # <<>> /\ requests' = Tail(requests)
    BY <2>1, TailOfQueue DEF TypeOK, ChannelTypeOK
  <2> QED
    BY <2>1
<1>2. \A k \in DOMAIN closes' : \E j \in DOMAIN closes : closes'[k] = closes[j]
  <2>1. CASE closes # <<>> /\ closes' = Tail(closes)
    BY <2>1, TailOfQueue DEF TypeOK, ChannelTypeOK
  <2> QED
    BY <2>1
<1> QED
  BY <1>1, <1>2 DEF Posted, LastRequestsIn

\* The sender of the request, or of the stream, that is received next.
LEMMA HeadIsPosted ==
  ASSUME TypeOK
  PROVE  /\ requests # <<>> /\ Head(requests).command = "drop"
              => Head(requests).from \in Posted
         /\ closes # <<>> => Head(closes).from \in Posted
<1>1. ASSUME requests # <<>>, Head(requests).command = "drop"
      PROVE  Head(requests).from \in Posted
  <2>1. /\ 1 \in DOMAIN requests /\ Head(requests) = requests[1]
        /\ Head(requests) \in RoomRequest
    BY <1>1, TailOfQueue, TakeType DEF TypeOK, ChannelTypeOK
  <2> QED
    BY <1>1, <2>1 DEF Posted, LastRequestsIn, RoomRequest
<1>2. ASSUME closes # <<>> PROVE Head(closes).from \in Posted
  <2>1. /\ 1 \in DOMAIN closes /\ Head(closes) = closes[1]
        /\ Head(closes) \in CloseRequest
    BY <1>2, TailOfQueue, TakeType DEF TypeOK, ChannelTypeOK
  <2> QED
    BY <2>1 DEF Posted, LastRequestsIn, CloseRequest
<1> QED
  BY <1>1, <1>2

LEMMA PostedByRequest ==
  ASSUME TypeOK, NEW r \in RoomRequest,
         requests' = Append(requests, r), closes' = closes
  PROVE  Posted' \subseteq Posted \cup (IF r.command = "drop" THEN {r.from} ELSE {})
BY AppendToQueue DEF Posted, LastRequestsIn, TypeOK, ChannelTypeOK

LEMMA PostedByClose ==
  ASSUME TypeOK, NEW r \in CloseRequest,
         closes' = Append(closes, r), requests' = requests
  PROVE  Posted' \subseteq Posted \cup {r.from}
BY AppendToQueue DEF Posted, LastRequestsIn, TypeOK, ChannelTypeOK

\* A step that starts no task, while the requests in the channels do not grow.
LEMMA LastRequestKept ==
  ASSUME TypeOK, LastRequestOK, UNCHANGED playerVars, Posted' \subseteq Posted,
         rpc' = "start" => rpc = "start", players' \subseteq players,
         rpc' = "notify" /\ ~closing'.toHost => Over(HOST_ID),
         handle' # NoId => (handle' = handle /\ AwaitedTaskIsOver) \/ Over(handle')
  PROVE  LastRequestOK' /\ AwaitedTaskIsOver'
BY DEF LastRequestOK, AwaitedTaskIsOver, Over, playerVars

\* on_connect of a player that no task had before.
LEMMA LastRequestOnConnect ==
  ASSUME TypeOK, LastRequestOK, handle = NoId,
         NEW i \in PlayerId, ppc[i] = "absent", OnConnect(i), rpc' = "select"
  PROVE  LastRequestOK' /\ AwaitedTaskIsOver'
<1>1. /\ handle' = NoId /\ Posted' = Posted /\ pend' = pend
      /\ ppc' = [ppc EXCEPT ![i] = "run"]
      /\ players' \subseteq players \cup {i}
  BY DEF OnConnect, Survivors, Posted, TypeOK, RoomTypeOK
<1>2. i \notin Posted
  BY DEF LastRequestOK, Over
<1>3. /\ ppc'[i] = "run"
      /\ \A j \in PlayerId \ {i} : ppc'[j] = ppc[j]
  BY <1>1 DEF TypeOK, PlayerTypeOK
<1>4. Posted \subseteq PlayerId /\ players \subseteq PlayerId
  BY DEF Posted, LastRequestsIn, TypeOK, RoomTypeOK
<1> QED
  BY <1>1, <1>2, <1>3, <1>4 DEF LastRequestOK, AwaitedTaskIsOver, Over

LEMMA LastRequestRoom ==
  ASSUME UniqueIds, TypeOK, PendOK, DrainOK, LastRequestOK, AwaitedTaskIsOver,
         RoomStep
  PROVE  LastRequestOK' /\ AwaitedTaskIsOver'
<1> USE IdAssumption DEF IdAssumption
<1>1. CASE Start
  BY <1>1, LastRequestOnConnect DEF Start, At, RoomGoto, LastRequestOK
<1>2. CASE NewClient
  BY <1>2, LastRequestOnConnect DEF NewClient, At, FreshId
<1> SUFFICES ASSUME ~Start, ~NewClient
             PROVE  LastRequestOK' /\ AwaitedTaskIsOver'
  BY <1>1, <1>2
<1>3. UNCHANGED playerVars
  BY PlayersLeftAlone
<1>4. Posted' \subseteq Posted
  <2>1. \/ requests' = requests
        \/ requests # <<>> /\ requests' = Tail(requests)
    BY DEF RoomStep, RoomCloses, RoomWindsDown, TurnClientAway, RecvSend,
       Reconfigure, RecvSeal, RecvDrop, RecvClose, ReconfigureExpired, TimeLimit,
       RoomHearsShutdown, TakeRequest, AwaitHandle, FinishDisconnect,
       NotifyClosing, NotifyClosingDone, CollectRequest, CollectClose,
       CollectDone, SendSeal, DrainCloses, DrainRequests, JoinPlayers,
       DrainClients, AwaitCloses, SignalClosed, SendCloseDone, channelVars
  <2>2. \/ closes' = closes
        \/ closes # <<>> /\ closes' = Tail(closes)
    BY DEF RoomStep, RoomCloses, RoomWindsDown, TurnClientAway, RecvSend,
       Reconfigure, RecvSeal, RecvDrop, RecvClose, ReconfigureExpired, TimeLimit,
       RoomHearsShutdown, TakeRequest, AwaitHandle, FinishDisconnect,
       NotifyClosing, NotifyClosingDone, CollectRequest, CollectClose,
       CollectDone, SendSeal, DrainCloses, DrainRequests, JoinPlayers,
       DrainClients, AwaitCloses, SignalClosed, SendCloseDone, channelVars
  <2> QED
    BY <2>1, <2>2, PostedByTake
<1> USE <1>3, <1>4, LastRequestKept, HeadIsPosted DEF At, RoomGoto
<1>5. CASE TurnClientAway \/ RecvSend \/ Reconfigure \/ RoomHearsShutdown
  BY <1>5 DEF TurnClientAway, RecvSend, TakeRequest, Reconfigure, RoomHearsShutdown
<1>6. CASE RecvSeal
  BY <1>6 DEF RecvSeal, TakeRequest, BeginClose, roomVars
<1>7. CASE ReconfigureExpired \/ TimeLimit
  BY <1>7 DEF ReconfigureExpired, TimeLimit, BeginClose
<1>8. CASE RecvDrop
  <2>1. Over(Head(requests).from)
    BY <1>8 DEF RecvDrop, TakeRequest, LastRequestOK
  <2> QED
    BY <1>8, <2>1 DEF RecvDrop, TakeRequest, BeginClose, BeginDisconnect
<1>9. CASE RecvClose
  <2>1. Over(Head(closes).from)
    BY <1>9 DEF RecvClose, LastRequestOK
  <2> QED
    BY <1>9, <2>1 DEF RecvClose, BeginClose, BeginDisconnect
<1>10. CASE AwaitHandle \/ NotifyClosingDone \/ CollectDone \/ SendSeal
            \/ DrainCloses \/ DrainRequests \/ DrainClients \/ AwaitCloses
            \/ SignalClosed
  BY <1>10 DEF AwaitHandle, NotifyClosingDone, CollectDone, SendSeal, DrainCloses,
     DrainRequests, DrainClients, AwaitCloses, SignalClosed, LastRequestOK
<1>11. CASE FinishDisconnect
  BY <1>11 DEF FinishDisconnect, Survivors
<1>12. CASE NotifyClosing
  <2>1. PICK i \in players :
          /\ players' = players \ {i}
          /\ \/ EndedAnyway(i) /\ handle' = i /\ closing' = closing
             \/ handle' = handle /\ closing'.toHost = closing.toHost
    BY <1>12 DEF NotifyClosing, TypeOK, RoomTypeOK
  <2>2. EndedAnyway(i) => Over(i)
    BY <1>12 DEF NotifyClosing, EndedAnyway, Alive, Over, LastRequestOK
  <2> QED
    BY <1>12, <2>1, <2>2 DEF NotifyClosing, LastRequestOK
<1>13. CASE CollectRequest
  <2>1. IsLastRequest(Head(requests)) => Over(Head(requests).from)
    BY <1>13 DEF CollectRequest, IsLastRequest, LastRequestOK
  <2> QED
    BY <1>13, <2>1 DEF CollectRequest, StopAwaiting
<1>14. CASE CollectClose
  <2>1. Over(Head(closes).from)
    BY <1>14 DEF CollectClose, LastRequestOK
  <2> QED
    BY <1>14, <2>1 DEF CollectClose, StopAwaiting
<1>15. CASE JoinPlayers
  <2>1. \A i \in players : Over(i)
    BY <1>15 DEF JoinPlayers, DrainOK, AfterDrain, NoSenders, LastRequestOK, Over,
       TypeOK, RoomTypeOK
  <2> QED
    BY <1>15, <2>1 DEF JoinPlayers
<1>16. CASE SendCloseDone
  BY <1>16 DEF SendCloseDone, LastRequestOK
<1> QED
  BY <1>5, <1>6, <1>7, <1>8, <1>9, <1>10, <1>11, <1>12, <1>13, <1>14, <1>15, <1>16
     DEF RoomStep, RoomCloses, RoomWindsDown

\* A player task posts its last request as it leaves its loop.
LEMMA PostByPlayer ==
  ASSUME TypeOK, PendOK, LastRequestOK, NEW i \in PlayerId, ppc[i] = "run",
         NEW r \in RoomRequest, r.from = i,
         \/ r.command # "drop" /\ PostRequest(i, r, "run", "asking")
         \/ PostRequest(i, r, "ending", "leaving")
  PROVE  /\ Posted' \subseteq Posted \cup {j \in PlayerId : Over(j)'}
         /\ ppc'[i] = "asking" => pend'[i][1].command # "drop"
         /\ ppc'[i] = "leaving" => pend'[i][1].from = i
         /\ \A j \in PlayerId \ {i} : pend'[j] = pend[j]
<1> USE DEF PlayerGoto
<1>1. CASE requests' = requests
  BY <1>1 DEF PostRequest, Posted, TypeOK, PlayerTypeOK
<1>2. CASE requests' # requests
  <2>1. /\ requests' = Append(requests, r) /\ closes' = closes /\ pend' = pend
        /\ r.command = "drop" => ppc'[i] = "ending"
        /\ ppc'[i] \in {"run", "ending"}
    BY <1>2 DEF PostRequest, TypeOK, PlayerTypeOK
  <2> QED
    BY <2>1, PostedByRequest DEF Over
<1> QED
  BY <1>1, <1>2

LEMMA CloseByPlayer ==
  ASSUME TypeOK, PendOK, LastRequestOK, NEW i \in PlayerId, ppc[i] = "run",
         NEW code \in CloseCode, CloseConnection(i, code)
  PROVE  /\ Posted' \subseteq Posted \cup {j \in PlayerId : Over(j)'}
         /\ ppc'[i] \in {"ending", "leaving"}
         /\ ppc'[i] = "leaving" => pend'[i][1].from = i
         /\ \A j \in PlayerId \ {i} : pend'[j] = pend[j]
<1> DEFINE r == [from |-> i, code |-> code]
<1> USE DEF PlayerGoto
<1>1. r \in CloseRequest /\ r.from = i
  BY DEF CloseRequest
<1>2. CASE closes' = closes
  BY <1>2 DEF CloseConnection, Posted, TypeOK, PlayerTypeOK
<1>3. CASE closes' # closes
  <2>1. /\ closes' = Append(closes, r) /\ requests' = requests /\ pend' = pend
        /\ ppc'[i] = "ending"
    BY <1>3 DEF CloseConnection, TypeOK, PlayerTypeOK
  <2>2. Posted' \subseteq Posted \cup {i}
    BY <1>1, <2>1, PostedByClose
  <2> QED
    BY <2>1, <2>2 DEF Over
<1> QED
  BY <1>2, <1>3

LEMMA LastRequestPlayer ==
  ASSUME TypeOK, PendOK, LastRequestOK, AwaitedTaskIsOver,
         NEW i \in PlayerId, PlayerStep(i)
  PROVE  LastRequestOK' /\ AwaitedTaskIsOver'
<1>1. /\ Posted' \subseteq Posted \cup {j \in PlayerId : Over(j)'}
      /\ ppc'[i] = "asking" => pend'[i][1].command # "drop"
      /\ ppc'[i] = "leaving" => pend'[i][1].from = i
      /\ \A j \in PlayerId \ {i} : pend'[j] = pend[j]
  <2>1. CASE ClientAsks(i)
    <3>1. PICK r \in {SealRoom(i)} \cup {SendTo(i, j) : j \in PlayerId} :
            SendReq(i, r)
      BY <2>1 DEF ClientAsks
    <3>2. r \in RoomRequest /\ r.from = i /\ r.command # "drop"
      BY MessageTypes DEF SealRoom, SendTo, RoomRequest
    <3> QED
      BY <2>1, <3>1, <3>2, PostByPlayer DEF ClientAsks, SendReq
  <2>2. CASE ClientGone(i)
    <3>1. DropRequest(i) \in RoomRequest /\ DropRequest(i).from = i
      BY DEF DropRequest, RoomRequest
    <3> QED
      BY <2>2, <3>1, PostByPlayer DEF ClientGone, DropConnection
  <2>3. CASE ClientFaults(i)
    <3>1. "ClientFault" \in CloseCode
      BY DEF CloseCode
    <3> QED
      BY <2>3, <3>1, CloseByPlayer DEF ClientFaults
  <2>4. CASE ReadEnd(i)
    <3>1. Head(notes[i]) \in RoomNotification \cup {Lagged}
      BY <2>4, TakeType, CapacityAssumption
         DEF ReadEnd, CapacityAssumption, TypeOK, ChannelTypeOK
    <3>2. Head(notes[i]).of \in CloseCode
      BY <2>4, <3>1 DEF ReadEnd, Ends, RoomNotification, Lagged, CloseCode
    <3> QED
      BY <2>4, <3>2, CloseByPlayer DEF ReadEnd
  <2>5. CASE ReadNews(i) \/ ReadClosed(i) \/ HearShutdown(i) \/ Return(i)
    <3>1. /\ UNCHANGED <<requests, closes, pend>>
          /\ ppc'[i] \in {"run", "ending", "done"}
      BY <2>5 DEF ReadNews, ReadClosed, HearShutdown, Return, PlayerGoto,
         channelVars, TypeOK, PlayerTypeOK
    <3> QED
      BY <3>1 DEF Posted
  <2>6. CASE ResumeAsking(i) \/ ResumeLeaving(i)
    <3>1. /\ ppc'[i] \in {"run", "ending"}
          /\ ppc[i] = "leaving" => ppc'[i] = "ending"
          /\ \A j \in PlayerId \ {i} : pend'[j] = pend[j]
      BY <2>6 DEF ResumeAsking, ResumeLeaving, Unblock, PlayerGoto, TypeOK,
         PlayerTypeOK
    <3>2. CASE UNCHANGED <<requests, closes>>
      BY <3>1, <3>2 DEF Posted
    <3>3. CASE /\ pend[i][1] \in RoomRequest /\ UNCHANGED closes
               /\ requests' = Append(requests, pend[i][1])
      <4>1. /\ pend[i][1].command = "drop" => ppc[i] = "leaving"
            /\ ppc[i] = "leaving" => pend[i][1].from = i
        BY <2>6 DEF ResumeAsking, ResumeLeaving, LastRequestOK
      <4> QED
        BY <3>1, <3>3, <4>1, PostedByRequest DEF Over
    <3>4. CASE /\ pend[i][1] \in CloseRequest /\ UNCHANGED requests
               /\ closes' = Append(closes, pend[i][1])
               /\ ppc[i] = "leaving"
      <4>1. pend[i][1].from = i
        BY <3>4 DEF LastRequestOK
      <4> QED
        BY <3>1, <3>4, <4>1, PostedByClose DEF Over
    <3>5. ppc[i] = "asking" => pend[i][1] \in RoomRequest
      BY DEF PendOK
    <3> QED
      BY <2>6, <3>2, <3>3, <3>4, <3>5 DEF ResumeAsking, ResumeLeaving
  <2> QED
    BY <2>1, <2>2, <2>3, <2>4, <2>5, <2>6 DEF PlayerStep
<1>2. /\ UNCHANGED roomVars
      /\ ppc[i] \in {"run", "asking", "leaving", "ending"}
      /\ ppc'[i] # "absent"
      /\ ppc[i] = "ending" => ppc'[i] = "done"
      /\ \A j \in PlayerId \ {i} : ppc'[j] = ppc[j]
  BY PlayerStepMoves DEF TypeOK, PlayerTypeOK
<1>3. /\ players \subseteq PlayerId /\ HOST_ID \in PlayerId
      /\ handle \in PlayerId \cup {NoId} /\ Posted \subseteq PlayerId
  BY IdAssumption DEF IdAssumption, TypeOK, RoomTypeOK, Posted, LastRequestsIn
<1>4. \A j \in PlayerId : Over(j) => Over(j)'
  BY <1>2 DEF Over
<1> QED
  BY <1>1, <1>2, <1>3, <1>4 DEF LastRequestOK, AwaitedTaskIsOver, roomVars, Over

LEMMA LastRequestNext ==
  ASSUME UniqueIds, TypeOK, PendOK, DrainOK, LastRequestOK, AwaitedTaskIsOver,
         [Next]_vars
  PROVE  LastRequestOK' /\ AwaitedTaskIsOver'
<1>1. CASE Arrive \/ LobbyReads \/ LobbyHearsShutdown \/ LobbyAborts
           \/ Shutdown \/ Finished
             \/ UNCHANGED vars
  <2>1. /\ UNCHANGED roomVars /\ UNCHANGED playerVars
        /\ UNCHANGED <<requests, closes>>
    BY <1>1 DEF Arrive, LobbyReads, LobbyHearsShutdown, LobbyAborts, Shutdown,
                Finished, vars,
       channelVars
  <2> QED
    BY <2>1 DEF roomVars, playerVars, LastRequestOK, AwaitedTaskIsOver, Posted, Over
<1>2. CASE Aborted
  <2>1. Posted' \subseteq Posted
    BY <1>2, PostedByTake DEF Aborted
  <2> QED
    BY <1>2, <2>1, LastRequestKept DEF Aborted, RoomGoto
<1> QED
  BY <1>1, <1>2, LastRequestRoom, LastRequestPlayer DEF Next, Environment
-----------------------------------------------------------------------------
\* The signals to the lobby.
LEMMA AppendPair == ASSUME NEW a, NEW b PROVE Append(<<a>>, b) = <<a, b>>
<1> DEFINE s == Append(<<a>>, b)
           t == <<a, b>>
<1>1. s \in Seq({a, b}) /\ t \in Seq({a, b})
  OBVIOUS
<1>2. Len(s) = 2 /\ Len(t) = 2
  OBVIOUS
<1>3. s[1] = t[1] /\ s[2] = t[2]
  OBVIOUS
<1> HIDE DEF s, t
<1>4. Len(s) = Len(t) /\ \A k \in 1..Len(s) : s[k] = t[k]
  BY <1>2, <1>3
<1>5. s = t
  BY <1>1, <1>4, SeqEqual
<1> QED
  BY <1>5 DEF s, t

LEMMA AppendOne == ASSUME NEW b PROVE Append(<<>>, b) = <<b>>
OBVIOUS

LEMMA SentAt ==
  /\ Sent("done") = <<"seal", "close">>
  /\ \A place \in {"drainCloses", "drainRequests", "joinPlayers", "drainClients",
                   "awaitCloses", "signal"} : Sent(place) = <<"seal">>
  /\ \A place \in {"start", "select", "leave", "notify", "collect", "seal"} :
       Sent(place) = <<>>
BY DEF Sent, AfterDrain

LEMMA UnheardAt ==
  /\ Unheard("done") = {<<>>, <<"close">>, <<"seal", "close">>}
  /\ \A place \in {"drainCloses", "drainRequests", "joinPlayers", "drainClients",
                   "awaitCloses", "signal", "aborted"} : Unheard(place) = {<<>>, <<"seal">>}
  /\ \A place \in {"start", "select", "leave", "notify", "collect", "seal"} :
       Unheard(place) = {<<>>}
<1>1. Unheard("done") = {<<>>, <<"close">>, <<"seal", "close">>}
  BY DEF Unheard
<1>2. ASSUME NEW place \in {"drainCloses", "drainRequests", "joinPlayers",
                           "drainClients", "awaitCloses", "signal", "aborted"}
      PROVE  Unheard(place) = {<<>>, <<"seal">>}
  <2>1. place # "done" /\ place \in AfterDrain \cup {"drainCloses", "aborted"}
    BY DEF AfterDrain
  <2> QED
    BY <2>1, Zenon DEF Unheard
<1>3. ASSUME NEW place \in {"start", "select", "leave", "notify", "collect", "seal"}
      PROVE  Unheard(place) = {<<>>}
  <2>1. place # "done" /\ place \notin AfterDrain \cup {"drainCloses", "aborted"}
    BY DEF AfterDrain
  <2> QED
    BY <2>1, Zenon DEF Unheard
<1> QED
  BY <1>1, <1>2, <1>3

\* The signals that are left when one of them was read.
LEMMA TailsOfUnheard ==
  /\ Tail(<<"seal">>) = <<>> /\ Tail(<<"close">>) = <<>>
  /\ Tail(<<"seal", "close">>) = <<"close">>
OBVIOUS

LEMMA UnheardTail ==
  ASSUME NEW place \in RoomPlace, NEW queue \in Unheard(place), queue # <<>>
  PROVE  Tail(queue) \in Unheard(place)
<1>1. CASE place = "done"
  <2>1. queue = <<"close">> \/ queue = <<"seal", "close">>
    BY <1>1, UnheardAt
  <2> QED
    BY <1>1, <2>1, UnheardAt, TailsOfUnheard
<1>2. CASE place # "done"
  <2>1. queue = <<"seal">> /\ Unheard(place) = {<<>>, <<"seal">>}
    BY <1>2, UnheardAt DEF RoomPlace
  <2> QED
    BY <2>1, TailsOfUnheard
<1> QED
  BY <1>1, <1>2

\* A step of the room sends at most what it has to send on its way.
LEMMA SignalsSent ==
  ASSUME RoomStep
  PROVE  /\ lobbySees' = lobbySees
         /\ \/ rpc' = rpc /\ control' = control
            \/ /\ ~RoomGone /\ rpc' # "aborted"
               /\ Sent(rpc') = Sent(rpc) /\ Unheard(rpc') = Unheard(rpc)
               /\ control' = control
            \/ /\ rpc = "seal" /\ rpc' = "drainCloses"
               /\ control' = Append(control, "seal")
            \/ /\ rpc = "signal" /\ rpc' = "done"
               /\ control' = Append(control, "close")
<1> USE SentAt, UnheardAt DEF At, RoomGoto, RoomGone
<1>1. CASE Start \/ NewClient
  BY <1>1 DEF Start, NewClient, OnConnect, envVars
<1>2. CASE TurnClientAway \/ RecvSend \/ Reconfigure \/ RoomHearsShutdown
             \/ AwaitHandle \/ SendCloseDone
  BY <1>2 DEF TurnClientAway, RecvSend, TakeRequest, Reconfigure,
     RoomHearsShutdown, AwaitHandle, SendCloseDone, channelVars, envVars
<1>3. CASE RecvSeal \/ RecvDrop \/ RecvClose
  BY <1>3 DEF RecvSeal, RecvDrop, RecvClose, TakeRequest, BeginClose,
     BeginDisconnect, roomVars, envVars
<1>4. CASE ReconfigureExpired \/ TimeLimit
  BY <1>4 DEF ReconfigureExpired, TimeLimit, BeginClose, envVars
<1>5. CASE FinishDisconnect \/ NotifyClosing \/ NotifyClosingDone
  BY <1>5 DEF FinishDisconnect, NotifyClosing, NotifyClosingDone, channelVars,
     envVars
<1>6. CASE CollectRequest \/ CollectClose \/ CollectDone
  BY <1>6 DEF CollectRequest, CollectClose, CollectDone, channelVars, envVars
<1>7. CASE SendSeal \/ SignalClosed
  BY <1>7 DEF SendSeal, SignalClosed, envVars
<1>8. CASE DrainCloses \/ DrainRequests
  BY <1>8 DEF DrainCloses, DrainRequests, envVars
<1>9. CASE JoinPlayers \/ DrainClients \/ AwaitCloses
  BY <1>9 DEF JoinPlayers, DrainClients, AwaitCloses, channelVars, envVars
<1> QED
  BY <1>1, <1>2, <1>3, <1>4, <1>5, <1>6, <1>7, <1>8, <1>9
     DEF RoomStep, RoomCloses, RoomWindsDown

LEMMA SignalsNext ==
  ASSUME TypeOK, SignalsOK, [Next]_vars
  PROVE  SignalsOK'
<1> USE SentAt, UnheardAt DEF SignalsOK, RoomGone
<1>1. CASE RoomStep
  <2>1. CASE rpc' = rpc /\ control' = control
    BY <1>1, <2>1, SignalsSent
  <2>2. CASE /\ ~RoomGone /\ rpc' # "aborted"
             /\ Sent(rpc') = Sent(rpc) /\ Unheard(rpc') = Unheard(rpc)
             /\ control' = control
    BY <1>1, <2>2, SignalsSent
  <2>3. CASE /\ rpc = "seal" /\ rpc' = "drainCloses"
             /\ control' = Append(control, "seal")
    BY <1>1, <2>3, SignalsSent
  <2>4. CASE /\ rpc = "signal" /\ rpc' = "done"
             /\ control' = Append(control, "close")
    <3>1. Append(<<"seal">>, "close") = <<"seal", "close">>
      BY AppendPair
    <3>2. Tail(<<"seal">>) = <<>> /\ Tail(<<"seal", "close">>) = <<"close">>
      OBVIOUS
    <3>3. Append(<<>>, "close") = <<"close">>
      BY AppendOne
    <3>4. Sent(rpc) = <<"seal">> /\ Sent(rpc') = <<"seal", "close">>
      BY <2>4
    <3>5. lobbySees' = lobbySees /\ rpc' # "aborted"
      BY <1>1, <2>4, SignalsSent
    <3>6. CASE lobbySees = "open"
      <4>1. control' = <<"seal", "close">>
        BY <2>4, <3>1, <3>4, <3>6
      <4> QED
        BY <3>4, <3>5, <3>6, <4>1
    <3>7. CASE lobbySees = "sealed"
      <4>1. control' = <<"close">>
        BY <2>4, <3>2, <3>3, <3>4, <3>7
      <4>2. Sent(rpc') # <<>> /\ control' = Tail(Sent(rpc'))
        BY <3>2, <3>4, <4>1
      <4> QED
        BY <3>5, <3>7, <4>2
    <3>8. CASE lobbySees \in {"removed", "unread"}
      <4>1. control \in {<<>>, <<"seal">>}
        BY <2>4, <3>4, <3>8
      <4>2. control' \in {<<"close">>, <<"seal", "close">>}
        BY <2>4, <3>1, <3>3, <4>1
      <4> QED
        BY <2>4, <3>5, <3>8, <4>2
    <3> QED
      BY <3>6, <3>7, <3>8
  <2> QED
    BY <1>1, <2>1, <2>2, <2>3, <2>4, SignalsSent
<1>2. ASSUME NEW i \in PlayerId, PlayerStep(i) PROVE SignalsOK'
  <2>1. rpc' = rpc
    BY <1>2, PlayerStepMoves DEF roomVars
  <2>2. UNCHANGED <<control, lobbySees>>
    BY <1>2 DEF PlayerStep, ClientAsks, ClientFaults, ClientGone, ReadNews,
       ReadEnd, ReadClosed, HearShutdown, ResumeAsking, ResumeLeaving, Unblock,
       Return, channelVars, envVars
  <2> QED
    BY <2>1, <2>2
<1>3. CASE Arrive \/ Shutdown \/ Finished \/ UNCHANGED vars
  BY <1>3 DEF Arrive, Shutdown, Finished, vars, roomVars, channelVars, envVars
<1>4. CASE LobbyReads
  <2>1. rpc' = rpc
    BY <1>4 DEF LobbyReads, roomVars
  <2>2. CASE lobbySees \in {"removed", "unread"}
    <3>1. control # <<>> /\ control' = Tail(control) /\ lobbySees' = lobbySees
      BY <1>4, <2>2 DEF LobbyReads, Listing
    <3>3. control \in Unheard(rpc)
      BY <2>2
    <3>2. Tail(control) \in Unheard(rpc)
      BY <3>1, <3>3, UnheardTail DEF TypeOK, RoomTypeOK
    <3> QED
      BY <2>1, <2>2, <3>1, <3>2
  <2>3. CASE lobbySees = "open"
    <3>1. Sent(rpc) # <<>> /\ control = Sent(rpc)
      BY <1>4, <2>3 DEF LobbyReads
    <3>2. Head(control) = "seal"
      BY <3>1 DEF Sent
    <3> QED
      BY <1>4, <2>1, <2>3, <3>1, <3>2 DEF LobbyReads, Listing
  <2>4. CASE lobbySees = "sealed"
    <3>1. rpc = "done" /\ control = <<"close">>
      BY <1>4, <2>4 DEF LobbyReads, Sent
    <3> QED
      BY <1>4, <2>1, <2>4, <3>1 DEF LobbyReads, Listing
  <2> QED
    BY <2>2, <2>3, <2>4 DEF TypeOK, EnvTypeOK
<1>5. CASE LobbyHearsShutdown \/ LobbyAborts
  <2>1. rpc' = rpc /\ control' = control /\ rpc # "aborted"
        /\ (lobbySees' = "unread" \/ (lobbySees' = "removed" /\ MayAbort))
    <3>1. CASE LobbyHearsShutdown
      BY <3>1 DEF LobbyHearsShutdown, roomVars, channelVars
    <3>2. CASE LobbyAborts
      BY <3>2 DEF LobbyAborts, roomVars, channelVars
    <3> QED
      BY <1>5, <3>1, <3>2
  <2>2. control = Sent(rpc) \/ (Sent(rpc) # <<>> /\ control = Tail(Sent(rpc)))
    BY <1>5 DEF LobbyHearsShutdown, LobbyAborts
  <2>3. rpc \in RoomPlace \ {"aborted"}
    BY <2>1 DEF TypeOK, RoomTypeOK
  <2>4. Sent(rpc) \in Unheard(rpc)
    <3>1. CASE rpc = "done"
      BY <3>1
    <3>2. CASE rpc # "done"
      BY <2>3, <3>2 DEF RoomPlace
    <3> QED
      BY <3>1, <3>2
  <2>5. Sent(rpc) # <<>> => Tail(Sent(rpc)) \in Unheard(rpc)
    BY <2>3, <2>4, UnheardTail
  <2>6. control \in Unheard(rpc)
    BY <2>2, <2>4, <2>5, Zenon
  <2> QED
    BY <2>1, <2>6
<1>6. CASE Aborted
  <2>1. rpc' = "aborted" /\ ~RoomGone /\ UNCHANGED <<control, lobbySees>>
        /\ lobbySees = "removed" /\ MayAbort
    BY <1>6 DEF Aborted, RoomGoto, envVars
  <2>2. control \in {<<>>, <<"seal">>}
    <3>1. rpc \in RoomPlace \ {"done"} /\ control \in Unheard(rpc)
      BY <2>1 DEF TypeOK, RoomTypeOK
    <3> QED
      BY <3>1 DEF RoomPlace
  <2> QED
    BY <2>1, <2>2
<1> QED
  BY <1>1, <1>2, <1>3, <1>4, <1>5, <1>6 DEF Next, Environment
-----------------------------------------------------------------------------
LEMMA RoomInvInit == Init => RoomInv
<1> SUFFICES ASSUME Init PROVE RoomInv
  OBVIOUS
<1>1. TypeOK /\ PendOK /\ DrainOK
  BY InitTypeOK, DrainInit
<1>2. LastRequestOK /\ AwaitedTaskIsOver
  BY IdAssumption DEF IdAssumption, Init, LastRequestOK, AwaitedTaskIsOver, Posted,
     LastRequestsIn
<1>3. SignalsOK
  BY SentAt DEF Init, SignalsOK
<1> QED
  BY <1>1, <1>2, <1>3 DEF RoomInv

LEMMA RoomInvNext == RoomInv /\ [Next]_vars => RoomInv'
BY NextTypeOK, DrainNext, LastRequestNext, SignalsNext DEF RoomInv

\* The inductive invariant of the room and its players.
THEOREM RoomInvariant == Spec => []RoomInv
BY RoomInvInit, RoomInvNext, PTL DEF Spec

\* When Room::task returns, nothing of the room is left behind: whatever its
\* players and the signals did meanwhile, and however many they are.
THEOREM ClosedIsQuiet == Spec => []ClosedMeansQuiet
<1>1. RoomInv => ClosedMeansQuiet
  BY DEF RoomInv, DrainOK, AfterDrain, ClosedMeansQuiet
<1> QED
  BY <1>1, RoomInvariant, PTL

\* While no id is drawn twice, the room awaits no task that is still talking to
\* its client.
THEOREM AwaitedIsOver ==
  ASSUME UniqueIds
  PROVE  Spec => []AwaitedTaskIsOver
<1>1. RoomInv => AwaitedTaskIsOver
  BY DEF RoomInv
<1> QED
  BY <1>1, RoomInvariant, PTL
-----------------------------------------------------------------------------
\* The promises of RoomLifecycle.
Inside == {i \in PlayerId : ppc[i] \notin {"absent", "done"}}
Said(queue) == {queue[k] : k \in DOMAIN queue}

LEMMA PhaseIs ==
  /\ rpc \in {"start", "select", "leave"} => Phase = "open"
  /\ rpc \in {"notify", "collect", "seal"} => Phase = "closing"
  /\ rpc \in {"drainCloses", "drainRequests", "joinPlayers", "drainClients"}
       => Phase = "sealed"
  /\ rpc \in {"awaitCloses", "signal"} => Phase = "swept"
  /\ rpc = "done" => Phase = "closed"
  /\ rpc = "aborted" => Phase = "aborted"
BY DEF Phase

LEMMA SaidAppend ==
  ASSUME NEW queue \in Seq({"seal", "close"}), NEW signal
  PROVE  Said(Append(queue, signal)) = Said(queue) \cup {signal}
<1> DEFINE longer == Append(queue, signal)
<1>1. /\ Len(queue) \in Nat /\ DOMAIN queue = 1..Len(queue)
      /\ DOMAIN longer = 1..(Len(queue) + 1)
      /\ longer[Len(queue) + 1] = signal
      /\ \A k \in 1..Len(queue) : longer[k] = queue[k]
  OBVIOUS
<1> HIDE DEF longer
<1>2. DOMAIN longer = DOMAIN queue \cup {Len(queue) + 1}
  BY <1>1
<1>3. Said(longer) = {longer[k] : k \in DOMAIN queue} \cup {longer[Len(queue) + 1]}
  BY <1>2 DEF Said
<1>4. {longer[k] : k \in DOMAIN queue} = Said(queue)
  BY <1>1 DEF Said
<1> QED
  BY <1>1, <1>3, <1>4 DEF longer

\* No signal is said twice: what is heard is not on its way any more.
LEMMA SaidOnce ==
  ASSUME NEW queue \in {<<"seal">>, <<"close">>, <<"seal", "close">>}
  PROVE  /\ Head(queue) \in Said(queue)
         /\ Said(Tail(queue)) = Said(queue) \ {Head(queue)}
<1>1. Said(<<>>) = {} /\ Said(<<"seal">>) = {"seal"} /\ Said(<<"close">>) = {"close"}
  BY DEF Said
<1>2. Said(<<"seal", "close">>) = {"seal", "close"}
  BY DEF Said
<1>3. CASE queue = <<"seal", "close">>
  BY <1>1, <1>2, <1>3, TailsOfUnheard
<1>4. CASE queue = <<"seal">>
  BY <1>1, <1>4, TailsOfUnheard
<1>5. CASE queue = <<"close">>
  BY <1>1, <1>5, TailsOfUnheard
<1> QED
  BY <1>3, <1>4, <1>5

\* on_connect lets a player in.
LEMMA OnConnectEnters ==
  ASSUME TypeOK, NEW i \in PlayerId, ppc[i] = "absent", OnConnect(i),
         Phase = "open", Phase' = "open", lobbySees' = lobbySees,
         \/ i = HOST_ID /\ UNCHANGED newClients
         \/ i # HOST_ID /\ newClients > 0 /\ newClients' = newClients - 1
  PROVE  Lifecycle!Enter(i)
<1>1. ppc' = [ppc EXCEPT ![i] = "run"] /\ control' = control
  BY DEF OnConnect
<1>2. i \notin Inside /\ Inside' = Inside \cup {i}
  BY <1>1 DEF Inside, TypeOK, PlayerTypeOK
<1> QED
  BY <1>1, <1>2 DEF Lifecycle!Enter, Inside

\* What a step of the room that starts no task is to the lobby.
StaysAtPhase == Phase' = Phase /\ UNCHANGED <<newClients, control>>
TurnsAway ==
  /\ Phase' = Phase /\ Phase \in {"open", "sealed"}
  /\ newClients > 0 /\ newClients' = newClients - 1
  /\ UNCHANGED control
BeginsClosing ==
  /\ Phase = "open" /\ Phase' = "closing"
  /\ UNCHANGED <<newClients, control>>
Seals ==
  /\ Phase = "closing" /\ Phase' = "sealed"
  /\ control' = Append(control, "seal") /\ UNCHANGED newClients
Sweeps ==
  /\ Phase = "sealed" /\ Phase' = "swept"
  /\ NoSenders /\ newClients = 0
  /\ UNCHANGED <<newClients, control>>
Closes ==
  /\ Phase = "swept" /\ Phase' = "closed"
  /\ control' = Append(control, "close") /\ newClients' = 0

LEMMA RoomMovesOn ==
  ASSUME RoomInv, RoomStep, ~Start, ~NewClient
  PROVE  StaysAtPhase \/ TurnsAway \/ BeginsClosing \/ Seals \/ Sweeps \/ Closes
<1> USE DEF At, RoomGoto, Phase, StaysAtPhase, channelVars
<1>1. CASE RecvSend \/ Reconfigure \/ AwaitHandle \/ SendCloseDone
  BY <1>1 DEF RecvSend, TakeRequest, Reconfigure, AwaitHandle, SendCloseDone
<1>2. CASE TurnClientAway
  BY <1>2 DEF TurnClientAway, TurnsAway
<1>3. CASE RecvSeal \/ RecvDrop \/ RecvClose
  BY <1>3 DEF RecvSeal, RecvDrop, RecvClose, TakeRequest, BeginClose,
     BeginDisconnect, roomVars, BeginsClosing
<1>4. CASE ReconfigureExpired \/ TimeLimit \/ RoomHearsShutdown
  BY <1>4 DEF ReconfigureExpired, TimeLimit, BeginClose, RoomHearsShutdown, BeginsClosing
<1>5. CASE FinishDisconnect \/ NotifyClosing \/ NotifyClosingDone
  BY <1>5 DEF FinishDisconnect, NotifyClosing, NotifyClosingDone
<1>6. CASE CollectRequest \/ CollectClose \/ CollectDone
  BY <1>6 DEF CollectRequest, CollectClose, CollectDone
<1>7. CASE SendSeal
  BY <1>7 DEF SendSeal, Seals
<1>8. CASE DrainCloses \/ DrainRequests \/ JoinPlayers \/ AwaitCloses
  BY <1>8 DEF DrainCloses, DrainRequests, JoinPlayers, AwaitCloses
<1>9. CASE DrainClients
  <2>1. rpc = "drainClients" /\ NoSenders /\ control' = control
    BY <1>9 DEF DrainClients, RoomInv, DrainOK, AfterDrain
  <2>2. \/ newClients > 0 /\ newClients' = newClients - 1 /\ rpc' = rpc
        \/ newClients = 0 /\ newClients' = newClients /\ rpc' = "awaitCloses"
    BY <1>9 DEF DrainClients
  <2> QED
    BY <2>1, <2>2 DEF TurnsAway, Sweeps
<1>10. CASE SignalClosed
  BY <1>10 DEF SignalClosed, Closes
<1> QED
  BY <1>1, <1>2, <1>3, <1>4, <1>5, <1>6, <1>7, <1>8, <1>9, <1>10
     DEF RoomStep, RoomCloses, RoomWindsDown

LEMMA RoomKeepsPromises ==
  ASSUME UniqueIds, RoomInv, RoomStep
  PROVE  [Lifecycle!Next]_(Lifecycle!vars)
<1> USE DEF Lifecycle!Next, Lifecycle!RoomActs
<1>1. lobbySees' = lobbySees
  BY SignalsSent
<1>2. CASE Start
  <2>1. ppc[HOST_ID] = "absent" /\ OnConnect(HOST_ID) /\ UNCHANGED newClients
    BY <1>2 DEF Start, At, RoomInv, LastRequestOK
  <2>2. Phase = "open" /\ Phase' = "open"
    BY <1>2 DEF Start, At, RoomGoto, Phase
  <2>3. Lifecycle!Enter(HOST_ID)
    BY <1>1, <2>1, <2>2, OnConnectEnters, IdAssumption DEF IdAssumption, RoomInv
  <2> QED
    BY <2>3, IdAssumption DEF IdAssumption
<1>3. CASE NewClient
  <2>1. PICK i \in PlayerId : ppc[i] = "absent" /\ i # HOST_ID /\ OnConnect(i)
    BY <1>3 DEF NewClient, FreshId
  <2>2. Phase = "open" /\ Phase' = "open"
    BY <1>3 DEF NewClient, At, Phase
  <2>3. newClients > 0 /\ newClients' = newClients - 1
    BY <1>3 DEF NewClient
  <2>4. Lifecycle!Enter(i)
    BY <1>1, <2>1, <2>2, <2>3, OnConnectEnters DEF RoomInv
  <2> QED
    BY <2>4
<1>4. CASE ~Start /\ ~NewClient
  <2>1. Inside' = Inside
    BY <1>4, PlayersLeftAlone DEF playerVars, Inside
  <2>2. NoSenders => Inside = {}
    BY DEF NoSenders, Inside
  <2>3. control \in Seq({"seal", "close"})
    BY DEF RoomInv, TypeOK, ChannelTypeOK
  <2>4. CASE StaysAtPhase
    BY <1>1, <2>1, <2>4 DEF StaysAtPhase, Lifecycle!vars, Inside
  <2>5. CASE TurnsAway
    BY <1>1, <2>1, <2>5 DEF TurnsAway, Lifecycle!TurnAway, Inside
  <2>6. CASE BeginsClosing
    BY <1>1, <2>1, <2>6 DEF BeginsClosing, Lifecycle!BeginClosing, Inside
  <2>7. CASE Seals
    <3>1. Said(control)' = Said(control) \cup {"seal"}
      BY <2>3, <2>7, SaidAppend DEF Seals
    <3> QED
      BY <1>1, <2>1, <2>7, <3>1 DEF Seals, Lifecycle!Seal, Inside, Said
  <2>8. CASE Sweeps
    BY <1>1, <2>1, <2>2, <2>8 DEF Sweeps, Lifecycle!Sweep, Inside
  <2>9. CASE Closes
    <3>1. Said(control)' = Said(control) \cup {"close"}
      BY <2>3, <2>9, SaidAppend DEF Closes
    <3> QED
      BY <1>1, <2>1, <2>9, <3>1 DEF Closes, Lifecycle!Close, Inside, Said
  <2> QED
    BY <1>4, <2>4, <2>5, <2>6, <2>7, <2>8, <2>9, RoomMovesOn
<1> QED
  BY <1>2, <1>3, <1>4

LEMMA PlayerKeepsPromises ==
  ASSUME RoomInv, NEW i \in PlayerId, PlayerStep(i)
  PROVE  [Lifecycle!Next]_(Lifecycle!vars)
<1>1. /\ rpc' = rpc /\ ppc[i] \in {"run", "asking", "leaving", "ending"}
      /\ \E place \in {"run", "asking", "leaving", "ending", "done"} :
           ppc' = [ppc EXCEPT ![i] = place]
  BY PlayerStepMoves DEF RoomInv, roomVars
<1>2. UNCHANGED <<lobbySees, newClients, control>>
  BY DEF PlayerStep, ClientAsks, ClientFaults, ClientGone, ReadNews, ReadEnd,
     ReadClosed, HearShutdown, ResumeAsking, ResumeLeaving, Unblock, Return, envVars,
     channelVars
<1>3. Phase' = Phase
  BY <1>1 DEF Phase
<1>4. i \in Inside /\ Inside' \in {Inside, Inside \ {i}}
  BY <1>1 DEF Inside, RoomInv, TypeOK, PlayerTypeOK
<1>5. CASE Inside' = Inside
  BY <1>2, <1>3, <1>5 DEF Lifecycle!vars, Inside
<1>6. CASE Inside' = Inside \ {i}
  <2>1. Lifecycle!Leave(i)
    BY <1>2, <1>3, <1>4, <1>6 DEF Lifecycle!Leave, Inside
  <2> QED
    BY <2>1 DEF Lifecycle!Next, Lifecycle!RoomActs
<1> QED
  BY <1>4, <1>5, <1>6

\* What the lobby reads is what the room has said, each signal once.
LEMMA ReadingKeepsPromises ==
  ASSUME RoomInv, LobbyReads, Inside' = Inside
  PROVE  Lifecycle!LobbyActs
<1>1. /\ rpc' = rpc /\ Phase' = Phase /\ newClients' = newClients
      /\ control # <<>> /\ control' = Tail(control)
      /\ lobbySees' = Listing(Head(control))
  BY DEF LobbyReads, roomVars, Phase
<1>2. rpc \in RoomPlace /\ lobbySees \in {"open", "sealed", "removed", "unread"}
  BY DEF RoomInv, TypeOK, RoomTypeOK, EnvTypeOK
<1>3. CASE lobbySees \in {"removed", "unread"}
  <2>1. control \in Unheard(rpc)
    BY <1>3 DEF RoomInv, SignalsOK
  <2>2. control \in {<<"seal">>, <<"close">>, <<"seal", "close">>}
    <3>1. CASE rpc = "done"
      BY <1>1, <2>1, <3>1, UnheardAt
    <3>2. CASE rpc # "done"
      <4>1. Unheard(rpc) \in {{<<>>}, {<<>>, <<"seal">>}}
        BY <1>2, <3>2, UnheardAt DEF RoomPlace
      <4> QED
        BY <1>1, <2>1, <4>1
    <3> QED
      BY <3>1, <3>2
  <2>3. Head(control) \in Said(control) /\ Said(control)' = Said(control) \ {Head(control)}
    BY <1>1, <2>2, SaidOnce
  <2>4. lobbySees' = lobbySees
    BY <1>1, <1>3 DEF Listing
  <2>5. \A off \in {"removed", "unread"} :
          lobbySees = off => Lifecycle!Hear(Head(control), off, off)
    BY <1>1, <2>3, <2>4 DEF Lifecycle!Hear, Said, Inside
  <2>6. \E off \in {"removed", "unread"} : Lifecycle!Hear(Head(control), off, off)
    BY <1>3, <2>5
  <2> QED
    BY <2>3, <2>6 DEF Lifecycle!LobbyActs, Lifecycle!Ignore, Said
<1>4. CASE lobbySees = "open"
  <2>1. control = Sent(rpc) /\ Sent(rpc) # <<>> /\ rpc # "aborted"
    BY <1>1, <1>4 DEF RoomInv, SignalsOK
  <2>2. control \in {<<"seal">>, <<"seal", "close">>}
    BY <2>1 DEF Sent
  <2>3. Head(control) = "seal"
    BY <2>2
  <2>4. "seal" \in Said(control) /\ Said(control)' = Said(control) \ {"seal"}
    BY <1>1, <2>2, <2>3, SaidOnce
  <2> QED
    BY <1>1, <1>4, <2>3, <2>4
       DEF Lifecycle!LobbyActs, Lifecycle!ListAsSealed, Lifecycle!Hear, Listing, Said,
           Inside
<1>5. CASE lobbySees = "sealed"
  <2>1. control = Tail(Sent(rpc)) /\ Sent(rpc) # <<>> /\ control # <<>>
    BY <1>1, <1>5 DEF RoomInv, SignalsOK
  <2>2. control = <<"close">>
    BY <2>1 DEF Sent
  <2>3. Head(control) = "close"
    BY <2>2
  <2>4. "close" \in Said(control) /\ Said(control)' = Said(control) \ {"close"}
    BY <1>1, <2>2, <2>3, SaidOnce
  <2> QED
    BY <1>1, <1>5, <2>3, <2>4
       DEF Lifecycle!LobbyActs, Lifecycle!Unlist, Lifecycle!Hear, Listing, Said, Inside
<1> QED
  BY <1>2, <1>3, <1>4, <1>5

LEMMA LobbyKeepsPromises ==
  ASSUME RoomInv, Environment
  PROVE  [Lifecycle!Next]_(Lifecycle!vars)
<1> USE DEF Lifecycle!Next
<1>1. Inside' = Inside
  BY DEF Environment, Arrive, LobbyReads, LobbyHearsShutdown, LobbyAborts,
         Aborted, Shutdown,
     Finished, vars, playerVars, Inside
<1>2. CASE Shutdown \/ Finished
  BY <1>1, <1>2 DEF Shutdown, Finished, vars, roomVars, envVars, channelVars, Phase,
     Lifecycle!vars, Inside
<1>3. CASE Arrive
  <2>1. Phase \in {"open", "closing", "sealed", "swept"} /\ Phase' = Phase
    BY <1>3 DEF Arrive, RoomGone, roomVars, Phase, RoomInv, TypeOK, RoomTypeOK, RoomPlace
  <2>2. /\ lobbySees = "open" /\ newClients < NEW_CLIENT_CHANNEL_BUFFER_SIZE
        /\ newClients' = newClients + 1 /\ UNCHANGED <<control, lobbySees>>
    BY <1>3 DEF Arrive
  <2> QED
    BY <1>1, <2>1, <2>2 DEF Lifecycle!LobbyActs, Lifecycle!Send, Lifecycle!Running, Inside
<1>4. CASE LobbyReads
  BY <1>1, <1>4, ReadingKeepsPromises
<1>5. CASE LobbyAborts
  <2>1. Phase' = Phase /\ MayAbort /\ UNCHANGED <<newClients, control>>
    BY <1>5 DEF LobbyAborts, roomVars, channelVars, Phase
  <2>2. lobbySees \in {"open", "sealed"} /\ lobbySees' = "removed"
    BY <1>5 DEF LobbyAborts
  <2> QED
    BY <1>1, <2>1, <2>2 DEF Lifecycle!Evict, Inside
<1>6. CASE Aborted
  <2>1. Phase \in {"open", "closing", "sealed", "swept"} /\ Phase' = "aborted"
    BY <1>6 DEF Aborted, RoomGone, RoomGoto, Phase, RoomInv, TypeOK, RoomTypeOK, RoomPlace
  <2>2. MayAbort /\ lobbySees = "removed" /\ newClients' = 0
        /\ UNCHANGED <<control, lobbySees>>
    BY <1>6 DEF Aborted, envVars
  <2> QED
    BY <1>1, <2>1, <2>2 DEF Lifecycle!Abort, Lifecycle!Running, Inside
<1>7. CASE LobbyHearsShutdown
  <2>1. Phase' = Phase /\ UNCHANGED <<newClients, control>>
    BY <1>7 DEF LobbyHearsShutdown, roomVars, channelVars, Phase
  <2>2. lobbySees \in {"open", "sealed"} /\ lobbySees' = "unread"
    BY <1>7 DEF LobbyHearsShutdown
  <2> QED
    BY <1>1, <2>1, <2>2 DEF Lifecycle!LobbyActs, Lifecycle!StopListing, Inside
<1> QED
  BY <1>2, <1>3, <1>4, <1>5, <1>6, <1>7 DEF Environment

\* While no id is drawn twice, the room keeps the promises of RoomLifecycle: one
\* client comes in for each that was sent, nobody once it has begun to close; it
\* says SealRoom and CloseRoom once each, the first before its last look into
\* the channel, the second when nobody is inside; and the lobby's list never runs
\* ahead of it.
THEOREM KeepsItsPromises ==
  ASSUME UniqueIds
  PROVE  Spec => KeepsLifecycle
<1>1. Init => Lifecycle!Init
  BY DEF Init, Lifecycle!Init, Phase
<1>2. RoomInv /\ [Next]_vars => [Lifecycle!Next]_(Lifecycle!vars)
  <2> SUFFICES ASSUME RoomInv, [Next]_vars
               PROVE  [Lifecycle!Next]_(Lifecycle!vars)
    OBVIOUS
  <2>1. CASE UNCHANGED vars
    BY <2>1 DEF vars, roomVars, playerVars, envVars, channelVars, Phase, Lifecycle!vars
  <2> QED
    BY <2>1, RoomKeepsPromises, PlayerKeepsPromises, LobbyKeepsPromises DEF Next
<1> QED
  BY <1>1, <1>2, RoomInvariant, PTL DEF Spec, KeepsLifecycle, Lifecycle!Spec
=============================================================================
