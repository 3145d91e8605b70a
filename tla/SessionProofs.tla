---------------------------- MODULE SessionProofs ---------------------------
(***************************************************************************)
(* Theorems of ClientSession for every set of configurations, every length *)
(* of the steps in which time passes and every bound: no task ever works   *)
(* with time limits in the wrong order, nobody is closed for a breach of   *)
(* the protocol without a reason, and nobody times out who has answered in *)
(* time.                                                                   *)
(***************************************************************************)
EXTENDS ClientSession, TLAPS

-----------------------------------------------------------------------------
(* The configuration.                                                      *)

\* Its ages are told apart as far as the limits need it.
Tracked ==
  {c \in OrderedConfig : c.response_time_limit_secs - c.ping_interval_secs <= MaxAge}

ConfigOK ==
  /\ published \in Tracked /\ held \in [Reader -> Tracked]
  /\ file \in Candidates \cup {DefaultConfig, Unreadable}
  /\ unread \subseteq Reader /\ updater \in {"starting", "running", "deaf", "stopped"}

LEMMA Keys ==
  Key = {"max_message_size", "max_payload_size", "max_players_per_room", "max_rooms",
         "player_queue_capacity", "max_message_count", "join_room_time_limit_secs",
         "ping_interval_secs", "response_time_limit_secs", "room_time_limit_mins"}
BY SMT DEF Key, Bounds

LEMMA DefaultIsOrdered == DefaultConfig \in OrderedConfig
<1>1. DefaultConfig \in VariableConfig
  BY Keys, SMT DEF DefaultConfig, VariableConfig
<1>2. Ordered(DefaultConfig)
  BY SMT DEF DefaultConfig, Ordered
<1> QED
  BY <1>1, <1>2 DEF OrderedConfig

LEMMA DefaultIsTracked == DefaultConfig \in Tracked
BY DefaultIsOrdered, AgeAssumption DEF Tracked

LEMMA ReadableIsTracked ==
  ASSUME NEW f \in Candidates \cup {DefaultConfig, Unreadable}, Readable(f)
  PROVE  f \in Tracked
<1>1. f \in Candidates \cup {DefaultConfig} /\ validate(f)
  BY DEF Readable
<1>2. f \in VariableConfig
  BY <1>1, CandidateAssumption, DefaultIsOrdered DEF OrderedConfig
<1>3. Ordered(f)
  BY <1>1 DEF validate, Ordered
<1>4. f.response_time_limit_secs - f.ping_interval_secs <= MaxAge
  BY <1>1, AgeAssumption
<1> QED
  BY <1>2, <1>3, <1>4 DEF OrderedConfig, Tracked

LEMMA ConfigInitOK ==
  ASSUME ConfigInit
  PROVE  ConfigOK
BY DefaultIsTracked DEF ConfigInit, ConfigOK

LEMMA ReadConfigOK ==
  ASSUME ConfigOK, NEW r \in Reader, held' = [held EXCEPT ![r] = published],
         unread' = unread \ {r}, UNCHANGED <<file, published, updater>>
  PROVE  ConfigOK'
BY DEF ConfigOK

LEMMA ConfigNextOK ==
  ASSUME ConfigOK, [Next]_vars
  PROVE  ConfigOK'
<1>1. CASE EditFile
  BY <1>1 DEF EditFile, ConfigOK, watchVars
<1>2. CASE CheckFile
  BY <1>2, ReadableIsTracked DEF CheckFile, ConfigOK
<1>3. CASE StartUpdates(stopping) \/ StopUpdates
  BY <1>3 DEF StartUpdates, StopUpdates, ConfigOK, watchVars
<1>4. CASE ReadConfig("lobby") \/ Restart \/ EnterRoom
  BY <1>4, ReadConfigOK, SessionAssumption DEF ReadConfig, Restart, EnterRoom
<1>5. CASE UNCHANGED configVars
  BY <1>5 DEF ConfigOK, configVars, watchVars
<1>6. \/ EditFile \/ CheckFile \/ StartUpdates(stopping) \/ StopUpdates
      \/ ReadConfig("lobby") \/ Restart \/ EnterRoom
      \/ UNCHANGED configVars
  BY DEF Next, vars, ConfigStep, JoiningStep, LoopStep, CloseStep, Environment, Over,
         Connect, JoinTimesOut, FirstMessage, TurnedAway, SpawnPlayer, SetupFails, PassOn,
         Misbehave, ExpectedPong, UnexpectedPong, ClientLeaves, SentAway, SendPing, TimeOut,
         HearShutdown, Unstall, WriteFrame, Echo, ReadOn, EchoTimesOut, FallSilent, Shutdown,
         Tick
<1> QED
  BY <1>1, <1>2, <1>3, <1>4, <1>5, <1>6

LEMMA LimitsInOrder ==
  ASSUME NEW c \in OrderedConfig
  PROVE  /\ c.ping_interval_secs \in Nat /\ c.response_time_limit_secs \in Nat
         /\ c.ping_interval_secs < c.response_time_limit_secs
<1>1. c \in [Key -> Nat] /\ Ordered(c)
  BY DEF OrderedConfig, VariableConfig
<1> QED
  BY <1>1, Keys DEF Ordered

LEMMA SessionLimits ==
  ASSUME ConfigOK
  PROVE  /\ pingInterval \in Nat /\ responseLimit \in Nat /\ pingInterval < responseLimit
         /\ responseLimit - pingInterval <= MaxAge
<1>1. held["player"] \in Tracked
  BY SessionAssumption DEF ConfigOK
<1> QED
  BY <1>1, LimitsInOrder DEF Tracked, pingInterval, responseLimit

-----------------------------------------------------------------------------
(* The session.  In the loop the oldest ping that is not answered is not   *)
(* younger than the response limit has been running less one interval, or  *)
(* too old to be told apart; as many pongs are expected as there are pings *)
(* without an answer.                                                      *)

OnTime ==
  /\ expected = Len(asked)
  /\ wait <= responseLimit /\ pingDue <= pingInterval
  /\ pingDue + stall >= 0
  /\ asked = <<>> => responseLimit - wait <= pingInterval - pingDue
  /\ asked # <<>> => \/ lag >= MaxAge
                     \/ responseLimit - wait <= lag + stall + pingInterval

SessionOK ==
  /\ place \in Place /\ ending \in Ending
  /\ wait \in Int /\ pingDue \in Int /\ expected \in Nat
  /\ stalled \in BOOLEAN /\ stopping \in BOOLEAN /\ subscribed \in BOOLEAN
  /\ mute \in BOOLEAN /\ cheated \in BOOLEAN /\ broken \in BOOLEAN
  /\ asked \in Seq(Nat) /\ stall \in Nat

Accused == /\ ending = "Protocol" => cheated \/ broken
           /\ place # "loop" => asked = <<>> /\ ~stalled
           /\ place = "loop" => OnTime

SessionInv == ConfigOK /\ SessionOK /\ Accused

LEMMA LagIsNat ==
  ASSUME asked \in Seq(Nat)
  PROVE  lag \in Nat
BY DEF lag

\* The limits of the session are those of its copy of the configuration.
LEMMA LimitsStay ==
  ASSUME held'["player"] = held["player"]
  PROVE  UNCHANGED <<pingInterval, responseLimit>>
BY DEF pingInterval, responseLimit

\* A session that leaves the loop, or ends, keeps no timer.
LEMMA LeavingStep ==
  ASSUME SessionInv, ConfigOK', Leave,
         place' \in {"entering", "frame", "gone"}, ending' \in Ending,
         stopping' \in BOOLEAN, mute' \in BOOLEAN,
         cheated' \in BOOLEAN, broken' \in BOOLEAN,
         ending' = "Protocol" => (cheated \/ broken)'
  PROVE  SessionInv'
<1>1. asked' = <<>> /\ asked' \in Seq(Nat)
  BY DEF Leave
<1>2. wait' \in Int /\ pingDue' \in Int /\ expected' \in Nat /\ stall' \in Nat
  BY DEF Leave
<1>3. stalled' \in BOOLEAN /\ subscribed' \in BOOLEAN /\ place' \in Place
  BY DEF Leave, Place
<1>4. SessionOK'
  BY <1>1, <1>2, <1>3 DEF SessionOK
<1>5. Accused'
  BY <1>1 DEF Accused, Leave
<1> QED
  BY <1>4, <1>5 DEF SessionInv

\* A step of the others, which leaves the session alone.
LEMMA OtherStep ==
  ASSUME SessionInv, ConfigOK',
         UNCHANGED <<held["player"], place, ending, timers, asked, stall, stalled, faults>>,
         stopping' \in BOOLEAN, subscribed' \in BOOLEAN, mute' \in BOOLEAN
  PROVE  SessionInv'
<1>1. UNCHANGED <<pingInterval, responseLimit, lag>>
  BY LimitsStay DEF lag
<1>2. OnTime => OnTime'
  BY <1>1 DEF OnTime, timers
<1>3. SessionOK'
  BY DEF SessionInv, SessionOK, timers, faults
<1>4. Accused'
  BY <1>2 DEF SessionInv, Accused, faults
<1> QED
  BY <1>3, <1>4 DEF SessionInv

LEMMA PongStep ==
  ASSUME SessionInv, ConfigOK', ExpectedPong
  PROVE  SessionInv'
<1>1. UNCHANGED <<pingInterval, responseLimit>> /\ place = "loop" /\ place' = "loop"
  BY LimitsStay DEF ExpectedPong, Polls, configVars, watchVars
<1>2. asked # <<>> /\ asked' = Tail(asked)
  BY DEF SessionInv, SessionOK, Accused, OnTime, ExpectedPong, Polls
<1>3. asked' \in Seq(Nat) /\ Len(asked') = Len(asked) - 1
  BY <1>2 DEF SessionInv, SessionOK
<1>4. PICK l \in Nat : lag' = l
  BY <1>3 DEF lag
<1>5. expected' = Len(asked') /\ expected' \in Nat
  BY <1>3, <1>1 DEF SessionInv, SessionOK, Accused, OnTime, ExpectedPong
<1>6. wait' = responseLimit /\ pingDue' = pingDue /\ stall' = stall
  BY DEF ExpectedPong
<1>7. responseLimit \in Nat /\ pingInterval \in Nat
  BY SessionLimits DEF SessionInv
<1>8. pingDue \in Int /\ stall \in Nat /\ pingDue <= pingInterval /\ pingDue + stall >= 0
  BY <1>1 DEF SessionInv, SessionOK, Accused, OnTime
<1>9. OnTime'
  <2>1. wait' <= responseLimit' /\ pingDue' <= pingInterval' /\ pingDue' + stall' >= 0
    BY <1>1, <1>6, <1>7, <1>8
  <2>2. responseLimit' - wait' <= pingInterval' - pingDue'
    BY <1>1, <1>6, <1>7, <1>8
  <2>3. responseLimit' - wait' <= lag' + stall' + pingInterval'
    BY <1>1, <1>4, <1>6, <1>7, <1>8
  <2> QED
    BY <1>5, <2>1, <2>2, <2>3 DEF OnTime
<1> QED
  BY <1>1, <1>3, <1>5, <1>6, <1>7, <1>9
  DEF SessionInv, SessionOK, Accused, ExpectedPong, signals, faults

LEMMA PingStep ==
  ASSUME SessionInv, ConfigOK', SendPing
  PROVE  SessionInv'
<1>1. UNCHANGED <<pingInterval, responseLimit>> /\ place = "loop" /\ place' = "loop"
  BY LimitsStay DEF SendPing, Polls, configVars, watchVars
<1>2. asked' \in Seq(Nat) /\ asked' # <<>> /\ expected' = Len(asked') /\ expected' \in Nat
  <2>1. expected = Len(asked) /\ asked \in Seq(Nat) /\ Len(asked) \in Nat
    BY <1>1 DEF SessionInv, SessionOK, Accused, OnTime
  <2>2. CASE OwesTooMany
    <3>1. UNCHANGED <<expected, asked>>
      BY <2>2 DEF SendPing, PingSent
    <3>2. asked # <<>>
      BY <2>1, <2>2, SessionAssumption DEF OwesTooMany
    <3> QED
      BY <2>1, <3>1, <3>2
  <2>3. CASE ~OwesTooMany
    BY <2>1, <2>3 DEF SendPing, PingSent
  <2> QED
    BY <2>2, <2>3
<1>3. lag' = lag
  <2>1. CASE UNCHANGED asked
    BY <2>1 DEF lag
  <2>2. CASE asked = <<>> /\ asked' = Append(asked, 0)
    BY <2>2 DEF lag
  <2>3. CASE asked # <<>> /\ asked' = Append(asked, 0)
    <3>1. Head(asked') = Head(asked)
      BY <2>3 DEF SessionInv, SessionOK
    <3> QED
      BY <1>2, <2>3, <3>1 DEF lag
  <2> QED
    BY <2>1, <2>2, <2>3 DEF SendPing, PingSent
<1>4. lag \in Nat /\ (asked = <<>> => lag = 0)
  BY LagIsNat DEF SessionInv, SessionOK, lag
<1>5. pingDue <= 0 /\ pingDue' = pingDue + pingInterval /\ UNCHANGED <<wait, stall>>
  BY DEF SendPing
<1>6. responseLimit \in Nat /\ pingInterval \in Nat
  BY SessionLimits DEF SessionInv
<1>7. wait \in Int /\ pingDue \in Int /\ stall \in Nat /\ OnTime
  BY <1>1 DEF SessionInv, SessionOK, Accused
<1>8. OnTime'
  <2>1. wait' <= responseLimit' /\ pingDue' <= pingInterval' /\ pingDue' + stall' >= 0
    BY <1>1, <1>5, <1>6, <1>7 DEF OnTime
  <2>2. lag' >= MaxAge \/ responseLimit' - wait' <= lag' + stall' + pingInterval'
    <3>1. CASE asked = <<>>
      BY <1>1, <1>3, <1>4, <1>5, <1>6, <1>7, <3>1 DEF OnTime
    <3>2. CASE asked # <<>>
      BY <1>1, <1>3, <1>5, <1>7, <3>2 DEF OnTime
    <3> QED
      BY <3>1, <3>2
  <2> QED
    BY <1>2, <2>1, <2>2 DEF OnTime
<1> QED
  BY <1>1, <1>2, <1>5, <1>6, <1>7, <1>8
  DEF SessionInv, SessionOK, Accused, SendPing, signals, faults

LEMMA FreshIntervals ==
  ASSUME ConfigOK', wait' = responseLimit', pingDue' = 0, stall' \in Nat,
         expected' = Len(asked'), asked' \in Seq(Nat)
  PROVE  OnTime' /\ wait' \in Int /\ pingDue' \in Int /\ expected' \in Nat
<1>1. held'["player"] \in OrderedConfig
  BY SessionAssumption DEF ConfigOK, Tracked
<1>2. PICK L \in Nat, P \in Nat : responseLimit' = L /\ pingInterval' = P
  BY <1>1, LimitsInOrder DEF pingInterval, responseLimit
<1>3. PICK l \in Nat : lag' = l
  BY DEF lag
<1>4. PICK s \in Nat : stall' = s
  OBVIOUS
<1>5. wait' <= responseLimit' /\ pingDue' <= pingInterval' /\ pingDue' + stall' >= 0
  BY <1>2, <1>4
<1>6. responseLimit' - wait' <= pingInterval' - pingDue'
  BY <1>2
<1>7. responseLimit' - wait' <= lag' + stall' + pingInterval'
  BY <1>2, <1>3, <1>4
<1>8. Len(asked') \in Nat
  OBVIOUS
<1>9. OnTime'
  BY <1>5, <1>6, <1>7 DEF OnTime
<1> QED
  BY <1>2, <1>8, <1>9

LEMMA RestartStep ==
  ASSUME SessionInv, ConfigOK', Restart
  PROVE  SessionInv'
<1>1. wait' = responseLimit'
  BY SessionAssumption DEF Restart, ReadConfig, responseLimit, SessionInv, ConfigOK
<1>2. expected' = Len(asked') /\ asked' \in Seq(Nat) /\ stall' \in Nat /\ pingDue' = 0
  BY DEF SessionInv, SessionOK, Accused, OnTime, Restart, Polls, history
<1> QED
  BY <1>1, <1>2, FreshIntervals
  DEF SessionInv, SessionOK, Accused, Restart, Polls, signals, history, faults

LEMMA EnterStep ==
  ASSUME SessionInv, ConfigOK', EnterRoom
  PROVE  SessionInv'
<1>1. wait' = responseLimit'
  BY SessionAssumption DEF EnterRoom, responseLimit, SessionInv, ConfigOK
<1>2. asked' = <<>> /\ expected' = Len(asked') /\ asked' \in Seq(Nat) /\ stall' \in Nat
      /\ pingDue' = 0
  BY DEF SessionInv, SessionOK, Accused, EnterRoom, history
<1> QED
  BY <1>1, <1>2, FreshIntervals
  DEF SessionInv, SessionOK, Accused, EnterRoom, signals, history, faults, Place

LEMMA TickStep ==
  ASSUME SessionInv, ConfigOK', Tick
  PROVE  SessionInv'
<1> PICK d \in Steps :
      /\ InTime(d)
      /\ stall' = IF stalled THEN stall + d ELSE stall
      /\ wait' = IF place \in {"joining", "loop", "echo"} THEN wait - d ELSE wait
      /\ pingDue' = IF place = "loop" THEN pingDue - d ELSE pingDue
      /\ asked' = IF place = "loop" THEN [i \in DOMAIN asked |-> Older(asked[i], d)] ELSE asked
      /\ UNCHANGED <<configVars, place, ending, expected, stalled, signals, mute, faults>>
  BY DEF Tick
<1>1. d \in Nat /\ d > 0 /\ MaxAge \in Nat
  BY SessionAssumption
<1>2. UNCHANGED <<pingInterval, responseLimit>>
  BY LimitsStay DEF configVars, watchVars
<1>3. asked' \in Seq(Nat) /\ Len(asked') = Len(asked) /\ (asked = <<>> <=> asked' = <<>>)
  <2>1. asked \in Seq(Nat) /\ Len(asked) \in Nat /\ DOMAIN asked = 1..Len(asked)
    BY DEF SessionInv, SessionOK
  <2>2. CASE place = "loop"
    <3>1. asked' = [i \in 1..Len(asked) |-> Older(asked[i], d)]
      BY <2>1, <2>2
    <3>2. \A i \in 1..Len(asked) : Older(asked[i], d) \in Nat
      BY <1>1, <2>1 DEF Older
    <3>3. asked' \in Seq(Nat) /\ Len(asked') = Len(asked)
      BY <2>1, <3>1, <3>2
    <3> QED
      BY <2>1, <3>3
  <2>3. CASE place # "loop"
    BY <2>1, <2>3
  <2> QED
    BY <2>2, <2>3
<1>4. wait' \in Int /\ pingDue' \in Int /\ stall' \in Nat
  BY <1>1 DEF SessionInv, SessionOK
<1>5. CASE place = "loop"
  <2>1. asked # <<>> => lag' = Older(lag, d)
    BY <1>1, <1>3, <1>5 DEF lag, SessionInv, SessionOK
  <2>2. lag \in Nat /\ responseLimit \in Nat /\ pingInterval \in Nat
    BY LagIsNat, SessionLimits DEF SessionInv, SessionOK
  <2>3. wait' = wait - d /\ pingDue' = pingDue - d
    BY <1>5
  <2>4. pingDue' + stall' >= 0
    <3>1. CASE stalled
      BY <1>1, <1>5, <2>3, <3>1 DEF SessionInv, SessionOK, Accused, OnTime
    <3>2. CASE ~stalled
      BY <1>1, <1>5, <2>3, <3>2 DEF SessionInv, SessionOK, InTime, Polls
    <3> QED
      BY <3>1, <3>2
  <2>5. stall' >= stall
    BY <1>1 DEF SessionInv, SessionOK
  <2>6. OnTime /\ wait \in Int /\ pingDue \in Int /\ stall \in Nat
    BY <1>5 DEF SessionInv, SessionOK, Accused
  <2>7. expected' = Len(asked')
    BY <1>3, <2>6 DEF OnTime
  <2>8. OnTime'
    <3>1. wait' <= responseLimit' /\ pingDue' <= pingInterval'
      BY <1>1, <1>2, <1>4, <2>2, <2>3, <2>6 DEF OnTime
    <3>2. asked' = <<>> => responseLimit' - wait' <= pingInterval' - pingDue'
      BY <1>1, <1>2, <1>3, <1>4, <2>2, <2>3, <2>6 DEF OnTime
    <3>3. ASSUME asked' # <<>>, ~(lag' >= MaxAge)
          PROVE  responseLimit' - wait' <= lag' + stall' + pingInterval'
      <4>1. PICK s \in Nat : stall' = s /\ s >= stall
        BY <1>4, <2>5
      <4>2. PICK L \in Nat, P \in Nat : L = responseLimit /\ P = pingInterval
        BY <2>2
      <4>3. PICK l \in Nat : l = lag
        BY <2>2
      <4>4. lag' = l + d /\ l < MaxAge
        BY <1>1, <1>3, <2>1, <3>3, <4>3 DEF Older
      <4>5. L - wait <= l + stall + P
        BY <1>1, <1>3, <2>6, <3>3, <4>2, <4>3, <4>4 DEF OnTime
      <4>6. L - (wait - d) <= (l + d) + s + P
        BY <1>1, <2>6, <4>1, <4>5
      <4> QED
        BY <1>1, <1>2, <2>3, <2>6, <4>1, <4>2, <4>4, <4>6
    <3> QED
      BY <2>4, <2>7, <3>1, <3>2, <3>3 DEF OnTime
  <2> QED
    BY <1>3, <1>4, <1>5, <2>8 DEF SessionInv, SessionOK, Accused, signals, faults
<1>6. CASE place # "loop"
  BY <1>3, <1>4, <1>6 DEF SessionInv, SessionOK, Accused, signals, faults
<1> QED
  BY <1>5, <1>6

LEMMA ConfigStepInv ==
  ASSUME SessionInv, ConfigOK', ConfigStep
  PROVE  SessionInv'
<1>1. held'["player"] = held["player"]
  BY SessionAssumption DEF ConfigStep, StartUpdates, EditFile, CheckFile, ReadConfig,
                           StopUpdates, watchVars, SessionInv, ConfigOK
<1> QED
  BY <1>1, OtherStep DEF ConfigStep, sessionVars, signals, history, SessionInv, SessionOK

LEMMA ConnectStep ==
  ASSUME SessionInv, ConfigOK', Connect
  PROVE  SessionInv'
<1>1. held["lobby"] \in [Key -> Nat]
  BY SessionAssumption DEF SessionInv, ConfigOK, Tracked, OrderedConfig, VariableConfig
<1>2. joinLimit \in Int
  BY <1>1, Keys DEF joinLimit
<1> QED
  BY <1>2 DEF SessionInv, SessionOK, Accused, Connect, signals, history, faults, Place

LEMMA SpawnStep ==
  ASSUME SessionInv, ConfigOK', SpawnPlayer
  PROVE  SessionInv'
<1>1. (~stopping) \in BOOLEAN
  BY Zenon DEF SessionInv, SessionOK
<1> QED
  BY <1>1 DEF SessionInv, SessionOK, Accused, SpawnPlayer, timers, history, faults, Place

LEMMA JoiningStepInv ==
  ASSUME SessionInv, ConfigOK', JoiningStep
  PROVE  SessionInv'
<1> USE DEF SessionInv, SessionOK, Accused, CloseWith, EndWith, Ending, faults
<1>1. CASE JoinTimesOut
  BY <1>1, LeavingStep DEF JoinTimesOut
<1>2. CASE FirstMessage
  BY <1>2, LeavingStep DEF FirstMessage, Misused, StreamBreaks
<1>3. CASE TurnedAway \/ SetupFails
  BY <1>3, LeavingStep DEF TurnedAway, SetupFails
<1> QED
  BY <1>1, <1>2, <1>3, ConnectStep, SpawnStep, EnterStep DEF JoiningStep

LEMMA StallStep ==
  ASSUME SessionInv, ConfigOK', place = "loop", stalled' \in BOOLEAN,
         UNCHANGED <<configVars, place, ending, timers, stopping, subscribed, mute, asked,
                     faults, stall>>
  PROVE  SessionInv'
<1>1. UNCHANGED <<pingInterval, responseLimit, lag>>
  BY LimitsStay DEF lag, configVars, watchVars
<1>2. OnTime => OnTime'
  BY <1>1 DEF OnTime, timers
<1>3. SessionOK'
  BY DEF SessionInv, SessionOK, timers, faults
<1>4. Accused'
  BY <1>2 DEF SessionInv, Accused, faults
<1> QED
  BY <1>3, <1>4 DEF SessionInv

LEMMA UnexpectedPongStep ==
  ASSUME SessionInv, ConfigOK', UnexpectedPong
  PROVE  SessionInv'
<1>1. asked = <<>>
  BY DEF SessionInv, SessionOK, Accused, OnTime, UnexpectedPong, Polls
<1>2. cheated' = TRUE /\ Leave /\ place' = "frame" /\ ending' = "Protocol"
      /\ UNCHANGED <<stopping, mute, broken>>
  BY <1>1 DEF UnexpectedPong, CloseWith
<1> QED
  BY <1>2, LeavingStep DEF SessionInv, SessionOK, Ending

LEMMA LoopStepInv ==
  ASSUME SessionInv, ConfigOK', LoopStep
  PROVE  SessionInv'
<1>1. CASE PassOn
  BY <1>1, StallStep DEF PassOn, Polls, signals, history
<1>2. CASE Unstall /\ stalled' = FALSE /\ UNCHANGED <<place, ending, timers, subscribed, asked, stall>>
  BY <1>2, StallStep DEF Unstall, SessionInv, Accused
<1> USE DEF SessionInv, SessionOK, Accused, CloseWith, EndWith, Ending, faults
<1>3. CASE Unstall /\ EndWith("Dropped")
  BY <1>3, LeavingStep DEF Unstall
<1>4. CASE Misbehave
  BY <1>4, LeavingStep DEF Misbehave, Misused
<1>5. CASE ClientLeaves
  BY <1>5, LeavingStep DEF ClientLeaves, StreamBreaks
<1>6. CASE SentAway
  BY <1>6, LeavingStep DEF SentAway
<1>7. CASE TimeOut
  BY <1>7, LeavingStep DEF TimeOut
<1>8. CASE HearShutdown
  BY <1>8, LeavingStep DEF HearShutdown
<1> QED
  BY <1>1, <1>2, <1>3, <1>4, <1>5, <1>6, <1>7, <1>8,
     PongStep, UnexpectedPongStep, PingStep, RestartStep DEF LoopStep, Unstall

LEMMA CloseStepInv ==
  ASSUME SessionInv, ConfigOK', CloseStep
  PROVE  SessionInv'
<1>1. CASE WriteFrame
  BY <1>1 DEF SessionInv, SessionOK, Accused, WriteFrame, signals, history, faults, Place,
              WAIT_FOR_CLOSE_ECHO
<1>2. CASE Echo \/ EchoTimesOut
  BY <1>2, LeavingStep DEF Echo, EchoTimesOut, EndWith, SessionInv, SessionOK, Accused, faults
<1>3. CASE ReadOn
  BY <1>3, OtherStep DEF ReadOn, vars, configVars, watchVars, sessionVars, signals, history,
                         faults, SessionInv, SessionOK
<1> QED
  BY <1>1, <1>2, <1>3 DEF CloseStep

LEMMA EnvironmentInv ==
  ASSUME SessionInv, ConfigOK', Environment
  PROVE  SessionInv'
<1>1. CASE FallSilent \/ Shutdown
  BY <1>1, OtherStep DEF FallSilent, Shutdown, configVars, watchVars, signals, history,
                         faults, SessionInv, SessionOK
<1> QED
  BY <1>1, TickStep DEF Environment
-----------------------------------------------------------------------------
(* The theorems.                                                           *)

LEMMA SessionInitInv ==
  ASSUME Init
  PROVE  SessionInv
<1>1. ConfigOK
  BY ConfigInitOK DEF Init
<1>2. asked \in Seq(Nat) /\ wait \in Int /\ pingDue \in Int /\ expected \in Nat /\ stall \in Nat
  BY DEF Init
<1>3. SessionOK
  BY <1>2 DEF Init, SessionOK, Place, Ending
<1> QED
  BY <1>1, <1>3 DEF Init, SessionInv, Accused

LEMMA SessionStepInv ==
  ASSUME SessionInv, [Next]_vars
  PROVE  SessionInv'
<1>1. ConfigOK'
  BY ConfigNextOK DEF SessionInv
<1>2. CASE UNCHANGED vars
  BY <1>1, <1>2, OtherStep DEF vars, configVars, watchVars, sessionVars, signals, history,
                               SessionInv, SessionOK
<1> QED
  BY <1>1, <1>2, ConfigStepInv, JoiningStepInv, LoopStepInv, CloseStepInv, EnvironmentInv
  DEF Next, Over

\* The inductive invariant: in the loop the timers, the pings without an answer
\* and the pongs that are expected agree.
THEOREM SessionInvariant == Spec => []SessionInv
<1>1. Init => SessionInv
  BY SessionInitInv
<1>2. SessionInv /\ [Next]_vars => SessionInv'
  BY SessionStepInv
<1> QED
  BY <1>1, <1>2, PTL DEF Spec

\* The type invariant: whatever is written to the file, no task works with time
\* limits in the wrong order, and no interval is further from its tick than its period.
THEOREM SessionTypes == Spec => []SessionTypeOK
<1>1. SessionInv => SessionTypeOK
  BY CandidateAssumption, DefaultIsOrdered
  DEF SessionInv, SessionTypeOK, ConfigOK, Tracked, OrderedConfig, SessionOK, Accused, OnTime
<1> QED
  BY <1>1, SessionInvariant, PTL

\* CloseCode::Protocol is given only to a client that sent a ping, or more pongs
\* than it was asked for, or whose stream failed: the count of expected pongs is
\* right through every restart of the intervals.
THEOREM NobodyIsFramed == Spec => []ProtocolCloseIsFounded
<1>1. SessionInv => ProtocolCloseIsFounded
  BY DEF SessionInv, Accused, ProtocolCloseIsFounded
<1> QED
  BY <1>1, SessionInvariant, PTL

LEMMA OnlyTimeOutTimesOut ==
  ASSUME [Next]_vars, ending # "TimedOut", ending' = "TimedOut"
  PROVE  TimeOut
BY DEF Next, vars, ConfigStep, sessionVars, JoiningStep, LoopStep, CloseStep, Environment,
       Over, Connect, JoinTimesOut, FirstMessage, TurnedAway, SpawnPlayer, EnterRoom,
       SetupFails, PassOn, Misbehave,
       ExpectedPong, UnexpectedPong, ClientLeaves, SentAway, SendPing, Restart,
       HearShutdown, Unstall, WriteFrame, Echo, ReadOn, EchoTimesOut, FallSilent, Shutdown,
       Tick, CloseWith, EndWith

LEMMA TimeOutIsLate ==
  ASSUME SessionInv, TimeOut
  PROVE  responseLimit > pingInterval /\ lag + stall >= responseLimit - pingInterval
<1>1. OnTime /\ wait <= 0
  BY DEF SessionInv, Accused, TimeOut, Polls
<1>2. /\ pingInterval \in Nat /\ responseLimit \in Nat /\ pingInterval < responseLimit
      /\ responseLimit - pingInterval <= MaxAge /\ MaxAge \in Nat
  BY SessionLimits, SessionAssumption DEF SessionInv
<1>3. wait \in Int /\ pingDue \in Int /\ stall \in Nat /\ asked \in Seq(Nat)
  BY DEF SessionInv, SessionOK
<1>4. lag \in Nat /\ (asked = <<>> => lag = 0)
  BY <1>3, LagIsNat DEF lag
<1>5. CASE asked = <<>>
  BY <1>1, <1>2, <1>3, <1>4, <1>5 DEF OnTime
<1>6. CASE asked # <<>>
  BY <1>1, <1>2, <1>3, <1>4, <1>6 DEF OnTime
<1> QED
  BY <1>5, <1>6

\* Nobody times out who answers each ping within the response limit less one
\* interval, the seconds that the task itself was held up apart; for every
\* configuration, and every sequence of reconfigurations.
THEOREM TimeoutsAreEarned == Spec => TimeoutIsEarned
<1>1. SessionInv /\ [Next]_vars =>
        [ending # "TimedOut" /\ ending' = "TimedOut" =>
           /\ responseLimit > pingInterval
           /\ lag + stall >= responseLimit - pingInterval]_vars
  BY OnlyTimeOutTimesOut, TimeOutIsLate
<1> QED
  BY <1>1, SessionInvariant, PTL DEF TimeoutIsEarned, Spec
=============================================================================
