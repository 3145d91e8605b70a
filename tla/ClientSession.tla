---------------------------- MODULE ClientSession ---------------------------
(***************************************************************************)
(* One client's connection in time: PlayerJoining::task with its time      *)
(* limit, PlayerInRoom::task with its two intervals (ping, response limit) *)
(* and the configuration that starts both anew, send_close with its wait   *)
(* for the echo (src/player/).                                             *)
(*                                                                         *)
(* Time passes in steps, in seconds, and never past the moment at which a  *)
(* timer of a task that waits for it is due.  A message of the client is   *)
(* one action, in which it is read: how long it was under way is part of   *)
(* how long the client took.  While stalled the task is inside a branch of *)
(* its select!, in a send to the room or to the socket, and polls nothing. *)
(***************************************************************************)
EXTENDS ServerConfig, Integers, Sequences

CONSTANTS
  Steps,    \* the seconds that may pass at once
  MaxStall, \* bound: seconds a session spends stalled
  MaxOwed,  \* bound: a client that owes more pongs sends none any more
  MaxAge    \* bound: pings that are older are not told apart

ASSUME SessionAssumption ==
  /\ Reader = {"lobby", "player"}
  /\ Steps \subseteq Nat \ {0}
  /\ MaxStall \in Nat
  /\ MaxOwed \in Nat
  /\ MaxAge \in Nat

\* The ages that are told apart are those that a client must stay below.
ASSUME AgeAssumption ==
  \A c \in {DefaultConfig} \cup {c \in Candidates : validate(c)} :
    c.response_time_limit_secs - c.ping_interval_secs <= MaxAge

VARIABLES
  place,      \* "away", "joining", "entering", "setup", "loop", "frame", "echo", "gone"
  ending,     \* the close code, or what else ended the session
  wait,       \* until the time limit of the place is reached
  pingDue,    \* until ping_interval ticks, less than 0 for a tick that is late
  expected,   \* num_expected_pongs
  stalled,
  stopping,   \* the shutdown signal was sent
  subscribed, \* shutdown_signal was subscribed before that
  mute,       \* history: the client sends no pong any more
  asked,      \* history: the ages of the pings that are not answered
  cheated,    \* history: the client sent a pong that nothing asked for, or a ping
  broken,     \* history: the stream failed with a Tls, Protocol or Http error
  stall       \* history: seconds spent stalled

timers == <<wait, pingDue, expected>>
signals == <<stopping, subscribed>>
faults == <<cheated, broken>>
history == <<mute, asked, faults, stall>>
sessionVars == <<place, ending, timers, stalled, signals, history>>
vars == <<configVars, sessionVars>>

Place == {"away", "joining", "entering", "setup", "loop", "frame", "echo", "gone"}
Ending == {"none", "DidNotJoinRoom", "NotInRoom", "AlreadyInRoom", "Protocol",
           "Rejected", "RoomEnds", "TimedOut", "Dropped", "Stopped"}

WAIT_FOR_CLOSE_ECHO == 5

joinLimit == held["lobby"].join_room_time_limit_secs
pingInterval == held["player"].ping_interval_secs
responseLimit == held["player"].response_time_limit_secs

Init ==
  /\ ConfigInit
  /\ place = "away" /\ ending = "none"
  /\ wait = 0 /\ pingDue = 0 /\ expected = 0
  /\ stalled = FALSE /\ stopping = FALSE /\ subscribed = FALSE
  /\ mute = FALSE /\ asked = <<>> /\ cheated = FALSE /\ broken = FALSE
  /\ stall = 0

\* The locals of a task go with it.
Leave ==
  /\ wait' = 0 /\ pingDue' = 0 /\ expected' = 0
  /\ stalled' = FALSE /\ subscribed' = FALSE
  /\ asked' = <<>> /\ stall' = 0

\* close_connection!, or what the lobby does with a command that closes: the
\* stream goes to a send_close task.
CloseWith(code) == Leave /\ place' = "frame" /\ ending' = code

\* drop_connection!, or the end of the task: the stream is dropped.
EndWith(reason) == Leave /\ place' = "gone" /\ ending' = reason
-----------------------------------------------------------------------------
(* Until the client is in a room.                                          *)

\* The lobby spawns PlayerJoining with its own copy of the limit.
Connect ==
  /\ place = "away" /\ ~stopping /\ updater # "starting"
  /\ place' = "joining"
  /\ wait' = joinLimit
  /\ UNCHANGED <<configVars, ending, pingDue, expected, stalled, signals, history>>

JoinTimesOut ==
  /\ place = "joining" /\ wait <= 0
  /\ CloseWith("DidNotJoinRoom")
  /\ UNCHANGED <<configVars, stopping, mute, faults>>

\* A ping, or a pong that nothing asked for.
Misused == cheated' = TRUE /\ UNCHANGED broken

\* websocket_error_to_close_code makes CloseCode::Protocol of a Tls, Protocol or
\* Http error, as when the stream ends without a closing handshake.
StreamBreaks == broken' = TRUE /\ UNCHANGED cheated

\* The first message, which is the only one that PlayerJoining reads.
FirstMessage ==
  /\ place = "joining"
  /\ \/ /\ Leave /\ place' = "entering"
        /\ UNCHANGED <<ending, faults>>
     \/ /\ \E code \in {"NotInRoom", "Rejected"} : CloseWith(code)
        /\ UNCHANGED faults
     \/ /\ CloseWith("Protocol")
        /\ Misused \/ StreamBreaks
     \/ /\ EndWith("Dropped")
        /\ UNCHANGED faults
  /\ UNCHANGED <<configVars, stopping, mute>>

\* The room takes the client in: PlayerInRoom::task is spawned, with a receiver
\* that only hears a shutdown signal sent from now on (resubscribe).
SpawnPlayer ==
  /\ place = "entering"
  /\ place' = "setup"
  /\ subscribed' = ~stopping
  /\ UNCHANGED <<configVars, ending, timers, stalled, stopping, history>>

\* PlayerInRoom::task begins: the room details are written, the configuration
\* is read as it stands, the first tick of the ping interval is due at once.
EnterRoom ==
  /\ place = "setup"
  /\ place' = "loop"
  /\ held' = [held EXCEPT !["player"] = published]
  /\ unread' = unread \ {"player"}
  /\ wait' = published.response_time_limit_secs
  /\ pingDue' = 0 /\ expected' = 0
  /\ UNCHANGED <<file, published, updater, ending, stalled, signals, history>>

\* The room details cannot be written.
SetupFails ==
  /\ place = "setup"
  /\ EndWith("Dropped")
  /\ UNCHANGED <<configVars, stopping, mute, faults>>

\* The lobby or the room has no place for the client, or is gone.
TurnedAway ==
  /\ place = "entering"
  /\ CloseWith("Rejected") \/ EndWith("Dropped")
  /\ UNCHANGED <<configVars, stopping, mute, faults>>

Polls == place = "loop" /\ ~stalled

\* A valid request goes to the room, whose channel may be full, or a
\* notification to the client, whose socket may be.
PassOn ==
  /\ Polls
  /\ stalled' = TRUE
  /\ UNCHANGED <<configVars, place, ending, timers, signals, history>>

\* Host and Join, messages that cannot be parsed, binary messages, pings.
Misbehave ==
  /\ Polls
  /\ \/ /\ \E code \in {"AlreadyInRoom", "Rejected"} : CloseWith(code)
        /\ UNCHANGED faults
     \/ /\ CloseWith("Protocol")
        /\ Misused
  /\ UNCHANGED <<configVars, stopping, mute>>

\* Bound: the client does not answer any more.
OwesTooMany == Len(asked) > MaxOwed

\* Mutant: the response limit runs on.
PongUnnoticed ==
  /\ Polls /\ ~mute /\ ~OwesTooMany
  /\ expected > 0
  /\ expected' = expected - 1
  /\ asked' = IF asked = <<>> THEN asked ELSE Tail(asked)
  /\ UNCHANGED <<configVars, place, ending, wait, pingDue, stalled, signals, mute,
                 faults, stall>>

\* timeout_interval.reset_immediately() and its first tick.
ExpectedPong ==
  /\ Polls /\ ~mute /\ ~OwesTooMany
  /\ expected > 0
  /\ expected' = expected - 1
  /\ wait' = responseLimit
  /\ asked' = IF asked = <<>> THEN asked ELSE Tail(asked)
  /\ UNCHANGED <<configVars, place, ending, pingDue, stalled, signals, mute,
                 faults, stall>>

UnexpectedPong ==
  /\ Polls /\ ~mute /\ ~OwesTooMany
  /\ expected = 0
  /\ CloseWith("Protocol")
  /\ cheated' = (cheated \/ asked = <<>>)
  /\ UNCHANGED <<configVars, stopping, mute, broken>>

\* A close message, an error or the end of the stream.
ClientLeaves ==
  /\ Polls
  /\ \/ /\ EndWith("Dropped") \/ CloseWith("Rejected")
        /\ UNCHANGED faults
     \/ /\ CloseWith("Protocol")
        /\ StreamBreaks
  /\ UNCHANGED <<configVars, stopping, mute>>

\* The room is sealed, its host has left, the player is kicked.
SentAway ==
  /\ Polls
  /\ CloseWith("RoomEnds")
  /\ UNCHANGED <<configVars, stopping, mute, faults>>

PingSent ==
  IF OwesTooMany
  THEN UNCHANGED <<expected, asked>>
  ELSE expected' = expected + 1 /\ asked' = Append(asked, 0)

\* Mutant: the response limit counts from the last ping.
SendPingAndWait ==
  /\ Polls /\ pingDue <= 0
  /\ pingDue' = pingDue + pingInterval
  /\ wait' = responseLimit
  /\ PingSent
  /\ stalled' \in BOOLEAN
  /\ UNCHANGED <<configVars, place, ending, signals, mute, faults, stall>>

\* MissedTickBehavior::Burst: after a late tick the next one is not later.
SendPing ==
  /\ Polls /\ pingDue <= 0
  /\ pingDue' = pingDue + pingInterval
  /\ PingSent
  /\ stalled' \in BOOLEAN
  /\ UNCHANGED <<configVars, place, ending, wait, signals, mute, faults, stall>>

TimeOut ==
  /\ Polls /\ wait <= 0
  /\ EndWith("TimedOut")
  /\ UNCHANGED <<configVars, stopping, mute, faults>>

\* Mutant: the pongs that are expected are forgotten with the old interval.
RestartAll ==
  /\ Polls /\ ReadConfig("player")
  /\ wait' = published.response_time_limit_secs
  /\ pingDue' = 0 /\ expected' = 0
  /\ UNCHANGED <<place, ending, stalled, signals, history>>

\* Both intervals are made anew, the ping's first tick is due at once.
Restart ==
  /\ Polls /\ ReadConfig("player")
  /\ wait' = published.response_time_limit_secs
  /\ pingDue' = 0
  /\ UNCHANGED <<place, ending, expected, stalled, signals, history>>

HearShutdown ==
  /\ Polls /\ stopping /\ subscribed
  /\ EndWith("Stopped")
  /\ UNCHANGED <<configVars, stopping, mute, faults>>

\* The send completes and the loop goes on, or it fails and the task ends.
Unstall ==
  /\ stalled
  /\ \/ /\ stalled' = FALSE
        /\ UNCHANGED <<place, ending, timers, subscribed, asked, stall>>
     \/ EndWith("Dropped")
  /\ UNCHANGED <<configVars, stopping, mute, faults>>

WriteFrame ==
  /\ place = "frame"
  /\ \/ place' = "echo" /\ wait' = WAIT_FOR_CLOSE_ECHO
     \/ place' = "gone" /\ UNCHANGED wait
  /\ UNCHANGED <<configVars, ending, pingDue, expected, stalled, signals, history>>

\* A close frame, an error or the end of the stream.
Echo ==
  /\ place = "echo"
  /\ EndWith(ending)
  /\ UNCHANGED <<configVars, stopping, mute, faults>>

\* Mutant: the time limit is one for each message.
ReadOnAnew ==
  /\ place = "echo"
  /\ wait' = WAIT_FOR_CLOSE_ECHO
  /\ UNCHANGED <<configVars, place, ending, pingDue, expected, stalled, signals, history>>

\* Any other message is read and ignored.
ReadOn ==
  /\ place = "echo"
  /\ UNCHANGED vars

EchoTimesOut ==
  /\ place = "echo" /\ wait <= 0
  /\ EndWith(ending)
  /\ UNCHANGED <<configVars, stopping, mute, faults>>

FallSilent ==
  /\ place # "away" /\ ~mute
  /\ mute' = TRUE
  /\ UNCHANGED <<configVars, place, ending, timers, stalled, signals, asked,
                 faults, stall>>

Shutdown ==
  /\ ~stopping
  /\ stopping' = TRUE
  /\ UNCHANGED <<configVars, place, ending, timers, stalled, subscribed, history>>

\* A timer of a task that waits is not late.
InTime(d) ==
  /\ place \in {"joining", "loop", "echo"} /\ ~stalled => d <= wait
  /\ Polls => d <= pingDue /\ "player" \notin unread /\ ~(stopping /\ subscribed)

Older(age, d) == IF age + d > MaxAge THEN MaxAge ELSE age + d

Tick ==
  \E d \in Steps :
    /\ place \notin {"away", "gone"}
    /\ InTime(d)
    /\ stalled => stall + d <= MaxStall
    /\ stall' = IF stalled THEN stall + d ELSE stall
    /\ wait' = IF place \in {"joining", "loop", "echo"} THEN wait - d ELSE wait
    /\ pingDue' = IF place = "loop" THEN pingDue - d ELSE pingDue
    /\ asked' = IF place = "loop" THEN [i \in DOMAIN asked |-> Older(asked[i], d)] ELSE asked
    /\ UNCHANGED <<configVars, place, ending, expected, stalled, signals, mute, faults>>
-----------------------------------------------------------------------------
ConfigStep ==
  /\ \/ StartUpdates(stopping) \/ EditFile \/ CheckFile \/ ReadConfig("lobby")
     \/ stopping /\ StopUpdates
  /\ UNCHANGED sessionVars

JoiningStep ==
  \/ Connect \/ JoinTimesOut \/ FirstMessage \/ TurnedAway
  \/ SpawnPlayer \/ EnterRoom \/ SetupFails
LoopStep ==
  \/ PassOn \/ Misbehave \/ ExpectedPong \/ UnexpectedPong \/ ClientLeaves
  \/ SentAway \/ SendPing \/ TimeOut \/ Restart \/ HearShutdown \/ Unstall
CloseStep == WriteFrame \/ Echo \/ ReadOn \/ EchoTimesOut
Environment == FallSilent \/ Shutdown \/ Tick

\* Nobody connects, or the session is over.
Over == place \in {"away", "gone"} /\ UNCHANGED vars

Next == ConfigStep \/ JoiningStep \/ LoopStep \/ CloseStep \/ Environment \/ Over

\* The branches that are ready by themselves, whatever the client does.
SelfDriven == SendPing \/ TimeOut \/ Restart \/ HearShutdown

\* select! polls its branches in random order: the client's messages cannot keep
\* the other branches from being taken for ever.  A send completes or fails at
\* last, the lobby and the room answer, time passes.
Fairness ==
  /\ WF_vars((StartUpdates(stopping) \/ CheckFile) /\ UNCHANGED sessionVars)
  /\ WF_vars(ReadConfig("lobby") /\ UNCHANGED sessionVars)
  /\ SF_vars(Tick) /\ SF_vars(SelfDriven)
  /\ WF_vars(Unstall)
  /\ WF_vars(JoinTimesOut)
  /\ WF_vars(SpawnPlayer \/ TurnedAway) /\ WF_vars(EnterRoom \/ SetupFails)
  /\ WF_vars(WriteFrame) /\ WF_vars(EchoTimesOut)

Spec == Init /\ [][Next]_vars
FairSpec == Spec /\ Fairness
-----------------------------------------------------------------------------
\* The order of the time limits that the tasks rely on.
Ordered(c) ==
  /\ c.join_room_time_limit_secs < c.ping_interval_secs
  /\ c.ping_interval_secs < c.response_time_limit_secs

OrderedConfig == {c \in VariableConfig : Ordered(c)}

\* Every variable has its type; in particular no task ever works with time
\* limits in the wrong order, whatever was written to the file, and an interval
\* is never further from its next tick than its period.
SessionTypeOK ==
  /\ published \in OrderedConfig /\ held \in [Reader -> OrderedConfig]
  /\ file \in VariableConfig \cup {Unreadable}
  /\ unread \subseteq Reader /\ updater \in {"starting", "running", "deaf", "stopped"}
  /\ place \in Place /\ ending \in Ending
  /\ wait \in Int /\ pingDue \in Int /\ expected \in Nat
  /\ stalled \in BOOLEAN /\ stopping \in BOOLEAN /\ subscribed \in BOOLEAN
  /\ mute \in BOOLEAN /\ cheated \in BOOLEAN /\ broken \in BOOLEAN
  /\ asked \in Seq(Nat) /\ stall \in Nat
  /\ place = "loop" => wait <= responseLimit /\ pingDue <= pingInterval

\* CloseCode::Protocol is given for a reason: the client sent a ping, or more pongs
\* than it was asked for, or its stream failed.  A client that does nothing but
\* answer its pings is not closed for one pong too many, however often the
\* configuration has restarted the intervals while pings were unanswered.
ProtocolCloseIsFounded == ending = "Protocol" => cheated \/ broken

\* How long the oldest ping that is not answered was sent ago.
lag == IF asked = <<>> THEN 0 ELSE Head(asked)

\* A client is dropped for its silence only after it has left a ping without an
\* answer for response_time_limit - ping_interval, which is more than nothing.
\* This is what a client can rely on, not the response time limit itself.  The
\* seconds that the task itself was held up are the client's loss.
TimeoutIsEarned ==
  [][ending # "TimedOut" /\ ending' = "TimedOut" =>
       /\ responseLimit > pingInterval
       /\ lag + stall >= responseLimit - pingInterval]_vars

\* A file that is good and stays so reaches every task that still listens,
\* whatever broken or outdated versions were seen or missed on the way.
ReadersCatchUp ==
  \A r \in Reader :
    <>[][UNCHANGED file]_vars =>
      (<>[](Readable(file) /\ ~stopping /\ (r = "player" => place = "loop")) =>
         <>[](held[r] = file))

\* A client that sends no more pongs is dropped or closed, however many requests
\* it goes on sending and however many pings are sent to it, once the
\* configuration changes no more.  Each change starts the response limit anew:
\* changes that come sooner than the limit, as they can when it is longer than the
\* 30 seconds of CONFIG_UPDATE_INTERVAL, keep such a client for ever.  (What is
\* mute stays mute and what is gone stays gone: this is mute ~> place = "gone".)
MuteClientIsDropped ==
  <>[][UNCHANGED published]_vars => []<>(mute => place = "gone")

\* A connection that is being closed is gone at last, also when the client
\* answers the close frame with other messages for ever.  (What has
\* left send_close never comes back to it: this is the same as ~> place = "gone".)
ClosingEnds == []<>(place \notin {"frame", "echo"})
=============================================================================
