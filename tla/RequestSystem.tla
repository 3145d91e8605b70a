---------------------------- MODULE RequestSystem ---------------------------
(***************************************************************************)
(* A text message from its arrival to its answer: parsed by the task that  *)
(* serves the client (src/player/joining.rs, src/player/in_room.rs), then  *)
(* handled by the lobby.  A client that hosts a room is told its code,     *)
(* which another client then sends to join it.                             *)
(***************************************************************************)
EXTENDS PlayerRequests

CONSTANTS
  Texts \* the messages that arrive

ASSUME TextAssumption == Texts \subseteq Seq(Token)

VARIABLES
  turn,    \* "read", "act", "draw", "told" or "over"
  in_room, \* PlayerInRoom serves the client, not PlayerJoining
  text, request,
  answer,  \* what comes of it: a close code, or where the request goes
  invited  \* history: the text is what the host of a room was told

messageVars == <<turn, in_room, text, request, answer, invited>>
vars == <<codeVars, messageVars>>

Init ==
  /\ CodesInit
  /\ turn = "read"
  /\ in_room \in BOOLEAN
  /\ text \in Texts
  /\ request = Err("none") /\ answer = <<>>
  /\ invited = FALSE

Read ==
  /\ turn = "read"
  /\ request' = parse_player_request(text)
  /\ turn' = "act"
  /\ UNCHANGED <<codeVars, in_room, text, answer, invited>>

Answer(a) ==
  /\ answer' = a /\ turn' = "over"
  /\ UNCHANGED <<in_room, text, request, invited>>

Close(close_code) == Answer(<<"close", close_code>>)

\* Both tasks close the connection when the text cannot be parsed.
Refuse ==
  /\ turn = "act" /\ request.kind = "Err"
  /\ Close(parse_error_to_close_code(request.error))
  /\ UNCHANGED codeVars

\* PlayerJoining passes Host and Join to the lobby, and nothing else.
NotInRoom ==
  /\ turn = "act" /\ ~in_room /\ request.kind \in {"Seal", "Send"}
  /\ Close(CustomCloseCode.NotInRoom)
  /\ UNCHANGED codeVars

\* PlayerInRoom passes the others to the room, and nothing else.
AlreadyInRoom ==
  /\ turn = "act" /\ in_room /\ request.kind \in {"Host", "Join"}
  /\ Close(CustomCloseCode.AlreadyInRoom)
  /\ UNCHANGED codeVars

ToRoom ==
  /\ turn = "act" /\ in_room /\ request.kind \in {"Seal", "Send"}
  /\ Answer(<<"to the room">>)
  /\ UNCHANGED codeVars

\* The lobby, LobbyCommand::JoinRoom.
JoinRoom ==
  /\ turn = "act" /\ ~in_room /\ request.kind = "Join"
  /\ IF from_be_bytes(request.room_code) \in roomMap
     THEN Answer(<<"joined">>)
     ELSE Close(CustomCloseCode.RoomDoesNotExist)
  /\ UNCHANGED codeVars

\* The lobby, LobbyCommand::CreateRoom.
CreateRoom ==
  /\ turn = "act" /\ ~in_room /\ request.kind = "Host"
  /\ \/ /\ BeginDraw
        /\ turn' = "draw"
        /\ UNCHANGED <<in_room, text, request, answer, invited>>
     \/ /\ Cardinality(roomMap) >= MaxRooms
        /\ Close(CustomCloseCode.TooManyRooms)
        /\ UNCHANGED codeVars

DrawCode ==
  /\ turn = "draw"
  /\ DrawStep
  /\ UNCHANGED messageVars

\* The host is sent J: and the code of the room.
TellHost ==
  /\ turn = "draw" /\ draw = "open"
  /\ turn' = "told"
  /\ UNCHANGED <<codeVars, in_room, text, request, answer, invited>>

\* It passes the code on, and another client joins with it; or the next one hosts.
Invite ==
  /\ turn = "told"
  /\ turn' = "read" /\ in_room' = FALSE
  /\ \/ text' = <<J, Space, code, Newline>> /\ invited' = TRUE
     \/ text' = <<J, Space, Newline>> /\ invited' = FALSE
  /\ UNCHANGED <<codeVars, request, answer>>

Over == turn = "over" /\ UNCHANGED vars

Next ==
  \/ Read \/ Refuse \/ NotInRoom \/ AlreadyInRoom \/ ToRoom \/ JoinRoom \/ CreateRoom
  \/ DrawCode \/ TellHost \/ Invite \/ Over

\* A code that nothing is to be said against.
Fit(c) ==
  /\ from_be_bytes(c) \notin roomMap
  /\ \A i \in DOMAIN Profanity : Profanity[i] # c

\* The lobby's loop runs by itself; random does not draw unfit codes for ever.
Spec == Init /\ [][Next]_vars
FairSpec == Spec /\ WF_vars(DrawCode) /\ SF_vars(Draw /\ Fit(code') /\ UNCHANGED messageVars)
-----------------------------------------------------------------------------
\* Every variable has its type: the search stays within the list, and every key
\* of room_map is the integer of a code that can be drawn.
RequestTypeOK ==
  /\ turn \in {"read", "act", "draw", "told", "over"}
  /\ in_room \in BOOLEAN /\ invited \in BOOLEAN
  /\ draw \in {"idle", "draw", "search", "open"}
  /\ code \in Bytes
  /\ left \in 0..get_profanity_len /\ right \in -1..get_profanity_len - 1
  /\ \A n \in roomMap : to_be_bytes(n) \in RoomCode

\* The requests that a text is the written form of, read from left to right.
Readings(t) ==
  (IF t = <<J, Space, Newline>> THEN {Host} ELSE {})
  \cup (IF t = <<S, Space, Newline>> THEN {Seal} ELSE {})
  \cup {Join(c) : c \in {d \in ToSet(t) : d \in [1..4 -> 65..90]
                                         /\ t = <<J, Space, d, Newline>>}}
  \cup LET Ends == {k \in 4..Len(t) - 1 :
                     /\ t[1] \in SendCommand /\ t[2] = Space /\ t[k] = Newline
                     /\ IsPlayerID(SubSeq(t, 3, k - 1))}
       IN {Send(t[1], PlayerID(SubSeq(t, 3, k - 1)), SubSeq(t, k + 1, Len(t))) : k \in Ends}

\* A text is accepted exactly when it is the written form of a request, and as
\* that request: a payload keeps every line and space, and none is lost or made up.
TextsAreRead ==
  turn = "act" => Readings(text) = IF request.kind = "Err" THEN {} ELSE {request}

\* A client that sends back what the host of a room was told gets into that room:
\* what random draws, what Display writes, what the parser accepts and the integer
\* under which the lobby keeps the room fit together.
InvitesAreUnderstood == invited /\ turn = "over" => answer = <<"joined">>

\* While the list is searched, the code is nowhere in the part that was left out.
SearchNarrows ==
  draw = "search" =>
    \A i \in 0..get_profanity_len - 1 :
      get_profanity_at(i) = code => left <= i /\ i <= right

\* A room is never opened under a code that is in use, or that is profanity.
OpenedCodesAreFit ==
  [][draw = "search" /\ draw' = "open" => Fit(code)]_vars

\* The lobby, which serves nobody meanwhile, does find a code.
DrawEnds == draw \in {"draw", "search"} ~> draw = "open"
=============================================================================
