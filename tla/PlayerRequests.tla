--------------------------- MODULE PlayerRequests ---------------------------
(***************************************************************************)
(* What a text message asks for: parse_player_request and the close codes  *)
(* of its errors (src/player/mod.rs, src/close_code.rs).                   *)
(*                                                                         *)
(* A text is a sequence of tokens.  A token of four bytes is the tuple of  *)
(* them, as a room code is; any other is the tuple of its name alone.      *)
(***************************************************************************)
EXTENDS RoomCodes, SequencesExt

CONSTANTS
  Name,       \* the names of the tokens that are not four bytes long
  Digit,      \* a function: the tokens that are one digit, and their values
  MaxPlayerID \* the largest PlayerID, 2^32 - 1 in the program

J == <<"J:">>
S == <<"S:">>
O == <<"O:">>
A == <<"A:">>
C == <<"C:">>
Plus == <<"+">>
Space == <<" ">>
Newline == <<"\n">>

Token == Bytes \cup {<<name>> : name \in Name}

ASSUME RequestAssumption ==
  /\ {"J:", "S:", "O:", "A:", "C:", "+", " ", "\n"} \subseteq Name
  /\ \A d \in DOMAIN Digit : Digit[d] \in 0..9
  /\ {Plus, Space, Newline} \cap DOMAIN Digit = {}
  /\ MaxPlayerID \in Nat

SendCommand == {O, A, C}
-----------------------------------------------------------------------------
\* PlayerRequest
Host == [kind |-> "Host"]
Join(room_code) == [kind |-> "Join", room_code |-> room_code]
Seal == [kind |-> "Seal"]
Send(command, player_id, payload) ==
  [kind |-> "Send", command |-> command, player_id |-> player_id, payload |-> payload]

\* ParseError
Err(e) == [kind |-> "Err", error |-> e]

\* Mutant: the text is split at its last newline.
LastOf(text, token) == SelectLastInSeq(text, LAMBDA t : t = token)

\* str::split_once: what is before the first such token and what is after it;
\* index is 0 when there is none.
FirstOf(text, token) == SelectInSeq(text, LAMBDA t : t = token)
Before(text, index) == SubSeq(text, 1, index - 1)
After(text, index) == SubSeq(text, index + 1, Len(text))

\* RoomCode::try_from(&str), which is only asked about four bytes.
IsRoomCode(argument) ==
  Len(argument) = 1 /\ Len(argument[1]) = 4 /\ valid_bytes(argument[1])

\* str::parse::<PlayerID>: a sign may come before the digits.
Digits(argument) ==
  IF argument # <<>> /\ Head(argument) = Plus THEN Tail(argument) ELSE argument
Decimal(digits) == FoldLeft(LAMBDA n, d : 10 * n + Digit[d], 0, digits)
PlayerID(argument) == Decimal(Digits(argument))
IsPlayerID(argument) ==
  /\ Digits(argument) # <<>>
  /\ \A i \in DOMAIN Digits(argument) : Digits(argument)[i] \in DOMAIN Digit
  /\ PlayerID(argument) <= MaxPlayerID

parse_join(argument, payload) ==
  IF payload # <<>> THEN Err("UnexpectedPayload")
  ELSE IF argument = <<>> THEN Host
  ELSE IF IsRoomCode(argument) THEN Join(argument[1])
  ELSE Err("InvalidArgument")

parse_seal(argument, payload) ==
  IF payload # <<>> THEN Err("UnexpectedPayload")
  ELSE IF argument # <<>> THEN Err("InvalidArgument")
  ELSE Seal

\* Mutant: the payload may be missing.
parse_send_any(command, argument, payload) ==
  IF ~IsPlayerID(argument) THEN Err("InvalidArgument")
  ELSE Send(command, PlayerID(argument), payload)

parse_send(command, argument, payload) ==
  IF ~IsPlayerID(argument) THEN Err("InvalidArgument")
  ELSE IF payload = <<>> THEN Err("ExpectedPayload")
  ELSE Send(command, PlayerID(argument), payload)

parse_player_request(text) ==
  LET newline == FirstOf(text, Newline)
      first_line == Before(text, newline)
      payload == After(text, newline)
      space == FirstOf(first_line, Space)
      command == Before(first_line, space)
      argument == After(first_line, space)
  IN IF newline = 0 THEN Err("NoNewline")
     ELSE IF space = 0 THEN Err("NoSpace")
     ELSE IF command = <<J>> THEN parse_join(argument, payload)
     ELSE IF command = <<S>> THEN parse_seal(argument, payload)
     ELSE IF \E c \in SendCommand : command = <<c>>
       THEN parse_send(command[1], argument, payload)
     ELSE Err("InvalidCommand")
-----------------------------------------------------------------------------
\* u16::from(CustomCloseCode), those that an answer to a request may carry.
CustomCloseCode ==
  [TooManyRooms |-> 4005, AlreadyInRoom |-> 4006, RoomDoesNotExist |-> 4007,
   InvalidFormat |-> 4009, NotInRoom |-> 4010, InvalidDestination |-> 4012,
   InvalidCommand |-> 4013]

parse_error_to_close_code(e) ==
  CASE e = "InvalidCommand" -> CustomCloseCode.InvalidCommand
    [] e = "InvalidArgument" -> CustomCloseCode.InvalidDestination
    [] OTHER -> CustomCloseCode.InvalidFormat
=============================================================================
