------------------------------ MODULE RoomCodes -----------------------------
(***************************************************************************)
(* Room codes (src/room_code.rs): their conversions, the binary search in  *)
(* the list of profanity, and the loop in which the lobby draws the code   *)
(* of a new room (src/lobby.rs).  A code is a tuple of four bytes.         *)
(***************************************************************************)
EXTENDS Integers, Sequences, FiniteSets

CONSTANTS
  Letter,    \* the bytes that RoomCode::random draws, 65..90 in the program
  Profanity, \* the codes in profanity.txt
  MaxRooms   \* max_rooms of the configuration

VARIABLES
  roomMap,     \* the keys of room_map
  draw,        \* "idle", "draw", "search" or "open"
  code,
  left, right  \* of is_profanity

codeVars == <<roomMap, draw, code, left, right>>
-----------------------------------------------------------------------------
Byte == 0..255
Bytes == [1..4 -> Byte]
RoomCode == [1..4 -> Letter]

\* Mutant: the last letter is left out.
AllBelowZ(bytes) == \A i \in 1..4 : bytes[i] >= 65 /\ bytes[i] < 90

valid_bytes(bytes) == \A i \in 1..4 : ~(bytes[i] < 65 \/ bytes[i] > 90)

\* u32::from_be_bytes and to_be_bytes.
from_be_bytes(b) == ((b[1] * 256 + b[2]) * 256 + b[3]) * 256 + b[4]
to_be_bytes(n) ==
  LET high == n \div 256
      higher == high \div 256
  IN <<higher \div 256, higher % 256, high % 256, n % 256>>

precedes(a, b) ==
  \/ a[1] < b[1]
  \/ a[1] = b[1] /\ a[2] < b[2]
  \/ a[1] = b[1] /\ a[2] = b[2] /\ a[3] < b[3]
  \/ a[1] = b[1] /\ a[2] = b[2] /\ a[3] = b[3] /\ a[4] < b[4]

ASSUME CodeAssumption ==
  /\ Letter \subseteq 65..90
  /\ Profanity \in Seq(Bytes) \ {<<>>}
  /\ \A i, j \in 1..Len(Profanity) : i < j => precedes(Profanity[i], Profanity[j])
  /\ MaxRooms \in Nat

get_profanity_len == Len(Profanity)
get_profanity_at(index) == Profanity[index + 1]

compare_to_profanity(c, index) ==
  IF precedes(c, get_profanity_at(index)) THEN -1
  ELSE IF precedes(get_profanity_at(index), c) THEN 1
  ELSE 0
-----------------------------------------------------------------------------
CodesInit ==
  /\ roomMap = {}
  /\ draw = "idle"
  /\ code = <<65, 65, 65, 65>>
  /\ left = 0 /\ right = 0

\* LobbyCommand::CreateRoom is accepted.
BeginDraw ==
  /\ draw \in {"idle", "open"}
  /\ Cardinality(roomMap) < MaxRooms
  /\ draw' = "draw"
  /\ UNCHANGED <<roomMap, code, left, right>>

\* Mutant: the map is not asked.
DrawAny ==
  /\ draw = "draw"
  /\ code' \in RoomCode
  /\ draw' = "search" /\ left' = 0 /\ right' = get_profanity_len - 1
  /\ UNCHANGED roomMap

\* RoomCode::random, and contains_key, which is asked first.
Draw ==
  /\ draw = "draw"
  /\ code' \in RoomCode
  /\ IF from_be_bytes(code') \in roomMap
     THEN UNCHANGED <<draw, left, right>>
     ELSE draw' = "search" /\ left' = 0 /\ right' = get_profanity_len - 1
  /\ UNCHANGED roomMap

middle == (left + right) \div 2

\* Mutant: one entry is passed over.
SearchLeftTwice ==
  /\ draw = "search" /\ left <= right
  /\ compare_to_profanity(code, middle) < 0
  /\ right' = middle - 2
  /\ UNCHANGED <<roomMap, draw, code, left>>

SearchLeft ==
  /\ draw = "search" /\ left <= right
  /\ compare_to_profanity(code, middle) < 0
  /\ right' = middle - 1
  /\ UNCHANGED <<roomMap, draw, code, left>>

\* Mutant: the bound is kept in the interval.
SearchRightAgain ==
  /\ draw = "search" /\ left <= right
  /\ compare_to_profanity(code, middle) > 0
  /\ left' = middle
  /\ UNCHANGED <<roomMap, draw, code, right>>

SearchRight ==
  /\ draw = "search" /\ left <= right
  /\ compare_to_profanity(code, middle) > 0
  /\ left' = middle + 1
  /\ UNCHANGED <<roomMap, draw, code, right>>

\* is_profanity returns true: another code is drawn.
Profane ==
  /\ draw = "search" /\ left <= right
  /\ compare_to_profanity(code, middle) = 0
  /\ draw' = "draw"
  /\ UNCHANGED <<roomMap, code, left, right>>

\* is_profanity returns false: the room is created and listed.
OpenRoom ==
  /\ draw = "search" /\ left > right
  /\ draw' = "open"
  /\ roomMap' = roomMap \cup {from_be_bytes(code)}
  /\ UNCHANGED <<code, left, right>>

DrawStep == Draw \/ SearchLeft \/ SearchRight \/ Profane \/ OpenRoom
CodesNext == BeginDraw \/ DrawStep
CodesSpec == CodesInit /\ [][CodesNext]_codeVars
=============================================================================
