---------------------------- MODULE RequestProofs ---------------------------
(***************************************************************************)
(* Theorems of RequestSystem for every sorted list of profanity: the       *)
(* binary search is right, so that a room never gets a code that is in use *)
(* or profane; the conversion of a code to an integer can be undone.  For  *)
(* texts of any length over any tokens: parse_player_request understands   *)
(* what is written as a request, and nothing else; a code that is sent     *)
(* back opens the room it was drawn for.                                   *)
(***************************************************************************)
EXTENDS RequestSystem, WellFoundedInduction, SequenceTheorems, TLAPS

-----------------------------------------------------------------------------
(* Codes.                                                                  *)

Ints == [1..4 -> Int]

LEMMA BytesAreInts == Bytes \subseteq Ints
BY DEF Bytes, Byte, Ints

LEMMA CodesAreBytes == RoomCode \subseteq Bytes
<1>1. Letter \subseteq Byte
  BY CodeAssumption DEF Byte
<1> QED
  BY <1>1 DEF RoomCode, Bytes

LEMMA PrecedesIrreflexive ==
  ASSUME NEW a \in Ints
  PROVE  ~precedes(a, a)
BY DEF precedes, Ints

LEMMA PrecedesTransitive ==
  ASSUME NEW a \in Ints, NEW b \in Ints, NEW c \in Ints,
         precedes(a, b), precedes(b, c)
  PROVE  precedes(a, c)
BY DEF precedes, Ints

LEMMA PrecedesTotal ==
  ASSUME NEW a \in Ints, NEW b \in Ints, ~precedes(a, b), ~precedes(b, a)
  PROVE  a = b
<1>1. a[1] = b[1] /\ a[2] = b[2] /\ a[3] = b[3] /\ a[4] = b[4]
  BY DEF precedes, Ints
<1>2. \A i \in 1..4 : a[i] = b[i]
  BY <1>1
<1> QED
  BY <1>2 DEF Ints

\* The u32 of a code gives the code back: two codes never share an entry of
\* room_map.
THEOREM CodeConversion ==
  ASSUME NEW b \in Bytes
  PROVE  to_be_bytes(from_be_bytes(b)) = b
<1>1. PICK b1 \in 0..255, b2 \in 0..255, b3 \in 0..255, b4 \in 0..255 :
        b = <<b1, b2, b3, b4>>
  <2>1. b[1] \in Byte /\ b[2] \in Byte /\ b[3] \in Byte /\ b[4] \in Byte
    BY DEF Bytes
  <2>2. b = <<b[1], b[2], b[3], b[4]>>
    BY DEF Bytes
  <2> QED
    BY <2>1, <2>2, Zenon DEF Byte
<1>2. PICK higher \in Nat : higher = b1 * 256 + b2
  OBVIOUS
<1>3. PICK high \in Nat : high = higher * 256 + b3
  OBVIOUS
<1>4. PICK n \in Nat : n = high * 256 + b4
  OBVIOUS
<1>5. higher \div 256 = b1 /\ higher % 256 = b2
  BY <1>2
<1>6. high \div 256 = higher /\ high % 256 = b3
  BY <1>3
<1>7. n \div 256 = high /\ n % 256 = b4
  BY <1>4
<1>8. from_be_bytes(b) = n
  BY <1>1, <1>2, <1>3, <1>4 DEF from_be_bytes
<1> QED
  BY <1>1, <1>5, <1>6, <1>7, <1>8 DEF to_be_bytes
-----------------------------------------------------------------------------
(* The search.  What lies before left precedes the code and what lies      *)
(* after right follows it, so that the code can only be between them.      *)

SearchInv ==
  /\ draw \in {"idle", "draw", "search", "open"}
  /\ code \in Bytes
  /\ left \in 0..get_profanity_len
  /\ right \in -1..get_profanity_len - 1
  /\ \A n \in roomMap : to_be_bytes(n) \in RoomCode
  /\ draw = "search" =>
       /\ code \in RoomCode
       /\ from_be_bytes(code) \notin roomMap
       /\ \A i \in 1..get_profanity_len :
            /\ i <= left => precedes(Profanity[i], code)
            /\ i > right + 1 => precedes(code, Profanity[i])

LEMMA ProfanityIsSorted ==
  /\ get_profanity_len \in Nat
  /\ get_profanity_len > 0
  /\ \A i \in 1..get_profanity_len : Profanity[i] \in Bytes
  /\ \A i, j \in 1..get_profanity_len : i < j => precedes(Profanity[i], Profanity[j])
<1>1. Profanity \in Seq(Bytes) /\ Profanity # <<>>
  BY CodeAssumption
<1>2. Len(Profanity) \in Nat /\ Len(Profanity) > 0
  BY <1>1
<1>3. \A i \in 1..Len(Profanity) : Profanity[i] \in Bytes
  BY <1>1
<1> QED
  BY <1>2, <1>3, CodeAssumption DEF get_profanity_len

LEMMA MiddleIsBetween ==
  ASSUME SearchInv, left <= right
  PROVE  /\ middle \in Int /\ left <= middle /\ middle <= right
         /\ middle + 1 \in 1..get_profanity_len
BY ProfanityIsSorted DEF SearchInv, middle

LEMMA SearchLeftStep ==
  ASSUME SearchInv, SearchLeft
  PROVE  SearchInv'
<1> DEFINE L == get_profanity_len
           m == middle
<1>1. m \in Int /\ left <= m /\ m <= right /\ m + 1 \in 1..L
  BY MiddleIsBetween DEF SearchLeft
<1>2. precedes(code, Profanity[m + 1])
  BY DEF SearchLeft, compare_to_profanity, get_profanity_at
<1>3. L \in Nat /\ right' = m - 1
  BY ProfanityIsSorted DEF SearchLeft
<1>4. right' \in -1..L - 1
  BY <1>1, <1>3 DEF SearchInv
<1>5. ASSUME NEW i \in 1..L, i > right' + 1
      PROVE  precedes(code, Profanity[i])
  <2>1. CASE i = m + 1
    BY <1>2, <2>1
  <2>2. CASE i > m + 1
    <3>1. precedes(Profanity[m + 1], Profanity[i])
      BY <1>1, <2>2, ProfanityIsSorted
    <3>2. code \in Ints /\ Profanity[m + 1] \in Ints /\ Profanity[i] \in Ints
      BY <1>1, ProfanityIsSorted, BytesAreInts DEF SearchInv
    <3> QED
      BY <1>2, <3>1, <3>2, PrecedesTransitive
  <2> QED
    BY <1>1, <1>3, <1>5, <2>1, <2>2
<1>6. UNCHANGED <<roomMap, draw, code, left, get_profanity_len>>
  BY DEF SearchLeft, get_profanity_len
<1> HIDE DEF L, m
<1> QED
  BY <1>4, <1>5, <1>6 DEF SearchInv, SearchLeft, L

LEMMA SearchRightStep ==
  ASSUME SearchInv, SearchRight
  PROVE  SearchInv'
<1> DEFINE L == get_profanity_len
           m == middle
<1>1. m \in Int /\ left <= m /\ m <= right /\ m + 1 \in 1..L
  BY MiddleIsBetween DEF SearchRight
<1>2. precedes(Profanity[m + 1], code)
  BY DEF SearchRight, compare_to_profanity, get_profanity_at
<1>3. L \in Nat /\ left' = m + 1
  BY ProfanityIsSorted DEF SearchRight
<1>4. left' \in 0..L
  BY <1>1, <1>3 DEF SearchInv
<1>5. ASSUME NEW i \in 1..L, i <= left'
      PROVE  precedes(Profanity[i], code)
  <2>1. CASE i = m + 1
    BY <1>2, <2>1
  <2>2. CASE i < m + 1
    <3>1. precedes(Profanity[i], Profanity[m + 1])
      BY <1>1, <2>2, ProfanityIsSorted
    <3>2. code \in Ints /\ Profanity[m + 1] \in Ints /\ Profanity[i] \in Ints
      BY <1>1, ProfanityIsSorted, BytesAreInts DEF SearchInv
    <3> QED
      BY <1>2, <3>1, <3>2, PrecedesTransitive
  <2> QED
    BY <1>1, <1>3, <1>5, <2>1, <2>2
<1>6. UNCHANGED <<roomMap, draw, code, right, get_profanity_len>>
  BY DEF SearchRight, get_profanity_len
<1> HIDE DEF L, m
<1> QED
  BY <1>4, <1>5, <1>6 DEF SearchInv, SearchRight, L

LEMMA DrawStepInv ==
  ASSUME SearchInv, Draw
  PROVE  SearchInv'
<1> USE ProfanityIsSorted
<1>1. code' \in RoomCode /\ code' \in Bytes
  BY CodesAreBytes DEF Draw
<1>2. CASE from_be_bytes(code') \in roomMap
  BY <1>1, <1>2 DEF SearchInv, Draw, get_profanity_len
<1>3. CASE from_be_bytes(code') \notin roomMap
  <2>1. draw' = "search" /\ left' = 0 /\ right' = get_profanity_len - 1 /\ roomMap' = roomMap
    BY <1>3 DEF Draw
  <2>2. from_be_bytes(code)' \notin roomMap'
    BY <1>3, <2>1 DEF from_be_bytes
  <2>3. \A i \in 1..get_profanity_len : ~(i <= left') /\ ~(i > right' + 1)
    BY <2>1
  <2>4. left' \in 0..get_profanity_len /\ right' \in -1..get_profanity_len - 1
    BY <2>1
  <2>5. get_profanity_len' = get_profanity_len
    BY DEF get_profanity_len
  <2> QED
    BY <1>1, <2>1, <2>2, <2>3, <2>4, <2>5 DEF SearchInv
<1> QED
  BY <1>2, <1>3

LEMMA OpenRoomStep ==
  ASSUME SearchInv, OpenRoom
  PROVE  SearchInv'
<1>1. to_be_bytes(from_be_bytes(code)) \in RoomCode
  BY CodeConversion DEF SearchInv, OpenRoom
<1>2. \A n \in roomMap' : to_be_bytes(n) \in RoomCode
  BY <1>1 DEF SearchInv, OpenRoom
<1> QED
  BY <1>2 DEF SearchInv, OpenRoom, get_profanity_len

LEMMA CodesStep ==
  ASSUME SearchInv, [CodesNext]_codeVars
  PROVE  SearchInv'
<1>1. CASE BeginDraw
  BY <1>1 DEF SearchInv, BeginDraw, get_profanity_len
<1>2. CASE Profane
  BY <1>2 DEF SearchInv, Profane, get_profanity_len
<1>3. CASE UNCHANGED codeVars
  BY <1>3 DEF SearchInv, codeVars, get_profanity_len
<1> QED
  BY <1>1, <1>2, <1>3, DrawStepInv, SearchLeftStep, SearchRightStep, OpenRoomStep
  DEF CodesNext, DrawStep

LEMMA CodesInitInv ==
  ASSUME CodesInit
  PROVE  SearchInv
<1>1. code \in Bytes
  BY DEF CodesInit, Bytes, Byte
<1> QED
  BY <1>1, ProfanityIsSorted DEF CodesInit, SearchInv
-----------------------------------------------------------------------------
(* Texts.  split_once finds the first newline and the first space, and what *)
(* is between them is taken for what a writer of requests puts there.       *)

LEMMA LeastNatural ==
  ASSUME NEW I \in SUBSET Nat, I # {}
  PROVE  \E x \in I : \A y \in I : x <= y
<1>1. PICK x \in I : \A y \in I : ~(<<y, x>> \in OpToRel(<, Nat))
  BY NatLessThanWellFounded, WFMin, Zenon
<1>2. \A y \in I : ~(y < x)
  BY <1>1 DEF OpToRel
<1> QED
  BY <1>2

LEMMA FirstOfFinds ==
  ASSUME NEW X, NEW t \in Seq(X), NEW token
  PROVE  /\ FirstOf(t, token) \in 0..Len(t)
         /\ FirstOf(t, token) = 0 => \A i \in 1..Len(t) : t[i] # token
         /\ FirstOf(t, token) # 0 => /\ t[FirstOf(t, token)] = token
                                     /\ \A i \in 1..FirstOf(t, token) - 1 : t[i] # token
<1> DEFINE I == {i \in 1..Len(t) : t[i] = token}
<1>1. FirstOf(t, token) = IF I # {} THEN Min(I) ELSE 0
  BY DEF FirstOf, SelectInSeq
<1>2. CASE I = {}
  BY <1>1, <1>2
<1>3. CASE I # {}
  <2>1. PICK x \in I : \A y \in I : x <= y
    <3>1. I \in SUBSET Nat
      OBVIOUS
    <3> QED
      BY <1>3, <3>1, LeastNatural
  <2>2. Min(I) \in I /\ \A y \in I : Min(I) <= y
    BY <2>1, Zenon DEF Min
  <2>3. Min(I) \in 1..Len(t) /\ t[Min(I)] = token
    BY <2>2
  <2>4. ASSUME NEW i \in 1..Min(I) - 1, t[i] = token
        PROVE  FALSE
    <3>1. i \in I
      BY <2>3, <2>4
    <3> QED
      BY <2>2, <2>3, <3>1
  <2> QED
    BY <1>1, <1>3, <2>3, <2>4
<1> QED
  BY <1>2, <1>3

LEMMA FirstOfIs ==
  ASSUME NEW X, NEW t \in Seq(X), NEW token, NEW k \in 1..Len(t),
         t[k] = token, \A i \in 1..k - 1 : t[i] # token
  PROVE  FirstOf(t, token) = k
<1>1. /\ FirstOf(t, token) \in 0..Len(t)
      /\ FirstOf(t, token) = 0 => \A i \in 1..Len(t) : t[i] # token
      /\ FirstOf(t, token) # 0 => /\ t[FirstOf(t, token)] = token
                                  /\ \A i \in 1..FirstOf(t, token) - 1 : t[i] # token
  BY FirstOfFinds
<1> DEFINE f == FirstOf(t, token)
<1>2. f # 0
  BY <1>1
<1>3. ~(k < f)
  BY <1>1, <1>2
<1>4. ~(f < k)
  BY <1>1, <1>2
<1> QED
  BY <1>1, <1>3, <1>4

Parts(command, argument, payload) ==
  IF command = <<J>> THEN parse_join(argument, payload)
  ELSE IF command = <<S>> THEN parse_seal(argument, payload)
  ELSE IF \E c \in SendCommand : command = <<c>>
    THEN parse_send(command[1], argument, payload)
  ELSE Err("InvalidCommand")

\* The indices at which split_once splits a text twice.
Splits(t, newline, space) ==
  /\ newline \in 1..Len(t) /\ t[newline] = Newline
  /\ \A i \in 1..newline - 1 : t[i] # Newline
  /\ space \in 1..newline - 1 /\ t[space] = Space
  /\ \A i \in 1..space - 1 : t[i] # Space

LEMMA SplitTextIsParsed ==
  ASSUME NEW X, NEW t \in Seq(X), NEW newline, NEW space, Splits(t, newline, space)
  PROVE  parse_player_request(t) =
           Parts(SubSeq(t, 1, space - 1), SubSeq(t, space + 1, newline - 1),
                 SubSeq(t, newline + 1, Len(t)))
<1> USE DEF Splits
<1>1. FirstOf(t, Newline) = newline
  BY FirstOfIs
<1> DEFINE first_line == SubSeq(t, 1, newline - 1)
<1>2. /\ first_line \in Seq(X)
      /\ Len(first_line) = newline - 1
      /\ \A i \in 1..newline - 1 : first_line[i] = t[i]
  BY DEF first_line
<1>3. FirstOf(first_line, Space) = space
  <2> HIDE DEF first_line
  <2>1. space \in 1..Len(first_line) /\ first_line[space] = Space
        /\ \A i \in 1..space - 1 : first_line[i] # Space
    BY <1>2
  <2> QED
    BY <1>2, <2>1, FirstOfIs
<1>4. SubSeq(first_line, 1, space - 1) = SubSeq(t, 1, space - 1)
  BY <1>2
<1>5. SubSeq(first_line, space + 1, Len(first_line)) = SubSeq(t, space + 1, newline - 1)
  BY <1>2
<1>6. newline # 0 /\ space # 0
  OBVIOUS
<1> HIDE DEF first_line
<1> QED
  BY <1>1, <1>3, <1>4, <1>5, <1>6, Zenon DEF parse_player_request, Parts, Before, After, first_line

LEMMA ParsedTextsSplit ==
  ASSUME NEW X, NEW t \in Seq(X), parse_player_request(t).kind # "Err"
  PROVE  \E newline, space \in 1..Len(t) : Splits(t, newline, space)
<1> DEFINE newline == FirstOf(t, Newline)
           first_line == SubSeq(t, 1, newline - 1)
           space == FirstOf(first_line, Space)
<1>1. newline # 0 /\ space # 0
  <2> DEFINE nl == newline
             sp == space
  <2>1. nl = 0 => parse_player_request(t).kind = "Err"
    BY DEF parse_player_request, Err
  <2>2. nl # 0 /\ sp = 0 => parse_player_request(t).kind = "Err"
    BY DEF parse_player_request, Err, Before
  <2> QED
    BY <2>1, <2>2
<1>2. /\ newline \in 1..Len(t) /\ t[newline] = Newline
      /\ \A i \in 1..newline - 1 : t[i] # Newline
  BY <1>1, FirstOfFinds
<1>3. /\ first_line \in Seq(X)
      /\ Len(first_line) = newline - 1
      /\ \A i \in 1..newline - 1 : first_line[i] = t[i]
  <2> HIDE DEF newline
  <2> QED
    BY <1>2
<1>4. /\ space \in 1..Len(first_line) /\ first_line[space] = Space
      /\ \A i \in 1..space - 1 : first_line[i] # Space
  <2> HIDE DEF newline, first_line
  <2> QED
    BY <1>1, <1>3, FirstOfFinds
<1> HIDE DEF newline, first_line, space
<1>5. Splits(t, newline, space)
  BY <1>2, <1>3, <1>4 DEF Splits
<1> QED
  BY <1>2, <1>5 DEF Splits

LEMMA TokensDiffer ==
  /\ J # Newline /\ S # Newline /\ Space # Newline /\ O # Newline /\ A # Newline /\ C # Newline
  /\ J # Space /\ S # Space /\ O # Space /\ A # Space /\ C # Space
  /\ J # S /\ J # O /\ J # A /\ J # C /\ S # O /\ S # A /\ S # C
  /\ \A c \in [1..4 -> 65..90] : c # Newline /\ c # Space
<1>1. \A a, b : <<a>> = <<b>> => a = b
  OBVIOUS
<1>2. \A a : \A c \in [1..4 -> 65..90] : c # <<a>>
  <2>1. \A a : 2 \notin DOMAIN <<a>>
    OBVIOUS
  <2>2. \A c \in [1..4 -> 65..90] : 2 \in DOMAIN c
    OBVIOUS
  <2> QED
    BY <2>1, <2>2, Zenon
<1>3. /\ "J:" # "\n" /\ "S:" # "\n" /\ " " # "\n" /\ "O:" # "\n" /\ "A:" # "\n" /\ "C:" # "\n"
      /\ "J:" # " " /\ "S:" # " " /\ "O:" # " " /\ "A:" # " " /\ "C:" # " "
      /\ "J:" # "S:" /\ "J:" # "O:" /\ "J:" # "A:" /\ "J:" # "C:"
      /\ "S:" # "O:" /\ "S:" # "A:" /\ "S:" # "C:"
  OBVIOUS
<1> QED
  BY <1>1, <1>2, <1>3, Zenon DEF J, S, O, A, C, Space, Newline

LEMMA DigitsAreNoNewlines ==
  ASSUME NEW X, NEW argument \in Seq(X), IsPlayerID(argument), NEW i \in 1..Len(argument)
  PROVE  argument[i] # Newline
<1>1. Newline \notin DOMAIN Digit
  BY RequestAssumption
<1>2. CASE argument # <<>> /\ Head(argument) = Plus
  <2>1. Digits(argument) = Tail(argument)
    BY <1>2 DEF Digits
  <2>2. CASE i = 1
    BY <1>2, <2>2 DEF Plus, Newline
  <2>3. CASE i # 1
    <3>1. i - 1 \in DOMAIN Tail(argument) /\ Tail(argument)[i - 1] = argument[i]
      BY <1>2, <2>3
    <3> QED
      BY <1>1, <2>1, <3>1, Zenon DEF IsPlayerID
  <2> QED
    BY <2>2, <2>3
<1>3. CASE ~(argument # <<>> /\ Head(argument) = Plus)
  <2>1. Digits(argument) = argument
    BY <1>3 DEF Digits
  <2> QED
    BY <1>1, <2>1 DEF IsPlayerID
<1> QED
  BY <1>2, <1>3

LEMMA RoomCodeTokens ==
  ASSUME NEW c \in Token
  PROVE  IsRoomCode(<<c>>) <=> c \in [1..4 -> 65..90]
<1>1. ASSUME c \in Bytes
      PROVE  /\ Len(c) = 4
             /\ valid_bytes(c) <=> c \in [1..4 -> 65..90]
  <2>1. Len(c) = 4 /\ \A i \in 1..4 : c[i] \in Int
    BY <1>1 DEF Bytes, Byte
  <2>2. c \in [1..4 -> 65..90] <=> \A i \in 1..4 : c[i] \in 65..90
    BY <1>1 DEF Bytes
  <2> QED
    BY <2>1, <2>2 DEF valid_bytes
<1>2. ASSUME NEW name \in Name, c = <<name>>
      PROVE  Len(c) # 4 /\ c \notin [1..4 -> 65..90]
  <2>1. Len(c) = 1 /\ 2 \notin DOMAIN c
    BY <1>2
  <2> QED
    BY <2>1
<1>3. Len(<<c>>) = 1 /\ <<c>>[1] = c
  OBVIOUS
<1> QED
  BY <1>1, <1>2, <1>3 DEF IsRoomCode, Token

LEMMA CommandIsFirst ==
  ASSUME NEW X, NEW t \in Seq(X), NEW space \in 1..Len(t), NEW c,
         SubSeq(t, 1, space - 1) = <<c>>
  PROVE  space = 2 /\ t[1] = c
<1>1. Len(SubSeq(t, 1, space - 1)) = space - 1
  OBVIOUS
<1>2. Len(<<c>>) = 1 /\ <<c>>[1] = c
  OBVIOUS
<1>3. space = 2
  <2>1. space - 1 = 1
    BY <1>1, <1>2, Zenon
  <2> QED
    BY <2>1
<1>4. SubSeq(t, 1, space - 1)[1] = t[1]
  BY <1>3
<1> QED
  BY <1>2, <1>3, <1>4

LEMMA SeqOfOne ==
  ASSUME NEW X, NEW s \in Seq(X), Len(s) = 1
  PROVE  s = <<s[1]>>
<1>1. <<s[1]>> \in Seq(X) /\ Len(<<s[1]>>) = 1
  OBVIOUS
<1>2. \A j \in 1..Len(s) : s[j] = <<s[1]>>[j]
  OBVIOUS
<1> QED
  BY <1>1, <1>2, SeqEqual

LEMMA SubSeqOne ==
  ASSUME NEW X, NEW t \in Seq(X), NEW i \in 1..Len(t)
  PROVE  SubSeq(t, i, i) = <<t[i]>>
<1>1. i \in Int /\ \A j \in i..i : t[j] \in X
  OBVIOUS
<1>2. /\ SubSeq(t, i, i) \in Seq(X) /\ Len(SubSeq(t, i, i)) = 1
      /\ SubSeq(t, i, i)[1] = t[i]
  <2>1. /\ SubSeq(t, i, i) \in Seq(X)
        /\ Len(SubSeq(t, i, i)) = IF i <= i THEN i - i + 1 ELSE 0
        /\ \A j \in 1..i - i + 1 : SubSeq(t, i, i)[j] = t[i + j - 1]
    BY <1>1, SubSeqProperties
  <2> QED
    BY <2>1
<1> DEFINE s == SubSeq(t, i, i)
<1> HIDE DEF s
<1>3. s = <<s[1]>>
  BY <1>2, SeqOfOne DEF s
<1> QED
  BY <1>2, <1>3 DEF s

\* A command of one token, as every command is.
LEMMA CommandIsParsed ==
  ASSUME NEW X, NEW t \in Seq(X), NEW newline, Splits(t, newline, 2)
  PROVE  parse_player_request(t) =
           Parts(<<t[1]>>, SubSeq(t, 3, newline - 1), SubSeq(t, newline + 1, Len(t)))
<1>1. 2 - 1 = 1 /\ 2 + 1 = 3
  OBVIOUS
<1>2. SubSeq(t, 1, 1) = <<t[1]>>
  BY SubSeqOne DEF Splits
<1>3. parse_player_request(t) =
        Parts(SubSeq(t, 1, 2 - 1), SubSeq(t, 2 + 1, newline - 1),
              SubSeq(t, newline + 1, Len(t)))
  BY SplitTextIsParsed
<1> QED
  BY <1>1, <1>2, <1>3, Zenon

LEMMA AcceptedIsReading ==
  ASSUME NEW t \in Seq(Token), parse_player_request(t).kind # "Err"
  PROVE  parse_player_request(t) \in Readings(t)
<1>1. PICK newline \in 1..Len(t), space \in 1..Len(t) : Splits(t, newline, space)
  BY ParsedTextsSplit
<1> DEFINE command == SubSeq(t, 1, space - 1)
           argument == SubSeq(t, space + 1, newline - 1)
           payload == SubSeq(t, newline + 1, Len(t))
<1>2. parse_player_request(t) = Parts(command, argument, payload)
  BY <1>1, SplitTextIsParsed
<1>3. /\ space \in 1..newline - 1 /\ newline \in 1..Len(t) /\ Len(t) \in Nat
      /\ t[newline] = Newline /\ t[space] = Space
  BY <1>1 DEF Splits
<1>4. Len(argument) = newline - space - 1
  BY <1>3
<1>10. /\ \A i \in 1..newline - space - 1 : argument[i] = t[space + i]
      /\ argument \in Seq(Token)
  <2>1. space + 1 \in Int /\ newline - 1 \in Int
        /\ \A i \in space + 1..newline - 1 : t[i] \in Token
    BY <1>3
  <2>2. argument \in Seq(Token)
    BY <2>1, SubSeqProperties
  <2> QED
    BY <1>3, <2>2
<1>5. Len(payload) = Len(t) - newline
  BY <1>3
<1>6. \A e : Err(e).kind = "Err"
  BY DEF Err
<1> HIDE DEF argument, payload
<1>7. CASE command = <<J>>
  <2>1. space = 2 /\ t[1] = J
    BY <1>7, CommandIsFirst
  <2>2. parse_player_request(t) = parse_join(argument, payload)
    BY <1>2, <1>7 DEF Parts
  <2>3. payload = <<>>
    BY <2>2, <1>6 DEF parse_join
  <2>4. newline = Len(t)
    BY <2>3, <1>5
  <2>5. CASE argument = <<>>
    <3>1. Len(t) = 3
      <4>1. Len(argument) = 0
        BY <2>5
      <4>2. newline - space - 1 = 0
        BY <4>1, <1>4, Zenon
      <4> QED
        BY <4>2, <2>1, <2>4, <1>3
    <3>2. t = <<J, Space, Newline>>
      BY <3>1, <2>1, <2>4, <1>3
    <3>3. parse_player_request(t) = Host
      BY <2>2, <2>3, <2>5 DEF parse_join
    <3> QED
      BY <3>2, <3>3 DEF Readings
  <2>6. CASE argument # <<>>
    <3>1. IsRoomCode(argument) /\ parse_player_request(t) = Join(argument[1])
      BY <2>2, <2>3, <2>6, <1>6 DEF parse_join
    <3>2. Len(argument) = 1
      BY <3>1 DEF IsRoomCode
    <3>3. Len(t) = 4 /\ argument[1] = t[3]
      <4>1. newline = 4
        <5>1. newline - space - 1 = 1
          BY <3>2, <1>4, Zenon
        <5> QED
          BY <5>1, <2>1, <1>3
      <4>2. 1 \in 1..newline - space - 1 /\ space + 1 = 3
        BY <4>1, <2>1
      <4> QED
        BY <4>1, <4>2, <2>4, <1>10
    <3>4. argument = <<t[3]>> /\ t[3] \in Token
      <4>1. argument = <<argument[1]>>
        BY <3>2, <1>10, SeqOfOne
      <4>2. t[3] \in Token
        BY <3>3, ElementOfSeq
      <4> QED
        BY <4>1, <4>2, <3>3, Zenon
    <3>5. t[3] \in [1..4 -> 65..90]
      BY <3>1, <3>4, RoomCodeTokens
    <3>6. t = <<J, Space, t[3], Newline>>
      BY <3>3, <2>1, <2>4, <1>3
    <3>7. t[3] \in ToSet(t)
      BY <3>3 DEF ToSet
    <3> QED
      BY <3>1, <3>3, <3>5, <3>6, <3>7 DEF Readings
  <2> QED
    BY <2>5, <2>6
<1>8. CASE command = <<S>>
  <2>1. space = 2 /\ t[1] = S
    BY <1>8, CommandIsFirst
  <2>2. command # <<J>>
    BY <1>8, TokensDiffer
  <2>3. parse_player_request(t) = parse_seal(argument, payload)
    BY <1>2, <1>8, <2>2 DEF Parts
  <2>4. payload = <<>> /\ argument = <<>>
    BY <2>3, <1>6 DEF parse_seal
  <2>5. Len(t) = 3 /\ newline = 3
    BY <2>1, <2>4, <1>4, <1>5, <1>3
  <2>6. t = <<S, Space, Newline>>
    BY <2>5, <2>1, <1>3
  <2>7. parse_player_request(t) = Seal
    BY <2>3, <2>4 DEF parse_seal
  <2> QED
    BY <2>6, <2>7 DEF Readings
<1>9. CASE command # <<J>> /\ command # <<S>>
  <2>1. PICK c \in SendCommand : command = <<c>>
    BY <1>2, <1>6, <1>9 DEF Parts
  <2>2. space = 2 /\ t[1] = c
    BY <2>1, CommandIsFirst
  <2>3. parse_player_request(t) = parse_send(t[1], argument, payload)
    BY <1>2, <1>9, <2>1, <2>2 DEF Parts
  <2>4. IsPlayerID(argument) /\ payload # <<>>
    BY <2>3, <1>6 DEF parse_send
  <2>5. parse_player_request(t) = Send(t[1], PlayerID(argument), payload)
    BY <2>3, <2>4 DEF parse_send
  <2>6. argument # <<>>
    BY <2>4 DEF IsPlayerID, Digits
  <2>7. newline \in 4..Len(t) - 1
    <3>1. Len(argument) # 0
      BY <2>6, <1>4
    <3>2. Len(payload) # 0
      BY <2>4, <1>3 DEF payload
    <3> QED
      BY <3>1, <3>2, <2>2, <1>3, <1>4, <1>5
  <2>8. argument = SubSeq(t, 3, newline - 1) /\ payload = SubSeq(t, newline + 1, Len(t))
    BY <2>2 DEF argument, payload
  <2> QED
    BY <2>1, <2>2, <2>4, <2>5, <2>7, <2>8, <1>3 DEF Readings
<1> QED
  BY <1>7, <1>8, <1>9

LEMMA ReadingIsParsed ==
  ASSUME NEW t \in Seq(Token), NEW r \in Readings(t)
  PROVE  parse_player_request(t) = r /\ r.kind # "Err"
<1>1. CASE t = <<J, Space, Newline>> /\ r = Host
  <2>1. Splits(t, 3, 2)
    BY <1>1, TokensDiffer DEF Splits
  <2>2. t[1] = J /\ Len(t) = 3
    BY <1>1
  <2>3. parse_player_request(t) = Parts(<<J>>, <<>>, <<>>)
    <3>1. parse_player_request(t) = Parts(<<t[1]>>, SubSeq(t, 3, 3 - 1), SubSeq(t, 3 + 1, Len(t)))
      BY <2>1, CommandIsParsed
    <3>2. SubSeq(t, 3, 3 - 1) = <<>> /\ SubSeq(t, 3 + 1, Len(t)) = <<>>
      BY <2>2
    <3> QED
      BY <2>2, <3>1, <3>2, Zenon
  <2> QED
    BY <1>1, <2>3 DEF Parts, parse_join, Host
<1>2. CASE t = <<S, Space, Newline>> /\ r = Seal
  <2>1. Splits(t, 3, 2)
    BY <1>2, TokensDiffer DEF Splits
  <2>2. t[1] = S /\ Len(t) = 3
    BY <1>2
  <2>3. parse_player_request(t) = Parts(<<S>>, <<>>, <<>>)
    <3>1. parse_player_request(t) = Parts(<<t[1]>>, SubSeq(t, 3, 3 - 1), SubSeq(t, 3 + 1, Len(t)))
      BY <2>1, CommandIsParsed
    <3>2. SubSeq(t, 3, 3 - 1) = <<>> /\ SubSeq(t, 3 + 1, Len(t)) = <<>>
      BY <2>2
    <3> QED
      BY <2>2, <3>1, <3>2, Zenon
  <2>4. <<S>> # <<J>>
    BY TokensDiffer
  <2> QED
    BY <1>2, <2>3, <2>4 DEF Parts, parse_seal, Seal
<1>3. ASSUME NEW c \in [1..4 -> 65..90], t = <<J, Space, c, Newline>>, r = Join(c)
      PROVE  parse_player_request(t) = r /\ r.kind # "Err"
  <2>1. Splits(t, 4, 2)
    BY <1>3, TokensDiffer DEF Splits
  <2>2. t[1] = J /\ t[3] = c /\ Len(t) = 4
    BY <1>3
  <2>3. parse_player_request(t) = Parts(<<J>>, <<c>>, <<>>)
    <3>1. parse_player_request(t) = Parts(<<t[1]>>, SubSeq(t, 3, 4 - 1), SubSeq(t, 4 + 1, Len(t)))
      BY <2>1, CommandIsParsed
    <3>2. SubSeq(t, 3, 3) = <<t[3]>>
      BY <2>2, SubSeqOne
    <3>3. 4 - 1 = 3 /\ SubSeq(t, 4 + 1, Len(t)) = <<>>
      BY <2>2
    <3> QED
      BY <2>2, <3>1, <3>2, <3>3, Zenon
  <2>4. c \in Token
    BY DEF Token, Bytes, Byte
  <2>5. IsRoomCode(<<c>>)
    BY <2>4, RoomCodeTokens
  <2>6. <<c>> # <<>> /\ <<c>>[1] = c
    OBVIOUS
  <2> QED
    BY <1>3, <2>3, <2>5, <2>6 DEF Parts, parse_join, Join
<1>4. ASSUME NEW k \in 4..Len(t) - 1,
             t[1] \in SendCommand, t[2] = Space, t[k] = Newline,
             IsPlayerID(SubSeq(t, 3, k - 1)),
             r = Send(t[1], PlayerID(SubSeq(t, 3, k - 1)), SubSeq(t, k + 1, Len(t)))
      PROVE  parse_player_request(t) = r /\ r.kind # "Err"
  <2> DEFINE argument == SubSeq(t, 3, k - 1)
             payload == SubSeq(t, k + 1, Len(t))
  <2>1. /\ argument \in Seq(Token) /\ Len(argument) = k - 3
        /\ \A i \in 3..k - 1 : argument[i - 2] = t[i]
    OBVIOUS
  <2>2. \A i \in 3..k - 1 : t[i] # Newline
    <3> SUFFICES ASSUME NEW i \in 3..k - 1
                 PROVE  t[i] # Newline
      OBVIOUS
    <3>1. i - 2 \in 1..Len(argument) /\ argument[i - 2] = t[i]
      BY <2>1
    <3>2. IsPlayerID(argument)
      BY <1>4
    <3> HIDE DEF argument
    <3> QED
      BY <2>1, <3>1, <3>2, DigitsAreNoNewlines
  <2>3. t[1] # Space /\ t[1] # Newline /\ t[2] # Newline
    BY <1>4, TokensDiffer DEF SendCommand
  <2>4. Splits(t, k, 2)
    BY <1>4, <2>2, <2>3 DEF Splits
  <2>6. parse_player_request(t) = Parts(<<t[1]>>, argument, payload)
    BY <2>4, CommandIsParsed
  <2>7. t[1] # J /\ t[1] # S
    BY <1>4, TokensDiffer DEF SendCommand
  <2>8. <<t[1]>> # <<J>> /\ <<t[1]>> # <<S>> /\ <<t[1]>>[1] = t[1]
    BY <2>7
  <2>9. payload # <<>>
    <3>1. Len(payload) # 0
      BY <1>4
    <3> HIDE DEF payload
    <3> QED
      BY <3>1
  <2> HIDE DEF argument, payload
  <2>10. parse_player_request(t) = parse_send(t[1], argument, payload)
    BY <1>4, <2>6, <2>8 DEF Parts
  <2> QED
    BY <1>4, <2>9, <2>10 DEF parse_send, Send, argument, payload
<1> QED
  BY <1>1, <1>2, <1>3, <1>4 DEF Readings

\* Whatever a text is, parse_player_request reads it as the one request it is the
\* written form of, and refuses it when there is none.
THEOREM ParsedAsWritten ==
  ASSUME NEW t \in Seq(Token)
  PROVE  Readings(t) = IF parse_player_request(t).kind = "Err" THEN {}
                       ELSE {parse_player_request(t)}
BY AcceptedIsReading, ReadingIsParsed
-----------------------------------------------------------------------------
(* The system.                                                             *)

LEMMA NextUsesCodes ==
  ASSUME [Next]_vars
  PROVE  [CodesNext]_codeVars
BY DEF Next, vars, CodesNext, Read, Refuse, NotInRoom, AlreadyInRoom, ToRoom, JoinRoom,
       CreateRoom, DrawCode, TellHost, Invite, Over, codeVars

\* Whatever the clients ask for, the lobby only ever draws, searches and lists
\* codes the way RoomCodes says.
THEOREM RequestsImplementCodes == Spec => CodesSpec
<1>1. Init => CodesInit
  BY DEF Init
<1>2. [Next]_vars => [CodesNext]_codeVars
  BY NextUsesCodes
<1> QED
  BY <1>1, <1>2, PTL DEF Spec, CodesSpec

\* SearchInv is an invariant of the drawing of codes: what the binary search has
\* left out lies to one side of the code.
THEOREM SearchInvariant == CodesSpec => []SearchInv
<1>1. CodesInit => SearchInv
  BY CodesInitInv
<1>2. SearchInv /\ [CodesNext]_codeVars => SearchInv'
  BY CodesStep
<1> QED
  BY <1>1, <1>2, PTL DEF CodesSpec

LEMMA InvImpliesNarrows ==
  ASSUME SearchInv
  PROVE  SearchNarrows
<1> SUFFICES ASSUME draw = "search", NEW i \in 0..get_profanity_len - 1,
                    get_profanity_at(i) = code
             PROVE  left <= i /\ i <= right
  BY DEF SearchNarrows
<1>1. get_profanity_len \in Nat /\ i + 1 \in 1..get_profanity_len
  BY ProfanityIsSorted
<1>2. Profanity[i + 1] = code
  BY DEF get_profanity_at
<1>3. ~precedes(code, code)
  BY BytesAreInts, PrecedesIrreflexive DEF SearchInv
<1>4. ~(i + 1 <= left) /\ ~(i + 1 > right + 1)
  BY <1>1, <1>2, <1>3 DEF SearchInv
<1> QED
  BY <1>1, <1>4 DEF SearchInv

\* The binary search never leaves out the entry it looks for, whatever the
\* sorted list is.
THEOREM SearchIsRight == Spec => []SearchNarrows
<1>1. SearchInv => SearchNarrows
  BY InvImpliesNarrows
<1> QED
  BY <1>1, SearchInvariant, RequestsImplementCodes, PTL

LEMMA OpenStepIsFit ==
  ASSUME SearchInv, [Next]_vars, draw = "search", draw' = "open"
  PROVE  Fit(code)
<1>1. OpenRoom
  BY NextUsesCodes DEF CodesNext, DrawStep, codeVars, BeginDraw, Draw, SearchLeft,
                       SearchRight, Profane
<1>2. left > right
  BY <1>1 DEF OpenRoom
<1>3. ASSUME NEW i \in DOMAIN Profanity
      PROVE  Profanity[i] # code
  <2>1. i \in 1..get_profanity_len
    BY <1>3, CodeAssumption DEF get_profanity_len
  <2>2. ~precedes(code, code)
    BY BytesAreInts, PrecedesIrreflexive DEF SearchInv
  <2>3. i <= left \/ i > right + 1
    BY <1>2, <2>1, ProfanityIsSorted DEF SearchInv
  <2> QED
    BY <2>1, <2>2, <2>3 DEF SearchInv
<1> QED
  BY <1>3 DEF Fit, SearchInv

\* No room is opened under a code that is in use or profane, whatever the list,
\* the codes that are drawn and the requests that arrive.
THEOREM OpenedCodesAreFitThm == Spec => OpenedCodesAreFit
<1>1. SearchInv /\ [Next]_vars => [draw = "search" /\ draw' = "open" => Fit(code)]_vars
  BY OpenStepIsFit
<1> QED
  BY <1>1, SearchInvariant, RequestsImplementCodes, PTL DEF OpenedCodesAreFit, Spec

TurnsOK ==
  /\ turn \in {"read", "act", "draw", "told", "over"}
  /\ in_room \in BOOLEAN /\ invited \in BOOLEAN

LEMMA TurnsStep ==
  ASSUME TurnsOK, [Next]_vars
  PROVE  TurnsOK'
<1> USE DEF TurnsOK
<1>1. CASE Read
  BY <1>1 DEF Read
<1>2. CASE Refuse
  BY <1>2 DEF Refuse, Close, Answer
<1>3. CASE NotInRoom
  BY <1>3 DEF NotInRoom, Close, Answer
<1>4. CASE AlreadyInRoom
  BY <1>4 DEF AlreadyInRoom, Close, Answer
<1>5. CASE ToRoom
  BY <1>5 DEF ToRoom, Answer
<1>6. CASE JoinRoom
  BY <1>6 DEF JoinRoom, Close, Answer
<1>7. CASE CreateRoom
  BY <1>7 DEF CreateRoom, Close, Answer
<1>8. CASE DrawCode
  BY <1>8 DEF DrawCode, messageVars
<1>9. CASE TellHost
  BY <1>9 DEF TellHost
<1>10. CASE Invite
  BY <1>10 DEF Invite
<1>11. CASE UNCHANGED vars
  BY <1>11 DEF vars, messageVars
<1> QED
  BY <1>1, <1>2, <1>3, <1>4, <1>5, <1>6, <1>7, <1>8, <1>9, <1>10, <1>11 DEF Next, Over

\* The type invariant: the search stays within the list, and every key of
\* room_map is the integer of a code that can be drawn.
THEOREM RequestTypes == Spec => []RequestTypeOK
<1>1. Init => TurnsOK
  BY DEF Init, TurnsOK
<1>2. TurnsOK /\ [Next]_vars => TurnsOK'
  BY TurnsStep
<1>3. SearchInv /\ TurnsOK => RequestTypeOK
  BY DEF SearchInv, TurnsOK, RequestTypeOK
<1> QED
  BY <1>1, <1>2, <1>3, SearchInvariant, RequestsImplementCodes, PTL DEF Spec
-----------------------------------------------------------------------------
(* The messages and what comes of them.                                    *)

MessageInv ==
  /\ text \in Seq(Token)
  /\ turn = "act" => request = parse_player_request(text)
  /\ turn = "told" => draw = "open"
  /\ draw = "open" => code \in RoomCode /\ from_be_bytes(code) \in roomMap
  /\ invited => turn \in {"read", "act", "over"} /\ ~in_room
  /\ invited /\ turn \in {"read", "act"} =>
       \E c \in RoomCode : text = <<J, Space, c, Newline>> /\ from_be_bytes(c) \in roomMap
  /\ invited /\ turn = "over" => answer = <<"joined">>

LEMMA InvitationIsJoin ==
  ASSUME MessageInv, invited, turn = "act"
  PROVE  \E c \in RoomCode : request = Join(c) /\ from_be_bytes(c) \in roomMap
<1>1. PICK c \in RoomCode :
        text = <<J, Space, c, Newline>> /\ from_be_bytes(c) \in roomMap
  BY DEF MessageInv
<1>2. c \in [1..4 -> 65..90]
  BY CodeAssumption DEF RoomCode
<1>3. c \in ToSet(text)
  <2>1. 3 \in DOMAIN text /\ text[3] = c
    BY <1>1
  <2> QED
    BY <2>1 DEF ToSet
<1>4. Join(c) \in Readings(text)
  BY <1>1, <1>2, <1>3 DEF Readings
<1>5. parse_player_request(text) = Join(c)
  BY <1>4, ReadingIsParsed DEF MessageInv
<1> QED
  BY <1>1, <1>5 DEF MessageInv

LEMMA MessageStep ==
  ASSUME SearchInv, MessageInv, [Next]_vars
  PROVE  MessageInv'
<1>1. CASE Read
  BY <1>1 DEF MessageInv, Read, codeVars, parse_player_request
<1>2. CASE Refuse \/ NotInRoom \/ AlreadyInRoom \/ ToRoom \/ CreateRoom
  <2>1. turn = "act" /\ UNCHANGED <<text, invited, in_room>>
    BY <1>2 DEF Refuse, NotInRoom, AlreadyInRoom, ToRoom, CreateRoom, Close, Answer
  <2>2. ~invited
    <3> SUFFICES ASSUME invited
                 PROVE  FALSE
      OBVIOUS
    <3>1. request.kind = "Join"
      BY <2>1, InvitationIsJoin DEF Join
    <3>2. ~in_room
      BY DEF MessageInv
    <3> QED
      BY <1>2, <3>1, <3>2 DEF Refuse, NotInRoom, AlreadyInRoom, ToRoom, CreateRoom
  <2>3. turn' \in {"over", "draw"}
    BY <1>2 DEF Refuse, NotInRoom, AlreadyInRoom, ToRoom, CreateRoom, Close, Answer
  <2>4. UNCHANGED codeVars \/ draw' = "draw"
    BY <1>2 DEF Refuse, NotInRoom, AlreadyInRoom, ToRoom, CreateRoom, BeginDraw
  <2> QED
    BY <2>1, <2>2, <2>3, <2>4 DEF MessageInv, codeVars
<1>3. CASE JoinRoom
  <2>1. /\ turn = "act" /\ turn' = "over"
        /\ UNCHANGED <<codeVars, text, invited, in_room>>
    BY <1>3 DEF JoinRoom, Close, Answer
  <2>2. invited => answer' = <<"joined">>
    <3> SUFFICES ASSUME invited
                 PROVE  answer' = <<"joined">>
      OBVIOUS
    <3>1. from_be_bytes(request.room_code) \in roomMap
      BY <2>1, InvitationIsJoin DEF Join
    <3> QED
      BY <1>3, <3>1 DEF JoinRoom, Answer
  <2> QED
    BY <2>1, <2>2 DEF MessageInv, codeVars
<1>4. CASE DrawCode
  <2>1. turn = "draw" /\ UNCHANGED messageVars
    BY <1>4 DEF DrawCode
  <2>2. ~invited
    BY <2>1 DEF MessageInv
  <2>3. draw' = "open" => code' \in RoomCode /\ from_be_bytes(code)' \in roomMap'
    <3>1. draw' = "open" => OpenRoom \/ UNCHANGED codeVars
      BY <1>4 DEF DrawCode, DrawStep, Draw, SearchLeft, SearchRight, Profane
    <3>2. OpenRoom => code' \in RoomCode /\ from_be_bytes(code)' \in roomMap'
      BY DEF SearchInv, OpenRoom, from_be_bytes
    <3> QED
      BY <3>1, <3>2 DEF MessageInv, codeVars, from_be_bytes
  <2> QED
    BY <2>1, <2>2, <2>3 DEF MessageInv, messageVars
<1>5. CASE TellHost
  BY <1>5 DEF MessageInv, TellHost, codeVars
<1>6. CASE Invite
  <2>1. /\ turn = "told" /\ turn' = "read" /\ in_room' = FALSE
        /\ UNCHANGED <<codeVars, answer>>
    BY <1>6 DEF Invite
  <2>2. code \in RoomCode /\ from_be_bytes(code) \in roomMap
    BY <2>1 DEF MessageInv
  <2>3. text' \in Seq(Token)
    <3>1. code \in Token
      BY <2>2, CodesAreBytes DEF Token
    <3>2. J \in Token /\ Space \in Token /\ Newline \in Token
      BY RequestAssumption DEF Token, J, Space, Newline
    <3>3. \A a, b, c, d \in Token : <<a, b, c, d>> \in Seq(Token) /\ <<a, b, c>> \in Seq(Token)
      OBVIOUS
    <3> QED
      BY <1>6, <3>1, <3>2, <3>3, Zenon DEF Invite
  <2>4. invited' => text' = <<J, Space, code, Newline>>
    BY <1>6 DEF Invite
  <2> QED
    BY <2>1, <2>2, <2>3, <2>4 DEF MessageInv, codeVars
<1>7. CASE UNCHANGED vars
  BY <1>7 DEF MessageInv, vars, codeVars, messageVars, parse_player_request
<1> QED
  BY <1>1, <1>2, <1>3, <1>4, <1>5, <1>6, <1>7 DEF Next, Over

LEMMA MessageInitInv ==
  ASSUME Init
  PROVE  MessageInv
BY TextAssumption DEF Init, CodesInit, MessageInv

\* MessageInv is an invariant: what a task has read is what the message says, and
\* an invitation on its way names a room that is open.
THEOREM MessageInvariant == Spec => []MessageInv
<1>1. Init => MessageInv
  BY MessageInitInv
<1>2. SearchInv /\ MessageInv /\ [Next]_vars => MessageInv'
  BY MessageStep
<1> QED
  BY <1>1, <1>2, SearchInvariant, RequestsImplementCodes, PTL DEF Spec

\* Whatever the messages are, each is accepted exactly when it is the written form
\* of a request, and as that request.
THEOREM TextsAreReadThm == Spec => []TextsAreRead
<1>1. MessageInv => TextsAreRead
  <2> SUFFICES ASSUME MessageInv, turn = "act"
               PROVE  Readings(text) = IF request.kind = "Err" THEN {} ELSE {request}
    BY DEF TextsAreRead
  <2> QED
    BY ParsedAsWritten DEF MessageInv
<1> QED
  BY <1>1, MessageInvariant, PTL

\* Whatever the letters, the profanity and the rooms are, a client that sends back
\* the code a host was told is let into the room of that host.
THEOREM InvitesAreUnderstoodThm == Spec => []InvitesAreUnderstood
<1>1. MessageInv => InvitesAreUnderstood
  BY DEF MessageInv, InvitesAreUnderstood
<1> QED
  BY <1>1, MessageInvariant, PTL
=============================================================================
