---------------------------- MODULE RoomLifecycle ----------------------------
(***************************************************************************)
(* What a room and the lobby promise each other, whatever happens inside   *)
(* either of them: the channel in which the lobby sends clients, the two   *)
(* signals that the room sends back, and what the lobby's list makes of    *)
(* them.                                                                   *)
(*                                                                         *)
(* Clients come in one for one from the channel, only while the room is    *)
(* open.  Then it only empties; it says SealRoom before it looks for the   *)
(* last clients in the channel, and CloseRoom only when nobody is inside.  *)
(* Each is said once.  The lobby sends clients only to a room it lists as  *)
(* open, and never runs ahead of the room: it lists it as sealed, and then *)
(* takes it off the list, when the room has said so; or it evicts the      *)
(* room, which only then may be cut short; or it does not listen any more. *)
(***************************************************************************)
EXTENDS Naturals

CONSTANTS Member, Host, MayEvict, Capacity

VARIABLES
  phase,   \* how far the room is
  inside,  \* the members whose tasks it has
  queued,  \* how many clients are in the channel to it
  signals, \* what it has said and the lobby has not heard
  listing  \* what the lobby's list says

vars == <<phase, inside, queued, signals, listing>>

Init ==
  /\ phase = "open" /\ inside = {} /\ queued = 0 /\ signals = {}
  /\ listing = "open"

Running == phase \in {"open", "closing", "sealed", "swept"}

\* The lobby sends a client.  Whether the room will still read it is not known.
Send ==
  /\ listing = "open" /\ Running /\ queued < Capacity
  /\ queued' = queued + 1
  /\ UNCHANGED <<phase, inside, signals, listing>>

\* The host comes with the room, all others from the channel.
Enter(i) ==
  /\ phase = "open" /\ i \notin inside
  /\ \/ i = Host /\ UNCHANGED queued
     \/ i # Host /\ queued > 0 /\ queued' = queued - 1
  /\ inside' = inside \cup {i}
  /\ UNCHANGED <<phase, signals, listing>>

\* The room takes a client only to tell it that it cannot come in.
TurnAway ==
  /\ phase \in {"open", "sealed"} /\ queued > 0
  /\ queued' = queued - 1
  /\ UNCHANGED <<phase, inside, signals, listing>>

Leave(i) ==
  /\ i \in inside
  /\ inside' = inside \ {i}
  /\ UNCHANGED <<phase, queued, signals, listing>>

BeginClosing ==
  /\ phase = "open"
  /\ phase' = "closing"
  /\ UNCHANGED <<inside, queued, signals, listing>>

Seal ==
  /\ phase = "closing"
  /\ phase' = "sealed"
  /\ signals' = signals \cup {"seal"}
  /\ UNCHANGED <<inside, queued, listing>>

\* From now on a client that is sent is lost.
Sweep ==
  /\ phase = "sealed" /\ inside = {} /\ queued = 0
  /\ phase' = "swept"
  /\ UNCHANGED <<inside, queued, signals, listing>>

Close ==
  /\ phase = "swept"
  /\ phase' = "closed"
  /\ queued' = 0
  /\ signals' = signals \cup {"close"}
  /\ UNCHANGED <<inside, listing>>

RoomActs ==
  \/ \E i \in Member : Enter(i) \/ Leave(i)
  \/ TurnAway \/ BeginClosing \/ Seal \/ Sweep \/ Close

Hear(signal, before, after) ==
  /\ signal \in signals /\ signals' = signals \ {signal}
  /\ listing = before /\ listing' = after
  /\ UNCHANGED <<phase, inside, queued>>

ListAsSealed == Hear("seal", "open", "sealed")
Unlist == Hear("close", "sealed", "removed")

\* The lobby has no such room, or does not keep its list any more.
Ignore == \E signal \in signals, off \in {"removed", "unread"} : Hear(signal, off, off)

StopListing ==
  /\ listing \in {"open", "sealed"}
  /\ listing' = "unread"
  /\ UNCHANGED <<phase, inside, queued, signals>>

LobbyActs == Send \/ ListAsSealed \/ Unlist \/ Ignore \/ StopListing

\* The lobby takes the room off its list to make room for others ...
Evict ==
  /\ listing \in {"open", "sealed"}
  /\ listing' = "removed"
  /\ UNCHANGED <<phase, inside, queued, signals>>

\* ... and then, only then, the room may be cut short.
Abort ==
  /\ listing = "removed" /\ Running
  /\ phase' = "aborted"
  /\ queued' = 0
  /\ UNCHANGED <<inside, signals, listing>>

Next == RoomActs \/ LobbyActs \/ (MayEvict /\ (Evict \/ Abort))

Spec == Init /\ [][Next]_vars
=============================================================================
