------------------------------ MODULE MCLobby ------------------------------
(***************************************************************************)
(* LobbySystem on small instances.  Clients, handle ids, codes and rooms   *)
(* are interchangeable: no definition names one, none orders them.         *)
(***************************************************************************)
EXTENDS LobbySystem

LOCAL INSTANCE TLC

Names == Permutations(Client) \cup Permutations(HandleId)
           \cup Permutations(RoomCode) \cup Permutations(RoomId)
=============================================================================
