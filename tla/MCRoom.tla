------------------------------- MODULE MCRoom -------------------------------
(***************************************************************************)
(* RoomSystem on small instances.  The players other than the host are     *)
(* interchangeable: no definition names one of them, none orders them.     *)
(***************************************************************************)
EXTENDS RoomSystem

LOCAL INSTANCE TLC

Peers == Permutations(PlayerId \ {HOST_ID})
=============================================================================
