------------------------------ MODULE MCSession -----------------------------
(***************************************************************************)
(* An instance of ClientSession for TLC: a file with the default values, a *)
(* tighter one, one whose limits are each in range but in the wrong order. *)
(* All times are multiples of the five seconds that pass at once.          *)
(***************************************************************************)
EXTENDS ClientSession

Times(join, ping, limit) ==
  [DefaultConfig EXCEPT !.join_room_time_limit_secs = join,
                        !.ping_interval_secs = ping,
                        !.response_time_limit_secs = limit]

MCReader == {"lobby", "player"}
MCCandidates == {DefaultConfig, Times(5, 10, 15), Times(5, 20, 15)}
MCSteps == {5}
=============================================================================
