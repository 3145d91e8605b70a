----------------------------- MODULE MCRequests -----------------------------
(***************************************************************************)
(* An instance of RequestSystem for TLC: every text of at most five tokens *)
(* and longer ones that name a player with a sign and up to three digits;  *)
(* 81 codes, of which seven are profanity, neither the first nor the last. *)
(***************************************************************************)
EXTENDS RequestSystem

MCLetter == {65, 77, 90}
MCProfanity ==
  <<<<65, 65, 90, 65>>, <<65, 90, 65, 77>>, <<77, 65, 65, 90>>,
    <<77, 77, 77, 77>>, <<77, 77, 90, 65>>, <<90, 65, 77, 77>>, <<90, 90, 77, 65>>>>

MCName == {"J:", "S:", "O:", "A:", "C:", "+", " ", "\n", "0", "7"}
Zero == <<"0">>
Seven == <<"7">>
MCDigit == (Zero :> 0) @@ (Seven :> 7)

Lower == <<97, 98, 99, 100>>
MCToken == {J, S, O, Space, Newline, Zero, Seven, Lower, <<77, 65, 90, 90>>}
MCTexts ==
  SeqOf(MCToken, 5) \cup
  {<<O, Space>> \o id \o <<Newline>> \o payload :
     id \in SeqOf({Plus, Zero, Seven}, 3), payload \in {<<S>>, <<Newline, Space>>}}
=============================================================================
