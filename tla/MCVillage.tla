------------------------------- MODULE MCVillage -------------------------------
(* The village under TLC: the first acorn knocks one player out, the second the other. *)
EXTENDS Village

CONSTANTS anna, bert
MCPlayers == {anna, bert}
MCHealth == (anna :> 1) @@ (bert :> 2)
===============================================================================
