------------------------------- MODULE MCAdvisory -------------------------------
(* One NPC's remote voice under TLC. *)
EXTENDS Advisory
===============================================================================
