------------------------------ MODULE MCConnection ------------------------------
(* The selector server under TLC; connections are interchangeable. *)
EXTENDS Connection, TLC

Symmetry == Permutations(Connections)
===============================================================================
