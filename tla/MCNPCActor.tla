------------------------------- MODULE MCNPCActor -------------------------------
(* The actor under TLC; jobs and threads are interchangeable. *)
EXTENDS NPCActor, TLC

Symmetry == Permutations(Jobs) \cup Permutations(Workers)
===============================================================================
