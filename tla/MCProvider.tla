------------------------------- MODULE MCProvider -------------------------------
(* The provider under TLC: two paid models, one of them too dear, and a free one. *)
EXTENDS Provider, TLC

CONSTANTS cheap, dear, free
MCModels == {cheap, dear, free}
MCPrice == (cheap :> 1) @@ (dear :> 3) @@ (free :> 0)
MCCatalogues == {[paid |-> <<cheap, dear>>, free |-> <<free>>], [paid |-> <<>>, free |-> <<free>>]}
Symmetry == Permutations(Workers)

\* No action and no property reads what is owed for another day than today, nor, until the day
\* ends, what is owed for a day that is excused: states that differ in these only are one.
View == <<rotation, book, log, call, world, excused, IF excused THEN <<>> ELSE <<owed[today], forgotten>>>>
===============================================================================
