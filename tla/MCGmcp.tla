--------------------------------- MODULE MCGmcp ---------------------------------
(* GMCP under TLC: a family of packages and one of its members. *)
EXTENDS Gmcp, TLC

MCCovers == ("Char" :> {"Char.Vitals"}) @@ ("Char.Vitals" :> {"Char.Vitals"}) @@ ("Room" :> {"Room.Info"})
===============================================================================
