--------------------------- MODULE MCCliInstances ---------------------------
(* CliInstances on a small instance. *)
EXTENDS CliInstances, TLC

CONSTANTS p1, p2, c1, c2, c3

MCExtensions == {<<p1, p2>>}
MCCommands == c1 :> {"detach"} @@ c2 :> {"up"} @@ c3 :> {"stop", "all"}
MCStopOne  == c1 :> {"detach"} @@ c2 :> {"up"} @@ c3 :> {"stop"}
=============================================================================
