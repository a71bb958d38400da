-------------------------- MODULE MCRouterAndSubs --------------------------
(***************************************************************************)
(* MultiplexRouter and Subsurfaces on small instances, in one run.  They   *)
(* share no state: `part` says which of them a behaviour is about, and the *)
(* other stays as it begins.                                               *)
(***************************************************************************)
EXTENDS MCMultiplexRouter, Subsurfaces

VARIABLE part

PartInit == Init /\ SubInit /\ part \in {"router", "subsurfaces"}

PartNext ==
  /\ UNCHANGED part
  /\ \/ part = "router" /\ Next /\ UNCHANGED subVars
     \/ part = "subsurfaces" /\ SubNext /\ UNCHANGED vars

(* The fairness of the router; subsurfaces promise no progress. *)
PartSpec ==
  /\ PartInit /\ [][PartNext]_<<part, vars, subVars>>
  /\ \A a \in Apps : /\ WF_vars(part = "router" /\ HandleCmd(a))
                     /\ WF_vars(part = "router" /\ ReadInsets(a))
=============================================================================
