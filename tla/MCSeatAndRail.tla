--------------------------- MODULE MCSeatAndRail ----------------------------
(***************************************************************************)
(* SeatFocus and RailRoute on small instances, in one run.  They share no  *)
(* state: `part` says which of them a behaviour is about, and the other    *)
(* stays as it begins.                                                     *)
(***************************************************************************)
EXTENDS SeatFocus, MCRailRoute, TLC

VARIABLE part

(* The windows of both bear the same names. *)
ASSUME NamesAssumption == Ids = Windows

PartInit == SeatInit /\ Init /\ part \in {"seat", "rail"}

PartNext ==
  /\ UNCHANGED part
  /\ \/ part = "seat" /\ SeatNext /\ UNCHANGED vars
     \/ part = "rail" /\ Next /\ UNCHANGED seatVars

PartSpec == PartInit /\ [][PartNext]_<<part, seatVars, vars>>

Symmetry == Permutations(Windows)
=============================================================================
