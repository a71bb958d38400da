----------------------------- MODULE AppScreens -----------------------------
(***************************************************************************)
(* WindowScreen for windows that live in processes of their own, one per   *)
(* app: the screen follows the clients in the same way, until a process    *)
(* ends.  Then the windows of that app, and no others, are gone with all   *)
(* changes in flight, until they are asked for again.                      *)
(***************************************************************************)
EXTENDS WindowScreen

CONSTANTS
  Apps,
  AppOf     \* the app of a window

(* The process of a ends; killed, or of itself. *)
Lose(a) ==
  LET ws == {w \in Windows : AppOf[w] = a} IN
  /\ wanted' = wanted \ ws
  /\ shown' = shown \ ws
  /\ inFlight' = [w \in Windows |-> IF w \in ws THEN 0 ELSE inFlight[w]]

AppNext == Next \/ \E a \in Apps : Lose(a)

AppSafeSpec == Init /\ [][AppNext]_vars

AppSpec == AppSafeSpec /\ \A w \in Windows : WF_vars(Apply(w))
=============================================================================
