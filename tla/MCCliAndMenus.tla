--------------------------- MODULE MCCliAndMenus ---------------------------
(***************************************************************************)
(* CliInstances and MenuInput on small instances, in one run.  They share  *)
(* no state: `part` says which of them a behaviour is about, and the other *)
(* stays as it begins, in one way.                                         *)
(***************************************************************************)
EXTENDS MCCliInstances, MCMenuInput

VARIABLE part

PartInit ==
  /\ CliInit /\ Init
  /\ part \in {"cli", "menus"}
  /\ part # "cli" => port = [c \in Clis |-> p1] /\ command[c3] = "stop"
  /\ part # "menus" => focus_window = NoWin /\ cursor = "aside"

PartNext ==
  /\ UNCHANGED part
  /\ \/ part = "cli" /\ CliNext /\ UNCHANGED vars
     \/ part = "menus" /\ Next /\ UNCHANGED cliVars

PartSpec == PartInit /\ [][PartNext]_<<part, cliVars, vars>>

PartView == <<part, cliVars, MenuView>>
=============================================================================
