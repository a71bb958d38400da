--------------------------- MODULE MCShellWindows ---------------------------
(***************************************************************************)
(* ShellWindows on small instances, and that it implements WindowScreen    *)
(* with its fairness.  The step refinement is also a theorem, see          *)
(* ShellWindows_proofs.                                                    *)
(***************************************************************************)
EXTENDS ShellWindows

(* The threads, records and commands of the code implement a screen that   *)
(* follows the clients: every create and destroy takes effect exactly      *)
(* once, in the order the clients caused them, and none is left behind.    *)
ScreenFollowsClients == Screen!Spec
=============================================================================
