---------------------------- MODULE MCMenuInput -----------------------------
(* MenuInput on a small instance: one menu opens over its window, the      *)
(* other beside it.                                                        *)
EXTENDS MenuInput, TLC

MCFrame == (1 :> {"button", "item"}) @@ (2 :> {"item"}) @@ (3 :> {"aside"})

ButtonSymmetry == Permutations(Buttons)

(* The state without what no step and no property of a button that was     *)
(* down alone reads: where the press of another button went, and whether   *)
(* the cursor moved then.  A new press begins both anew.                   *)
Awaited ==
  [b \in Buttons |-> IF held[b] \in {NoWin, NoView} \/ b \in chorded THEN NoWin ELSE went[b]]

MenuView ==
  <<wayland, queue, bus, WINDOWS, GRAB, IMPLICIT_GRAB, IMPLICIT_GRAB_ORIGIN,
    held, Awaited, moved \ chorded, chorded, cursor, stranded>>
=============================================================================
