------------------------- MODULE MCMultiplexRouter -------------------------
(***************************************************************************)
(* MultiplexRouter with one app of two toplevels and a menu, and another   *)
(* app of one toplevel.                                                    *)
(***************************************************************************)
EXTENDS MultiplexRouter, TLC

CONSTANTS editor, panel, document, palette, menu, clock

MCAppOf    == (document :> editor) @@ (palette :> editor) @@ (menu :> editor) @@ (clock :> panel)
MCParentOf == menu :> document

ScreensFollowApps == Screens!AppSpec
=============================================================================
