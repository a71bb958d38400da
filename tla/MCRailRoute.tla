---------------------------- MODULE MCRailRoute ----------------------------
(***************************************************************************)
(* RailRoute with the geometry of one app: its shadow frame and the        *)
(* content window inside it.                                               *)
(***************************************************************************)
EXTENDS RailRoute

Frame   == [x |-> -26, y |-> -23, w |-> 1332, h |-> 1092]
Content == [x |-> 0, y |-> 0, w |-> 1280, h |-> 1040]

MCRects == {Frame, Content}
=============================================================================
