---------------------------- MODULE MCClipboard ----------------------------
(* Clipboard on a small instance: a client that copies a text, one that    *)
(* copies a picture.                                                       *)
EXTENDS Clipboard, TLC

CONSTANTS c1, c2, s1, s2

MCClientOf == s1 :> c1 @@ s2 :> c2
=============================================================================
