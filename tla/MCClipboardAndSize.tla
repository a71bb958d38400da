------------------------- MODULE MCClipboardAndSize -------------------------
(***************************************************************************)
(* Clipboard and WindowSize on small instances, in one run.  They share no *)
(* state: `part` says which of them a behaviour is about, and the other    *)
(* stays as it begins, in one way and with nothing to do.                  *)
(***************************************************************************)
EXTENDS MCClipboard, WindowSize

VARIABLE part

PartInit ==
  /\ ClipInit /\ SizeInit
  /\ part \in {"clipboard", "size"}
  /\ part # "clipboard" => pasteboard = NoText
  /\ part # "size" => ~decorated /\ shadow = 0 /\ content = 1

PartNext ==
  /\ UNCHANGED part
  /\ \/ part = "clipboard" /\ ClipNext /\ UNCHANGED sizeVars
     \/ part = "size" /\ SizeNext /\ UNCHANGED clipVars

(* The fairness of each of them. *)
PartSpec ==
  /\ PartInit /\ [][PartNext]_<<part, clipVars, sizeVars>>
  /\ WF_clipVars(part = "clipboard" /\ (Flush \/ HandleEvent \/ LoopStep))
  /\ WF_clipVars(part = "clipboard" /\ (MarkWritten \/ TickPush \/ PushDone))
  /\ SF_clipVars(part = "clipboard" /\ TickCount)
  /\ WF_sizeVars(part = "size" /\ System) /\ WF_sizeVars(part = "size" /\ Configured)
  /\ WF_sizeVars(part = "size" /\ DropEdge) /\ WF_sizeVars(part = "size" /\ MouseUp)
=============================================================================
