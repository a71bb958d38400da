---------------------------- MODULE CommandQueue ----------------------------
(***************************************************************************)
(* Queues of window commands (WinCmd, mac.rs) and what AppKit makes of     *)
(* them, handling one command after the other from the head.  A queue may  *)
(* be the main dispatch queue of the one process, or the way to a window   *)
(* host in --multiplex mode.                                               *)
(***************************************************************************)
EXTENDS Integers, Sequences, FiniteSets

NoWin == 0                     \* stands for None; window ids start at 1

CreateOps == {"Create", "CreatePopup", "CreateLayer"}

(* The commands for windows of Ws.  Only a SetGrab may name no window. *)
Commands(Ws) == [op : CreateOps \cup {"Frame", "Destroy"}, win : Ws]
                  \cup [op : {"SetGrab"}, win : Ws \cup {NoWin}]

Cmd(op, w) == [op |-> op, win |-> w]

Creates(c, w)  == c.op \in CreateOps /\ c.win = w
Destroys(c, w) == c.op = "Destroy" /\ c.win = w
Paints(c, w)   == c.op = "Frame" /\ c.win = w
Grabs(c, w)    == c.op = "SetGrab" /\ c.win = w

(* Window w is on screen once the first n commands of q are handled, if    *)
(* the windows W are now.                                                  *)
Shown(q, W, w, n) ==
  \/ w \in W /\ \A j \in 1 .. n : ~Destroys(q[j], w)
  \/ \E i \in 1 .. n : Creates(q[i], w) /\ \A j \in i + 1 .. n : ~Destroys(q[j], w)

(* The commands of q that will put w on screen or take it off. *)
Changes(q, W, w) ==
  {i \in 1 .. Len(q) : Creates(q[i], w) \/ (Destroys(q[i], w) /\ Shown(q, W, w, i - 1))}

(* Command i of q creates no window that is still there, which would drop  *)
(* the old NSWindow without closing it, and paints none that is not there, *)
(* which would lose the frame.                                             *)
Fits(q, W, i, w) ==
  /\ Creates(q[i], w) => ~Shown(q, W, w, i - 1)
  /\ Paints(q[i], w)  => Shown(q, W, w, i - 1)

(* q takes the windows on screen from W to C, no command missing its       *)
(* window.                                                                 *)
Leads(Ws, q, W, C) ==
  /\ \A w \in Ws : Shown(q, W, w, Len(q)) <=> w \in C
  /\ \A i \in 1 .. Len(q), w \in Ws : Fits(q, W, i, w)

(* After its first n commands, q takes the pointer grab from w. *)
TakenAway(q, w, n) ==
  \E j \in n + 1 .. Len(q) : Destroys(q[j], w) \/ (q[j].op = "SetGrab" /\ q[j].win # w)

(* G holds the grab while L live and P are popups: only popups hold it or  *)
(* are about to, and those that do not live will lose it.                  *)
Held(Ws, q, G, L, P) ==
  /\ G # NoWin => G \in P /\ (G \in L \/ TakenAway(q, G, 0))
  /\ \A i \in 1 .. Len(q), w \in Ws :
       Grabs(q[i], w) => w \in P /\ (w \in L \/ TakenAway(q, w, i))

(* G is on screen, and so will be whoever takes the grab next. *)
Anchored(Ws, q, W, G) ==
  /\ G # NoWin => G \in W
  /\ \A i \in 1 .. Len(q), w \in Ws : Grabs(q[i], w) => Shown(q, W, w, i - 1)
=============================================================================
