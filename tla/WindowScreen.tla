---------------------------- MODULE WindowScreen ----------------------------
(***************************************************************************)
(* What the window machinery promises, without threads, records or         *)
(* queues: the screen follows the clients.  Each window is asked for or    *)
(* withdrawn by its client; the screen lags behind by the changes still in *)
(* flight, applies every one of them once, in order, and in the end        *)
(* catches up.                                                             *)
(***************************************************************************)
EXTENDS Naturals

CONSTANT Windows

VARIABLES
  wanted,     \* windows the clients want on screen now
  shown,      \* windows on screen
  inFlight    \* changes of `wanted` the screen has not followed yet, by window

vars == <<wanted, shown, inFlight>>

Init ==
  /\ wanted = {}
  /\ shown = {}
  /\ inFlight = [w \in Windows |-> 0]

(* Clients change their mind about the windows ws. *)
Ask(ws) ==
  /\ wanted' = (wanted \cup ws) \ (wanted \cap ws)
  /\ inFlight' = [w \in Windows |-> IF w \in ws THEN inFlight[w] + 1 ELSE inFlight[w]]
  /\ UNCHANGED shown

(* The screen follows the oldest change of w. *)
Apply(w) ==
  /\ inFlight[w] > 0
  /\ inFlight' = [inFlight EXCEPT ![w] = @ - 1]
  /\ shown' = IF w \in shown THEN shown \ {w} ELSE shown \cup {w}
  /\ UNCHANGED wanted

Next ==
  \/ \E ws \in SUBSET Windows : Ask(ws)
  \/ \E w \in Windows : Apply(w)

SafeSpec == Init /\ [][Next]_vars

Spec == SafeSpec /\ \A w \in Windows : WF_vars(Apply(w))
=============================================================================
