------------------------------ MODULE InputBus ------------------------------
(***************************************************************************)
(* How the AppKit main thread hands events to the Wayland thread           *)
(* (input.rs), and the poll loop that takes them (wayland::run, mod.rs).   *)
(* A push is two steps: the event goes into the queue under one lock, the  *)
(* byte that wakes the loop goes through the waker under another.  The     *)
(* loop looks at the queue only when poll found the pipe readable.         *)
(***************************************************************************)
EXTENDS Integers, Sequences

CONSTANTS
  InputEvents   \* what may be pushed

VARIABLES
  queue,        \* InputBus.queue
  waker,        \* InputBus.waker is set
  pipe,         \* the self-pipe holds bytes
  pushing,      \* the main thread is between the two halves of a push
  loop,         \* where the Wayland thread is in its loop
  batch,        \* drained events still to be handled
  (* history, read by properties only *)
  early         \* an event of the queue found no waker to call

busVars == <<queue, waker, pipe, pushing, loop, batch, early>>

BusTypeOK ==
  /\ queue \in Seq(InputEvents) /\ batch \in Seq(InputEvents)
  /\ waker \in BOOLEAN /\ pipe \in BOOLEAN /\ pushing \in BOOLEAN /\ early \in BOOLEAN
  /\ loop \in {"start", "poll", "drain", "handle", "turn"}

BusInit ==
  /\ queue = <<>> /\ batch = <<>>
  /\ waker = FALSE /\ pipe = FALSE /\ pushing = FALSE /\ early = FALSE
  /\ loop = "start"

(* InputBus::push, first half *)
Push(e) ==
  /\ ~pushing
  /\ queue' = Append(queue, e)
  /\ pushing' = TRUE
  /\ UNCHANGED <<waker, pipe, loop, batch, early>>

(* InputBus::push, second half *)
Wake ==
  /\ pushing
  /\ pushing' = FALSE
  /\ pipe' = (pipe \/ waker)
  /\ early' = (early \/ ~waker)
  /\ UNCHANGED <<queue, waker, loop, batch>>

(* The display is up: the loop begins. *)
SetWaker ==
  /\ loop = "start"
  /\ waker' = TRUE
  /\ loop' = "poll"
  /\ UNCHANGED <<queue, pipe, pushing, batch, early>>

(* poll returns, for a byte of the main thread, a client, or the timeout. *)
Poll ==
  /\ loop = "poll"
  /\ loop' = IF pipe THEN "drain" ELSE "turn"
  /\ pipe' = FALSE
  /\ UNCHANGED <<queue, waker, pushing, batch, early>>

(* Mutant: one event for each byte, whatever else is queued. *)
DrainOne ==
  /\ loop = "drain"
  /\ batch' = SubSeq(queue, 1, 1)
  /\ queue' = SubSeq(queue, 2, Len(queue))
  /\ early' = FALSE
  /\ loop' = IF queue = <<>> THEN "turn" ELSE "handle"
  /\ UNCHANGED <<waker, pipe, pushing>>

Drain ==
  /\ loop = "drain"
  /\ batch' = queue
  /\ queue' = <<>>
  /\ early' = FALSE
  /\ loop' = IF queue = <<>> THEN "turn" ELSE "handle"
  /\ UNCHANGED <<waker, pipe, pushing>>

(* The next event of the batch leaves it, for its handler. *)
Take ==
  /\ loop = "handle" /\ batch # <<>>
  /\ batch' = Tail(batch)
  /\ loop' = IF Tail(batch) = <<>> THEN "turn" ELSE "handle"
  /\ UNCHANGED <<queue, waker, pipe, pushing, early>>

(* Mutant: the pipe is emptied at the end of the turn. *)
TurnDoneEmptiesPipe ==
  /\ loop = "turn"
  /\ loop' = "poll"
  /\ pipe' = FALSE
  /\ UNCHANGED <<queue, waker, pushing, batch, early>>

(* The clients' requests are dispatched: what is to be sent is flushed. *)
TurnDone ==
  /\ loop = "turn"
  /\ loop' = "poll"
  /\ UNCHANGED <<queue, waker, pipe, pushing, batch, early>>

(* An event in the queue has its byte in the pipe, or is about to get it,  *)
(* or the loop is about to look, unless it came before there was a waker:  *)
(* run reads the pipe before it drains the queue, push does the opposite.  *)
NoLostWakeup ==
  queue # <<>> => pipe \/ pushing \/ early \/ loop = "drain"
=============================================================================
