----------------------------- MODULE WindowSize -----------------------------
(***************************************************************************)
(* The size of one toplevel window, on which the user, the client and the  *)
(* program all have a say (mac.rs windowDidResize, present_frame,          *)
(* try_resize_window, set_window_fill; the Resize event of wayland/mod.rs).*)
(* AppKit asks the client for a size; the client paints; the frame may     *)
(* change the window, and a window that changed asks again.                *)
(*                                                                         *)
(* A size is a number, one axis in points.  A client that draws its own    *)
(* shadow paints a buffer that is larger than its content by the shadow.   *)
(* Left out: where the window is, the other axis, minimum and maximum      *)
(* sizes, minimising; RAIL windows, which a server sizes.                  *)
(***************************************************************************)
EXTENDS Naturals, Sequences

CONSTANTS
  Top,          \* the largest size that the user or the client comes up with: the screen
  Shadows,      \* shadows a client may draw
  MaxInitiatives,  \* bound: sizes that the user and the client come up with
  MaxSize,      \* bound: a client answers what it has pixels for
  None

ASSUME TopAssumption     == Top \in Nat \ {0}
ASSUME ShadowsAssumption == Shadows \subseteq 0 .. Top - 1
ASSUME BoundAssumption   == MaxInitiatives \in Nat /\ MaxSize \in Nat /\ Top <= MaxSize
ASSUME NoneAssumption    == None \notin 1 .. MaxSize

VARIABLES
  decorated,    \* server-side decoration: a native title bar
  (* the client *)
  shadow, content,
  (* on the way *)
  asks,         \* Resize events and the configures they become
  cmds,         \* WinCmds
  (* AppKit *)
  win,          \* the size of the window
  cur, csd,     \* WinEntry.cur_w, csd_margin
  last,         \* the delegate's last
  saved,        \* SAVED_FRAMES
  resize,       \* RESIZE: the client's edge is dragged
  live,         \* inLiveResize: the native edge is dragged
  initiatives,
  (* history, for the properties only *)
  excused, fed_back

client == <<shadow, content>>
appkit == <<win, cur, csd, last, saved, resize, live>>
history == <<excused, fed_back>>
sizeVars   == <<decorated, client, asks, cmds, appkit, initiatives, history>>

Sizes  == 1 .. MaxSize
Buffer == content + shadow

(* Who wants a size, for the properties only: the client itself, the user  *)
(* who drags the client's edge, or a window that AppKit has resized.       *)
Ask(n, by) == [size |-> n, by |-> by]
Asks       == [size : Sizes, by : {"edge", "window"}]

(* WinCmd::Frame carries the buffer's size and the content's               *)
(* (set_window_geometry).                                                  *)
Frame(c, by) == [op |-> "frame", buffer |-> c + shadow, geom |-> c, by |-> by]
StartResize == [op |-> "start_resize"]
Fill(on)    == [op |-> "fill", on |-> on]

WinCmds == [op : {"frame"}, buffer : Sizes, geom : Sizes, by : {"client", "edge", "window"}] \cup {StartResize}
             \cup {Fill(on) : on \in BOOLEAN}

(* The state has its types; a window with a title bar has no shadow. *)
SizeTypeOK ==
  /\ decorated \in BOOLEAN
  /\ shadow \in 0 .. Top - 1 /\ (decorated => shadow = 0)
  /\ content \in Sizes /\ Buffer \in Sizes
  /\ asks \in Seq(Asks) /\ cmds \in Seq(WinCmds)
  /\ {win, cur, last} \subseteq Sizes /\ csd \in {0, shadow}
  /\ saved \in Sizes \cup {None}
  /\ resize \in BOOLEAN /\ live \in BOOLEAN
  /\ initiatives \in 0 .. MaxInitiatives
  /\ excused \in BOOLEAN /\ fed_back \in BOOLEAN

(* create_window, from the first buffer; shadows of a client that sets its *)
(* geometry before it commits.                                             *)
SizeInit ==
  /\ decorated \in BOOLEAN
  /\ shadow \in Shadows /\ (decorated => shadow = 0)
  /\ content \in 1 .. Top - shadow
  /\ asks = <<>> /\ cmds = <<>>
  /\ win = Buffer /\ cur = Buffer /\ csd = shadow /\ last = Buffer
  /\ saved = None /\ resize = FALSE /\ live = FALSE
  /\ initiatives = 0 /\ excused = FALSE /\ fed_back = FALSE

Initiative == initiatives < MaxInitiatives /\ initiatives' = initiatives + 1

-----------------------------------------------------------------------------
(* AppKit *)

(* Mutants: the size is sent on without a floor; with the shadow in it. *)
NoFloor(n, margin) ==
  IF n = win \/ resize \/ n = last
  THEN UNCHANGED <<asks, last>>
  ELSE last' = n /\ asks' = Append(asks, Ask(n - margin, "window"))
NoMargin(n, margin) ==
  IF n = win \/ resize \/ n = last
  THEN UNCHANGED <<asks, last>>
  ELSE last' = n /\ asks' = Append(asks, Ask(n, "window"))

(* windowDidResize, of a window that is n now: nothing while the client's  *)
(* edge is dragged, nothing for the size it reported last.                 *)
WindowDidResize(n, margin) ==
  IF n = win \/ resize \/ n = last
  THEN UNCHANGED <<asks, last>>
  ELSE /\ last' = n
       /\ asks' = Append(asks, Ask(IF n > margin THEN n - margin ELSE 1, "window"))

(* AppKit gives the window another size and nobody tells the client (its   *)
(* edge is dragged, or that left last behind), or it can paint none so     *)
(* small.                                                                  *)
Unmet(n) == n # win /\ (resize \/ n = last \/ n <= shadow)

(* The native edge is dragged. *)
DragEdge(n) ==
  /\ Initiative
  /\ ~resize /\ n <= Top /\ n # win
  /\ live' = TRUE
  /\ win' = n
  /\ WindowDidResize(n, csd)
  /\ excused' = (excused \/ Unmet(n))
  /\ UNCHANGED <<decorated, client, cmds, cur, csd, saved, resize, fed_back>>

DropEdge ==
  /\ live
  /\ live' = FALSE
  /\ UNCHANGED <<decorated, client, asks, cmds, win, cur, csd, last, saved, resize, initiatives, history>>

(* try_resize_window: the client's edge is dragged; the window waits for   *)
(* the buffer.  What is asked of the client is the size of the window.     *)
TryResizeWindow(n) ==
  /\ Initiative
  /\ resize /\ ~live /\ n <= Top
  /\ asks' = Append(asks, Ask(n, "edge"))
  /\ UNCHANGED <<decorated, client, cmds, appkit, history>>

MouseUp ==
  /\ resize
  /\ resize' = FALSE
  /\ UNCHANGED <<decorated, client, asks, cmds, win, cur, csd, last, saved, live, initiatives, history>>

(* WinCmd::StartResize. *)
HandleStartResize ==
  /\ cmds # <<>> /\ Head(cmds) = StartResize
  /\ cmds' = Tail(cmds)
  /\ resize' = TRUE
  /\ UNCHANGED <<decorated, client, asks, win, cur, csd, last, saved, live, initiatives, history>>

(* set_window_fill: maximise, full screen, and back. *)
HandleFill ==
  /\ cmds # <<>> /\ Head(cmds).op = "fill"
  /\ cmds' = Tail(cmds)
  /\ LET n == IF Head(cmds).on THEN Top ELSE IF saved = None THEN win ELSE saved IN
       /\ win' = n
       /\ WindowDidResize(n, csd)
       /\ excused' = (excused \/ Unmet(n))
  /\ saved' = IF ~Head(cmds).on THEN None ELSE IF saved = None THEN win ELSE saved
  /\ UNCHANGED <<decorated, client, cur, csd, resize, live, initiatives, fed_back>>

(* The window follows the buffer, unless it has a title bar or the user    *)
(* holds its edge.                                                         *)
Follows(b) == ~decorated /\ ~live /\ cur # b

OnTheWay == asks # <<>> \/ \E i \in 2 .. Len(cmds) : cmds[i].op = "frame"

(* Excused, since nothing settles it: a client that resizes itself behind  *)
(* a title bar, or while the user holds the edge; a frame that is taken    *)
(* for the one before, though the user resized the window since; a frame   *)
(* whose size is sent back while other sizes are on the way; and what      *)
(* Unmet says.  Apart from these: a size that nobody dragged a window to   *)
(* is sent back to a client that draws a shadow.                           *)
Excuse ==
  LET frame == Head(cmds) IN
  /\ excused' = \/ excused
                \/ (decorated \/ live) /\ frame.by = "client"
                \/ ~decorated /\ ~live /\ cur = frame.buffer /\ win # cur
                \/ ~decorated /\ asks' # asks /\ OnTheWay
  /\ fed_back' = (fed_back \/ (~decorated /\ asks' # asks /\ shadow > 0 /\ frame.by # "window"))

(* present_frame.  It holds WINDOWS while it resizes, and windowDidResize, *)
(* called from within, finds no margin to subtract.                        *)
PresentFrame ==
  LET b == Head(cmds).buffer IN
  /\ cmds # <<>> /\ Head(cmds).op = "frame"
  /\ cmds' = Tail(cmds)
  /\ csd' = b - Head(cmds).geom
  /\ IF Follows(b)
     THEN win' = b /\ cur' = b /\ WindowDidResize(b, 0)
     ELSE UNCHANGED <<win, cur, asks, last>>
  /\ Excuse
  /\ UNCHANGED <<decorated, client, saved, resize, live, initiatives>>

-----------------------------------------------------------------------------
(* The client: outside the program, obeys what it is asked *)

Paint(c, by) == content' = c /\ cmds' = Append(cmds, Frame(c, by))

(* It may skip configures that a later one has overtaken. *)
Configured ==
  /\ \E i \in 1 .. Len(asks) :
       /\ asks[i].size + shadow <= MaxSize
       /\ Paint(asks[i].size, asks[i].by)
       /\ asks' = SubSeq(asks, i + 1, Len(asks))
  /\ UNCHANGED <<decorated, shadow, appkit, initiatives, history>>

ResizesItself(c) ==
  /\ Initiative
  /\ c \in 1 .. Top - shadow /\ c # content
  /\ Paint(c, "client")
  /\ UNCHANGED <<decorated, shadow, asks, appkit, history>>

(* xdg_toplevel.resize, set_maximized, unset_maximized and full screen.  A *)
(* client that is given a title bar has no edge of its own.                *)
Requests(cmd) ==
  /\ Initiative
  /\ decorated => cmd # StartResize
  /\ cmds' = Append(cmds, cmd)
  /\ UNCHANGED <<decorated, client, asks, appkit, history>>

-----------------------------------------------------------------------------
System == PresentFrame \/ HandleStartResize \/ HandleFill

SizeNext ==
  \/ System \/ Configured \/ DropEdge \/ MouseUp
  \/ \E n \in Sizes : DragEdge(n) \/ TryResizeWindow(n) \/ ResizesItself(n)
  \/ \E cmd \in {StartResize} \cup {Fill(on) : on \in BOOLEAN} : Requests(cmd)

(* The main loop runs, clients answer, users let go. *)
Fairness == WF_sizeVars(System) /\ WF_sizeVars(Configured) /\ WF_sizeVars(DropEdge) /\ WF_sizeVars(MouseUp)

SizeSpec == SizeInit /\ [][SizeNext]_sizeVars /\ Fairness

-----------------------------------------------------------------------------
(* Properties *)

(* Whoever changed the size: in the end nothing is on the way any more and *)
(* the window has the size of the buffer; but for the excuses above, and   *)
(* for the size of a client with a shadow that is sent back to it.         *)
Settled == asks = <<>> /\ cmds = <<>> /\ win = Buffer

SizesSettle == <>(excused \/ fed_back) \/ <>[]Settled

(* "Subtracting the margin makes the returned buffer match the current     *)
(* window size, so it settles immediately" (mac.rs:808-809): a frame that  *)
(* answers what windowDidResize asked for, and after which nothing is on   *)
(* the way, finds the window at its size.                                  *)
AnswersFit ==
  [][PresentFrame /\ Head(cmds).by = "window" /\ ~OnTheWay /\ ~excused => UNCHANGED win]_sizeVars
=============================================================================
