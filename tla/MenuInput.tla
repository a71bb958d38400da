----------------------------- MODULE MenuInput ------------------------------
(***************************************************************************)
(* Buttons, menus and the keyboard focus where AppKit and the Wayland      *)
(* thread meet: which window a button event goes to (handle_button of      *)
(* mac.rs) and who has the keyboard while menus come and go (windowDid-    *)
(* BecomeKey, create_popup, restore_focus_under_cursor).  Each thread is   *)
(* behind the other by what is in queue and bus.                           *)
(*                                                                         *)
(* The screen is a few places, more than six points apart.  Which window   *)
(* is key is left open: a delegate may be told at any time.  The toplevels *)
(* stay; one client has all windows.  Left out: motion, enter and leave    *)
(* (SeatFocus), scrolling, the moves and resizes a drag may start, frames. *)
(***************************************************************************)
EXTENDS CommandQueue

CONSTANTS
  Toplevels, Menus,  \* window ids; those of menus are handed out once
  Buttons,
  Places, NoPlace,   \* where the cursor can be; None
  Frame,             \* the places a window covers
  MaxQueue, MaxBus   \* bounds: commands, events on their way

Windows == Toplevels \cup Menus

(* In held: the window a button went down on has closed.  Should its menu  *)
(* be shown again, that is another window to AppKit.                       *)
NoView == -1

ASSUME WindowsAssumption == Windows \subseteq Nat \ {NoWin} /\ Toplevels \cap Menus = {}
ASSUME PlacesAssumption  == NoPlace \notin Places /\ Frame \in [Windows -> SUBSET Places]
ASSUME BoundsAssumption  == MaxQueue \in Nat /\ MaxBus \in Nat

VARIABLES
  (* Wayland thread *)
  unborn,                \* menus not asked for yet
  popups,                \* records
  created, dismissed,    \* flags of the records
  focus_window,
  (* on the way *)
  queue,                 \* of WinCmds
  bus,                   \* of InputEvents
  (* AppKit *)
  WINDOWS,               \* POPUP_WINDOWS is the menus in it
  GRAB, IMPLICIT_GRAB, IMPLICIT_GRAB_ORIGIN,
  (* user *)
  cursor,
  held,                  \* of a button: the window it went down on, or NoView
  (* history, for the properties only *)
  went,                  \* of a button: where its press went, which waits for the release
  moved,                 \* buttons held while the cursor moved
  chorded,               \* buttons held while another one was
  stranded               \* the last menu closed with no window under the cursor

recordVars == <<unborn, popups, created>>
wayland == <<recordVars, dismissed, focus_window>>
buttons == <<IMPLICIT_GRAB, IMPLICIT_GRAB_ORIGIN, held, went, moved, chorded>>
vars    == <<wayland, queue, bus, WINDOWS, GRAB, buttons, cursor, stranded>>

(* What AppKit pushes *)
Button(w, b, pressed) == [type |-> "button", win |-> w, button |-> b, pressed |-> pressed]
Event(t, w) == [type |-> t, win |-> w]

Events ==
  [type : {"button"}, win : Windows, button : Buttons, pressed : BOOLEAN]
    \cup [type : {"focus in", "focus out", "deactivated", "dismiss"}, win : Windows]

(* The state has its types, and flags belong to records. *)
TypeOK ==
  /\ unborn \subseteq Menus /\ popups \subseteq Menus \ unborn
  /\ created \subseteq popups /\ dismissed \subseteq popups
  /\ focus_window \in Windows \cup {NoWin}
  /\ queue \in Seq(Commands(Menus)) /\ bus \in Seq(Events)
  /\ WINDOWS \subseteq Windows /\ Toplevels \subseteq WINDOWS
  /\ GRAB \in Menus \cup {NoWin}
  /\ IMPLICIT_GRAB \in Windows \cup {NoWin}
  /\ IMPLICIT_GRAB_ORIGIN \in Places \cup {NoPlace} /\ cursor \in Places
  /\ held \in [Buttons -> Windows \cup {NoWin, NoView}] /\ went \in [Buttons -> Windows \cup {NoWin}]
  /\ moved \subseteq Buttons /\ chorded \subseteq Buttons /\ stranded \in BOOLEAN

Init ==
  /\ unborn = Menus /\ popups = {} /\ created = {} /\ dismissed = {}
  /\ focus_window \in Toplevels \cup {NoWin}
  /\ queue = <<>> /\ bus = <<>>
  /\ WINDOWS = Toplevels
  /\ GRAB = NoWin /\ IMPLICIT_GRAB = NoWin /\ IMPLICIT_GRAB_ORIGIN = NoPlace
  /\ cursor \in Places
  /\ held = [b \in Buttons |-> NoWin] /\ went = [b \in Buttons |-> NoWin]
  /\ moved = {} /\ chorded = {} /\ stranded = FALSE

Over(w) == cursor \in Frame[w]

-----------------------------------------------------------------------------
(* Client requests *)

Post(cs) == Len(queue) < MaxQueue /\ queue' = queue \o cs

Request == UNCHANGED <<focus_window, bus, WINDOWS, GRAB, buttons, cursor, stranded>>

GetPopup(m) ==
  /\ m \in unborn
  /\ unborn' = unborn \ {m} /\ popups' = popups \cup {m}
  /\ UNCHANGED <<created, dismissed, queue>> /\ Request

(* A client grabs before it shows the menu, as xdg_popup asks it to. *)
Grab(m) ==
  /\ m \in popups \ created
  /\ Post(<<Cmd("SetGrab", m)>>)
  /\ UNCHANGED <<recordVars, dismissed>> /\ Request

(* The first buffer. *)
Present(m) ==
  /\ m \in popups \ created
  /\ created' = created \cup {m}
  /\ Post(<<Cmd("CreatePopup", m)>>)
  /\ UNCHANGED <<unborn, popups, dismissed>> /\ Request

(* unmap_surface *)
Unmap(m) ==
  /\ m \in created
  /\ created' = created \ {m}
  /\ Post(<<Cmd("Destroy", m)>>)
  /\ UNCHANGED <<unborn, popups, dismissed>> /\ Request

(* Mutant: the flags outlive the record. *)
ReapPopupKeepsFlags(m) ==
  /\ m \in popups
  /\ popups' = popups \ {m} /\ UNCHANGED <<created, dismissed>>
  /\ Post(<<Cmd("Destroy", m)>>)
  /\ UNCHANGED unborn /\ Request

(* reap_popup; the focus stays where it is. *)
ReapPopup(m) ==
  /\ m \in popups
  /\ popups' = popups \ {m} /\ created' = created \ {m} /\ dismissed' = dismissed \ {m}
  /\ Post(<<Cmd("Destroy", m)>>)
  /\ UNCHANGED unborn /\ Request

-----------------------------------------------------------------------------
(* AppKit: commands *)

Push(es) == Len(bus) < MaxBus /\ bus' = bus \o es

(* restore_focus_under_cursor, among the windows ws: the first one found.  *)
RestoreFocus(ws) ==
  \/ \E w \in ws : Over(w) /\ Push(<<Event("focus in", w)>>) /\ stranded' = FALSE
  \/ (\A w \in ws : ~Over(w)) /\ stranded' = TRUE /\ UNCHANGED bus

NoRestore == UNCHANGED <<bus, stranded>>

Handle(op, w) ==
  /\ queue # <<>> /\ Head(queue) = Cmd(op, w)
  /\ queue' = Tail(queue)
  /\ UNCHANGED <<wayland, cursor>>

(* create_popup: a menu under the cursor, or with the grab, gets the       *)
(* keyboard.                                                               *)
HandleCreatePopup(m) ==
  /\ Handle("CreatePopup", m)
  /\ WINDOWS' = WINDOWS \cup {m}
  /\ IF Over(m) \/ GRAB = m
     THEN Push(<<Event("focus in", m)>>) /\ stranded' = FALSE
     ELSE NoRestore
  /\ UNCHANGED <<GRAB, buttons>>

HandleSetGrab(m) ==
  /\ Handle("SetGrab", m)
  /\ GRAB' = m
  /\ IF m = NoWin /\ GRAB # NoWin THEN RestoreFocus(WINDOWS) ELSE NoRestore
  /\ UNCHANGED <<WINDOWS, buttons>>

(* The window goes, and its view with it. *)
CloseView(m) ==
  /\ WINDOWS' = WINDOWS \ {m}
  /\ held' = [b \in Buttons |-> IF held[b] = m /\ m \in WINDOWS THEN NoView ELSE held[b]]
  /\ UNCHANGED <<IMPLICIT_GRAB, IMPLICIT_GRAB_ORIGIN, went, moved, chorded>>

(* Mutant: the end of a menu without the grab goes unnoticed. *)
HandleDestroyRestoresGrabOnly(m) ==
  /\ Handle("Destroy", m)
  /\ CloseView(m)
  /\ GRAB' = IF GRAB = m THEN NoWin ELSE GRAB
  /\ IF GRAB = m THEN RestoreFocus(WINDOWS') ELSE NoRestore

(* The focus goes back when the grab ends, or the last menu. *)
HandleDestroy(m) ==
  /\ Handle("Destroy", m)
  /\ CloseView(m)
  /\ GRAB' = IF GRAB = m THEN NoWin ELSE GRAB
  /\ IF GRAB = m \/ (m \in WINDOWS /\ WINDOWS' \cap Menus = {})
     THEN RestoreFocus(WINDOWS') ELSE NoRestore

-----------------------------------------------------------------------------
(* AppKit: the user *)

NoCommand == UNCHANGED <<wayland, queue, WINDOWS>>

(* An open menu keeps the keyboard. *)
WindowDidBecomeKey(t) ==
  /\ WINDOWS \cap Menus = {}
  /\ Push(<<Event("focus in", t)>>)
  /\ stranded' = FALSE
  /\ NoCommand /\ UNCHANGED <<GRAB, buttons, cursor>>

WindowDidResignKey(t) ==
  /\ Push(<<Event("deactivated", t), Event("focus out", t)>>)
  /\ NoCommand /\ UNCHANGED <<GRAB, buttons, cursor, stranded>>

(* grabbed(): a grab without a window is forgotten. *)
Grabbed == IF GRAB \in WINDOWS THEN GRAB ELSE NoWin

(* The buttons that are down. *)
Down == {b \in Buttons : held[b] # NoWin}

(* Over the desktop nobody asks. *)
MouseMove(p) ==
  /\ p # cursor
  /\ cursor' = p
  /\ GRAB' \in {GRAB, Grabbed}
  /\ moved' = Down
  /\ NoCommand
  /\ UNCHANGED <<bus, IMPLICIT_GRAB, IMPLICIT_GRAB_ORIGIN, held, went, chorded, stranded>>

(* The windows a button may go down on: menus are above toplevels. *)
UnderCursor ==
  {w \in WINDOWS : Over(w) /\ (w \in Toplevels => \A m \in WINDOWS \cap Menus : ~Over(m))}

(* A press goes to window w, and so will the release. *)
PressTo(w, b) ==
  /\ Push(<<Button(w, b, TRUE)>>)
  /\ IMPLICIT_GRAB' = w
  /\ went' = [went EXCEPT ![b] = w]

(* Mutant: the window of an earlier press still waits for its release. *)
DismissKeepsImplicitGrab(m, b) ==
  /\ Push(<<Event("dismiss", m)>>)
  /\ went' = [went EXCEPT ![b] = NoWin]
  /\ UNCHANGED IMPLICIT_GRAB

(* A press outside the menu with the grab goes to no window. *)
DismissMenu(m, b) ==
  /\ Push(<<Event("dismiss", m)>>)
  /\ IMPLICIT_GRAB' = NoWin
  /\ went' = [went EXCEPT ![b] = NoWin]

(* handle_button, pressed, of the view of w. *)
MouseDown(w, b) ==
  /\ held[b] = NoWin
  /\ w \in UnderCursor
  /\ held' = [held EXCEPT ![b] = w]
  /\ chorded' = IF Down = {} THEN chorded ELSE Down \cup {b}
  /\ IMPLICIT_GRAB_ORIGIN' = cursor
  /\ GRAB' = Grabbed
  /\ \/ Grabbed = NoWin /\ PressTo(w, b)
     \/ Grabbed # NoWin /\ Over(Grabbed) /\ PressTo(Grabbed, b)
     \/ Grabbed # NoWin /\ ~Over(Grabbed) /\ DismissMenu(Grabbed, b)
  /\ NoCommand /\ UNCHANGED <<moved, cursor, stranded>>

Dragged == IMPLICIT_GRAB_ORIGIN \notin {NoPlace, cursor}

ReleaseTo(w, b) == Push(<<Button(w, b, FALSE)>>)

(* Mutant: a release over the menu is the menu's, moved or not. *)
SelectsAlways == Grabbed # NoWin /\ Over(Grabbed)

(* The release of a drag into the menu is the menu's: it selects. *)
Selects == Dragged /\ Grabbed # NoWin /\ Over(Grabbed)

(* handle_button, released.  AppKit sends it to the view the button went   *)
(* down on, if its window is still there; if not, nobody hears of it.      *)
MouseUp(b) ==
  /\ held[b] # NoWin
  /\ held' = [held EXCEPT ![b] = NoWin]
  /\ moved' = moved \ {b} /\ chorded' = chorded \ {b}
  /\ \/ /\ held[b] \in WINDOWS
        /\ IMPLICIT_GRAB_ORIGIN' = NoPlace /\ IMPLICIT_GRAB' = NoWin
        /\ went' = [went EXCEPT ![b] = NoWin]
        /\ \/ Selects /\ ReleaseTo(Grabbed, b)
           \/ ~Selects /\ IMPLICIT_GRAB # NoWin /\ ReleaseTo(IMPLICIT_GRAB, b)
           \/ ~Selects /\ IMPLICIT_GRAB = NoWin /\ UNCHANGED bus
        /\ GRAB' = IF Dragged THEN Grabbed ELSE GRAB
     \/ /\ held[b] \notin WINDOWS
        /\ UNCHANGED <<IMPLICIT_GRAB, IMPLICIT_GRAB_ORIGIN, went, bus, GRAB>>
  /\ NoCommand /\ UNCHANGED <<cursor, stranded>>

-----------------------------------------------------------------------------
(* Wayland thread: process_input *)

Take(t, w) ==
  /\ bus # <<>> /\ Head(bus).type = t /\ Head(bus).win = w
  /\ bus' = Tail(bus)
  /\ UNCHANGED <<recordVars, WINDOWS, GRAB, buttons, cursor, stranded>>

Registered == Toplevels \cup popups

PointerButton(w) == Take("button", w) /\ UNCHANGED <<dismissed, focus_window, queue>>

FocusIn(w) ==
  /\ Take("focus in", w)
  /\ focus_window' = IF w \in Registered THEN w ELSE focus_window
  /\ UNCHANGED <<dismissed, queue>>

FocusOut(w) ==
  /\ Take("focus out", w)
  /\ focus_window' = IF w = focus_window /\ w \in Registered THEN NoWin ELSE focus_window
  /\ UNCHANGED <<dismissed, queue>>

(* dismiss_popup *)
Dismiss(m) ==
  /\ dismissed' = dismissed \cup ({m} \cap popups)
  /\ Post(<<Cmd("SetGrab", NoWin)>>)

PopupDismiss(m) ==
  /\ Take("dismiss", m)
  /\ Dismiss(m)
  /\ UNCHANGED focus_window

(* A menu that has the keyboard goes with the app. *)
AppDeactivated(t) ==
  /\ Take("deactivated", t)
  /\ IF focus_window \in popups THEN Dismiss(focus_window) ELSE UNCHANGED <<dismissed, queue>>
  /\ UNCHANGED focus_window

-----------------------------------------------------------------------------
Client  == \E m \in Menus : GetPopup(m) \/ Grab(m) \/ Present(m) \/ Unmap(m) \/ ReapPopup(m)

AppKit  == \E m \in Menus \cup {NoWin} : HandleCreatePopup(m) \/ HandleSetGrab(m) \/ HandleDestroy(m)

User ==
  \/ \E t \in Toplevels : WindowDidBecomeKey(t) \/ WindowDidResignKey(t)
  \/ \E p \in Places : MouseMove(p)
  \/ \E b \in Buttons : MouseUp(b) \/ \E w \in Windows : MouseDown(w, b)

Input == \E w \in Windows :
  PointerButton(w) \/ FocusIn(w) \/ FocusOut(w) \/ PopupDismiss(w) \/ AppDeactivated(w)

Next == Client \/ AppKit \/ User \/ Input

Spec == Init /\ [][Next]_vars

-----------------------------------------------------------------------------
(* Properties *)

(* Button b comes up in the window it went down on, which is still there:  *)
(* its release goes where its press went, or to a menu that the cursor was *)
(* dragged to; nothing is sent if the press was to nobody.                 *)
Answered(b) ==
  held[b] \in WINDOWS /\ held'[b] = NoWin =>
    \/ went[b] = NoWin /\ bus' = bus
    \/ went[b] # NoWin /\ bus' = bus \o <<Button(went[b], b, FALSE)>>
    \/ b \in moved /\ \E m \in Menus : bus' = bus \o <<Button(m, b, FALSE)>>

(* "A release belongs to the surface that received the press", and "the    *)
(* opening click [...] must NOT select the item the popup mapped under":   *)
(* so it is with a button that was down alone, whatever menus came and     *)
(* went meanwhile and whatever presses were left without a release, their  *)
(* windows gone.                                                           *)
ReleasesFollowPresses == [][\A b \in Buttons \ chorded : Answered(b)]_vars

(* mac.rs:517-518: "A release belongs to the surface that received the     *)
(* press (the implicit pointer grab)".  It is so with every button.        *)
EveryReleaseFollows == [][\A b \in Buttons : Answered(b)]_vars

(* "Hand focus to whatever window is now under the cursor [...] or the     *)
(* client stays unresponsive": once the Wayland thread has caught up and   *)
(* no menu is open, none has the keyboard, however many there were, in     *)
(* whatever order they were shown, hidden, grabbed for and dismissed -     *)
(* unless there was no window under the cursor.                            *)
KeyboardComesBack ==
  bus = <<>> /\ WINDOWS \cap Menus = {} /\ focus_window \in Menus => stranded
=============================================================================
