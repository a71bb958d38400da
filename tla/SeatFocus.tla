----------------------------- MODULE SeatFocus -----------------------------
(***************************************************************************)
(* Pointer and keyboard focus on the Wayland thread: process_input and     *)
(* ensure_pointer_focus of wayland/mod.rs, with what clients are told over *)
(* the wire.                                                               *)
(*                                                                         *)
(* The AppKit thread is left open: any input event may arrive for any      *)
(* window at any time, as events for windows that are long gone do when    *)
(* the two threads lag behind each other.  Windows come and go meanwhile.  *)
(* Clients may move a role object from one surface to another and give a   *)
(* surface several roles in turn; they do destroy a surface's role object  *)
(* before the surface, as xdg-shell asks them to.                          *)
(***************************************************************************)
EXTENDS WlSurfaces

CONSTANTS
  Windows,     \* window ids; none is handed out twice
  NoWindow     \* None

ASSUME WindowsAssumption == NoWindow \notin Windows

RecordKinds == {"toplevel", "popup", "layer"}

WireEvents ==
  {"pointer enter", "pointer leave", "pointer use",     \* use: motion or button
   "keyboard enter", "keyboard leave", "key",           \* key: key or modifiers
   "popup_done"}

VARIABLES
  alive,          \* wl_surfaces not destroyed yet
  recordKind,     \* which record map a window id belongs to
  windowSurface,  \* State.window_surface
  created,        \* layer surfaces whose `created_window` is set
  dismissed,      \* popups whose `dismissed` is set
  pointer_focus,  \* State.pointer_focus
  focus_window,   \* State.focus_window
  (* history, read by properties only *)
  pointerIn,      \* surfaces told wl_pointer.enter and no leave since
  keyboardIn,     \* surfaces told wl_keyboard.enter and no leave since
  sent            \* what the last step told clients: pairs of surface and wire event

windowVars == <<alive, recordKind, windowSurface, created>>
focusVars  == <<pointer_focus, focus_window>>
seatVars == <<windowVars, dismissed, focusVars, pointerIn, keyboardIn, sent>>

SeatTypeOK ==
  /\ alive \subseteq Surfaces
  /\ recordKind \in [Windows -> RecordKinds \cup {"unborn"}]
  /\ windowSurface \in [Windows -> Surfaces \cup {NoSurface}]
  /\ created \subseteq Windows /\ dismissed \subseteq Windows
  /\ pointer_focus \in Windows \cup {NoWindow}
  /\ focus_window \in Windows \cup {NoWindow}
  /\ pointerIn \subseteq Surfaces /\ keyboardIn \subseteq Surfaces
  /\ sent \subseteq Surfaces \X WireEvents

SeatInit ==
  /\ alive = Surfaces
  /\ recordKind = [w \in Windows |-> "unborn"]
  /\ windowSurface = [w \in Windows |-> NoSurface]
  /\ created = {} /\ dismissed = {}
  /\ pointer_focus = NoWindow /\ focus_window = NoWindow
  /\ pointerIn = {} /\ keyboardIn = {} /\ sent = {}

Registered == {w \in Windows : windowSurface[w] # NoSurface}

(* Mutant: a window that is no longer registered is looked up all the same. *)
SurfacesOfAny(ws) == {windowSurface[w] : w \in ws \cap Windows}

(* window_surface.get for each window, those that answer None left out. *)
SurfacesOf(ws) == {windowSurface[w] : w \in ws \cap Registered}

-----------------------------------------------------------------------------
(* Windows come and go: the part of the role objects' life that focus sees *)

(* get_toplevel, get_popup, get_layer_surface *)
GetRole(w, k, s) ==
  /\ recordKind[w] = "unborn" /\ s \in alive
  /\ recordKind' = [recordKind EXCEPT ![w] = k]
  /\ windowSurface' = [windowSurface EXCEPT ![w] = s]
  /\ sent' = {}
  /\ UNCHANGED <<alive, created, dismissed, focusVars, pointerIn, keyboardIn>>

(* reap_toplevel and reap_popup leave the focus where it is;               *)
(* reap_layer_surface takes the keyboard focus from its window.            *)
ReapRole(w) ==
  /\ w \in Registered
  /\ windowSurface' = [windowSurface EXCEPT ![w] = NoSurface]
  /\ focus_window' = IF recordKind[w] = "layer" /\ focus_window = w THEN NoWindow ELSE focus_window
  /\ sent' = {}
  /\ UNCHANGED <<alive, recordKind, created, dismissed, pointer_focus, pointerIn, keyboardIn>>

SurfaceDestroy(s) ==
  /\ s \in alive /\ s \notin SurfacesOf(Windows)
  /\ alive' = alive \ {s}
  /\ pointerIn' = pointerIn \ {s}
  /\ keyboardIn' = keyboardIn \ {s}
  /\ sent' = {}
  /\ UNCHANGED <<recordKind, windowSurface, created, dismissed, focusVars>>

(* The first frame of a layer surface: one that wants the keyboard takes   *)
(* the focus; nobody is told to leave.                                     *)
PresentLayer(w, wantsKeyboard) ==
  LET taken == IF wantsKeyboard /\ focus_window # w THEN SurfacesOf({w}) ELSE {} IN
  /\ w \in Registered /\ recordKind[w] = "layer" /\ w \notin created
  /\ created' = created \cup {w}
  /\ focus_window' = IF wantsKeyboard THEN w ELSE focus_window
  /\ keyboardIn' = keyboardIn \cup taken
  /\ sent' = taken \X {"keyboard enter"}
  /\ UNCHANGED <<alive, recordKind, windowSurface, dismissed, pointer_focus, pointerIn>>

-----------------------------------------------------------------------------
(* process_input: pointer *)

(* ensure_pointer_focus: the previous window is told to leave if it is     *)
(* still registered.                                                       *)
Left(w)    == IF pointer_focus = w THEN {} ELSE SurfacesOf({pointer_focus})
Entered(w) == IF pointer_focus = w THEN {} ELSE SurfacesOf({w})

(* `uses` is what the client is told after it has the pointer. *)
EnsurePointerFocus(w, uses) ==
  /\ w \in Registered
  /\ pointer_focus' = w
  /\ pointerIn' = (pointerIn \ Left(w)) \cup Entered(w)
  /\ sent' = (Left(w) \X {"pointer leave"}) \cup (Entered(w) \X {"pointer enter"})
               \cup (SurfacesOf({w}) \X uses)
  /\ UNCHANGED <<windowVars, dismissed, focus_window, keyboardIn>>

PointerEnter(w)  == EnsurePointerFocus(w, {})
PointerMotion(w) == EnsurePointerFocus(w, {"pointer use"})

(* Mutant: a button goes out whoever has the pointer. *)
PointerButtonAnywhere(w) ==
  /\ w \in Registered
  /\ sent' = SurfacesOf({w}) \X {"pointer use"}
  /\ UNCHANGED <<windowVars, dismissed, focusVars, pointerIn, keyboardIn>>

PointerButton(w) == EnsurePointerFocus(w, {"pointer use"})

(* A leave for any other window is stale. *)
PointerLeave(w) ==
  /\ pointer_focus = w /\ w \in Registered
  /\ pointer_focus' = NoWindow
  /\ pointerIn' = pointerIn \ SurfacesOf({w})
  /\ sent' = SurfacesOf({w}) \X {"pointer leave"}
  /\ UNCHANGED <<windowVars, dismissed, focus_window, keyboardIn>>

-----------------------------------------------------------------------------
(* process_input: keyboard *)

(* Focus { focused: true }; repeated for the window that has it, ignored.  *)
(* The activation configure and the clipboard offer that go with it are    *)
(* left out.                                                               *)
FocusIn(w) ==
  /\ focus_window # w /\ w \in Registered
  /\ focus_window' = w
  /\ keyboardIn' = keyboardIn \cup SurfacesOf({w})
  /\ sent' = SurfacesOf({w}) \X {"keyboard enter"}
  /\ UNCHANGED <<windowVars, dismissed, pointer_focus, pointerIn>>

(* Mutant: a stale focus-out is passed on. *)
FocusOutAlways(w) ==
  /\ w \in Registered
  /\ focus_window' = NoWindow
  /\ keyboardIn' = keyboardIn \ SurfacesOf({w})
  /\ sent' = SurfacesOf({w}) \X {"keyboard leave"}
  /\ UNCHANGED <<windowVars, dismissed, pointer_focus, pointerIn>>

(* Focus { focused: false }; stale for any other window. *)
FocusOut(w) ==
  /\ focus_window = w /\ w \in Registered
  /\ focus_window' = NoWindow
  /\ keyboardIn' = keyboardIn \ SurfacesOf({w})
  /\ sent' = SurfacesOf({w}) \X {"keyboard leave"}
  /\ UNCHANGED <<windowVars, dismissed, pointer_focus, pointerIn>>

(* Key and Modifiers go to the focused window, if it is registered. *)
Key ==
  /\ focus_window \in Registered
  /\ sent' = SurfacesOf({focus_window}) \X {"key"}
  /\ UNCHANGED <<windowVars, dismissed, focusVars, pointerIn, keyboardIn>>

-----------------------------------------------------------------------------
(* process_input: menus *)

(* dismiss_popup *)
DismissPopup(w) ==
  /\ w \in Registered /\ recordKind[w] = "popup" /\ w \notin dismissed
  /\ dismissed' = dismissed \cup {w}
  /\ sent' = SurfacesOf({w}) \X {"popup_done"}
  /\ UNCHANGED <<windowVars, focusVars, pointerIn, keyboardIn>>

PopupDismiss(w) == DismissPopup(w)

(* The app lost the key status: a menu that has the keyboard goes. *)
AppDeactivated == focus_window \in Windows /\ DismissPopup(focus_window)

-----------------------------------------------------------------------------
Lifecycle ==
  \/ \E w \in Windows, k \in RecordKinds, s \in Surfaces : GetRole(w, k, s)
  \/ \E w \in Windows : ReapRole(w)
  \/ \E w \in Windows, wantsKeyboard \in BOOLEAN : PresentLayer(w, wantsKeyboard)
  \/ \E s \in Surfaces : SurfaceDestroy(s)

Pointer ==
  \E w \in Windows : PointerEnter(w) \/ PointerMotion(w) \/ PointerButton(w) \/ PointerLeave(w)

Keyboard == (\E w \in Windows : FocusIn(w) \/ FocusOut(w)) \/ Key

Menus == (\E w \in Windows : PopupDismiss(w)) \/ AppDeactivated

SeatNext == Lifecycle \/ Pointer \/ Keyboard \/ Menus

SeatSpec == SeatInit /\ [][SeatNext]_seatVars

-----------------------------------------------------------------------------
(* Properties *)

(* "A wl_pointer.enter MUST precede any motion - some clients (KWin's      *)
(* nested backend) crash on motion with no prior enter": motion and        *)
(* buttons only go to a surface that has the pointer, keys and modifiers   *)
(* to one that was told it has the keyboard, through Focus or because a    *)
(* layer surface took it; whatever windows vanish, reappear on the same    *)
(* surface or get their leaves out of order.                               *)
EnterBeforeUse ==
  \A s \in Surfaces :
    /\ <<s, "pointer use">> \in sent => s \in pointerIn
    /\ <<s, "key">> \in sent => s \in keyboardIn

(* "Deduplicate: sending [...] a leave when it doesn't [hold focus] is a   *)
(* protocol violation": no surface is told to leave without having been    *)
(* entered, for the pointer and for the keyboard.                          *)
NoStrayLeave ==
  [][\A s \in Surfaces :
       /\ <<s, "pointer leave">> \in sent' => s \in pointerIn
       /\ <<s, "keyboard leave">> \in sent' => s \in keyboardIn]_seatVars
=============================================================================
