---------------------------- MODULE ShellWindows ----------------------------
(***************************************************************************)
(* The life of native windows: from the xdg-shell and layer-shell records  *)
(* the Wayland thread keeps (wayland/mod.rs, xdg_shell.rs, layer_shell.rs, *)
(* compositor.rs), over the FIFO of window commands `mac::post` feeds the  *)
(* AppKit main queue, to the NSWindow registry and the popup pointer grab  *)
(* of mac.rs.                                                              *)
(*                                                                         *)
(* Two threads act: the Wayland thread (client requests, popup dismissals) *)
(* and the AppKit main thread (one queued command or one mouse event at a  *)
(* time).  They share nothing but the two queues.                          *)
(*                                                                         *)
(* Clients are not trusted to keep the protocol: one surface may be given  *)
(* several role objects, and role objects and surfaces die in any order,   *)
(* as they do when a client is killed.  Surfaces that serve as cursors or  *)
(* subsurfaces are outside this module; their commits post neither window  *)
(* creations nor window frames.                                            *)
(***************************************************************************)
EXTENDS CommandQueue

CONSTANTS
  Surfaces,    \* the wl_surfaces that may be given a shell role
  NoSurface,   \* `window_surface.get()` answers None
  MaxWindow,   \* bound: window ids handed out by alloc_window_id
  MaxQueue,    \* bound: commands waiting on the AppKit main queue
  MaxBus       \* bound: popup dismissals waiting on the input bus

ASSUME SurfacesAssumption == NoSurface \notin Surfaces
ASSUME BoundsAssumption   == {MaxWindow, MaxQueue, MaxBus} \subseteq Nat

Wins  == 1 .. MaxWindow        \* ids as alloc_window_id hands them out
Kinds == {"toplevel", "popup", "layer"}

VARIABLES
  (* Wayland thread *)
  surfaces,       \* keys of State.surfaces
  nextWin,        \* State.next_window_id
  live,           \* window ids of the records in toplevels, popups and layer_surfaces
  kind,           \* which of the three maps holds the record of a window id
  surf,           \* the record's wl_surface
  roleOf,         \* surface_toplevel, surface_popup, surface_layer, by kind
  windowSurface,  \* State.window_surface
  configured,     \* records whose `configured` is set
  created,        \* records whose `created_window` is set
  dismissed,      \* popup records whose `dismissed` is set
  (* between the threads *)
  queue,          \* WinCmds posted and not yet handled
  bus,            \* windows of the PopupDismiss events pushed and not yet handled
  (* AppKit thread *)
  WINDOWS, POPUP_WINDOWS, LAYER_WINDOWS,
  GRAB,
  (* history, read by properties only *)
  popupDone,      \* popup_done events a popup was sent since it was last mapped
  grabber         \* the popup that last asked for the grab, until it is dismissed or hidden

recordVars == <<surfaces, nextWin, live, kind, surf, roleOf, windowSurface>>
flagVars   == <<configured, created, dismissed>>
appkitVars == <<WINDOWS, POPUP_WINDOWS, LAYER_WINDOWS, GRAB>>
history    == <<popupDone, grabber>>
vars == <<recordVars, flagVars, queue, bus, appkitVars, history>>

TypeOK ==
  /\ surfaces \subseteq Surfaces
  /\ nextWin \in 1 .. MaxWindow + 1
  /\ live \subseteq Wins
  /\ kind \in [Wins -> Kinds \cup {"unborn"}]
  /\ surf \in [Wins -> Surfaces \cup {NoSurface}]
  /\ roleOf \in [Kinds -> [Surfaces -> Wins \cup {NoWin}]]
  /\ windowSurface \in [Wins -> Surfaces \cup {NoSurface}]
  /\ configured \subseteq Wins /\ created \subseteq Wins /\ dismissed \subseteq Wins
  /\ queue \in Seq(Commands(Wins))
  /\ bus \in Seq(Wins)
  /\ WINDOWS \subseteq Wins /\ POPUP_WINDOWS \subseteq Wins /\ LAYER_WINDOWS \subseteq Wins
  /\ GRAB \in Wins \cup {NoWin}
  /\ popupDone \in [Wins -> Nat]
  /\ grabber \in Wins \cup {NoWin}

-----------------------------------------------------------------------------
(* Every surface of the model has been created; none has a role yet. *)
Init ==
  /\ surfaces = Surfaces
  /\ nextWin = 1
  /\ live = {}
  /\ kind = [w \in Wins |-> "unborn"]
  /\ surf = [w \in Wins |-> NoSurface]
  /\ roleOf = [k \in Kinds |-> [s \in Surfaces |-> NoWin]]
  /\ windowSurface = [w \in Wins |-> NoSurface]
  /\ configured = {} /\ created = {} /\ dismissed = {}
  /\ queue = <<>> /\ bus = <<>>
  /\ WINDOWS = {} /\ POPUP_WINDOWS = {} /\ LAYER_WINDOWS = {}
  /\ GRAB = NoWin
  /\ popupDone = [w \in Wins |-> 0]
  /\ grabber = NoWin

Roles(s) == {roleOf[k][s] : k \in Kinds} \ {NoWin}

(* The window a committed buffer is presented to: the layer surface first, *)
(* then the toplevel, then the popup.                                      *)
PresentTarget(s) ==
  CASE roleOf["layer"][s] # NoWin    -> roleOf["layer"][s]
    [] roleOf["layer"][s] = NoWin /\ roleOf["toplevel"][s] # NoWin -> roleOf["toplevel"][s]
    [] OTHER                         -> roleOf["popup"][s]

CreateOp(k) ==
  CASE k = "toplevel" -> "Create" [] k = "popup" -> "CreatePopup" [] OTHER -> "CreateLayer"

-----------------------------------------------------------------------------
(* Role objects *)

(* Mutant: the id is read after the increment. *)
AddRecordAfterIncrement(k, s) ==
  /\ nextWin \in Wins
  /\ nextWin' = nextWin + 1
  /\ live' = live \cup {nextWin'}
  /\ kind' = [kind EXCEPT ![nextWin] = k]
  /\ surf' = [surf EXCEPT ![nextWin] = s]
  /\ roleOf' = [roleOf EXCEPT ![k][s] = nextWin]
  /\ windowSurface' = [windowSurface EXCEPT ![nextWin] = s]
  /\ UNCHANGED <<surfaces, flagVars, queue, bus, appkitVars, history>>

AddRecord(k, s) ==
  /\ nextWin \in Wins
  /\ nextWin' = nextWin + 1
  /\ live' = live \cup {nextWin}
  /\ kind' = [kind EXCEPT ![nextWin] = k]
  /\ surf' = [surf EXCEPT ![nextWin] = s]
  /\ roleOf' = [roleOf EXCEPT ![k][s] = nextWin]
  /\ windowSurface' = [windowSurface EXCEPT ![nextWin] = s]
  /\ UNCHANGED <<surfaces, flagVars, queue, bus, appkitVars, history>>

(* An xdg_surface outlives its wl_surface and still hands out roles. *)
GetToplevel(s)     == AddRecord("toplevel", s)
GetPopup(s)        == AddRecord("popup", s)
GetLayerSurface(s) == s \in surfaces /\ AddRecord("layer", s)

(* xdg_popup.grab: the record must still be there; nothing is remembered   *)
(* on the Wayland side.                                                    *)
Grab(w) ==
  /\ w \in live /\ kind[w] = "popup"
  /\ Len(queue) < MaxQueue
  /\ queue' = Append(queue, Cmd("SetGrab", w))
  /\ grabber' = w
  /\ UNCHANGED <<recordVars, flagVars, bus, appkitVars, popupDone>>

-----------------------------------------------------------------------------
(* wl_surface.attach and .commit.  The attachment is only read by the next *)
(* commit, so the two requests are one step.                               *)

Commit(s) ==
  /\ s \in surfaces
  /\ configured' = configured \cup Roles(s)
  /\ UNCHANGED <<recordVars, dismissed, bus, appkitVars>>

(* Nothing attached, or a buffer that has no readable pixels. *)
CommitNothing(s) ==
  /\ Commit(s)
  /\ UNCHANGED <<created, queue, history>>

CommitBuffer(s) ==
  LET w == PresentTarget(s) IN
  /\ Commit(s)
  /\ w # NoWin
  /\ Len(queue) < MaxQueue
  /\ \/ /\ w \in created
        /\ queue' = Append(queue, Cmd("Frame", w))
        /\ UNCHANGED <<created, history>>
     \/ /\ w \notin created
        /\ queue' = queue \o <<Cmd(CreateOp(kind[w]), w), Cmd("Frame", w)>>
        /\ created' = created \cup {w}
        /\ popupDone' = [popupDone EXCEPT ![w] = 0]
        /\ UNCHANGED grabber

(* Mutant: the unmap forgets the native window. *)
CommitNullKeepsWindow(s) ==
  LET w == roleOf["popup"][s] IN
  /\ Commit(s)
  /\ created' = created \ {w}
  /\ UNCHANGED <<queue, history>>

(* unmap_surface: only popups are unmapped; the record stays.              *)
CommitNull(s) ==
  LET w == roleOf["popup"][s] IN
  /\ Commit(s)
  /\ Len(queue) < MaxQueue
  /\ \/ /\ w \in created
        /\ created' = created \ {w}
        /\ queue' = Append(queue, Cmd("Destroy", w))
        /\ grabber' = IF grabber = w THEN NoWin ELSE grabber
        /\ UNCHANGED popupDone
     \/ /\ w \notin created
        /\ UNCHANGED <<created, queue, history>>

-----------------------------------------------------------------------------
(* Teardown *)

DestroyIfCreated(w) == IF w \in created THEN <<Cmd("Destroy", w)>> ELSE <<>>

ForgetRecords(ws) ==
  /\ live' = live \ ws
  /\ configured' = configured \ ws
  /\ created' = created \ ws
  /\ dismissed' = dismissed \ ws
  /\ grabber' = IF grabber \in ws THEN NoWin ELSE grabber

(* Mutant: the surface's role map keeps the entry. *)
ReapKeepsRole(k, w) ==
  /\ w \in live /\ kind[w] = k
  /\ Len(queue) < MaxQueue
  /\ ForgetRecords({w})
  /\ windowSurface' = [windowSurface EXCEPT ![w] = NoSurface]
  /\ UNCHANGED <<surfaces, nextWin, kind, surf, roleOf, bus, appkitVars, popupDone>>

(* What reap_toplevel, reap_popup and reap_layer_surface share.  They run  *)
(* on the object's destroy request and again from the `destroyed` hook,    *)
(* which is also what a killed client leaves behind.                       *)
Reap(k, w) ==
  /\ w \in live /\ kind[w] = k
  /\ Len(queue) < MaxQueue
  /\ ForgetRecords({w})
  /\ roleOf' = [roleOf EXCEPT ![k][surf[w]] = NoWin]
  /\ windowSurface' = [windowSurface EXCEPT ![w] = NoSurface]
  /\ UNCHANGED <<surfaces, nextWin, kind, surf, bus, appkitVars, popupDone>>

ReapToplevel(w) ==
  /\ Reap("toplevel", w)
  /\ queue' = queue \o DestroyIfCreated(w)

(* Mutant: Destroy only for a popup that painted. *)
ReapPopupIfCreated(w) ==
  /\ Reap("popup", w)
  /\ queue' = queue \o DestroyIfCreated(w)

(* A popup that never painted may still hold the grab: always Destroy. *)
ReapPopup(w) ==
  /\ Reap("popup", w)
  /\ queue' = Append(queue, Cmd("Destroy", w))

ReapLayerSurface(w) ==
  /\ Reap("layer", w)
  /\ queue' = queue \o DestroyIfCreated(w)

(* Mutant: the toplevel's native window is left to the toplevel object. *)
SurfaceDestroyKeepsWindow(s) ==
  LET t == roleOf["toplevel"][s]
      l == roleOf["layer"][s]
  IN
  /\ s \in surfaces
  /\ Len(queue) < MaxQueue
  /\ surfaces' = surfaces \ {s}
  /\ ForgetRecords({t, l} \ {NoWin})
  /\ roleOf' = [roleOf EXCEPT !["toplevel"][s] = NoWin, !["layer"][s] = NoWin]
  /\ windowSurface' = [w \in Wins |-> IF w = l THEN NoSurface ELSE windowSurface[w]]
  /\ queue' = queue \o DestroyIfCreated(l)
  /\ UNCHANGED <<nextWin, kind, surf, bus, appkitVars, popupDone>>

(* wl_surface.destroy: takes a toplevel's record with it but not its       *)
(* window_surface entry, reaps a layer surface, leaves a popup alone.      *)
SurfaceDestroy(s) ==
  LET t == roleOf["toplevel"][s]
      l == roleOf["layer"][s]
  IN
  /\ s \in surfaces
  /\ Len(queue) < MaxQueue
  /\ surfaces' = surfaces \ {s}
  /\ ForgetRecords({t, l} \ {NoWin})
  /\ roleOf' = [roleOf EXCEPT !["toplevel"][s] = NoWin, !["layer"][s] = NoWin]
  /\ windowSurface' = [w \in Wins |-> IF w = l THEN NoSurface ELSE windowSurface[w]]
  /\ queue' = queue \o DestroyIfCreated(t) \o DestroyIfCreated(l)
  /\ UNCHANGED <<nextWin, kind, surf, bus, appkitVars, popupDone>>

(* Mutant: no `dismissed` flag. *)
DismissEveryTime(w) ==
  /\ Len(queue) < MaxQueue
  /\ popupDone' = IF w \in live /\ kind[w] = "popup" THEN [popupDone EXCEPT ![w] = @ + 1] ELSE popupDone
  /\ queue' = Append(queue, Cmd("SetGrab", NoWin))
  /\ grabber' = NoWin
  /\ UNCHANGED <<recordVars, flagVars, appkitVars>>

(* dismiss_popup: popup_done goes out once per record, the grab is given   *)
(* up in any case.                                                         *)
Dismiss(w) ==
  /\ Len(queue) < MaxQueue
  /\ \/ /\ w \in live /\ kind[w] = "popup" /\ w \notin dismissed
        /\ dismissed' = dismissed \cup {w}
        /\ popupDone' = [popupDone EXCEPT ![w] = @ + 1]
     \/ /\ ~(w \in live /\ kind[w] = "popup" /\ w \notin dismissed)
        /\ UNCHANGED <<dismissed, popupDone>>
  /\ queue' = Append(queue, Cmd("SetGrab", NoWin))
  /\ grabber' = NoWin
  /\ UNCHANGED <<recordVars, configured, created, appkitVars>>

(* The next PopupDismiss on the bus. *)
PopupDismiss ==
  /\ bus # <<>>
  /\ Dismiss(Head(bus))
  /\ bus' = Tail(bus)

(* AppDeactivated dismisses the popup that has the keyboard focus, which   *)
(* is not modelled here (see SeatFocus): any popup may have it.            *)
AppDeactivated(w) ==
  /\ w \in live /\ kind[w] = "popup"
  /\ Dismiss(w)
  /\ UNCHANGED bus

-----------------------------------------------------------------------------
(* AppKit main thread: mac::handle, one command per turn of the queue *)

Handle(ops, w) ==
  /\ queue # <<>>
  /\ Head(queue).op \in ops /\ Head(queue).win = w
  /\ queue' = Tail(queue)
  /\ UNCHANGED <<recordVars, flagVars, bus, history>>

(* create_window *)
HandleCreateWindow(w) ==
  /\ Handle({"Create"}, w)
  /\ WINDOWS' = WINDOWS \cup {w}
  /\ UNCHANGED <<POPUP_WINDOWS, LAYER_WINDOWS>>

(* create_popup: a parent that is gone costs the popup its place, not its  *)
(* window.                                                                 *)
HandleCreatePopup(w) ==
  /\ Handle({"CreatePopup"}, w)
  /\ WINDOWS' = WINDOWS \cup {w}
  /\ POPUP_WINDOWS' = POPUP_WINDOWS \cup {w}
  /\ UNCHANGED LAYER_WINDOWS

(* create_layer_window *)
HandleCreateLayer(w) ==
  /\ Handle({"CreateLayer"}, w)
  /\ WINDOWS' = WINDOWS \cup {w}
  /\ LAYER_WINDOWS' = LAYER_WINDOWS \cup {w}
  /\ UNCHANGED POPUP_WINDOWS

HandleCreate(w) ==
  /\ HandleCreateWindow(w) \/ HandleCreatePopup(w) \/ HandleCreateLayer(w)
  /\ UNCHANGED GRAB

(* The contents of a window are not modelled; a frame for a window that is *)
(* not in WINDOWS is dropped.                                              *)
HandleFrame(w) ==
  /\ Handle({"Frame"}, w)
  /\ UNCHANGED appkitVars

HandleSetGrab(w) ==
  /\ Handle({"SetGrab"}, w)
  /\ GRAB' = w
  /\ UNCHANGED <<WINDOWS, POPUP_WINDOWS, LAYER_WINDOWS>>

(* Mutant: the grab is left to the client. *)
HandleDestroyKeepsGrab(w) ==
  /\ Handle({"Destroy"}, w)
  /\ WINDOWS' = WINDOWS \ {w}
  /\ POPUP_WINDOWS' = POPUP_WINDOWS \ {w}
  /\ LAYER_WINDOWS' = LAYER_WINDOWS \ {w}
  /\ UNCHANGED GRAB

HandleDestroy(w) ==
  /\ Handle({"Destroy"}, w)
  /\ WINDOWS' = WINDOWS \ {w}
  /\ POPUP_WINDOWS' = POPUP_WINDOWS \ {w}
  /\ LAYER_WINDOWS' = LAYER_WINDOWS \ {w}
  /\ GRAB' = IF GRAB = w THEN NoWin ELSE GRAB

(* Any mouse event asks grabbed(), which drops a grab whose window is not  *)
(* in WINDOWS.                                                             *)
MouseDropsGrab ==
  /\ GRAB # NoWin /\ GRAB \notin WINDOWS
  /\ GRAB' = NoWin
  /\ UNCHANGED <<recordVars, flagVars, queue, bus, WINDOWS, POPUP_WINDOWS, LAYER_WINDOWS, history>>

(* A button press outside the grabbing popup. *)
PressOutside ==
  /\ GRAB \in WINDOWS
  /\ Len(bus) < MaxBus
  /\ bus' = Append(bus, GRAB)
  /\ UNCHANGED <<recordVars, flagVars, queue, appkitVars, history>>

-----------------------------------------------------------------------------
Client ==
  \/ \E s \in Surfaces :
       \/ GetToplevel(s) \/ GetPopup(s) \/ GetLayerSurface(s)
       \/ CommitNothing(s) \/ CommitBuffer(s) \/ CommitNull(s)
       \/ SurfaceDestroy(s)
  \/ \E w \in Wins : Grab(w) \/ ReapToplevel(w) \/ ReapPopup(w) \/ ReapLayerSurface(w)

AppKit ==
  \E w \in Wins \cup {NoWin} :
    HandleCreate(w) \/ HandleFrame(w) \/ HandleSetGrab(w) \/ HandleDestroy(w)

Mouse == MouseDropsGrab \/ PressOutside

Input == PopupDismiss \/ \E w \in Wins : AppDeactivated(w)

Next == Client \/ Input \/ AppKit \/ Mouse

Spec == Init /\ [][Next]_vars

(* AppKit's main queue and the Wayland poll loop both run their queues to  *)
(* empty as long as the process lives; clients and the user owe nothing.   *)
FairSpec == Spec /\ WF_vars(AppKit) /\ WF_vars(PopupDismiss)

(* The abstract screen: a window is wanted while its record says           *)
(* `created_window` and shown while it is in WINDOWS; the changes in       *)
(* flight are the queued Creates and the queued Destroys that will find it *)
(* on screen.                                                              *)
Screen ==
  INSTANCE WindowScreen WITH
    Windows  <- Wins,
    wanted   <- created,
    shown    <- WINDOWS,
    inFlight <- [w \in Wins |-> Cardinality(Changes(queue, WINDOWS, w))]

-----------------------------------------------------------------------------
(* Properties *)

(* No orphan and no missing NSWindow: whatever order role objects,         *)
(* surfaces and clients die in (reap_*, wl_surface.destroy, attach(NULL)), *)
(* once the commands in flight are handled a native window is on screen    *)
(* exactly when its record lives and says `created_window`.                *)
WindowsFollowRecords ==
  /\ created \subseteq live
  /\ \A w \in Wins : Shown(queue, WINDOWS, w, Len(queue)) <=> w \in created

(* The queue never asks AppKit to create a window that is still on screen  *)
(* (the HashMap insert would drop the old NSWindow without closing it),    *)
(* and never delivers a frame to a window that is not there (the frame     *)
(* would be lost): `created_window` keeps Create, Frame and Destroy in     *)
(* step across unmap and re-show.                                          *)
CommandsFindTheirWindow ==
  \A i \in 1 .. Len(queue), w \in Wins : Fits(queue, WINDOWS, i, w)

(* A surface's role maps only name records that exist: `present` and       *)
(* `present_layer` index popups and layer_surfaces with what they find     *)
(* there and would panic, taking the compositor down, on a dangling entry. *)
RolesNameLiveRecords ==
  \A k \in Kinds, s \in Surfaces :
    LET w == roleOf[k][s] IN
    w # NoWin => w \in live /\ kind[w] = k /\ surf[w] = s

Popups == {w \in Wins : kind[w] = "popup"}

(* The pointer grab never outlives its popup: only popups get it, and if   *)
(* the record of the one that holds it, or that a queued SetGrab names, is *)
(* gone, then a Destroy or another SetGrab that takes the grab away is     *)
(* still to come (reap_popup posts Destroy even for a popup that never     *)
(* painted).                                                               *)
GrabNeverOutlivesPopup == Held(Wins, queue, GRAB, live, Popups)

(* One click outside a menu can reach dismiss_popup more than once; the    *)
(* `dismissed` flag keeps a second popup_done from going out.              *)
AtMostOnePopupDone == \A w \in Wins : popupDone[w] <= 1

(* A grab whose popup is gone is given up: AppKit does not route the       *)
(* pointer to a dead menu forever.                                         *)
StaleGrabEnds == \A w \in Wins : (GRAB = w /\ w \notin live) ~> (GRAB # w)

(* xdg_popup.grab says "route all pointer input to it and dismiss on       *)
(* outside click" (xdg_shell.rs): a popup that asked for the grab and was  *)
(* neither dismissed nor hidden since holds it when it is on screen and no *)
(* command is in flight.                                                   *)
ShownPopupHoldsGrab ==
  (queue = <<>> /\ bus = <<>> /\ grabber \in WINDOWS) => GRAB = grabber

=============================================================================
