----------------------------- MODULE Subsurfaces -----------------------------
(***************************************************************************)
(* wl_subsurface: a surface drawn as a sublayer of the native window at    *)
(* the root of its chain of parents.  One client that keeps to the         *)
(* protocol, except that its chains may have cycles: a surface has one     *)
(* role for good, and one role object at a time.  The Wayland thread posts *)
(* to AppKit in order, so a command takes effect with the request that     *)
(* posts it.                                                               *)
(*                                                                         *)
(* Left out: positions, scales, colours and pixels; the cursor's surface   *)
(* and docked bars, which are no root of a subsurface; configures and the  *)
(* parents of popups, which ShellWindows models.                           *)
(***************************************************************************)
EXTENDS WlSurfaces, FiniteSets

CONSTANTS
  Subs,    \* wl_subsurface objects; they and the surfaces are created once each
  NoSub    \* None

ASSUME SubsAssumption     == NoSub \notin Subs
ASSUME SurfacesAssumption == IsFiniteSet(Surfaces)

VARIABLES
  surface,             \* "new", "live" (in State.surfaces), "gone"
  role,                \* "none", "toplevel", "popup", "subsurface"
  shell,               \* surfaces with a toplevel or popup record; it names the window too
  windows,             \* those of them whose native window exists
  usedSubs,            \* wl_subsurface objects created so far
  subsurfaces,         \* State.subsurfaces: of an object, its surface and parent, or NoRec
  surface_subsurface,  \* State.surface_subsurface
  sublayers,           \* of a native window: the subsurfaces drawn in it
  (* history, for the properties only *)
  broken               \* subsurfaces that lost a link on the way to their window

clientVars == <<surface, role, usedSubs>>
chainVars  == <<shell, subsurfaces, surface_subsurface>>
nativeVars == <<windows, sublayers>>
subVars    == <<clientVars, chainVars, nativeVars, broken>>

NoRec == [surface |-> NoSurface, parent |-> NoSurface]

(* The state has its types; a record and its surface name one another, and *)
(* only a native window has sublayers.                                     *)
SubTypeOK ==
  /\ surface \in [Surfaces -> {"new", "live", "gone"}]
  /\ role \in [Surfaces -> {"none", "toplevel", "popup", "subsurface"}]
  /\ windows \subseteq shell /\ shell \subseteq Surfaces
  /\ usedSubs \subseteq Subs /\ broken \subseteq usedSubs
  /\ subsurfaces \in [Subs -> [surface : Surfaces, parent : Surfaces] \cup {NoRec}]
  /\ surface_subsurface \in [Surfaces -> Subs \cup {NoSub}]
  /\ \A u \in Subs, s \in Surfaces : surface_subsurface[s] = u <=> subsurfaces[u].surface = s
  /\ sublayers \in [Surfaces -> SUBSET Subs]
  /\ \A s \in Surfaces \ windows : sublayers[s] = {}

SubInit ==
  /\ surface = [s \in Surfaces |-> "new"]
  /\ role = [s \in Surfaces |-> "none"]
  /\ shell = {} /\ windows = {} /\ usedSubs = {} /\ broken = {}
  /\ subsurfaces = [u \in Subs |-> NoRec]
  /\ surface_subsurface = [s \in Surfaces |-> NoSub]
  /\ sublayers = [s \in Surfaces |-> {}]

-----------------------------------------------------------------------------
(* The walk *)

(* The parent of a surface that has a subsurface record. *)
Parent(s) == IF surface_subsurface[s] = NoSub THEN NoSurface
             ELSE subsurfaces[surface_subsurface[s]].parent

(* From s up, with the surfaces in seen behind it: the surface of the      *)
(* window it reaches; NoSurface where a link is missing, or one repeats.   *)
Walk[at \in Surfaces \X SUBSET Surfaces] ==
  LET s == at[1]
      seen == at[2]
  IN  CASE s \in seen \/ Parent(s) = NoSurface -> NoSurface
        [] s \notin seen /\ Parent(s) \in shell -> Parent(s)
        [] OTHER -> Walk[<<Parent(s), seen \cup {s}>>]

resolve_subsurface(s) == Walk[<<s, {}>>]

(* The surfaces the walk from s passes, s among them: the least set that   *)
(* has with a surface also its parent, up to the one below the window.     *)
GoesOn(s) == Parent(s) # NoSurface /\ Parent(s) \notin shell

Way(s) == {t \in Surfaces : \A L \in SUBSET Surfaces :
             (s \in L /\ \A x \in L : GoesOn(x) => Parent(x) \in L) => t \in L}

-----------------------------------------------------------------------------
(* wl_compositor, xdg_wm_base *)

CreateSurface(s) ==
  /\ surface[s] = "new"
  /\ surface' = [surface EXCEPT ![s] = "live"]
  /\ UNCHANGED <<role, usedSubs, chainVars, nativeVars, broken>>

GetShellRole(s, r) ==
  /\ surface[s] = "live" /\ role[s] \in {"none", r} /\ s \notin shell
  /\ role' = [role EXCEPT ![s] = r]
  /\ shell' = shell \cup {s}
  /\ UNCHANGED <<surface, usedSubs, subsurfaces, surface_subsurface, nativeVars, broken>>

(* WinCmd::Destroy: the window goes with all that is drawn in it. *)
CloseNative(s) ==
  /\ windows' = windows \ {s}
  /\ sublayers' = [sublayers EXCEPT ![s] = {}]

(* reap_toplevel, reap_popup, by a request of the client. *)
DestroyShellRole(s) ==
  /\ s \in shell
  /\ shell' = shell \ {s}
  /\ CloseNative(s)
  /\ UNCHANGED <<clientVars, subsurfaces, surface_subsurface, broken>>

(* present: Create where there is no window yet, then Frame. *)
PresentWindow(s) ==
  /\ surface[s] = "live" /\ s \in shell
  /\ windows' = windows \cup {s}
  /\ UNCHANGED <<clientVars, chainVars, sublayers, broken>>

(* unmap_surface: attach(NULL) closes the window of a popup only. *)
UnmapSurface(s) ==
  /\ surface[s] = "live" /\ s \in windows /\ role[s] = "popup"
  /\ CloseNative(s)
  /\ UNCHANGED <<clientVars, chainVars, broken>>

-----------------------------------------------------------------------------
(* wl_subcompositor, wl_subsurface *)

(* A surface that is its own parent is refused, a longer cycle is not. *)
GetSubsurface(u, s, p) ==
  /\ u \notin usedSubs /\ surface[s] = "live" /\ surface[p] = "live"
  /\ role[s] \in {"none", "subsurface"} /\ surface_subsurface[s] = NoSub
  /\ usedSubs' = usedSubs \cup {u}
  /\ role' = [role EXCEPT ![s] = "subsurface"]
  /\ s # p
  /\ subsurfaces' = [subsurfaces EXCEPT ![u] = [surface |-> s, parent |-> p]]
  /\ surface_subsurface' = [surface_subsurface EXCEPT ![s] = u]
  /\ UNCHANGED <<surface, shell, nativeVars, broken>>

(* present_subsurface: a SubFrame for the window the walk reaches; AppKit  *)
(* drops it while that window does not exist.                              *)
PresentSubsurface(s) ==
  LET w == resolve_subsurface(s) IN
  /\ surface[s] = "live" /\ w \in windows
  /\ sublayers' = [sublayers EXCEPT ![w] = @ \cup {surface_subsurface[s]}]
  /\ UNCHANGED <<clientVars, chainVars, windows, broken>>

(* Mutant: the object is not taken off its surface. *)
ReapObject(u) ==
  LET s == subsurfaces[u].surface IN
  /\ subsurfaces' = [subsurfaces EXCEPT ![u] = NoRec]
  /\ UNCHANGED surface_subsurface
  /\ sublayers' = [w \in Surfaces |-> IF w = resolve_subsurface(s) THEN sublayers[w] \ {u} ELSE sublayers[w]]

(* Mutant: the walk comes after the record is gone. *)
ReapThenResolve(u) ==
  LET s == subsurfaces[u].surface IN
  /\ subsurfaces' = [subsurfaces EXCEPT ![u] = NoRec]
  /\ surface_subsurface' = [surface_subsurface EXCEPT ![s] = NoSub]
  /\ UNCHANGED sublayers

(* reap_subsurface: SubDestroy for the window the walk reaches, if any. *)
Reap(u) ==
  LET s == subsurfaces[u].surface
      w == resolve_subsurface(s)
  IN
  /\ subsurfaces' = [subsurfaces EXCEPT ![u] = NoRec]
  /\ surface_subsurface' = [surface_subsurface EXCEPT ![s] = NoSub]
  /\ sublayers' = IF w = NoSurface THEN sublayers ELSE [sublayers EXCEPT ![w] = @ \ {u}]

(* Who passes the surface of u on its way loses it. *)
Break(u) ==
  broken' = broken \cup {v \in Subs \ {u} : /\ subsurfaces[v] # NoRec
                                             /\ subsurfaces[u].surface \in Way(subsurfaces[v].surface)}

DestroySubsurface(u) ==
  /\ subsurfaces[u] # NoRec
  /\ Reap(u) /\ Break(u)
  /\ UNCHANGED <<clientVars, shell, windows>>

-----------------------------------------------------------------------------
(* wl_surface.destroy, and the end of the client *)

(* A toplevel goes with its surface, a popup does not. *)
DestroySurface(s) ==
  /\ surface[s] = "live"
  /\ surface' = [surface EXCEPT ![s] = "gone"]
  /\ shell' = IF role[s] = "toplevel" THEN shell \ {s} ELSE shell
  /\ IF role[s] = "toplevel" THEN windows' = windows \ {s} ELSE UNCHANGED windows
  /\ IF surface_subsurface[s] # NoSub
     THEN Reap(surface_subsurface[s]) /\ Break(surface_subsurface[s])
     ELSE /\ sublayers' = IF role[s] = "toplevel" THEN [sublayers EXCEPT ![s] = {}] ELSE sublayers
          /\ UNCHANGED <<subsurfaces, surface_subsurface, broken>>
  /\ UNCHANGED <<role, usedSubs>>

(* Toplevels and popups have a destroyed hook, subsurfaces have none: the  *)
(* records stay, of objects nobody can name any more.                      *)
Disconnect ==
  /\ \E s \in Surfaces : surface[s] = "live"
  /\ surface' = [s \in Surfaces |-> "gone"] /\ usedSubs' = Subs
  /\ shell' = {} /\ windows' = {} /\ sublayers' = [s \in Surfaces |-> {}]
  /\ UNCHANGED <<role, subsurfaces, surface_subsurface, broken>>

SubNext ==
  \/ \E s \in Surfaces :
       \/ CreateSurface(s) \/ DestroyShellRole(s) \/ PresentWindow(s) \/ UnmapSurface(s)
       \/ PresentSubsurface(s) \/ DestroySurface(s)
       \/ \E r \in {"toplevel", "popup"} : GetShellRole(s, r)
       \/ \E u \in Subs, p \in Surfaces : GetSubsurface(u, s, p)
  \/ \E u \in Subs : DestroySubsurface(u)
  \/ Disconnect

SubSpec == SubInit /\ [][SubNext]_subVars

-----------------------------------------------------------------------------
(* Properties *)

(* What is drawn of a subsurface is in the window its parents lead to, and *)
(* goes with the subsurface, whatever becomes of the surfaces around it;   *)
(* unless one of the subsurfaces between it and the window went first.     *)
SublayersFollow ==
  \A w \in Surfaces : \A u \in sublayers[w] \ broken :
    subsurfaces[u] # NoRec /\ resolve_subsurface(subsurfaces[u].surface) = w

=============================================================================
