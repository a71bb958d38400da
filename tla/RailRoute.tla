------------------------------ MODULE RailRoute ------------------------------
(***************************************************************************)
(* The windows of a RAIL session: window orders and surface updates from   *)
(* the server, through the C bridge (rail_bridge.c) and the routing policy *)
(* (rail_route.rs), to the native windows rail.rs opens and closes.        *)
(*                                                                         *)
(* Everything here runs on the one thread of the FreeRDP event loop; an    *)
(* action is one callback of it, with every call down to `mac::post`.      *)
(* What is hard is the order of the server's messages: frames before their *)
(* window, content before its frame, sizes that come late.                 *)
(***************************************************************************)
EXTENDS Integers, FiniteSets

CONSTANTS
  Ids,         \* RAIL window ids
  NoId,        \* 0: no owner, no window
  GfxSurfaces, \* rdpgfx surface ids
  Rects,       \* window rectangles
  OwnWindows,  \* what FreeRDP itself may know to be a surface's window
  NoRect,      \* the rectangle of a window the router does not know
  MaxSlots,    \* MAX_WINDOWS
  MaxPending   \* MAX_SURFACES

ASSUME IdsAssumption   == NoId \notin Ids
ASSUME OwnAssumption   == OwnWindows \subseteq Ids \cup {NoId}
ASSUME RectsAssumption == Rects \subseteq [x : Int, y : Int, w : Int, h : Int] /\ NoRect \in Rects
ASSUME SlotsAssumption == {MaxSlots, MaxPending} \subseteq Nat

Kinds == {"Mirror", "Filtered"}

(* Extended styles as far as is_decoration tells them apart; "none" is an  *)
(* order without the STYLE field.                                          *)
Styles == {"none", "app", "noactivate", "tool"}

(* A window order, as WindowCreate and WindowUpdate get it.  The router is *)
(* given the rectangle whether or not the order carries it; what FreeRDP   *)
(* leaves there otherwise is open.  An owner counts with the STYLE field   *)
(* only.  "geometry" is what the bridge keeps of the rectangle for its own *)
(* use: nothing, the offset alone, or the size.                            *)
Orders == {m \in [win : Ids, style : Styles, owner : Ids \cup {NoId}, rect : Rects,
                  geometry : {"none", "offset", "size"}] :
             m.style = "none" => m.owner = NoId}

VARIABLES
  (* Router, rail_route.rs *)
  kind, owner, rect,   \* windows: id to Win, "unknown" without an entry
  surf_map,            \* surface to window
  (* railContext, rail_bridge.c *)
  slot,                \* windows[]: "free", or whether the geometry kept is "empty" or "sized"
  pending,             \* surfaces with a frame held back
  (* rail.rs *)
  LIVE_WINDOWS,        \* entries of the vector, by id
  native,              \* NSWindows, once the commands posted so far are handled
  connected,
  (* history, read by properties only *)
  posted,              \* the surface and window of the frame the last step posted
  dropped              \* surfaces whose latest frame was held, and dropped by its mapping

router  == <<kind, owner, rect, surf_map>>
appWins == <<LIVE_WINDOWS, native>>
frames  == <<pending, posted, dropped>>
vars == <<router, slot, appWins, connected, frames>>

TypeOK ==
  /\ kind \in [Ids -> Kinds \cup {"unknown"}]
  /\ owner \in [Ids -> Ids \cup {NoId}]
  /\ rect \in [Ids -> Rects]
  /\ surf_map \in [GfxSurfaces -> Ids \cup {NoId}]
  /\ slot \in [Ids -> {"free", "empty", "sized"}]
  /\ pending \subseteq GfxSurfaces /\ dropped \subseteq GfxSurfaces
  /\ LIVE_WINDOWS \in [Ids -> Nat]
  /\ native \subseteq Ids
  /\ connected \in BOOLEAN
  /\ posted \subseteq GfxSurfaces \X Ids

Init ==
  /\ kind = [w \in Ids |-> "unknown"]
  /\ owner = [w \in Ids |-> NoId]
  /\ rect = [w \in Ids |-> NoRect]
  /\ surf_map = [s \in GfxSurfaces |-> NoId]
  /\ slot = [w \in Ids |-> "free"]
  /\ pending = {} /\ dropped = {} /\ posted = {}
  /\ LIVE_WINDOWS = [w \in Ids |-> 0]
  /\ native = {}
  /\ connected = TRUE

-----------------------------------------------------------------------------
(* Classification *)

Positive(n) == IF n > 0 THEN n ELSE 0
Area(r) == Positive(r.w) * Positive(r.h)

CONTAIN_SLACK == 8

(* Rect::covers, with FRAME_COVER_RATIO 0.8 *)
Covers(r, o) ==
  /\ Area(o) # 0 /\ Area(r) # 0
  /\ 10 * Area(r) >= 8 * Area(o)
  /\ r.x >= o.x - CONTAIN_SLACK
  /\ r.y >= o.y - CONTAIN_SLACK
  /\ r.x + r.w <= o.x + o.w + CONTAIN_SLACK
  /\ r.y + r.h <= o.y + o.h + CONTAIN_SLACK

(* The windows known are K, with owners O and rectangles R. *)
HasCoveringChild(K, O, R, p) ==
  /\ p \in K
  /\ \E c \in K \ {p} : O[c] = p /\ Covers(R[c], R[p])

IsDecoration(style, o) == style = "tool" \/ (style = "noactivate" /\ o # NoId)

Known == {w \in Ids : kind[w] # "unknown"}

(* An owner, once learned, is kept until an order names another one. *)
Owner(m) == IF m.owner # NoId THEN m.owner ELSE owner[m.win]

(* The windows known once the order is in. *)
KnownAfter(m) == Known \cup {m.win}

(* What the order makes of its own window; without the STYLE field a known *)
(* window keeps its kind unless it turns out to be a frame.                *)
Classify(m) ==
  IF \/ IsDecoration(m.style, owner'[m.win])
     \/ HasCoveringChild(KnownAfter(m), owner', rect', m.win)
     \/ m.style = "none" /\ kind[m.win] = "Filtered"
  THEN "Filtered"
  ELSE "Mirror"

(* Mutant: nobody looks back at the owner. *)
DemotedNever(m) == {}

(* The owner the order has turned into a frame. *)
Demoted(m) ==
  {p \in Known \ {m.win} :
     /\ p = owner'[m.win] /\ kind[p] = "Mirror"
     /\ HasCoveringChild(KnownAfter(m), owner', rect', p)}

(* Router::window_order *)
WindowOrder(m) ==
  /\ owner' = [owner EXCEPT ![m.win] = Owner(m)]
  /\ rect' = [rect EXCEPT ![m.win] = m.rect]
  /\ kind' = [[w \in Ids |-> IF w \in Demoted(m) THEN "Filtered" ELSE kind[w]]
                EXCEPT ![m.win] = Classify(m)]
  /\ UNCHANGED surf_map

-----------------------------------------------------------------------------
(* Native windows *)

(* spawn_window: one more entry, and one more window. *)
Spawned(opened) == [w \in Ids |-> LIVE_WINDOWS[w] + IF w \in opened THEN 1 ELSE 0]

(* on_window_delete: every entry goes. *)
Deleted(live, closed) == [w \in Ids |-> IF w \in closed THEN 0 ELSE live[w]]

OpenAndClose(opened, closed) ==
  /\ LIVE_WINDOWS' = Deleted(Spawned(opened), closed)
  /\ native' = (native \cup opened) \ closed

(* apply_state, in the slot win_alloc cleared: a size counts if sent. *)
ApplyState(m) ==
  slot' = [slot EXCEPT ![m.win] =
             CASE m.geometry = "size" -> IF m.rect.w > 0 /\ m.rect.h > 0 THEN "sized" ELSE "empty"
               [] m.geometry # "size" /\ @ = "free" -> "empty"
               [] OTHER -> @]

(* The windows an order takes from the screen: its own (NowFiltered), and  *)
(* the owner it demoted.                                                   *)
Closed == {w \in Ids : kind[w] = "Mirror" /\ kind'[w] = "Filtered"}

(* Mutant: a deferred window is never made up for. *)
OpenedAtOnce(m) ==
  {w \in {m.win} : kind'[w] = "Mirror" /\ slot'[w] = "sized" /\ kind[w] # "Mirror"}

(* An order that makes its window an app window creates it, if it has a    *)
(* size (on_window_create); for one without, a later update of its         *)
(* geometry does (on_window_update).                                       *)
Opened(m) ==
  {w \in {m.win} :
     /\ kind'[w] = "Mirror" /\ slot'[w] = "sized"
     /\ kind[w] = "Mirror" => m.geometry # "none" /\ LIVE_WINDOWS[w] = 0}

HandleOrder(m) ==
  /\ connected
  /\ ApplyState(m)
  /\ WindowOrder(m)
  /\ OpenAndClose(Opened(m), Closed)
  /\ posted' = {}
  /\ UNCHANGED <<connected, pending, dropped>>

Slots == {w \in Ids : slot[w] # "free"}

(* rail_window_create.  The server announces a window once; an update for  *)
(* one that was never announced counts as its announcement.  Without a     *)
(* free slot the order is dropped.                                         *)
RailWindowCreate(m) ==
  /\ m.win \notin Slots /\ Cardinality(Slots) < MaxSlots
  /\ HandleOrder(m)

(* rail_window_update *)
RailWindowUpdate(m) ==
  /\ m.win \in Slots
  /\ HandleOrder(m)

(* Mutant: the native window is left to the disconnect. *)
RailWindowDeleteKeepsNative(w) ==
  /\ connected
  /\ slot' = [slot EXCEPT ![w] = "free"]
  /\ kind' = [kind EXCEPT ![w] = "unknown"]
  /\ owner' = [owner EXCEPT ![w] = NoId]
  /\ rect' = [rect EXCEPT ![w] = NoRect]
  /\ surf_map' = [s \in GfxSurfaces |-> IF surf_map[s] = w THEN NoId ELSE surf_map[s]]
  /\ posted' = {}
  /\ UNCHANGED <<appWins, connected, pending, dropped>>

(* rail_window_delete, with Router::window_deleted *)
RailWindowDelete(w) ==
  /\ connected
  /\ slot' = [slot EXCEPT ![w] = "free"]
  /\ kind' = [kind EXCEPT ![w] = "unknown"]
  /\ owner' = [owner EXCEPT ![w] = NoId]
  /\ rect' = [rect EXCEPT ![w] = NoRect]
  /\ surf_map' = [s \in GfxSurfaces |-> IF surf_map[s] = w THEN NoId ELSE surf_map[s]]
  /\ OpenAndClose({}, {v \in {w} : kind[v] = "Mirror"})
  /\ posted' = {}
  /\ UNCHANGED <<connected, pending, dropped>>

-----------------------------------------------------------------------------
(* GfxSurfaces *)

Mirrored(w) == w \in Ids /\ kind[w] = "Mirror"

(* Mutant: the surface's own window comes first. *)
ResolveOwnFirst(map, s, own) ==
  {w \in Ids :
     /\ Mirrored(w)
     /\ \/ w = own
        \/ own = NoId /\ w = map[s]
        \/ map[s] = NoId /\ own = NoId /\ Known = {w}}

(* Mutant: nobody asks whether there is such a window. *)
ResolveUnchecked(map, s, own) == {IF map[s] # NoId THEN map[s] ELSE own}

(* Router::resolve: the explicit map, then the surface's own window, then  *)
(* the only window there is; at most one window.                           *)
Resolve(map, s, own) ==
  {w \in Ids :
     /\ Mirrored(w)
     /\ \/ w = map[s]
        \/ map[s] = NoId /\ w = own
        \/ map[s] = NoId /\ own = NoId /\ Known = {w}}

(* emit_surface: the frame of s goes to the windows ws.  It is posted      *)
(* whether or not the window is open, which for a deferred one is too      *)
(* early.                                                                  *)
Emit(s, ws) == posted' = {s} \X ws

(* rail_update_surface_area: own is the window FreeRDP knows of.  A frame  *)
(* without a window is held, if there is room.                             *)
RailUpdateSurfaceArea(s, own) ==
  LET ws == Resolve(surf_map, s, own) IN
  /\ connected
  /\ \/ ws # {} /\ pending' = pending \ {s}
     \/ ws = {} /\ Cardinality(pending \cup {s}) <= MaxPending /\ pending' = pending \cup {s}
     \/ ws = {} /\ Cardinality(pending \cup {s}) > MaxPending /\ UNCHANGED pending
  /\ Emit(s, ws)
  /\ dropped' = dropped \ {s}
  /\ UNCHANGED <<router, slot, appWins, connected>>

(* rail_map_window_for_surface: a held frame is flushed, or dropped when   *)
(* the window is not an app window.                                        *)
RailMapWindowForSurface(s, w) ==
  LET ws == Resolve(surf_map', s, NoId) IN
  /\ connected
  /\ surf_map' = [surf_map EXCEPT ![s] = w]
  /\ pending' = pending \ {s}
  /\ Emit(s, IF s \in pending THEN ws ELSE {})
  /\ dropped' = IF s \in pending /\ ws = {} THEN dropped \cup {s} ELSE dropped
  /\ UNCHANGED <<kind, owner, rect, slot, appWins, connected>>

(* rail_unmap_window_for_surface *)
RailUnmapWindowForSurface(w) ==
  /\ connected
  /\ surf_map' = [s \in GfxSurfaces |-> IF surf_map[s] = w THEN NoId ELSE surf_map[s]]
  /\ posted' = {}
  /\ UNCHANGED <<kind, owner, rect, slot, appWins, connected, pending, dropped>>

(* on_disconnected: the event loop has ended and every window goes. *)
OnDisconnected ==
  /\ connected
  /\ connected' = FALSE
  /\ OpenAndClose({}, {w \in Ids : LIVE_WINDOWS[w] > 0})
  /\ posted' = {}
  /\ UNCHANGED <<router, slot, pending, dropped>>

-----------------------------------------------------------------------------
WindowOrders ==
  \/ \E m \in Orders : RailWindowCreate(m) \/ RailWindowUpdate(m)
  \/ \E w \in Ids : RailWindowDelete(w)

SurfaceUpdates ==
  \/ \E s \in GfxSurfaces, own \in OwnWindows : RailUpdateSurfaceArea(s, own)
  \/ \E s \in GfxSurfaces, w \in Ids : RailMapWindowForSurface(s, w)
  \/ \E w \in Ids : RailUnmapWindowForSurface(w)

Next == WindowOrders \/ SurfaceUpdates \/ OnDisconnected

Spec == Init /\ [][Next]_vars

-----------------------------------------------------------------------------
(* Properties *)

(* "Mirroring both spawns an empty phantom next to the real window": no    *)
(* app window is a frame around a content window it owns, whichever of the *)
(* two was announced, resized, re-owned or reclassified last.              *)
NoPhantom == \A w \in Ids : kind[w] = "Mirror" => ~HasCoveringChild(Known, owner, rect, w)

(* The native windows are windows the router mirrors: those it filters,    *)
(* demotes or deletes are closed in the same step, each is opened once     *)
(* ("destroy whatever is still live here (otherwise the NSWindows          *)
(* linger)"), and none survives the session.                               *)
NativeWindowsAreMirrored ==
  /\ \A w \in Ids : LIVE_WINDOWS[w] = IF w \in native THEN 1 ELSE 0
  /\ \A w \in native : kind[w] = "Mirror"
  /\ ~connected => native = {}

(* An app window with a size is on screen, whether it was announced with   *)
(* one, got it later ("this is its true creation, not an update") or was   *)
(* an auxiliary window before.                                             *)
AppWindowsAreShown ==
  connected => \A w \in Ids : kind[w] = "Mirror" /\ slot[w] = "sized" => w \in native

(* "A surface that resolves to a filtered (auxiliary) window is dropped,   *)
(* never smeared onto another window": a frame shows in an app window, and *)
(* if its surface is mapped, in no other than the mapped one.              *)
PixelsStayInTheirWindow ==
  \A s \in GfxSurfaces, w \in Ids :
    <<s, w>> \in posted => kind[w] = "Mirror" /\ surf_map[s] \in {w, NoId}

(* "Flush any frame that arrived before the mapping [...] otherwise an app *)
(* whose only frame preceded the map (an idle terminal) would stay blank": *)
(* a surface mapped to a native window is not one whose latest frame was   *)
(* held until the mapping came, and dropped there.                         *)
IdleAppIsNotBlank == \A s \in dropped : surf_map[s] \notin native
=============================================================================
