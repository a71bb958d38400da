-------------------------- MODULE RailRoute_proofs --------------------------
(***************************************************************************)
(* Proofs about RailRoute, for any sets of windows, surfaces and           *)
(* rectangles and any limits of the bridge's tables.  What covers what is  *)
(* never expanded: the results hold for any covering relation.             *)
(***************************************************************************)
EXTENDS RailRoute, TLAPS

(* Every order is one of the four handlers' inputs. *)
LEMMA OrderParts ==
  ASSUME NEW m \in Orders
  PROVE  /\ m.win \in Ids /\ m.style \in Styles /\ m.owner \in Ids \cup {NoId} /\ m.rect \in Rects
         /\ m.geometry \in {"none", "offset", "size"}
BY DEF Orders

(* A window order: kinds and known windows afterwards. *)
LEMMA OrderKinds ==
  ASSUME TypeOK, NEW m \in Orders, WindowOrder(m)
  PROVE  /\ kind' \in [Ids -> Kinds \cup {"unknown"}]
         /\ kind'[m.win] \in Kinds
         /\ kind'[m.win] = Classify(m)
         /\ \A w \in Ids \ {m.win} : kind'[w] = IF w \in Demoted(m) THEN "Filtered" ELSE kind[w]
         /\ Known' = KnownAfter(m)
<1>1. m.win \in Ids
  BY OrderParts
<1>2. Classify(m) \in Kinds
  BY DEF Classify, Kinds
<1>3. kind' \in [Ids -> Kinds \cup {"unknown"}]
  BY <1>2 DEF WindowOrder, TypeOK, Kinds
<1>4. kind'[m.win] = Classify(m)
  BY <1>1 DEF WindowOrder
<1>5. \A w \in Ids \ {m.win} : kind'[w] = IF w \in Demoted(m) THEN "Filtered" ELSE kind[w]
  BY DEF WindowOrder
<1>6. \A w \in Demoted(m) : w \in Known
  BY DEF Demoted
<1>7. Known' = KnownAfter(m)
  BY <1>1, <1>2, <1>4, <1>5, <1>6 DEF Known, KnownAfter, Kinds
<1> QED BY <1>2, <1>3, <1>4, <1>5, <1>7

-----------------------------------------------------------------------------
(* Types *)

(* A window order keeps the types. *)
LEMMA OrderKeepsTypes ==
  ASSUME TypeOK, NEW m \in Orders, HandleOrder(m)
  PROVE  TypeOK'
<1>1. m.win \in Ids /\ m.rect \in Rects /\ m.owner \in Ids \cup {NoId}
  BY OrderParts
<1>2. WindowOrder(m) /\ ApplyState(m) /\ OpenAndClose(Opened(m), Closed)
  BY DEF HandleOrder
<1>3. kind' \in [Ids -> Kinds \cup {"unknown"}]
  BY <1>2, OrderKinds
<1>4. Owner(m) \in Ids \cup {NoId}
  BY <1>1 DEF Owner, TypeOK
<1>5. owner' \in [Ids -> Ids \cup {NoId}] /\ rect' \in [Ids -> Rects] /\ surf_map' \in [GfxSurfaces -> Ids \cup {NoId}]
  BY <1>1, <1>2, <1>4 DEF WindowOrder, TypeOK
<1>6. slot' \in [Ids -> {"free", "empty", "sized"}]
  BY <1>1, <1>2 DEF ApplyState, TypeOK
<1>7. LIVE_WINDOWS' \in [Ids -> Nat]
  BY <1>2 DEF OpenAndClose, Spawned, Deleted, TypeOK
<1>8. native' \subseteq Ids
  BY <1>1, <1>2 DEF OpenAndClose, Spawned, Deleted, Opened, TypeOK
<1>9. connected' \in BOOLEAN /\ pending' \subseteq GfxSurfaces /\ dropped' \subseteq GfxSurfaces /\ posted' \subseteq GfxSurfaces \X Ids
  BY DEF HandleOrder, TypeOK
<1> QED BY <1>3, <1>5, <1>6, <1>7, <1>8, <1>9 DEF TypeOK

(* Deleting a window keeps the types. *)
LEMMA DeleteKeepsTypes ==
  ASSUME TypeOK, NEW w \in Ids, RailWindowDelete(w)
  PROVE  TypeOK'
<1>1. LIVE_WINDOWS' \in [Ids -> Nat] /\ native' \subseteq Ids
  BY DEF RailWindowDelete, OpenAndClose, Spawned, Deleted, TypeOK
<1>2. /\ kind' \in [Ids -> Kinds \cup {"unknown"}] /\ owner' \in [Ids -> Ids \cup {NoId}]
      /\ rect' \in [Ids -> Rects] /\ surf_map' \in [GfxSurfaces -> Ids \cup {NoId}]
      /\ slot' \in [Ids -> {"free", "empty", "sized"}]
  BY RectsAssumption DEF RailWindowDelete, TypeOK
<1> QED BY <1>1, <1>2 DEF RailWindowDelete, TypeOK

(* A surface step leaves the windows alone and posts frames for the        *)
(* windows Resolve names.                                                  *)
LEMMA SurfaceStep ==
  ASSUME TypeOK, SurfaceUpdates
  PROVE  /\ UNCHANGED <<kind, owner, rect, slot, appWins, connected>>
         /\ surf_map' \in [GfxSurfaces -> Ids \cup {NoId}]
         /\ pending' \subseteq GfxSurfaces /\ dropped' \subseteq GfxSurfaces
         /\ posted' \subseteq GfxSurfaces \X Ids
         /\ \A s \in GfxSurfaces, w \in Ids :
              <<s, w>> \in posted' => kind[w] = "Mirror" /\ surf_map'[s] \in {w, NoId}
<1>1. ASSUME NEW map, NEW s \in GfxSurfaces, NEW own, NEW w \in Resolve(map, s, own)
      PROVE  w \in Ids /\ kind[w] = "Mirror" /\ map[s] \in {w, NoId}
  BY <1>1 DEF Resolve, Mirrored
<1>2. ASSUME NEW map, NEW s \in GfxSurfaces, NEW own, NEW ws, ws \subseteq Resolve(map, s, own), Emit(s, ws)
      PROVE  /\ posted' \subseteq GfxSurfaces \X Ids
             /\ \A t \in GfxSurfaces, w \in Ids : <<t, w>> \in posted' => kind[w] = "Mirror" /\ map[t] \in {w, NoId}
  BY <1>1, <1>2 DEF Emit
<1>3. ASSUME NEW s \in GfxSurfaces, NEW own \in OwnWindows, RailUpdateSurfaceArea(s, own)
      PROVE  /\ UNCHANGED <<kind, owner, rect, slot, appWins, connected>>
             /\ surf_map' \in [GfxSurfaces -> Ids \cup {NoId}]
             /\ pending' \subseteq GfxSurfaces /\ dropped' \subseteq GfxSurfaces
             /\ posted' \subseteq GfxSurfaces \X Ids
             /\ \A t \in GfxSurfaces, w \in Ids :
                  <<t, w>> \in posted' => kind[w] = "Mirror" /\ surf_map'[t] \in {w, NoId}
  <2>1. UNCHANGED <<kind, owner, rect, slot, appWins, connected>> /\ surf_map' = surf_map
    BY <1>3 DEF RailUpdateSurfaceArea, router
  <2>2. pending' \subseteq GfxSurfaces /\ dropped' \subseteq GfxSurfaces
    BY <1>3 DEF RailUpdateSurfaceArea, TypeOK
  <2>3. Emit(s, Resolve(surf_map, s, own))
    BY <1>3 DEF RailUpdateSurfaceArea
  <2> QED BY <1>2, <2>1, <2>2, <2>3 DEF TypeOK
<1>4. ASSUME NEW s \in GfxSurfaces, NEW v \in Ids, RailMapWindowForSurface(s, v)
      PROVE  /\ UNCHANGED <<kind, owner, rect, slot, appWins, connected>>
             /\ surf_map' \in [GfxSurfaces -> Ids \cup {NoId}]
             /\ pending' \subseteq GfxSurfaces /\ dropped' \subseteq GfxSurfaces
             /\ posted' \subseteq GfxSurfaces \X Ids
             /\ \A t \in GfxSurfaces, w \in Ids :
                  <<t, w>> \in posted' => kind[w] = "Mirror" /\ surf_map'[t] \in {w, NoId}
  <2>1. UNCHANGED <<kind, owner, rect, slot, appWins, connected>>
    BY <1>4 DEF RailMapWindowForSurface
  <2>2. /\ surf_map' \in [GfxSurfaces -> Ids \cup {NoId}]
        /\ pending' \subseteq GfxSurfaces /\ dropped' \subseteq GfxSurfaces
    BY <1>4 DEF RailMapWindowForSurface, TypeOK
  <2>3. PICK ws : ws \subseteq Resolve(surf_map', s, NoId) /\ Emit(s, ws)
    BY <1>4 DEF RailMapWindowForSurface
  <2> QED BY <1>2, <2>1, <2>2, <2>3
<1>5. ASSUME NEW v \in Ids, RailUnmapWindowForSurface(v)
      PROVE  /\ UNCHANGED <<kind, owner, rect, slot, appWins, connected>>
             /\ surf_map' \in [GfxSurfaces -> Ids \cup {NoId}]
             /\ pending' \subseteq GfxSurfaces /\ dropped' \subseteq GfxSurfaces /\ posted' = {}
  BY <1>5 DEF RailUnmapWindowForSurface, TypeOK
<1> QED BY <1>3, <1>4, <1>5 DEF SurfaceUpdates

(* Every step keeps the types. *)
LEMMA NextKeepsTypes ==
  ASSUME TypeOK, [Next]_vars
  PROVE  TypeOK'
<1>1. CASE WindowOrders
  BY <1>1, OrderKeepsTypes, DeleteKeepsTypes DEF WindowOrders, RailWindowCreate, RailWindowUpdate
<1>2. CASE SurfaceUpdates
  BY <1>2, SurfaceStep DEF TypeOK, appWins
<1>3. CASE OnDisconnected
  <2>1. LIVE_WINDOWS' \in [Ids -> Nat] /\ native' \subseteq Ids
    BY <1>3 DEF OnDisconnected, OpenAndClose, Spawned, Deleted, TypeOK
  <2> QED BY <1>3, <2>1 DEF OnDisconnected, TypeOK, router
<1>4. CASE UNCHANGED vars
  BY <1>4 DEF TypeOK, vars, router, appWins, frames
<1> QED BY <1>1, <1>2, <1>3, <1>4 DEF Next

(* Every variable keeps its type. *)
THEOREM TypeCorrect == Spec => []TypeOK
<1>1. Init => TypeOK
  BY RectsAssumption DEF Init, TypeOK, Kinds
<1>2. TypeOK /\ [Next]_vars => TypeOK'
  BY NextKeepsTypes
<1> QED BY <1>1, <1>2, PTL DEF Spec

-----------------------------------------------------------------------------
(* No phantoms *)

(* A window order leaves no app window with a covering child: its own by   *)
(* its class, its owner by demotion, any other because nothing about it or *)
(* its children has changed.                                               *)
LEMMA OrderLeavesNoPhantom ==
  ASSUME TypeOK, NoPhantom, NEW m \in Orders, WindowOrder(m)
  PROVE  NoPhantom'
<1> SUFFICES ASSUME NEW w \in Ids, kind'[w] = "Mirror", HasCoveringChild(Known', owner', rect', w)
             PROVE  FALSE
  BY DEF NoPhantom
<1>1. Known' = KnownAfter(m) /\ kind'[m.win] = Classify(m) /\ m.win \in Ids
  BY OrderKinds, OrderParts
<1>2. w # m.win
  BY <1>1 DEF Classify
<1>3. w \notin Demoted(m) /\ kind[w] = "Mirror"
  BY <1>2, OrderKinds
<1>4. owner'[m.win] # w
  BY <1>1, <1>2, <1>3 DEF Demoted, Known
<1>5. PICK c \in KnownAfter(m) \ {w} : owner'[c] = w /\ Covers(rect'[c], rect'[w])
  BY <1>1 DEF HasCoveringChild
<1>6. c # m.win /\ c \in Known
  BY <1>4, <1>5 DEF KnownAfter
<1>7. owner'[c] = owner[c] /\ rect'[c] = rect[c] /\ rect'[w] = rect[w]
  BY <1>2, <1>6 DEF WindowOrder, TypeOK, Known
<1>8. w \in Known
  BY <1>3 DEF Known
<1>9. HasCoveringChild(Known, owner, rect, w)
  BY <1>5, <1>6, <1>7, <1>8 DEF HasCoveringChild
<1> QED BY <1>3, <1>9 DEF NoPhantom

(* Fewer windows cover less. *)
LEMMA DeleteLeavesNoPhantom ==
  ASSUME TypeOK, NoPhantom, NEW v \in Ids, RailWindowDelete(v)
  PROVE  NoPhantom'
<1> SUFFICES ASSUME NEW w \in Ids, kind'[w] = "Mirror", HasCoveringChild(Known', owner', rect', w)
             PROVE  FALSE
  BY DEF NoPhantom
<1>1. \A u \in Ids : kind'[u] = IF u = v THEN "unknown" ELSE kind[u]
  BY DEF RailWindowDelete, TypeOK
<1>2. w # v /\ kind[w] = "Mirror" /\ Known' = Known \ {v}
  BY <1>1 DEF Known
<1>3. \A u \in Ids \ {v} : owner'[u] = owner[u] /\ rect'[u] = rect[u]
  BY DEF RailWindowDelete, TypeOK
<1>4. HasCoveringChild(Known, owner, rect, w)
  BY <1>2, <1>3 DEF HasCoveringChild, Known
<1> QED BY <1>2, <1>4 DEF NoPhantom

(* No app window is a frame around a content window it owns.               *)
THEOREM PhantomCorrect == Spec => []NoPhantom
<1>1. Init => NoPhantom
  BY DEF Init, NoPhantom
<1>2. TypeOK /\ NoPhantom /\ [Next]_vars => NoPhantom'
  <2> SUFFICES ASSUME TypeOK, NoPhantom, [Next]_vars PROVE NoPhantom'
    OBVIOUS
  <2>1. CASE WindowOrders
    BY <2>1, OrderLeavesNoPhantom, DeleteLeavesNoPhantom
    DEF WindowOrders, RailWindowCreate, RailWindowUpdate, HandleOrder
  <2>2. CASE SurfaceUpdates
    BY <2>2, SurfaceStep DEF NoPhantom, HasCoveringChild, Known
  <2>3. CASE OnDisconnected
    BY <2>3 DEF OnDisconnected, router, NoPhantom, HasCoveringChild, Known
  <2>4. CASE UNCHANGED vars
    BY <2>4 DEF vars, router, NoPhantom, HasCoveringChild, Known
  <2> QED BY <2>1, <2>2, <2>3, <2>4 DEF Next
<1> QED BY <1>1, <1>2, TypeCorrect, PTL DEF Spec

-----------------------------------------------------------------------------
(* Native windows *)

(* The bridge has a slot for the windows the router knows. *)
SlotsAgree == \A w \in Ids : slot[w] = "free" <=> kind[w] = "unknown"

NativeOK == SlotsAgree /\ NativeWindowsAreMirrored /\ AppWindowsAreShown

(* A window order opens and closes what it should. *)
LEMMA OrderKeepsNative ==
  ASSUME TypeOK, NativeOK, NEW m \in Orders, HandleOrder(m)
  PROVE  NativeOK'
<1>1. WindowOrder(m) /\ ApplyState(m) /\ OpenAndClose(Opened(m), Closed) /\ connected /\ connected' = connected
  BY DEF HandleOrder
<1>2. m.win \in Ids
  BY OrderParts
<1>3. /\ kind' \in [Ids -> Kinds \cup {"unknown"}] /\ kind'[m.win] \in Kinds
      /\ \A w \in Ids \ {m.win} : kind'[w] = IF w \in Demoted(m) THEN "Filtered" ELSE kind[w]
  BY <1>1, OrderKinds
<1>4. \A w \in Ids \ {m.win} : slot'[w] = slot[w]
  BY <1>1 DEF ApplyState, TypeOK
<1>5. slot'[m.win] # "free"
  BY <1>1, <1>2 DEF ApplyState, TypeOK
<1>6. SlotsAgree'
  <2>1. \A w \in Demoted(m) : kind[w] = "Mirror"
    BY DEF Demoted
  <2> QED BY <1>2, <1>3, <1>4, <1>5, <2>1 DEF SlotsAgree, NativeOK, Kinds
<1>7. \A w \in Ids : LIVE_WINDOWS'[w] = IF w \in Closed THEN 0
                                         ELSE LIVE_WINDOWS[w] + IF w \in Opened(m) THEN 1 ELSE 0
  BY <1>1 DEF OpenAndClose, Spawned, Deleted
<1>8. native' = (native \cup Opened(m)) \ Closed
  BY <1>1 DEF OpenAndClose, Spawned, Deleted
<1>9. \A w \in Opened(m) : w = m.win /\ kind'[w] = "Mirror" /\ w \notin Closed /\ LIVE_WINDOWS[w] = 0 /\ w \notin native
  <2> SUFFICES ASSUME NEW w \in Opened(m)
               PROVE  w = m.win /\ kind'[w] = "Mirror" /\ w \notin Closed /\ LIVE_WINDOWS[w] = 0 /\ w \notin native
    OBVIOUS
  <2>1. w = m.win /\ kind'[w] = "Mirror" /\ w \notin Closed
    BY DEF Opened, Closed
  <2>2. LIVE_WINDOWS[w] = 0
    BY <1>2, <2>1 DEF Opened, NativeOK, NativeWindowsAreMirrored
  <2>3. w \notin native
    BY <1>2, <2>1, <2>2 DEF NativeOK, NativeWindowsAreMirrored
  <2> QED BY <2>1, <2>2, <2>3
<1>10. \A w \in Ids : LIVE_WINDOWS'[w] = IF w \in native' THEN 1 ELSE 0
  <2> SUFFICES ASSUME NEW w \in Ids PROVE LIVE_WINDOWS'[w] = IF w \in native' THEN 1 ELSE 0
    OBVIOUS
  <2>1. CASE w \in Closed
    BY <1>7, <1>8, <2>1
  <2>2. CASE w \in Opened(m)
    BY <1>7, <1>8, <1>9, <2>2
  <2>3. CASE w \notin Closed /\ w \notin Opened(m)
    BY <1>7, <1>8, <2>3 DEF NativeOK, NativeWindowsAreMirrored
  <2> QED BY <2>1, <2>2, <2>3
<1>11. \A w \in native' : kind'[w] = "Mirror"
  <2> SUFFICES ASSUME NEW w \in native, w \notin Closed PROVE kind'[w] = "Mirror"
    BY <1>8, <1>9
  <2>1. w \in Ids /\ kind[w] = "Mirror"
    BY DEF NativeOK, NativeWindowsAreMirrored, TypeOK
  <2> QED BY <1>3, <2>1 DEF Closed, Kinds
<1>12. \A w \in Ids : kind'[w] = "Mirror" /\ slot'[w] = "sized" => w \in native'
  <2> SUFFICES ASSUME NEW w \in Ids, kind'[w] = "Mirror", slot'[w] = "sized" PROVE w \in native'
    OBVIOUS
  <2>1. w \notin Closed
    BY DEF Closed
  <2>2. CASE w \in Opened(m)
    BY <1>8, <2>1, <2>2
  <2>3. CASE w # m.win
    <3>1. kind[w] = "Mirror" /\ slot[w] = "sized"
      BY <1>3, <1>4, <2>3
    <3> QED BY <1>1, <1>8, <2>1, <3>1 DEF NativeOK, AppWindowsAreShown
  <2>4. CASE w = m.win /\ w \notin Opened(m)
    <3>1. kind[w] = "Mirror" /\ (m.geometry = "none" \/ LIVE_WINDOWS[w] # 0)
      BY <2>4 DEF Opened
    <3>2. CASE m.geometry = "none"
      <4>1. slot[w] = "sized"
        BY <1>1, <2>4, <3>2 DEF ApplyState, TypeOK
      <4> QED BY <1>1, <1>8, <2>1, <3>1, <4>1 DEF NativeOK, AppWindowsAreShown
    <3>3. CASE LIVE_WINDOWS[w] # 0
      BY <1>8, <2>1, <3>3 DEF NativeOK, NativeWindowsAreMirrored
    <3> QED BY <3>1, <3>2, <3>3
  <2> QED BY <2>2, <2>3, <2>4
<1> QED BY <1>1, <1>6, <1>10, <1>11, <1>12 DEF NativeOK, NativeWindowsAreMirrored, AppWindowsAreShown

(* A deleted window goes, the others stay. *)
LEMMA DeleteKeepsNative ==
  ASSUME TypeOK, NativeOK, NEW v \in Ids, RailWindowDelete(v)
  PROVE  NativeOK'
<1> DEFINE gone == {u \in {v} : kind[u] = "Mirror"}
<1>1. OpenAndClose({}, gone) /\ connected' = connected /\ connected
  BY DEF RailWindowDelete
<1>2. \A w \in Ids : /\ kind'[w] = IF w = v THEN "unknown" ELSE kind[w]
                     /\ slot'[w] = IF w = v THEN "free" ELSE slot[w]
  BY DEF RailWindowDelete, TypeOK
<1>3. native' = native \ gone /\ \A w \in Ids : LIVE_WINDOWS'[w] = IF w \in gone THEN 0 ELSE LIVE_WINDOWS[w]
  BY <1>1 DEF OpenAndClose, Spawned, Deleted, TypeOK
<1>4. \A w \in native : w \in Ids /\ kind[w] = "Mirror"
  BY DEF NativeOK, NativeWindowsAreMirrored, TypeOK
<1>5. SlotsAgree'
  BY <1>2 DEF SlotsAgree, NativeOK
<1>6. \A w \in Ids : LIVE_WINDOWS'[w] = IF w \in native' THEN 1 ELSE 0
  BY <1>3, <1>4 DEF NativeOK, NativeWindowsAreMirrored
<1>7. \A w \in native' : kind'[w] = "Mirror"
  BY <1>2, <1>3, <1>4
<1>8. \A w \in Ids : kind'[w] = "Mirror" /\ slot'[w] = "sized" => w \in native'
  BY <1>1, <1>2, <1>3 DEF NativeOK, AppWindowsAreShown
<1> QED BY <1>1, <1>5, <1>6, <1>7, <1>8 DEF NativeOK, NativeWindowsAreMirrored, AppWindowsAreShown

(* The strengthened invariant: slots, native windows and app windows.      *)
LEMMA NativeInvariant == Spec => []NativeOK
<1>1. Init => NativeOK
  BY DEF Init, NativeOK, SlotsAgree, NativeWindowsAreMirrored, AppWindowsAreShown
<1>2. TypeOK /\ NativeOK /\ [Next]_vars => NativeOK'
  <2> SUFFICES ASSUME TypeOK, NativeOK, [Next]_vars PROVE NativeOK'
    OBVIOUS
  <2>1. CASE WindowOrders
    BY <2>1, OrderKeepsNative, DeleteKeepsNative DEF WindowOrders, RailWindowCreate, RailWindowUpdate
  <2>2. CASE SurfaceUpdates
    BY <2>2, SurfaceStep DEF NativeOK, SlotsAgree, NativeWindowsAreMirrored, AppWindowsAreShown, appWins
  <2>3. CASE OnDisconnected
    <3>1. /\ UNCHANGED <<kind, slot>> /\ connected' = FALSE
          /\ OpenAndClose({}, {w \in Ids : LIVE_WINDOWS[w] > 0})
      BY <2>3 DEF OnDisconnected, router
    <3>2. native \subseteq {w \in Ids : LIVE_WINDOWS[w] > 0}
      BY DEF NativeOK, NativeWindowsAreMirrored, TypeOK
    <3>3. native' = {}
      BY <3>1, <3>2 DEF OpenAndClose, Spawned, Deleted
    <3>4. \A w \in Ids : LIVE_WINDOWS'[w] = 0
      BY <3>1 DEF OpenAndClose, Spawned, Deleted, TypeOK
    <3> QED BY <3>1, <3>3, <3>4 DEF NativeOK, SlotsAgree, NativeWindowsAreMirrored, AppWindowsAreShown
  <2>4. CASE UNCHANGED vars
    BY <2>4 DEF vars, router, appWins, NativeOK, SlotsAgree, NativeWindowsAreMirrored, AppWindowsAreShown
  <2> QED BY <2>1, <2>2, <2>3, <2>4 DEF Next
<1> QED BY <1>1, <1>2, TypeCorrect, PTL DEF Spec

(* Native windows are windows the router mirrors, each opened once, none   *)
(* after the session.                                                      *)
THEOREM NativeCorrect == Spec => []NativeWindowsAreMirrored
<1>1. NativeOK => NativeWindowsAreMirrored
  BY DEF NativeOK
<1> QED BY <1>1, NativeInvariant, PTL

(* An app window with a size is on screen. *)
THEOREM ShownCorrect == Spec => []AppWindowsAreShown
<1>1. NativeOK => AppWindowsAreShown
  BY DEF NativeOK
<1> QED BY <1>1, NativeInvariant, PTL

-----------------------------------------------------------------------------
(* Pixels *)

(* A frame shows in an app window, and in no other than the mapped one.    *)
THEOREM PixelsCorrect == Spec => []PixelsStayInTheirWindow
<1>1. Init => PixelsStayInTheirWindow
  BY DEF Init, PixelsStayInTheirWindow
<1>2. TypeOK /\ PixelsStayInTheirWindow /\ [Next]_vars => PixelsStayInTheirWindow'
  <2> SUFFICES ASSUME TypeOK, PixelsStayInTheirWindow, [Next]_vars PROVE PixelsStayInTheirWindow'
    OBVIOUS
  <2>1. CASE WindowOrders
    BY <2>1 DEF WindowOrders, RailWindowCreate, RailWindowUpdate, HandleOrder, RailWindowDelete, PixelsStayInTheirWindow
  <2>2. CASE SurfaceUpdates
    BY <2>2, SurfaceStep DEF PixelsStayInTheirWindow
  <2>3. CASE OnDisconnected
    BY <2>3 DEF OnDisconnected, PixelsStayInTheirWindow
  <2>4. CASE UNCHANGED vars
    BY <2>4 DEF vars, router, frames, PixelsStayInTheirWindow
  <2> QED BY <2>1, <2>2, <2>3, <2>4 DEF Next
<1> QED BY <1>1, <1>2, TypeCorrect, PTL DEF Spec
=============================================================================
