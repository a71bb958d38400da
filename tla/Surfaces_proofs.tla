-------------------------- MODULE Surfaces_proofs --------------------------
(***************************************************************************)
(* Proofs about three modules of single surfaces and windows: SeatFocus,   *)
(* Subsurfaces and WindowSize.  No two of them share a name but those of   *)
(* WlSurfaces, and each part below is about one of them.                   *)
(***************************************************************************)
EXTENDS SeatFocus, Subsurfaces, WindowSize, SequenceTheorems, FiniteSetTheorems, TLAPS

-----------------------------------------------------------------------------
(***************************************************************************)
(* SeatFocus, for any number of windows and surfaces.                      *)
(***************************************************************************)

(* A window the Wayland thread counts as focused was entered, as long as   *)
(* it is registered; a window id not handed out yet is neither.            *)
FocusedIsEntered ==
  /\ \A w \in Windows :
       recordKind[w] = "unborn" => w \notin Registered /\ w # pointer_focus /\ w # focus_window
  /\ pointer_focus \in Registered => windowSurface[pointer_focus] \in pointerIn
  /\ focus_window \in Registered => windowSurface[focus_window] \in keyboardIn

(* Every variable keeps its type. *)
THEOREM SeatTypeCorrect == SeatSpec => []SeatTypeOK
<1>1. SeatInit => SeatTypeOK
  BY DEF SeatInit, SeatTypeOK
<1>2. SeatTypeOK /\ [SeatNext]_seatVars => SeatTypeOK'
  <2> SUFFICES ASSUME SeatTypeOK, [SeatNext]_seatVars PROVE SeatTypeOK'
    OBVIOUS
  <2> USE DEF SeatTypeOK, windowVars, focusVars
  <2>1. ASSUME NEW ws PROVE SurfacesOf(ws) \subseteq Surfaces
    BY DEF SurfacesOf, Registered
  <2>2. ASSUME NEW S \in SUBSET Surfaces, NEW E \in SUBSET WireEvents
        PROVE  S \X E \subseteq Surfaces \X WireEvents
    OBVIOUS
  <2>3. ASSUME NEW S \in SUBSET Surfaces, NEW e \in WireEvents
        PROVE  S \X {e} \subseteq Surfaces \X WireEvents
    BY <2>2, <2>3
  <2>4. ASSUME NEW w \in Windows, NEW k \in RecordKinds, NEW s \in Surfaces, GetRole(w, k, s)
        PROVE  SeatTypeOK'
    BY <2>4 DEF GetRole
  <2>5. ASSUME NEW w \in Windows, ReapRole(w) PROVE SeatTypeOK'
    BY <2>5 DEF ReapRole
  <2>6. ASSUME NEW s \in Surfaces, SurfaceDestroy(s) PROVE SeatTypeOK'
    BY <2>6 DEF SurfaceDestroy
  <2>7. ASSUME NEW w \in Windows, NEW b \in BOOLEAN, PresentLayer(w, b) PROVE SeatTypeOK'
    <3> DEFINE taken == IF b /\ focus_window # w THEN SurfacesOf({w}) ELSE {}
    <3>1. taken \in SUBSET Surfaces
      BY <2>1
    <3>2. taken \X {"keyboard enter"} \subseteq Surfaces \X WireEvents
      BY <2>3, <3>1 DEF WireEvents
    <3> HIDE DEF taken
    <3> QED BY <2>7, <3>1, <3>2 DEF PresentLayer, taken
  <2>8. ASSUME NEW w \in Windows, NEW uses \in SUBSET {"pointer use"}, EnsurePointerFocus(w, uses)
        PROVE  SeatTypeOK'
    <3>1. /\ Left(w) \in SUBSET Surfaces /\ Entered(w) \in SUBSET Surfaces
          /\ SurfacesOf({w}) \in SUBSET Surfaces
      BY <2>1 DEF Left, Entered
    <3>2. /\ Left(w) \X {"pointer leave"} \subseteq Surfaces \X WireEvents
          /\ Entered(w) \X {"pointer enter"} \subseteq Surfaces \X WireEvents
          /\ SurfacesOf({w}) \X uses \subseteq Surfaces \X WireEvents
      BY <2>2, <3>1 DEF WireEvents
    <3>3. sent' \subseteq Surfaces \X WireEvents /\ pointerIn' \subseteq Surfaces
      BY <2>8, <3>1, <3>2 DEF EnsurePointerFocus
    <3> QED BY <2>8, <3>3 DEF EnsurePointerFocus
  <2>9. ASSUME NEW w \in Windows, PointerEnter(w) \/ PointerMotion(w) \/ PointerButton(w)
        PROVE  SeatTypeOK'
    BY <2>8, <2>9 DEF PointerEnter, PointerMotion, PointerButton
  <2>10. ASSUME NEW w \in Windows, PointerLeave(w) PROVE SeatTypeOK'
    <3>1. SurfacesOf({w}) \X {"pointer leave"} \subseteq Surfaces \X WireEvents
      BY <2>1, <2>3 DEF WireEvents
    <3> QED BY <2>10, <3>1 DEF PointerLeave
  <2>11. ASSUME NEW w \in Windows, FocusIn(w) PROVE SeatTypeOK'
    <3>1. SurfacesOf({w}) \X {"keyboard enter"} \subseteq Surfaces \X WireEvents
      BY <2>1, <2>3 DEF WireEvents
    <3> QED BY <2>1, <2>11, <3>1 DEF FocusIn
  <2>12. ASSUME NEW w \in Windows, FocusOut(w) PROVE SeatTypeOK'
    <3>1. SurfacesOf({w}) \X {"keyboard leave"} \subseteq Surfaces \X WireEvents
      BY <2>1, <2>3 DEF WireEvents
    <3> QED BY <2>12, <3>1 DEF FocusOut
  <2>13. CASE Key
    <3>1. SurfacesOf({focus_window}) \X {"key"} \subseteq Surfaces \X WireEvents
      BY <2>1, <2>3 DEF WireEvents
    <3> QED BY <2>13, <3>1 DEF Key
  <2>14. ASSUME NEW w \in Windows, DismissPopup(w) PROVE SeatTypeOK'
    <3>1. SurfacesOf({w}) \X {"popup_done"} \subseteq Surfaces \X WireEvents
      BY <2>1, <2>3 DEF WireEvents
    <3> QED BY <2>14, <3>1 DEF DismissPopup
  <2>15. CASE UNCHANGED seatVars
    BY <2>15 DEF seatVars
  <2> QED
    BY <2>4, <2>5, <2>6, <2>7, <2>9, <2>10, <2>11, <2>12, <2>13, <2>14, <2>15
    DEF SeatNext, Lifecycle, Pointer, Keyboard, Menus, PopupDismiss, AppDeactivated
<1> QED BY <1>1, <1>2, PTL DEF SeatSpec

(* A registered window has one surface. *)
LEMMA SurfacesOfOne ==
  ASSUME SeatTypeOK, NEW w
  PROVE  /\ w \in Registered => SurfacesOf({w}) = {windowSurface[w]} /\ windowSurface[w] \in Surfaces
         /\ w \notin Registered => SurfacesOf({w}) = {}
BY DEF SurfacesOf, Registered, SeatTypeOK

(* Whoever counts as focused was entered: every step keeps it so. *)
LEMMA FocusedStep ==
  ASSUME SeatTypeOK, FocusedIsEntered, [SeatNext]_seatVars
  PROVE  FocusedIsEntered'
<1> USE DEF windowVars, focusVars
<1> NoWindow \notin Registered
  BY WindowsAssumption DEF Registered
<1>1. ASSUME UNCHANGED <<recordKind, windowSurface, focusVars, pointerIn, keyboardIn>>
      PROVE  FocusedIsEntered'
  BY <1>1 DEF FocusedIsEntered, Registered
<1>2. ASSUME NEW w \in Windows, NEW k \in RecordKinds, NEW s \in Surfaces, GetRole(w, k, s)
      PROVE  FocusedIsEntered'
  <2>1. w # pointer_focus /\ w # focus_window
    BY <1>2 DEF GetRole, FocusedIsEntered
  <2>2. Registered' \subseteq Registered \cup {w}
    BY <1>2 DEF GetRole, Registered, SeatTypeOK
  <2>3. \A v \in Windows : v # w => windowSurface'[v] = windowSurface[v] /\ recordKind'[v] = recordKind[v]
    BY <1>2 DEF GetRole, SeatTypeOK
  <2>4. recordKind'[w] # "unborn"
    BY <1>2 DEF GetRole, SeatTypeOK, RecordKinds
  <2>5. \A v \in Registered' : v \in Windows
    BY DEF Registered
  <2> QED BY <1>2, <2>1, <2>2, <2>3, <2>4, <2>5 DEF GetRole, FocusedIsEntered
<1>3. ASSUME NEW w \in Windows, ReapRole(w) PROVE FocusedIsEntered'
  <2>1. Registered' \subseteq Registered \ {w} /\ \A v \in Windows \ {w} : windowSurface'[v] = windowSurface[v]
    BY <1>3 DEF ReapRole, Registered, SeatTypeOK
  <2>2. \A v \in Registered' : v \in Windows
    BY DEF Registered
  <2>3. w \in Registered
    BY <1>3 DEF ReapRole
  <2>4. focus_window' \in {focus_window, NoWindow}
    BY <1>3 DEF ReapRole
  <2> QED BY <1>3, <2>1, <2>2, <2>3, <2>4, WindowsAssumption DEF ReapRole, FocusedIsEntered
<1>4. ASSUME NEW s \in Surfaces, SurfaceDestroy(s) PROVE FocusedIsEntered'
  <2>1. \A v \in Registered : windowSurface[v] # s
    BY <1>4 DEF SurfaceDestroy, SurfacesOf, Registered
  <2> QED BY <1>4, <2>1 DEF SurfaceDestroy, FocusedIsEntered, Registered
<1>5. ASSUME NEW w \in Windows, NEW b \in BOOLEAN, PresentLayer(w, b) PROVE FocusedIsEntered'
  <2>1. w \in Registered /\ SurfacesOf({w}) = {windowSurface[w]}
    BY <1>5, SurfacesOfOne DEF PresentLayer
  <2>2. b /\ focus_window # w => windowSurface[w] \in keyboardIn'
    BY <1>5, <2>1 DEF PresentLayer
  <2>3. keyboardIn \subseteq keyboardIn' /\ focus_window' = IF b THEN w ELSE focus_window
    BY <1>5 DEF PresentLayer
  <2>4. Registered' = Registered /\ UNCHANGED <<recordKind, windowSurface, pointer_focus, pointerIn>>
    BY <1>5 DEF PresentLayer, Registered
  <2> QED BY <2>1, <2>2, <2>3, <2>4 DEF FocusedIsEntered
<1>6. ASSUME NEW w \in Windows, NEW uses, EnsurePointerFocus(w, uses) PROVE FocusedIsEntered'
  <2>1. w \in Registered /\ SurfacesOf({w}) = {windowSurface[w]}
    BY <1>6, SurfacesOfOne DEF EnsurePointerFocus
  <2>2. windowSurface[w] \in pointerIn'
    BY <1>6, <2>1 DEF EnsurePointerFocus, Entered, Left, FocusedIsEntered
  <2>3. Registered' = Registered /\ UNCHANGED <<recordKind, windowSurface, focus_window, keyboardIn>>
        /\ pointer_focus' = w
    BY <1>6 DEF EnsurePointerFocus, Registered
  <2> QED BY <2>1, <2>2, <2>3 DEF FocusedIsEntered
<1>7. ASSUME NEW w \in Windows, PointerEnter(w) \/ PointerMotion(w) \/ PointerButton(w)
      PROVE  FocusedIsEntered'
  BY <1>6, <1>7 DEF PointerEnter, PointerMotion, PointerButton
<1>8. ASSUME NEW w \in Windows, PointerLeave(w) PROVE FocusedIsEntered'
  BY <1>8, WindowsAssumption DEF PointerLeave, FocusedIsEntered, Registered
<1>9. ASSUME NEW w \in Windows, FocusIn(w) PROVE FocusedIsEntered'
  <2>1. w \in Registered /\ SurfacesOf({w}) = {windowSurface[w]}
    BY <1>9, SurfacesOfOne DEF FocusIn
  <2> QED BY <1>9, <2>1 DEF FocusIn, FocusedIsEntered, Registered
<1>10. ASSUME NEW w \in Windows, FocusOut(w) PROVE FocusedIsEntered'
  BY <1>10, WindowsAssumption DEF FocusOut, FocusedIsEntered, Registered
<1>11. CASE Key
  BY <1>1, <1>11 DEF Key
<1>12. ASSUME NEW w \in Windows, DismissPopup(w) PROVE FocusedIsEntered'
  BY <1>1, <1>12 DEF DismissPopup
<1>13. CASE UNCHANGED seatVars
  BY <1>1, <1>13 DEF seatVars
<1> QED
  BY <1>2, <1>3, <1>4, <1>5, <1>7, <1>8, <1>9, <1>10, <1>11, <1>12, <1>13
  DEF SeatNext, Lifecycle, Pointer, Keyboard, Menus, PopupDismiss, AppDeactivated

(* What a step tells clients to use, they have. *)
LEMMA SentStep ==
  ASSUME SeatTypeOK, FocusedIsEntered, EnterBeforeUse, [SeatNext]_seatVars
  PROVE  EnterBeforeUse'
<1> USE DEF windowVars, focusVars
<1>1. ASSUME \A s \in Surfaces : <<s, "pointer use">> \notin sent' /\ <<s, "key">> \notin sent'
      PROVE  EnterBeforeUse'
  BY <1>1 DEF EnterBeforeUse
<1>2. CASE Lifecycle
  <2>1. ASSUME NEW w \in Windows, NEW k \in RecordKinds, NEW s \in Surfaces, GetRole(w, k, s) PROVE EnterBeforeUse'
    BY <1>1, <2>1 DEF GetRole
  <2>2. ASSUME NEW w \in Windows, ReapRole(w) PROVE EnterBeforeUse'
    BY <1>1, <2>2 DEF ReapRole
  <2>3. ASSUME NEW s \in Surfaces, SurfaceDestroy(s) PROVE EnterBeforeUse'
    BY <1>1, <2>3 DEF SurfaceDestroy
  <2>4. ASSUME NEW w \in Windows, NEW b \in BOOLEAN, PresentLayer(w, b) PROVE EnterBeforeUse'
    BY <1>1, <2>4 DEF PresentLayer
  <2> QED BY <1>2, <2>1, <2>2, <2>3, <2>4 DEF Lifecycle
<1>4. ASSUME NEW w \in Windows, NEW uses \in SUBSET {"pointer use"}, EnsurePointerFocus(w, uses)
      PROVE  EnterBeforeUse'
  <2>1. SurfacesOf({w}) = {windowSurface[w]}
    BY <1>4, SurfacesOfOne DEF EnsurePointerFocus
  <2>2. windowSurface[w] \in pointerIn'
    BY <1>4, <2>1 DEF EnsurePointerFocus, Entered, Left, FocusedIsEntered
  <2>3. \A s \in Surfaces : <<s, "key">> \notin sent'
    BY <1>4 DEF EnsurePointerFocus
  <2>4. \A s \in Surfaces : <<s, "pointer use">> \in sent' => s = windowSurface[w]
    BY <1>4, <2>1 DEF EnsurePointerFocus
  <2> QED BY <2>2, <2>3, <2>4 DEF EnterBeforeUse
<1>5. ASSUME NEW w \in Windows, PointerEnter(w) \/ PointerMotion(w) \/ PointerButton(w)
      PROVE  EnterBeforeUse'
  BY <1>4, <1>5 DEF PointerEnter, PointerMotion, PointerButton
<1>6. ASSUME NEW w \in Windows,
             PointerLeave(w) \/ FocusIn(w) \/ FocusOut(w) \/ DismissPopup(w)
      PROVE  EnterBeforeUse'
  <2>1. PICK e \in {"pointer leave", "keyboard enter", "keyboard leave", "popup_done"} :
          sent' = SurfacesOf({w}) \X {e}
    BY <1>6 DEF PointerLeave, FocusIn, FocusOut, DismissPopup
  <2>2. e # "pointer use" /\ e # "key"
    OBVIOUS
  <2> QED BY <1>1, <2>1, <2>2
<1>7. CASE Key
  <2>1. SurfacesOf({focus_window}) = {windowSurface[focus_window]}
    BY <1>7, SurfacesOfOne DEF Key
  <2>2. windowSurface[focus_window] \in keyboardIn'
    BY <1>7 DEF Key, FocusedIsEntered
  <2> QED BY <1>7, <2>1, <2>2 DEF Key, EnterBeforeUse
<1>8. CASE UNCHANGED seatVars
  BY <1>8 DEF seatVars, EnterBeforeUse
<1> QED
  BY <1>2, <1>5, <1>6, <1>7, <1>8
  DEF SeatNext, Pointer, Keyboard, Menus, PopupDismiss, AppDeactivated

(* FocusedIsEntered and EnterBeforeUse hold throughout. *)
LEMMA FocusInvariant == SeatSpec => [](FocusedIsEntered /\ EnterBeforeUse)
<1>1. SeatInit => FocusedIsEntered /\ EnterBeforeUse
  BY WindowsAssumption
  DEF SeatInit, FocusedIsEntered, Registered, EnterBeforeUse
<1>2. SeatTypeOK /\ FocusedIsEntered /\ EnterBeforeUse /\ [SeatNext]_seatVars => (FocusedIsEntered /\ EnterBeforeUse)'
  BY FocusedStep, SentStep
<1> QED BY <1>1, <1>2, SeatTypeCorrect, PTL DEF SeatSpec

(* No client sees motion, buttons or keys on a surface it was not told to  *)
(* have.                                                                   *)
THEOREM UseCorrect == SeatSpec => []EnterBeforeUse
BY FocusInvariant, PTL

(* No client is told to leave a surface it was not told to enter. *)
THEOREM LeaveCorrect == SeatSpec => NoStrayLeave
<1> DEFINE Stray == \A s \in Surfaces :
                      /\ <<s, "pointer leave">> \in sent' => s \in pointerIn
                      /\ <<s, "keyboard leave">> \in sent' => s \in keyboardIn
<1>1. SeatTypeOK /\ FocusedIsEntered /\ [SeatNext]_seatVars => [Stray]_seatVars
  <2> SUFFICES ASSUME SeatTypeOK, FocusedIsEntered, SeatNext PROVE Stray
    OBVIOUS
  <2>1. CASE Lifecycle
    <3>1. CASE sent' = {}
      BY <3>1
    <3>2. ASSUME NEW w, NEW b, PresentLayer(w, b) PROVE Stray
      BY <3>2 DEF PresentLayer
    <3> QED BY <2>1, <3>1, <3>2 DEF Lifecycle, GetRole, ReapRole, SurfaceDestroy
  <2>2. ASSUME NEW w \in Windows, NEW uses \in SUBSET {"pointer use"}, EnsurePointerFocus(w, uses)
        PROVE  Stray
    <3>1. Left(w) \subseteq pointerIn
      BY SurfacesOfOne DEF Left, FocusedIsEntered
    <3> QED BY <2>2, <3>1 DEF EnsurePointerFocus
  <2>3. ASSUME NEW w \in Windows, PointerEnter(w) \/ PointerMotion(w) \/ PointerButton(w)
        PROVE  Stray
    BY <2>2, <2>3 DEF PointerEnter, PointerMotion, PointerButton
  <2>4. ASSUME NEW w \in Windows, PointerLeave(w) PROVE Stray
    <3>1. SurfacesOf({w}) \subseteq pointerIn
      BY <2>4, SurfacesOfOne DEF PointerLeave, FocusedIsEntered
    <3> QED BY <2>4, <3>1 DEF PointerLeave
  <2>5. ASSUME NEW w \in Windows, FocusOut(w) PROVE Stray
    <3>1. SurfacesOf({w}) \subseteq keyboardIn
      BY <2>5, SurfacesOfOne DEF FocusOut, FocusedIsEntered
    <3> QED BY <2>5, <3>1 DEF FocusOut
  <2>6. ASSUME NEW w \in Windows, FocusIn(w) PROVE Stray
    BY <2>6 DEF FocusIn
  <2>7. ASSUME NEW w \in Windows, DismissPopup(w) PROVE Stray
    BY <2>7 DEF DismissPopup
  <2>8. CASE Key
    BY <2>8 DEF Key
  <2> QED
    BY <2>1, <2>3, <2>4, <2>5, <2>6, <2>7, <2>8
    DEF SeatNext, Pointer, Keyboard, Menus, PopupDismiss, AppDeactivated
<1> QED BY <1>1, SeatTypeCorrect, FocusInvariant, PTL DEF SeatSpec, NoStrayLeave

-----------------------------------------------------------------------------
(***************************************************************************)
(* Subsurfaces, for any finite number of surfaces and any of subsurfaces:  *)
(* first the walk up the chains of parents, then what is drawn.            *)
(***************************************************************************)

(* A link leads to a surface, if anywhere. *)
LEMMA ParentType ==
  ASSUME SubTypeOK, NEW s \in Surfaces
  PROVE  Parent(s) \in Surfaces \cup {NoSurface} /\ (GoesOn(s) => Parent(s) \in Surfaces)
<1>1. surface_subsurface[s] \in Subs \cup {NoSub}
  BY DEF SubTypeOK
<1>2. \A u \in Subs : subsurfaces[u].parent \in Surfaces \cup {NoSurface}
  BY DEF SubTypeOK, NoRec
<1> QED BY <1>1, <1>2 DEF Parent, GoesOn

(* None is no window. *)
LEMMA NoneHasNoWindow == ASSUME SubTypeOK PROVE NoSurface \notin shell
BY NoSurfaceAssumption DEF SubTypeOK

(* The way is closed, and it is the least such set. *)
LEMMA WayCloses ==
  ASSUME SubTypeOK, NEW s \in Surfaces
  PROVE  /\ s \in Way(s) /\ Way(s) \subseteq Surfaces
         /\ \A x \in Way(s) : GoesOn(x) => Parent(x) \in Way(s)
         /\ \A L : (s \in L /\ \A x \in L \cap Way(s) : GoesOn(x) => Parent(x) \in L) => Way(s) \subseteq L
<1>1. s \in Way(s) /\ Way(s) \subseteq Surfaces
  BY DEF Way
<1>2. ASSUME NEW x \in Way(s), GoesOn(x) PROVE Parent(x) \in Way(s)
  <2>1. Parent(x) \in Surfaces
    BY <1>1, <1>2, ParentType
  <2> QED BY <1>2, <2>1 DEF Way
<1>3. ASSUME NEW L, s \in L, \A x \in L \cap Way(s) : GoesOn(x) => Parent(x) \in L
      PROVE  Way(s) \subseteq L
  <2> DEFINE M == L \cap Way(s)
  <2>1. M \in SUBSET Surfaces /\ s \in M /\ \A x \in M : GoesOn(x) => Parent(x) \in M
    BY <1>1, <1>2, <1>3
  <2> QED BY <2>1 DEF Way
<1> QED BY <1>1, <1>2, <1>3

(* One step up, the way is the same but for the surface left. *)
LEMMA WayUp ==
  ASSUME SubTypeOK, NEW s \in Surfaces
  PROVE  /\ GoesOn(s) => Way(s) = {s} \cup Way(Parent(s))
         /\ ~GoesOn(s) => Way(s) = {s}
<1>1. ASSUME GoesOn(s) PROVE Way(s) = {s} \cup Way(Parent(s))
  <2>1. Parent(s) \in Surfaces
    BY <1>1, ParentType
  <2> DEFINE L == {s} \cup Way(Parent(s))
  <2>2. Way(s) \subseteq L
    <3>1. s \in L /\ \A x \in L : GoesOn(x) => Parent(x) \in L
      BY <2>1, WayCloses
    <3> HIDE DEF L
    <3> QED BY <3>1, WayCloses
  <2>3. Way(Parent(s)) \subseteq Way(s)
    BY <1>1, <2>1, WayCloses
  <2> QED BY <2>2, <2>3, WayCloses
<1>2. ASSUME ~GoesOn(s) PROVE Way(s) = {s}
  <2> DEFINE L == {s}
  <2>1. s \in L /\ \A x \in L : GoesOn(x) => Parent(x) \in L
    BY <1>2
  <2> HIDE DEF L
  <2>2. Way(s) \subseteq L
    BY <2>1, WayCloses
  <2> QED BY <2>2, WayCloses DEF L
<1> QED BY <1>1, <1>2

(* The way from s ends below the window of w. *)
Ends(s, w) == w \in shell /\ \E t \in Way(s) : Parent(t) = w

(* From everywhere on a way that ends the end is ahead; so there is one    *)
(* end, and no link is missing.                                            *)
LEMMA EndAhead ==
  ASSUME SubTypeOK, NEW s \in Surfaces, NEW w, Ends(s, w)
  PROVE  \A x \in Way(s) : Ends(x, w) /\ Parent(x) # NoSurface
<1>1. PICK t \in Way(s) : Parent(t) = w /\ w \in shell
  BY DEF Ends
<1>2. ~GoesOn(t) /\ Way(s) \subseteq Surfaces
  BY <1>1, WayCloses DEF GoesOn
<1> DEFINE L == {x \in Surfaces : t \in Way(x)}
<1>3. \A x \in L : GoesOn(x) => Parent(x) \in L
  <2> SUFFICES ASSUME NEW x \in L, GoesOn(x) PROVE Parent(x) \in L
    OBVIOUS
  <2>1. Way(x) = {x} \cup Way(Parent(x)) /\ Parent(x) \in Surfaces
    BY WayUp, ParentType
  <2> QED BY <1>2, <2>1
<1>4. s \in L
  OBVIOUS
<1> HIDE DEF L
<1>5. Way(s) \subseteq L
  BY <1>3, <1>4, WayCloses
<1>6. ASSUME NEW x \in Way(s) PROVE Ends(x, w) /\ Parent(x) # NoSurface
  <2>1. x \in Surfaces /\ t \in Way(x)
    BY <1>5 DEF L
  <2>2. Parent(x) = NoSurface => x = t
    BY <2>1, WayUp DEF GoesOn
  <2>3. w # NoSurface
    BY <1>1, NoSurfaceAssumption DEF SubTypeOK
  <2> QED BY <1>1, <2>1, <2>2, <2>3 DEF Ends
<1> QED BY <1>6

(* A way has one end. *)
LEMMA OneEnd ==
  ASSUME SubTypeOK, NEW s \in Surfaces, NEW v, NEW w, Ends(s, v), Ends(s, w)
  PROVE  v = w
<1>1. PICK t \in Way(s) : Parent(t) = w /\ w \in shell
  BY DEF Ends
<1>2. ~GoesOn(t) /\ t \in Surfaces
  BY <1>1, WayCloses DEF GoesOn
<1>3. Ends(t, v) /\ Way(t) = {t}
  BY <1>2, EndAhead, WayUp
<1> QED BY <1>1, <1>3 DEF Ends

(* A way that ends passes no surface twice. *)
LEMMA NoReturn ==
  ASSUME SubTypeOK, NEW s \in Surfaces, NEW w, Ends(s, w), GoesOn(s)
  PROVE  s \notin Way(Parent(s))
<1> SUFFICES ASSUME s \in Way(Parent(s)) PROVE FALSE
  OBVIOUS
<1> DEFINE p == Parent(s)
<1>1. p \in Surfaces
  BY ParentType
<1>2. PICK t \in Way(s) : Parent(t) = w /\ w \in shell
  BY DEF Ends
<1>3. ~GoesOn(t) /\ t \in Surfaces
  BY <1>2, WayCloses DEF GoesOn
<1> DEFINE L == {x \in Surfaces : s \in Way(x)}
<1>4. s \in L /\ p \in L
  BY <1>1, WayCloses
<1>5. \A x \in L : GoesOn(x) => Parent(x) \in L
  <2> SUFFICES ASSUME NEW x \in L, GoesOn(x) PROVE Parent(x) \in L
    OBVIOUS
  <2>1. Way(x) = {x} \cup Way(Parent(x)) /\ Parent(x) \in Surfaces
    BY WayUp, ParentType
  <2> QED BY <1>4, <2>1
<1> HIDE DEF L
<1>6. t \in L
  BY <1>2, <1>4, <1>5, WayCloses
<1>7. s \in Way(t)
  BY <1>6 DEF L
<1> QED BY <1>3, <1>7, WayUp

(***************************************************************************)
(* The loop, which is a recursion over the surfaces seen, finds the end.   *)
(***************************************************************************)

(* Of finitely many surfaces, not all sets are seen forever: what holds of *)
(* a set if it holds of all larger ones, by the least rest.                *)
LEMMA LeastRest ==
  ASSUME NEW T \in SUBSET SUBSET Surfaces, T # {}
  PROVE  \E X \in T : \A Y \in T : Y \subseteq X => Y = X
<1>1. IsWellFoundedOn(StrictSubsetOrdering(Surfaces), SUBSET Surfaces)
  BY SurfacesAssumption, FS_StrictSubsetOrderingWellFounded, FS_FiniteSubsetsOfFinite
<1>2. PICK X \in T : \A Y \in T : <<Y, X>> \notin StrictSubsetOrdering(Surfaces)
  BY <1>1, WFMin
<1>3. ASSUME NEW Y \in T, Y \subseteq X PROVE Y = X
  <2>1. <<Y, X>> \in (SUBSET Surfaces) \X (SUBSET Surfaces)
    OBVIOUS
  <2> QED BY <1>2, <1>3, <2>1 DEF StrictSubsetOrdering
<1> QED BY <1>3

(* What the walk from s with the surfaces in seen behind it returns. *)
Found(s, seen) ==
  IF Way(s) \cap seen = {} /\ \E w \in shell : Ends(s, w)
  THEN CHOOSE w \in shell : Ends(s, w) ELSE NoSurface

(* One turn of the loop, f for the turns after it. *)
Turn(f, s, seen) ==
  CASE s \in seen \/ Parent(s) = NoSurface -> NoSurface
    [] s \notin seen /\ Parent(s) \in shell -> Parent(s)
    [] OTHER -> f[<<Parent(s), seen \cup {s}>>]

(* A turn of the loop does not change what is found. *)
LEMMA FoundTurns ==
  ASSUME SubTypeOK, NEW s \in Surfaces, NEW seen \in SUBSET Surfaces
  PROVE  /\ s \in seen \/ Parent(s) = NoSurface => Found(s, seen) = NoSurface
         /\ s \notin seen /\ Parent(s) \in shell => Found(s, seen) = Parent(s)
         /\ s \notin seen /\ GoesOn(s) => Found(s, seen) = Found(Parent(s), seen \cup {s})
<1>1. s \in Way(s) /\ NoSurface \notin shell
  BY WayCloses, NoSurfaceAssumption DEF SubTypeOK
<1>2. ASSUME s \in seen \/ Parent(s) = NoSurface PROVE Found(s, seen) = NoSurface
  <2>1. CASE s \in seen
    BY <1>1, <2>1 DEF Found
  <2>2. CASE Parent(s) = NoSurface
    BY <1>1, <2>2, EndAhead DEF Found
  <2> QED BY <1>2, <2>1, <2>2
<1>3. ASSUME s \notin seen, Parent(s) \in shell PROVE Found(s, seen) = Parent(s)
  <2>1. Way(s) = {s}
    BY <1>3, WayUp DEF GoesOn
  <2>2. \A w : Ends(s, w) <=> w = Parent(s)
    BY <1>3, <2>1 DEF Ends
  <2>3. Found(s, seen) = CHOOSE w \in shell : Ends(s, w)
    BY <1>3, <2>1, <2>2 DEF Found
  <2> QED BY <1>3, <2>2, <2>3
<1>4. ASSUME s \notin seen, GoesOn(s) PROVE Found(s, seen) = Found(Parent(s), seen \cup {s})
  <2> DEFINE p == Parent(s)
  <2>1. p \in Surfaces /\ Way(s) = {s} \cup Way(p) /\ p \notin shell
    BY <1>4, ParentType, WayUp DEF GoesOn
  <2>2. \A w : Ends(s, w) <=> Ends(p, w)
    BY <2>1 DEF Ends
  <2>3. (\E w : Ends(s, w)) => s \notin Way(p)
    BY <1>4, NoReturn
  <2>4. (\E w : Ends(s, w)) => (Way(s) \cap seen = {} <=> Way(p) \cap (seen \cup {s}) = {})
    BY <1>4, <2>1, <2>3
  <2> HIDE DEF p
  <2>5. (CHOOSE w \in shell : Ends(s, w)) = CHOOSE w \in shell : Ends(p, w)
    BY <2>2
  <2>6. Found(s, seen) = Found(p, seen \cup {s})
    BY <2>2, <2>4, <2>5 DEF Found
  <2> QED BY <2>6 DEF p
<1> QED BY <1>2, <1>3, <1>4

(* The recursion has a solution, Found; so Walk is one. *)
LEMMA WalkTurns ==
  ASSUME SubTypeOK
  PROVE  \A s \in Surfaces, seen \in SUBSET Surfaces : Walk[<<s, seen>>] = Turn(Walk, s, seen)
<1> DEFINE D == Surfaces \X SUBSET Surfaces
           Solves(f) == f = [at \in D |-> Turn(f, at[1], at[2])]
           g == [at \in D |-> Found(at[1], at[2])]
<1>1. Walk = CHOOSE f : Solves(f)
  BY DEF Walk, Turn
<1>2. ASSUME NEW s \in Surfaces, NEW seen \in SUBSET Surfaces PROVE Found(s, seen) = Turn(g, s, seen)
  <2>1. CASE s \in seen \/ Parent(s) = NoSurface
    BY <2>1, FoundTurns DEF Turn
  <2>2. CASE s \notin seen /\ Parent(s) \in shell
    <3>1. Parent(s) # NoSurface
      BY <2>2, NoneHasNoWindow
    <3>2. Found(s, seen) = Parent(s)
      BY <2>2, FoundTurns
    <3> QED BY <2>2, <3>1, <3>2 DEF Turn
  <2>3. CASE s \notin seen /\ GoesOn(s)
    <3>1. <<Parent(s), seen \cup {s}>> \in D
      BY <2>3, ParentType
    <3>2. g[<<Parent(s), seen \cup {s}>>] = Found(Parent(s), seen \cup {s})
      BY <3>1
    <3>3. Found(s, seen) = Found(Parent(s), seen \cup {s})
      BY <2>3, FoundTurns
    <3> HIDE DEF g
    <3> QED BY <2>3, <3>2, <3>3 DEF Turn, GoesOn
  <2> QED BY <2>1, <2>2, <2>3 DEF GoesOn
<1>3. \A at \in D : Found(at[1], at[2]) = Turn(g, at[1], at[2])
  <2> HIDE DEF g
  <2> QED BY <1>2
<1>4. Solves(g)
  <2> DEFINE h == [at \in D |-> Turn(g, at[1], at[2])]
  <2> HIDE DEF h
  <2> SUFFICES g = h
    BY DEF h
  <2>1. \A at \in D : g[at] = h[at]
    BY <1>3 DEF h
  <2> QED BY <2>1 DEF g, h
<1> HIDE DEF g
<1>5. Solves(Walk)
  <2> HIDE DEF Solves
  <2> QED BY <1>1, <1>4
<1>6. ASSUME NEW s \in Surfaces, NEW seen \in SUBSET Surfaces PROVE Walk[<<s, seen>>] = Turn(Walk, s, seen)
  <2>1. <<s, seen>> \in D
    OBVIOUS
  <2> QED BY <1>5, <2>1
<1> QED BY <1>6

(* What the loop returns, on every shape of the chains, cycles included. *)
LEMMA WalkFinds ==
  ASSUME SubTypeOK
  PROVE  \A s \in Surfaces, seen \in SUBSET Surfaces : Walk[<<s, seen>>] = Found(s, seen)
<1> DEFINE Bad(X) == \E s \in Surfaces : Walk[<<s, Surfaces \ X>>] # Found(s, Surfaces \ X)
           T == {X \in SUBSET Surfaces : Bad(X)}
<1>1. T = {}
  <2> SUFFICES ASSUME T # {} PROVE FALSE
    OBVIOUS
  <2>1. PICK X \in T : \A Y \in T : Y \subseteq X => Y = X
    <3> HIDE DEF Bad
    <3>1. T \in SUBSET SUBSET Surfaces
      OBVIOUS
    <3> HIDE DEF T
    <3> QED BY <3>1, LeastRest
  <2> DEFINE seen == Surfaces \ X
  <2>2. PICK s \in Surfaces : Walk[<<s, seen>>] # Found(s, seen)
    BY <2>1
  <2>3. seen \in SUBSET Surfaces /\ X = Surfaces \ seen
    BY <2>1
  <2> HIDE DEF seen
  <2>4. Walk[<<s, seen>>] = Turn(Walk, s, seen)
    BY <2>3, WalkTurns
  <2>5. s \notin seen /\ GoesOn(s)
    <3>1. CASE s \in seen \/ Parent(s) = NoSurface
      BY <2>2, <2>3, <2>4, <3>1, FoundTurns DEF Turn
    <3>2. CASE s \notin seen /\ Parent(s) \in shell
      <4>1. Parent(s) # NoSurface
        BY <3>2, NoneHasNoWindow
      <4>2. Found(s, seen) = Parent(s)
        BY <2>3, <3>2, FoundTurns
      <4>3. Walk[<<s, seen>>] = Parent(s)
        BY <2>4, <3>2, <4>1 DEF Turn
      <4> QED BY <2>2, <4>2, <4>3
    <3> QED BY <3>1, <3>2 DEF GoesOn
  <2> DEFINE p == Parent(s)
             more == seen \cup {s}
             Y == Surfaces \ more
  <2>6. p \in Surfaces /\ more \in SUBSET Surfaces /\ Y \in SUBSET Surfaces /\ Surfaces \ Y = more
    BY <2>3, <2>5, ParentType
  <2>7. Y \subseteq X /\ Y # X
    BY <2>3, <2>5
  <2>8. Walk[<<s, seen>>] = Walk[<<p, more>>]
    BY <2>4, <2>5 DEF Turn, GoesOn
  <2>9. Found(s, seen) = Found(p, more)
    BY <2>3, <2>5, FoundTurns
  <2> HIDE DEF p, more, Y
  <2>10. Y \in T
    BY <2>2, <2>6, <2>8, <2>9
  <2> QED BY <2>1, <2>7, <2>10
<1>2. ASSUME NEW s \in Surfaces, NEW seen \in SUBSET Surfaces PROVE Walk[<<s, seen>>] = Found(s, seen)
  <2> DEFINE X == Surfaces \ seen
  <2>1. X \in SUBSET Surfaces /\ Surfaces \ X = seen
    OBVIOUS
  <2> HIDE DEF X
  <2> QED BY <1>1, <2>1
<1> QED BY <1>2

(* So a window is found exactly where the links lead to it. *)
LEMMA WalkEnds ==
  ASSUME SubTypeOK, NEW s \in Surfaces
  PROVE  /\ resolve_subsurface(s) \in shell \cup {NoSurface}
         /\ \A w \in Surfaces : resolve_subsurface(s) = w <=> Ends(s, w)
<1>1. resolve_subsurface(s) = Found(s, {})
  BY WalkFinds DEF resolve_subsurface
<1>2. CASE \E w \in shell : Ends(s, w)
  <2>1. Found(s, {}) \in shell /\ Ends(s, Found(s, {}))
    BY <1>2 DEF Found
  <2> QED BY <1>1, <2>1, OneEnd
<1>3. CASE ~\E w \in shell : Ends(s, w)
  <2>1. Found(s, {}) = NoSurface
    BY <1>3 DEF Found
  <2> QED BY <1>1, <1>3, <2>1, NoSurfaceAssumption DEF Ends
<1> QED BY <1>2, <1>3

(***************************************************************************)
(* The sublayers.                                                          *)
(***************************************************************************)

(* One role for good: a surface with a record of one kind has none of the  *)
(* other.  An object not yet created has no record.                        *)
RolesOK ==
  /\ \A s \in Surfaces : surface_subsurface[s] # NoSub => role[s] = "subsurface"
  /\ \A s \in shell : role[s] \in {"toplevel", "popup"}
  /\ \A u \in Subs \ usedSubs : subsurfaces[u] = NoRec

(* SublayersFollow, said of the links instead of the walk. *)
Drawn ==
  \A w \in Surfaces : \A u \in sublayers[w] \ broken :
    /\ subsurfaces[u] # NoRec
    /\ \A s \in Surfaces : s = subsurfaces[u].surface => Ends(s, w)

(* The inductive invariant. *)
TreeInv == SubTypeOK /\ RolesOK /\ Drawn

(* A record and the surface it is of. *)
LEMMA Record ==
  ASSUME SubTypeOK, NEW u \in Subs, subsurfaces[u] # NoRec
  PROVE  /\ subsurfaces[u] \in [surface : Surfaces, parent : Surfaces]
         /\ subsurfaces[u].surface \in Surfaces
         /\ surface_subsurface[subsurfaces[u].surface] = u
<1>1. subsurfaces[u] \in [surface : Surfaces, parent : Surfaces]
  BY DEF SubTypeOK
<1>2. subsurfaces[u].surface \in Surfaces
  BY <1>1
<1> QED BY <1>1, <1>2 DEF SubTypeOK

(* Only a record has a surface. *)
LEMMA NoRecord ==
  ASSUME SubTypeOK, NEW u \in Subs, subsurfaces[u].surface \in Surfaces
  PROVE  subsurfaces[u] # NoRec
BY NoSurfaceAssumption DEF NoRec

(* A way keeps its end while no link on it and no window next to it goes. *)
LEMMA WayKept ==
  ASSUME SubTypeOK, NEW s \in Surfaces, NEW w, Ends(s, w),
         \A x \in Way(s) : Parent(x)' = Parent(x) /\ (Parent(x) \in shell <=> Parent(x) \in shell')
  PROVE  Ends(s, w)'
<1>1. PICK t \in Way(s) : Parent(t) = w /\ w \in shell
  BY DEF Ends
<1>2. t \in Surfaces /\ Parent(t)' = w /\ w \in shell'
  BY <1>1, WayCloses
<1>3. ASSUME NEW L \in SUBSET Surfaces, s \in L, \A x \in L : GoesOn(x)' => Parent(x)' \in L
      PROVE  t \in L
  <2>1. \A x \in L \cap Way(s) : GoesOn(x) => Parent(x) \in L
    BY <1>3 DEF GoesOn
  <2> QED BY <1>1, <1>3, <2>1, WayCloses
<1>4. t \in Way(s)'
  BY <1>2, <1>3 DEF Way
<1> QED BY <1>2, <1>4 DEF Ends

(* One subsurface goes: SubTypeOK and the links of all others stay. *)
LEMMA ReapType ==
  ASSUME SubTypeOK, NEW u \in Subs, subsurfaces[u] # NoRec, Reap(u), Break(u), usedSubs' = usedSubs,
         u \in usedSubs
  PROVE  /\ subsurfaces' \in [Subs -> [surface : Surfaces, parent : Surfaces] \cup {NoRec}]
         /\ surface_subsurface' \in [Surfaces -> Subs \cup {NoSub}]
         /\ \A v \in Subs, s \in Surfaces : surface_subsurface'[s] = v <=> subsurfaces'[v].surface = s
         /\ sublayers' \in [Surfaces -> SUBSET Subs]
         /\ \A s \in Surfaces : sublayers'[s] \subseteq sublayers[s]
<1> DEFINE r == subsurfaces[u].surface
<1>1. r \in Surfaces /\ surface_subsurface[r] = u
  BY Record
<1>2. subsurfaces' = [subsurfaces EXCEPT ![u] = NoRec] /\ surface_subsurface' = [surface_subsurface EXCEPT ![r] = NoSub]
  BY DEF Reap
<1>3. sublayers' = IF resolve_subsurface(r) = NoSurface THEN sublayers
                   ELSE [sublayers EXCEPT ![resolve_subsurface(r)] = @ \ {u}]
  BY DEF Reap
<1> HIDE DEF r
<1>4. subsurfaces' \in [Subs -> [surface : Surfaces, parent : Surfaces] \cup {NoRec}]
  BY <1>2 DEF SubTypeOK
<1>5. surface_subsurface' \in [Surfaces -> Subs \cup {NoSub}]
  BY <1>1, <1>2 DEF SubTypeOK
<1>6. ASSUME NEW v \in Subs, NEW s \in Surfaces
      PROVE  surface_subsurface'[s] = v <=> subsurfaces'[v].surface = s
  <2>1. CASE v = u
    <3>1. subsurfaces'[v].surface = NoSurface
      BY <1>2, <2>1 DEF SubTypeOK, NoRec
    <3>2. s # r => surface_subsurface'[s] = surface_subsurface[s] /\ surface_subsurface[s] # u
      BY <1>1, <1>2 DEF SubTypeOK, r
    <3>3. s = r => surface_subsurface'[s] = NoSub
      BY <1>1, <1>2 DEF SubTypeOK
    <3> QED BY <2>1, <3>1, <3>2, <3>3, NoSurfaceAssumption, SubsAssumption
  <2>2. CASE v # u
    <3>1. subsurfaces'[v] = subsurfaces[v]
      BY <1>2, <2>2 DEF SubTypeOK
    <3>2. s # r => surface_subsurface'[s] = surface_subsurface[s]
      BY <1>2 DEF SubTypeOK
    <3>3. s = r => surface_subsurface'[s] = NoSub /\ surface_subsurface[s] = u
      BY <1>1, <1>2 DEF SubTypeOK
    <3>4. surface_subsurface[s] = v <=> subsurfaces[v].surface = s
      BY DEF SubTypeOK
    <3> QED BY <2>2, <3>1, <3>2, <3>3, <3>4, SubsAssumption
  <2> QED BY <2>1, <2>2
<1>7. sublayers' \in [Surfaces -> SUBSET Subs]
  BY <1>3 DEF SubTypeOK
<1>8. \A s \in Surfaces : sublayers'[s] \subseteq sublayers[s]
  BY <1>3 DEF SubTypeOK
<1> QED BY <1>4, <1>5, <1>6, <1>7, <1>8

(* When a record goes, the links of the other surfaces stay. *)
LEMMA OthersKeep ==
  ASSUME SubTypeOK, NEW u \in Subs, NEW x \in Surfaces, x # subsurfaces[u].surface,
         subsurfaces' = [subsurfaces EXCEPT ![u] = NoRec],
         surface_subsurface' = [surface_subsurface EXCEPT ![subsurfaces[u].surface] = NoSub]
  PROVE  Parent(x)' = Parent(x)
<1>1. surface_subsurface'[x] = surface_subsurface[x] /\ surface_subsurface[x] # u
  BY DEF SubTypeOK
<1>2. surface_subsurface[x] # NoSub => subsurfaces'[surface_subsurface[x]] = subsurfaces[surface_subsurface[x]]
  BY <1>1 DEF SubTypeOK
<1> QED BY <1>1, <1>2 DEF Parent

(* A subsurface goes with its sublayer; the others keep their way, or are  *)
(* broken.                                                                 *)
LEMMA ReapDrawn ==
  ASSUME SubTypeOK, Drawn, NEW u \in Subs, subsurfaces[u] # NoRec, Reap(u), Break(u), shell' = shell
  PROVE  Drawn'
<1> DEFINE r == subsurfaces[u].surface
<1>1. r \in Surfaces /\ surface_subsurface[r] = u
  BY Record
<1>2. subsurfaces' = [subsurfaces EXCEPT ![u] = NoRec] /\ surface_subsurface' = [surface_subsurface EXCEPT ![r] = NoSub]
  BY DEF Reap
<1>3. sublayers' = IF resolve_subsurface(r) = NoSurface THEN sublayers
                   ELSE [sublayers EXCEPT ![resolve_subsurface(r)] = @ \ {u}]
  BY DEF Reap
<1>4. broken' = broken \cup {v \in Subs \ {u} : subsurfaces[v] # NoRec /\ r \in Way(subsurfaces[v].surface)}
  BY DEF Break
<1> HIDE DEF r
<1>5. ASSUME NEW w \in Surfaces, NEW v \in sublayers'[w] \ broken'
      PROVE  subsurfaces'[v] # NoRec /\ \A s \in Surfaces : s = subsurfaces'[v].surface => Ends(s, w)'
  <2>1. v \in sublayers[w] /\ v \notin broken /\ v \in Subs
    BY <1>3, <1>4, <1>5 DEF SubTypeOK
  <2>2. subsurfaces[v] # NoRec /\ \A s \in Surfaces : s = subsurfaces[v].surface => Ends(s, w)
    BY <2>1 DEF Drawn
  <2>3. v # u
    <3> SUFFICES ASSUME v = u PROVE FALSE
      OBVIOUS
    <3>1. resolve_subsurface(r) = w
      BY <1>1, <2>2, WalkEnds DEF r
    <3>2. w # NoSurface
      BY NoSurfaceAssumption
    <3> QED BY <1>3, <1>5, <3>1, <3>2 DEF SubTypeOK
  <2>4. subsurfaces'[v] = subsurfaces[v]
    BY <1>2, <2>1, <2>3 DEF SubTypeOK
  <2>5. ASSUME NEW s \in Surfaces, s = subsurfaces[v].surface PROVE Ends(s, w)'
    <3>1. r \notin Way(s)
      BY <1>4, <1>5, <2>1, <2>2, <2>3, <2>5
    <3>2. \A x \in Way(s) : Parent(x)' = Parent(x)
      BY <1>1, <1>2, <3>1, OthersKeep, WayCloses DEF r
    <3> QED BY <2>2, <2>5, <3>2, WayKept
  <2> QED BY <2>2, <2>4, <2>5
<1> QED BY <1>5 DEF Drawn

(* reap_subsurface, whoever asks for it, keeps all parts of the invariant. *)
LEMMA ReapKeeps ==
  ASSUME SubTypeOK, RolesOK, Drawn, NEW u \in Subs, subsurfaces[u] # NoRec, Reap(u), Break(u),
         UNCHANGED <<role, usedSubs, shell, windows>>,
         surface' \in [Surfaces -> {"new", "live", "gone"}]
  PROVE  SubTypeOK' /\ RolesOK' /\ Drawn'
<1>1. u \in usedSubs
  BY DEF RolesOK
<1>2. /\ subsurfaces' \in [Subs -> [surface : Surfaces, parent : Surfaces] \cup {NoRec}]
      /\ surface_subsurface' \in [Surfaces -> Subs \cup {NoSub}]
      /\ \A v \in Subs, s \in Surfaces : surface_subsurface'[s] = v <=> subsurfaces'[v].surface = s
      /\ sublayers' \in [Surfaces -> SUBSET Subs]
      /\ \A s \in Surfaces : sublayers'[s] \subseteq sublayers[s]
  BY <1>1, ReapType
<1>3. \A v \in Subs : subsurfaces[v] # NoRec => v \in usedSubs
  BY DEF RolesOK
<1>4. broken' \subseteq usedSubs
  BY <1>3 DEF Break, SubTypeOK
<1>5. SubTypeOK'
  BY <1>2, <1>4 DEF SubTypeOK
<1>6. RolesOK'
  <2>1. \A s \in Surfaces : surface_subsurface'[s] # NoSub => surface_subsurface'[s] = surface_subsurface[s]
    BY DEF Reap, SubTypeOK
  <2>2. \A v \in Subs \ usedSubs : subsurfaces'[v] = NoRec
    BY <1>1 DEF Reap, SubTypeOK, RolesOK
  <2> QED BY <2>1, <2>2 DEF RolesOK
<1>7. Drawn'
  BY ReapDrawn
<1> QED BY <1>5, <1>6, <1>7

(* What leaves the links, and draws no more, keeps what is drawn. *)
LEMMA LinksKept ==
  ASSUME SubTypeOK, Drawn, UNCHANGED <<subsurfaces, surface_subsurface, broken>>,
         \A w \in Surfaces : sublayers'[w] \subseteq sublayers[w],
         \A w \in Surfaces, s \in Surfaces : sublayers'[w] # {} /\ Ends(s, w) =>
           \A x \in Way(s) : Parent(x) \in shell <=> Parent(x) \in shell'
  PROVE  Drawn'
<1>1. \A x \in Surfaces : Parent(x)' = Parent(x)
  BY DEF Parent
<1>2. ASSUME NEW w \in Surfaces, NEW u \in sublayers'[w] \ broken'
      PROVE  subsurfaces'[u] # NoRec /\ \A s \in Surfaces : s = subsurfaces'[u].surface => Ends(s, w)'
  <2>1. subsurfaces[u] # NoRec /\ \A s \in Surfaces : s = subsurfaces[u].surface => Ends(s, w)
    BY <1>2 DEF Drawn
  <2>2. ASSUME NEW s \in Surfaces, Ends(s, w) PROVE Ends(s, w)'
    <3>1. \A x \in Way(s) : Parent(x)' = Parent(x)
      BY <1>1, WayCloses
    <3>2. \A x \in Way(s) : Parent(x) \in shell <=> Parent(x) \in shell'
      BY <1>2, <2>2
    <3> QED BY <2>2, <3>1, <3>2, WayKept
  <2> QED BY <2>1, <2>2
<1> QED BY <1>2 DEF Drawn

(* A window that closes is next to no other window's ways. *)
LEMMA CloseKept ==
  ASSUME SubTypeOK, Drawn, UNCHANGED <<subsurfaces, surface_subsurface, broken>>,
         NEW s \in Surfaces, shell' \in {shell, shell \ {s}}, sublayers' = [sublayers EXCEPT ![s] = {}]
  PROVE  Drawn'
<1>1. \A w \in Surfaces : sublayers'[w] \subseteq sublayers[w] /\ (sublayers'[w] # {} => w # s)
  BY DEF SubTypeOK
<1>2. ASSUME NEW w \in Surfaces, NEW t \in Surfaces, w # s, Ends(t, w), NEW x \in Way(t)
      PROVE  Parent(x) \in shell <=> Parent(x) \in shell'
  <2>1. Parent(x) = s => s \notin shell
    BY <1>2, OneEnd DEF Ends
  <2> QED BY <2>1
<1> QED BY <1>1, <1>2, LinksKept

(* A surface that becomes a window had no link, and no way led over it. *)
LEMMA OpenKept ==
  ASSUME SubTypeOK, Drawn, UNCHANGED <<subsurfaces, surface_subsurface, broken, sublayers>>,
         NEW s \in Surfaces, surface_subsurface[s] = NoSub, s \notin shell, shell' = shell \cup {s}
  PROVE  Drawn'
<1>1. ASSUME NEW w \in Surfaces, NEW t \in Surfaces, Ends(t, w), NEW x \in Way(t)
      PROVE  Parent(x) \in shell <=> Parent(x) \in shell'
  <2>1. Parent(s) = NoSurface /\ s # NoSurface
    BY NoSurfaceAssumption DEF Parent
  <2>2. s \notin Way(t)
    BY <1>1, <2>1, EndAhead
  <2>3. Parent(x) # s
    BY <1>1, <2>1, <2>2, WayCloses DEF GoesOn
  <2> QED BY <2>3
<1> QED BY <1>1, LinksKept

(* A new record is on no way, for its surface had none. *)
LEMMA NewKept ==
  ASSUME SubTypeOK, Drawn, UNCHANGED <<shell, broken, sublayers>>,
         NEW u \in Subs, NEW s \in Surfaces, NEW p \in Surfaces,
         subsurfaces[u] = NoRec, surface_subsurface[s] = NoSub,
         subsurfaces' = [subsurfaces EXCEPT ![u] = [surface |-> s, parent |-> p]],
         surface_subsurface' = [surface_subsurface EXCEPT ![s] = u]
  PROVE  Drawn'
<1>1. ASSUME NEW w \in Surfaces, NEW v \in sublayers'[w] \ broken'
      PROVE  subsurfaces'[v] # NoRec /\ \A t \in Surfaces : t = subsurfaces'[v].surface => Ends(t, w)'
  <2>1. subsurfaces[v] # NoRec /\ \A t \in Surfaces : t = subsurfaces[v].surface => Ends(t, w)
    BY <1>1 DEF Drawn
  <2>2. v # u /\ v \in Subs
    BY <1>1, <2>1 DEF SubTypeOK
  <2>3. subsurfaces'[v] = subsurfaces[v]
    BY <2>2 DEF SubTypeOK
  <2>4. ASSUME NEW t \in Surfaces, Ends(t, w) PROVE Ends(t, w)'
    <3>1. Parent(s) = NoSurface
      BY DEF Parent
    <3>2. s \notin Way(t)
      BY <2>4, <3>1, EndAhead
    <3>3. ASSUME NEW x \in Way(t) PROVE Parent(x)' = Parent(x)
      <4>1. x \in Surfaces /\ x # s
        BY <3>2, <3>3, WayCloses
      <4>2. surface_subsurface'[x] = surface_subsurface[x]
        BY <4>1 DEF SubTypeOK
      <4>3. surface_subsurface[x] # u
        <5>1. subsurfaces[u].surface # x
          BY <4>1, NoSurfaceAssumption DEF NoRec
        <5> QED BY <4>1, <5>1 DEF SubTypeOK
      <4>4. surface_subsurface[x] # NoSub => subsurfaces'[surface_subsurface[x]] = subsurfaces[surface_subsurface[x]]
        BY <4>1, <4>3 DEF SubTypeOK
      <4> QED BY <4>2, <4>4 DEF Parent
    <3> QED BY <2>4, <3>3, WayKept
  <2> QED BY <2>1, <2>3, <2>4
<1> QED BY <1>1 DEF Drawn

-----------------------------------------------------------------------------

(* The invariant holds before any surface is created. *)
LEMMA TreeInit == SubInit => TreeInv
<1> SUFFICES ASSUME SubInit PROVE TreeInv
  OBVIOUS
<1>1. SubTypeOK
  BY NoSurfaceAssumption, SubsAssumption DEF SubInit, SubTypeOK, NoRec
<1>2. RolesOK
  BY DEF SubInit, RolesOK
<1>3. Drawn
  BY DEF SubInit, Drawn
<1> QED BY <1>1, <1>2, <1>3 DEF TreeInv

(* Every step keeps it. *)
LEMMA TreeNext == TreeInv /\ [SubNext]_subVars => TreeInv'
<1> SUFFICES ASSUME SubTypeOK, RolesOK, Drawn, [SubNext]_subVars PROVE SubTypeOK' /\ RolesOK' /\ Drawn'
  BY DEF TreeInv
<1>1. ASSUME NEW s \in Surfaces, CreateSurface(s) PROVE SubTypeOK' /\ RolesOK' /\ Drawn'
  <2>1. SubTypeOK' /\ RolesOK'
    BY <1>1 DEF CreateSurface, SubTypeOK, RolesOK, chainVars, nativeVars
  <2>2. Drawn'
    BY <1>1, LinksKept DEF CreateSurface, chainVars, nativeVars
  <2> QED BY <2>1, <2>2
<1>2. ASSUME NEW s \in Surfaces, NEW r \in {"toplevel", "popup"}, GetShellRole(s, r)
      PROVE  SubTypeOK' /\ RolesOK' /\ Drawn'
  <2>1. SubTypeOK'
    BY <1>2 DEF GetShellRole, SubTypeOK, nativeVars
  <2>2. surface_subsurface[s] = NoSub
    BY <1>2 DEF GetShellRole, RolesOK
  <2>3. RolesOK'
    BY <1>2, <2>2 DEF GetShellRole, SubTypeOK, RolesOK, nativeVars
  <2>4. Drawn'
    BY <1>2, <2>2, OpenKept DEF GetShellRole, nativeVars
  <2> QED BY <2>1, <2>3, <2>4
<1>3. ASSUME NEW s \in Surfaces, DestroyShellRole(s) PROVE SubTypeOK' /\ RolesOK' /\ Drawn'
  <2>1. SubTypeOK' /\ RolesOK'
    BY <1>3 DEF DestroyShellRole, CloseNative, SubTypeOK, RolesOK, clientVars
  <2>2. Drawn'
    BY <1>3, CloseKept DEF DestroyShellRole, CloseNative
  <2> QED BY <2>1, <2>2
<1>4. ASSUME NEW s \in Surfaces, PresentWindow(s) PROVE SubTypeOK' /\ RolesOK' /\ Drawn'
  <2>1. SubTypeOK' /\ RolesOK'
    BY <1>4 DEF PresentWindow, SubTypeOK, RolesOK, clientVars, chainVars
  <2>2. Drawn'
    BY <1>4, LinksKept DEF PresentWindow, chainVars
  <2> QED BY <2>1, <2>2
<1>5. ASSUME NEW s \in Surfaces, UnmapSurface(s) PROVE SubTypeOK' /\ RolesOK' /\ Drawn'
  <2>1. SubTypeOK' /\ RolesOK'
    BY <1>5 DEF UnmapSurface, CloseNative, SubTypeOK, RolesOK, clientVars, chainVars
  <2>2. Drawn'
    BY <1>5, CloseKept DEF UnmapSurface, CloseNative, chainVars
  <2> QED BY <2>1, <2>2
<1>6. ASSUME NEW u \in Subs, NEW s \in Surfaces, NEW p \in Surfaces, GetSubsurface(u, s, p)
      PROVE  SubTypeOK' /\ RolesOK' /\ Drawn'
  <2>1. subsurfaces[u] = NoRec /\ surface_subsurface[s] = NoSub
    BY <1>6 DEF GetSubsurface, RolesOK
  <2>2. surface_subsurface' = [surface_subsurface EXCEPT ![s] = u]
        /\ subsurfaces' = [subsurfaces EXCEPT ![u] = [surface |-> s, parent |-> p]]
    BY <1>6 DEF GetSubsurface
  <2>3. \A v \in Subs, t \in Surfaces : surface_subsurface'[t] = v <=> subsurfaces'[v].surface = t
    <3> SUFFICES ASSUME NEW v \in Subs, NEW t \in Surfaces
                 PROVE  surface_subsurface'[t] = v <=> subsurfaces'[v].surface = t
      OBVIOUS
    <3>1. surface_subsurface[t] = v <=> subsurfaces[v].surface = t
      BY DEF SubTypeOK
    <3>2. surface_subsurface'[t] = IF t = s THEN u ELSE surface_subsurface[t]
      BY <2>2 DEF SubTypeOK
    <3>3. subsurfaces'[v].surface = IF v = u THEN s ELSE subsurfaces[v].surface
      BY <2>2 DEF SubTypeOK
    <3>4. subsurfaces[u].surface # t /\ surface_subsurface[t] # u
      <4>1. subsurfaces[u].surface # t
        BY <2>1, NoSurfaceAssumption DEF NoRec
      <4> QED BY <4>1 DEF SubTypeOK
    <3>5. subsurfaces[v].surface # s
      BY <2>1, SubsAssumption DEF SubTypeOK
    <3> QED BY <3>1, <3>2, <3>3, <3>4, <3>5
  <2>4. SubTypeOK'
    BY <1>6, <2>2, <2>3 DEF GetSubsurface, SubTypeOK, nativeVars
  <2>5. RolesOK'
    BY <1>6, <2>2 DEF GetSubsurface, SubTypeOK, RolesOK, nativeVars
  <2>6. Drawn'
    BY <1>6, <2>1, <2>2, NewKept DEF GetSubsurface, nativeVars
  <2> QED BY <2>4, <2>5, <2>6
<1>7. ASSUME NEW s \in Surfaces, PresentSubsurface(s) PROVE SubTypeOK' /\ RolesOK' /\ Drawn'
  <2> DEFINE w == resolve_subsurface(s)
             u == surface_subsurface[s]
  <2>1. w \in windows /\ sublayers' = [sublayers EXCEPT ![w] = @ \cup {u}]
        /\ UNCHANGED <<clientVars, chainVars, windows, broken>>
    BY <1>7 DEF PresentSubsurface
  <2>2. w \in Surfaces
    BY <2>1 DEF SubTypeOK
  <2>3. Ends(s, w)
    BY <2>2, WalkEnds
  <2>4. s \in Way(s) /\ Parent(s) # NoSurface
    BY <2>3, EndAhead, WayCloses
  <2>5. u \in Subs
    BY <2>4 DEF Parent, SubTypeOK
  <2>6. subsurfaces[u].surface = s /\ subsurfaces[u] # NoRec
    <3>1. subsurfaces[u].surface = s
      BY <2>5 DEF SubTypeOK
    <3> QED BY <2>5, <3>1, NoRecord
  <2> HIDE DEF u, w
  <2>7. SubTypeOK' /\ RolesOK'
    BY <2>1, <2>2, <2>5 DEF SubTypeOK, RolesOK, clientVars, chainVars
  <2>8. ASSUME NEW v \in Surfaces, NEW t \in sublayers'[v] \ broken'
        PROVE  subsurfaces'[t] # NoRec /\ \A x \in Surfaces : x = subsurfaces'[t].surface => Ends(x, v)'
    <3>1. subsurfaces[t] # NoRec /\ \A x \in Surfaces : x = subsurfaces[t].surface => Ends(x, v)
      <4>1. CASE t \in sublayers[v]
        BY <2>1, <2>8, <4>1 DEF Drawn
      <4>2. CASE t \notin sublayers[v]
        <5>1. v = w /\ t = u
          BY <2>1, <2>2, <2>8, <4>2 DEF SubTypeOK
        <5> QED BY <2>3, <2>6, <5>1
      <4> QED BY <4>1, <4>2
    <3>2. ASSUME NEW x \in Surfaces, Ends(x, v) PROVE Ends(x, v)'
      <4>1. \A y \in Way(x) : Parent(y)' = Parent(y) /\ shell' = shell
        BY <2>1 DEF Parent, chainVars
      <4> QED BY <3>2, <4>1, WayKept
    <3> QED BY <2>1, <3>1, <3>2 DEF chainVars
  <2>9. Drawn'
    BY <2>8 DEF Drawn
  <2> QED BY <2>7, <2>9
<1>8. ASSUME NEW u \in Subs, DestroySubsurface(u) PROVE SubTypeOK' /\ RolesOK' /\ Drawn'
  <2>1. subsurfaces[u] # NoRec /\ Reap(u) /\ Break(u) /\ UNCHANGED <<surface, role, usedSubs, shell, windows>>
    BY <1>8 DEF DestroySubsurface, clientVars
  <2>2. surface' \in [Surfaces -> {"new", "live", "gone"}]
    BY <2>1 DEF SubTypeOK
  <2> QED BY <2>1, <2>2, ReapKeeps
<1>9. ASSUME NEW s \in Surfaces, DestroySurface(s) PROVE SubTypeOK' /\ RolesOK' /\ Drawn'
  <2>1. CASE surface_subsurface[s] # NoSub
    <3> DEFINE u == surface_subsurface[s]
    <3>1. u \in Subs /\ subsurfaces[u] # NoRec
      <4>1. u \in Subs
        BY <2>1 DEF SubTypeOK
      <4>2. subsurfaces[u].surface = s
        BY <4>1 DEF SubTypeOK
      <4> QED BY <4>1, <4>2, NoRecord
    <3>2. role[s] = "subsurface"
      BY <2>1 DEF RolesOK
    <3>3. Reap(u) /\ Break(u) /\ UNCHANGED <<role, usedSubs, shell, windows>>
      BY <1>9, <2>1, <3>2 DEF DestroySurface
    <3>4. surface' \in [Surfaces -> {"new", "live", "gone"}]
      BY <1>9 DEF DestroySurface, SubTypeOK
    <3> HIDE DEF u
    <3> QED BY <3>1, <3>3, <3>4, ReapKeeps
  <2>2. CASE surface_subsurface[s] = NoSub /\ role[s] = "toplevel"
    <3>1. surface' = [surface EXCEPT ![s] = "gone"] /\ shell' = shell \ {s} /\ windows' = windows \ {s}
          /\ sublayers' = [sublayers EXCEPT ![s] = {}]
          /\ UNCHANGED <<subsurfaces, surface_subsurface, broken, role, usedSubs>>
      BY <1>9, <2>2 DEF DestroySurface
    <3>2. SubTypeOK' /\ RolesOK'
      BY <3>1 DEF SubTypeOK, RolesOK
    <3>3. Drawn'
      BY <3>1, CloseKept
    <3> QED BY <3>2, <3>3
  <2>3. CASE surface_subsurface[s] = NoSub /\ role[s] # "toplevel"
    <3>1. surface' = [surface EXCEPT ![s] = "gone"]
          /\ UNCHANGED <<shell, windows, sublayers, subsurfaces, surface_subsurface, broken, role, usedSubs>>
      BY <1>9, <2>3 DEF DestroySurface
    <3>2. SubTypeOK' /\ RolesOK'
      BY <3>1 DEF SubTypeOK, RolesOK
    <3>3. Drawn'
      BY <3>1, LinksKept
    <3> QED BY <3>2, <3>3
  <2> QED BY <2>1, <2>2, <2>3
<1>10. ASSUME Disconnect PROVE SubTypeOK' /\ RolesOK' /\ Drawn'
  BY <1>10 DEF Disconnect, SubTypeOK, RolesOK, Drawn
<1>11. ASSUME UNCHANGED subVars PROVE SubTypeOK' /\ RolesOK' /\ Drawn'
  <2>1. SubTypeOK' /\ RolesOK'
    BY <1>11 DEF subVars, clientVars, chainVars, nativeVars, SubTypeOK, RolesOK
  <2>2. Drawn'
    BY <1>11, LinksKept DEF subVars, clientVars, chainVars, nativeVars
  <2> QED BY <2>1, <2>2
<1> QED
  BY <1>1, <1>2, <1>3, <1>4, <1>5, <1>6, <1>7, <1>8, <1>9, <1>10, <1>11 DEF SubNext

(* So it holds always. *)
LEMMA TreeAlways == SubSpec => []TreeInv
BY TreeInit, TreeNext, PTL DEF SubSpec

(* The records, the surfaces and the windows fit together always. *)
THEOREM SubTypeCorrect == SubSpec => []SubTypeOK
<1>1. TreeInv => SubTypeOK
  BY DEF TreeInv
<1> QED BY <1>1, TreeAlways, PTL

(* What is drawn of a subsurface is in the window its parents lead to. *)
THEOREM SublayersCorrect == SubSpec => []SublayersFollow
<1>1. TreeInv => SublayersFollow
  <2> SUFFICES ASSUME SubTypeOK, Drawn, NEW w \in Surfaces, NEW u \in sublayers[w] \ broken
               PROVE  subsurfaces[u] # NoRec /\ resolve_subsurface(subsurfaces[u].surface) = w
    BY DEF TreeInv, SublayersFollow
  <2>1. u \in Subs /\ subsurfaces[u] # NoRec
    BY DEF SubTypeOK, Drawn
  <2>2. subsurfaces[u].surface \in Surfaces
    BY <2>1, Record
  <2>3. Ends(subsurfaces[u].surface, w)
    BY <2>2 DEF Drawn
  <2> QED BY <2>1, <2>2, <2>3, WalkEnds
<1> QED BY <1>1, TreeAlways, PTL

(* resolve_subsurface ends on every shape of the chains, with the one      *)
(* window the links lead to, or with None.                                 *)
THEOREM WalkCorrect ==
  SubSpec => [](\A s \in Surfaces :
    /\ resolve_subsurface(s) \in shell \cup {NoSurface}
    /\ \A w \in Surfaces : resolve_subsurface(s) = w <=> Ends(s, w))
<1>1. TreeInv => \A s \in Surfaces :
        /\ resolve_subsurface(s) \in shell \cup {NoSurface}
        /\ \A w \in Surfaces : resolve_subsurface(s) = w <=> Ends(s, w)
  BY WalkEnds DEF TreeInv
<1> QED BY <1>1, TreeAlways, PTL

-----------------------------------------------------------------------------
(***************************************************************************)
(* WindowSize, for a screen of any size, any shadows and any number of     *)
(* sizes that somebody comes up with.                                      *)
(***************************************************************************)

(* Which commands of a queue are, or hold, frames, frames of a size that   *)
(* the client chose, and drags of the client's edge.                       *)
IsFrame(c)  == c.op = "frame"
IsOwn(c)    == IsFrame(c) /\ c.by = "client"
HasFrame(q) == \E i \in 1 .. Len(q) : IsFrame(q[i])
HasOwn(q)   == \E i \in 1 .. Len(q) : IsOwn(q[i])
Drags(q)    == \E i \in 1 .. Len(q) : q[i] = StartResize

(* In a queue of commands, frames are of the shadow s, and the last one is *)
(* of the content c.                                                       *)
FramesOf(q, c, s) ==
  \A i \in 1 .. Len(q) : IsFrame(q[i]) =>
    /\ q[i].buffer = q[i].geom + s
    /\ (\A j \in i + 1 .. Len(q) : ~IsFrame(q[j])) => q[i].geom = c

(* AppKit knows the shadow, the frames on their way end with the picture   *)
(* of now, and a client without an edge drags none.                        *)
CommandsOK ==
  /\ csd = shadow
  /\ decorated => ~resize /\ ~Drags(cmds)
  /\ FramesOf(cmds, content, shadow)

(* The last configure is of the window's size, or there is none to answer  *)
(* and the sizes agree; or a size the client chose is on its way.          *)
Heard == HasOwn(cmds) \/ (IF asks = <<>> THEN win = Buffer ELSE win = asks[Len(asks)].size + shadow)

(* The client still has something to answer, or AppKit a frame to follow,  *)
(* or the sizes agree.                                                     *)
Waits == asks # <<>> \/ HasFrame(cmds) \/ win = Buffer

(* Where nothing is excused: a window that does not follow frames, as it   *)
(* has a title bar or is held, has told the client its size; one that      *)
(* does is on its way to agree with the buffer.                            *)
Settling ==
  ~excused => /\ (decorated \/ live) => Heard
              /\ ~(decorated \/ live) => Waits

(* The inductive invariant. *)
SizeInv == SizeTypeOK /\ CommandsOK /\ Settling

-----------------------------------------------------------------------------

(* The fields of a command that is a frame, or a fill. *)
LEMMA FrameType ==
  ASSUME NEW c \in WinCmds
  PROVE  /\ IsFrame(c) => c.buffer \in Sizes /\ c.geom \in Sizes
         /\ c = StartResize => ~IsFrame(c)
         /\ c.op = "fill" => ~IsFrame(c) /\ c.on \in BOOLEAN
BY DEF WinCmds, IsFrame, StartResize, Fill

(* What is left of a queue once its head is handled. *)
LEMMA TailCommands ==
  ASSUME NEW q \in Seq(WinCmds), q # <<>>
  PROVE  /\ Head(q) \in WinCmds /\ Head(q) = q[1] /\ Tail(q) \in Seq(WinCmds)
         /\ HasFrame(q) <=> IsFrame(Head(q)) \/ HasFrame(Tail(q))
         /\ HasOwn(q) <=> IsOwn(Head(q)) \/ HasOwn(Tail(q))
         /\ Drags(Tail(q)) => Drags(q)
         /\ Head(q) = StartResize => Drags(q)
         /\ \A c, s : FramesOf(q, c, s) =>
              /\ FramesOf(Tail(q), c, s)
              /\ IsFrame(Head(q)) => Head(q).buffer = Head(q).geom + s
              /\ IsFrame(Head(q)) /\ ~HasFrame(Tail(q)) => Head(q).geom = c
<1> DEFINE t == Tail(q)
<1>1. /\ Head(q) \in WinCmds /\ Head(q) = q[1] /\ t \in Seq(WinCmds)
      /\ Len(q) \in Nat /\ Len(q) >= 1 /\ Len(t) = Len(q) - 1
      /\ \A i \in 1 .. Len(t) : t[i] = q[i + 1]
  <2>1. Head(q) \in WinCmds /\ t \in Seq(WinCmds) /\ Len(t) = Len(q) - 1 /\ \A i \in 1 .. Len(t) : t[i] = q[i + 1]
    BY HeadTailProperties
  <2> QED BY <2>1
<1> HIDE DEF t
<1>2. \A i \in 2 .. Len(q) : i - 1 \in 1 .. Len(t) /\ q[i] = t[i - 1]
  BY <1>1
<1>3. 1 .. Len(q) = {1} \cup 2 .. Len(q)
  BY <1>1
<1>4. HasFrame(q) <=> IsFrame(Head(q)) \/ HasFrame(t)
  BY <1>1, <1>2, <1>3 DEF HasFrame
<1>5. HasOwn(q) <=> IsOwn(Head(q)) \/ HasOwn(t)
  BY <1>1, <1>2, <1>3 DEF HasOwn
<1>6. (Drags(t) => Drags(q)) /\ (Head(q) = StartResize => Drags(q))
  BY <1>1 DEF Drags
<1>7. ASSUME NEW c, NEW s, FramesOf(q, c, s)
      PROVE  /\ FramesOf(t, c, s)
             /\ IsFrame(Head(q)) => Head(q).buffer = Head(q).geom + s
             /\ IsFrame(Head(q)) /\ ~HasFrame(t) => Head(q).geom = c
  <2>1. ASSUME NEW i \in 1 .. Len(t), IsFrame(t[i])
        PROVE  /\ t[i].buffer = t[i].geom + s
               /\ (\A j \in i + 1 .. Len(t) : ~IsFrame(t[j])) => t[i].geom = c
    <3>1. i + 1 \in 1 .. Len(q) /\ q[i + 1] = t[i]
      BY <1>1
    <3>2. (\A j \in i + 1 .. Len(t) : ~IsFrame(t[j])) => \A j \in i + 1 + 1 .. Len(q) : ~IsFrame(q[j])
      BY <1>1, <1>2
    <3> QED BY <1>7, <2>1, <3>1, <3>2 DEF FramesOf
  <2>2. 1 \in 1 .. Len(q)
    BY <1>1
  <2>3. ~HasFrame(t) => \A j \in 1 + 1 .. Len(q) : ~IsFrame(q[j])
    BY <1>1, <1>2 DEF HasFrame
  <2> QED BY <1>1, <1>7, <2>1, <2>2, <2>3 DEF FramesOf
<1> QED BY <1>1, <1>4, <1>5, <1>6, <1>7 DEF t

(* What a command appended makes of a queue. *)
LEMMA AppendCommands ==
  ASSUME NEW q \in Seq(WinCmds), NEW x \in WinCmds
  PROVE  /\ Append(q, x) \in Seq(WinCmds)
         /\ HasFrame(Append(q, x)) <=> HasFrame(q) \/ IsFrame(x)
         /\ HasOwn(Append(q, x)) <=> HasOwn(q) \/ IsOwn(x)
         /\ Drags(Append(q, x)) => Drags(q) \/ x = StartResize
         /\ \A c, s : ~IsFrame(x) /\ FramesOf(q, c, s) => FramesOf(Append(q, x), c, s)
         /\ \A c, d, s : IsFrame(x) /\ x.geom = d /\ x.buffer = d + s /\ FramesOf(q, c, s) => FramesOf(Append(q, x), d, s)
<1> DEFINE a == Append(q, x)
           n == Len(q)
<1>1. /\ a \in Seq(WinCmds) /\ n \in Nat /\ Len(a) = n + 1
      /\ \A i \in 1 .. n : a[i] = q[i]
      /\ a[n + 1] = x
  BY AppendProperties
<1>2. 1 .. Len(a) = 1 .. n \cup {n + 1}
  BY <1>1
<1> HIDE DEF a
<1>3. HasFrame(a) <=> HasFrame(q) \/ IsFrame(x)
  BY <1>1, <1>2 DEF HasFrame
<1>4. HasOwn(a) <=> HasOwn(q) \/ IsOwn(x)
  BY <1>1, <1>2 DEF HasOwn
<1>5. Drags(a) => Drags(q) \/ x = StartResize
  BY <1>1, <1>2 DEF Drags
<1>6. ASSUME NEW c, NEW s, ~IsFrame(x), FramesOf(q, c, s) PROVE FramesOf(a, c, s)
  <2> SUFFICES ASSUME NEW i \in 1 .. Len(a), IsFrame(a[i])
               PROVE  /\ a[i].buffer = a[i].geom + s
                      /\ (\A j \in i + 1 .. Len(a) : ~IsFrame(a[j])) => a[i].geom = c
    BY DEF FramesOf
  <2>1. i \in 1 .. n /\ a[i] = q[i]
    BY <1>1, <1>2, <1>6
  <2>2. (\A j \in i + 1 .. Len(a) : ~IsFrame(a[j])) => \A j \in i + 1 .. n : ~IsFrame(q[j])
    BY <1>1, <2>1
  <2> QED BY <1>6, <2>1, <2>2 DEF FramesOf
<1>7. ASSUME NEW c, NEW d, NEW s, IsFrame(x), x.geom = d, x.buffer = d + s, FramesOf(q, c, s)
      PROVE  FramesOf(a, d, s)
  <2> SUFFICES ASSUME NEW i \in 1 .. Len(a), IsFrame(a[i])
               PROVE  /\ a[i].buffer = a[i].geom + s
                      /\ (\A j \in i + 1 .. Len(a) : ~IsFrame(a[j])) => a[i].geom = d
    BY DEF FramesOf
  <2>1. CASE i \in 1 .. n
    <3>1. a[i] = q[i] /\ n + 1 \in i + 1 .. Len(a)
      BY <1>1, <2>1
    <3> QED BY <1>1, <1>7, <2>1, <3>1 DEF FramesOf
  <2>2. CASE i = n + 1
    BY <1>1, <1>7, <2>2
  <2> QED BY <1>2, <2>1, <2>2
<1> QED BY <1>1, <1>3, <1>4, <1>5, <1>6, <1>7 DEF a

(* What a client sends is a frame of its content and shadow. *)
LEMMA FrameSent ==
  ASSUME SizeTypeOK, NEW c, NEW own \in {"client", "edge", "window"}, c \in Nat, 1 <= c, c + shadow <= MaxSize
  PROVE  /\ Frame(c, own) \in WinCmds /\ IsFrame(Frame(c, own)) /\ (IsOwn(Frame(c, own)) <=> own = "client")
         /\ Frame(c, own).geom = c /\ Frame(c, own).buffer = c + shadow
         /\ Frame(c, own) # StartResize
<1>1. c \in Sizes /\ c + shadow \in Sizes
  BY TopAssumption, BoundAssumption DEF Sizes, SizeTypeOK
<1>2. Frame(c, own) \in WinCmds /\ IsFrame(Frame(c, own)) /\ Frame(c, own).geom = c /\ Frame(c, own).buffer = c + shadow
  BY <1>1 DEF Frame, WinCmds, IsFrame
<1>3. IsOwn(Frame(c, own)) <=> own = "client"
  BY <1>2 DEF Frame, IsOwn
<1> QED BY <1>2, <1>3, FrameType

(* windowDidResize asks for the size of the window less the margin. *)
LEMMA Reported ==
  ASSUME SizeTypeOK, NEW n \in Sizes, NEW margin \in {0, csd}, WindowDidResize(n, margin)
  PROVE  /\ asks' \in Seq(Asks) /\ last' \in Sizes
         /\ n = win \/ resize \/ n = last => asks' = asks
         /\ ~(n = win \/ resize \/ n = last) => asks' # <<>> /\ (n > margin => n = asks'[Len(asks')].size + margin)
<1>1. CASE n = win \/ resize \/ n = last
  BY <1>1 DEF SizeTypeOK, WindowDidResize
<1>2. CASE ~(n = win \/ resize \/ n = last)
  <2> DEFINE x == IF n > margin THEN n - margin ELSE 1
  <2>1. margin \in Nat /\ n \in Nat /\ 1 <= n /\ n <= MaxSize /\ MaxSize \in Nat
    BY BoundAssumption DEF SizeTypeOK, Sizes
  <2>2. x \in Sizes /\ (n > margin => n = x + margin)
    BY <2>1 DEF Sizes
  <2> DEFINE a == Ask(x, "window")
  <2>3. last' = n /\ asks' = Append(asks, a)
    BY <1>2 DEF WindowDidResize
  <2> HIDE DEF x
  <2>4. a \in Asks /\ a.size = x
    BY <2>2 DEF Ask, Asks
  <2> HIDE DEF a
  <2>5. asks' \in Seq(Asks) /\ asks' # <<>> /\ asks'[Len(asks')] = a
    <3>1. asks \in Seq(Asks)
      BY DEF SizeTypeOK
    <3> QED BY <2>3, <2>4, <3>1, AppendProperties
  <2> QED BY <1>2, <2>2, <2>3, <2>4, <2>5
<1> QED BY <1>1, <1>2

(* A change of size that is not excused reaches the client. *)
LEMMA Told ==
  ASSUME SizeTypeOK, csd = shadow, NEW n \in Sizes, n # win, ~Unmet(n), WindowDidResize(n, csd)
  PROVE  asks' # <<>> /\ n = asks'[Len(asks')].size + shadow
<1>1. ~(n = win \/ resize \/ n = last) /\ n > shadow
  BY DEF Unmet, SizeTypeOK, Sizes
<1> QED BY <1>1, Reported

(* A client that answers one ask has the later ones still to answer. *)
LEMMA Answered ==
  ASSUME SizeTypeOK, NEW i \in 1 .. Len(asks), asks' = SubSeq(asks, i + 1, Len(asks))
  PROVE  /\ asks' \in Seq(Asks)
         /\ asks' = <<>> => i = Len(asks)
         /\ asks' # <<>> => asks'[Len(asks')] = asks[Len(asks)]
<1>1. asks \in Seq(Asks) /\ Len(asks) \in Nat /\ \A j \in i + 1 .. Len(asks) : asks[j] \in Asks
  BY DEF SizeTypeOK
<1> DEFINE n == Len(asks)
<1>2. i + 1 \in Int /\ n \in Int
  BY <1>1
<1>3. /\ asks' \in Seq(Asks)
      /\ Len(asks') = IF i + 1 <= n THEN n - (i + 1) + 1 ELSE 0
      /\ \A j \in 1 .. n - (i + 1) + 1 : asks'[j] = asks[(i + 1) + j - 1]
  BY <1>1, <1>2, SubSeqProperties
<1> HIDE DEF n
<1>4. asks' = <<>> <=> Len(asks') = 0
  BY <1>3
<1>5. Len(asks') = n - i
  BY <1>1, <1>3 DEF n
<1>6. asks' = <<>> => i = n
  BY <1>1, <1>4, <1>5 DEF n
<1>7. asks' # <<>> => asks'[Len(asks')] = asks[n]
  <2> SUFFICES ASSUME asks' # <<>> PROVE asks'[n - i] = asks[n]
    BY <1>5
  <2>1. n - i \in 1 .. n - (i + 1) + 1
    BY <1>1, <1>4, <1>5 DEF n
  <2>2. asks'[n - i] = asks[(i + 1) + (n - i) - 1]
    BY <1>3, <2>1
  <2>3. (i + 1) + (n - i) - 1 = n
    BY <1>1 DEF n
  <2> QED BY <2>2, <2>3
<1> QED BY <1>3, <1>6, <1>7 DEF n

-----------------------------------------------------------------------------

(* The invariant holds when the window is created, from a buffer. *)
LEMMA SizeInvInit == SizeInit => SizeInv
<1> SUFFICES ASSUME SizeInit PROVE SizeInv
  OBVIOUS
<1>1. shadow \in 0 .. Top - 1 /\ content \in 1 .. Top - shadow /\ Top \in Nat \ {0}
  BY TopAssumption, ShadowsAssumption DEF SizeInit
<1>2. content \in Sizes /\ Buffer \in Sizes
  BY <1>1, BoundAssumption DEF Buffer, Sizes
<1>3. asks = <<>> /\ cmds = <<>> /\ <<>> \in Seq(Asks) /\ <<>> \in Seq(WinCmds)
  BY DEF SizeInit
<1>4. SizeTypeOK
  <2>1. {win, cur, last} \subseteq Sizes /\ csd \in {0, shadow}
    BY <1>2 DEF SizeInit
  <2>2. initiatives \in 0 .. MaxInitiatives
    BY BoundAssumption DEF SizeInit
  <2> QED BY <1>1, <1>2, <1>3, <2>1, <2>2 DEF SizeInit, SizeTypeOK
<1>5. CommandsOK
  BY <1>3 DEF SizeInit, CommandsOK, FramesOf, Drags
<1>6. Settling
  BY <1>3 DEF SizeInit, Settling, Heard, Waits
<1> QED BY <1>4, <1>5, <1>6 DEF SizeInv

(* The client paints, of a size that leaves room for its shadow. *)
LEMMA Painted ==
  ASSUME SizeTypeOK, CommandsOK, NEW c \in Nat, 1 <= c, c + shadow <= MaxSize,
         NEW own \in {"client", "edge", "window"},
         Paint(c, own), UNCHANGED <<decorated, shadow, appkit, history>>,
         asks' \in Seq(Asks), initiatives' \in 0 .. MaxInitiatives
  PROVE  /\ SizeTypeOK' /\ CommandsOK' /\ content' = c
         /\ HasFrame(cmds') /\ (HasOwn(cmds') <=> HasOwn(cmds) \/ own = "client")
<1> DEFINE f == Frame(c, own)
<1>1. /\ f \in WinCmds /\ IsFrame(f) /\ (IsOwn(f) <=> own = "client")
      /\ f.geom = c /\ f.buffer = c + shadow /\ f # StartResize
  BY FrameSent
<1>2. content' = c /\ cmds' = Append(cmds, f)
  BY DEF Paint
<1> HIDE DEF f
<1>3. cmds \in Seq(WinCmds)
  BY DEF SizeTypeOK
<1>4. /\ cmds' \in Seq(WinCmds) /\ HasFrame(cmds')
      /\ (HasOwn(cmds') <=> HasOwn(cmds) \/ own = "client")
      /\ (Drags(cmds') => Drags(cmds))
      /\ FramesOf(cmds', c, shadow)
  BY <1>1, <1>2, <1>3, AppendCommands DEF CommandsOK
<1>5. content' \in Sizes /\ Buffer' \in Sizes
  BY <1>2, TopAssumption, BoundAssumption DEF Sizes, Buffer, SizeTypeOK
<1>6. SizeTypeOK'
  BY <1>4, <1>5 DEF SizeTypeOK, appkit, history
<1>7. CommandsOK'
  BY <1>2, <1>4 DEF CommandsOK, appkit
<1> QED BY <1>2, <1>4, <1>6, <1>7

(* A client that answers has its next frame on the way. *)
LEMMA NextConfigured == SizeInv /\ Configured => SizeInv'
<1> SUFFICES ASSUME SizeTypeOK, CommandsOK, Settling, Configured PROVE SizeTypeOK' /\ CommandsOK' /\ Settling'
  BY DEF SizeInv
<1>1. PICK i \in 1 .. Len(asks) : /\ asks[i].size + shadow <= MaxSize
                                  /\ Paint(asks[i].size, asks[i].by)
                                  /\ asks' = SubSeq(asks, i + 1, Len(asks))
  BY DEF Configured
<1>2. UNCHANGED <<decorated, shadow, appkit, initiatives, history>>
  BY DEF Configured
<1> DEFINE c == asks[i].size  by == asks[i].by
<1>3. asks[i] \in Asks /\ asks # <<>>
  BY DEF SizeTypeOK
<1>4. c \in Nat /\ 1 <= c /\ c + shadow <= MaxSize /\ by \in {"edge", "window"}
  BY <1>1, <1>3 DEF Asks, Sizes
<1>5. /\ asks' \in Seq(Asks)
      /\ asks' = <<>> => i = Len(asks)
      /\ asks' # <<>> => asks'[Len(asks')] = asks[Len(asks)]
  BY <1>1, Answered
<1>6. initiatives' \in 0 .. MaxInitiatives
  BY <1>2 DEF SizeTypeOK
<1>7. Paint(c, by) /\ (i = Len(asks) => c = asks[Len(asks)].size)
  BY <1>1
<1> HIDE DEF c, by
<1>8. /\ SizeTypeOK' /\ CommandsOK' /\ content' = c
      /\ HasFrame(cmds') /\ (HasOwn(cmds') <=> HasOwn(cmds))
  BY <1>2, <1>4, <1>5, <1>6, <1>7, Painted
<1>9. Waits'
  BY <1>8 DEF Waits
<1>10. Heard => Heard'
  BY <1>2, <1>3, <1>5, <1>7, <1>8 DEF Heard, Buffer, appkit
<1> QED BY <1>2, <1>8, <1>9, <1>10 DEF Settling, appkit, history

(* A client that chooses a size sends a frame of its own. *)
LEMMA NextResizesItself == ASSUME NEW c \in Sizes PROVE SizeInv /\ ResizesItself(c) => SizeInv'
<1> SUFFICES ASSUME SizeTypeOK, CommandsOK, Settling, ResizesItself(c) PROVE SizeTypeOK' /\ CommandsOK' /\ Settling'
  BY DEF SizeInv
<1>1. /\ c \in Nat /\ 1 <= c /\ c + shadow <= MaxSize
      /\ initiatives' \in 0 .. MaxInitiatives
  BY TopAssumption, BoundAssumption DEF ResizesItself, Initiative, SizeTypeOK, Sizes
<1>2. Paint(c, "client") /\ UNCHANGED <<decorated, shadow, asks, appkit, history>>
  BY DEF ResizesItself
<1>3. asks' \in Seq(Asks)
  BY <1>2 DEF SizeTypeOK
<1>4. SizeTypeOK' /\ CommandsOK' /\ HasFrame(cmds') /\ HasOwn(cmds')
  BY <1>1, <1>2, <1>3, Painted
<1> QED BY <1>4 DEF Settling, Heard, Waits

(* A native resize: AppKit gives the window the size n and reports it. *)
LEMMA Resized ==
  ASSUME SizeTypeOK, CommandsOK, NEW n \in Sizes, n = win => Settling /\ UNCHANGED <<decorated, live>>,
         win' = n, WindowDidResize(n, csd), excused' = (excused \/ Unmet(n)),
         UNCHANGED <<decorated, client>>, (HasOwn(cmds') <=> HasOwn(cmds)), (HasFrame(cmds') <=> HasFrame(cmds))
  PROVE  asks' \in Seq(Asks) /\ last' \in Sizes /\ excused' \in BOOLEAN /\ Settling'
<1>1. asks' \in Seq(Asks) /\ last' \in Sizes /\ (n = win => asks' = asks)
  BY Reported
<1>2. excused' \in BOOLEAN /\ (excused => excused') /\ (Unmet(n) => excused')
  BY DEF SizeTypeOK, Unmet
<1>3. CASE n = win
  <2>1. UNCHANGED <<asks, win, decorated, live, content, shadow>> /\ Settling
    BY <1>1, <1>3 DEF client
  <2>2. (Heard => Heard') /\ (Waits => Waits')
    BY <2>1 DEF Heard, Waits, Buffer
  <2> QED BY <1>1, <1>2, <2>1, <2>2 DEF Settling
<1>4. CASE n # win /\ Unmet(n)
  BY <1>1, <1>2, <1>4 DEF Settling
<1>5. CASE n # win /\ ~Unmet(n)
  <2>1. asks' # <<>> /\ n = asks'[Len(asks')].size + shadow
    BY <1>5, Told DEF CommandsOK
  <2>2. Heard' /\ Waits'
    BY <2>1 DEF Heard, Waits, client
  <2> QED BY <1>1, <1>2, <2>2 DEF Settling
<1> QED BY <1>1, <1>2, <1>3, <1>4, <1>5

(* The user drags the native edge: the client hears of it. *)
LEMMA NextDragEdge == ASSUME NEW n \in Sizes PROVE SizeInv /\ DragEdge(n) => SizeInv'
<1> SUFFICES ASSUME SizeTypeOK, CommandsOK, Settling, DragEdge(n) PROVE SizeTypeOK' /\ CommandsOK' /\ Settling'
  BY DEF SizeInv
<1>1. /\ n # win /\ live' = TRUE /\ win' = n /\ WindowDidResize(n, csd)
      /\ excused' = (excused \/ Unmet(n))
      /\ UNCHANGED <<decorated, client, cmds, cur, csd, saved, resize, fed_back>>
      /\ initiatives' \in 0 .. MaxInitiatives
  BY BoundAssumption DEF DragEdge, Initiative, SizeTypeOK
<1>2. asks' \in Seq(Asks) /\ last' \in Sizes /\ excused' \in BOOLEAN /\ Settling'
  BY <1>1, Resized
<1>3. SizeTypeOK'
  BY <1>1, <1>2 DEF SizeTypeOK, client, Buffer
<1>4. CommandsOK'
  BY <1>1 DEF CommandsOK, client
<1> QED BY <1>2, <1>3, <1>4

(* The window fills the screen, or goes back to its size: the same. *)
LEMMA NextFill == SizeInv /\ HandleFill => SizeInv'
<1> SUFFICES ASSUME SizeTypeOK, CommandsOK, Settling, HandleFill PROVE SizeTypeOK' /\ CommandsOK' /\ Settling'
  BY DEF SizeInv
<1> DEFINE h == Head(cmds)
           n == IF h.on THEN Top ELSE IF saved = None THEN win ELSE saved
<1>1. cmds # <<>> /\ h.op = "fill" /\ cmds' = Tail(cmds) /\ win' = n /\ WindowDidResize(n, csd)
      /\ excused' = (excused \/ Unmet(n))
      /\ saved' = (IF ~h.on THEN None ELSE IF saved = None THEN win ELSE saved)
      /\ UNCHANGED <<decorated, client, cur, csd, resize, live, initiatives, fed_back>>
  BY DEF HandleFill
<1>2. cmds \in Seq(WinCmds)
  BY DEF SizeTypeOK
<1>3. /\ h \in WinCmds /\ cmds' \in Seq(WinCmds)
      /\ HasFrame(cmds) <=> IsFrame(h) \/ HasFrame(cmds')
      /\ HasOwn(cmds) <=> IsOwn(h) \/ HasOwn(cmds')
      /\ Drags(cmds') => Drags(cmds)
      /\ FramesOf(cmds', content, shadow)
  BY <1>1, <1>2, TailCommands DEF CommandsOK
<1>4. ~IsFrame(h) /\ ~IsOwn(h)
  BY <1>1, <1>3, FrameType DEF IsOwn
<1>5. n \in Sizes
  BY TopAssumption, BoundAssumption DEF SizeTypeOK, Sizes
<1>6. saved' \in Sizes \cup {None}
  BY <1>1 DEF SizeTypeOK
<1> HIDE DEF n, h
<1>7. asks' \in Seq(Asks) /\ last' \in Sizes /\ excused' \in BOOLEAN /\ Settling'
  BY <1>1, <1>3, <1>4, <1>5, Resized
<1>8. SizeTypeOK'
  BY <1>1, <1>3, <1>5, <1>6, <1>7 DEF SizeTypeOK, client, Buffer
<1>9. CommandsOK'
  BY <1>1, <1>3 DEF CommandsOK, client
<1> QED BY <1>7, <1>8, <1>9

(* A drag of the client's edge begins; it has one. *)
LEMMA NextStartResize == SizeInv /\ HandleStartResize => SizeInv'
<1> SUFFICES ASSUME SizeTypeOK, CommandsOK, Settling, HandleStartResize PROVE SizeTypeOK' /\ CommandsOK' /\ Settling'
  BY DEF SizeInv
<1>1. cmds # <<>> /\ Head(cmds) = StartResize /\ cmds' = Tail(cmds) /\ resize' = TRUE
      /\ UNCHANGED <<decorated, client, asks, win, cur, csd, last, saved, live, initiatives, history>>
  BY DEF HandleStartResize
<1>2. cmds \in Seq(WinCmds)
  BY DEF SizeTypeOK
<1>3. /\ Head(cmds) \in WinCmds /\ cmds' \in Seq(WinCmds)
      /\ HasFrame(cmds) <=> IsFrame(Head(cmds)) \/ HasFrame(cmds')
      /\ HasOwn(cmds) <=> IsOwn(Head(cmds)) \/ HasOwn(cmds')
      /\ Drags(cmds)
      /\ FramesOf(cmds', content, shadow)
  BY <1>1, <1>2, TailCommands DEF CommandsOK
<1>4. ~IsFrame(Head(cmds)) /\ ~IsOwn(Head(cmds))
  BY <1>1, <1>3, FrameType DEF IsOwn
<1>5. SizeTypeOK'
  BY <1>1, <1>3 DEF SizeTypeOK, client, history, Buffer
<1>6. CommandsOK'
  BY <1>1, <1>3 DEF CommandsOK, client
<1>7. Settling'
  BY <1>1, <1>3, <1>4 DEF Settling, Heard, Waits, client, history, Buffer
<1> QED BY <1>5, <1>6, <1>7

(* The window follows the frame, or the frame follows the window, or the   *)
(* client is excused.                                                      *)
LEMMA NextPresent == SizeInv /\ PresentFrame => SizeInv'
<1> SUFFICES ASSUME SizeTypeOK, CommandsOK, Settling, PresentFrame PROVE SizeTypeOK' /\ CommandsOK' /\ Settling'
  BY DEF SizeInv
<1> DEFINE h == Head(cmds)
           b == h.buffer
<1>1. /\ cmds # <<>> /\ IsFrame(h) /\ cmds' = Tail(cmds) /\ csd' = b - h.geom
      /\ Follows(b) => win' = b /\ cur' = b /\ WindowDidResize(b, 0)
      /\ ~Follows(b) => UNCHANGED <<win, cur, asks, last>>
      /\ Excuse
      /\ UNCHANGED <<decorated, client, saved, resize, live, initiatives>>
  BY DEF PresentFrame, IsFrame
<1>2. cmds \in Seq(WinCmds)
  BY DEF SizeTypeOK
<1>3. /\ h \in WinCmds /\ cmds' \in Seq(WinCmds)
      /\ HasOwn(cmds) <=> IsOwn(h) \/ HasOwn(cmds')
      /\ Drags(cmds') => Drags(cmds)
      /\ FramesOf(cmds', content, shadow)
      /\ b = h.geom + shadow
      /\ ~HasFrame(cmds') => h.geom = content
  BY <1>1, <1>2, TailCommands DEF CommandsOK
<1>4. h.geom \in Sizes /\ b \in Sizes /\ (IsOwn(h) <=> h.by = "client")
  BY <1>1, <1>3, FrameType DEF IsOwn
<1>5. csd' = shadow
  BY <1>1, <1>3, <1>4 DEF SizeTypeOK, Sizes
<1>6. (decorated \/ live) /\ h.by = "client" => excused'
  BY <1>1 DEF Excuse
<1>7. ~decorated /\ ~live /\ cur = b /\ win # cur => excused'
  BY <1>1 DEF Excuse
<1>8. excused' \in BOOLEAN /\ fed_back' \in BOOLEAN /\ (excused => excused')
  <2>1. decorated \in BOOLEAN /\ live \in BOOLEAN /\ excused \in BOOLEAN /\ fed_back \in BOOLEAN
    BY DEF SizeTypeOK
  <2> HIDE DEF h, b
  <2> DEFINE A == (decorated \/ live) /\ h.by = "client"
             B == ~decorated /\ ~live /\ cur = b /\ win # cur
             C == ~decorated /\ asks' # asks /\ OnTheWay
             D == ~decorated /\ asks' # asks /\ shadow > 0 /\ h.by # "window"
  <2>2. excused' = (excused \/ A \/ B \/ C) /\ fed_back' = (fed_back \/ D)
    BY <1>1 DEF Excuse, h, b
  <2>3. A \in BOOLEAN /\ B \in BOOLEAN /\ C \in BOOLEAN /\ D \in BOOLEAN
    BY <2>1
  <2> HIDE DEF A, B, C, D
  <2> QED BY <2>1, <2>2, <2>3
<1> HIDE DEF h, b
<1>9. asks' \in Seq(Asks) /\ {win', cur', last'} \subseteq Sizes
  <2>1. CASE Follows(b)
    <3>1. 0 \in {0, csd}
      OBVIOUS
    <3>2. asks' \in Seq(Asks) /\ last' \in Sizes
      <4>1. CASE b = win \/ resize \/ b = last
        BY <1>1, <2>1, <4>1 DEF WindowDidResize, SizeTypeOK
      <4>2. CASE ~(b = win \/ resize \/ b = last)
        <5>1. b > 0
          BY <1>4 DEF Sizes
        <5> QED BY <1>1, <1>4, <2>1, <3>1, Reported
      <4> QED BY <4>1, <4>2
    <3> QED BY <1>1, <1>4, <2>1, <3>2
  <2>2. CASE ~Follows(b)
    BY <1>1, <2>2 DEF SizeTypeOK
  <2> QED BY <2>1, <2>2
<1>10. SizeTypeOK'
  BY <1>1, <1>3, <1>5, <1>8, <1>9 DEF SizeTypeOK, client, Buffer
<1>11. CommandsOK'
  BY <1>1, <1>3, <1>5 DEF CommandsOK, client
<1>12. Settling'
  <2>1. CASE excused'
    BY <2>1 DEF Settling
  <2>2. CASE ~excused' /\ (decorated \/ live)
    <3>1. ~Follows(b) /\ ~IsOwn(h)
      BY <1>4, <1>6, <2>2 DEF Follows
    <3>2. Heard
      BY <1>8, <2>2 DEF Settling
    <3>3. Heard'
      BY <1>1, <1>3, <3>1, <3>2 DEF Heard, client, Buffer
    <3> QED BY <1>1, <2>2, <3>3 DEF Settling
  <2>3. CASE ~excused' /\ ~decorated /\ ~live
    <3>1. win' = b
      BY <1>1, <1>7, <2>3 DEF Follows
    <3>2. ~HasFrame(cmds') => win' = Buffer'
      BY <1>1, <1>3, <3>1 DEF client, Buffer
    <3>3. Waits'
      BY <3>2 DEF Waits
    <3> QED BY <1>1, <2>3, <3>3 DEF Settling
  <2> QED BY <2>1, <2>2, <2>3
<1> QED BY <1>10, <1>11, <1>12

(* An edge that is let go: what the client has heard it will answer. *)
LEMMA NextDropEdge == SizeInv /\ DropEdge => SizeInv'
<1> SUFFICES ASSUME SizeTypeOK, CommandsOK, Settling, DropEdge PROVE SizeTypeOK' /\ CommandsOK' /\ Settling'
  BY DEF SizeInv
<1>1. live /\ live' = FALSE
      /\ UNCHANGED <<decorated, client, asks, cmds, win, cur, csd, last, saved, resize, initiatives, history>>
  BY DEF DropEdge
<1>2. SizeTypeOK' /\ CommandsOK'
  BY <1>1 DEF SizeTypeOK, CommandsOK, client, history, Buffer
<1>3. Heard => Waits
  BY DEF Heard, Waits, HasOwn, HasFrame, IsOwn
<1> QED BY <1>1, <1>2, <1>3 DEF Settling, Heard, Waits, client, history, Buffer

(* The client's edge is dragged: it is asked for a size. *)
LEMMA NextTryResize == ASSUME NEW n \in Sizes PROVE SizeInv /\ TryResizeWindow(n) => SizeInv'
<1> SUFFICES ASSUME SizeTypeOK, CommandsOK, Settling, TryResizeWindow(n) PROVE SizeTypeOK' /\ CommandsOK' /\ Settling'
  BY DEF SizeInv
<1>1. /\ resize /\ ~live /\ asks' = Append(asks, Ask(n, "edge"))
      /\ UNCHANGED <<decorated, client, cmds, appkit, history>>
      /\ initiatives' \in 0 .. MaxInitiatives
  BY BoundAssumption DEF TryResizeWindow, Initiative, SizeTypeOK
<1>2. asks' \in Seq(Asks) /\ asks' # <<>>
  <2>1. Ask(n, "edge") \in Asks /\ asks \in Seq(Asks)
    BY DEF Ask, Asks, SizeTypeOK
  <2> QED BY <1>1, <2>1, AppendProperties
<1>3. SizeTypeOK'
  BY <1>1, <1>2 DEF SizeTypeOK, client, appkit, history, Buffer
<1>4. CommandsOK' /\ ~decorated /\ ~live'
  BY <1>1 DEF CommandsOK, client, appkit
<1> QED BY <1>1, <1>2, <1>3, <1>4 DEF Settling, Waits

(* The client's edge is let go, which changes no size. *)
LEMMA NextMouseUp == SizeInv /\ MouseUp => SizeInv'
<1> SUFFICES ASSUME SizeTypeOK, CommandsOK, Settling, MouseUp PROVE SizeTypeOK' /\ CommandsOK' /\ Settling'
  BY DEF SizeInv
<1>1. resize' = FALSE
      /\ UNCHANGED <<decorated, client, asks, cmds, win, cur, csd, last, saved, live, initiatives, history>>
  BY DEF MouseUp
<1> QED BY <1>1 DEF SizeTypeOK, CommandsOK, Settling, Heard, Waits, client, history, Buffer

(* Requests of the client, which change no size yet. *)
LEMMA NextRequests ==
  ASSUME NEW cmd \in {StartResize} \cup {Fill(on) : on \in BOOLEAN} PROVE SizeInv /\ Requests(cmd) => SizeInv'
<1> SUFFICES ASSUME SizeTypeOK, CommandsOK, Settling, Requests(cmd) PROVE SizeTypeOK' /\ CommandsOK' /\ Settling'
  BY DEF SizeInv
<1>1. /\ decorated => cmd # StartResize
      /\ cmds' = Append(cmds, cmd)
      /\ UNCHANGED <<decorated, client, asks, appkit, history>>
      /\ initiatives' \in 0 .. MaxInitiatives
  BY BoundAssumption DEF Requests, Initiative, SizeTypeOK
<1>2. cmd \in WinCmds /\ ~IsFrame(cmd) /\ ~IsOwn(cmd)
  BY DEF WinCmds, StartResize, Fill, IsFrame, IsOwn
<1>3. cmds \in Seq(WinCmds)
  BY DEF SizeTypeOK
<1>4. /\ cmds' \in Seq(WinCmds)
      /\ HasFrame(cmds') <=> HasFrame(cmds)
      /\ HasOwn(cmds') <=> HasOwn(cmds)
      /\ Drags(cmds') => Drags(cmds) \/ cmd = StartResize
      /\ FramesOf(cmds', content, shadow)
  BY <1>1, <1>2, <1>3, AppendCommands DEF CommandsOK
<1>5. SizeTypeOK'
  BY <1>1, <1>4 DEF SizeTypeOK, client, appkit, history, Buffer
<1>6. CommandsOK'
  BY <1>1, <1>4 DEF CommandsOK, client, appkit
<1>7. Settling'
  BY <1>1, <1>4 DEF Settling, Heard, Waits, client, appkit, history, Buffer
<1> QED BY <1>5, <1>6, <1>7

(* Every step keeps the invariant. *)
LEMMA SizeInvNext == SizeInv /\ [SizeNext]_sizeVars => SizeInv'
<1>1. SizeInv /\ UNCHANGED sizeVars => SizeInv'
  BY DEF SizeInv, SizeTypeOK, CommandsOK, Settling, Heard, Waits, sizeVars, client, appkit, history, Buffer
<1> QED
  BY <1>1, NextConfigured, NextResizesItself, NextDragEdge, NextFill, NextStartResize, NextPresent, NextDropEdge,
     NextTryResize, NextMouseUp, NextRequests DEF SizeNext, System

(* So it holds always. *)
LEMMA SizeAlways == SizeSpec => []SizeInv
BY SizeInvInit, SizeInvNext, PTL DEF SizeSpec

(* Sizes stay on the screen; what is sent back and forth are sizes. *)
THEOREM SizeTypeCorrect == SizeSpec => []SizeTypeOK
<1>1. SizeInv => SizeTypeOK
  BY DEF SizeInv
<1> QED BY <1>1, SizeAlways, PTL

(* Nothing is on its way between client and window. *)
RestIsSettled == asks = <<>> /\ cmds = <<>> => excused \/ Settled

(* Whenever nothing is on the way, the window has the size of the buffer;  *)
(* but for the excuses.                                                    *)
THEOREM RestCorrect == SizeSpec => []RestIsSettled
<1>1. SizeInv => RestIsSettled
  <2> SUFFICES ASSUME SizeInv, asks = <<>>, cmds = <<>>, ~excused PROVE win = Buffer
    BY DEF RestIsSettled, Settled
  <2>1. ~HasOwn(cmds) /\ ~HasFrame(cmds)
    BY DEF HasOwn, HasFrame
  <2> QED BY <2>1 DEF SizeInv, Settling, Heard, Waits
<1> QED BY <1>1, SizeAlways, PTL
=============================================================================
