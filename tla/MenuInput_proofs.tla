-------------------------- MODULE MenuInput_proofs --------------------------
(***************************************************************************)
(* Proofs about MenuInput, for any number of windows, menus, buttons and   *)
(* places.                                                                 *)
(***************************************************************************)
EXTENDS MenuInput, CommandQueue_proofs

(* A command that creates or destroys names a menu. *)
LEMMA CmdMenu ==
  ASSUME NEW op \in {"CreatePopup", "Destroy"}, NEW m, Cmd(op, m) \in Commands(Menus)
  PROVE  m \in Menus
<1>1. Cmd(op, m).op # "SetGrab" /\ Cmd(op, m).win = m
  BY DEF Cmd
<1> QED BY <1>1, CmdWindow

LEMMA HandleMenu ==
  ASSUME TypeOK, NEW op \in {"CreatePopup", "Destroy"}, NEW m, Handle(op, m)
  PROVE  m \in Menus
<1>1. Head(queue) \in Commands(Menus)
  BY DEF Handle, TypeOK
<1> QED BY <1>1, CmdMenu DEF Handle

(* What AppKit pushes is an event. *)
LEMMA EventType ==
  /\ \A t \in {"focus in", "focus out", "deactivated", "dismiss"}, w \in Windows : Event(t, w) \in Events
  /\ \A w \in Windows, b \in Buttons, p \in BOOLEAN : Button(w, b, p) \in Events
BY DEF Event, Button, Events

(* One more event, or two. *)
LEMMA PushType ==
  ASSUME bus \in Seq(Events), NEW a \in Events, NEW b \in Events
  PROVE  /\ Push(<<a>>) => bus' \in Seq(Events)
         /\ Push(<<a, b>>) => bus' \in Seq(Events)
<1>1. bus \o <<a>> \in Seq(Events) /\ bus \o <<a, b>> \in Seq(Events)
  OBVIOUS
<1> QED BY <1>1 DEF Push

(* One more command. *)
LEMMA PostType ==
  ASSUME queue \in Seq(Commands(Menus)), NEW c \in Commands(Menus), Post(<<c>>)
  PROVE  queue' \in Seq(Commands(Menus))
BY DEF Post

(* Focus goes to a window or nowhere. *)
LEMMA RestoreFocusType ==
  ASSUME TypeOK, NEW ws \in SUBSET Windows, RestoreFocus(ws)
  PROVE  bus' \in Seq(Events) /\ stranded' \in BOOLEAN
<1>1. CASE \E w \in ws : Over(w) /\ Push(<<Event("focus in", w)>>) /\ stranded' = FALSE
  <2>1. PICK w \in ws : Push(<<Event("focus in", w)>>) /\ stranded' = FALSE
    BY <1>1
  <2>2. Event("focus in", w) \in Events
    BY EventType
  <2> QED BY <2>1, <2>2, PushType DEF TypeOK
<1>2. CASE stranded' = TRUE /\ UNCHANGED bus
  BY <1>2 DEF TypeOK
<1> QED BY <1>1, <1>2 DEF RestoreFocus

(* The grab AppKit goes by is a menu on screen, or none. *)
LEMMA GrabbedType ==
  ASSUME TypeOK
  PROVE  /\ Grabbed \in Menus \cup {NoWin}
         /\ Grabbed # NoWin => Grabbed \in Menus /\ Grabbed \in WINDOWS
BY DEF TypeOK, Grabbed

(* The window a press goes to. *)
LEMMA MouseDownType ==
  ASSUME TypeOK, NEW w \in Windows, NEW b \in Buttons, MouseDown(w, b)
  PROVE  /\ bus' \in Seq(Events)
         /\ \E v \in Windows : PressTo(v, b) \/ DismissMenu(v, b)
<1>1. Grabbed # NoWin => Grabbed \in Windows
  BY GrabbedType DEF Windows
<1>2. PICK v \in Windows : PressTo(v, b) \/ DismissMenu(v, b)
  BY <1>1 DEF MouseDown
<1>3. Button(v, b, TRUE) \in Events /\ Event("dismiss", v) \in Events
  BY EventType
<1>4. bus' \in Seq(Events)
  BY <1>2, <1>3, PushType DEF PressTo, DismissMenu, TypeOK
<1> QED BY <1>2, <1>4

(* The window a release goes to, if any. *)
LEMMA MouseUpType ==
  ASSUME TypeOK, NEW b \in Buttons, MouseUp(b)
  PROVE  bus' \in Seq(Events)
<1>1. Grabbed # NoWin => Grabbed \in Windows
  BY GrabbedType DEF Windows
<1>2. ASSUME NEW v \in Windows, ReleaseTo(v, b) PROVE bus' \in Seq(Events)
  <2>1. Button(v, b, FALSE) \in Events
    BY EventType
  <2> QED BY <1>2, <2>1, PushType DEF ReleaseTo, TypeOK
<1> QED BY <1>1, <1>2 DEF MouseUp, Selects, TypeOK

(* Every variable keeps its type, and the flags of a record go with it.    *)
THEOREM TypeCorrect == Spec => []TypeOK
<1>1. Init => TypeOK
  <2>1. <<>> \in Seq(Commands(Menus)) /\ <<>> \in Seq(Events)
    OBVIOUS
  <2> QED BY <2>1 DEF Init, TypeOK, Windows
<1>2. TypeOK /\ [Next]_vars => TypeOK'
  <2> SUFFICES ASSUME TypeOK, [Next]_vars PROVE TypeOK'
    OBVIOUS
  <2> USE DEF recordVars, wayland, buttons
  <2>1. CASE Client
    <3>1. PICK m \in Menus : GetPopup(m) \/ Grab(m) \/ Present(m) \/ Unmap(m) \/ ReapPopup(m)
      BY <2>1 DEF Client
    <3>2. queue' \in Seq(Commands(Menus))
      BY <3>1, CmdType, PostType DEF GetPopup, Grab, Present, Unmap, ReapPopup, TypeOK, CreateOps
    <3>3. /\ unborn' \subseteq Menus /\ popups' \subseteq Menus \ unborn'
          /\ created' \subseteq popups' /\ dismissed' \subseteq popups'
      BY <3>1 DEF GetPopup, Grab, Present, Unmap, ReapPopup, TypeOK
    <3>4. Request
      BY <3>1 DEF GetPopup, Grab, Present, Unmap, ReapPopup
    <3> QED BY <3>2, <3>3, <3>4 DEF TypeOK, Request
  <2>2. ASSUME NEW op, NEW m, Handle(op, m)
        PROVE  queue' \in Seq(Commands(Menus))
    BY <2>2 DEF Handle, TypeOK
  <2>3. CASE AppKit
    <3> PICK m \in Menus \cup {NoWin} : HandleCreatePopup(m) \/ HandleSetGrab(m) \/ HandleDestroy(m)
      BY <2>3 DEF AppKit
    <3>1. CASE HandleCreatePopup(m)
      <4>1. m \in Menus
        BY <3>1, HandleMenu DEF HandleCreatePopup
      <4>2. m \in Windows /\ Event("focus in", m) \in Events
        BY <4>1, EventType DEF Windows
      <4>3. bus' \in Seq(Events) /\ stranded' \in BOOLEAN
        BY <3>1, <4>2, PushType DEF HandleCreatePopup, NoRestore, TypeOK
      <4> QED BY <2>2, <3>1, <4>2, <4>3 DEF HandleCreatePopup, Handle, TypeOK
    <3>2. CASE HandleSetGrab(m)
      <4>1. bus' \in Seq(Events) /\ stranded' \in BOOLEAN
        BY <3>2, RestoreFocusType DEF HandleSetGrab, NoRestore, TypeOK
      <4> QED BY <2>2, <3>2, <4>1 DEF HandleSetGrab, Handle, TypeOK
    <3>3. CASE HandleDestroy(m)
      <4>1. m \in Menus
        BY <3>3, HandleMenu DEF HandleDestroy
      <4>2. WINDOWS' \subseteq Windows /\ Toplevels \subseteq WINDOWS'
        BY <3>3, <4>1, WindowsAssumption DEF HandleDestroy, CloseView, TypeOK
      <4>3. bus' \in Seq(Events) /\ stranded' \in BOOLEAN
        BY <3>3, <4>2, RestoreFocusType DEF HandleDestroy, NoRestore, TypeOK
      <4>4. held' \in [Buttons -> Windows \cup {NoWin, NoView}]
        BY <3>3 DEF HandleDestroy, CloseView, TypeOK
      <4> QED BY <2>2, <3>3, <4>2, <4>3, <4>4 DEF HandleDestroy, CloseView, Handle, TypeOK
    <3> QED BY <3>1, <3>2, <3>3
  <2>4. ASSUME NEW t \in Toplevels, WindowDidBecomeKey(t) \/ WindowDidResignKey(t) PROVE TypeOK'
    <3>1. \A e \in {"focus in", "focus out", "deactivated"} : Event(e, t) \in Events
      BY EventType DEF Windows
    <3>2. bus' \in Seq(Events) /\ stranded' \in BOOLEAN
      BY <2>4, <3>1, PushType DEF WindowDidBecomeKey, WindowDidResignKey, TypeOK
    <3> QED BY <2>4, <3>2 DEF WindowDidBecomeKey, WindowDidResignKey, NoCommand, TypeOK
  <2>5. ASSUME NEW p \in Places, MouseMove(p) PROVE TypeOK'
    <3>1. GRAB' \in Menus \cup {NoWin}
      BY <2>5, GrabbedType DEF MouseMove, TypeOK
    <3> QED BY <2>5, <3>1 DEF MouseMove, Down, NoCommand, TypeOK
  <2>6. ASSUME NEW w \in Windows, NEW b \in Buttons, MouseDown(w, b) PROVE TypeOK'
    <3>1. bus' \in Seq(Events)
      BY <2>6, MouseDownType
    <3>2. PICK v \in Windows : PressTo(v, b) \/ DismissMenu(v, b)
      BY <2>6, MouseDownType
    <3>3. IMPLICIT_GRAB' \in Windows \cup {NoWin} /\ went' \in [Buttons -> Windows \cup {NoWin}]
      BY <3>2 DEF PressTo, DismissMenu, TypeOK
    <3>4. chorded' \subseteq Buttons /\ held' \in [Buttons -> Windows \cup {NoWin, NoView}]
      BY <2>6 DEF MouseDown, Down, TypeOK
    <3> QED BY <2>6, <3>1, <3>3, <3>4, GrabbedType DEF MouseDown, NoCommand, TypeOK
  <2>7. ASSUME NEW b \in Buttons, MouseUp(b) PROVE TypeOK'
    BY <2>7, MouseUpType, GrabbedType DEF MouseUp, NoCommand, TypeOK
  <2>8. ASSUME NEW t, NEW w, Take(t, w)
        PROVE  /\ bus' \in Seq(Events)
               /\ Head(bus) \in Events
    BY <2>8 DEF Take, TypeOK
  <2>9. ASSUME NEW m, Dismiss(m) PROVE dismissed' \subseteq popups /\ queue' \in Seq(Commands(Menus))
    BY <2>9, CmdType, PostType DEF Dismiss, TypeOK
  <2>10. CASE Input
    <3> PICK w \in Windows :
           PointerButton(w) \/ FocusIn(w) \/ FocusOut(w) \/ PopupDismiss(w) \/ AppDeactivated(w)
      BY <2>10 DEF Input
    <3>1. CASE PointerButton(w) \/ FocusIn(w) \/ FocusOut(w)
      BY <2>8, <3>1 DEF PointerButton, FocusIn, FocusOut, Take, TypeOK
    <3>2. CASE PopupDismiss(w) \/ AppDeactivated(w)
      <4>1. dismissed' \subseteq popups /\ queue' \in Seq(Commands(Menus))
        BY <2>9, <3>2 DEF PopupDismiss, AppDeactivated, TypeOK
      <4> QED BY <2>8, <3>2, <4>1 DEF PopupDismiss, AppDeactivated, Take, TypeOK
    <3> QED BY <3>1, <3>2
  <2>11. CASE UNCHANGED vars
    BY <2>11 DEF vars, TypeOK
  <2> QED BY <2>1, <2>3, <2>4, <2>5, <2>6, <2>7, <2>10, <2>11 DEF Next, User
<1> QED BY <1>1, <1>2, PTL DEF Spec

-----------------------------------------------------------------------------
(***************************************************************************)
(* The keyboard.                                                           *)
(***************************************************************************)

Gives(e, W) == e.type = "focus in" /\ e.win \in W

(* The events q give the keyboard to a toplevel in the end: no menu is     *)
(* given it last, nor keeps it from before, which focus tells.             *)
Returns(q, focus) ==
  /\ \A i \in 1 .. Len(q) :
       Gives(q[i], Menus) => \E j \in i + 1 .. Len(q) : Gives(q[j], Toplevels)
  /\ focus \in Menus => \E j \in 1 .. Len(q) : Gives(q[j], Toplevels)

(* KeyboardComesBack is inductive once it says what the events on their    *)
(* way will do.                                                            *)
KeyboardOK == WINDOWS \cap Menus = {} /\ ~stranded => Returns(bus, focus_window)

(* Appending. *)
LEMMA AppendFacts ==
  ASSUME NEW S, NEW q \in Seq(S), NEW e \in S
  PROVE  LET r == Append(q, e) IN
         /\ r \in Seq(S) /\ r = q \o <<e>>
         /\ Len(r) = Len(q) + 1 /\ r[Len(q) + 1] = e /\ Len(q) \in Nat
         /\ \A i \in 1 .. Len(q) : r[i] = q[i]
OBVIOUS

(* The keyboard is given to a toplevel last. *)
LEMMA ReturnsAfterToplevel ==
  ASSUME NEW q \in Seq(Events), NEW e \in Events, Gives(e, Toplevels), NEW focus
  PROVE  Returns(Append(q, e), focus)
<1> DEFINE r == Append(q, e)  n == Len(q) + 1
<1>1. Len(r) = n /\ r[n] = e /\ n \in Nat
  OBVIOUS
<1>2. ~Gives(e, Menus)
  BY WindowsAssumption DEF Gives
<1> HIDE DEF r
<1>3. ASSUME NEW i \in 1 .. n, Gives(r[i], Menus) PROVE n \in i + 1 .. n
  BY <1>1, <1>2, <1>3
<1> HIDE DEF n
<1> QED BY <1>1, <1>3 DEF Returns, r

(* An event that gives no menu anything. *)
LEMMA ReturnsAfterOther ==
  ASSUME NEW q \in Seq(Events), NEW e \in Events, ~Gives(e, Menus), NEW focus, Returns(q, focus)
  PROVE  Returns(Append(q, e), focus)
<1> DEFINE r == Append(q, e)
<1>1. /\ Len(r) = Len(q) + 1 /\ r[Len(q) + 1] = e /\ Len(q) \in Nat
      /\ \A i \in 1 .. Len(q) : r[i] = q[i]
  BY AppendFacts
<1> HIDE DEF r
<1>2. ASSUME NEW i \in 1 .. Len(r), Gives(r[i], Menus)
      PROVE  \E j \in i + 1 .. Len(r) : Gives(r[j], Toplevels)
  <2>1. i \in 1 .. Len(q)
    <3>1. r[i] # e
      BY <1>2
    <3> QED BY <1>1, <3>1
  <2>2. Gives(q[i], Menus)
    BY <1>1, <1>2, <2>1
  <2>3. PICK j \in i + 1 .. Len(q) : Gives(q[j], Toplevels)
    BY <2>1, <2>2 DEF Returns
  <2>4. j \in 1 .. Len(q) /\ j \in i + 1 .. Len(r)
    BY <1>1, <2>1, <2>3
  <2> QED BY <1>1, <2>3, <2>4
<1>3. ASSUME focus \in Menus PROVE \E j \in 1 .. Len(r) : Gives(r[j], Toplevels)
  <2>1. PICK j \in 1 .. Len(q) : Gives(q[j], Toplevels)
    BY <1>3 DEF Returns
  <2>2. j \in 1 .. Len(r)
    BY <1>1, <2>1
  <2> QED BY <1>1, <2>1, <2>2
<1> QED BY <1>2, <1>3 DEF Returns, r

(* The Wayland thread takes an event: a toplevel that is given the         *)
(* keyboard has it, and no menu gets it otherwise.                         *)
LEMMA ReturnsTail ==
  ASSUME NEW q \in Seq(Events), q # <<>>, NEW focus, NEW next, Returns(q, focus),
         Gives(Head(q), Toplevels) => next \notin Menus,
         next \in Menus => focus \in Menus \/ Gives(Head(q), Menus)
  PROVE  Returns(Tail(q), next)
<1> DEFINE r == Tail(q)
<1>1. Len(r) = Len(q) - 1 /\ q[1] = Head(q) /\ Len(q) \in Nat \ {0} /\ \A i \in 1 .. Len(r) : r[i] = q[i + 1]
  OBVIOUS
<1> HIDE DEF r
<1>2. ASSUME NEW j \in 2 .. Len(q), Gives(q[j], Toplevels)
      PROVE  j - 1 \in 1 .. Len(r) /\ Gives(r[j - 1], Toplevels)
  BY <1>1, <1>2
<1>3. ASSUME NEW i \in 1 .. Len(r), Gives(r[i], Menus)
      PROVE  \E j \in i + 1 .. Len(r) : Gives(r[j], Toplevels)
  <2>1. i + 1 \in 1 .. Len(q) /\ Gives(q[i + 1], Menus)
    BY <1>1, <1>3
  <2>2. PICK j \in i + 1 + 1 .. Len(q) : Gives(q[j], Toplevels)
    BY <2>1 DEF Returns
  <2>3. j \in 2 .. Len(q) /\ j - 1 \in i + 1 .. Len(r)
    BY <1>1, <2>2
  <2> QED BY <1>2, <2>2, <2>3
<1>4. ASSUME next \in Menus PROVE \E j \in 1 .. Len(r) : Gives(r[j], Toplevels)
  <2>1. ~Gives(q[1], Toplevels)
    BY <1>1, <1>4
  <2>2. PICK j \in 1 .. Len(q) : j # 1 /\ Gives(q[j], Toplevels)
    <3>1. CASE focus \in Menus
      BY <2>1, <3>1 DEF Returns
    <3>2. CASE Gives(q[1], Menus)
      <4>1. 1 \in 1 .. Len(q)
        BY <1>1
      <4>2. PICK j \in 1 + 1 .. Len(q) : Gives(q[j], Toplevels)
        BY <3>2, <4>1 DEF Returns
      <4>3. j \in 1 .. Len(q) /\ j # 1
        BY <1>1, <4>2
      <4> QED BY <4>2, <4>3
    <3> QED BY <1>1, <1>4, <3>1, <3>2
  <2>3. j \in 2 .. Len(q)
    BY <1>1, <2>2
  <2> QED BY <1>2, <2>2, <2>3
<1> QED BY <1>3, <1>4 DEF Returns, r

(* restore_focus_under_cursor with no menu left. *)
LEMMA RestoreFocusKeepsKeyboard ==
  ASSUME TypeOK, NEW ws \in SUBSET Toplevels, RestoreFocus(ws), ~stranded'
  PROVE  \A focus : Returns(bus', focus)
<1>1. PICK w \in ws : Push(<<Event("focus in", w)>>)
  BY DEF RestoreFocus
<1> DEFINE e == Event("focus in", w)
<1>2. e \in Events /\ Gives(e, Toplevels)
  BY EventType DEF Windows, Event, Gives
<1>3. bus' = bus \o <<e>>
  BY <1>1 DEF Push
<1>4. bus \in Seq(Events)
  BY DEF TypeOK
<1> HIDE DEF e
<1>5. bus' = Append(bus, e)
  BY <1>2, <1>3, <1>4
<1> QED BY <1>2, <1>4, <1>5, ReturnsAfterToplevel

(* Such an event is pushed. *)
LEMMA PushKeepsKeyboard ==
  ASSUME TypeOK, KeyboardOK, UNCHANGED <<WINDOWS, stranded, focus_window>>,
         NEW e \in Events, ~Gives(e, Menus), Push(<<e>>)
  PROVE  KeyboardOK'
<1>1. bus \in Seq(Events)
  BY DEF TypeOK
<1>2. bus' = Append(bus, e)
  <2>1. Append(bus, e) = bus \o <<e>>
    BY <1>1, AppendFacts
  <2> QED BY <2>1 DEF Push
<1> QED BY <1>1, <1>2, ReturnsAfterOther DEF KeyboardOK

(* Nothing is pushed or taken. *)
LEMMA QuietKeepsKeyboard ==
  ASSUME KeyboardOK, UNCHANGED <<WINDOWS, stranded, focus_window, bus>>
  PROVE  KeyboardOK'
BY DEF KeyboardOK

(* What AppKit tells of a deactivation gives the keyboard to nobody. *)
LEMMA ResignKeepsKeyboard ==
  ASSUME TypeOK, KeyboardOK, NEW t \in Toplevels, WindowDidResignKey(t)
  PROVE  KeyboardOK'
<1> DEFINE a == Event("deactivated", t)  b == Event("focus out", t)
<1>1. a \in Events /\ b \in Events
  BY EventType DEF Windows
<1>2. ~Gives(a, Menus) /\ ~Gives(b, Menus)
  BY DEF Gives, Event
<1>3. bus' = bus \o <<a, b>> /\ UNCHANGED <<WINDOWS, stranded, focus_window>> /\ bus \in Seq(Events)
  BY DEF WindowDidResignKey, Push, NoCommand, wayland, TypeOK
<1> HIDE DEF a, b
<1>4. bus' = Append(Append(bus, a), b)
  BY <1>1, <1>3
<1>5. Append(bus, a) \in Seq(Events)
  BY <1>1, <1>3
<1>6. ASSUME Returns(bus, focus_window) PROVE Returns(bus', focus_window)
  <2>1. Returns(Append(bus, a), focus_window)
    BY <1>1, <1>2, <1>3, <1>6, ReturnsAfterOther
  <2> QED BY <1>1, <1>2, <1>4, <1>5, <2>1, ReturnsAfterOther
<1> QED BY <1>3, <1>6 DEF KeyboardOK

(* A window that becomes key. *)
LEMMA BecomeKeyKeepsKeyboard ==
  ASSUME TypeOK, NEW t \in Toplevels, WindowDidBecomeKey(t)
  PROVE  KeyboardOK'
<1> DEFINE e == Event("focus in", t)
<1>1. e \in Events /\ Gives(e, Toplevels)
  BY EventType DEF Windows, Event, Gives
<1>2. bus' = bus \o <<e>> /\ bus \in Seq(Events)
  BY DEF WindowDidBecomeKey, Push, TypeOK
<1> HIDE DEF e
<1>3. bus' = Append(bus, e)
  BY <1>1, <1>2
<1> QED BY <1>1, <1>2, <1>3, ReturnsAfterToplevel DEF KeyboardOK

(* A button's event gives the keyboard to nobody, nor does a dismissal.    *)
LEMMA ButtonsKeepKeyboard ==
  ASSUME TypeOK, KeyboardOK, NEW b \in Buttons, MouseUp(b) \/ \E w \in Windows : MouseDown(w, b)
  PROVE  KeyboardOK'
<1>1. UNCHANGED <<WINDOWS, stranded, focus_window>>
  BY DEF MouseUp, MouseDown, NoCommand, wayland
<1>2. ASSUME NEW v \in Windows, NEW down \in BOOLEAN
      PROVE  /\ Button(v, b, down) \in Events /\ ~Gives(Button(v, b, down), Menus)
             /\ Event("dismiss", v) \in Events /\ ~Gives(Event("dismiss", v), Menus)
  <2>1. Button(v, b, down) \in Events /\ Event("dismiss", v) \in Events
    BY EventType
  <2>2. Button(v, b, down).type = "button" /\ Event("dismiss", v).type = "dismiss"
    BY DEF Button, Event
  <2> QED BY <2>1, <2>2 DEF Gives
<1>3. ASSUME NEW w \in Windows, MouseDown(w, b) PROVE KeyboardOK'
  <2>1. PICK v \in Windows : PressTo(v, b) \/ DismissMenu(v, b)
    BY <1>3, MouseDownType
  <2> QED BY <1>1, <1>2, <2>1, PushKeepsKeyboard DEF PressTo, DismissMenu
<1>4. ASSUME MouseUp(b) PROVE KeyboardOK'
  <2>1. \/ \E v \in Windows : ReleaseTo(v, b)
        \/ UNCHANGED bus
    <3>1. Grabbed # NoWin => Grabbed \in Windows
      BY GrabbedType DEF Windows
    <3> QED BY <1>4, <3>1 DEF MouseUp, Selects, TypeOK
  <2>2. ASSUME NEW v \in Windows, ReleaseTo(v, b) PROVE KeyboardOK'
    BY <1>1, <1>2, <2>2, PushKeepsKeyboard DEF ReleaseTo
  <2> QED BY <1>1, <2>1, <2>2, QuietKeepsKeyboard
<1> QED BY <1>3, <1>4

(* A command is handled; only the end of a grab or of a window matters. *)
LEMMA CommandsKeepKeyboard ==
  ASSUME TypeOK, KeyboardOK, NEW m \in Menus \cup {NoWin},
         HandleCreatePopup(m) \/ HandleSetGrab(m) \/ HandleDestroy(m)
  PROVE  KeyboardOK'
<1>1. UNCHANGED focus_window
  BY DEF HandleCreatePopup, HandleSetGrab, HandleDestroy, Handle, wayland
<1>2. SUFFICES ASSUME WINDOWS' \cap Menus = {}, ~stranded' PROVE Returns(bus', focus_window)
  BY <1>1 DEF KeyboardOK
<1>3. ASSUME WINDOWS \cap Menus = {}, NoRestore PROVE Returns(bus', focus_window)
  BY <1>2, <1>3 DEF KeyboardOK, NoRestore
<1>4. ASSUME NEW ws \in SUBSET Toplevels, RestoreFocus(ws) PROVE Returns(bus', focus_window)
  BY <1>2, <1>4, RestoreFocusKeepsKeyboard
<1>5. WINDOWS' \subseteq Toplevels
  <2>1. WINDOWS' \subseteq Windows \cup {m}
    BY DEF HandleCreatePopup, HandleSetGrab, HandleDestroy, CloseView, TypeOK
  <2>2. CASE HandleCreatePopup(m)
    <3>1. m \in WINDOWS' /\ m \in Menus
      BY <2>2, HandleMenu DEF HandleCreatePopup
    <3> QED BY <1>2, <3>1
  <2>3. CASE HandleSetGrab(m) \/ HandleDestroy(m)
    <3>1. WINDOWS' \subseteq Windows
      BY <2>3 DEF HandleSetGrab, HandleDestroy, CloseView, TypeOK
    <3> QED BY <1>2, <3>1 DEF Windows
  <2> QED BY <2>2, <2>3
<1>6. CASE HandleCreatePopup(m)
  <2>1. m \in Menus /\ m \in WINDOWS'
    BY <1>6, HandleMenu DEF HandleCreatePopup
  <2> QED BY <1>2, <2>1
<1>7. CASE HandleSetGrab(m)
  BY <1>2, <1>3, <1>4, <1>5, <1>7 DEF HandleSetGrab
<1>8. CASE HandleDestroy(m)
  <2>1. CASE RestoreFocus(WINDOWS')
    BY <1>4, <1>5, <2>1
  <2>2. CASE NoRestore /\ m \notin WINDOWS
    <3>1. WINDOWS' = WINDOWS
      BY <1>8, <2>2 DEF HandleDestroy, CloseView
    <3> QED BY <1>2, <1>3, <2>2, <3>1
  <2>3. RestoreFocus(WINDOWS') \/ (NoRestore /\ m \notin WINDOWS)
    BY <1>2, <1>8 DEF HandleDestroy
  <2> QED BY <2>1, <2>2, <2>3
<1> QED BY <1>6, <1>7, <1>8

(* The Wayland thread handles an event. *)
LEMMA InputKeepsKeyboard ==
  ASSUME TypeOK, KeyboardOK, NEW w \in Windows,
         PointerButton(w) \/ FocusIn(w) \/ FocusOut(w) \/ PopupDismiss(w) \/ AppDeactivated(w)
  PROVE  KeyboardOK'
<1> DEFINE e == Head(bus)
<1>1. /\ bus \in Seq(Events) /\ bus # <<>> /\ bus' = Tail(bus) /\ e.win = w
      /\ UNCHANGED <<WINDOWS, stranded>>
  BY DEF PointerButton, FocusIn, FocusOut, PopupDismiss, AppDeactivated, Take, TypeOK
<1>2. /\ Gives(e, Toplevels) => focus_window' \notin Menus
      /\ focus_window' \in Menus => focus_window \in Menus \/ Gives(e, Menus)
  <2>1. CASE FocusIn(w)
    <3>1. e.type = "focus in" /\ focus_window' = IF w \in Registered THEN w ELSE focus_window
      BY <2>1 DEF FocusIn, Take
    <3>2. w \in Toplevels => w \in Registered /\ w \notin Menus
      BY WindowsAssumption DEF Registered
    <3> QED BY <1>1, <3>1, <3>2 DEF Gives
  <2>2. CASE ~FocusIn(w)
    <3>1. ~Gives(e, Toplevels)
      BY <2>2 DEF PointerButton, FocusOut, PopupDismiss, AppDeactivated, Take, Gives
    <3>2. focus_window' \in {focus_window, NoWin} /\ NoWin \notin Menus
      BY <2>2, WindowsAssumption
      DEF PointerButton, FocusOut, PopupDismiss, AppDeactivated, Windows
    <3> QED BY <3>1, <3>2
  <2> QED BY <2>1, <2>2
<1> HIDE DEF e
<1>3. ASSUME Returns(bus, focus_window) PROVE Returns(Tail(bus), focus_window')
  BY <1>1, <1>2, <1>3, ReturnsTail DEF e
<1> QED BY <1>1, <1>3 DEF KeyboardOK

(* However many menus there were, in whatever order they were shown,       *)
(* hidden, grabbed for, dismissed and destroyed, and however far AppKit    *)
(* and the Wayland thread are apart: when no menu is left and the Wayland  *)
(* thread has caught up, no menu has the keyboard, unless the last one     *)
(* closed with no window under the cursor.                                 *)
THEOREM KeyboardCorrect == Spec => []KeyboardComesBack
<1>1. Init => KeyboardOK
  BY WindowsAssumption DEF Init, KeyboardOK, Returns, Windows
<1>2. TypeOK /\ KeyboardOK /\ [Next]_vars => KeyboardOK'
  <2> SUFFICES ASSUME TypeOK, KeyboardOK, [Next]_vars PROVE KeyboardOK'
    OBVIOUS
  <2>1. CASE Client
    <3>1. Request
      BY <2>1 DEF Client, GetPopup, Grab, Present, Unmap, ReapPopup
    <3> QED BY <3>1, QuietKeepsKeyboard DEF Request
  <2>2. CASE AppKit
    BY <2>2, CommandsKeepKeyboard DEF AppKit
  <2>3. CASE User
    <3>1. ASSUME NEW t \in Toplevels, WindowDidBecomeKey(t) \/ WindowDidResignKey(t) PROVE KeyboardOK'
      BY <3>1, BecomeKeyKeepsKeyboard, ResignKeepsKeyboard
    <3>2. ASSUME NEW p \in Places, MouseMove(p) PROVE KeyboardOK'
      BY <3>2, QuietKeepsKeyboard DEF MouseMove, NoCommand, wayland
    <3> QED BY <2>3, <3>1, <3>2, ButtonsKeepKeyboard DEF User
  <2>4. CASE Input
    BY <2>4, InputKeepsKeyboard DEF Input
  <2>5. CASE UNCHANGED vars
    BY <2>5, QuietKeepsKeyboard DEF vars, wayland
  <2> QED BY <2>1, <2>2, <2>3, <2>4, <2>5 DEF Next
<1>3. KeyboardOK => KeyboardComesBack
  <2> SUFFICES ASSUME KeyboardOK, bus = <<>>, WINDOWS \cap Menus = {}, focus_window \in Menus, ~stranded
               PROVE  FALSE
    BY DEF KeyboardComesBack, TypeOK
  <2> QED BY DEF KeyboardOK, Returns
<1> QED BY <1>1, <1>2, <1>3, TypeCorrect, PTL DEF Spec

-----------------------------------------------------------------------------
(***************************************************************************)
(* The buttons.                                                            *)
(***************************************************************************)

(* What a release goes by, for a button that was down alone: IMPLICIT_GRAB *)
(* is where its press went, and IMPLICIT_GRAB_ORIGIN is where the cursor   *)
(* still is unless it moved.                                               *)
ButtonsOK ==
  \A b \in Buttons \ chorded :
    held[b] # NoWin => /\ \A c \in Buttons : held[c] # NoWin => b = c
                       /\ IMPLICIT_GRAB = went[b]
                       /\ b \notin moved => IMPLICIT_GRAB_ORIGIN = cursor

(* A window goes: what was down stays down. *)
LEMMA DestroyKeepsButtons ==
  ASSUME TypeOK, ButtonsOK, NEW m, HandleDestroy(m)
  PROVE  ButtonsOK' /\ \A b \in Buttons : Answered(b)
<1>1. ASSUME NEW b \in Buttons PROVE held'[b] = NoWin <=> held[b] = NoWin
  <2>1. held'[b] = IF held[b] = m /\ m \in WINDOWS THEN NoView ELSE held[b]
    BY DEF HandleDestroy, CloseView
  <2>2. NoView # NoWin /\ NoWin \notin WINDOWS
    BY WindowsAssumption DEF NoView, NoWin, TypeOK
  <2> QED BY <2>1, <2>2
<1>2. UNCHANGED <<IMPLICIT_GRAB, IMPLICIT_GRAB_ORIGIN, went, moved, chorded, cursor>>
  BY DEF HandleDestroy, Handle, CloseView
<1>3. NoWin \notin WINDOWS
  BY WindowsAssumption DEF TypeOK
<1>4. ButtonsOK'
  BY <1>1, <1>2 DEF ButtonsOK
<1> QED BY <1>1, <1>3, <1>4 DEF Answered

(* A press: of a button that is down alone, or else it is a chord. *)
LEMMA MouseDownKeepsButtons ==
  ASSUME TypeOK, ButtonsOK, NEW w \in Windows, NEW b \in Buttons, MouseDown(w, b)
  PROVE  ButtonsOK'
<1>1. /\ held' = [held EXCEPT ![b] = w] /\ held \in [Buttons -> Windows \cup {NoWin, NoView}]
      /\ chorded' = IF Down = {} THEN chorded ELSE Down \cup {b}
      /\ IMPLICIT_GRAB_ORIGIN' = cursor /\ cursor' = cursor
      /\ went \in [Buttons -> Windows \cup {NoWin}]
  BY DEF MouseDown, TypeOK
<1>2. \A c \in Buttons : c # b => held'[c] = held[c]
  BY <1>1
<1>3. CASE Down = {}
  <2>1. \A c \in Buttons : held[c] = NoWin
    BY <1>3 DEF Down
  <2>2. PICK v \in Windows : PressTo(v, b) \/ DismissMenu(v, b)
    BY MouseDownType
  <2>3. IMPLICIT_GRAB' = went'[b]
    BY <1>1, <2>2 DEF PressTo, DismissMenu
  <2> QED BY <1>1, <1>2, <2>1, <2>3 DEF ButtonsOK
<1>4. CASE Down # {}
  <2>1. \A c \in Buttons : held'[c] # NoWin => c \in chorded'
    BY <1>1, <1>2, <1>4 DEF Down
  <2> QED BY <2>1 DEF ButtonsOK
<1> QED BY <1>3, <1>4

(* A release: no button is left that was down alone. *)
LEMMA MouseUpKeepsButtons ==
  ASSUME TypeOK, ButtonsOK, NEW b \in Buttons, MouseUp(b)
  PROVE  ButtonsOK'
<1>1. held[b] # NoWin /\ held' = [held EXCEPT ![b] = NoWin] /\ held \in [Buttons -> Windows \cup {NoWin, NoView}]
      /\ chorded' = chorded \ {b}
  BY DEF MouseUp, TypeOK
<1>2. ASSUME NEW c \in Buttons \ chorded', held'[c] # NoWin PROVE FALSE
  <2>1. c # b /\ c \in Buttons \ chorded /\ held[c] # NoWin
    BY <1>1, <1>2
  <2> QED BY <1>1, <2>1 DEF ButtonsOK
<1> QED BY <1>2 DEF ButtonsOK

(* Where a release goes. *)
LEMMA MouseUpAnswers ==
  ASSUME TypeOK, ButtonsOK, NEW b \in Buttons \ chorded, MouseUp(b)
  PROVE  Answered(b)
<1>1. held[b] # NoWin /\ IMPLICIT_GRAB = went[b] /\ (b \notin moved => IMPLICIT_GRAB_ORIGIN = cursor)
  BY DEF MouseUp, ButtonsOK
<1>2. SUFFICES ASSUME held[b] \in WINDOWS
               PROVE  \/ went[b] = NoWin /\ bus' = bus
                      \/ went[b] # NoWin /\ bus' = bus \o <<Button(went[b], b, FALSE)>>
                      \/ b \in moved /\ \E m \in Menus : bus' = bus \o <<Button(m, b, FALSE)>>
  BY DEF Answered
<1>3. CASE Selects /\ ReleaseTo(Grabbed, b)
  <2>1. Grabbed \in Menus /\ b \in moved
    BY <1>1, <1>3, GrabbedType DEF Selects, Dragged
  <2> QED BY <1>3, <2>1 DEF ReleaseTo, Push
<1>4. CASE IMPLICIT_GRAB # NoWin /\ ReleaseTo(IMPLICIT_GRAB, b)
  BY <1>1, <1>4 DEF ReleaseTo, Push
<1>5. CASE IMPLICIT_GRAB = NoWin /\ UNCHANGED bus
  BY <1>1, <1>5
<1> QED BY <1>2, <1>3, <1>4, <1>5 DEF MouseUp

(* A button that was down alone: while its window is there, its release    *)
(* goes where its press went or to a menu it was dragged into, and to      *)
(* nobody if the press went to nobody; whatever menus come and go          *)
(* meanwhile, whatever buttons were down before, and whatever presses are  *)
(* still without a release.                                                *)
THEOREM ReleasesCorrect == Spec => ReleasesFollowPresses
<1>1. Init => ButtonsOK
  BY DEF Init, ButtonsOK
<1>2. TypeOK /\ ButtonsOK /\ [Next]_vars => ButtonsOK' /\ \A b \in Buttons \ chorded : Answered(b)
  <2> SUFFICES ASSUME TypeOK, ButtonsOK, [Next]_vars
               PROVE  ButtonsOK' /\ \A b \in Buttons \ chorded : Answered(b)
    OBVIOUS
  <2>1. ASSUME UNCHANGED held PROVE \A b \in Buttons \ chorded : Answered(b)
    <3>1. NoWin \notin WINDOWS
      BY WindowsAssumption DEF TypeOK
    <3> QED BY <2>1, <3>1 DEF Answered
  <2>2. ASSUME UNCHANGED <<buttons, cursor>> PROVE ButtonsOK' /\ UNCHANGED held
    BY <2>2 DEF ButtonsOK, buttons
  <2>3. CASE Client
    <3>1. Request
      BY <2>3 DEF Client, GetPopup, Grab, Present, Unmap, ReapPopup
    <3> QED BY <2>1, <2>2, <3>1 DEF Request
  <2>4. CASE AppKit
    <3> PICK m \in Menus \cup {NoWin} : HandleCreatePopup(m) \/ HandleSetGrab(m) \/ HandleDestroy(m)
      BY <2>4 DEF AppKit
    <3>1. CASE HandleCreatePopup(m) \/ HandleSetGrab(m)
      BY <2>1, <2>2, <3>1 DEF HandleCreatePopup, HandleSetGrab, Handle
    <3>2. CASE HandleDestroy(m)
      BY <3>2, DestroyKeepsButtons
    <3> QED BY <3>1, <3>2
  <2>5. CASE User
    <3>1. ASSUME NEW t \in Toplevels, WindowDidBecomeKey(t) \/ WindowDidResignKey(t)
          PROVE  ButtonsOK' /\ UNCHANGED held
      BY <2>2, <3>1 DEF WindowDidBecomeKey, WindowDidResignKey
    <3>2. ASSUME NEW p \in Places, MouseMove(p) PROVE ButtonsOK' /\ UNCHANGED held
      BY <3>2 DEF MouseMove, ButtonsOK, Down
    <3>3. ASSUME NEW b \in Buttons, MouseUp(b)
          PROVE  ButtonsOK' /\ \A c \in Buttons \ chorded : Answered(c)
      <4>1. ASSUME NEW c \in Buttons \ chorded, c # b PROVE Answered(c)
        <5>1. held'[c] = held[c]
          BY <3>3, <4>1 DEF MouseUp, TypeOK
        <5> QED BY <5>1, WindowsAssumption DEF Answered, TypeOK
      <4> QED BY <3>3, <4>1, MouseUpKeepsButtons, MouseUpAnswers
    <3>4. ASSUME NEW b \in Buttons, NEW w \in Windows, MouseDown(w, b)
          PROVE  ButtonsOK' /\ \A c \in Buttons \ chorded : Answered(c)
      <4>1. \A c \in Buttons : held'[c] = held[c] \/ held'[c] = w
        BY <3>4 DEF MouseDown, TypeOK
      <4> QED BY <3>4, <4>1, MouseDownKeepsButtons, WindowsAssumption DEF Answered, TypeOK
    <3> QED BY <2>1, <2>5, <3>1, <3>2, <3>3, <3>4 DEF User
  <2>6. CASE Input
    <3>1. UNCHANGED <<buttons, cursor>>
      BY <2>6 DEF Input, PointerButton, FocusIn, FocusOut, PopupDismiss, AppDeactivated, Take
    <3> QED BY <2>1, <2>2, <3>1
  <2>7. CASE UNCHANGED vars
    BY <2>1, <2>2, <2>7 DEF vars
  <2> QED BY <2>3, <2>4, <2>5, <2>6, <2>7 DEF Next
<1> QED BY <1>1, <1>2, TypeCorrect, PTL DEF Spec, ReleasesFollowPresses
=============================================================================
