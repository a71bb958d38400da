----------------------- MODULE MultiplexRouter_proofs -----------------------
(***************************************************************************)
(* Proofs about MultiplexRouter, for any number of apps and windows, and   *)
(* any nesting of popups.                                                  *)
(***************************************************************************)
EXTENDS MultiplexRouter, CommandQueue_proofs

(* What a window's first commands are. *)
LEMMA FirstFrameType ==
  ASSUME NEW w \in Wins
  PROVE  FirstFrame(w) \in Seq(Commands(Wins))
<1>1. Cmd("Create", w) \in Commands(Wins) /\ Cmd("Frame", w) \in Commands(Wins)
  BY CmdType DEF CreateOps
<1> QED BY <1>1 DEF FirstFrame

(* Writes keep the types of the channels. *)
LEMMA WriteType ==
  ASSUME TypeOK, NEW app, NEW cmds \in Seq(Commands(Wins)), Write(app, cmds)
  PROVE  down' \in [Apps -> Seq(Commands(Wins))]
<1>1. \A a \in Apps : down[a] \in Seq(Commands(Wins)) /\ down[a] \o cmds \in Seq(Commands(Wins))
  BY DEF TypeOK
<1> QED BY <1>1 DEF Write

(* A broadcast does, too. *)
LEMMA BroadcastType ==
  ASSUME TypeOK, NEW c \in Commands(Wins), Broadcast(c)
  PROVE  down' \in [Apps -> Seq(Commands(Wins))]
<1>1. \A a \in Apps : down[a] \in Seq(Commands(Wins)) /\ Append(down[a], c) \in Seq(Commands(Wins))
  BY DEF TypeOK
<1> QED BY <1>1 DEF Broadcast

(* So does the end of a process. *)
LEMMA EndProcessType ==
  ASSUME TypeOK, NEW a \in Apps, NEW state \in {"none", "crashed"}, EndProcess(a, state)
  PROVE  /\ host' \in [Apps -> {"none", "up", "crashed"}]
         /\ down' \in [Apps -> Seq(Commands(Wins))]
         /\ insetsDown' \in [Apps -> Seq(Insets)]
         /\ WINDOWS' \in [Apps -> SUBSET Wins]
         /\ GRAB' \in [Apps -> Wins \cup {NoWin}]
         /\ reserved' \in [Apps -> Insets]
BY DEF TypeOK, EndProcess

(* The type invariant of router, channels and hosts. *)
THEOREM TypeCorrect == Spec => []TypeOK
<1>1. Init => TypeOK
  BY InsetsAssumption DEF Init, TypeOK
<1>2. TypeOK /\ [Next]_vars => TypeOK'
  <2> SUFFICES ASSUME TypeOK, [Next]_vars PROVE TypeOK'
    OBVIOUS
  <2> USE ClientsAssumption DEF records, processes
  <2>1. Toplevels \subseteq Wins /\ Popups \subseteq Wins
    BY DEF Wins
  <2>2. ASSUME NEW w \in Wins
        PROVE  /\ \A op \in CreateOps \cup {"Frame", "Destroy"} : <<Cmd(op, w)>> \in Seq(Commands(Wins))
               /\ <<Cmd("SetGrab", w)>> \in Seq(Commands(Wins))
    <3>1. /\ \A op \in CreateOps \cup {"Frame", "Destroy"} : Cmd(op, w) \in Commands(Wins)
          /\ Cmd("SetGrab", w) \in Commands(Wins)
      BY CmdType
    <3> QED BY <3>1
  <2>3. ASSUME NEW w \in Toplevels, PresentInHost(w) PROVE TypeOK'
    <3>1. down' \in [Apps -> Seq(Commands(Wins))]
      BY <2>1, <2>3, FirstFrameType, WriteType DEF PresentInHost
    <3> QED BY <2>1, <2>3, <3>1 DEF PresentInHost, Present, TypeOK
  <2>4. ASSUME NEW w \in Toplevels, PresentInNewHost(w) PROVE TypeOK'
    <3>1. down' \in [Apps -> Seq(Commands(Wins))]
      BY <2>1, <2>4, FirstFrameType DEF PresentInNewHost, TypeOK
    <3> QED BY <2>1, <2>4, <3>1 DEF PresentInNewHost, Present, TypeOK
  <2>5. ASSUME NEW w \in Toplevels, PresentUnhosted(w) PROVE TypeOK'
    BY <2>1, <2>5 DEF PresentUnhosted, Present, TypeOK
  <2>6. ASSUME NEW p \in Popups, PresentPopup(p) PROVE TypeOK'
    <3>1. <<Cmd("CreatePopup", p), Cmd("Frame", p)>> \in Seq(Commands(Wins))
      <4>1. Cmd("CreatePopup", p) \in Commands(Wins) /\ Cmd("Frame", p) \in Commands(Wins)
        BY <2>1, CmdType DEF CreateOps
      <4> QED BY <4>1
    <3>2. down' \in [Apps -> Seq(Commands(Wins))]
      BY <2>1, <2>2, <2>6, <3>1, WriteType DEF PresentPopup
    <3>3. win_to_app[ParentOf[p]] \in Apps \cup {NoApp}
      BY DEF TypeOK
    <3> QED BY <2>1, <2>6, <3>2, <3>3 DEF PresentPopup, TypeOK
  <2>7. ASSUME NEW p \in Popups, Grab(p) PROVE TypeOK'
    <3>1. down' \in [Apps -> Seq(Commands(Wins))]
      BY <2>1, <2>2, <2>7, WriteType DEF Grab
    <3> QED BY <2>1, <2>7, <3>1 DEF Grab, TypeOK
  <2>8. ASSUME NEW w \in Wins, PresentAgain(w) PROVE TypeOK'
    <3>1. down' \in [Apps -> Seq(Commands(Wins))]
      BY <2>2, <2>8, WriteType DEF PresentAgain
    <3> QED BY <2>8, <3>1 DEF PresentAgain, TypeOK
  <2>9. ASSUME NEW w \in Wins, CloseWindow(w) PROVE TypeOK'
    <3>1. down' \in [Apps -> Seq(Commands(Wins))]
      BY <2>2, <2>9, WriteType DEF CloseWindow
    <3> QED BY <2>9, <3>1 DEF CloseWindow, Close, Spend, TypeOK
  <2>10. ASSUME NEW w \in Wins, CloseLastWindow(w) PROVE TypeOK'
    <3>1. win_to_app[w] \in Apps
      BY <2>10 DEF CloseLastWindow, TypeOK
    <3> QED BY <2>10, <3>1, EndProcessType DEF CloseLastWindow, Close, Spend, TypeOK
  <2>11. CASE DismissPopup
    <3>1. Cmd("SetGrab", NoWin) \in Commands(Wins)
      BY CmdType
    <3>2. down' \in [Apps -> Seq(Commands(Wins))]
      BY <2>11, <3>1, BroadcastType DEF DismissPopup
    <3> QED BY <2>11, <3>2 DEF DismissPopup, TypeOK
  <2>12. ASSUME NEW v \in Insets, RecomputeReserved(v) PROVE TypeOK'
    <3>1. \A a \in Apps : insetsDown[a] \in Seq(Insets) /\ Append(insetsDown[a], v) \in Seq(Insets)
      BY DEF TypeOK
    <3> QED BY <2>12, <3>1 DEF RecomputeReserved, TypeOK
  <2>13. ASSUME NEW a \in Apps, HandleCmd(a) PROVE TypeOK'
    <3> DEFINE c == Head(down[a])
    <3>1. c \in Commands(Wins) /\ Tail(down[a]) \in Seq(Commands(Wins))
      BY <2>13 DEF HandleCmd, TypeOK
    <3>2. c.win \in Wins \cup {NoWin} /\ (c.op \in CreateOps => c.win \in Wins)
      BY <3>1 DEF Commands, CreateOps
    <3>3. WINDOWS' \in [Apps -> SUBSET Wins] /\ GRAB' \in [Apps -> Wins \cup {NoWin}]
      <4>1. \/ c.op \in CreateOps /\ WINDOWS' = [WINDOWS EXCEPT ![a] = @ \cup {c.win}] /\ GRAB' = GRAB
            \/ WINDOWS' = WINDOWS /\ GRAB' = GRAB
            \/ WINDOWS' = WINDOWS /\ GRAB' = [GRAB EXCEPT ![a] = c.win]
            \/ /\ WINDOWS' = [WINDOWS EXCEPT ![a] = @ \ {c.win}]
               /\ GRAB' = [GRAB EXCEPT ![a] = IF @ = c.win THEN NoWin ELSE @]
        BY <2>13 DEF HandleCmd
      <4>2. WINDOWS \in [Apps -> SUBSET Wins] /\ GRAB \in [Apps -> Wins \cup {NoWin}]
        BY DEF TypeOK
      <4> HIDE DEF c
      <4>3. WINDOWS' \in [Apps -> SUBSET Wins]
        BY <3>2, <4>1, <4>2
      <4>4. GRAB' \in [Apps -> Wins \cup {NoWin}]
        <5>1. (IF GRAB[a] = c.win THEN NoWin ELSE GRAB[a]) \in Wins \cup {NoWin}
          BY <4>2
        <5>2. \/ GRAB' = GRAB
              \/ GRAB' = [GRAB EXCEPT ![a] = c.win]
              \/ GRAB' = [GRAB EXCEPT ![a] = IF GRAB[a] = c.win THEN NoWin ELSE GRAB[a]]
          BY <4>1
        <5> QED BY <3>2, <4>2, <5>1, <5>2
      <4> QED BY <4>3, <4>4
    <3> HIDE DEF c
    <3> QED BY <2>13, <3>1, <3>3 DEF HandleCmd, TypeOK
  <2>14. ASSUME NEW a \in Apps, ReadInsets(a) PROVE TypeOK'
    <3>1. Head(insetsDown[a]) \in Insets /\ Tail(insetsDown[a]) \in Seq(Insets)
      BY <2>14 DEF ReadInsets, TypeOK
    <3> QED BY <2>14, <3>1 DEF ReadInsets, TypeOK
  <2>15. ASSUME NEW a \in Apps, Crash(a) PROVE TypeOK'
    BY <2>15, EndProcessType DEF Crash, TypeOK
  <2>16. CASE UNCHANGED vars
    BY <2>16 DEF vars, TypeOK
  <2> QED
    BY <2>3, <2>4, <2>5, <2>6, <2>7, <2>8, <2>9, <2>10, <2>11, <2>12, <2>13, <2>14, <2>15, <2>16
    DEF Next, Compositor, Host
<1> QED BY <1>1, <1>2, PTL DEF Spec

-----------------------------------------------------------------------------
(***************************************************************************)
(* Registrations.  The two properties are inductive together: only windows *)
(* that are created are registered, so that a new window's registration    *)
(* takes none from another app.                                            *)
(***************************************************************************)

RegistrationsOK == HelpersHaveWindows /\ WindowsInTheirApp

(* A window is registered that was not. *)
LEMMA RegisterKeepsRegistrations ==
  ASSUME TypeOK, RegistrationsOK, NEW w \in Wins, w \notin created, NEW a \in Apps, a = AppOf[w],
         win_to_app' = [win_to_app EXCEPT ![w] = a], created' = created \cup {w},
         host' = [host EXCEPT ![a] = host'[a]], host'[a] # "none"
  PROVE  RegistrationsOK'
<1>1. win_to_app[w] = NoApp
  BY DEF RegistrationsOK, WindowsInTheirApp
<1>2. \A b \in Apps : Of(b)' = IF b = a THEN Of(b) \cup {w} ELSE Of(b)
  BY <1>1, AppsAssumption DEF Of, TypeOK
<1>3. \A b \in Apps : host'[b] = "none" <=> Of(b)' = {}
  <2> SUFFICES ASSUME NEW b \in Apps PROVE host'[b] = "none" <=> Of(b)' = {}
    OBVIOUS
  <2>1. CASE b = a
    BY <1>2, <2>1
  <2>2. CASE b # a
    <3>1. host'[b] = host[b]
      BY <2>2 DEF TypeOK
    <3> QED BY <1>2, <2>2, <3>1 DEF RegistrationsOK, HelpersHaveWindows
  <2> QED BY <2>1, <2>2
<1>4. WindowsInTheirApp'
  BY DEF RegistrationsOK, WindowsInTheirApp, TypeOK
<1> QED BY <1>3, <1>4 DEF RegistrationsOK, HelpersHaveWindows

(* What closing a window does to the windows of each app. *)
LEMMA CloseOf ==
  ASSUME TypeOK, NEW w \in Wins, Close(w)
  PROVE  \A a \in Apps : Of(a)' = Of(a) \ {w}
BY AppsAssumption DEF Close, Of, TypeOK

(* What presenting a popup does to them. *)
LEMMA PopupOf ==
  ASSUME TypeOK, RegistrationsOK, NEW p \in Popups, PresentPopup(p)
  PROVE  LET app == win_to_app[ParentOf[p]] IN
         /\ win_to_app[p] = NoApp /\ \A a \in Apps : p \notin Of(a)
         /\ app # NoApp => /\ app \in Apps /\ app = AppOf[p] /\ host[app] # "none"
                           /\ \A a \in Apps : Of(a)' = IF a = app THEN Of(a) \cup {p} ELSE Of(a)
         /\ app = NoApp => \A a \in Apps : Of(a)' = Of(a)
<1> DEFINE app == win_to_app[ParentOf[p]]
<1>1. p \in Wins /\ ParentOf[p] \in Wins /\ AppOf[p] = AppOf[ParentOf[p]] /\ p \notin created
  BY ClientsAssumption DEF PresentPopup, Wins
<1>2. win_to_app[p] = NoApp
  BY <1>1 DEF RegistrationsOK, WindowsInTheirApp
<1>3. \A a \in Apps : p \notin Of(a)
  BY <1>2, AppsAssumption DEF Of
<1>4. ASSUME app # NoApp
      PROVE  /\ app \in Apps /\ app = AppOf[p] /\ host[app] # "none"
             /\ \A a \in Apps : Of(a)' = IF a = app THEN Of(a) \cup {p} ELSE Of(a)
  <2>1. app \in Apps /\ app = AppOf[p]
    BY <1>1, <1>4 DEF RegistrationsOK, WindowsInTheirApp, TypeOK
  <2>2. ParentOf[p] \in Of(app)
    BY <1>1 DEF Of
  <2>3. host[app] # "none"
    BY <2>1, <2>2 DEF RegistrationsOK, HelpersHaveWindows
  <2>4. win_to_app' = [win_to_app EXCEPT ![p] = app]
    BY <1>4 DEF PresentPopup
  <2>5. \A a \in Apps : Of(a)' = IF a = app THEN Of(a) \cup {p} ELSE Of(a)
    BY <1>1, <1>3, <2>4 DEF Of, TypeOK
  <2> QED BY <2>1, <2>3, <2>5
<1>5. ASSUME app = NoApp PROVE \A a \in Apps : Of(a)' = Of(a)
  BY <1>5 DEF PresentPopup, Of
<1> QED BY <1>2, <1>3, <1>4, <1>5

(* The two properties hold throughout. *)
LEMMA RegistrationsInvariant == Spec => []RegistrationsOK
<1>1. Init => RegistrationsOK
  BY AppsAssumption DEF Init, RegistrationsOK, HelpersHaveWindows, WindowsInTheirApp, Of
<1>2. TypeOK /\ RegistrationsOK /\ [Next]_vars => RegistrationsOK'
  <2> SUFFICES ASSUME TypeOK, RegistrationsOK, [Next]_vars PROVE RegistrationsOK'
    OBVIOUS
  <2> Toplevels \subseteq Wins /\ Popups \subseteq Wins
    BY DEF Wins
  <2>1. ASSUME UNCHANGED win_to_app, created \subseteq created',
               \A a \in Apps : host'[a] = "none" <=> host[a] = "none"
        PROVE  RegistrationsOK'
    BY <2>1 DEF RegistrationsOK, HelpersHaveWindows, WindowsInTheirApp, Of
  <2>2. ASSUME NEW w \in Toplevels, PresentInHost(w) \/ PresentInNewHost(w) PROVE RegistrationsOK'
    <3>1. AppOf[w] \in Apps /\ w \notin created
      BY <2>2, ClientsAssumption DEF PresentInHost, PresentInNewHost, Present
    <3>2. host' = [host EXCEPT ![AppOf[w]] = host'[AppOf[w]]] /\ host'[AppOf[w]] # "none"
      BY <2>2, <3>1 DEF PresentInHost, PresentInNewHost, processes, TypeOK
    <3> QED
      BY <2>2, <3>1, <3>2, RegisterKeepsRegistrations DEF PresentInHost, PresentInNewHost, Present
  <2>3. ASSUME NEW w \in Toplevels, PresentUnhosted(w) PROVE RegistrationsOK'
    BY <2>1, <2>3 DEF PresentUnhosted, Present, processes
  <2>4. ASSUME NEW p \in Popups, PresentPopup(p) PROVE RegistrationsOK'
    <3> DEFINE app == win_to_app[ParentOf[p]]
    <3>1. p \notin created /\ created' = created \cup {p} /\ host' = host
      BY <2>4 DEF PresentPopup, processes
    <3>2. CASE app # NoApp
      <4>1. app \in Apps /\ app = AppOf[p] /\ host[app] # "none"
        BY <2>4, <3>2, PopupOf
      <4>2. win_to_app' = [win_to_app EXCEPT ![p] = app]
        BY <2>4, <3>2 DEF PresentPopup
      <4>3. host' = [host EXCEPT ![app] = host'[app]]
        BY <3>1, <4>1 DEF TypeOK
      <4> HIDE DEF app
      <4> QED BY <3>1, <4>1, <4>2, <4>3, RegisterKeepsRegistrations
    <3>3. CASE app = NoApp
      BY <2>1, <2>4, <3>1, <3>3 DEF PresentPopup
    <3> QED BY <3>2, <3>3
  <2>5. ASSUME NEW w \in Wins, CloseWindow(w) PROVE RegistrationsOK'
    <3>1. \A a \in Apps : Of(a)' = Of(a) \ {w}
      BY <2>5, CloseOf DEF CloseWindow
    <3>2. host' = host
      BY <2>5 DEF CloseWindow, processes
    <3>3. \A a \in Apps : Of(a) # {} => Of(a) # {w}
      <4>1. \A a \in Apps : w \in Of(a) => a = win_to_app[w] /\ a # NoApp
        BY AppsAssumption DEF Of
      <4> QED BY <2>5, <4>1 DEF CloseWindow
    <3>4. HelpersHaveWindows'
      <4> SUFFICES ASSUME NEW a \in Apps PROVE host'[a] = "none" <=> Of(a)' = {}
        BY DEF HelpersHaveWindows
      <4> QED BY <3>1, <3>2, <3>3 DEF RegistrationsOK, HelpersHaveWindows
    <3>5. WindowsInTheirApp'
      BY <2>5 DEF CloseWindow, Close, RegistrationsOK, WindowsInTheirApp, TypeOK
    <3> QED BY <3>4, <3>5 DEF RegistrationsOK
  <2>6. ASSUME NEW w \in Wins, CloseLastWindow(w) PROVE RegistrationsOK'
    <3> DEFINE b == win_to_app[w]
    <3>1. b \in Apps /\ Of(b) = {w}
      BY <2>6 DEF CloseLastWindow, TypeOK
    <3>2. \A a \in Apps : Of(a)' = Of(a) \ {w}
      BY <2>6, CloseOf DEF CloseLastWindow
    <3>3. host' = [host EXCEPT ![b] = "none"]
      BY <2>6 DEF CloseLastWindow, EndProcess
    <3>4. \A a \in Apps : a # b => w \notin Of(a)
      BY DEF Of
    <3>5. HelpersHaveWindows'
      <4> SUFFICES ASSUME NEW a \in Apps PROVE host'[a] = "none" <=> Of(a)' = {}
        BY DEF HelpersHaveWindows
      <4>1. CASE a = b
        BY <3>1, <3>2, <3>3, <4>1 DEF TypeOK
      <4>2. CASE a # b
        BY <3>1, <3>2, <3>3, <3>4, <4>2 DEF TypeOK, RegistrationsOK, HelpersHaveWindows
      <4> QED BY <4>1, <4>2
    <3>6. WindowsInTheirApp'
      BY <2>6 DEF CloseLastWindow, Close, RegistrationsOK, WindowsInTheirApp, TypeOK
    <3> QED BY <3>5, <3>6 DEF RegistrationsOK
  <2>7. ASSUME NEW p \in Popups, Grab(p) PROVE RegistrationsOK'
    BY <2>1, <2>7 DEF Grab, records, processes
  <2>8. ASSUME NEW w \in Wins, PresentAgain(w) PROVE RegistrationsOK'
    BY <2>1, <2>8 DEF PresentAgain, records, processes
  <2>9. CASE DismissPopup
    BY <2>1, <2>9 DEF DismissPopup, records, processes
  <2>10. ASSUME NEW v \in Insets, RecomputeReserved(v) PROVE RegistrationsOK'
    BY <2>1, <2>10 DEF RecomputeReserved, records, processes
  <2>11. ASSUME NEW a \in Apps, HandleCmd(a) \/ ReadInsets(a)
         PROVE  RegistrationsOK'
    BY <2>1, <2>11 DEF HandleCmd, ReadInsets, records
  <2>12. ASSUME NEW a \in Apps, Crash(a) PROVE RegistrationsOK'
    <3>1. \A b \in Apps : host'[b] = "none" <=> host[b] = "none"
      BY <2>12 DEF Crash, EndProcess, TypeOK
    <3> QED BY <2>1, <2>12, <3>1 DEF Crash, records
  <2>13. CASE UNCHANGED vars
    BY <2>1, <2>13 DEF vars, records, processes
  <2> QED
    BY <2>2, <2>3, <2>4, <2>5, <2>6, <2>7, <2>8, <2>9, <2>10, <2>11, <2>12, <2>13
    DEF Next, Compositor, Host
<1> QED BY <1>1, <1>2, TypeCorrect, PTL DEF Spec

(* An app has a helper as long as a window is registered for it. *)
THEOREM HelpersCorrect == Spec => []HelpersHaveWindows
<1>1. RegistrationsOK => HelpersHaveWindows
  BY DEF RegistrationsOK
<1> QED BY <1>1, RegistrationsInvariant, PTL

(* Windows are registered with the app of their client. *)
THEOREM WindowsInTheirAppCorrect == Spec => []WindowsInTheirApp
<1>1. RegistrationsOK => WindowsInTheirApp
  BY DEF RegistrationsOK
<1> QED BY <1>1, RegistrationsInvariant, PTL

-----------------------------------------------------------------------------
(***************************************************************************)
(* Hosts.  What is on its way to a host serves the windows C registered    *)
(* for it: it leads the screen to C, leaves the grab to popups of C, and   *)
(* gives it to none that is not there.                                     *)
(***************************************************************************)

Serves(q, W, G, C) ==
  /\ q \in Seq(Commands(Wins))
  /\ Leads(Wins, q, W, C) /\ Held(Wins, q, G, C, Popups) /\ Anchored(Wins, q, W, G)

(* Nothing serves nobody. *)
LEMMA ServesNothing == Serves(<<>>, {}, NoWin, {})
BY DEF Serves, Leads, Shown, Fits, Held, Anchored

(* A frame for a registered window. *)
LEMMA ServesFrame ==
  ASSUME NEW q, NEW W, NEW G, NEW C, Serves(q, W, G, C), NEW w \in Wins, w \in C
  PROVE  Serves(Append(q, Cmd("Frame", w)), W, G, C)
<1>1. Cmd("Frame", w) \in Commands(Wins) /\ q \in Seq(Commands(Wins))
  BY CmdType DEF Serves
<1>2. Append(q, Cmd("Frame", w)) \in Seq(Commands(Wins))
  BY <1>1
<1>3. Leads(Wins, Append(q, Cmd("Frame", w)), W, C)
  BY LeadsFrame DEF Serves
<1>4. Held(Wins, Append(q, Cmd("Frame", w)), G, C, Popups)
  BY HeldPlainAppend DEF Serves
<1>5. Anchored(Wins, Append(q, Cmd("Frame", w)), W, G)
  BY AnchoredPlainAppend DEF Serves
<1> QED BY <1>2, <1>3, <1>4, <1>5 DEF Serves

(* The first commands of a window that is registered with them. *)
LEMMA ServesFirstFrame ==
  ASSUME NEW q, NEW W, NEW G, NEW C, Serves(q, W, G, C),
         NEW w \in Wins, w \notin C, NEW op \in CreateOps
  PROVE  Serves(q \o <<Cmd(op, w), Cmd("Frame", w)>>, W, G, C \cup {w})
<1> DEFINE a == Cmd(op, w)
           b == Cmd("Frame", w)
<1>1. a \in Commands(Wins) /\ q \in Seq(Commands(Wins)) /\ b \in Commands(Wins)
  BY CmdType DEF Serves
<1>2. Leads(Wins, Append(q, a), W, C \cup {w})
  BY LeadsCreate DEF Serves
<1>3. Held(Wins, Append(q, a), G, C, Popups)
  BY HeldPlainAppend DEF Serves
<1>4. Held(Wins, Append(q, a), G, C \cup {w}, Popups)
  BY <1>3, HeldRecords
<1>5. Anchored(Wins, Append(q, a), W, G)
  BY AnchoredPlainAppend DEF Serves
<1> HIDE DEF a
<1>6. Serves(Append(q, a), W, G, C \cup {w})
  BY <1>1, <1>2, <1>4, <1>5 DEF Serves
<1>7. Serves(Append(Append(q, a), b), W, G, C \cup {w})
  BY <1>6, ServesFrame
<1> HIDE DEF b
<1>8. q \o <<a, b>> = Append(Append(q, a), b)
  BY <1>1
<1> QED BY <1>7, <1>8 DEF a, b

(* The Destroy of a window whose registration goes. *)
LEMMA ServesDestroy ==
  ASSUME NEW q, NEW W, NEW G, NEW C, Serves(q, W, G, C), NEW w \in Wins
  PROVE  Serves(Append(q, Cmd("Destroy", w)), W, G, C \ {w})
<1> DEFINE c == Cmd("Destroy", w)
<1>1. c \in Commands(Wins) /\ q \in Seq(Commands(Wins))
  BY CmdType DEF Serves
<1>2. Append(q, c) \in Seq(Commands(Wins))
  BY <1>1
<1>3. Leads(Wins, Append(q, c), W, C \ {w})
  BY LeadsDestroy DEF Serves
<1>4. c.op = "Destroy" /\ c.win = w
  BY DEF Cmd
<1> HIDE DEF c
<1>5. /\ \A v \in Wins : ~Grabs(c, v)
      /\ \A v \in C \cap Popups : v \in C \ {w} \/ Destroys(c, v)
  BY <1>4 DEF Grabs, Destroys
<1>6. Held(Wins, Append(q, c), G, C \ {w}, Popups)
  BY <1>1, <1>5, HeldAppend DEF Serves
<1>7. Anchored(Wins, Append(q, c), W, G)
  BY <1>1, <1>5, AnchoredAppend DEF Serves
<1> QED BY <1>2, <1>3, <1>6, <1>7 DEF Serves, c

(* A grab of a registered popup, or of none. *)
LEMMA ServesSetGrab ==
  ASSUME NEW q, NEW W, NEW G, NEW C, Serves(q, W, G, C), NEW w \in (C \cap Popups) \cup {NoWin}
  PROVE  Serves(Append(q, Cmd("SetGrab", w)), W, G, C)
<1> DEFINE c == Cmd("SetGrab", w)
<1>0. w \in Wins \cup {NoWin}
  BY DEF Wins
<1>1. c \in Commands(Wins) /\ q \in Seq(Commands(Wins))
  BY <1>0, CmdType DEF Serves
<1>2. Append(q, c) \in Seq(Commands(Wins))
  BY <1>1
<1>3. Leads(Wins, Append(q, c), W, C)
  BY <1>0, LeadsSetGrab DEF Serves
<1>4. c.op = "SetGrab" /\ c.win = w
  BY DEF Cmd
<1> HIDE DEF c
<1>5. \A v \in Wins : Grabs(c, v) => v \in C \cap Popups
  BY <1>4, WinsAssumption DEF Grabs
<1>6. Held(Wins, Append(q, c), G, C, Popups)
  BY <1>1, <1>5, HeldAppend DEF Serves
<1>7. \A v \in Wins : Grabs(c, v) => Shown(q, W, v, Len(q))
  BY <1>5 DEF Serves, Leads
<1>8. Anchored(Wins, Append(q, c), W, G)
  BY <1>1, <1>7, AnchoredAppend DEF Serves
<1> QED BY <1>2, <1>3, <1>6, <1>8 DEF Serves, c

(* The host handles a command. *)
LEMMA ServesTail ==
  ASSUME NEW q, q # <<>>, NEW W, NEW V, NEW G \in Wins \cup {NoWin}, NEW H, NEW C, Serves(q, W, G, C),
         \A w \in Wins : w \in V <=> Creates(Head(q), w) \/ (w \in W /\ ~Destroys(Head(q), w)),
         H = IF Head(q).op = "SetGrab" THEN Head(q).win
             ELSE IF Destroys(Head(q), G) THEN NoWin ELSE G
  PROVE  Serves(Tail(q), V, H, C)
<1>1. q \in Seq(Commands(Wins)) /\ Tail(q) \in Seq(Commands(Wins))
  BY DEF Serves
<1>2. Leads(Wins, Tail(q), V, C)
  BY <1>1, LeadsTail DEF Serves
<1>3. Held(Wins, Tail(q), H, C, Popups)
  BY <1>1, HeldTail DEF Serves
<1>4. Anchored(Wins, Tail(q), V, H)
  BY <1>1, AnchoredTail DEF Serves
<1> QED BY <1>1, <1>2, <1>3, <1>4 DEF Serves

(* Hosts that are up are served, the others have nothing. *)
HostOK(a) ==
  /\ host[a] = "up" => Serves(down[a], WINDOWS[a], GRAB[a], Of(a))
  /\ host[a] # "up" => /\ down[a] = <<>> /\ insetsDown[a] = <<>>
                       /\ WINDOWS[a] = {} /\ GRAB[a] = NoWin

HostsOK == \A a \in Apps : HostOK(a)

(* What each action has to show of the commands it writes. *)
LEMMA WriteKeepsHosts ==
  ASSUME TypeOK, HostsOK, NEW app, NEW cmds, Write(app, cmds), UNCHANGED <<insetsDown, processes>>,
         \A a \in Apps : a # app => Of(a)' = Of(a),
         app \in Apps /\ host[app] = "up" =>
           Serves(down[app] \o cmds, WINDOWS[app], GRAB[app], Of(app)')
  PROVE  HostsOK'
<1> SUFFICES ASSUME NEW a \in Apps PROVE HostOK(a)'
  BY DEF HostsOK
<1>1. HostOK(a)
  BY DEF HostsOK
<1>2. down'[a] = IF a = app /\ host[a] = "up" THEN down[a] \o cmds ELSE down[a]
  BY DEF Write
<1>3. host'[a] = host[a] /\ WINDOWS'[a] = WINDOWS[a] /\ GRAB'[a] = GRAB[a] /\ insetsDown'[a] = insetsDown[a]
  BY DEF processes
<1>4. CASE a = app /\ host[a] = "up"
  BY <1>2, <1>3, <1>4 DEF HostOK
<1>5. CASE a = app /\ host[a] # "up"
  BY <1>1, <1>2, <1>3, <1>5 DEF HostOK
<1>6. CASE a # app
  <2>1. Of(a)' = Of(a) /\ down'[a] = down[a]
    BY <1>2, <1>6
  <2> QED BY <1>1, <1>3, <2>1 DEF HostOK
<1> QED BY <1>4, <1>5, <1>6

(* One command written is one appended. *)
LEMMA WriteOne ==
  ASSUME TypeOK, NEW a \in Apps, NEW c
  PROVE  down[a] \o <<c>> = Append(down[a], c)
BY DEF TypeOK

(* The end of a process whose windows are the only ones to change. *)
LEMMA EndProcessKeepsHosts ==
  ASSUME TypeOK, HostsOK, NEW b \in Apps, NEW state \in {"none", "crashed"}, EndProcess(b, state),
         \A a \in Apps : a # b => Of(a)' = Of(a)
  PROVE  HostsOK'
<1> SUFFICES ASSUME NEW a \in Apps PROVE HostOK(a)'
  BY DEF HostsOK
<1>1. HostOK(a)
  BY DEF HostsOK
<1>2. CASE a = b
  BY <1>2 DEF HostOK, EndProcess, TypeOK
<1>3. CASE a # b
  <2>1. /\ host'[a] = host[a] /\ WINDOWS'[a] = WINDOWS[a] /\ GRAB'[a] = GRAB[a]
        /\ insetsDown'[a] = insetsDown[a] /\ down'[a] = down[a] /\ Of(a)' = Of(a)
    BY <1>3 DEF EndProcess, TypeOK
  <2> QED BY <1>1, <2>1 DEF HostOK
<1> QED BY <1>2, <1>3

(* A window of Toplevels is registered for its app alone. *)
LEMMA PresentOf ==
  ASSUME TypeOK, RegistrationsOK, NEW w \in Toplevels, Present(w),
         win_to_app' = [win_to_app EXCEPT ![w] = AppOf[w]]
  PROVE  /\ AppOf[w] \in Apps /\ w \in Wins /\ \A a \in Apps : w \notin Of(a)
         /\ \A a \in Apps : Of(a)' = IF a = AppOf[w] THEN Of(a) \cup {w} ELSE Of(a)
<1>1. w \in Wins /\ AppOf[w] \in Apps /\ w \notin created
  BY ClientsAssumption DEF Present, Wins
<1>2. win_to_app[w] = NoApp
  BY <1>1 DEF RegistrationsOK, WindowsInTheirApp
<1>3. \A a \in Apps : w \notin Of(a)
  BY <1>2, AppsAssumption DEF Of
<1>4. \A a \in Apps : Of(a)' = IF a = AppOf[w] THEN Of(a) \cup {w} ELSE Of(a)
  BY <1>1, <1>3 DEF Of, TypeOK
<1> QED BY <1>1, <1>3, <1>4

(* The first window of an app meets a new host. *)
LEMMA NewHostServed ==
  ASSUME TypeOK, RegistrationsOK, HostsOK, NEW w \in Toplevels, PresentInNewHost(w)
  PROVE  HostsOK'
<1> DEFINE b == AppOf[w]
<1>1. /\ b \in Apps /\ w \in Wins /\ \A a \in Apps : w \notin Of(a)
      /\ \A a \in Apps : Of(a)' = IF a = b THEN Of(a) \cup {w} ELSE Of(a)
  BY PresentOf DEF PresentInNewHost
<1>2. host[b] = "none" /\ Of(b) = {}
  BY <1>1 DEF PresentInNewHost, RegistrationsOK, HelpersHaveWindows
<1>3. /\ host' = [host EXCEPT ![b] = "up"] /\ down' = [down EXCEPT ![b] = FirstFrame(w)]
      /\ WINDOWS' = WINDOWS /\ GRAB' = GRAB /\ insetsDown' = insetsDown
  BY DEF PresentInNewHost
<1> SUFFICES ASSUME NEW a \in Apps PROVE HostOK(a)'
  BY DEF HostsOK
<1>4. HostOK(a)
  BY DEF HostsOK
<1> HIDE DEF b
<1>5. CASE a = b
  <2>1. WINDOWS[a] = {} /\ GRAB[a] = NoWin
    BY <1>2, <1>4, <1>5 DEF HostOK
  <2>2. "Create" \in CreateOps /\ {} \cup {w} = {w}
    BY DEF CreateOps
  <2>3. <<>> \o <<Cmd("Create", w), Cmd("Frame", w)>> = FirstFrame(w)
    BY DEF FirstFrame
  <2>4. Serves(<<>> \o <<Cmd("Create", w), Cmd("Frame", w)>>, {}, NoWin, {} \cup {w})
    BY <1>1, <2>2, ServesNothing, ServesFirstFrame
  <2>5. host'[a] = "up" /\ down'[a] = FirstFrame(w) /\ Of(a)' = {w}
    BY <1>1, <1>2, <1>3, <1>5 DEF TypeOK
  <2> QED BY <1>3, <2>1, <2>2, <2>3, <2>4, <2>5 DEF HostOK
<1>6. CASE a # b
  <2>1. host'[a] = host[a] /\ down'[a] = down[a] /\ Of(a)' = Of(a)
    BY <1>1, <1>3, <1>6 DEF TypeOK
  <2> QED BY <1>3, <1>4, <2>1 DEF HostOK
<1> QED BY <1>5, <1>6

(* A host handles its next command. *)
LEMMA HandleKeepsHosts ==
  ASSUME TypeOK, HostsOK, NEW b \in Apps, HandleCmd(b)
  PROVE  HostsOK'
<1> DEFINE q == down[b]
           c == Head(q)
<1>1. q # <<>> /\ q \in Seq(Commands(Wins)) /\ c \in Commands(Wins) /\ down'[b] = Tail(q)
  BY DEF HandleCmd, TypeOK
<1>2. host[b] = "up" /\ Serves(q, WINDOWS[b], GRAB[b], Of(b))
  BY <1>1 DEF HostsOK, HostOK
<1>3. /\ host' = host /\ insetsDown' = insetsDown /\ Of(b)' = Of(b)
      /\ \A a \in Apps : a # b => /\ down'[a] = down[a] /\ WINDOWS'[a] = WINDOWS[a]
                                  /\ GRAB'[a] = GRAB[a] /\ Of(a)' = Of(a)
  <2>1. host' = host /\ insetsDown' = insetsDown /\ \A a \in Apps : Of(a)' = Of(a)
    BY DEF HandleCmd, Of
  <2>2. ASSUME NEW a \in Apps, a # b
        PROVE  down'[a] = down[a] /\ WINDOWS'[a] = WINDOWS[a] /\ GRAB'[a] = GRAB[a]
    BY <2>2 DEF HandleCmd, TypeOK
  <2> QED BY <2>1, <2>2
<1>4. /\ c.op \in CreateOps => WINDOWS'[b] = WINDOWS[b] \cup {c.win} /\ GRAB'[b] = GRAB[b]
      /\ c.op = "Frame"   => WINDOWS'[b] = WINDOWS[b] /\ GRAB'[b] = GRAB[b]
      /\ c.op = "SetGrab" => WINDOWS'[b] = WINDOWS[b] /\ GRAB'[b] = c.win
      /\ c.op = "Destroy" => /\ WINDOWS'[b] = WINDOWS[b] \ {c.win}
                             /\ GRAB'[b] = IF GRAB[b] = c.win THEN NoWin ELSE GRAB[b]
  BY DEF HandleCmd, TypeOK, CreateOps
<1>5. c.op \in CreateOps \/ c.op \in {"Frame", "SetGrab", "Destroy"}
  BY <1>1 DEF Commands
<1>6. GRAB[b] \in Wins \cup {NoWin}
  BY DEF TypeOK
<1> HIDE DEF c, q
<1>7. \A w \in Wins : w \in WINDOWS'[b] <=> Creates(c, w) \/ (w \in WINDOWS[b] /\ ~Destroys(c, w))
  BY <1>4, <1>5 DEF Creates, Destroys, CreateOps
<1>8. GRAB'[b] = IF c.op = "SetGrab" THEN c.win ELSE IF Destroys(c, GRAB[b]) THEN NoWin ELSE GRAB[b]
  BY <1>4, <1>5 DEF Destroys, CreateOps
<1>9. Serves(Tail(q), WINDOWS'[b], GRAB'[b], Of(b))
  BY <1>1, <1>2, <1>6, <1>7, <1>8, ServesTail DEF c
<1> SUFFICES ASSUME NEW a \in Apps PROVE HostOK(a)'
  BY DEF HostsOK
<1>10. CASE a = b
  BY <1>1, <1>2, <1>3, <1>9, <1>10 DEF HostOK
<1>11. CASE a # b
  <2>1. HostOK(a)
    BY DEF HostsOK
  <2> QED BY <1>3, <1>11, <2>1 DEF HostOK
<1> QED BY <1>10, <1>11

(* What is on its way to the hosts serves the registered windows. *)
LEMMA HostsInvariant == Spec => []HostsOK
<1>1. Init => HostsOK
  BY DEF Init, HostsOK, HostOK
<1>2. TypeOK /\ RegistrationsOK /\ HostsOK /\ [Next]_vars => HostsOK'
  <2> SUFFICES ASSUME TypeOK, RegistrationsOK, HostsOK, [Next]_vars PROVE HostsOK'
    OBVIOUS
  <2>0. Toplevels \subseteq Wins /\ Popups \subseteq Wins
    BY DEF Wins
  <2>1. ASSUME \A a \in Apps : /\ Of(a)' = Of(a) /\ down'[a] = down[a] /\ host'[a] = host[a]
                               /\ WINDOWS'[a] = WINDOWS[a] /\ GRAB'[a] = GRAB[a]
                               /\ host[a] # "up" => insetsDown'[a] = insetsDown[a]
        PROVE  HostsOK'
    <3> SUFFICES ASSUME NEW a \in Apps PROVE HostOK(a)'
      BY DEF HostsOK
    <3>1. HostOK(a)
      BY DEF HostsOK
    <3> QED BY <2>1, <3>1 DEF HostOK
  <2>2. ASSUME NEW w \in Toplevels, PresentInHost(w) PROVE HostsOK'
    <3>0. PICK b : b = AppOf[w]
      OBVIOUS
    <3>1. /\ b \in Apps /\ w \in Wins /\ \A a \in Apps : w \notin Of(a)
          /\ \A a \in Apps : Of(a)' = IF a = b THEN Of(a) \cup {w} ELSE Of(a)
      BY <3>0, <2>2, PresentOf DEF PresentInHost
    <3>2. Write(b, <<Cmd("Create", w), Cmd("Frame", w)>>) /\ UNCHANGED <<insetsDown, processes>>
      BY <3>0, <2>2 DEF PresentInHost, FirstFrame
    <3>3. ASSUME host[b] = "up"
          PROVE  Serves(down[b] \o <<Cmd("Create", w), Cmd("Frame", w)>>, WINDOWS[b], GRAB[b], Of(b)')
      <4>1. Serves(down[b], WINDOWS[b], GRAB[b], Of(b))
        BY <3>0, <3>1, <3>3 DEF HostsOK, HostOK
      <4>2. Of(b)' = Of(b) \cup {w} /\ w \notin Of(b)
        BY <3>0, <3>1
      <4>3. "Create" \in CreateOps
        BY DEF CreateOps
      <4>4. Serves(down[b] \o <<Cmd("Create", w), Cmd("Frame", w)>>, WINDOWS[b], GRAB[b], Of(b) \cup {w})
        BY <3>0, <3>1, <4>1, <4>2, <4>3, ServesFirstFrame
      <4> QED BY <4>2, <4>4
    <3>4. \A a \in Apps : a # b => Of(a)' = Of(a)
      BY <3>0, <3>1
    <3> QED BY <3>0, <3>2, <3>3, <3>4, WriteKeepsHosts
  <2>3. ASSUME NEW w \in Toplevels, PresentInNewHost(w) PROVE HostsOK'
    BY <2>3, NewHostServed
  <2>4. ASSUME NEW w \in Toplevels, PresentUnhosted(w) PROVE HostsOK'
    BY <2>1, <2>4 DEF PresentUnhosted, processes, Of
  <2>5. ASSUME NEW p \in Popups, PresentPopup(p) PROVE HostsOK'
    <3>0. PICK b : b = win_to_app[ParentOf[p]]
      OBVIOUS
    <3>1. UNCHANGED <<insetsDown, processes>> /\ p \in Wins
      BY <3>0, <2>0, <2>5 DEF PresentPopup
    <3>2. CASE b # NoApp
      <4>1. Write(b, <<Cmd("CreatePopup", p), Cmd("Frame", p)>>)
        BY <3>0, <2>5, <3>2 DEF PresentPopup
      <4>2. /\ b \in Apps /\ \A a \in Apps : p \notin Of(a)
            /\ \A a \in Apps : Of(a)' = IF a = b THEN Of(a) \cup {p} ELSE Of(a)
        BY <3>0, <2>5, <3>2, PopupOf
      <4>3. ASSUME host[b] = "up"
            PROVE  Serves(down[b] \o <<Cmd("CreatePopup", p), Cmd("Frame", p)>>, WINDOWS[b], GRAB[b], Of(b)')
        <5>1. Serves(down[b], WINDOWS[b], GRAB[b], Of(b))
          BY <4>2, <4>3 DEF HostsOK, HostOK
        <5>2. Of(b)' = Of(b) \cup {p} /\ p \notin Of(b)
          BY <4>2
        <5>3. "CreatePopup" \in CreateOps
          BY DEF CreateOps
        <5>4. Serves(down[b] \o <<Cmd("CreatePopup", p), Cmd("Frame", p)>>, WINDOWS[b], GRAB[b], Of(b) \cup {p})
          BY <3>0, <3>1, <5>1, <5>2, <5>3, ServesFirstFrame
        <5> QED BY <5>2, <5>4
      <4>4. \A a \in Apps : a # b => Of(a)' = Of(a)
        BY <4>2
      <4> QED BY <3>0, <3>1, <4>1, <4>3, <4>4, WriteKeepsHosts
    <3>3. CASE b = NoApp
      <4>1. Write(win_to_app[p], <<Cmd("Frame", p)>>) /\ win_to_app[p] = NoApp
        BY <3>0, <2>5, <3>3, PopupOf DEF PresentPopup
      <4>2. \A a \in Apps : Of(a)' = Of(a)
        BY <3>0, <2>5, <3>3, PopupOf
      <4>3. win_to_app[p] \notin Apps
        BY <4>1, AppsAssumption
      <4> QED BY <3>0, <3>1, <4>1, <4>2, <4>3, WriteKeepsHosts
    <3> QED BY <3>0, <3>2, <3>3
  <2>6. ASSUME NEW w \in Wins, PresentAgain(w) PROVE HostsOK'
    <3>0. PICK b : b = win_to_app[w]
      OBVIOUS
    <3>1. Write(b, <<Cmd("Frame", w)>>) /\ UNCHANGED <<insetsDown, processes>>
      BY <3>0, <2>6 DEF PresentAgain
    <3>2. (\A a \in Apps : Of(a)' = Of(a)) /\ w \in Of(b)
      BY <3>0, <2>6 DEF PresentAgain, Of
    <3>3. ASSUME b \in Apps, host[b] = "up"
          PROVE  Serves(down[b] \o <<Cmd("Frame", w)>>, WINDOWS[b], GRAB[b], Of(b)')
      <4>1. Serves(down[b], WINDOWS[b], GRAB[b], Of(b))
        BY <3>0, <3>3 DEF HostsOK, HostOK
      <4>2. Serves(Append(down[b], Cmd("Frame", w)), WINDOWS[b], GRAB[b], Of(b))
        BY <3>0, <3>2, <4>1, ServesFrame
      <4>3. down[b] \o <<Cmd("Frame", w)>> = Append(down[b], Cmd("Frame", w))
        BY <3>0, <3>3, WriteOne
      <4> QED BY <3>0, <3>2, <3>3, <4>2, <4>3
    <3> QED BY <3>0, <3>1, <3>2, <3>3, WriteKeepsHosts
  <2>7. ASSUME NEW w \in Wins, CloseWindow(w) PROVE HostsOK'
    <3>0. PICK b : b = win_to_app[w]
      OBVIOUS
    <3>1. Write(b, <<Cmd("Destroy", w)>>) /\ UNCHANGED <<insetsDown, processes>>
      BY <3>0, <2>7 DEF CloseWindow
    <3>2. \A a \in Apps : Of(a)' = Of(a) \ {w}
      BY <3>0, <2>7, CloseOf DEF CloseWindow
    <3>3. \A a \in Apps : a # b => Of(a)' = Of(a)
      <4>1. \A a \in Apps : a # b => w \notin Of(a)
        BY <3>0 DEF Of
      <4> QED BY <3>0, <3>2, <4>1
    <3>4. ASSUME b \in Apps, host[b] = "up"
          PROVE  Serves(down[b] \o <<Cmd("Destroy", w)>>, WINDOWS[b], GRAB[b], Of(b)')
      <4>1. Serves(down[b], WINDOWS[b], GRAB[b], Of(b))
        BY <3>0, <3>4 DEF HostsOK, HostOK
      <4>2. Serves(Append(down[b], Cmd("Destroy", w)), WINDOWS[b], GRAB[b], Of(b) \ {w})
        BY <4>1, ServesDestroy
      <4>3. down[b] \o <<Cmd("Destroy", w)>> = Append(down[b], Cmd("Destroy", w))
        BY <3>0, <3>4, WriteOne
      <4>4. Of(b)' = Of(b) \ {w}
        BY <3>2, <3>4
      <4> QED BY <4>2, <4>3, <4>4
    <3> QED BY <3>0, <3>1, <3>3, <3>4, WriteKeepsHosts
  <2>8. ASSUME NEW w \in Wins, CloseLastWindow(w) PROVE HostsOK'
    <3>0. PICK b : b = win_to_app[w]
      OBVIOUS
    <3>1. b \in Apps /\ EndProcess(b, "none")
      BY <3>0, <2>8 DEF CloseLastWindow, TypeOK
    <3>2. \A a \in Apps : Of(a)' = Of(a) \ {w}
      BY <3>0, <2>8, CloseOf DEF CloseLastWindow
    <3>3. \A a \in Apps : a # b => Of(a)' = Of(a)
      <4>1. \A a \in Apps : a # b => w \notin Of(a)
        BY <3>0 DEF Of
      <4> QED BY <3>0, <3>2, <4>1
    <3> QED BY <3>0, <3>1, <3>3, EndProcessKeepsHosts
  <2>9. ASSUME NEW p \in Popups, Grab(p) PROVE HostsOK'
    <3>0. PICK b : b = win_to_app[p]
      OBVIOUS
    <3>1. Write(b, <<Cmd("SetGrab", p)>>) /\ UNCHANGED <<insetsDown, processes>>
      BY <3>0, <2>9 DEF Grab
    <3>2. (\A a \in Apps : Of(a)' = Of(a)) /\ p \in Of(b)
      BY <3>0, <2>0, <2>9 DEF Grab, Of
    <3>3. ASSUME b \in Apps, host[b] = "up"
          PROVE  Serves(down[b] \o <<Cmd("SetGrab", p)>>, WINDOWS[b], GRAB[b], Of(b)')
      <4>1. Serves(down[b], WINDOWS[b], GRAB[b], Of(b))
        BY <3>0, <3>3 DEF HostsOK, HostOK
      <4>2. Serves(Append(down[b], Cmd("SetGrab", p)), WINDOWS[b], GRAB[b], Of(b))
        BY <3>0, <3>2, <4>1, ServesSetGrab
      <4>3. down[b] \o <<Cmd("SetGrab", p)>> = Append(down[b], Cmd("SetGrab", p))
        BY <3>0, <3>3, WriteOne
      <4> QED BY <3>0, <3>2, <3>3, <4>2, <4>3
    <3> QED BY <3>0, <3>1, <3>2, <3>3, WriteKeepsHosts
  <2>10. CASE DismissPopup
    <3> SUFFICES ASSUME NEW a \in Apps PROVE HostOK(a)'
      BY DEF HostsOK
    <3>1. HostOK(a)
      BY DEF HostsOK
    <3>2. /\ host'[a] = host[a] /\ WINDOWS'[a] = WINDOWS[a] /\ GRAB'[a] = GRAB[a]
          /\ insetsDown'[a] = insetsDown[a] /\ Of(a)' = Of(a)
          /\ down'[a] = IF host[a] = "up" THEN Append(down[a], Cmd("SetGrab", NoWin)) ELSE down[a]
      BY <2>10 DEF DismissPopup, processes, Of, Broadcast
    <3>3. CASE host[a] = "up"
      <4>1. Serves(down[a], WINDOWS[a], GRAB[a], Of(a))
        BY <3>1, <3>3 DEF HostOK
      <4>2. Serves(Append(down[a], Cmd("SetGrab", NoWin)), WINDOWS[a], GRAB[a], Of(a))
        BY <4>1, ServesSetGrab
      <4> QED BY <3>2, <3>3, <4>2 DEF HostOK
    <3>4. CASE host[a] # "up"
      BY <3>1, <3>2, <3>4 DEF HostOK
    <3> QED BY <3>3, <3>4
  <2>11. ASSUME NEW v \in Insets, RecomputeReserved(v) PROVE HostsOK'
    BY <2>1, <2>11 DEF RecomputeReserved, processes, Of
  <2>12. ASSUME NEW b \in Apps, HandleCmd(b) PROVE HostsOK'
    BY <2>12, HandleKeepsHosts
  <2>13. ASSUME NEW b \in Apps, ReadInsets(b) PROVE HostsOK'
    <3>1. host[b] = "up"
      BY <2>13 DEF ReadInsets, HostsOK, HostOK
    <3> QED BY <2>1, <2>13, <3>1 DEF ReadInsets, Of, TypeOK
  <2>14. ASSUME NEW b \in Apps, Crash(b) PROVE HostsOK'
    <3>1. EndProcess(b, "crashed") /\ \A a \in Apps : Of(a)' = Of(a)
      BY <2>14 DEF Crash, Of
    <3> QED BY <3>1, EndProcessKeepsHosts
  <2>15. CASE UNCHANGED vars
    BY <2>1, <2>15 DEF vars, processes, Of
  <2> QED
    BY <2>2, <2>3, <2>4, <2>5, <2>6, <2>7, <2>8, <2>9, <2>10, <2>11, <2>12, <2>13, <2>14, <2>15
    DEF Next, Compositor, Host
<1> QED BY <1>1, <1>2, TypeCorrect, RegistrationsInvariant, PTL DEF Spec

(* Each host shows its windows and no others, once it has caught up. *)
THEOREM HostsCorrect == Spec => []HostsFollowRouter
<1>1. HostsOK => HostsFollowRouter
  BY DEF HostsOK, HostOK, Serves, HostsFollowRouter
<1> QED BY <1>1, HostsInvariant, PTL

(* No host's grab is another's popup, one that is gone, or one that waits  *)
(* for its window.                                                         *)
THEOREM GrabsCorrect == Spec => []GrabsStayInTheirHost
<1>1. HostsOK => GrabsStayInTheirHost
  <2> SUFFICES ASSUME HostsOK, NEW a \in Apps
               PROVE  /\ Held(Wins, down[a], GRAB[a], Of(a), Popups)
                      /\ host[a] = "up" => Anchored(Wins, down[a], WINDOWS[a], GRAB[a])
    BY DEF GrabsStayInTheirHost
  <2>1. HostOK(a)
    BY DEF HostsOK
  <2>2. CASE host[a] = "up"
    BY <2>1, <2>2 DEF HostOK, Serves
  <2>3. CASE host[a] # "up"
    BY <2>1, <2>3 DEF HostOK, Held
  <2> QED BY <2>2, <2>3
<1> QED BY <1>1, HostsInvariant, PTL

(* The work area every host that lives is told of is the one in force.     *)
(* This needs that nothing waits for a host that is gone, lest the next    *)
(* one be told of old insets after its Hello.                              *)
THEOREM InsetsCorrect == Spec => []InsetsFollow
<1> DEFINE Told(a) == IF insetsDown[a] = <<>> THEN reserved[a] ELSE insetsDown[a][Len(insetsDown[a])]
<1>1. Init => InsetsFollow
  BY DEF Init, InsetsFollow
<1>2. TypeOK /\ HostsOK /\ InsetsFollow /\ [Next]_vars => InsetsFollow'
  <2> SUFFICES ASSUME TypeOK, HostsOK, InsetsFollow, [Next]_vars, NEW a \in Apps, host'[a] = "up"
               PROVE  insets' = Told(a)'
    BY DEF InsetsFollow
  <2>1. host[a] = "up" => insets = Told(a)
    BY DEF InsetsFollow
  <2>2. ASSUME UNCHANGED <<insets, host, reserved, insetsDown>> PROVE insets' = Told(a)'
    BY <2>1, <2>2
  <2>3. ASSUME NEW w \in Toplevels, PresentInHost(w) \/ PresentUnhosted(w) PROVE insets' = Told(a)'
    BY <2>2, <2>3 DEF PresentInHost, PresentUnhosted, Present, processes
  <2>4. ASSUME NEW w \in Toplevels, PresentInNewHost(w) PROVE insets' = Told(a)'
    <3>1. CASE a = AppOf[w]
      <4>1. insetsDown[a] = <<>>
        BY <2>4, <3>1 DEF PresentInNewHost, HostsOK, HostOK
      <4> QED BY <2>4, <3>1, <4>1 DEF PresentInNewHost, Present, TypeOK
    <3>2. CASE a # AppOf[w]
      BY <2>1, <2>4, <3>2 DEF PresentInNewHost, Present, TypeOK
    <3> QED BY <3>1, <3>2
  <2>5. ASSUME NEW p \in Popups, PresentPopup(p) \/ Grab(p) PROVE insets' = Told(a)'
    BY <2>2, <2>5 DEF PresentPopup, Grab, processes
  <2>6. ASSUME NEW w \in Wins, PresentAgain(w) \/ CloseWindow(w) PROVE insets' = Told(a)'
    BY <2>2, <2>6 DEF PresentAgain, CloseWindow, Close, processes
  <2>7. ASSUME NEW b \in Apps, NEW state \in {"none", "crashed"}, EndProcess(b, state), UNCHANGED insets
        PROVE  insets' = Told(a)'
    <3>1. a # b /\ host[a] = "up" /\ insetsDown'[a] = insetsDown[a] /\ reserved'[a] = reserved[a]
      BY <2>7 DEF EndProcess, TypeOK
    <3> QED BY <2>1, <2>7, <3>1
  <2>8. ASSUME NEW w \in Wins, CloseLastWindow(w) PROVE insets' = Told(a)'
    <3>1. win_to_app[w] \in Apps
      BY <2>8 DEF CloseLastWindow, TypeOK
    <3> QED BY <2>7, <2>8, <3>1 DEF CloseLastWindow, Close
  <2>9. CASE DismissPopup
    BY <2>2, <2>9 DEF DismissPopup, processes
  <2>10. ASSUME NEW v \in Insets, RecomputeReserved(v) PROVE insets' = Told(a)'
    <3>1. insets' = v /\ insetsDown'[a] = Append(insetsDown[a], v)
      BY <2>10 DEF RecomputeReserved, processes
    <3>2. insetsDown[a] \in Seq(Insets)
      BY DEF TypeOK
    <3> QED BY <3>1, <3>2
  <2>11. ASSUME NEW b \in Apps, HandleCmd(b) PROVE insets' = Told(a)'
    BY <2>2, <2>11 DEF HandleCmd
  <2>12. ASSUME NEW b \in Apps, ReadInsets(b) PROVE insets' = Told(a)'
    <3>1. host[a] = "up" /\ insets' = insets
      BY <2>12 DEF ReadInsets
    <3>2. CASE a = b
      <4>1. /\ insetsDown[a] \in Seq(Insets) /\ insetsDown[a] # <<>>
            /\ insetsDown'[a] = Tail(insetsDown[a]) /\ reserved'[a] = Head(insetsDown[a])
        BY <2>12, <3>2 DEF ReadInsets, TypeOK
      <4>2. \A q \in Seq(Insets) : q # <<>> /\ Tail(q) = <<>> => q[Len(q)] = Head(q)
        <5> SUFFICES ASSUME NEW q \in Seq(Insets), q # <<>>, Tail(q) = <<>> PROVE q[Len(q)] = Head(q)
          OBVIOUS
        <5>1. Len(Tail(q)) = Len(q) - 1 /\ Len(q) \in Nat
          BY HeadTailProperties
        <5>2. Len(Tail(q)) = 0
          BY EmptySeq
        <5> QED BY <5>1, <5>2
      <4>3. \A q \in Seq(Insets) : q # <<>> /\ Tail(q) # <<>> => q[Len(q)] = Tail(q)[Len(Tail(q))]
        OBVIOUS
      <4>4. insets = insetsDown[a][Len(insetsDown[a])]
        BY <2>1, <3>1, <4>1
      <4> QED BY <3>1, <4>1, <4>2, <4>3, <4>4
    <3>3. CASE a # b
      BY <2>1, <2>12, <3>1, <3>3 DEF ReadInsets, TypeOK
    <3> QED BY <3>2, <3>3
  <2>13. ASSUME NEW b \in Apps, Crash(b) PROVE insets' = Told(a)'
    BY <2>7, <2>13 DEF Crash
  <2>14. CASE UNCHANGED vars
    BY <2>2, <2>14 DEF vars, processes
  <2> QED
    BY <2>3, <2>4, <2>5, <2>6, <2>8, <2>9, <2>10, <2>11, <2>12, <2>13, <2>14
    DEF Next, Compositor, Host
<1> QED BY <1>1, <1>2, TypeCorrect, HostsInvariant, PTL DEF Spec

-----------------------------------------------------------------------------
(***************************************************************************)
(* Router and hosts implement the abstract screens of the apps, step by    *)
(* step.                                                                   *)
(***************************************************************************)

(* What a step must do to be the clients asking for the windows ws, or     *)
(* giving them up.                                                         *)
LEMMA AsksFor ==
  ASSUME NEW ws \in SUBSET Wins, OnScreen' = OnScreen,
         Wanted' = (Wanted \cup ws) \ (Wanted \cap ws),
         \A w \in Wins : InFlight(w)' = IF w \in ws THEN InFlight(w) + 1 ELSE InFlight(w)
  PROVE  Screens!AppNext
<1>1. [w \in Wins |-> InFlight(w)'] = [w \in Wins |-> IF w \in ws THEN InFlight(w) + 1 ELSE InFlight(w)]
  OBVIOUS
<1>2. Screens!Ask(ws)
  BY <1>1 DEF Screens!Ask
<1> QED BY <1>2 DEF Screens!AppNext, Screens!Next

(* What leaves the wishes, the screens and the changes in flight alone. *)
LEMMA Stutters ==
  ASSUME Wanted' = Wanted, OnScreen' = OnScreen, \A w \in Wins : InFlight(w)' = InFlight(w)
  PROVE  UNCHANGED Screens!vars
BY DEF Screens!vars

(* The windows of an app are wanted when its host lives. *)
LEMMA WantedKept ==
  ASSUME host' = host, \A a \in Apps : host[a] = "up" => Of(a)' = Of(a)
  PROVE  Wanted' = Wanted
BY ClientsAssumption DEF Wanted

(* What a window's first commands are to the changes in flight. *)
LEMMA ChangesFirstFrame ==
  ASSUME NEW q \in Seq(Commands(Wins)), NEW W, NEW C, Leads(Wins, q, W, C),
         NEW w \in Wins, w \notin C, NEW op \in CreateOps, NEW v \in Wins
  PROVE  Cardinality(Changes(q \o <<Cmd(op, w), Cmd("Frame", w)>>, W, v)) =
           IF v = w THEN Cardinality(Changes(q, W, v)) + 1 ELSE Cardinality(Changes(q, W, v))
<1> DEFINE a == Cmd(op, w)
           b == Cmd("Frame", w)
           r == Append(q, a)
<1>1. a \in Commands(Wins) /\ b \in Commands(Wins)
  BY CmdType
<1>2. (Creates(a, v) <=> v = w) /\ ~Destroys(a, v) /\ ~Creates(b, v) /\ ~Destroys(b, v)
  BY DEF Cmd, Creates, Destroys, CreateOps
<1>3. Leads(Wins, r, W, C \cup {w})
  BY LeadsCreate
<1> HIDE DEF a, b
<1>4. r \in Seq(Commands(Wins)) /\ q \o <<a, b>> = Append(r, b)
  BY <1>1
<1>5. Cardinality(Changes(r, W, v)) =
        IF v = w THEN Cardinality(Changes(q, W, v)) + 1 ELSE Cardinality(Changes(q, W, v))
  BY <1>1, <1>2, ChangesAppend
<1> HIDE DEF r
<1>6. Cardinality(Changes(Append(r, b), W, v)) = Cardinality(Changes(r, W, v))
  BY <1>1, <1>2, <1>3, <1>4, ChangesPlainAppend
<1> QED BY <1>4, <1>5, <1>6 DEF a, b

(* A write to no host, or to one that is gone. *)
LEMMA LostWriteStutters ==
  ASSUME TypeOK, NEW b, NEW cmds, Write(b, cmds), UNCHANGED processes,
         b \in Apps => host[b] # "up",
         \A a \in Apps : host[a] = "up" => Of(a)' = Of(a)
  PROVE  UNCHANGED Screens!vars
<1>1. \A a \in Apps : down'[a] = down[a]
  BY DEF Write
<1>2. host' = host /\ WINDOWS' = WINDOWS
  BY DEF processes
<1>3. \A w \in Wins : InFlight(w)' = InFlight(w)
  BY <1>1, <1>2, ClientsAssumption DEF InFlight
<1>4. OnScreen' = OnScreen
  BY <1>2 DEF OnScreen
<1> QED BY <1>2, <1>3, <1>4, WantedKept, Stutters

(* Frames and grabs are nothing to the screens. *)
LEMMA PlainWriteStutters ==
  ASSUME TypeOK, HostsOK, NEW c \in Commands(Wins), c.op \in {"Frame", "SetGrab"},
         \A a \in Apps : host[a] = "up" => down'[a] \in {down[a], Append(down[a], c)},
         \A a \in Apps : host[a] # "up" => down'[a] = down[a],
         \A a \in Apps : Of(a)' = Of(a), UNCHANGED processes
  PROVE  UNCHANGED Screens!vars
<1>1. host' = host /\ WINDOWS' = WINDOWS
  BY DEF processes
<1>2. ASSUME NEW w \in Wins PROVE InFlight(w)' = InFlight(w)
  <2>1. PICK a \in Apps : a = AppOf[w]
    BY ClientsAssumption
  <2>2. ~Creates(c, w) /\ ~Destroys(c, w)
    BY DEF Creates, Destroys, CreateOps
  <2>3. CASE down'[a] = down[a]
    BY <1>1, <2>1, <2>3 DEF InFlight
  <2>4. CASE host[a] = "up" /\ down'[a] = Append(down[a], c)
    <3>1. down[a] \in Seq(Commands(Wins)) /\ Leads(Wins, down[a], WINDOWS[a], Of(a))
      BY <2>4 DEF HostsOK, HostOK, Serves
    <3>2. Cardinality(Changes(Append(down[a], c), WINDOWS[a], w)) = Cardinality(Changes(down[a], WINDOWS[a], w))
      BY <2>2, <3>1, ChangesPlainAppend
    <3> QED BY <1>1, <2>1, <2>4, <3>2 DEF InFlight
  <2> QED BY <2>3, <2>4
<1>3. Wanted' = Wanted
  BY <1>1, WantedKept
<1>4. OnScreen' = OnScreen
  BY <1>1 DEF OnScreen
<1> QED BY <1>2, <1>3, <1>4, Stutters

(* A frame or a grab for one host. *)
LEMMA PlainWriteOne ==
  ASSUME TypeOK, HostsOK, NEW c \in Commands(Wins), c.op \in {"Frame", "SetGrab"},
         NEW b, Write(b, <<c>>), \A a \in Apps : Of(a)' = Of(a), UNCHANGED processes
  PROVE  UNCHANGED Screens!vars
<1>1. ASSUME NEW a \in Apps
      PROVE  /\ down'[a] \in {down[a], Append(down[a], c)}
             /\ host[a] # "up" => down'[a] = down[a]
  <2>1. down[a] \o <<c>> = Append(down[a], c)
    BY WriteOne
  <2> QED BY <2>1 DEF Write
<1> QED BY <1>1, PlainWriteStutters

(* A window is asked for by its first commands, if its host lives. *)
LEMMA FirstFrameAsks ==
  ASSUME TypeOK, HostsOK, NEW b \in Apps, NEW w \in Wins, AppOf[w] = b, w \notin Of(b),
         \A a \in Apps : Of(a)' = IF a = b THEN Of(a) \cup {w} ELSE Of(a),
         NEW op \in CreateOps, Write(b, <<Cmd(op, w), Cmd("Frame", w)>>), UNCHANGED processes
  PROVE  [Screens!AppNext]_Screens!vars
<1>1. host' = host /\ WINDOWS' = WINDOWS
  BY DEF processes
<1>2. CASE host[b] # "up"
  BY <1>2, LostWriteStutters
<1>3. CASE host[b] = "up"
  <2> DEFINE cmds == <<Cmd(op, w), Cmd("Frame", w)>>
  <2>1. down[b] \in Seq(Commands(Wins)) /\ Leads(Wins, down[b], WINDOWS[b], Of(b))
    BY <1>3 DEF HostsOK, HostOK, Serves
  <2>2. \A a \in Apps : down'[a] = IF a = b THEN down[a] \o cmds ELSE down[a]
    BY <1>3 DEF Write
  <2>3. \A v \in Wins : Cardinality(Changes(down[b] \o cmds, WINDOWS[b], v)) =
          IF v = w THEN Cardinality(Changes(down[b], WINDOWS[b], v)) + 1
          ELSE Cardinality(Changes(down[b], WINDOWS[b], v))
    BY <2>1, ChangesFirstFrame
  <2> HIDE DEF cmds
  <2>4. \A v \in Wins : InFlight(v)' = IF v \in {w} THEN InFlight(v) + 1 ELSE InFlight(v)
    BY <1>1, <2>2, <2>3, ClientsAssumption DEF InFlight
  <2>5. Wanted' = (Wanted \cup {w}) \ (Wanted \cap {w}) /\ {w} \in SUBSET Wins
    BY <1>1, <1>3, ClientsAssumption DEF Wanted
  <2>6. OnScreen' = OnScreen
    BY <1>1 DEF OnScreen
  <2> QED BY <2>4, <2>5, <2>6, AsksFor
<1> QED BY <1>2, <1>3

(* The first window of an app is asked for with its host. *)
LEMMA NewHostAsks ==
  ASSUME TypeOK, RegistrationsOK, HostsOK, NEW w \in Toplevels, PresentInNewHost(w)
  PROVE  Screens!AppNext
<1>0. PICK b : b = AppOf[w]
  OBVIOUS
<1>1. /\ b \in Apps /\ w \in Wins /\ \A a \in Apps : w \notin Of(a)
      /\ \A a \in Apps : Of(a)' = IF a = b THEN Of(a) \cup {w} ELSE Of(a)
  BY <1>0, PresentOf DEF PresentInNewHost
<1>2. /\ host[b] = "none" /\ WINDOWS' = WINDOWS
      /\ host' = [host EXCEPT ![b] = "up"] /\ down' = [down EXCEPT ![b] = FirstFrame(w)]
  BY <1>0 DEF PresentInNewHost
<1>3. Of(b) = {} /\ down[b] = <<>> /\ WINDOWS[b] = {}
  BY <1>1, <1>2 DEF RegistrationsOK, HelpersHaveWindows, HostsOK, HostOK
<1>4. ASSUME NEW v \in Wins PROVE InFlight(v)' = IF v \in {w} THEN InFlight(v) + 1 ELSE InFlight(v)
  <2>1. CASE AppOf[v] = b
    <3>1. Leads(Wins, down[b], WINDOWS[b], {}) /\ down[b] \in Seq(Commands(Wins))
      BY <1>3, ServesNothing DEF Serves
    <3>2. "Create" \in CreateOps
      BY DEF CreateOps
    <3>3. down[b] \o <<Cmd("Create", w), Cmd("Frame", w)>> = FirstFrame(w)
      BY <1>3 DEF FirstFrame
    <3>4. Cardinality(Changes(down[b] \o <<Cmd("Create", w), Cmd("Frame", w)>>, WINDOWS[b], v)) =
            IF v = w THEN Cardinality(Changes(down[b], WINDOWS[b], v)) + 1
            ELSE Cardinality(Changes(down[b], WINDOWS[b], v))
      BY <1>1, <3>1, <3>2, ChangesFirstFrame
    <3>5. InFlight(v)' = Cardinality(Changes(FirstFrame(w), WINDOWS[b], v))
      BY <1>1, <1>2, <2>1 DEF InFlight, TypeOK
    <3> QED BY <2>1, <3>3, <3>4, <3>5 DEF InFlight
  <2>2. CASE AppOf[v] # b
    <3>1. down'[AppOf[v]] = down[AppOf[v]] /\ v # w
      BY <1>0, <1>1, <1>2, <2>2, ClientsAssumption DEF TypeOK
    <3> QED BY <1>2, <3>1 DEF InFlight
  <2> QED BY <2>1, <2>2
<1>5. Wanted' = (Wanted \cup {w}) \ (Wanted \cap {w}) /\ {w} \in SUBSET Wins
  <2>1. \A a \in Apps : host'[a] = IF a = b THEN "up" ELSE host[a]
    BY <1>1, <1>2 DEF TypeOK
  <2>2. ASSUME NEW v \in Wins PROVE v \in Wanted' <=> v = w \/ v \in Wanted
    <3>1. PICK a \in Apps : a = AppOf[v]
      BY ClientsAssumption
    <3>2. CASE a = b
      BY <1>0, <1>1, <1>2, <1>3, <2>1, <3>1, <3>2 DEF Wanted
    <3>3. CASE a # b
      BY <1>0, <1>1, <2>1, <3>1, <3>3 DEF Wanted
    <3> QED BY <3>2, <3>3
  <2>3. w \notin Wanted /\ Wanted \subseteq Wins /\ Wanted' \subseteq Wins
    BY <1>0, <1>2 DEF Wanted
  <2> QED BY <1>1, <2>2, <2>3
<1>6. OnScreen' = OnScreen
  BY <1>2 DEF OnScreen
<1> QED BY <1>4, <1>5, <1>6, AsksFor

(* A popup is asked for in the host of its parent, or nowhere. *)
LEMMA PopupAsks ==
  ASSUME TypeOK, RegistrationsOK, HostsOK, NEW p \in Popups, PresentPopup(p)
  PROVE  [Screens!AppNext]_Screens!vars
<1>0. PICK b : b = win_to_app[ParentOf[p]]
  OBVIOUS
<1>1. p \in Wins /\ UNCHANGED processes
  BY DEF PresentPopup, Wins
<1>2. CASE b # NoApp
  <2>1. /\ b \in Apps /\ AppOf[p] = b /\ p \notin Of(b)
        /\ \A a \in Apps : Of(a)' = IF a = b THEN Of(a) \cup {p} ELSE Of(a)
    BY <1>0, <1>2, PopupOf
  <2>2. Write(b, <<Cmd("CreatePopup", p), Cmd("Frame", p)>>) /\ "CreatePopup" \in CreateOps
    BY <1>0, <1>2 DEF PresentPopup, CreateOps
  <2> QED BY <1>1, <2>1, <2>2, FirstFrameAsks
<1>3. CASE b = NoApp
  <2>1. win_to_app[p] = NoApp /\ \A a \in Apps : Of(a)' = Of(a)
    BY <1>0, <1>3, PopupOf
  <2>2. Write(NoApp, <<Cmd("Frame", p)>>)
    BY <1>0, <1>3, <2>1 DEF PresentPopup
  <2> QED BY <1>1, <2>1, <2>2, AppsAssumption, LostWriteStutters
<1> QED BY <1>2, <1>3

(* One window of several is given up by its Destroy, if its host lives. *)
LEMMA CloseAsks ==
  ASSUME TypeOK, RegistrationsOK, HostsOK, NEW w \in Wins, CloseWindow(w)
  PROVE  [Screens!AppNext]_Screens!vars
<1>0. PICK b : b = win_to_app[w]
  OBVIOUS
<1>1. host' = host /\ WINDOWS' = WINDOWS /\ UNCHANGED processes
  BY DEF CloseWindow, processes
<1>2. Write(b, <<Cmd("Destroy", w)>>) /\ \A a \in Apps : Of(a)' = Of(a) \ {w}
  BY <1>0, CloseOf DEF CloseWindow
<1>3. w \in Of(b) /\ (\A a \in Apps : a # b => w \notin Of(a)) /\ (b \in Apps => AppOf[w] = b)
  BY <1>0, AppsAssumption DEF Of, RegistrationsOK, WindowsInTheirApp
<1>4. CASE ~(b \in Apps /\ host[b] = "up")
  <2>1. \A a \in Apps : host[a] = "up" => Of(a)' = Of(a)
    BY <1>2, <1>3, <1>4
  <2> QED BY <1>1, <1>2, <1>4, <2>1, LostWriteStutters
<1>5. CASE b \in Apps /\ host[b] = "up"
  <2> DEFINE c == Cmd("Destroy", w)
  <2>1. down[b] \in Seq(Commands(Wins)) /\ Leads(Wins, down[b], WINDOWS[b], Of(b)) /\ c \in Commands(Wins)
    BY <1>5, CmdType DEF HostsOK, HostOK, Serves
  <2>2. \A v \in Wins : ~Creates(c, v) /\ (Destroys(c, v) <=> v = w)
    BY DEF Cmd, Creates, Destroys, CreateOps
  <2>3. down[b] \o <<c>> = Append(down[b], c)
    BY <1>5, WriteOne
  <2>4. \A a \in Apps : down'[a] = IF a = b THEN Append(down[a], c) ELSE down[a]
    BY <1>2, <1>5, <2>3 DEF Write
  <2> HIDE DEF c
  <2>5. ASSUME NEW v \in Wins
        PROVE  Cardinality(Changes(Append(down[b], c), WINDOWS[b], v)) =
                 IF v = w THEN Cardinality(Changes(down[b], WINDOWS[b], v)) + 1
                 ELSE Cardinality(Changes(down[b], WINDOWS[b], v))
    <3>1. Cardinality(Changes(Append(down[b], c), WINDOWS[b], v)) =
            IF Creates(c, v) \/ (Destroys(c, v) /\ v \in Of(b))
            THEN Cardinality(Changes(down[b], WINDOWS[b], v)) + 1
            ELSE Cardinality(Changes(down[b], WINDOWS[b], v))
      BY <2>1, ChangesAppend
    <3>2. Creates(c, v) \/ (Destroys(c, v) /\ v \in Of(b)) <=> v = w
      BY <1>3, <2>2
    <3> QED BY <3>1, <3>2
  <2>6. \A v \in Wins : InFlight(v)' = IF v \in {w} THEN InFlight(v) + 1 ELSE InFlight(v)
    BY <1>1, <1>3, <1>5, <2>4, <2>5, ClientsAssumption DEF InFlight
  <2>7. Wanted' = (Wanted \cup {w}) \ (Wanted \cap {w}) /\ {w} \in SUBSET Wins
    BY <1>1, <1>2, <1>3, <1>5, ClientsAssumption DEF Wanted
  <2>8. OnScreen' = OnScreen
    BY <1>1 DEF OnScreen
  <2> QED BY <2>6, <2>7, <2>8, AsksFor
<1> QED BY <1>4, <1>5

(* The end of a process takes the windows of its app and no others. *)
LEMMA EndProcessLoses ==
  ASSUME TypeOK, NEW b \in Apps, NEW state \in {"none", "crashed"}, EndProcess(b, state),
         \A a \in Apps : a # b => Of(a)' = Of(a)
  PROVE  Screens!AppNext
<1> DEFINE ws == {w \in Wins : AppOf[w] = b}
<1>1. /\ host'[b] # "up" /\ down'[b] = <<>> /\ WINDOWS'[b] = {}
      /\ \A a \in Apps : a # b => host'[a] = host[a] /\ down'[a] = down[a] /\ WINDOWS'[a] = WINDOWS[a]
  BY DEF EndProcess, TypeOK
<1>2. ASSUME NEW w \in Wins PROVE InFlight(w)' = IF w \in ws THEN 0 ELSE InFlight(w)
  <2>1. CASE AppOf[w] = b
    <3>1. Changes(<<>>, {}, w) = {}
      BY DEF Changes
    <3> QED BY <1>1, <2>1, <3>1, FS_EmptySet DEF InFlight
  <2>2. CASE AppOf[w] # b
    BY <1>1, <2>2, ClientsAssumption DEF InFlight
  <2> QED BY <2>1, <2>2
<1>3. Wanted' = Wanted \ ws
  BY <1>1, ClientsAssumption DEF Wanted
<1>4. OnScreen' = OnScreen \ ws
  BY <1>1, ClientsAssumption DEF OnScreen
<1>5. [w \in Wins |-> InFlight(w)'] = [w \in Wins |-> IF w \in ws THEN 0 ELSE [v \in Wins |-> InFlight(v)][w]]
  BY <1>2
<1>6. Screens!Lose(b)
  BY <1>3, <1>4, <1>5 DEF Screens!Lose
<1> QED BY <1>6 DEF Screens!AppNext

(* A host applies a change, or handles what changes nothing. *)
LEMMA HandleApplies ==
  ASSUME TypeOK, HostsOK, NEW b \in Apps, HandleCmd(b)
  PROVE  [Screens!AppNext]_Screens!vars
<1> DEFINE q == down[b]
           c == Head(q)
           v == c.win
           changes(w) == Creates(c, w) \/ (Destroys(c, w) /\ w \in WINDOWS[b])
<1>1. q # <<>> /\ q \in Seq(Commands(Wins)) /\ c \in Commands(Wins) /\ down'[b] = Tail(q)
  BY DEF HandleCmd, TypeOK
<1>2. host[b] = "up" /\ Leads(Wins, q, WINDOWS[b], Of(b))
  BY <1>1 DEF HostsOK, HostOK, Serves
<1>3. /\ host' = host /\ \A a \in Apps : Of(a)' = Of(a)
      /\ \A a \in Apps : a # b => down'[a] = down[a] /\ WINDOWS'[a] = WINDOWS[a]
  BY DEF HandleCmd, Of, TypeOK
<1>4. WINDOWS'[b] = IF c.op \in CreateOps THEN WINDOWS[b] \cup {v}
                    ELSE IF c.op = "Destroy" THEN WINDOWS[b] \ {v} ELSE WINDOWS[b]
  BY DEF HandleCmd, TypeOK, CreateOps
<1>5. Wanted' = Wanted
  BY <1>3, WantedKept
<1>6. ASSUME NEW w \in Wins, Creates(c, w) PROVE w \notin WINDOWS[b]
  <2>1. 1 \in 1 .. Len(q) /\ c = q[1]
    BY <1>1
  <2>2. Fits(q, WINDOWS[b], 1, w)
    BY <1>2, <2>1 DEF Leads
  <2>3. ~Shown(q, WINDOWS[b], w, 1 - 1)
    BY <1>6, <2>1, <2>2 DEF Fits
  <2> QED BY <2>3 DEF Shown
<1>7. WINDOWS[b] \subseteq Wins
  BY DEF TypeOK
<1> HIDE DEF q, c
<1>8. \A w \in Wins : w \in WINDOWS'[b] <=> Creates(c, w) \/ (w \in WINDOWS[b] /\ ~Destroys(c, w))
  BY <1>4 DEF Creates, Destroys, CreateOps
<1>9. ASSUME NEW w \in Wins
      PROVE  /\ AppOf[w] = b => IF changes(w) THEN InFlight(w) > 0 /\ InFlight(w)' = InFlight(w) - 1
                                ELSE InFlight(w)' = InFlight(w)
             /\ AppOf[w] # b => InFlight(w)' = InFlight(w)
  <2>1. CASE AppOf[w] = b
    <3>1. IF changes(w)
          THEN Cardinality(Changes(q, WINDOWS[b], w)) > 0
               /\ Cardinality(Changes(Tail(q), WINDOWS'[b], w)) = Cardinality(Changes(q, WINDOWS[b], w)) - 1
          ELSE Cardinality(Changes(Tail(q), WINDOWS'[b], w)) = Cardinality(Changes(q, WINDOWS[b], w))
      <4>1. w \in WINDOWS'[b] <=> Creates(Head(q), w) \/ (w \in WINDOWS[b] /\ ~Destroys(Head(q), w))
        BY <1>8 DEF c
      <4>2. IF Creates(Head(q), w) \/ (Destroys(Head(q), w) /\ w \in WINDOWS[b])
            THEN Cardinality(Changes(q, WINDOWS[b], w)) > 0
                 /\ Cardinality(Changes(Tail(q), WINDOWS'[b], w)) = Cardinality(Changes(q, WINDOWS[b], w)) - 1
            ELSE Cardinality(Changes(Tail(q), WINDOWS'[b], w)) = Cardinality(Changes(q, WINDOWS[b], w))
        BY <1>1, <4>1, ChangesTail
      <4> QED BY <4>2 DEF c
    <3>2. InFlight(w) = Cardinality(Changes(q, WINDOWS[b], w))
      BY <2>1 DEF InFlight, q
    <3>3. InFlight(w)' = Cardinality(Changes(Tail(q), WINDOWS'[b], w))
      BY <1>1, <2>1 DEF InFlight
    <3> QED BY <2>1, <3>1, <3>2, <3>3
  <2>2. CASE AppOf[w] # b
    BY <1>3, <2>2, ClientsAssumption DEF InFlight
  <2> QED BY <2>1, <2>2
<1>10. CASE v \in Wins /\ AppOf[v] = b /\ changes(v)
  <2>1. \A w \in Wins : changes(w) => w = v
    BY DEF Creates, Destroys
  <2>2. WINDOWS'[b] = IF v \in WINDOWS[b] THEN WINDOWS[b] \ {v} ELSE WINDOWS[b] \cup {v}
    BY <1>4, <1>6, <1>10 DEF Creates, Destroys, CreateOps
  <2> HIDE DEF changes, v
  <2>3. [w \in Wins |-> InFlight(w)'] = [[w \in Wins |-> InFlight(w)] EXCEPT ![v] = @ - 1]
    BY <1>9, <1>10, <2>1
  <2>4. OnScreen' = IF v \in OnScreen THEN OnScreen \ {v} ELSE OnScreen \cup {v}
    BY <1>3, <1>10, <2>2, ClientsAssumption DEF OnScreen
  <2>5. Screens!Apply(v)
    BY <1>5, <1>9, <1>10, <2>3, <2>4 DEF Screens!Apply
  <2> QED BY <1>10, <2>5 DEF Screens!AppNext, Screens!Next
<1>11. CASE ~(v \in Wins /\ AppOf[v] = b /\ changes(v))
  <2>1. \A w \in Wins : AppOf[w] = b => ~changes(w)
    BY <1>11 DEF Creates, Destroys
  <2>2. \A w \in Wins : AppOf[w] = b => (w \in WINDOWS'[b] <=> w \in WINDOWS[b])
    BY <1>8, <2>1
  <2> HIDE DEF changes
  <2>3. \A w \in Wins : InFlight(w)' = InFlight(w)
    BY <1>9, <2>1
  <2>4. OnScreen' = OnScreen
    BY <1>3, <2>2, ClientsAssumption DEF OnScreen
  <2> QED BY <1>5, <2>3, <2>4, Stutters
<1> QED BY <1>10, <1>11

(* Whatever becomes of the hosts, the screens follow the clients: a step   *)
(* is the clients asking for windows or giving them up, the oldest change  *)
(* of one window taking effect, an app losing its process with all its     *)
(* windows, or nothing.  So no change is lost, made twice or made late     *)
(* but by the end of a process, and that leaves the other apps alone.      *)
THEOREM ScreensCorrect == Spec => Screens!AppSafeSpec
<1>1. Init => Screens!Init
  <2> SUFFICES ASSUME Init PROVE Screens!Init
    OBVIOUS
  <2>1. ASSUME NEW w \in Wins PROVE InFlight(w) = 0
    <3>1. Changes(<<>>, {}, w) = {}
      BY DEF Changes
    <3> QED BY <3>1, FS_EmptySet, ClientsAssumption DEF Init, InFlight
  <2>2. Wanted = {} /\ OnScreen = {}
    BY ClientsAssumption DEF Init, Wanted, OnScreen
  <2> QED BY <2>1, <2>2 DEF Screens!Init
<1>2. TypeOK /\ RegistrationsOK /\ HostsOK /\ [Next]_vars => [Screens!AppNext]_Screens!vars
  <2> SUFFICES ASSUME TypeOK, RegistrationsOK, HostsOK, [Next]_vars
               PROVE  [Screens!AppNext]_Screens!vars
    OBVIOUS
  <2>1. Toplevels \subseteq Wins /\ Popups \subseteq Wins
    BY DEF Wins
  <2>2. ASSUME NEW op \in {"Frame", "SetGrab"}, NEW w \in Wins \cup {NoWin}, w \in Wins \/ op = "SetGrab"
        PROVE  Cmd(op, w) \in Commands(Wins) /\ Cmd(op, w).op \in {"Frame", "SetGrab"}
    BY <2>2, CmdType DEF Cmd
  <2>3. ASSUME NEW w \in Toplevels, PresentInHost(w) PROVE [Screens!AppNext]_Screens!vars
    <3>1. /\ AppOf[w] \in Apps /\ w \in Wins /\ w \notin Of(AppOf[w])
          /\ \A a \in Apps : Of(a)' = IF a = AppOf[w] THEN Of(a) \cup {w} ELSE Of(a)
      BY <2>3, PresentOf DEF PresentInHost
    <3>2. Write(AppOf[w], <<Cmd("Create", w), Cmd("Frame", w)>>) /\ UNCHANGED processes /\ "Create" \in CreateOps
      BY <2>3 DEF PresentInHost, FirstFrame, CreateOps
    <3> QED BY <3>1, <3>2, FirstFrameAsks
  <2>4. ASSUME UNCHANGED <<win_to_app, down, host, WINDOWS>> PROVE UNCHANGED Screens!vars
    BY <2>4, Stutters DEF Wanted, OnScreen, InFlight, Of
  <2>5. ASSUME NEW w \in Toplevels, PresentUnhosted(w) PROVE UNCHANGED Screens!vars
    BY <2>4, <2>5 DEF PresentUnhosted, processes
  <2>6. ASSUME NEW p \in Popups, Grab(p) PROVE UNCHANGED Screens!vars
    <3>1. UNCHANGED processes /\ \A a \in Apps : Of(a)' = Of(a)
      BY <2>6 DEF Grab, Of
    <3> QED BY <2>1, <2>2, <2>6, <3>1, PlainWriteOne DEF Grab
  <2>7. ASSUME NEW w \in Wins, PresentAgain(w) PROVE UNCHANGED Screens!vars
    <3>1. UNCHANGED processes /\ \A a \in Apps : Of(a)' = Of(a)
      BY <2>7 DEF PresentAgain, Of
    <3> QED BY <2>2, <2>7, <3>1, PlainWriteOne DEF PresentAgain
  <2>8. ASSUME NEW w \in Wins, CloseLastWindow(w) PROVE Screens!AppNext
    <3>0. PICK b : b = win_to_app[w]
      OBVIOUS
    <3>1. b \in Apps /\ EndProcess(b, "none") /\ w \in Of(b)
      BY <2>8, <3>0 DEF CloseLastWindow, TypeOK, Of
    <3>2. \A a \in Apps : a # b => Of(a)' = Of(a)
      <4>1. \A a \in Apps : Of(a)' = Of(a) \ {w}
        BY <2>8, CloseOf DEF CloseLastWindow
      <4>2. \A a \in Apps : a # b => w \notin Of(a)
        BY <3>0 DEF Of
      <4> QED BY <4>1, <4>2
    <3> QED BY <3>1, <3>2, EndProcessLoses
  <2>9. CASE DismissPopup
    <3>1. UNCHANGED processes /\ \A a \in Apps : Of(a)' = Of(a)
      BY <2>9 DEF DismissPopup, Of
    <3>2. \A a \in Apps : down'[a] = IF host[a] = "up" THEN Append(down[a], Cmd("SetGrab", NoWin)) ELSE down[a]
      BY <2>9 DEF DismissPopup, Broadcast
    <3> QED BY <2>2, <3>1, <3>2, PlainWriteStutters
  <2>10. ASSUME NEW v \in Insets, RecomputeReserved(v) PROVE UNCHANGED Screens!vars
    BY <2>4, <2>10 DEF RecomputeReserved, processes
  <2>11. ASSUME NEW a \in Apps, ReadInsets(a) PROVE UNCHANGED Screens!vars
    BY <2>4, <2>11 DEF ReadInsets
  <2>12. ASSUME NEW a \in Apps, Crash(a) PROVE Screens!AppNext
    BY <2>12, EndProcessLoses DEF Crash, Of
  <2>13. CASE UNCHANGED vars
    BY <2>4, <2>13 DEF vars, processes
  <2> QED
    BY <2>3, <2>5, <2>6, <2>7, <2>8, <2>9, <2>10, <2>11, <2>12, <2>13,
       NewHostAsks, PopupAsks, CloseAsks, HandleApplies
    DEF Next, Compositor, Host
<1> QED BY <1>1, <1>2, TypeCorrect, RegistrationsInvariant, HostsInvariant, PTL DEF Spec, Screens!AppSafeSpec
=============================================================================
