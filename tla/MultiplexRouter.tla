--------------------------- MODULE MultiplexRouter ---------------------------
(***************************************************************************)
(* --multiplex mode: the compositor owns no NSWindow; every app's windows  *)
(* live in a window-host process of its own (host.rs), and the router      *)
(* (router.rs) sends each window command to the host of its window.        *)
(*                                                                         *)
(* The actors are the Wayland thread, the only one to call the router, and *)
(* the hosts, which start, lag, crash and are killed.  What the clients    *)
(* ask for is left open; ShellWindows has it in detail.  A command waits   *)
(* in `down` from the Wayland thread's write until the main thread of the  *)
(* host handles it.  Insets are applied by the host's reader thread        *)
(* itself, so they travel apart.  Input travels up as it does in the one   *)
(* process, but from each host on its own; SeatFocus assumes no order.     *)
(***************************************************************************)
EXTENDS CommandQueue, FiniteSets

CONSTANTS
  Apps,         \* app keys
  NoApp,        \* win_to_app has no entry
  Toplevels,    \* ids of toplevels and bars: used once
  Popups,       \* ids of popups: hidden and shown again
  AppOf,        \* the app key of a window's client
  ParentOf,     \* the parent window of a popup
  Insets,       \* work-area insets
  StartInsets,  \* those before any bar
  MaxDown       \* bound: messages on their way to a host

Wins == Toplevels \cup Popups

ASSUME AppsAssumption    == NoApp \notin Apps
ASSUME WinsAssumption    == NoWin \notin Wins /\ Toplevels \cap Popups = {}
ASSUME ClientsAssumption == /\ AppOf \in [Wins -> Apps] /\ ParentOf \in [Popups -> Wins]
                            /\ \A p \in Popups : AppOf[p] = AppOf[ParentOf[p]]
ASSUME InsetsAssumption  == StartInsets \in Insets
ASSUME DownAssumption    == MaxDown \in Nat

VARIABLES
  (* Wayland thread *)
  created,      \* windows whose record says created_window
  gone,         \* toplevels whose record is gone
  (* Router *)
  win_to_app,   \* window to app
  host,         \* helpers: "none" without an entry, else what became of the process
  insets,
  (* sockets and main queues *)
  down, insetsDown,
  (* hosts *)
  WINDOWS, GRAB,
  reserved      \* the host's copy of the insets

records   == <<created, gone>>
processes == <<host, WINDOWS, GRAB, reserved>>
vars == <<records, win_to_app, insets, down, insetsDown, processes>>

TypeOK ==
  /\ created \subseteq Wins /\ gone \subseteq Toplevels
  /\ win_to_app \in [Wins -> Apps \cup {NoApp}]
  /\ host \in [Apps -> {"none", "up", "crashed"}]
  /\ insets \in Insets
  /\ down \in [Apps -> Seq(Commands(Wins))]
  /\ insetsDown \in [Apps -> Seq(Insets)]
  /\ WINDOWS \in [Apps -> SUBSET Wins]
  /\ GRAB \in [Apps -> Wins \cup {NoWin}]
  /\ reserved \in [Apps -> Insets]

(* Router::enable *)
Init ==
  /\ created = {} /\ gone = {}
  /\ win_to_app = [w \in Wins |-> NoApp]
  /\ host = [a \in Apps |-> "none"]
  /\ insets = StartInsets
  /\ down = [a \in Apps |-> <<>>]
  /\ insetsDown = [a \in Apps |-> <<>>]
  /\ WINDOWS = [a \in Apps |-> {}]
  /\ GRAB = [a \in Apps |-> NoWin]
  /\ reserved = [a \in Apps |-> StartInsets]

-----------------------------------------------------------------------------
(* Routing *)

Room == \A a \in Apps : Len(down[a]) < MaxDown /\ Len(insetsDown[a]) < MaxDown

(* Writes to the one host, or to none; a crashed host's are lost. *)
Write(app, cmds) ==
  down' = [a \in Apps |-> IF a = app /\ host[a] = "up" THEN down[a] \o cmds ELSE down[a]]

Broadcast(cmd) ==
  down' = [a \in Apps |-> IF host[a] = "up" THEN Append(down[a], cmd) ELSE down[a]]

(* The windows of app a. *)
Of(a) == {w \in Wins : win_to_app[w] = a}

(* The process of app a is gone, and with it all it had and had yet to do. *)
EndProcess(a, state) ==
  /\ host' = [host EXCEPT ![a] = state]
  /\ down' = [down EXCEPT ![a] = <<>>]
  /\ insetsDown' = [insetsDown EXCEPT ![a] = <<>>]
  /\ WINDOWS' = [WINDOWS EXCEPT ![a] = {}]
  /\ GRAB' = [GRAB EXCEPT ![a] = NoWin]
  /\ UNCHANGED reserved

-----------------------------------------------------------------------------
(* Windows come *)

FirstFrame(w) == <<Cmd("Create", w), Cmd("Frame", w)>>

(* present and present_layer for a window not created yet: assign_window,  *)
(* Create, Frame.                                                          *)
Present(w) ==
  /\ w \in Toplevels \ (created \cup gone)
  /\ Room
  /\ created' = created \cup {w}
  /\ UNCHANGED <<gone, insets>>

(* Mutant: the Create is posted before the window is assigned. *)
PresentBeforeAssign(w) ==
  /\ Present(w)
  /\ host[AppOf[w]] # "none"
  /\ win_to_app' = [win_to_app EXCEPT ![w] = AppOf[w]]
  /\ Write(win_to_app[w], <<Cmd("Create", w)>>)
  /\ UNCHANGED <<insetsDown, processes>>

(* The app has its host, or had it. *)
PresentInHost(w) ==
  /\ Present(w)
  /\ host[AppOf[w]] # "none"
  /\ win_to_app' = [win_to_app EXCEPT ![w] = AppOf[w]]
  /\ Write(AppOf[w], FirstFrame(w))
  /\ UNCHANGED <<insetsDown, processes>>

(* Mutant: Hello carries the insets of the compositor's start. *)
SpawnWithStartInsets(w) ==
  LET a == AppOf[w] IN
  /\ Present(w)
  /\ host[a] = "none"
  /\ host' = [host EXCEPT ![a] = "up"]
  /\ reserved' = [reserved EXCEPT ![a] = StartInsets]
  /\ win_to_app' = [win_to_app EXCEPT ![w] = a]
  /\ down' = [down EXCEPT ![a] = FirstFrame(w)]
  /\ UNCHANGED <<insetsDown, WINDOWS, GRAB>>

(* spawn_helper: the host connects and is greeted with the insets of the   *)
(* moment (Hello), which it reads before anything else.                    *)
PresentInNewHost(w) ==
  LET a == AppOf[w] IN
  /\ Present(w)
  /\ host[a] = "none"
  /\ host' = [host EXCEPT ![a] = "up"]
  /\ reserved' = [reserved EXCEPT ![a] = insets]
  /\ win_to_app' = [win_to_app EXCEPT ![w] = a]
  /\ down' = [down EXCEPT ![a] = FirstFrame(w)]
  /\ UNCHANGED <<insetsDown, WINDOWS, GRAB>>

(* Mutant: the window is registered although there is no host for it. *)
PresentUnhostedButAssigned(w) ==
  /\ Present(w)
  /\ host[AppOf[w]] = "none"
  /\ win_to_app' = [win_to_app EXCEPT ![w] = AppOf[w]]
  /\ UNCHANGED <<down, insetsDown, processes>>

(* The child does not start, connect in time or take its Hello: the window *)
(* has no host, and never gets one.                                        *)
PresentUnhosted(w) ==
  /\ Present(w)
  /\ host[AppOf[w]] = "none"
  /\ UNCHANGED <<win_to_app, down, insetsDown, processes>>

(* Mutant: CreatePopup goes to the parent's host and leaves no trace. *)
PresentPopupUnregistered(p) ==
  LET app == win_to_app[ParentOf[p]] IN
  /\ p \in Popups \ created
  /\ Room
  /\ created' = created \cup {p}
  /\ Write(app, <<Cmd("CreatePopup", p)>>)
  /\ UNCHANGED <<gone, win_to_app, insets, insetsDown, processes>>

(* A popup goes where its parent is.  Without a parent in some host it is  *)
(* not registered, and its frames go nowhere.                              *)
PresentPopup(p) ==
  LET app == win_to_app[ParentOf[p]] IN
  /\ p \in Popups \ created
  /\ Room
  /\ created' = created \cup {p}
  /\ \/ /\ app # NoApp
        /\ win_to_app' = [win_to_app EXCEPT ![p] = app]
        /\ Write(app, <<Cmd("CreatePopup", p), Cmd("Frame", p)>>)
     \/ /\ app = NoApp
        /\ Write(win_to_app[p], <<Cmd("Frame", p)>>)
        /\ UNCHANGED win_to_app
  /\ UNCHANGED <<gone, insets, insetsDown, processes>>

PresentAgain(w) ==
  /\ w \in created
  /\ Room
  /\ Write(win_to_app[w], <<Cmd("Frame", w)>>)
  /\ UNCHANGED <<records, win_to_app, insets, insetsDown, processes>>

-----------------------------------------------------------------------------
(* Windows go *)

(* Mutant: the registration stays. *)
CloseKeepsRegistration(w) ==
  /\ w \in created
  /\ Room
  /\ created' = created \ {w}
  /\ UNCHANGED <<insets, win_to_app>>

(* A window's record goes, or a popup is hidden. *)
Close(w) ==
  /\ w \in created
  /\ Room
  /\ created' = created \ {w}
  /\ win_to_app' = [win_to_app EXCEPT ![w] = NoApp]
  /\ UNCHANGED insets

(* Mutant: popup ids are used once, too. *)
SpendEvery(w) == gone' = gone \cup {w}

Spend(w) == gone' = gone \cup ({w} \cap Toplevels)

(* route(Destroy): one window of several, or one without a host. *)
CloseWindow(w) ==
  /\ Close(w) /\ Spend(w)
  /\ win_to_app[w] = NoApp \/ Of(win_to_app[w]) # {w}
  /\ Write(win_to_app[w], <<Cmd("Destroy", w)>>)
  /\ UNCHANGED <<insetsDown, processes>>

(* Mutant: the host of the last window stays. *)
CloseLastKeepsHost(w) ==
  /\ Close(w) /\ Spend(w)
  /\ win_to_app[w] # NoApp /\ Of(win_to_app[w]) = {w}
  /\ Write(win_to_app[w], <<Cmd("Destroy", w)>>)
  /\ UNCHANGED <<insetsDown, processes>>

(* The last window of an app: its host is told, killed and waited for, and *)
(* the helper is removed, whatever is still on its way.                    *)
CloseLastWindow(w) ==
  /\ Close(w) /\ Spend(w)
  /\ win_to_app[w] # NoApp /\ Of(win_to_app[w]) = {w}
  /\ EndProcess(win_to_app[w], "none")

-----------------------------------------------------------------------------
(* Grab and insets *)

(* Mutant: the grab goes where the popup will be, registered or not. *)
GrabByParent(p) ==
  /\ Room
  /\ Write(win_to_app[ParentOf[p]], <<Cmd("SetGrab", p)>>)
  /\ UNCHANGED <<records, win_to_app, insets, insetsDown, processes>>

(* xdg_popup.grab *)
Grab(p) ==
  /\ Room
  /\ Write(win_to_app[p], <<Cmd("SetGrab", p)>>)
  /\ UNCHANGED <<records, win_to_app, insets, insetsDown, processes>>

(* dismiss_popup *)
DismissPopup ==
  /\ Room
  /\ Broadcast(Cmd("SetGrab", NoWin))
  /\ UNCHANGED <<records, win_to_app, insets, insetsDown, processes>>

(* recompute_reserved, through broadcast_insets *)
RecomputeReserved(v) ==
  /\ Room
  /\ insets' = v
  /\ insetsDown' = [a \in Apps |-> IF host[a] = "up" THEN Append(insetsDown[a], v) ELSE insetsDown[a]]
  /\ UNCHANGED <<records, win_to_app, down, processes>>

-----------------------------------------------------------------------------
(* Hosts *)

(* The main thread of a host handles a command: see ShellWindows.  That a  *)
(* mouse event drops a grab without a window (grabbed) never happens here, *)
(* see GrabsStayInTheirHost.                                               *)
HandleCmd(a) ==
  LET c == Head(down[a]) IN
  /\ down[a] # <<>>
  /\ down' = [down EXCEPT ![a] = Tail(@)]
  /\ \/ /\ c.op \in CreateOps
        /\ WINDOWS' = [WINDOWS EXCEPT ![a] = @ \cup {c.win}]
        /\ UNCHANGED GRAB
     \/ /\ c.op = "Frame"
        /\ UNCHANGED <<WINDOWS, GRAB>>
     \/ /\ c.op = "SetGrab"
        /\ GRAB' = [GRAB EXCEPT ![a] = c.win]
        /\ UNCHANGED WINDOWS
     \/ /\ c.op = "Destroy"
        /\ WINDOWS' = [WINDOWS EXCEPT ![a] = @ \ {c.win}]
        /\ GRAB' = [GRAB EXCEPT ![a] = IF @ = c.win THEN NoWin ELSE @]
  /\ UNCHANGED <<records, win_to_app, host, insets, insetsDown, reserved>>

(* The reader thread of a host applies insets. *)
ReadInsets(a) ==
  /\ insetsDown[a] # <<>>
  /\ reserved' = [reserved EXCEPT ![a] = Head(insetsDown[a])]
  /\ insetsDown' = [insetsDown EXCEPT ![a] = Tail(@)]
  /\ UNCHANGED <<records, win_to_app, host, insets, down, WINDOWS, GRAB>>

(* A host dies; the router keeps the helper and does not notice. *)
Crash(a) ==
  /\ host[a] = "up"
  /\ EndProcess(a, "crashed")
  /\ UNCHANGED <<records, win_to_app, insets>>

-----------------------------------------------------------------------------
Compositor ==
  \/ \E w \in Toplevels : PresentInHost(w) \/ PresentInNewHost(w) \/ PresentUnhosted(w)
  \/ \E p \in Popups : PresentPopup(p) \/ Grab(p)
  \/ \E w \in Wins : PresentAgain(w) \/ CloseWindow(w) \/ CloseLastWindow(w)
  \/ DismissPopup
  \/ \E v \in Insets : RecomputeReserved(v)

Host(a) == HandleCmd(a) \/ ReadInsets(a) \/ Crash(a)

Next == Compositor \/ \E a \in Apps : Host(a)

Spec == Init /\ [][Next]_vars

(* A host that lives runs its main loop and its reader thread. *)
FairSpec == Spec /\ \A a \in Apps : WF_vars(HandleCmd(a)) /\ WF_vars(ReadInsets(a))

(* The abstract screen of all apps: a window is wanted while it is         *)
(* registered and its host lives, and shown while it is in the WINDOWS of  *)
(* that host.                                                              *)
Wanted      == {w \in Wins : host[AppOf[w]] = "up" /\ w \in Of(AppOf[w])}
OnScreen    == {w \in Wins : w \in WINDOWS[AppOf[w]]}
InFlight(w) == Cardinality(Changes(down[AppOf[w]], WINDOWS[AppOf[w]], w))

Screens ==
  INSTANCE AppScreens WITH
    Windows <- Wins, wanted <- Wanted, shown <- OnScreen,
    inFlight <- [w \in Wins |-> InFlight(w)]

-----------------------------------------------------------------------------
(* Properties *)

(* "On the last window of an app, tear its host down": an app has a helper *)
(* as long as a window is registered for it and no longer, so no host is   *)
(* left behind and none is killed under the windows of others.             *)
HelpersHaveWindows == \A a \in Apps : host[a] = "none" <=> Of(a) = {}

(* A window is registered while it is created, and with the app of its     *)
(* client: popups, nested ones too, get to the host of their toplevel      *)
(* though nobody tells the router their client.                            *)
WindowsInTheirApp ==
  \A w \in Wins : win_to_app[w] # NoApp => w \in created /\ win_to_app[w] = AppOf[w]

(* What is on its way to a host leaves it with exactly the windows that    *)
(* are registered for it, and no command misses its window: whether hosts  *)
(* come late, fail to start, crash or are replaced, and whether windows    *)
(* close before or after their popups, no window is in two hosts, in the   *)
(* wrong one, or in none that should have it.                              *)
HostsFollowRouter ==
  \A a \in Apps : host[a] = "up" => Leads(Wins, down[a], WINDOWS[a], Of(a))

(* The pointer grab of a host belongs to a popup of its own, or is about   *)
(* to end.  A host whose grab has no window would forget it at the next    *)
(* mouse event; this never comes to pass: since the router knows of a      *)
(* popup only from its CreatePopup on, a host is told of the window first, *)
(* and of its end last.                                                    *)
GrabsStayInTheirHost ==
  \A a \in Apps :
    /\ Held(Wins, down[a], GRAB[a], Of(a), Popups)
    /\ host[a] = "up" => Anchored(Wins, down[a], WINDOWS[a], GRAB[a])

(* "Update this host's copy so its windows keep avoiding the bar (which    *)
(* lives in a different host)": the last insets a host was sent, when it   *)
(* was greeted or since, are those in force.                               *)
InsetsFollow ==
  \A a \in Apps :
    host[a] = "up" =>
      insets = IF insetsDown[a] = <<>> THEN reserved[a] ELSE insetsDown[a][Len(insetsDown[a])]
=============================================================================
