# Verification of wayland-macos

wayland-macos is a Wayland compositor without a compositor's screen: each Wayland
client's toplevel, menu and bar becomes a native macOS window, and what the user does to
that window goes back to the client as Wayland input. This directory holds TLA+ models of
its core logic, the TLC configurations that check them on small instances, and proofs that
TLAPS checks for every value of the constants.

    tlc -workers 2 -config MCShellWindows.cfg MCShellWindows
    tlc -workers 2 -config MCSeatAndRail.cfg MCSeatAndRail
    tlc -workers 2 -config MCRouterAndSubs.cfg MCRouterAndSubs
    tlc -workers 2 -config MCClipboardAndSize.cfg MCClipboardAndSize
    tlc -workers 2 -config MCCliAndMenus.cfg MCCliAndMenus
    tlc -workers 2 -config MCGrabBeforePaint.cfg MCShellWindows
    tlc -workers 2 -config MCRailIdleApp.cfg MCRailRoute
    tlc -workers 2 -config MCWaylandPaste.cfg MCClipboard
    tlc -workers 2 -config MCStrayClear.cfg MCClipboard
    tlc -workers 2 -config MCMutedStart.cfg MCCliInstances
    tlc -workers 2 -config MCRunawaySize.cfg WindowSize
    tlc -workers 2 -config MCTwoButtons.cfg MCMenuInput
    tlapm ShellWindows_proofs.tla
    tlapm Surfaces_proofs.tla
    tlapm MenuInput_proofs.tla
    tlapm RailRoute_proofs.tla
    tlapm MultiplexRouter_proofs.tla
    tlapm CommandQueue_proofs.tla
    tlapm Clipboard_proofs.tla
    tlapm CliInstances_proofs.tla

The first five pass; the other seven end in a counterexample, on purpose (see Findings).

## The system

One process, two threads that matter:

* the **Wayland thread** (`wayland/`) owns one `State`: every protocol object, the record
  maps `toplevels`, `popups`, `layer_surfaces` and `subsurfaces`, the role maps from
  surfaces to window ids, focus, selections. Its loop polls the clients' sockets and the
  input pipe, handles input, then requests, then the 16 ms tick (`wayland/mod.rs:1655-1794`).
* the **AppKit main thread** (`mac.rs`) owns the NSWindows and a few thread-local
  registries (`WINDOWS`, `POPUP_WINDOWS`, `LAYER_WINDOWS`, `GRAB`, `IMPLICIT_GRAB`, ...).

They share no state, only two queues: `mac::post` puts a `WinCmd` on the main dispatch
queue (FIFO), and the **input bus** (`input.rs`) carries `InputEvent`s back, waking the poll
loop through a pipe. Each queue is in order; the two are not ordered against each other. In
`--multiplex` mode the AppKit side moves to one process per app, behind a router. With
`--rail` the FreeRDP thread takes the place of the Wayland thread and shows the windows of a RAIL session.
Above all of this the command line (`cli.rs`) starts and stops one such process, a waypipe client and a socat
bridge per port; its invocations share pidfiles, the process table and one audio server.

| Component | State | Operations | Hard | Correct when |
|---|---|---|---|---|
| Shell windows (`mod.rs`, `xdg_shell.rs`, `layer_shell.rs`, `compositor.rs`, `mac.rs`) | records, role maps, `created_window`, `dismissed`; command queue; window registries and `GRAB` | roles, commit, unmap, teardown by object, surface or client; create, frame, destroy, grab | teardown in any order, re-show while a Destroy is queued, grab before the first frame | windows follow records; commands find their window; role maps never dangle; the grab ends with its popup |
| Seat and input focus (`mod.rs`, `seat.rs`) | `pointer_focus`, `focus_window` | enter, motion, button, leave, focus, key, dismissal | events for windows that are gone, out-of-order leaves, a surface with several roles | enter before use, no stray leave |
| Subsurfaces (`mod.rs`, `compositor.rs`) | parent and offset of each subsurface; sublayers per native window | present, reap, resolve to a root window | cycles, ancestors that die first | the walk ends; a sublayer is where its parents lead and goes with its subsurface |
| AppKit buttons and menus (`mac.rs`) | `IMPLICIT_GRAB`, `GRAB`, key window | press, release, drag, become or resign key | two buttons, drag-select, a menu that closes under the cursor, two threads one step behind each other | releases follow their press; the click that opens a menu selects nothing; the keyboard comes back from the last menu |
| Window size (`mac.rs`, `mod.rs`) | `cur_w`, margins, the delegate's `last`, `SAVED_FRAMES`, `RESIZE` | `windowDidResize`, `present_frame`, edge resize, fill and back | configure and buffer answer each other | it settles, window and buffer of one size |
| Input bus (`input.rs`) | queue, waker pipe | push, drain, `set_waker` | push before the waker exists, full pipe | no event is forgotten |
| Clipboard (`clipboard.rs`, `mac.rs`) | selection owner, `mac_offer`, `PB_STATE` | set, advertise, serve, read; the pasteboard watcher | one reader thread per copy, self-written changes, other programs | one owner, no stale offers, no change missed or bounced |
| Primary selection (`primary_selection.rs`) | selection owner, devices | set, forget, advertise, receive | owners that die | offers name the live owner |
| Multiplex router, hosts (`router.rs`, `host.rs`, `ipc.rs`) | `win_to_app`, helpers | route, broadcast, spawn, shut down | failed spawn, crashed host, reordering between hosts | commands reach the one host that owns the window |
| RAIL routing (`rail_route.rs`, `rail.rs`, `rail_bridge.c`) | known windows and kinds, `LIVE_WINDOWS` | order, update, delete, map, resolve, disconnect | demotion, deferred windows | one native window per visible app window |
| Docked bars (`layer_shell.rs`, `mod.rs`) | exclusive zones, reserved insets | present, reap, recompute | arbitration of the keyboard, insets in other processes | insets are the sum of the bars that exist |
| Frame pacing (`mod.rs`, `presentation.rs`) | callbacks and feedback due | commit, tick | a callback that is never released | every callback is answered once |
| Shm pools (`mod.rs`, `shm.rs`) | pool mapping | create, resize, copy | numeric bounds, pool remapped under a buffer | no copy leaves the map |
| Popup placement (`mod.rs`, `xdg_shell.rs`, `mac.rs`) | none | `popup_origin`, `constrain_axis` | flip, slide and resize combined | on screen when it fits |
| Orchestrator (`cli.rs`, `main.rs`) | pidfiles, children, shared audio server | up, up --detach, stop, stop --all | two invocations at once, starts that failed half-way, children without a pidfile | a stop leaves nothing of its instance; shared audio ends with its last user |

Color management, cursor images, decoration, icon, activation and dialog forwarding, the
output and scale announcements, and the inert protocols (pointer constraints, relative
pointer, shortcuts inhibition) hold little control of their own; containers, scripts, the
waypipe patch and the test client are not part of the compositor. PROJECT.json lists each with
its status, and under "hazards" the lines where each of the difficulties above bites.

## What is modelled

| Module | Extends | Models |
|---|---|---|
| `CommandQueue` | | a queue of `WinCmd`s and what handling it does to the screen and the grab |
| `ShellWindows` | `CommandQueue` | Wayland thread, AppKit thread and the two queues between them |
| `WindowScreen` | | the abstract screen `ShellWindows` implements |
| `WlSurfaces` | | the wl_surface objects |
| `SeatFocus` | `WlSurfaces` | focus, and the events clients are sent |
| `MenuInput` | `CommandQueue` | buttons, menus and the keyboard, where AppKit and the Wayland thread meet |
| `Subsurfaces` | `WlSurfaces` | chains of subsurfaces and the sublayers of native windows |
| `WindowSize` | | the size of one window between user, client and program |
| `RailRoute` | | the windows of a RAIL session |
| `MultiplexRouter` | `CommandQueue` | router and window hosts of `--multiplex` |
| `AppScreens` | `WindowScreen` | the abstract screens of several apps, which `MultiplexRouter` implements |
| `InputBus` | | events on their way to the Wayland thread, and its poll loop |
| `Clipboard` | `InputBus` | the Wayland selection and the macOS pasteboard |
| `CliInstances` | | several invocations of `up` and `stop` at once |

Each `MC*` module gives a model its instance, each `*_proofs` module holds its theorems; `Surfaces_proofs` holds those of three small models, `SeatFocus`, `Subsurfaces` and `WindowSize`.
Where two models meet in one module, `Init`, `Next`, `Spec` and `TypeOK` of one bear a prefix (`SeatInit`, `SubInit`, `SizeInit`, `ClipInit`, `CliInit`, ...).

Four runs check two models each (`MCSeatAndRail`, `MCRouterAndSubs`, `MCClipboardAndSize`, `MCCliAndMenus`). The two share no state and do not meet in the program: a variable `part`, chosen at the start, says
which of them a behaviour is about, and the other keeps one initial state and does nothing. What such a run explores is the states of the one model and then those of the other.

### CommandQueue

`ShellWindows` and `MenuInput` have one queue of window commands, the main dispatch queue; `MultiplexRouter` has one per host. What is to be said of
all of them is said here, of any sequence of commands: `Shown` is what is on screen after the first `n` of them, `Leads` that
they take the screen from one set of windows to another without a command missing its window, `Held` that the grab
belongs to a popup that lives or is about to be taken away, `Anchored` that it waits for no window. `CommandQueue_proofs` proves once what a command appended, and one handled,
does to each.

### ShellWindows

Both threads and both queues. `Surfaces` are the wl_surfaces; window ids are `1 .. MaxWindow`
in the order `alloc_window_id` hands them out, `0` stands for `None`. The three record maps are
one set `live` with the `kind` of each id (an id is only ever in one of them), the three role maps
are `roleOf`, and the booleans on the records are sets of ids.

| Actions | Code |
|---|---|
| `GetToplevel`, `GetPopup`, `GetLayerSurface`, `Grab` | the requests of `xdg_shell.rs` and `layer_shell.rs` |
| `CommitNothing`, `CommitBuffer`, `CommitNull` | `handle_commit` with what was attached, then `present`, `present_layer` or `unmap_surface` |
| `ReapToplevel`, `ReapPopup`, `ReapLayerSurface`, `SurfaceDestroy` | `reap_*`, `wl_surface.destroy` and the `destroyed` hooks |
| `PopupDismiss`, `AppDeactivated` | those events in `process_input`, through `dismiss_popup` |
| `HandleCreate*`, `HandleFrame`, `HandleSetGrab`, `HandleDestroy` | `mac::handle`, one command per turn |
| `MouseDropsGrab`, `PressOutside` | `grabbed` and the outside press in `handle_button` |

Clients are not trusted: a surface may get several roles, objects die in any order, and a client
that is killed is the sequence of its objects' `Reap` and `SurfaceDestroy` steps (the backend runs
the `destroyed` hooks one by one). `popupDone` and `grabber` are history, read by properties only.

Abstracted: sizes, titles, states, pixels, positions, the ping and serial bookkeeping. A commit
and the attach before it are one step, since only the commit reads the attachment. Over-approximated:
`AppDeactivated` may dismiss any popup, not only the one with the focus. Left out: surfaces
used as cursors or subsurfaces, whose commits post other commands. A surface exists from the start
and is not created again after it died (an id that is reused is a different key in the code).

`WindowScreen` is the abstract specification: a set of windows the clients want, a set on screen, and
per window a count of changes the screen has yet to follow. `ShellWindows` has the refinement
mapping (`Screen`): wanted is `created_window`, in flight are the queued Creates and the queued Destroys
that will find their window. `ShellWindows_proofs` proves that every step maps to one of its steps or a stutter, `MCShellWindows` states the whole, with its fairness.

### SeatFocus

`process_input` and `ensure_pointer_focus` with the wire events clients are sent, against an open
AppKit side: any input event may arrive for any window at any time. This is a larger set of behaviours than
the queue of the code allows, so what holds here holds there. `sent` is what the last step
told clients, `pointerIn` and `keyboardIn` which surfaces were entered and not left since; all three are
history. One client's view of a surface is modelled, as only the owner of a surface is ever told of it.

Assumed: clients destroy a surface's role object before the surface, as xdg-shell demands. Left out: axis
events, for which the code asks for no focus (`PointerAxis`, `mod.rs:1328-1339`, goes to every live pointer of every client, entered or not, so there is no order to keep: a client may be scrolled
without an enter, which no comment rules out); resize configures; the activation state and the selection offer that go with `Focus`.

Seen here: `present_layer`, and the `Focus` event that `create_popup` pushes, enter a surface without a leave for the one that has the keyboard, so a surface may be entered twice. The comment at `mod.rs:1359-1362` rules
that out, and the check below it sees to the second enter of one window in a row only. `NoStrayLeave` speaks of leaves; no property here claims that enters are not repeated.

### MenuInput

`ShellWindows` leaves open what the user does and `SeatFocus` what AppKit reports; here the two are joined, for what depends on both: to whom a button goes, and who has the
keyboard once menus are gone. The Wayland thread and AppKit are each behind the other by `queue` and `bus`.

| Actions | Code |
|---|---|
| `GetPopup`, `Grab`, `Present`, `Unmap`, `ReapPopup` | `State.popups`, `dispatch` of `xdg_popup.grab`, `present`, `unmap_surface`, `reap_popup` |
| `HandleCreatePopup`, `HandleSetGrab`, `HandleDestroy` | `create_popup`, and `handle` with `restore_focus_under_cursor` |
| `WindowDidBecomeKey`, `WindowDidResignKey` | the delegate's callbacks and `popup_open` |
| `MouseDown`, `MouseUp` | `handle_button`: `grabbed`, outside press, `IMPLICIT_GRAB`, release of a drag into the menu |
| `MouseMove` | the cursor, and `grabbed` asked by a mouse event |
| `PointerButton`, `FocusIn`, `FocusOut`, `PopupDismiss`, `AppDeactivated` | the arms of `process_input` |

The screen is a few places, each more than `handle_button`'s six points from the next, and `Frame` says which windows cover a place. Menus lie above windows; among windows, and among menus, which one
gets a press is open, and so is the order in which `restore_focus_under_cursor` looks. Delegates may be told of any key window at any time. AppKit sends a release to the view the
button went down on, as long as its window exists.
`held` is the window a button went down on, as AppKit knows it: when it closes (`CloseView`) the view is gone for good, and a menu shown again under the same id is another one.
`went` (where a press went that waits for its release), `moved`, `chorded` (buttons held while another one was) and `stranded` are history.

Assumed: a grab comes before the first buffer (a later one is a protocol error), toplevels stay, and one client has all windows. The user may hold any number of buttons at once.
When the window a button went down on has closed, AppKit has no view to report the release to, and the program does not make one up: the press stays without a release (`MouseUp`, second disjunct, which leaves `went` as it is).
Left out: motion, enter and leave (`SeatFocus`), scrolling, tooltips, the moves and resizes a drag may start, and frames.

### Subsurfaces

One client's surfaces, the records `subsurfaces` and `surface_subsurface`, and the sublayers of each native window. `Walk` is `resolve_subsurface`, a recursive function of the
surface and the set of those already passed. `Way` says without recursion which surfaces that walk passes: the least set closed under parents, up to the one below a window. A command posted takes effect with the request: the queue is in order, nothing else draws, and what `ShellWindows` says of windows is not repeated.

| Actions | Code |
|---|---|
| `CreateSurface`, `DestroySurface`, `Disconnect` | `wl_compositor`, `wl_surface.destroy` and the `destroyed` hooks (subsurfaces have none) |
| `GetShellRole`, `DestroyShellRole`, `PresentWindow`, `UnmapSurface` | roles and windows at the root of a chain |
| `GetSubsurface`, `DestroySubsurface` | `get_subsurface`, `reap_subsurface` |
| `PresentSubsurface` | `present_subsurface`, and `SubFrame` in `mac.rs` |

`broken` is history: subsurfaces one of whose links died before them. Assumed: a surface keeps its role, and gets a second `wl_subsurface` only after the first was destroyed. Parents are
whatever the client says, so chains may be cycles. Left out: positions, pixels, and bars and cursors as roots.

Seen here: when an intermediate surface goes first, `reap_subsurface` of the one below it resolves to no window, posts no `SubDestroy`, and the sublayer stays, although its comment (`mod.rs:1201-1202`) says
"Tear down a subsurface and remove its sublayer". `SublayersFollow` exempts it (`broken`). And against no promise: a NULL buffer leaves the last picture of a subsurface; a `SubFrame` that comes before the
window of its root is dropped and comes again only with the next commit.

### WindowSize

One axis of one window. The user drags the native edge (`DragEdge`, `DropEdge`) or, after `xdg_toplevel.resize`, the client's (`TryResizeWindow`, `MouseUp`); the client resizes itself or asks to fill the
screen and back (`ResizesItself`, `Requests`); `PresentFrame`, `HandleFill`, `HandleStartResize` are the commands, and `WindowDidResize` is what AppKit's resize notification does within each of them.
`Configured` is the client outside the program, which answers a configure with a buffer and may skip those a later one has overtaken. A shadow makes the buffer larger than the content.

Two histories. `excused` names when nothing in the code makes the sizes agree: the client resizes itself behind a title bar, or while the native edge is held; a frame has the size of the last one, `cur_w`, though the
user resized the window in between; a frame's size is sent back as a request while other sizes are on the way; AppKit changes the window while the
client's edge is held, or to the size the delegate reported last (`last`), or to one the client's shadow leaves no content in. Each was added for a behaviour TLC found, and each is a way to end with a window of another size than its picture.

`fed_back` names the one case in which the exchange need not even end: a frame of a size that AppKit did not ask for (the client resized itself, or its edge was dragged) resizes the window, and `windowDidResize`, called from within
`present_frame`, sends the size back with the shadow in it, since `WINDOWS` is borrowed. `fed_back` is not set for answers to `windowDidResize` itself: that the size it asks for, less the margin, comes back as the size of the window is what `SizesSettle` has to show, and
without the subtraction it fails. That the fed-back size breaks what `mac.rs:808-809` says is the run `runaway_size`. `by`, in requests and frames, is who wanted the size, for these histories only.

`try_resize_window` asks the client for the size of the window where `windowDidResize` asks for that of the content; the frame that answers it sets this right. Left out: the other axis and positions, minimum and maximum
sizes, minimising, the constraint to the screen, RAIL windows.

### RailRoute

One thread, so an action is a whole callback from FreeRDP: the bridge (`rail_bridge.c`), the policy (`rail_route.rs`) and the native windows
(`rail.rs`) in one step. What is hard is the order in which the server sends things.

| Actions | Code |
|---|---|
| `RailWindowCreate`, `RailWindowUpdate` | `route_window_order`: `win_alloc`, `apply_state`, `Router::window_order`, then `on_window_create`, `on_window_update`, `on_window_delete` as the decision says |
| `RailWindowDelete` | `rail_window_delete`, `Router::window_deleted` |
| `RailUpdateSurfaceArea`, `RailMapWindowForSurface`, `RailUnmapWindowForSurface` | the surface callbacks with `Router::resolve`, `emit_surface` and the frames held back |
| `OnDisconnected` | `on_disconnected` |

`kind`, `owner` and `rect` are the router's map, `slot` the bridge's table, `pending` the frames it holds, `LIVE_WINDOWS` and `native` what `rail.rs`
opened and what is on screen. `posted` (the frame the last step posted) and `dropped` (surfaces whose latest frame was held and dropped by its mapping) are history.

The environment is the server, and open: any order may carry any style, owner and rectangle, in any sequence. Two assumptions are made. The
server announces a window once (`WINDOW_ORDER_STATE_NEW`) before it is deleted; an announcement of a window that already has a slot would be an update.
And FreeRDP's own surface-to-window table (`OwnWindows`), which the router consults second, may name anything. A rectangle is given to the router
with every order, whether or not the order carries one, and is left open then.

Left out: titles, icons and positions, cropping, the `--rail` handshake and input going back to the server.

### MultiplexRouter

The Wayland thread with the router, and one host per app.

| Actions | Code |
|---|---|
| `PresentInHost`, `PresentInNewHost`, `PresentUnhosted` | `assign_window`, for an app with a helper, one whose `spawn_helper` succeeds, and one whose `spawn_helper` returns `None`; then Create and Frame |
| `PresentPopup`, `PresentAgain`, `Grab`, `DismissPopup` | `route` of CreatePopup, Frame, SetGrab to one host and SetGrab to all |
| `CloseWindow`, `CloseLastWindow` | `route(Destroy)`, which ends the host of an app's last window |
| `RecomputeReserved` | `broadcast_insets` |
| `HandleCmd`, `ReadInsets` | main thread and reader thread of a host |
| `Crash` | a host process dies, which the router does not notice |

`down[a]` holds what was written to a host and not handled, in the socket or its main queue; a crash or a kill loses it. Clients are open here: a
window is presented, closed, hidden, grabbed for as `ShellWindows` shows the Wayland thread may do. `AppOf` and `ParentOf` fix whose a
window is, which the router is told for toplevels only. The ids of toplevels are not used again, those of popups are, since a hidden
popup keeps its id.

`AppScreens` is the abstract specification: `WindowScreen`, and a step by which an app loses its process, with all of its windows and changes in flight and nothing of another's. In the refinement mapping (`Screens`) a
window is wanted while it is registered and its host lives, and shown while it is in the `WINDOWS` of its own app's host.

Left out: the mouse event that drops a grab without a window (`grabbed`), since a grab that reaches a host finds its window there (see `GrabsStayInTheirHost` below); cursor commands, which are broadcast and change nothing kept here; a host that hangs, whose socket then blocks the Wayland
thread (a hazard in PROJECT.json); and the way input takes back.

### InputBus and Clipboard

`InputBus` has the push of `input.rs` in its two halves (the event under one lock, the byte through the waker under another) and the poll loop of `wayland::run`, of
which `loop` says how far it is: `SetWaker`, `Poll`, `Drain`, `Take` for each event, `TurnDone` for the rest of the turn. `early` is history: an event of the queue was pushed before there was a waker.

`Clipboard` puts the selection on top: requests are dispatched while `loop` is at the end of its turn, events handled as they are taken.

| Actions | Code |
|---|---|
| `GetDataDevice`, `SetSelection`, `ClearSelection`, `DestroySource`, `Disconnect` | the requests of `clipboard.rs`, and the end of a client, of which `wl_data_source` has no hook |
| `HandleEvent` | `set_mac_selection`, `advertise_to_client` on `Focus` |
| `Flush` | `flush_clients`, `flush_done` |
| `ReadText` | a `clip-read` thread at the end of its pipe, with text or without |
| `WritePasteboard`, `MarkWritten` | `set_clipboard` up to `setString`, and from `changeCount` |
| `TickCount`, `TickPush`, `PushDone` | `clipboard_tick`: the count, the text, the rest of the push |
| `FocusIn` | a key window change, as far as it concerns the selection |
| `ForeignCopy` | another program; the only step that may fall between any two |

Texts are values: a source stands for what its client copies, and no other program copies the same. `told` (the last selection event of a client's device) and
`owners` (sources set and not cancelled) are what the clients know. One assumption about clients: a source is set once, as the protocol demands. Any client that has a device may clear the selection at any time, its own or not: `set_selection(None)` asks nobody.
`forgotten` is history: owners that the program forgot when another client cleared.

Left out: MIME types beyond text or not, several devices of one client, `serve_offer`, which changes nothing, and the end of the loop on a poll error.

### CliInstances

Invocations of the program that run at once, each with a program counter, and what they share: pidfiles, the children they spawned (named by invocation and kind), and whether the audio server runs.

| Actions | Code |
|---|---|
| `StartPulseaudio`, `CheckCompositor`, `DiscoverSocket`, `Spawn`, `SpawnFails` | `cmd_up` and `start_pulseaudio`, `start_compositor`, `discover_socket`, `start_waypipe`, `start_socat` |
| `Signal` | `run_foreground`, Ctrl-C |
| `KillChild`, `Pkill` | `stop_instance`: the three pidfiles in order, then `pkill` |
| `LookAt`, `RemoveStale` | `discovered_ports`, an entry at a time; a dead one is removed after it was read |
| `ListDone`, `NextOfAll`, `ScanDone`, `StopSharedAudio` | `cmd_stop`, `stop --all`, and the shared audio at the end |
| `Abort`, `ChildCrashes` | `exit` on a failed build or a missing socket, Ctrl-C before the handler; a child dies |

A zombie is a process to `kill(pid, 0)`: an invocation that runs in the foreground waits for none of its children, and `init` takes them when it is gone. `pkill -f` matches its pattern anywhere, so a port that begins with the digits of another is hit too (`PortExtensions`).
A spawn and its pidfile, and a kill and the removal of its pidfile, are one step each; pids are not reused; a `kill` is obeyed. `excused` and `starters` are history.

Left out: the RAIL back-end, whether builds and scripts are there, the text of logs and messages.

Seen here, against no promise but the last (what `muted_start` shows is a finding): `up` trusts a compositor that died in the foreground of another invocation (a zombie); a
file read as dead is removed even if it was rewritten since, which leaves a compositor nobody finds; two `up`s of one port orphan the first compositor. `stop --all` stops the instances whose compositor lives, so the waypipe and
socat of one whose compositor died stay, although `cli.rs:27-28` speaks of every instance.

## What the runs show

| Run | Instance | Shows |
|---|---|---|
| `shell_windows` | two surfaces, two windows, up to three commands and one dismissal in flight; 378,632 states | the five safety properties below, that a stale grab ends, and that the system implements `WindowScreen` |
| `seat_and_rail` | seat: three windows, two surfaces. RAIL: three windows, one surface, the rectangles of a frame and its content. Symmetric; 324,504 states | enter before use, no stray leave; no phantom frames, native windows are the app windows, pixels stay in their window |
| `router_and_subs` | router: one app with two toplevels and a menu, one with a toplevel, two values of the insets, two commands in flight per host. Subsurfaces: four surfaces, two subsurface objects. 380,450 states | hosts follow the router, whatever fails, and the system implements `AppScreens`; what is drawn is where its parents lead |
| `clipboard_and_size` | clipboard: two clients, a text and a picture to copy, one copy of another program after the start. Sizes: four sizes, with and without title bar, shadows of 0 and 1, three initiatives of user and client. 1,007,507 states | owners, offers and watcher agree, no lost wakeup, what the Mac copies is offered; sizes settle |
| `cli_and_menus` | command line: `up --detach`, `up`, and `stop` or `stop --all` on two ports, the digits of one a prefix of the other's, one failure. Menus: one window, two menus, one over it and one beside it, two buttons, three places, a command and an event or two in flight. 3,200,496 states | a stop is complete, no instance it could see loses its audio; releases go where they should, the keyboard comes back |
| `grab_before_paint`, `rail_idle_app`, `wayland_paste`, `stray_clear`, `muted_start`, `runaway_size`, `two_buttons` | those above or smaller | a counterexample each, see Findings |

* `WindowsFollowRecords`: when the queued commands are handled, a native window is on screen exactly when its record
  lives and says `created_window`.
* `CommandsFindTheirWindow`: no queued Create meets a window that is still there, no queued Frame one that is not.
* `RolesNameLiveRecords`: role maps never dangle, so `present` cannot panic on its index.
* `GrabNeverOutlivesPopup` and `StaleGrabEnds`: a grab of a popup that is gone is always about to be taken away, and is.
* `AtMostOnePopupDone`: between two showings a popup is dismissed at most once.
* `ScreenFollowsClients`: every create and destroy takes effect once and in order, and none is left behind.
* `EnterBeforeUse`, `NoStrayLeave`: no client gets motion, buttons or keys for a surface it was not told to have, nor a leave for one it has not.
* `ReleasesFollowPresses`: when a button that was down alone comes up in a window that is still there, its release goes to where its press went, or to the menu the cursor was dragged into, and nothing is sent if the press went nowhere. Exempted, by name: a button held together with another (`two_buttons`), and one whose window has closed, whose press stays without a release.
* `KeyboardComesBack`: with no menu left and nothing on the way, no menu has the keyboard, unless the cursor was over no window when the last one closed.
* `SublayersFollow`: a sublayer is in the window the walk from its subsurface reaches, and its subsurface exists, unless a link between the two went first. TLC evaluates `Walk` on every shape it reaches, cycles included; that it ends on all is a theorem.
* `SizesSettle`: in the end window and buffer are of one size and no request is on the way, but for the named excuses and for a size that is fed back to a client with a shadow.
* `NoPhantom`: no app window is a frame around a window it owns, whichever of the two was announced, moved, re-owned or restyled last.
* `NativeWindowsAreMirrored`, `AppWindowsAreShown`: a native window is open for an app window only, once, and for every app window that has a size,
  also if the size or the promotion came late.
* `PixelsStayInTheirWindow`: a frame shows in an app window, and if its surface is mapped, in that one.
* `HelpersHaveWindows`, `WindowsInTheirApp`: an app has a helper exactly while a window is registered for it; only created windows are registered, and popups of any nesting with
  the app of their client.
* `HostsFollowRouter`: what is on its way to a living host leaves it with exactly the windows registered for it, no command missing its window.
* `GrabsStayInTheirHost`: a host's grab is of a popup of its own or about to end, and its window is there before it. It speaks of grabs asked for after the menu was shown once: what `grab_before_paint` shows does not happen in a host, but only because the grab of a fresh menu never reaches one (see Findings).
* `InsetsFollow`: the last insets a living host was told, by its Hello or since, are those in force.
* `ScreensFollowApps`: router and hosts implement `AppScreens`, with its fairness. No create or destroy is lost, repeated or late for ever, but by the end of a host, and that takes the windows of its app alone.
* `NoLostWakeup`: a queued event has its byte in the pipe, is about to get it, or is about to be drained; only what came before the waker waits for the next push.
* `OwnersAgree`, `ToldIsCurrent`: a source that was not cancelled is the active one, unless another client's clear made the program forget it (`stray_clear`); an offer a client holds is the one in force.
* `WatcherMissesNothing`, `NoBounce`: the last text pushed is the one on the pasteboard when the watcher is content with a change of another program, and no client's copy comes back as an offer.
* `MacTextOffered`: what another program copies is offered, unless it is gone again, was taken for our own or came before the waker.
* `StopIsComplete`: after a stop nothing runs for its port and no pidfile is left, whatever crashed or was replaced, unless two invocations worked on that port at once.
* `SeenInstancesKeepAudio`: when audio is torn down, every live compositor that a pidfile names was started during that stop. An instance without a pidfile yet is not seen (`muted_start`).

**Bounds.** Two surfaces and two windows let one surface carry two roles, a window be replaced by another on
the same surface, and two popups compete for the grab. `MaxQueue` guards posting, and one step may post two
commands, so three are in flight at most: enough for Destroy, Create and Frame of one window, the longest sequence the re-show
race needs. Three windows in `SeatFocus` give the focus a previous, a current and a next window on
two surfaces. Three RAIL windows make a frame, its content and a third that may own or be owned by either;
the two rectangles cover one another in one direction, as an app's do. The bridge's tables are never full in this run (three slots, one held frame for one
surface): that a full table drops an order or a frame and breaks nothing else is shown by the proofs, which hold for every `MaxSlots` and `MaxPending`. Three toplevels and a menu make an app that loses its last window, one that loses one of two, and a popup that outlives its
parent; `MaxDown` guards each step, which may write two commands, so three wait at most. 
In `MenuInput` one menu opens over the window and one beside it, so a release can be over the opener, over a menu or over nothing; a third place is off all windows. `MaxQueue` and `MaxBus` guard each push, which may write two events: AppKit may have told of
a deactivation and the focus-out behind it while the commands of a dismissal wait. With two buttons the bounds are one each, so a command and one or two events wait; more than that is left to the theorems, which hold for queues of any length and any number of buttons.
`cli_and_menus` tells states apart by a `VIEW` (`MenuView`). It leaves out two histories where nothing reads them any more, no guard, no step and no property: where the press of a button went that is up, whose window has closed or that was held beside another
one, and whether the cursor moved while two were held. The next press of the button writes both anew.
Four surfaces and two subsurface objects make a chain of two below either of two windows, a cycle of two, and a surface that is made a child a second time; longer chains and cycles are left to the theorems. Three
initiatives let user and client both come in, one of them twice, with a request and a frame under way from the time before (four in `runaway_size`); `MaxSize` is how many points a client has pixels for, the screen and a shadow, and only sizes that are fed back go beyond: a client that is asked for more does not answer.
Three invocations on two ports have a start beside a start and a stop beside both; the one failure is a child that crashes, a start that fails or an invocation that is killed, at any point (the theorems hold for any number). Two sources make an owner and its successor; `MaxCopies` lets another program copy once after what it had on the pasteboard at the start, between any two steps of
a write or a tick; `MaxQueue` of `Clipboard` lets a focus change wait behind a text or before it. Bounds appear in guards only: a step beyond them is not taken. The safety properties are proved without
them, see below.

**Fairness.** `FairSpec` assumes weak fairness of the AppKit queue and of the handling of dismissals: the main run loop executes
every dispatched block, and the poll loop drains the bus whenever the pipe is readable, as long as the process lives.
A living host runs its main loop and its reader thread, so `MultiplexRouter` assumes weak fairness of `HandleCmd` and `ReadInsets`; a crash disables them.
`WindowSize` assumes that the main loop handles its commands and that user and client let go: a client answers its configures in the end, a dragged edge is dropped, a button released. Otherwise sizes cannot settle, and none of it depends on the program.
In `Clipboard` the poll loop runs (its timeout is 16 ms) and the main thread finishes what it began, weakly fair; the tick is strongly fair, since its timer puts it on the main
queue, which runs in order however much input there is. Clients, which may keep their pipes open, the user, other programs and the RAIL server owe nothing. `WindowScreen` and `AppScreens` ask weak fairness per window; it follows from the FIFO of its queue, or of its host's.

**Deadlock** is not checked in the runs that hold a model which may come to its end: once the ids are spent and every surface is destroyed, the RAIL session has ended, the sizes have settled or all
invocations are done, nothing is left to do.

Every property has a mutant of the code in PROJECT.json, an operator beside the one it replaces, that breaks it.

## What is proved

For every value of the constants, from the named assumptions of the modules alone (None is not an id, bounds are naturals, a popup and its parent are one
client's, the insets at start are insets, the surfaces that subsurfaces are made of are finitely many):

* `ShellWindows_proofs`: `TypeCorrect`, `RolesCorrect`, `WindowsCorrect`, `CommandsCorrect`, `GrabCorrect`, `PopupDoneCorrect`, and `ScreenCorrect`, the step refinement of `WindowScreen`.
* `Surfaces_proofs`: of `SeatFocus`, `SeatTypeCorrect`, `UseCorrect`, `LeaveCorrect`; of `Subsurfaces`, `SubTypeCorrect`, `SublayersCorrect`, `WalkCorrect`; of `WindowSize`, `SizeTypeCorrect`, `RestCorrect`.
* `MenuInput_proofs`: `TypeCorrect`, `KeyboardCorrect`, and `ReleasesCorrect`, for any buttons held in any way.
* `RailRoute_proofs`: `TypeCorrect`, `PhantomCorrect`, `NativeCorrect`, `ShownCorrect`, `PixelsCorrect`.
* `MultiplexRouter_proofs`: `TypeCorrect`, `HelpersCorrect`, `WindowsInTheirAppCorrect`, `HostsCorrect`, `GrabsCorrect`, `InsetsCorrect`, and `ScreensCorrect`, the step refinement of `AppScreens`.
* `Clipboard_proofs`: `TypeCorrect`, `WakeupsCorrect`, `OwnersCorrect`, `ToldCorrect`, `WatcherCorrect`, `NoBounceCorrect`.
* `CliInstances_proofs`: `TypeCorrect`, `AudioCorrect`, `StopCorrect`.

None of the properties of `ShellWindows` is inductive. They are strengthened in four parts:

* `RecordsOK`: records and role maps agree, ids not handed out yet are used nowhere, `created` and `dismissed` belong to live
  records. It implies `RolesNameLiveRecords`.
* `QueueOK`: `Leads(Wins, queue, WINDOWS, created)`, and only windows of living records are created. It says at once what `WindowsFollowRecords` and `CommandsFindTheirWindow` say
  of the two ends of the queue. A posted command changes its end, a handled one its head: the lemmas of `CommandQueue_proofs`.
* `GrabNeverOutlivesPopup` is `Held(Wins, queue, GRAB, live, Popups)`, which also says that only popups ever
  hold the grab or are named by a SetGrab: a toplevel or layer surface that dies before it painted posts no Destroy, so it must not have it.
  The step that matters is `ReapPopup`, which takes the popup from `live` and appends the Destroy that ends its grab at once.
* `DoneOK`: a popup that is not marked as dismissed, or not born, was sent no `popup_done`. With the types it implies `AtMostOnePopupDone`.

`ScreenCorrect` maps `created` to the windows wanted, `WINDOWS` to those shown, and counts the changes in flight in the queue (`Changes`). A command appended adds one to the count or
leaves it (`ChangesAppend`), a command handled takes one away or leaves it (`ChangesTail`, by a bijection from the tail to the rest of the queue), and `QueueOK` decides which: a Destroy counts if the window will be on screen by then, which is if it is created now.

In `SeatFocus` the strengthening says that the surface of a focused, registered window was entered.

In `Subsurfaces` the walk comes first. The chain from a surface `Ends` at a window when some surface on its `Way` has that window for a parent. A way that ends passes no surface twice (`NoReturn`), for from each surface on it the end is
ahead and the one before the window goes nowhere else. `Found` says what the walk should return, given the surfaces seen; it solves the equation that defines `Walk` (`WalkTurns`), and by
a least set of surfaces not yet seen (`LeastRest`: the strict subsets of a finite set are well founded, which stands in for an induction and needs that the surfaces are finitely many) `Walk` can be nothing else (`WalkFinds`). So `resolve_subsurface` has
a value on every shape, cycles included, and it is the window at the end or None: `WalkCorrect`, which is also what the guard at `mod.rs:1179-1190` is for.
`TreeInv` is then the types, `RolesOK` (a surface has one role for good, so no link of a chain is a window) and `Drawn`, which is `SublayersFollow` said of links. A step keeps a way whose links and window it leaves alone (`WayKept`), and whatever else it does breaks the link of a subsurface that it
marks.

`SizesSettle` is a liveness property; `RestCorrect` is its safety half: whenever no request and no command is on the way, window and buffer agree, or `excused` applies; `fed_back` is not needed for it, as an exchange that comes to rest comes to rest in agreement. `SizeInv` says who will see to it: a window that
follows no frames has told the client its size (`Heard`), any other has an answer or a frame still to come (`Waits`). `CommandsOK` adds that the last frame on the way is of the picture there is now, with the shadow AppKit knows. With `RestCorrect`, all that is left to
TLC is that the exchange comes to rest.

In `MenuInput`, `KeyboardOK` says that whenever no menu is open and none was closed off all windows, the events on their way `Return` the focus to a window: the last focus-in among them names one, or there is none and a window has it already. It holds for any rule of who gets the focus under the
cursor. `ButtonsOK` says of a button that is down and was alone all the time: no other is down, `IMPLICIT_GRAB` is where its press went (nowhere, if it dismissed a menu) and `IMPLICIT_GRAB_ORIGIN` where the cursor still is unless it moved. Presses that stay without a release, their windows gone, do not disturb it: the next press overwrites both cells.

In `RailRoute`, `NoPhantom` is inductive with the types: an order can make a cover only of the window it is about or of its owner, and both are
judged again in the same step. `Covers` is never expanded, so this holds of any rule for what a frame is. The native windows need
`NativeOK`: a window has a slot exactly when the router knows it, and the two properties together.

In `MultiplexRouter`, `RegistrationsOK` is the two properties about registrations; they need each other for popups, whose app is their parent's. `HostsOK` then says of every
host that is up that its channel `Serves` the windows registered for it (`Leads`, `Held` and `Anchored`), and of every other that nothing is left of it. The latter is
what `InsetsFollow` needs when an app gets a new host. Appending and handling are again the lemmas of `CommandQueue_proofs`.

`ScreensCorrect` needs the same two invariants and the counting of `ScreenCorrect`, host by host. A write to a host that lives is the clients asking; one to a host that crashed, or to none, is a stutter, since its windows are not wanted any more; `CloseLastWindow` and
`Crash` are the loss of a process.

In `Clipboard`, `NoLostWakeup` is inductive with the types: the loop empties the pipe before the queue, a push fills the queue before the pipe. The others need one more fact each: `OwnersAgree` that only living sources believe they own (whoever is not forgotten);
`ToldIsCurrent` that who was told anything is among the devices a new offer goes to; `WatcherMissesNothing` that the count seen is never ahead (`SeenBefore`), and two lemmas on what the events to come lead to (`Learnt`), the event appended
and the one handled; `NoBounce` that a text of ours on the pasteboard is known by its count once the write is marked (`OursIsMarked`).

In `CliInstances`, `AudioCorrect` rests on `AudioOK`: a stop which scans has every live compositor before it: still to be looked at, found, or started during the stop. `ListsOK` says the ports a program holds in its lists belong to the place it is at. What `pkill` matches is never expanded.
`StopOK`, on a port that is not excused: two at work excuse it, but for stops that only began (`OverlapOK`); a running compositor is the one its pidfile names (`NamedOK`); who starts one, or takes it for
dead, does so where none runs (`VacantOK`); a stop has removed the pidfiles up to where it is (`KilledOK`). `StopIsComplete` is what it says of a stop that is done.

Only model-checked: `StaleGrabEnds`, `MacTextOffered`, `SizesSettle`, and the liveness of `ScreenFollowsClients` and `ScreensFollowApps`: temporal properties under fairness are out of the
prover's reach, but for the step refinements and `RestCorrect` above, which are their safety halves. Every other property of a passing run is a theorem.

## Findings

`grab_before_paint`: `xdg_popup.grab` posts `SetGrab` before the popup has a native window (it is created by the first buffer). `grabbed`
(`mac.rs:1295-1306`), asked by every mouse event, clears a grab whose window is not in `WINDOWS`. If the pointer moves
between the two commands the menu comes up without its grab: outside clicks do not dismiss it, against
`xdg_shell.rs:214-215` ("route all pointer input to it and dismiss on outside click"). `ShownPopupHoldsGrab` states the
comment, and TLC finds the behaviour with one popup.

`rail_idle_app`: `rail_map_window_for_surface` clears the held frame also when the surface's window is not known yet (`rail_bridge.c:396-404`). In the trace the app paints before its surface is mapped and the frame is held; the mapping
precedes the window's order, finds no window and drops the frame; the window is then created and has no picture, which `rail_bridge.c:385-387` means to prevent for an app that paints once. `IdleAppIsNotBlank` counts only frames lost this way (`dropped`).

`wayland_paste`: `set_selection` (`clipboard.rs:151-180`) has the text written to the pasteboard but leaves `mac_offer` as it was, and `clipboard_tick` (`mac.rs:192-196`) skips the change as our own. All clients, also the next to get the focus, are
offered what was on the pasteboard before, until another program copies; `clipboard.rs:4-5` means Wayland-to-Wayland copy and paste to work by way of the pasteboard.

`stray_clear`: `set_selection(None)` (`clipboard.rs:151-156`) sets `active_source` to None for any client and cancels nothing. When the clear is not the owner's (in flight behind another client's copy, or from a client that never copied), the owner is
forgotten, and the next `set_selection` has no previous source to cancel: two sources take themselves for the owner, against `clipboard.rs:157` ("Cancel any previous client source this one replaces"). The comment at line 153 ("Client cleared its own selection") takes for granted what nobody checks.

`muted_start`: `up` sees to the audio server first and writes the compositor's pidfile later, after a build. A stop of another port in between finds no pidfile and ends the server (`cli.rs:504`), against `cli.rs:163-165` ("only torn down when the last instance stops") and
501-503 ("otherwise stopping one instance would mute the others"). `OthersAreNotMuted` counts an instance from the moment its start has been through `start_pulseaudio`.

`runaway_size`: `present_frame` holds `WINDOWS` while it resizes the window, so the `try_borrow` in `windowDidResize` fails and the shadow is not subtracted (`mac.rs:815`). A client with a shadow that resizes itself is asked for a content of its buffer's size, answers, and the
answer does not fit: the window grows by the shadow and asks again, against `mac.rs:808-809` ("Subtracting the margin makes the returned buffer match the current window size, so it settles immediately"). `AnswersFit` speaks of answers alone, when nothing else is on the way and nothing is excused.

`two_buttons`: with two buttons down, the first release takes `IMPLICIT_GRAB` and the second is sent to nobody (`mac.rs:523`), against `mac.rs:517-518` ("A release belongs to the surface that received the press").

Other behaviours of the models, for which no run is spent. Some contradict a comment:

* In `--multiplex` mode a menu's grab is dropped without any race: `router::target` sends it where `win_to_app` has the popup (`router.rs:182`), but the router learns of a popup from its CreatePopup, at the first frame (`router.rs:119-127`), and the grab of a fresh menu is always asked for earlier. So `xdg_shell.rs:214-215` is not true there.
* `has_covering_child` (`rail_route.rs:160-170`) counts every owned window that covers, also one the router filters by its style. A covering tool window, or an owned window that never activates, demotes its owner, and neither is mirrored; `rail_route.rs:34-36` says "the covering child is kept".
* An order without the STYLE field turns a known app window into a frame when it has a covering child by then (`rail_route.rs:186-195`), against `rail_route.rs:172-174` ("a geometry-only order (which never reclassifies [...])").
* Two more ways to a blank RAIL window, beside `rail_idle_app`: a frame that resolves to the only window there is while that window is deferred is posted to an NSWindow which does not exist (`rail_bridge.c:367-376`, `rail.rs:198-200` and 285-322); and a frame that is held after the mapping of its surface named a window not known yet is flushed by no creation of that window, only by another mapping.
* Keyboard enters without a leave (`SeatFocus`, against `mod.rs:1359-1362`) and sublayers that stay (`Subsurfaces`, against `mod.rs:1201-1202`), see there.
* `restore_focus_under_cursor` gives the keyboard to whatever lies under the cursor, also to a window that is not key and to a tooltip, against `mac.rs:749-752` (focus follows the key window, not the pointer), and to nobody off all windows.
* Grabs do not nest: when a submenu closes, `GRAB` is None and the window under the cursor gets the keyboard while its parent menu is open, against `mac.rs:756-757` and `1122-1125`.

And some contradict nothing written down: the copy whose client writes slower wins, whichever was first (`read_text_async`); a text that another program copies between `setString` and
`changeCount` is taken for our own and never offered; a press outside a menu, dragged back into it before it closes, releases there without a press; an app that is deactivated while its menu is being created leaves the menu open; `dismissed` stays set when a popup is shown again.

## Plan

1. `ShellWindows`, `WindowScreen`, their proofs and the step refinement: done.
2. `SeatFocus`, its proofs: done.
3. `RailRoute`, its proofs: done.
4. `CommandQueue`, `MultiplexRouter`, their proofs: done.
5. `InputBus`, `Clipboard`, their proofs: done.
6. `CliInstances`, its proofs: done.
7. `MenuInput`, its proofs: done.
8. `Subsurfaces`, `WindowSize`, their proofs; `AppScreens` and its step refinement: done.
9. `PrimarySelection`, with the Clipboard's rules of owners and offers; `LayerInsets`: reserved insets as the sum of the bars there are; `VblankLoop`: every frame callback is answered, once.
10. The pure algorithms (popup placement, shm bounds) against reference definitions.
11. `Desktop`: `MenuInput` with `SeatFocus` on the Wayland side in place of its `focus_window`.

Runs stay small: two or three windows, two processes, queues of two or three; each finishes within a few minutes.

## Not modelled

Primary selection, docked bars' insets, frame pacing, shm bounds and popup placement are open in the plan above; PROJECT.json says of each remaining part why it is not modelled. Beyond these: pixels, colours, glyphs and layout; Cocoa's own behaviour past its documented
callbacks; the Wayland wire format and the object lifetimes wayland-backend enforces; the files, builds and processes of the orchestrator other than that they are there; waypipe and the containers.
