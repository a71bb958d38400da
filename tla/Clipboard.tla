------------------------------ MODULE Clipboard ------------------------------
(***************************************************************************)
(* The Wayland selection and the macOS pasteboard (wayland/clipboard.rs,   *)
(* the clipboard part of mac.rs), over the input bus.  The actors are the  *)
(* Wayland thread, one reader thread for each copy, the AppKit main        *)
(* thread, which alone touches the pasteboard for us, and the other        *)
(* programs of the Mac, which do so at any moment.                         *)
(*                                                                         *)
(* A source stands for the text that its client copied: no other source    *)
(* and no other program brings that text.                                  *)
(***************************************************************************)
EXTENDS InputBus, Functions

CONSTANTS
  Clients,
  Sources,       \* wl_data_source objects
  TextSources,   \* those that offer a text MIME type
  ClientOf,      \* the client of a source
  MacTexts,      \* texts that other programs copy
  NoText,        \* None: no text, no offer
  NoSource,      \* None
  Untold,        \* a device that has had no selection event yet
  MaxCopies,     \* bound: copies of other programs
  MaxQueue       \* bound: events not yet handled when input comes

Texts == TextSources \cup MacTexts \cup {NoText}

MacClipboard(t) == [kind |-> "MacClipboard", of |-> t]
Focus(c)        == [kind |-> "Focus", of |-> c]   \* the other events are nothing to the clipboard

Events == {MacClipboard(t) : t \in Texts} \cup {Focus(c) : c \in Clients}

ASSUME EventsAssumption  == InputEvents = Events
ASSUME SourcesAssumption == /\ TextSources \subseteq Sources /\ ClientOf \in [Sources -> Clients]
                            /\ NoSource \notin Sources
ASSUME TextsAssumption   == /\ NoText \notin Sources \cup MacTexts /\ Sources \cap MacTexts = {}
                            /\ Untold \notin Texts
ASSUME BoundsAssumption  == MaxCopies \in Nat /\ MaxQueue \in Nat

VARIABLES
  (* Clipboard, Wayland thread *)
  mac_offer,      \* the text of the offer
  active_source,
  source,         \* wl_data_source objects: "new", "set" while alive, "gone"
  devices,        \* clients with a live data device: one for each
  (* reader threads *)
  reader,         \* of a text: "none", "queued" while our write end is in pending_close, "open"
  (* AppKit main thread *)
  main_queue,     \* texts of set_clipboard calls
  last_seen, self_wrote,   \* PB_STATE
  main,           \* "idle", "written" within set_clipboard, "counted" within clipboard_tick
  (* NSPasteboard *)
  changeCount, pasteboard,
  copies,         \* those of other programs
  (* what the clients were told *)
  told,           \* the last selection event of each client's device
  owners,         \* sources that were set and not cancelled
  (* history, read by properties only *)
  forgotten       \* those of them that the program forgot when another client cleared

wayland  == <<mac_offer, active_source, source, devices, told, owners, forgotten>>
watch    == <<main_queue, last_seen, self_wrote, main>>
board    == <<changeCount, pasteboard, copies>>
clipVars == <<busVars, wayland, reader, watch, board>>

ClipTypeOK ==
  /\ BusTypeOK
  /\ mac_offer \in Texts /\ active_source \in Sources \cup {NoSource}
  /\ source \in [Sources -> {"new", "set", "gone"}]
  /\ devices \subseteq Clients
  /\ reader \in [TextSources -> {"none", "queued", "open"}]
  /\ main_queue \in Seq(TextSources)
  /\ last_seen \in Nat \cup {-1} /\ self_wrote \in Nat \cup {-1}
  /\ main \in {"idle", "written", "counted"}
  /\ changeCount \in Nat /\ pasteboard \in Texts /\ copies \in 0 .. MaxCopies
  /\ told \in [Clients -> Texts \cup {Untold}]
  /\ owners \subseteq Sources /\ forgotten \subseteq Sources

ClipInit ==
  /\ BusInit
  /\ mac_offer = NoText /\ active_source = NoSource
  /\ source = [s \in Sources |-> "new"]
  /\ devices = {}
  /\ reader = [s \in TextSources |-> "none"]
  /\ main_queue = <<>>
  /\ last_seen = -1 /\ self_wrote = -1
  /\ main = "idle"
  /\ changeCount = 0 /\ copies = 0 /\ pasteboard \in MacTexts \cup {NoText}
  /\ told = [c \in Clients |-> Untold]
  /\ owners = {} /\ forgotten = {}

-----------------------------------------------------------------------------
(* Requests of the clients, dispatched by the Wayland thread *)

Request(step) == loop = "turn" /\ step /\ UNCHANGED <<busVars, watch, board>>

(* A new device is told nothing. *)
GetDataDevice(c) ==
  /\ c \notin devices
  /\ devices' = devices \cup {c}
  /\ UNCHANGED <<mac_offer, active_source, source, told, owners, forgotten, reader>>

(* Mutant: the check for life is the wrong way round. *)
CancelledWhenGone == {s \in Sources \cap {active_source} : source[s] = "gone"}

(* The active source that is replaced hears of it, if it is still there. *)
Cancelled == {s \in Sources \cap {active_source} : source[s] = "set"}

(* A source is used once; before that it is nothing to anyone. *)
SetSelection(s) ==
  /\ source[s] = "new" /\ ClientOf[s] \in devices
  /\ source' = [source EXCEPT ![s] = "set"]
  /\ active_source' = s
  /\ owners' = (owners \ Cancelled) \cup {s}
  /\ reader' = IF s \in TextSources THEN [reader EXCEPT ![s] = "queued"] ELSE reader
  /\ UNCHANGED <<mac_offer, devices, told, forgotten>>

(* The code takes it that a client clears what is its own, and asks       *)
(* nobody: the source of another client is forgotten, and not told.        *)
ClearSelection(c) ==
  /\ c \in devices
  /\ active_source' = NoSource
  /\ owners' = {s \in owners : ClientOf[s] # c}
  /\ forgotten' = owners'
  /\ UNCHANGED <<mac_offer, source, devices, told, reader>>

DestroySource(s) ==
  /\ source[s] = "set"
  /\ source' = [source EXCEPT ![s] = "gone"]
  /\ active_source' = IF active_source = s THEN NoSource ELSE active_source
  /\ owners' = owners \ {s} /\ forgotten' = forgotten \ {s}
  /\ UNCHANGED <<mac_offer, devices, told, reader>>

(* wl_data_source has no destroyed hook: active_source stays. *)
Disconnect(c) ==
  LET Own == {s \in Sources : ClientOf[s] = c /\ source[s] = "set"} IN
  /\ c \in devices \/ Own # {}
  /\ source' = [s \in Sources |-> IF s \in Own THEN "gone" ELSE source[s]]
  /\ devices' = devices \ {c}
  /\ told' = [told EXCEPT ![c] = Untold]
  /\ owners' = owners \ Own /\ forgotten' = forgotten \ Own
  /\ UNCHANGED <<mac_offer, active_source, reader>>

(* flush_clients and flush_done: the write ends are the clients' alone. *)
Flush ==
  /\ TurnDone
  /\ reader' = [s \in TextSources |-> IF reader[s] = "queued" THEN "open" ELSE reader[s]]
  /\ UNCHANGED <<wayland, watch, board>>

-----------------------------------------------------------------------------
(* Events of the bus, handled by the Wayland thread *)

Advertise(Cs, t) == told' = [c \in Clients |-> IF c \in Cs THEN t ELSE told[c]]

(* Mutant: only clients that get the focus are told. *)
SetMacSelectionQuietly(t) ==
  /\ mac_offer' = t
  /\ active_source' = NoSource
  /\ owners' = owners \ Cancelled
  /\ UNCHANGED <<source, devices, told, forgotten>>

SetMacSelection(t) ==
  /\ mac_offer' = t
  /\ active_source' = NoSource
  /\ owners' = owners \ Cancelled
  /\ Advertise(devices, t)
  /\ UNCHANGED <<source, devices, forgotten>>

AdvertiseToClient(c) ==
  /\ Advertise(devices \cap {c}, mac_offer)
  /\ UNCHANGED <<mac_offer, active_source, source, devices, owners, forgotten>>

HandleEvent ==
  /\ Take
  /\ LET e == Head(batch) IN
       \/ e.kind = "MacClipboard" /\ SetMacSelection(e.of)
       \/ e.kind = "Focus" /\ AdvertiseToClient(e.of)
  /\ UNCHANGED <<reader, watch, board>>

LoopStep == (SetWaker \/ Poll \/ Drain) /\ UNCHANGED <<wayland, reader, watch, board>>

-----------------------------------------------------------------------------
(* Reader threads: the client closes the pipe, having written or not. *)

ReadText(s) ==
  /\ reader[s] = "open"
  /\ reader' = [reader EXCEPT ![s] = "none"]
  /\ \/ main_queue' = Append(main_queue, s)
     \/ UNCHANGED main_queue
  /\ UNCHANGED <<busVars, wayland, last_seen, self_wrote, main, board>>

-----------------------------------------------------------------------------
(* The main thread: one thing after the other *)

MainFree == main = "idle" /\ ~pushing

(* set_clipboard, up to setString.  Should another program take over       *)
(* before that, setString fails; the outcome is the same as after it.      *)
WritePasteboard ==
  /\ MainFree /\ main_queue # <<>>
  /\ main_queue' = Tail(main_queue)
  /\ changeCount' = changeCount + 1
  /\ pasteboard' = Head(main_queue)
  /\ main' = "written"
  /\ UNCHANGED <<busVars, wayland, reader, last_seen, self_wrote, copies>>

(* Mutant: the change count is taken before the write. *)
MarkCountBefore ==
  /\ main = "written"
  /\ last_seen' = changeCount - 1 /\ self_wrote' = changeCount - 1
  /\ main' = "idle"
  /\ UNCHANGED <<busVars, wayland, reader, main_queue, board>>

MarkWritten ==
  /\ main = "written"
  /\ last_seen' = changeCount /\ self_wrote' = changeCount
  /\ main' = "idle"
  /\ UNCHANGED <<busVars, wayland, reader, main_queue, board>>

(* clipboard_tick; a tick that sees no change is no step. *)
TickCount ==
  /\ MainFree /\ changeCount # last_seen
  /\ last_seen' = changeCount
  /\ main' = IF changeCount = self_wrote THEN "idle" ELSE "counted"
  /\ UNCHANGED <<busVars, wayland, reader, main_queue, self_wrote, board>>

(* Mutant: the text goes out without its event. *)
TickPushBare ==
  /\ main = "counted"
  /\ Push(pasteboard)
  /\ main' = "idle"
  /\ UNCHANGED <<wayland, reader, main_queue, last_seen, self_wrote, board>>

(* Mutant: what is no text is not worth an event. *)
TickPushSome ==
  /\ main = "counted"
  /\ IF pasteboard = NoText THEN UNCHANGED busVars ELSE Push(MacClipboard(pasteboard))
  /\ main' = "idle"
  /\ UNCHANGED <<wayland, reader, main_queue, last_seen, self_wrote, board>>

TickPush ==
  /\ main = "counted"
  /\ Push(MacClipboard(pasteboard))
  /\ main' = "idle"
  /\ UNCHANGED <<wayland, reader, main_queue, last_seen, self_wrote, board>>

(* The second half of any push *)
PushDone == Wake /\ UNCHANGED <<wayland, reader, watch, board>>

(* A window of c gets the keyboard. *)
FocusIn(c) ==
  /\ MainFree /\ Len(queue) + Len(batch) < MaxQueue
  /\ Push(Focus(c))
  /\ UNCHANGED <<wayland, reader, watch, board>>

-----------------------------------------------------------------------------
(* Another program copies: a text, or something that is none. *)
ForeignCopy(t) ==
  /\ copies < MaxCopies
  /\ copies' = copies + 1
  /\ changeCount' = changeCount + 1
  /\ pasteboard' = t
  /\ UNCHANGED <<busVars, wayland, reader, watch>>

Main == WritePasteboard \/ MarkWritten \/ TickPush \/ PushDone

ClipNext ==
  \/ \E s \in Sources : Request(SetSelection(s)) \/ Request(DestroySource(s))
  \/ \E c \in Clients : Request(GetDataDevice(c)) \/ Request(ClearSelection(c)) \/ Request(Disconnect(c))
  \/ Flush \/ HandleEvent \/ LoopStep
  \/ \E s \in TextSources : ReadText(s)
  \/ Main \/ TickCount
  \/ \E c \in Clients : FocusIn(c)
  \/ \E t \in MacTexts \cup {NoText} : ForeignCopy(t)

(* The Wayland thread loops and the main thread finishes what it began;    *)
(* the main queue runs in order, so input cannot keep the tick off it.     *)
(* Clients may keep their pipes open, other programs may never copy.       *)
ClipSpec ==
  /\ ClipInit /\ [][ClipNext]_clipVars
  /\ WF_clipVars(Flush \/ HandleEvent \/ LoopStep)
  /\ WF_clipVars(MarkWritten \/ TickPush \/ PushDone)
  /\ SF_clipVars(TickCount)

-----------------------------------------------------------------------------
(* A source that was never told otherwise is the one that owns the         *)
(* selection, through replacements by other clients and by the Mac:        *)
(* set_selection and set_mac_selection cancel what they replace.  But for  *)
(* the sources that another client's clear made the program forget.        *)
OwnersAgree == owners \ forgotten \subseteq {active_source}

(* clipboard.rs:157: "Cancel any previous client source this one           *)
(* replaces"; clipboard.rs:153: "Client cleared its own selection".  There *)
(* are never two sources that may both take themselves for the owner of    *)
(* the selection.                                                          *)
OneOwner == \A s, t \in owners : s = t

(* No client keeps an offer that is out of date: a device was told nothing *)
(* yet or has been told the offer of now, whatever the order in which      *)
(* devices come, get the focus and the Mac copies.                         *)
ToldIsCurrent == \A c \in Clients : told[c] \in {Untold, mac_offer}

(* With o offered and the events q to come, t will be the offer. *)
Learnt(o, q, t) ==
  \/ o = t /\ \A j \in 1 .. Len(q) : q[j].kind # "MacClipboard"
  \/ \E i \in 1 .. Len(q) : q[i] = MacClipboard(t) /\ \A j \in i + 1 .. Len(q) : q[j].kind # "MacClipboard"

(* When the watcher is content with a change that is not its own, the last *)
(* text it has pushed is what is on the pasteboard, though other programs  *)
(* copy between its look at the count and at the text.                     *)
WatcherMissesNothing ==
  main = "idle" /\ changeCount = last_seen /\ changeCount # self_wrote
    => Learnt(mac_offer, batch \o queue, pasteboard)

(* The text of a source never comes back as an offer of the Mac: "so we    *)
(* don't bounce a Wayland client's own copy straight back to it as a fresh *)
(* selection" (mac.rs), though the watcher goes by a number alone.         *)
NoBounce ==
  /\ mac_offer \notin Sources
  /\ \A e \in Range(batch) \cup Range(queue) : e.kind = "MacClipboard" => e.of \notin Sources

(* A text that another program copied is offered, or it is gone from the   *)
(* pasteboard, or was taken for our own because it came between setString  *)
(* and changeCount, or waits for the next event since it came before the   *)
(* loop had its waker.                                                     *)
MacTextOffered ==
  \A t \in MacTexts :
    pasteboard = t /\ changeCount # self_wrote ~> \/ mac_offer = t \/ pasteboard # t
                                                 \/ changeCount = self_wrote \/ early

(* clipboard.rs:4-5: "Two directions, both routed through the macOS        *)
(* pasteboard so that even Wayland-to-Wayland copy/paste works             *)
(* consistently".  Once all is read, written and handled, what the clients *)
(* can paste is what is on the pasteboard.                                 *)
PasteMatchesPasteboard ==
  /\ \A s \in TextSources : reader[s] = "none"
  /\ main_queue = <<>> /\ main = "idle" /\ changeCount = last_seen
  /\ queue = <<>> /\ batch = <<>> /\ devices # {}
  => mac_offer = pasteboard
=============================================================================
