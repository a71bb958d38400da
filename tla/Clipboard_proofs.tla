-------------------------- MODULE Clipboard_proofs --------------------------
(***************************************************************************)
(* Proofs about Clipboard and the input bus below it, for any number of    *)
(* clients, copies and events.                                             *)
(***************************************************************************)
EXTENDS Clipboard, SequenceTheorems, TLAPS

(* What is pushed is well typed, and tells its kinds apart. *)
LEMMA EventTypes ==
  /\ \A t \in Texts : MacClipboard(t) \in InputEvents
  /\ \A c \in Clients : Focus(c) \in InputEvents
  /\ \A e \in InputEvents : \/ e.kind = "MacClipboard" /\ e.of \in Texts /\ e = MacClipboard(e.of)
                            \/ e.kind = "Focus"
  /\ \A t : MacClipboard(t).kind = "MacClipboard" /\ MacClipboard(t).of = t
  /\ \A c : Focus(c).kind = "Focus"
<1>1. /\ \A t : MacClipboard(t) = [kind |-> "MacClipboard", of |-> t]
      /\ \A c : Focus(c) = [kind |-> "Focus", of |-> c]
  BY DEF MacClipboard, Focus
<1>2. /\ \A t \in Texts : MacClipboard(t) \in InputEvents
      /\ \A c \in Clients : Focus(c) \in InputEvents
      /\ \A e \in InputEvents : (\E t \in Texts : e = MacClipboard(t)) \/ (\E c \in Clients : e = Focus(c))
  BY EventsAssumption, Zenon DEF Events
<1>3. /\ \A t : MacClipboard(t).kind = "MacClipboard" /\ MacClipboard(t).of = t
      /\ \A c : Focus(c).kind = "Focus"
  BY <1>1
<1> QED BY <1>2, <1>3

(* The steps of the bus keep its types. *)
LEMMA BusTypes ==
  ASSUME BusTypeOK,
         \/ UNCHANGED busVars
         \/ \E e \in InputEvents : Push(e)
         \/ Wake \/ SetWaker \/ Poll \/ Drain \/ Take \/ TurnDone
  PROVE  BusTypeOK'
<1> USE DEF BusTypeOK
<1>1. CASE UNCHANGED busVars
  BY <1>1 DEF busVars
<1>2. ASSUME NEW e \in InputEvents, Push(e) PROVE BusTypeOK'
  BY <1>2 DEF Push
<1>3. CASE Wake
  BY <1>3 DEF Wake
<1>4. CASE SetWaker
  BY <1>4 DEF SetWaker
<1>5. CASE Poll
  BY <1>5 DEF Poll
<1>6. CASE Drain
  <2>1. <<>> \in Seq(InputEvents)
    OBVIOUS
  <2> QED BY <1>6, <2>1 DEF Drain
<1>7. CASE Take
  BY <1>7 DEF Take
<1>8. CASE TurnDone
  BY <1>8 DEF TurnDone
<1> QED BY <1>1, <1>2, <1>3, <1>4, <1>5, <1>6, <1>7, <1>8

(* Every step of the clipboard is one of the bus, or none to it. *)
LEMMA BusSteps ==
  ASSUME ClipTypeOK, [ClipNext]_clipVars
  PROVE  \/ UNCHANGED busVars
         \/ \E e \in InputEvents : Push(e)
         \/ Wake \/ SetWaker \/ Poll \/ Drain \/ Take \/ TurnDone
<1>1. ASSUME TickPush PROVE \E e \in InputEvents : Push(e)
  BY <1>1, EventTypes DEF TickPush, ClipTypeOK
<1>2. ASSUME NEW c \in Clients, FocusIn(c) PROVE \E e \in InputEvents : Push(e)
  BY <1>2, EventTypes DEF FocusIn
<1>3. ASSUME NEW s \in TextSources, ReadText(s) PROVE UNCHANGED busVars
  BY <1>3 DEF ReadText
<1>4. ASSUME NEW t, ForeignCopy(t) PROVE UNCHANGED busVars
  BY <1>4 DEF ForeignCopy
<1>5. CASE UNCHANGED clipVars
  BY <1>5 DEF clipVars
<1>6. CASE ClipNext
  BY <1>1, <1>2, <1>3, <1>4, <1>6
     DEF ClipNext, Main, Request, Flush, HandleEvent, LoopStep, WritePasteboard, MarkWritten, TickCount, PushDone
<1> QED BY <1>5, <1>6

(* What the clients ask for keeps the types of the Wayland side. *)
LEMMA RequestTypes ==
  ASSUME ClipTypeOK, NEW s \in Sources, NEW c \in Clients,
         \/ SetSelection(s) \/ DestroySource(s) \/ GetDataDevice(c) \/ ClearSelection(c) \/ Disconnect(c)
  PROVE  /\ mac_offer' \in Texts /\ active_source' \in Sources \cup {NoSource}
         /\ source' \in [Sources -> {"new", "set", "gone"}]
         /\ devices' \subseteq Clients
         /\ reader' \in [TextSources -> {"none", "queued", "open"}]
         /\ told' \in [Clients -> Texts \cup {Untold}]
         /\ owners' \subseteq Sources /\ forgotten' \subseteq Sources
<1> USE SourcesAssumption DEF ClipTypeOK
<1>1. CASE SetSelection(s)
  BY <1>1 DEF SetSelection
<1>2. CASE DestroySource(s)
  BY <1>2 DEF DestroySource
<1>3. CASE GetDataDevice(c)
  BY <1>3 DEF GetDataDevice
<1>4. CASE ClearSelection(c)
  BY <1>4 DEF ClearSelection
<1>5. CASE Disconnect(c)
  BY <1>5 DEF Disconnect
<1> QED BY <1>1, <1>2, <1>3, <1>4, <1>5

(* The type invariant: what the threads and the pasteboard may hold,       *)
(* whatever clients and other programs copy.                               *)
THEOREM TypeCorrect == ClipSpec => []ClipTypeOK
<1>1. ClipInit => ClipTypeOK
  <2>1. <<>> \in Seq(InputEvents) /\ <<>> \in Seq(TextSources)
    OBVIOUS
  <2>2. ClipInit => BusTypeOK
    BY <2>1 DEF ClipInit, BusInit, BusTypeOK
  <2> QED BY <2>1, <2>2, BoundsAssumption DEF ClipInit, ClipTypeOK, Texts
<1>2. ClipTypeOK /\ [ClipNext]_clipVars => ClipTypeOK'
  <2> SUFFICES ASSUME ClipTypeOK, [ClipNext]_clipVars PROVE ClipTypeOK'
    OBVIOUS
  <2>1. BusTypeOK'
    BY BusSteps, BusTypes DEF ClipTypeOK
  <2> USE DEF ClipTypeOK, wayland, watch, board
  <2>2. ASSUME NEW s \in Sources, Request(SetSelection(s)) \/ Request(DestroySource(s)) PROVE ClipTypeOK'
    <3>1. PICK c \in Clients : TRUE
      BY SourcesAssumption
    <3> QED BY <2>1, <2>2, <3>1, RequestTypes DEF Request
  <2>3. ASSUME NEW c \in Clients,
               Request(GetDataDevice(c)) \/ Request(ClearSelection(c)) \/ Request(Disconnect(c))
        PROVE  ClipTypeOK'
    BY <2>1, <2>3, BoundsAssumption, SourcesAssumption
       DEF Request, GetDataDevice, ClearSelection, Disconnect
  <2>4. CASE Flush
    BY <2>1, <2>4 DEF Flush
  <2>5. CASE HandleEvent
    <3>1. Head(batch) \in InputEvents
      BY <2>5 DEF HandleEvent, Take, BusTypeOK
    <3> QED BY <2>1, <2>5, <3>1, EventTypes
            DEF HandleEvent, SetMacSelection, AdvertiseToClient, Advertise, Focus
  <2>6. CASE LoopStep
    BY <2>1, <2>6 DEF LoopStep
  <2>7. ASSUME NEW s \in TextSources, ReadText(s) PROVE ClipTypeOK'
    BY <2>1, <2>7 DEF ReadText
  <2>8. CASE WritePasteboard
    <3>1. Head(main_queue) \in TextSources /\ Tail(main_queue) \in Seq(TextSources)
      BY <2>8 DEF WritePasteboard
    <3> QED BY <2>1, <2>8, <3>1 DEF WritePasteboard, Texts
  <2>9. CASE MarkWritten
    BY <2>1, <2>9 DEF MarkWritten
  <2>10. CASE TickPush
    BY <2>1, <2>10 DEF TickPush
  <2>11. CASE PushDone
    BY <2>1, <2>11 DEF PushDone
  <2>12. CASE TickCount
    BY <2>1, <2>12 DEF TickCount
  <2>13. ASSUME NEW c \in Clients, FocusIn(c) PROVE ClipTypeOK'
    BY <2>1, <2>13 DEF FocusIn
  <2>14. ASSUME NEW t \in MacTexts \cup {NoText}, ForeignCopy(t) PROVE ClipTypeOK'
    BY <2>1, <2>14, BoundsAssumption DEF ForeignCopy, Texts
  <2>15. CASE UNCHANGED clipVars
    BY <2>1, <2>15 DEF clipVars
  <2> QED BY <2>2, <2>3, <2>4, <2>5, <2>6, <2>7, <2>8, <2>9, <2>10, <2>11, <2>12, <2>13, <2>14, <2>15
          DEF ClipNext, Main
<1> QED BY <1>1, <1>2, PTL DEF ClipSpec

(* No byte is lost between the halves of a push and the loop's reading and *)
(* draining: what is queued is found, but for what came before the waker.  *)
THEOREM WakeupsCorrect == ClipSpec => []NoLostWakeup
<1>1. ClipInit => NoLostWakeup
  BY DEF ClipInit, BusInit, NoLostWakeup
<1>2. ClipTypeOK /\ NoLostWakeup /\ [ClipNext]_clipVars => NoLostWakeup'
  <2> SUFFICES ASSUME ClipTypeOK, NoLostWakeup, [ClipNext]_clipVars PROVE NoLostWakeup'
    OBVIOUS
  <2>1. PICK e \in InputEvents :
          UNCHANGED busVars \/ Push(e) \/ Wake \/ SetWaker \/ Poll \/ Drain \/ Take \/ TurnDone
    <3>1. InputEvents # {}
      BY EventTypes DEF Texts
    <3> QED BY <3>1, BusSteps
  <2> QED BY <2>1
          DEF NoLostWakeup, ClipTypeOK, BusTypeOK, busVars, Push, Wake, SetWaker, Poll, Drain, Take, TurnDone
<1> QED BY <1>1, <1>2, TypeCorrect, PTL DEF ClipSpec

(* A step leaves the Wayland side alone, or is one of its own. *)
LEMMA WaylandSteps ==
  ASSUME ClipTypeOK, [ClipNext]_clipVars
  PROVE  \/ UNCHANGED wayland
         \/ \E s \in Sources : SetSelection(s) \/ DestroySource(s)
         \/ \E c \in Clients : \/ GetDataDevice(c) \/ ClearSelection(c) \/ Disconnect(c)
                               \/ AdvertiseToClient(c)
         \/ \E t \in Texts : SetMacSelection(t)
<1>1. CASE HandleEvent
  <2>1. Head(batch) \in InputEvents
    BY <1>1 DEF HandleEvent, Take, ClipTypeOK, BusTypeOK
  <2>2. CASE Head(batch).kind = "MacClipboard"
    BY <1>1, <2>1, <2>2, EventTypes DEF HandleEvent
  <2>3. CASE Head(batch).kind # "MacClipboard"
    <3>1. PICK c \in Clients : Head(batch) = Focus(c)
      BY <2>1, <2>3, EventTypes, EventsAssumption DEF Events
    <3>2. Head(batch).of = c
      BY <3>1 DEF Focus
    <3> QED BY <1>1, <2>3, <3>2 DEF HandleEvent
  <2> QED BY <2>2, <2>3
<1>2. ASSUME NEW s \in TextSources, ReadText(s) PROVE UNCHANGED wayland
  BY <1>2 DEF ReadText
<1>3. ASSUME NEW c, FocusIn(c) PROVE UNCHANGED wayland
  BY <1>3 DEF FocusIn
<1>4. ASSUME NEW t, ForeignCopy(t) PROVE UNCHANGED wayland
  BY <1>4 DEF ForeignCopy
<1>5. CASE UNCHANGED clipVars
  BY <1>5 DEF clipVars
<1>6. CASE Main \/ TickCount \/ Flush \/ LoopStep
  BY <1>6 DEF Main, WritePasteboard, MarkWritten, TickPush, PushDone, TickCount, Flush, LoopStep
<1> QED BY <1>1, <1>2, <1>3, <1>4, <1>5, <1>6 DEF ClipNext, Request

(* Only sources that live can think that they own the selection. *)
OwnersLive == \A s \in owners : source[s] = "set"

(* Who thinks that it owns the selection does, unless the clear of another *)
(* client took it from him without a word.                                 *)
(* The invariant that carries it: such a source lives, so the cancel that  *)
(* is not sent to a dead one is never owed to it.                          *)
THEOREM OwnersCorrect == ClipSpec => []OwnersAgree
<1> DEFINE IInv == OwnersAgree /\ OwnersLive
<1> USE DEF OwnersAgree, OwnersLive
<1>1. ClipInit => IInv
  BY DEF ClipInit
<1>2. ClipTypeOK /\ IInv /\ [ClipNext]_clipVars => IInv'
  <2> SUFFICES ASSUME ClipTypeOK, IInv, [ClipNext]_clipVars PROVE IInv'
    OBVIOUS
  <2> USE DEF ClipTypeOK
  <2>1. CASE UNCHANGED wayland
    BY <2>1 DEF wayland
  <2>2. ASSUME NEW s \in Sources, SetSelection(s) PROVE IInv'
    <3>1. s \notin owners /\ owners \subseteq Sources
      BY <2>2 DEF SetSelection
    <3>2. owners' \ forgotten' \subseteq {s}
      BY <2>2, <3>1 DEF SetSelection, Cancelled
    <3> QED BY <2>2, <3>2 DEF SetSelection
  <2>3. ASSUME NEW s \in Sources, DestroySource(s) PROVE IInv'
    BY <2>3 DEF DestroySource
  <2>4. ASSUME NEW c \in Clients,
               GetDataDevice(c) \/ ClearSelection(c) \/ Disconnect(c) \/ AdvertiseToClient(c)
        PROVE  IInv'
    BY <2>4 DEF GetDataDevice, ClearSelection, Disconnect, AdvertiseToClient
  <2>5. ASSUME NEW t \in Texts, SetMacSelection(t) PROVE IInv'
    BY <2>5, SourcesAssumption DEF SetMacSelection, Cancelled
  <2> QED BY <2>1, <2>2, <2>3, <2>4, <2>5, WaylandSteps
<1> QED BY <1>1, <1>2, TypeCorrect, PTL DEF ClipSpec

(* Who was told something has a device. *)
ToldHaveDevices == \A c \in Clients : told[c] # Untold => c \in devices

(* No client keeps an offer that is out of date.  The invariant that       *)
(* carries it: everyone who was told anything is still on the list that a  *)
(* new offer goes to.                                                      *)
THEOREM ToldCorrect == ClipSpec => []ToldIsCurrent
<1> DEFINE IInv == ToldIsCurrent /\ ToldHaveDevices
<1> USE DEF ToldIsCurrent, ToldHaveDevices
<1>1. ClipInit => IInv
  BY DEF ClipInit
<1>2. ClipTypeOK /\ IInv /\ [ClipNext]_clipVars => IInv'
  <2> SUFFICES ASSUME ClipTypeOK, IInv, [ClipNext]_clipVars PROVE IInv'
    OBVIOUS
  <2> USE DEF ClipTypeOK
  <2>1. CASE UNCHANGED wayland
    BY <2>1 DEF wayland
  <2>2. ASSUME NEW s \in Sources, SetSelection(s) \/ DestroySource(s) PROVE IInv'
    BY <2>2 DEF SetSelection, DestroySource
  <2>3. ASSUME NEW c \in Clients,
               GetDataDevice(c) \/ ClearSelection(c) \/ Disconnect(c) \/ AdvertiseToClient(c)
        PROVE  IInv'
    BY <2>3 DEF GetDataDevice, ClearSelection, Disconnect, AdvertiseToClient, Advertise
  <2>4. ASSUME NEW t \in Texts, SetMacSelection(t) PROVE IInv'
    BY <2>4 DEF SetMacSelection, Advertise
  <2> QED BY <2>1, <2>2, <2>3, <2>4, WaylandSteps
<1> QED BY <1>1, <1>2, TypeCorrect, PTL DEF ClipSpec

(* An event at the end of those to come: a text of the Mac is what will be *)
(* offered, any other event changes nothing.                               *)
LEMMA LearntAppend ==
  ASSUME NEW o, NEW q \in Seq(InputEvents), NEW e \in InputEvents, NEW t
  PROVE  /\ e = MacClipboard(t) => Learnt(o, Append(q, e), t)
         /\ e.kind # "MacClipboard" /\ Learnt(o, q, t) => Learnt(o, Append(q, e), t)
<1> DEFINE r == Append(q, e)
<1>1. Len(r) = Len(q) + 1 /\ Len(q) \in Nat /\ r[Len(r)] = e /\ \A j \in 1 .. Len(q) : r[j] = q[j]
  OBVIOUS
<1> HIDE DEF r
<1>2. ASSUME e = MacClipboard(t) PROVE Learnt(o, r, t)
  <2>1. Len(r) \in 1 .. Len(r) /\ Len(r) + 1 .. Len(r) = {}
    BY <1>1
  <2> QED BY <1>1, <1>2, <2>1 DEF Learnt
<1>3. ASSUME e.kind # "MacClipboard", Learnt(o, q, t) PROVE Learnt(o, r, t)
  <2>1. \A i \in 0 .. Len(q) : (\A j \in i + 1 .. Len(q) : q[j].kind # "MacClipboard")
                                => \A j \in i + 1 .. Len(r) : r[j].kind # "MacClipboard"
    <3> SUFFICES ASSUME NEW i \in 0 .. Len(q), \A j \in i + 1 .. Len(q) : q[j].kind # "MacClipboard",
                        NEW j \in i + 1 .. Len(r)
                 PROVE  r[j].kind # "MacClipboard"
      OBVIOUS
    <3>1. j = Len(r) \/ (j \in i + 1 .. Len(q) /\ j \in 1 .. Len(q))
      BY <1>1
    <3> QED BY <1>1, <1>3, <3>1
  <2>2. CASE o = t /\ \A j \in 1 .. Len(q) : q[j].kind # "MacClipboard"
    <3>1. 0 \in 0 .. Len(q) /\ 0 + 1 = 1
      BY <1>1
    <3>2. \A j \in 1 .. Len(r) : r[j].kind # "MacClipboard"
      BY <2>1, <2>2, <3>1
    <3> QED BY <2>2, <3>2 DEF Learnt
  <2>3. CASE \E i \in 1 .. Len(q) : q[i] = MacClipboard(t) /\ \A j \in i + 1 .. Len(q) : q[j].kind # "MacClipboard"
    <3>1. PICK i \in 1 .. Len(q) : q[i] = MacClipboard(t) /\ \A j \in i + 1 .. Len(q) : q[j].kind # "MacClipboard"
      BY <2>3
    <3>2. i \in 0 .. Len(q) /\ i \in 1 .. Len(r) /\ r[i] = q[i]
      BY <1>1
    <3>3. \A j \in i + 1 .. Len(r) : r[j].kind # "MacClipboard"
      BY <2>1, <3>1, <3>2
    <3> QED BY <3>1, <3>2, <3>3 DEF Learnt
  <2> QED BY <1>3, <2>2, <2>3 DEF Learnt
<1> QED BY <1>2, <1>3 DEF r

(* The first of the events to come is handled: p is offered if it brings p. *)
LEMMA LearntTail ==
  ASSUME NEW o, NEW p, NEW q \in Seq(InputEvents), q # <<>>, NEW t, Learnt(o, q, t),
         p = IF Head(q).kind = "MacClipboard" THEN Head(q).of ELSE o
  PROVE  Learnt(p, Tail(q), t)
<1> DEFINE r == Tail(q)
<1>1. Len(r) = Len(q) - 1 /\ Len(q) \in Nat \ {0} /\ Head(q) = q[1] /\ \A j \in 1 .. Len(r) : r[j] = q[j + 1]
  OBVIOUS
<1> HIDE DEF r
<1>2. \A i \in 1 .. Len(q) : (\A j \in i + 1 .. Len(q) : q[j].kind # "MacClipboard")
                              => \A j \in (i - 1) + 1 .. Len(r) : r[j].kind # "MacClipboard"
  <2> SUFFICES ASSUME NEW i \in 1 .. Len(q), \A j \in i + 1 .. Len(q) : q[j].kind # "MacClipboard",
                      NEW j \in (i - 1) + 1 .. Len(r)
               PROVE  r[j].kind # "MacClipboard"
    OBVIOUS
  <2>1. j + 1 \in i + 1 .. Len(q) /\ r[j] = q[j + 1]
    BY <1>1
  <2> QED BY <2>1
<1>3. ASSUME o = t /\ \A j \in 1 .. Len(q) : q[j].kind # "MacClipboard" PROVE Learnt(p, r, t)
  <2>1. 1 \in 1 .. Len(q) /\ \A j \in 1 .. Len(r) : j + 1 \in 1 .. Len(q)
    BY <1>1
  <2>2. p = t /\ \A j \in 1 .. Len(r) : r[j].kind # "MacClipboard"
    BY <1>1, <1>3, <2>1
  <2> QED BY <2>2 DEF Learnt
<1>4. ASSUME \E i \in 1 .. Len(q) : q[i] = MacClipboard(t) /\ \A j \in i + 1 .. Len(q) : q[j].kind # "MacClipboard"
      PROVE  Learnt(p, r, t)
  <2>1. PICK i \in 1 .. Len(q) : q[i] = MacClipboard(t) /\ \A j \in i + 1 .. Len(q) : q[j].kind # "MacClipboard"
    BY <1>4
  <2>2. \A j \in (i - 1) + 1 .. Len(r) : r[j].kind # "MacClipboard"
    BY <1>2, <2>1
  <2>3. CASE i = 1
    <3>1. p = t
      BY <1>1, <2>1, <2>3, EventTypes
    <3>2. (i - 1) + 1 = 1
      BY <2>3
    <3> QED BY <2>2, <3>1, <3>2 DEF Learnt
  <2>4. CASE i > 1
    <3>1. i - 1 \in 1 .. Len(r) /\ r[i - 1] = q[i]
      BY <1>1, <2>4
    <3> QED BY <2>1, <2>2, <3>1 DEF Learnt
  <2> QED BY <2>3, <2>4
<1>5. Learnt(p, r, t)
  BY <1>3, <1>4 DEF Learnt
<1> QED BY <1>5 DEF r

(* A batch is there only while it is handled. *)
BatchInHand == batch # <<>> => loop = "handle"

(* What the steps of the bus do to the events to come. *)
LEMMA ToCome ==
  ASSUME BusTypeOK, BatchInHand
  PROVE  /\ batch \o queue \in Seq(InputEvents)
         /\ Drain => (batch \o queue)' = batch \o queue
         /\ \A e \in InputEvents : Push(e) => (batch \o queue)' = Append(batch \o queue, e)
         /\ Take => /\ batch \o queue # <<>> /\ Head(batch \o queue) = Head(batch)
                    /\ (batch \o queue)' = Tail(batch \o queue)
<1> USE DEF BusTypeOK
<1>1. batch \o queue \in Seq(InputEvents)
  OBVIOUS
<1>2. ASSUME Drain PROVE (batch \o queue)' = batch \o queue
  <2>1. batch = <<>> /\ batch' = queue /\ queue' = <<>>
    BY <1>2 DEF Drain, BatchInHand
  <2> QED BY <2>1, ConcatEmptySeq
<1>3. ASSUME NEW e \in InputEvents, Push(e) PROVE (batch \o queue)' = Append(batch \o queue, e)
  <2>1. batch' = batch /\ queue' = queue \o <<e>>
    BY <1>3, AppendIsConcat DEF Push
  <2>2. <<e>> \in Seq(InputEvents)
    OBVIOUS
  <2>3. batch \o (queue \o <<e>>) = (batch \o queue) \o <<e>>
    BY <2>2, ConcatAssociative
  <2> QED BY <1>1, <2>1, <2>3, AppendIsConcat
<1>4. ASSUME Take
      PROVE  /\ batch \o queue # <<>> /\ Head(batch \o queue) = Head(batch)
             /\ (batch \o queue)' = Tail(batch \o queue)
  <2>1. batch # <<>> /\ batch' = Tail(batch) /\ queue' = queue
    BY <1>4 DEF Take
  <2> QED BY <2>1
<1> QED BY <1>1, <1>2, <1>3, <1>4

LEMMA BatchStays == ClipSpec => []BatchInHand
<1>1. ClipInit => BatchInHand
  BY DEF ClipInit, BusInit, BatchInHand
<1>2. ClipTypeOK /\ BatchInHand /\ [ClipNext]_clipVars => BatchInHand'
  <2> SUFFICES ASSUME ClipTypeOK, BatchInHand, [ClipNext]_clipVars PROVE BatchInHand'
    OBVIOUS
  <2>1. PICK e \in InputEvents :
          UNCHANGED busVars \/ Push(e) \/ Wake \/ SetWaker \/ Poll \/ Drain \/ Take \/ TurnDone
    <3>1. InputEvents # {}
      BY EventTypes DEF Texts
    <3> QED BY <3>1, BusSteps
  <2> QED BY <2>1 DEF BatchInHand, busVars, Push, Wake, SetWaker, Poll, Drain, Take, TurnDone
<1> QED BY <1>1, <1>2, TypeCorrect, PTL DEF ClipSpec

(* What the Mac's texts to come lead to changes by nothing but the push of *)
(* another one.                                                            *)
LEMMA LearntSteps ==
  ASSUME ClipTypeOK, BatchInHand, [ClipNext]_clipVars, ~TickPush, NEW t, Learnt(mac_offer, batch \o queue, t)
  PROVE  Learnt(mac_offer', (batch \o queue)', t)
<1> USE ToCome DEF ClipTypeOK
<1>1. CASE UNCHANGED <<batch, queue, mac_offer>>
  BY <1>1
<1>2. CASE Drain /\ mac_offer' = mac_offer
  BY <1>2
<1>3. ASSUME NEW c \in Clients, FocusIn(c) PROVE Learnt(mac_offer', (batch \o queue)', t)
  <2>1. Focus(c) \in InputEvents /\ Focus(c).kind # "MacClipboard"
    BY EventTypes
  <2>2. (batch \o queue)' = Append(batch \o queue, Focus(c)) /\ mac_offer' = mac_offer
    BY <1>3, <2>1 DEF FocusIn, wayland
  <2>3. batch \o queue \in Seq(InputEvents)
    OBVIOUS
  <2> HIDE ToCome DEF ClipTypeOK
  <2>4. Learnt(mac_offer, Append(batch \o queue, Focus(c)), t)
    BY <2>1, <2>3, LearntAppend
  <2> QED BY <2>2, <2>4
<1>4. CASE HandleEvent
  <2>1. Take /\ mac_offer' = IF Head(batch).kind = "MacClipboard" THEN Head(batch).of ELSE mac_offer
    BY <1>4 DEF HandleEvent, SetMacSelection, AdvertiseToClient
  <2>2. /\ batch \o queue \in Seq(InputEvents) /\ batch \o queue # <<>>
        /\ Head(batch \o queue) = Head(batch) /\ (batch \o queue)' = Tail(batch \o queue)
    BY <2>1
  <2> HIDE ToCome DEF ClipTypeOK
  <2>3. Learnt(mac_offer', Tail(batch \o queue), t)
    BY <2>1, <2>2, LearntTail
  <2> QED BY <2>2, <2>3
<1>5. ASSUME NEW s \in TextSources, ReadText(s) PROVE UNCHANGED <<batch, queue, mac_offer>>
  BY <1>5 DEF ReadText, busVars, wayland
<1>6. ASSUME NEW u, ForeignCopy(u) PROVE UNCHANGED <<batch, queue, mac_offer>>
  BY <1>6 DEF ForeignCopy, busVars, wayland
<1>7. ASSUME NEW s \in Sources, Request(SetSelection(s)) \/ Request(DestroySource(s))
      PROVE  UNCHANGED <<batch, queue, mac_offer>>
  BY <1>7 DEF Request, SetSelection, DestroySource, busVars
<1>8. ASSUME NEW c \in Clients,
             Request(GetDataDevice(c)) \/ Request(ClearSelection(c)) \/ Request(Disconnect(c))
      PROVE  UNCHANGED <<batch, queue, mac_offer>>
  BY <1>8 DEF Request, GetDataDevice, ClearSelection, Disconnect, busVars
<1>9. CASE WritePasteboard \/ MarkWritten \/ PushDone \/ TickCount \/ Flush
  BY <1>1, <1>9 DEF WritePasteboard, MarkWritten, PushDone, TickCount, Flush, Wake, TurnDone, busVars, wayland
<1>10. CASE LoopStep
  BY <1>1, <1>2, <1>10 DEF LoopStep, SetWaker, Poll, wayland
<1>11. CASE UNCHANGED clipVars
  BY <1>1, <1>11 DEF clipVars, busVars, wayland
<1> QED BY <1>1, <1>3, <1>4, <1>5, <1>6, <1>7, <1>8, <1>9, <1>10, <1>11 DEF ClipNext, Main

(* The watcher knows no count that is yet to come. *)
SeenBefore == last_seen <= changeCount

(* The watcher misses no text, however many changes there are between its  *)
(* steps.  The invariant that carries it: the count it has seen is never   *)
(* ahead, so every change after that makes the next tick look again.       *)
THEOREM WatcherCorrect == ClipSpec => []WatcherMissesNothing
<1> DEFINE IInv == WatcherMissesNothing /\ SeenBefore
<1>1. ClipInit => IInv
  BY DEF ClipInit, WatcherMissesNothing, SeenBefore
<1>2. ClipTypeOK /\ BatchInHand /\ IInv /\ [ClipNext]_clipVars => IInv'
  <2> SUFFICES ASSUME ClipTypeOK, BatchInHand, IInv, [ClipNext]_clipVars PROVE IInv'
    OBVIOUS
  <2>1. last_seen \in Int /\ changeCount \in Nat /\ self_wrote \in Int
    BY DEF ClipTypeOK
  <2>2. CASE TickPush
    <3>1. MacClipboard(pasteboard) \in InputEvents
      BY EventTypes DEF ClipTypeOK
    <3>2. (batch \o queue)' = Append(batch \o queue, MacClipboard(pasteboard))
          /\ batch \o queue \in Seq(InputEvents)
      BY <2>2, <3>1, ToCome DEF TickPush, ClipTypeOK
    <3>3. Learnt(mac_offer, Append(batch \o queue, MacClipboard(pasteboard)), pasteboard)
      BY <3>1, <3>2, LearntAppend
    <3>4. UNCHANGED <<mac_offer, pasteboard, last_seen, changeCount>>
      BY <2>2 DEF TickPush, wayland, board
    <3> QED BY <3>2, <3>3, <3>4 DEF WatcherMissesNothing, SeenBefore
  <2>3. CASE ~TickPush /\ UNCHANGED <<main, changeCount, last_seen, self_wrote, pasteboard>>
    BY <2>3, LearntSteps DEF WatcherMissesNothing, SeenBefore
  <2>4. CASE WritePasteboard
    BY <2>1, <2>4 DEF WritePasteboard, WatcherMissesNothing, SeenBefore
  <2>5. CASE MarkWritten
    BY <2>1, <2>5 DEF MarkWritten, board, WatcherMissesNothing, SeenBefore
  <2>6. CASE TickCount
    BY <2>1, <2>6 DEF TickCount, board, WatcherMissesNothing, SeenBefore
  <2>7. ASSUME NEW t, ForeignCopy(t) PROVE IInv'
    BY <2>1, <2>7 DEF ForeignCopy, watch, WatcherMissesNothing, SeenBefore
  <2>8. ASSUME NEW s \in TextSources, ReadText(s) PROVE UNCHANGED <<main, changeCount, last_seen, self_wrote, pasteboard>>
    BY <2>8 DEF ReadText, board
  <2>9. ASSUME NEW c, FocusIn(c) PROVE UNCHANGED <<main, changeCount, last_seen, self_wrote, pasteboard>>
    BY <2>9 DEF FocusIn, watch, board
  <2>10. CASE \/ Flush \/ HandleEvent \/ LoopStep \/ PushDone \/ UNCHANGED clipVars
    BY <2>2, <2>3, <2>10 DEF Flush, HandleEvent, LoopStep, PushDone, clipVars, watch, board
  <2> QED BY <2>2, <2>3, <2>4, <2>5, <2>6, <2>7, <2>8, <2>9, <2>10 DEF ClipNext, Main, Request, watch, board
<1> QED BY <1>1, <1>2, TypeCorrect, BatchStays, PTL DEF ClipSpec

(* What a queue holds, as its ends move. *)
LEMMA QueueRange ==
  ASSUME NEW q \in Seq(InputEvents)
  PROVE  /\ \A x \in InputEvents : Range(Append(q, x)) \subseteq Range(q) \cup {x}
         /\ q # <<>> => Head(q) \in Range(q) /\ Range(Tail(q)) \subseteq Range(q)
<1>1. ASSUME NEW x \in InputEvents PROVE Range(Append(q, x)) \subseteq Range(q) \cup {x}
  BY DEF Range
<1>2. ASSUME q # <<>> PROVE Head(q) \in Range(q) /\ Range(Tail(q)) \subseteq Range(q)
  <2>1. Head(q) = q[1] /\ 1 \in DOMAIN q
    BY <1>2
  <2>2. \A i \in DOMAIN Tail(q) : i + 1 \in DOMAIN q /\ Tail(q)[i] = q[i + 1]
    BY <1>2
  <2> QED BY <2>1, <2>2 DEF Range
<1> QED BY <1>1, <1>2

(* A text of ours on the pasteboard is known by its count once the write   *)
(* is marked, and a tick that goes on to read saw another one.             *)
OursIsMarked ==
  /\ pasteboard \in Sources => main = "written" \/ changeCount = self_wrote
  /\ main = "counted" => pasteboard \notin Sources

(* A client's own copy is never offered back to it.  The invariant that    *)
(* carries it: nothing comes between setString and the mark but other      *)
(* programs, and those take the text away.                                 *)
THEOREM NoBounceCorrect == ClipSpec => []NoBounce
<1> DEFINE IInv == NoBounce /\ OursIsMarked
           Foreign(e) == e.kind = "MacClipboard" => e.of \notin Sources
<1>1. ClipInit => IInv
  <2>1. Range(<<>>) = {}
    BY DEF Range
  <2> QED BY <2>1, TextsAssumption DEF ClipInit, BusInit, NoBounce, OursIsMarked
<1>2. ClipTypeOK /\ IInv /\ [ClipNext]_clipVars => IInv'
  <2> SUFFICES ASSUME ClipTypeOK, IInv, [ClipNext]_clipVars PROVE IInv'
    OBVIOUS
  <2> USE DEF NoBounce
  <2>1. batch \in Seq(InputEvents) /\ queue \in Seq(InputEvents)
    BY DEF ClipTypeOK, BusTypeOK
  <2>2. CASE TickPush
    <3>1. MacClipboard(pasteboard) \in InputEvents /\ Foreign(MacClipboard(pasteboard))
      BY <2>2, EventTypes DEF TickPush, ClipTypeOK, OursIsMarked
    <3>2. Range(queue') \subseteq Range(queue) \cup {MacClipboard(pasteboard)}
      BY <2>1, <2>2, <3>1, QueueRange DEF TickPush, Push
    <3>3. batch' = batch /\ mac_offer' = mac_offer
      BY <2>2 DEF TickPush, Push, wayland
    <3>4. NoBounce'
      BY <3>1, <3>2, <3>3
    <3> QED BY <2>2, <3>4 DEF TickPush, board, OursIsMarked
  <2>3. ASSUME NEW c \in Clients, FocusIn(c) PROVE IInv'
    <3>1. Focus(c) \in InputEvents /\ Foreign(Focus(c))
      BY EventTypes
    <3>2. Range(queue') \subseteq Range(queue) \cup {Focus(c)}
      BY <2>1, <2>3, <3>1, QueueRange DEF FocusIn, Push
    <3>3. batch' = batch /\ mac_offer' = mac_offer
      BY <2>3 DEF FocusIn, Push, wayland
    <3>4. NoBounce'
      BY <3>1, <3>2, <3>3
    <3> QED BY <2>3, <3>4 DEF FocusIn, watch, board, OursIsMarked
  <2>4. CASE HandleEvent
    <3>1. batch # <<>> /\ batch' = Tail(batch) /\ queue' = queue
      BY <2>4 DEF HandleEvent, Take
    <3>2. Head(batch) \in Range(batch) /\ Range(batch') \subseteq Range(batch)
      BY <2>1, <3>1, QueueRange
    <3>3. mac_offer' = mac_offer \/ (Head(batch).kind = "MacClipboard" /\ mac_offer' = Head(batch).of)
      BY <2>4 DEF HandleEvent, SetMacSelection, AdvertiseToClient
    <3>4. NoBounce'
      BY <3>1, <3>2, <3>3
    <3> QED BY <2>4, <3>4 DEF HandleEvent, watch, board, OursIsMarked
  <2>5. CASE LoopStep
    <3>1. Range(<<>>) = {}
      BY DEF Range
    <3>2. NoBounce'
      BY <2>5, <3>1 DEF LoopStep, SetWaker, Poll, Drain, wayland
    <3> QED BY <2>5, <3>2 DEF LoopStep, watch, board, OursIsMarked
  <2>6. ASSUME UNCHANGED <<batch, queue, mac_offer>> PROVE NoBounce'
    BY <2>6
  <2>7. CASE WritePasteboard \/ MarkWritten \/ TickCount
    BY <2>6, <2>7
       DEF WritePasteboard, MarkWritten, TickCount, MainFree, OursIsMarked, busVars, wayland, board
  <2>8. ASSUME NEW t \in MacTexts \cup {NoText}, ForeignCopy(t) PROVE IInv'
    <3>1. pasteboard' \notin Sources
      BY <2>8, TextsAssumption DEF ForeignCopy
    <3> QED BY <2>6, <2>8, <3>1 DEF ForeignCopy, OursIsMarked, busVars, wayland, watch
  <2>9. ASSUME UNCHANGED <<batch, queue, mac_offer, main, changeCount, self_wrote, pasteboard>> PROVE IInv'
    BY <2>6, <2>9 DEF OursIsMarked
  <2>10. ASSUME NEW s \in TextSources, ReadText(s) PROVE IInv'
    BY <2>9, <2>10 DEF ReadText, busVars, wayland, board
  <2>11. ASSUME NEW s \in Sources, Request(SetSelection(s)) \/ Request(DestroySource(s)) PROVE IInv'
    BY <2>9, <2>11 DEF Request, SetSelection, DestroySource, busVars, watch, board
  <2>12. ASSUME NEW c \in Clients,
                Request(GetDataDevice(c)) \/ Request(ClearSelection(c)) \/ Request(Disconnect(c))
         PROVE  IInv'
    BY <2>9, <2>12 DEF Request, GetDataDevice, ClearSelection, Disconnect, busVars, watch, board
  <2>13. CASE Flush \/ PushDone \/ UNCHANGED clipVars
    BY <2>9, <2>13 DEF Flush, PushDone, TurnDone, Wake, clipVars, busVars, wayland, watch, board
  <2> QED BY <2>2, <2>3, <2>4, <2>5, <2>7, <2>8, <2>10, <2>11, <2>12, <2>13 DEF ClipNext, Main
<1> QED BY <1>1, <1>2, TypeCorrect, PTL DEF ClipSpec
=============================================================================
