------------------------- MODULE ShellWindows_proofs -------------------------
(***************************************************************************)
(* Proofs about ShellWindows, for any number of surfaces, windows and      *)
(* commands in flight.                                                     *)
(***************************************************************************)
EXTENDS ShellWindows, CommandQueue_proofs

(* Every kind of record has a create command. *)
LEMMA CreateOpType == \A k : CreateOp(k) \in CreateOps
BY DEF CreateOp, CreateOps

(* A conditional Destroy is a queue of its own. *)
LEMMA DestroyIfCreatedType ==
  ASSUME NEW w, created \subseteq Wins
  PROVE  DestroyIfCreated(w) \in Seq(Commands(Wins))
<1>1. CASE w \in created
  <2>1. Cmd("Destroy", w) \in Commands(Wins)
    BY <1>1, CmdType
  <2> QED BY <1>1, <2>1 DEF DestroyIfCreated
<1>2. CASE w \notin created
  BY <1>2 DEF DestroyIfCreated
<1> QED BY <1>1, <1>2

(* What a commit presents is a window id or nothing. *)
LEMMA PresentTargetType ==
  ASSUME TypeOK, NEW s \in Surfaces
  PROVE  PresentTarget(s) \in Wins \cup {NoWin}
<1>1. \A k \in Kinds : roleOf[k][s] \in Wins \cup {NoWin}
  BY DEF TypeOK
<1> QED BY <1>1 DEF PresentTarget, Kinds

(* The type invariant: what every variable of the two threads may hold,    *)
(* whatever the clients and the user do.                                   *)
THEOREM TypeCorrect == Spec => []TypeOK
<1> USE DEF TypeOK
<1>1. Init => TypeOK
  BY BoundsAssumption DEF Init, Wins, NoWin, Kinds
<1>2. TypeOK /\ [Next]_vars => TypeOK'
  <2> SUFFICES ASSUME TypeOK, [Next]_vars PROVE TypeOK'
    OBVIOUS
  <2> MaxWindow \in Nat
    BY BoundsAssumption
  <2> USE DEF recordVars, flagVars, appkitVars, history
  <2>1. ASSUME NEW s \in Surfaces, NEW k \in Kinds, AddRecord(k, s) PROVE TypeOK'
    <3>1. nextWin' \in 1 .. MaxWindow + 1
      BY <2>1 DEF AddRecord, Wins
    <3>2. /\ live' \subseteq Wins
          /\ kind' \in [Wins -> Kinds \cup {"unborn"}]
          /\ surf' \in [Wins -> Surfaces \cup {NoSurface}]
          /\ windowSurface' \in [Wins -> Surfaces \cup {NoSurface}]
      BY <2>1 DEF AddRecord
    <3>3. roleOf' \in [Kinds -> [Surfaces -> Wins \cup {NoWin}]]
      BY <2>1 DEF AddRecord
    <3> QED BY <2>1, <3>1, <3>2, <3>3 DEF AddRecord
  <2>2. ASSUME NEW w \in Wins, Grab(w) PROVE TypeOK'
    <3>1. Cmd("SetGrab", w) \in Commands(Wins)
      BY CmdType
    <3> QED BY <2>2, <3>1 DEF Grab
  <2>3. ASSUME NEW s \in Surfaces, Commit(s)
        PROVE  configured' \subseteq Wins /\ UNCHANGED <<recordVars, dismissed, bus, appkitVars>>
    BY <2>3 DEF Commit, Roles, NoWin
  <2>4. ASSUME NEW s \in Surfaces, CommitNothing(s) PROVE TypeOK'
    BY <2>3, <2>4 DEF CommitNothing
  <2>5. ASSUME NEW s \in Surfaces, CommitBuffer(s) PROVE TypeOK'
    <3> DEFINE w == PresentTarget(s)
    <3>1. w \in Wins
      BY <2>5, PresentTargetType DEF CommitBuffer
    <3>2. Cmd("Frame", w) \in Commands(Wins) /\ Cmd(CreateOp(kind[w]), w) \in Commands(Wins)
      BY <3>1, CmdType, CreateOpType
    <3>3. queue' \in Seq(Commands(Wins)) /\ created' \subseteq Wins
      <4>1. /\ Append(queue, Cmd("Frame", w)) \in Seq(Commands(Wins))
            /\ queue \o <<Cmd(CreateOp(kind[w]), w), Cmd("Frame", w)>> \in Seq(Commands(Wins))
        BY <3>2
      <4>2. \/ queue' = Append(queue, Cmd("Frame", w)) /\ created' = created
            \/ /\ queue' = queue \o <<Cmd(CreateOp(kind[w]), w), Cmd("Frame", w)>>
               /\ created' = created \cup {w}
        BY <2>5 DEF CommitBuffer
      <4> QED BY <3>1, <4>1, <4>2
    <3>4. popupDone' \in [Wins -> Nat] /\ grabber' = grabber
      BY <2>5 DEF CommitBuffer
    <3>5. configured' \subseteq Wins
          /\ UNCHANGED <<recordVars, dismissed, bus, appkitVars>>
      BY <2>3, <2>5 DEF CommitBuffer
    <3> QED BY <3>3, <3>4, <3>5
  <2>6. ASSUME NEW s \in Surfaces, CommitNull(s) PROVE TypeOK'
    <3> DEFINE w == roleOf["popup"][s]
    <3>1. w \in created => Cmd("Destroy", w) \in Commands(Wins)
      BY CmdType
    <3>2. queue' \in Seq(Commands(Wins)) /\ created' \subseteq Wins
      <4>1. w \in created => Append(queue, Cmd("Destroy", w)) \in Seq(Commands(Wins))
        BY <3>1
      <4>2. \/ w \in created /\ created' = created \ {w} /\ queue' = Append(queue, Cmd("Destroy", w))
            \/ UNCHANGED <<created, queue>>
        BY <2>6 DEF CommitNull
      <4> QED BY <4>1, <4>2
    <3>3. popupDone' = popupDone /\ grabber' \in Wins \cup {NoWin}
      BY <2>6 DEF CommitNull
    <3>4. configured' \subseteq Wins /\ UNCHANGED <<recordVars, dismissed, bus, appkitVars>>
      BY <2>3, <2>6 DEF CommitNull
    <3> QED BY <3>2, <3>3, <3>4
  <2>7. ASSUME NEW k \in Kinds, NEW w \in Wins, Reap(k, w), queue' \in Seq(Commands(Wins)) PROVE TypeOK'
    <3>1. roleOf' \in [Kinds -> [Surfaces -> Wins \cup {NoWin}]]
      BY <2>7 DEF Reap
    <3>2. windowSurface' \in [Wins -> Surfaces \cup {NoSurface}]
      BY <2>7 DEF Reap
    <3> QED BY <2>7, <3>1, <3>2 DEF Reap, ForgetRecords
  <2>8. ASSUME NEW w \in Wins PROVE Cmd("Destroy", w) \in Commands(Wins)
    BY CmdType
  <2>9. ASSUME NEW w \in Wins, ReapToplevel(w) PROVE TypeOK'
    BY <2>7, <2>9, DestroyIfCreatedType DEF ReapToplevel, Kinds
  <2>10. ASSUME NEW w \in Wins, ReapPopup(w) PROVE TypeOK'
    <3>1. queue' \in Seq(Commands(Wins))
      BY <2>8, <2>10 DEF ReapPopup
    <3>2. Reap("popup", w) /\ "popup" \in Kinds
      BY <2>10 DEF ReapPopup, Kinds
    <3> QED BY <2>7, <3>1, <3>2
  <2>11. ASSUME NEW w \in Wins, ReapLayerSurface(w) PROVE TypeOK'
    BY <2>7, <2>11, DestroyIfCreatedType DEF ReapLayerSurface, Kinds
  <2>12. ASSUME NEW s \in Surfaces, SurfaceDestroy(s) PROVE TypeOK'
    <3>1. queue' \in Seq(Commands(Wins))
      BY <2>12, DestroyIfCreatedType DEF SurfaceDestroy
    <3>2. roleOf' \in [Kinds -> [Surfaces -> Wins \cup {NoWin}]]
      BY <2>12 DEF SurfaceDestroy
    <3>3. windowSurface' \in [Wins -> Surfaces \cup {NoSurface}]
      BY <2>12 DEF SurfaceDestroy
    <3> QED BY <2>12, <3>1, <3>2, <3>3 DEF SurfaceDestroy, ForgetRecords
  <2>13. ASSUME NEW w \in Wins, Dismiss(w), bus' \in Seq(Wins) PROVE TypeOK'
    <3>1. Cmd("SetGrab", NoWin) \in Commands(Wins)
      BY CmdType
    <3>2. queue' \in Seq(Commands(Wins)) /\ dismissed' \subseteq Wins
      BY <2>13, <3>1 DEF Dismiss
    <3>3. popupDone' \in [Wins -> Nat]
      <4>1. popupDone[w] + 1 \in Nat
        OBVIOUS
      <4>2. [popupDone EXCEPT ![w] = popupDone[w] + 1] \in [Wins -> Nat]
        BY <4>1
      <4>3. popupDone' = [popupDone EXCEPT ![w] = popupDone[w] + 1] \/ popupDone' = popupDone
        BY <2>13 DEF Dismiss
      <4> QED BY <4>2, <4>3
    <3> QED BY <2>13, <3>2, <3>3 DEF Dismiss
  <2>20. CASE Input
    <3>1. CASE PopupDismiss
      <4>1. Head(bus) \in Wins /\ Tail(bus) \in Seq(Wins)
        BY <3>1 DEF PopupDismiss
      <4> QED BY <2>13, <3>1, <4>1 DEF PopupDismiss
    <3>2. ASSUME NEW w \in Wins, AppDeactivated(w) PROVE TypeOK'
      BY <2>13, <3>2 DEF AppDeactivated
    <3> QED BY <2>20, <3>1, <3>2 DEF Input
  <2>14. ASSUME NEW ops, NEW w, Handle(ops, w)
         PROVE  /\ queue' \in Seq(Commands(Wins))
                /\ Head(queue) \in Commands(Wins)
    BY <2>14 DEF Handle
  <2>15. ASSUME NEW w \in Wins \cup {NoWin}, HandleCreate(w) PROVE TypeOK'
    <3>1. w \in Wins
      BY <2>14, <2>15, CmdWindow
         DEF HandleCreate, HandleCreateWindow, HandleCreatePopup, HandleCreateLayer,
             Handle, CreateOps
    <3> QED BY <2>14, <2>15, <3>1
       DEF HandleCreate, HandleCreateWindow, HandleCreatePopup, HandleCreateLayer,
           Handle
  <2>16. ASSUME NEW w \in Wins \cup {NoWin}, HandleFrame(w) \/ HandleSetGrab(w) \/ HandleDestroy(w)
         PROVE  TypeOK'
    BY <2>14, <2>16 DEF HandleFrame, HandleSetGrab, HandleDestroy, Handle
  <2>17. CASE MouseDropsGrab
    BY <2>17 DEF MouseDropsGrab
  <2>18. CASE PressOutside
    BY <2>18 DEF PressOutside
  <2>19. CASE UNCHANGED vars
    BY <2>19 DEF vars
  <2> QED
    BY <2>1, <2>2, <2>4, <2>5, <2>6, <2>9, <2>10, <2>11, <2>12, <2>15, <2>16, <2>17, <2>18, <2>19, <2>20
    DEF Next, Client, AppKit, Mouse, GetToplevel, GetPopup, GetLayerSurface, Kinds
<1> QED BY <1>1, <1>2, PTL DEF Spec

-----------------------------------------------------------------------------
(***************************************************************************)
(* The records and the maps that name them.                                *)
(***************************************************************************)

(* RolesNameLiveRecords is inductive once it is known that a record's id   *)
(* was handed out before, so that a new record never takes an old one's    *)
(* place.                                                                  *)
RecordsOK ==
  /\ live \subseteq 1 .. nextWin - 1
  /\ \A w \in nextWin .. MaxWindow : kind[w] = "unborn"
  /\ \A w \in live : kind[w] \in Kinds /\ surf[w] \in Surfaces
  /\ RolesNameLiveRecords

(* A new record. *)
LEMMA AddRecordKeepsRecords ==
  ASSUME TypeOK, RecordsOK, NEW k \in Kinds, NEW s \in Surfaces, AddRecord(k, s)
  PROVE  RecordsOK'
<1>1. nextWin \in Wins /\ nextWin \notin live /\ nextWin' = nextWin + 1 /\ live' = live \cup {nextWin}
  BY DEF TypeOK, RecordsOK, AddRecord
<1>2. /\ kind' = [kind EXCEPT ![nextWin] = k] /\ kind \in [Wins -> Kinds \cup {"unborn"}]
      /\ surf' = [surf EXCEPT ![nextWin] = s] /\ surf \in [Wins -> Surfaces \cup {NoSurface}]
  BY DEF TypeOK, AddRecord
<1>3. live' \subseteq 1 .. nextWin' - 1
  BY <1>1 DEF RecordsOK, Wins
<1>4. live \subseteq Wins
  BY DEF TypeOK
<1>5. \A w \in live : kind'[w] = kind[w] /\ surf'[w] = surf[w]
  BY <1>1, <1>2, <1>4
<1>6. kind'[nextWin] = k /\ surf'[nextWin] = s
  BY <1>1, <1>2
<1>7. \A w \in live' : kind'[w] \in Kinds /\ surf'[w] \in Surfaces
  BY <1>1, <1>5, <1>6 DEF RecordsOK
<1>8. ASSUME NEW j \in Kinds, NEW r \in Surfaces, roleOf'[j][r] # NoWin
      PROVE  LET w == roleOf'[j][r] IN w \in live' /\ kind'[w] = j /\ surf'[w] = r
  <2>1. roleOf' = [roleOf EXCEPT ![k][s] = nextWin] /\ roleOf \in [Kinds -> [Surfaces -> Wins \cup {NoWin}]]
    BY DEF TypeOK, AddRecord
  <2>2. CASE j = k /\ r = s
    <3> roleOf'[j][r] = nextWin
      BY <2>1, <2>2
    <3> QED BY <1>1, <1>6, <2>2
  <2>3. CASE ~(j = k /\ r = s)
    <3>1. roleOf'[j][r] = roleOf[j][r]
      BY <2>1, <2>3
    <3> QED BY <1>1, <1>5, <1>8, <3>1 DEF RecordsOK, RolesNameLiveRecords
  <2> QED BY <2>2, <2>3
<1>9. \A w \in nextWin' .. MaxWindow : kind'[w] = "unborn"
  <2>1. \A w \in nextWin' .. MaxWindow : w \in Wins /\ w \in nextWin .. MaxWindow /\ w # nextWin
    BY <1>1, BoundsAssumption DEF Wins
  <2> QED BY <1>2, <2>1 DEF RecordsOK
<1> QED BY <1>3, <1>7, <1>8, <1>9 DEF RecordsOK, RolesNameLiveRecords

(* A record that goes takes the entry that names it along. *)
LEMMA ReapKeepsRecords ==
  ASSUME TypeOK, RecordsOK, NEW k \in Kinds, NEW w \in Wins, Reap(k, w)
  PROVE  RecordsOK'
<1>1. w \in live /\ kind[w] = k /\ surf[w] \in Surfaces
  BY DEF Reap, RecordsOK
<1>2. live' = live \ {w} /\ UNCHANGED <<nextWin, kind, surf>>
  BY DEF Reap, ForgetRecords
<1>3. roleOf' = [roleOf EXCEPT ![k][surf[w]] = NoWin] /\ roleOf \in [Kinds -> [Surfaces -> Wins \cup {NoWin}]]
  BY DEF Reap, TypeOK
<1>4. ASSUME NEW j \in Kinds, NEW r \in Surfaces, roleOf'[j][r] # NoWin
      PROVE  LET x == roleOf'[j][r] IN x \in live' /\ kind'[x] = j /\ surf'[x] = r
  <2>1. ~(j = k /\ r = surf[w])
    BY <1>1, <1>3, <1>4
  <2>2. roleOf'[j][r] = roleOf[j][r]
    BY <1>1, <1>3, <2>1
  <2>3. LET x == roleOf[j][r] IN x \in live /\ kind[x] = j /\ surf[x] = r
    BY <1>4, <2>2 DEF RecordsOK, RolesNameLiveRecords
  <2>4. roleOf[j][r] # w
    BY <1>1, <2>1, <2>3
  <2> QED BY <1>2, <2>2, <2>3, <2>4
<1>5. /\ live' \subseteq 1 .. nextWin' - 1
      /\ \A x \in nextWin' .. MaxWindow : kind'[x] = "unborn"
      /\ \A x \in live' : kind'[x] \in Kinds /\ surf'[x] \in Surfaces
  BY <1>2 DEF RecordsOK
<1> QED BY <1>4, <1>5 DEF RecordsOK, RolesNameLiveRecords

(* A surface that goes takes the records it removes out of its role maps. *)
LEMMA SurfaceDestroyKeepsRecords ==
  ASSUME TypeOK, RecordsOK, NEW s \in Surfaces, SurfaceDestroy(s)
  PROVE  RecordsOK'
<1> DEFINE t == roleOf["toplevel"][s]
           l == roleOf["layer"][s]
<1>1. live' = live \ ({t, l} \ {NoWin}) /\ UNCHANGED <<nextWin, kind, surf>>
  BY DEF SurfaceDestroy, ForgetRecords
<1>2. /\ roleOf' = [roleOf EXCEPT !["toplevel"][s] = NoWin, !["layer"][s] = NoWin]
      /\ roleOf \in [Kinds -> [Surfaces -> Wins \cup {NoWin}]]
  BY DEF SurfaceDestroy, TypeOK
<1>3. ASSUME NEW j \in Kinds, NEW r \in Surfaces, roleOf'[j][r] # NoWin
      PROVE  LET x == roleOf'[j][r] IN x \in live' /\ kind'[x] = j /\ surf'[x] = r
  <2>1. ~(j \in {"toplevel", "layer"} /\ r = s)
    BY <1>2, <1>3
  <2>2. roleOf'[j][r] = roleOf[j][r]
    BY <1>2, <2>1
  <2>3. LET x == roleOf[j][r] IN x \in live /\ kind[x] = j /\ surf[x] = r
    BY <1>3, <2>2 DEF RecordsOK, RolesNameLiveRecords
  <2>4. t # NoWin => kind[t] = "toplevel" /\ surf[t] = s
    BY DEF RecordsOK, RolesNameLiveRecords, Kinds
  <2>5. l # NoWin => kind[l] = "layer" /\ surf[l] = s
    BY DEF RecordsOK, RolesNameLiveRecords, Kinds
  <2>6. roleOf[j][r] \notin {t, l} \ {NoWin}
    BY <2>1, <2>3, <2>4, <2>5
  <2> QED BY <1>1, <2>2, <2>3, <2>6
<1>4. /\ live' \subseteq 1 .. nextWin' - 1
      /\ \A x \in nextWin' .. MaxWindow : kind'[x] = "unborn"
      /\ \A x \in live' : kind'[x] \in Kinds /\ surf'[x] \in Surfaces
  BY <1>1 DEF RecordsOK
<1> QED BY <1>3, <1>4 DEF RecordsOK, RolesNameLiveRecords

(* Every other step leaves the records alone. *)
LEMMA NoRecordChange ==
  ASSUME RecordsOK, UNCHANGED <<live, nextWin, kind, surf, roleOf>>
  PROVE  RecordsOK'
BY DEF RecordsOK, RolesNameLiveRecords

(* RecordsOK holds throughout. *)
LEMMA RecordsInvariant == Spec => []RecordsOK
<1>1. Init => RecordsOK
  BY DEF Init, RecordsOK, RolesNameLiveRecords, Wins
<1>2. TypeOK /\ RecordsOK /\ [Next]_vars => RecordsOK'
  <2> SUFFICES ASSUME TypeOK, RecordsOK, [Next]_vars PROVE RecordsOK'
    OBVIOUS
  <2>1. ASSUME NEW s \in Surfaces, GetToplevel(s) \/ GetPopup(s) \/ GetLayerSurface(s)
        PROVE  RecordsOK'
    BY <2>1, AddRecordKeepsRecords DEF GetToplevel, GetPopup, GetLayerSurface, Kinds
  <2>2. ASSUME NEW s \in Surfaces, CommitNothing(s) \/ CommitBuffer(s) \/ CommitNull(s)
        PROVE  RecordsOK'
    <3>1. Commit(s)
      BY <2>2 DEF CommitNothing, CommitBuffer, CommitNull
    <3> QED BY <3>1, NoRecordChange DEF Commit, recordVars
  <2>3. ASSUME NEW s \in Surfaces, SurfaceDestroy(s) PROVE RecordsOK'
    BY <2>3, SurfaceDestroyKeepsRecords
  <2>4. ASSUME NEW w \in Wins, ReapToplevel(w) \/ ReapPopup(w) \/ ReapLayerSurface(w)
        PROVE  RecordsOK'
    BY <2>4, ReapKeepsRecords DEF ReapToplevel, ReapPopup, ReapLayerSurface, Kinds
  <2>5. ASSUME NEW w \in Wins, Grab(w) PROVE RecordsOK'
    BY <2>5, NoRecordChange DEF Grab, recordVars
  <2>6. CASE Input
    BY <2>6, NoRecordChange DEF Input, PopupDismiss, AppDeactivated, Dismiss, recordVars
  <2>7. ASSUME NEW w, HandleCreate(w) \/ HandleFrame(w) \/ HandleSetGrab(w) \/ HandleDestroy(w)
        PROVE  RecordsOK'
    BY <2>7, NoRecordChange
       DEF HandleCreate, HandleCreateWindow, HandleCreatePopup, HandleCreateLayer,
           HandleFrame, HandleSetGrab, HandleDestroy, Handle, recordVars
  <2>8. CASE MouseDropsGrab \/ PressOutside
    BY <2>8, NoRecordChange DEF MouseDropsGrab, PressOutside, recordVars
  <2>9. CASE UNCHANGED vars
    BY <2>9, NoRecordChange DEF vars, recordVars
  <2> QED BY <2>1, <2>2, <2>3, <2>4, <2>5, <2>6, <2>7, <2>8, <2>9 DEF Next, Client, AppKit, Mouse
<1> QED BY <1>1, <1>2, TypeCorrect, PTL DEF Spec

(* The Wayland thread never follows a surface's role map to a record that  *)
(* is gone, in whatever order clients give up objects and surfaces.        *)
THEOREM RolesCorrect == Spec => []RolesNameLiveRecords
<1>1. RecordsOK => RolesNameLiveRecords
  BY DEF RecordsOK
<1> QED BY <1>1, RecordsInvariant, PTL

-----------------------------------------------------------------------------
(***************************************************************************)
(* The queue leads from the screen to the created windows.                 *)
(***************************************************************************)

(* The conditional Destroy of the reap functions. *)
LEMMA LeadsDestroyIfCreated ==
  ASSUME NEW q \in Seq(Commands(Wins)), NEW W, NEW C, Leads(Wins, q, W, C),
         C \subseteq created, created \subseteq Wins, NEW w
  PROVE  /\ q \o DestroyIfCreated(w) \in Seq(Commands(Wins))
         /\ Leads(Wins, q \o DestroyIfCreated(w), W, C \ {w})
<1>1. CASE w \in created
  <2>1. Cmd("Destroy", w) \in Commands(Wins)
    BY <1>1, CmdType
  <2>2. q \o DestroyIfCreated(w) = Append(q, Cmd("Destroy", w))
    BY <1>1, <2>1 DEF DestroyIfCreated
  <2>3. Append(q, Cmd("Destroy", w)) \in Seq(Commands(Wins))
    BY <2>1
  <2>4. Leads(Wins, Append(q, Cmd("Destroy", w)), W, C \ {w})
    BY <1>1, LeadsDestroy
  <2> QED BY <2>2, <2>3, <2>4
<1>2. CASE w \notin created
  <2>1. q \o DestroyIfCreated(w) = q
    BY <1>2 DEF DestroyIfCreated
  <2>2. C \ {w} = C
    BY <1>2
  <2> QED BY <2>1, <2>2
<1> QED BY <1>1, <1>2

(* Only windows of living records are created, and the queue says so. *)
QueueOK ==
  /\ created \subseteq live
  /\ Leads(Wins, queue, WINDOWS, created)

(* A committed buffer. *)
LEMMA CommitBufferKeepsQueue ==
  ASSUME TypeOK, RolesNameLiveRecords, QueueOK, NEW s \in Surfaces, CommitBuffer(s)
  PROVE  QueueOK'
<1> DEFINE w == PresentTarget(s)
<1>1. w \in Wins
  BY PresentTargetType DEF CommitBuffer
<1>2. w \in live
  BY <1>1 DEF PresentTarget, CommitBuffer, RolesNameLiveRecords, Kinds
<1>3. live' = live /\ WINDOWS' = WINDOWS
  BY DEF CommitBuffer, Commit, recordVars, appkitVars
<1>4. queue \in Seq(Commands(Wins))
  BY DEF TypeOK
<1> HIDE DEF w
<1>5. CASE w \in created /\ queue' = Append(queue, Cmd("Frame", w)) /\ created' = created
  BY <1>1, <1>3, <1>4, <1>5, LeadsFrame DEF QueueOK
<1>6. CASE /\ w \notin created
           /\ queue' = queue \o <<Cmd(CreateOp(kind[w]), w), Cmd("Frame", w)>>
           /\ created' = created \cup {w}
  <2> DEFINE a == Cmd(CreateOp(kind[w]), w)
             b == Cmd("Frame", w)
             q == Append(queue, a)
  <2>1. a \in Commands(Wins) /\ b \in Commands(Wins)
    BY <1>1, CmdType, CreateOpType
  <2>2. q \in Seq(Commands(Wins))
    BY <1>4, <2>1
  <2>3. Leads(Wins, q, WINDOWS, created')
    BY <1>1, <1>4, <1>6, CreateOpType, LeadsCreate DEF QueueOK
  <2>4. queue' = Append(q, b)
    <3>1. queue' = queue \o <<a, b>>
      BY <1>6
    <3> HIDE DEF a, b
    <3> QED BY <1>4, <2>1, <3>1
  <2>5. w \in created'
    BY <1>6
  <2> HIDE DEF q
  <2>6. Leads(Wins, queue', WINDOWS, created')
    BY <1>1, <2>2, <2>3, <2>4, <2>5, LeadsFrame
  <2> QED BY <1>2, <1>3, <1>6, <2>6 DEF QueueOK
<1> QED BY <1>5, <1>6 DEF CommitBuffer, w

(* attach(NULL) on a popup. *)
LEMMA CommitNullKeepsQueue ==
  ASSUME TypeOK, QueueOK, NEW s \in Surfaces, CommitNull(s)
  PROVE  QueueOK'
<1> DEFINE w == roleOf["popup"][s]
<1>1. live' = live /\ WINDOWS' = WINDOWS
  BY DEF CommitNull, Commit, recordVars, appkitVars
<1>2. queue \in Seq(Commands(Wins)) /\ created \subseteq Wins
  BY DEF TypeOK
<1>3. CASE w \in created /\ created' = created \ {w} /\ queue' = Append(queue, Cmd("Destroy", w))
  BY <1>1, <1>2, <1>3, LeadsDestroy DEF QueueOK
<1>4. CASE UNCHANGED <<created, queue>>
  BY <1>1, <1>4 DEF QueueOK
<1> QED BY <1>3, <1>4 DEF CommitNull

(* A record that is reaped. *)
LEMMA ReapKeepsQueue ==
  ASSUME TypeOK, QueueOK, NEW k, NEW w \in Wins, Reap(k, w),
         \/ queue' = queue \o DestroyIfCreated(w)
         \/ queue' = Append(queue, Cmd("Destroy", w))
  PROVE  QueueOK'
<1>1. live' = live \ {w} /\ created' = created \ {w} /\ WINDOWS' = WINDOWS
  BY DEF Reap, ForgetRecords, appkitVars
<1>2. queue \in Seq(Commands(Wins)) /\ created \subseteq Wins /\ Leads(Wins, queue, WINDOWS, created)
  BY DEF TypeOK, QueueOK
<1>3. Leads(Wins, queue', WINDOWS, created \ {w})
  <2>1. CASE queue' = queue \o DestroyIfCreated(w)
    BY <1>2, <2>1, LeadsDestroyIfCreated
  <2>2. CASE queue' = Append(queue, Cmd("Destroy", w))
    BY <1>2, <2>2, LeadsDestroy
  <2> QED BY <2>1, <2>2
<1> QED BY <1>1, <1>3 DEF QueueOK

(* wl_surface.destroy takes up to two records along. *)
LEMMA SurfaceDestroyKeepsQueue ==
  ASSUME TypeOK, QueueOK, NEW s \in Surfaces, SurfaceDestroy(s)
  PROVE  QueueOK'
<1> DEFINE t == roleOf["toplevel"][s]
           l == roleOf["layer"][s]
           q == queue \o DestroyIfCreated(t)
<1>1. /\ live' = live \ ({t, l} \ {NoWin})
      /\ created' = created \ ({t, l} \ {NoWin})
      /\ WINDOWS' = WINDOWS
      /\ queue' = q \o DestroyIfCreated(l)
  BY DEF SurfaceDestroy, ForgetRecords, appkitVars
<1>2. queue \in Seq(Commands(Wins)) /\ created \subseteq Wins /\ Leads(Wins, queue, WINDOWS, created)
  BY DEF TypeOK, QueueOK
<1>3. q \in Seq(Commands(Wins)) /\ Leads(Wins, q, WINDOWS, created \ {t})
  BY <1>2, LeadsDestroyIfCreated
<1> HIDE DEF q
<1>4. Leads(Wins, q \o DestroyIfCreated(l), WINDOWS, (created \ {t}) \ {l})
  BY <1>2, <1>3, LeadsDestroyIfCreated
<1>5. created' = (created \ {t}) \ {l}
  BY <1>1, <1>2 DEF Wins, NoWin
<1> QED BY <1>1, <1>4, <1>5 DEF QueueOK

(* AppKit handles a command. *)
LEMMA HandleKeepsQueue ==
  ASSUME TypeOK, QueueOK, NEW w \in Wins \cup {NoWin},
         HandleCreate(w) \/ HandleFrame(w) \/ HandleSetGrab(w) \/ HandleDestroy(w)
  PROVE  QueueOK'
<1> DEFINE c == Head(queue)
<1>1. queue \in Seq(Commands(Wins)) /\ queue # <<>> /\ queue' = Tail(queue) /\ c.win = w
  BY DEF TypeOK, HandleCreate, HandleCreateWindow, HandleCreatePopup, HandleCreateLayer,
         HandleFrame, HandleSetGrab, HandleDestroy, Handle
<1>2. live' = live /\ created' = created
  BY DEF HandleCreate, HandleCreateWindow, HandleCreatePopup, HandleCreateLayer,
         HandleFrame, HandleSetGrab, HandleDestroy, Handle, recordVars, flagVars
<1>3. \A v \in Wins : v \in WINDOWS' <=> Creates(c, v) \/ (v \in WINDOWS /\ ~Destroys(c, v))
  <2>1. CASE HandleCreate(w)
    <3>1. c.op \in CreateOps /\ WINDOWS' = WINDOWS \cup {w}
      BY <2>1
         DEF HandleCreate, HandleCreateWindow, HandleCreatePopup, HandleCreateLayer,
             Handle, CreateOps
    <3> QED BY <1>1, <3>1 DEF Creates, Destroys, CreateOps
  <2>2. CASE HandleFrame(w) \/ HandleSetGrab(w)
    <3>1. c.op \in {"Frame", "SetGrab"} /\ WINDOWS' = WINDOWS
      BY <2>2 DEF HandleFrame, HandleSetGrab, Handle, appkitVars
    <3> QED BY <3>1 DEF Creates, Destroys, CreateOps
  <2>3. CASE HandleDestroy(w)
    <3>1. c.op = "Destroy" /\ WINDOWS' = WINDOWS \ {w}
      BY <2>3 DEF HandleDestroy, Handle
    <3> QED BY <1>1, <3>1 DEF Creates, Destroys, CreateOps
  <2> QED BY <2>1, <2>2, <2>3
<1> HIDE DEF c
<1>4. Leads(Wins, Tail(queue), WINDOWS', created)
  BY <1>1, <1>3, LeadsTail DEF QueueOK, c
<1> QED BY <1>1, <1>2, <1>4 DEF QueueOK

(* QueueOK holds throughout. *)
LEMMA QueueInvariant == Spec => []QueueOK
<1>1. Init => QueueOK
  BY DEF Init, QueueOK, Leads, Shown, Fits
<1>2. TypeOK /\ RolesNameLiveRecords /\ QueueOK /\ [Next]_vars => QueueOK'
  <2> SUFFICES ASSUME TypeOK, RolesNameLiveRecords, QueueOK, [Next]_vars PROVE QueueOK'
    OBVIOUS
  <2>1. ASSUME created \subseteq live', UNCHANGED <<created, queue, WINDOWS>> PROVE QueueOK'
    BY <2>1 DEF QueueOK
  <2>2. ASSUME NEW w \in Wins \cup {NoWin}, queue' = Append(queue, Cmd("SetGrab", w)),
               UNCHANGED <<live, created, WINDOWS>>
        PROVE  QueueOK'
    BY <2>2, LeadsSetGrab DEF QueueOK, TypeOK
  <2>3. ASSUME NEW s \in Surfaces, GetToplevel(s) \/ GetPopup(s) \/ GetLayerSurface(s)
        PROVE  QueueOK'
    BY <2>1, <2>3
    DEF GetToplevel, GetPopup, GetLayerSurface, AddRecord, QueueOK, flagVars, appkitVars
  <2>4. ASSUME NEW w \in Wins, Grab(w) PROVE QueueOK'
    BY <2>2, <2>4 DEF Grab, recordVars, flagVars, appkitVars
  <2>5. ASSUME NEW s \in Surfaces, CommitNothing(s) PROVE QueueOK'
    BY <2>1, <2>5 DEF CommitNothing, Commit, recordVars, appkitVars, QueueOK
  <2>6. ASSUME NEW s \in Surfaces, CommitBuffer(s) \/ CommitNull(s) \/ SurfaceDestroy(s)
        PROVE  QueueOK'
    BY <2>6, CommitBufferKeepsQueue, CommitNullKeepsQueue, SurfaceDestroyKeepsQueue
  <2>7. ASSUME NEW w \in Wins, ReapToplevel(w) \/ ReapPopup(w) \/ ReapLayerSurface(w)
        PROVE  QueueOK'
    BY <2>7, ReapKeepsQueue DEF ReapToplevel, ReapPopup, ReapLayerSurface
  <2>8. CASE Input
    BY <2>2, <2>8 DEF Input, PopupDismiss, AppDeactivated, Dismiss, recordVars, appkitVars
  <2>9. ASSUME NEW w \in Wins \cup {NoWin},
               HandleCreate(w) \/ HandleFrame(w) \/ HandleSetGrab(w) \/ HandleDestroy(w)
        PROVE  QueueOK'
    BY <2>9, HandleKeepsQueue
  <2>10. CASE MouseDropsGrab \/ PressOutside
    BY <2>1, <2>10 DEF MouseDropsGrab, PressOutside, recordVars, flagVars, appkitVars, QueueOK
  <2>11. CASE UNCHANGED vars
    BY <2>1, <2>11 DEF vars, recordVars, flagVars, appkitVars, QueueOK
  <2> QED BY <2>3, <2>4, <2>5, <2>6, <2>7, <2>8, <2>9, <2>10, <2>11 DEF Next, Client, AppKit, Mouse
<1> QED BY <1>1, <1>2, TypeCorrect, RolesCorrect, PTL DEF Spec

(* No NSWindow is orphaned and none is missing: once the commands in       *)
(* flight are handled, the screen shows exactly the windows whose records  *)
(* live and say `created_window`.                                          *)
THEOREM WindowsCorrect == Spec => []WindowsFollowRecords
<1>1. QueueOK => WindowsFollowRecords
  BY DEF QueueOK, Leads, WindowsFollowRecords
<1> QED BY <1>1, QueueInvariant, PTL

(* AppKit is never asked to create a window twice and never handed a frame *)
(* for a window that is not there.                                         *)
THEOREM CommandsCorrect == Spec => []CommandsFindTheirWindow
<1>1. QueueOK => CommandsFindTheirWindow
  BY DEF QueueOK, Leads, CommandsFindTheirWindow
<1> QED BY <1>1, QueueInvariant, PTL

-----------------------------------------------------------------------------
(***************************************************************************)
(* The grab.                                                               *)
(***************************************************************************)

(* The conditional Destroy of the reap functions. *)
LEMMA HeldDestroyIfCreated ==
  ASSUME NEW q \in Seq(Commands(Wins)), NEW G, NEW L, NEW P, Held(Wins, q, G, L, P),
         created \subseteq Wins, NEW w
  PROVE  /\ q \o DestroyIfCreated(w) \in Seq(Commands(Wins))
         /\ Held(Wins, q \o DestroyIfCreated(w), G, L, P)
<1>1. CASE w \in created
  <2>1. Cmd("Destroy", w) \in Commands(Wins)
    BY <1>1, CmdType
  <2>2. q \o DestroyIfCreated(w) = Append(q, Cmd("Destroy", w))
    BY <1>1, <2>1 DEF DestroyIfCreated
  <2>3. Append(q, Cmd("Destroy", w)) \in Seq(Commands(Wins))
    BY <2>1
  <2>4. Held(Wins, Append(q, Cmd("Destroy", w)), G, L, P)
    BY <1>1, HeldPlainAppend
  <2> QED BY <2>2, <2>3, <2>4
<1>2. CASE w \notin created
  <2>1. q \o DestroyIfCreated(w) = q
    BY <1>2 DEF DestroyIfCreated
  <2> QED BY <2>1
<1> QED BY <1>1, <1>2

(* A new record may be a popup, and was not one before. *)
LEMMA AddRecordKeepsGrab ==
  ASSUME TypeOK, RecordsOK, GrabNeverOutlivesPopup, NEW k \in Kinds, NEW s \in Surfaces, AddRecord(k, s)
  PROVE  GrabNeverOutlivesPopup'
<1>1. UNCHANGED <<queue, GRAB>> /\ live' = live \cup {nextWin}
  BY DEF AddRecord, appkitVars
<1>2. Popups \subseteq Popups'
  <2>1. kind[nextWin] = "unborn"
    BY DEF AddRecord, RecordsOK, Wins
  <2>2. \A w \in Popups : w # nextWin
    BY <2>1 DEF Popups
  <2> QED BY <2>2 DEF AddRecord, Popups, TypeOK
<1> QED BY <1>1, <1>2, HeldRecords DEF GrabNeverOutlivesPopup

(* The client asks for the grab of a living popup. *)
LEMMA GrabKeepsGrab ==
  ASSUME TypeOK, GrabNeverOutlivesPopup, NEW v \in Wins, Grab(v)
  PROVE  GrabNeverOutlivesPopup'
<1> DEFINE c == Cmd("SetGrab", v)
<1>1. c \in Commands(Wins)
  BY CmdType
<1>2. c.op = "SetGrab" /\ c.win = v
  BY DEF Cmd
<1>3. v \in live \cap Popups
  BY DEF Grab, Popups
<1>4. UNCHANGED <<live, GRAB, Popups>> /\ queue' = Append(queue, c) /\ queue \in Seq(Commands(Wins))
  BY DEF Grab, Popups, recordVars, appkitVars, TypeOK
<1> HIDE DEF c
<1>5. Held(Wins, Append(queue, c), GRAB, live, Popups)
  BY <1>1, <1>2, <1>3, <1>4, HeldAppend DEF GrabNeverOutlivesPopup, Grabs
<1> QED BY <1>4, <1>5 DEF GrabNeverOutlivesPopup

(* Commits only create, paint and destroy. *)
LEMMA CommitKeepsGrab ==
  ASSUME TypeOK, GrabNeverOutlivesPopup, NEW s \in Surfaces, CommitNothing(s) \/ CommitBuffer(s) \/ CommitNull(s)
  PROVE  GrabNeverOutlivesPopup'
<1>1. UNCHANGED <<live, GRAB, Popups>> /\ queue \in Seq(Commands(Wins))
  BY DEF CommitNothing, CommitBuffer, CommitNull, Commit, recordVars, appkitVars, Popups, TypeOK
<1>2. SUFFICES Held(Wins, queue', GRAB, live, Popups)
  BY <1>1 DEF GrabNeverOutlivesPopup
<1>3. CASE CommitNothing(s)
  BY <1>3 DEF CommitNothing, GrabNeverOutlivesPopup
<1>4. CASE CommitBuffer(s)
  <2> DEFINE w == PresentTarget(s)
             a == Cmd(CreateOp(kind[w]), w)
             b == Cmd("Frame", w)
  <2>1. w \in Wins
    BY <1>4, PresentTargetType DEF CommitBuffer
  <2>2. a \in Commands(Wins) /\ b \in Commands(Wins)
    BY <2>1, CmdType, CreateOpType
  <2>3. Held(Wins, Append(queue, b), GRAB, live, Popups)
    BY <1>1, <2>1, HeldPlainAppend DEF GrabNeverOutlivesPopup
  <2>4. Held(Wins, Append(queue, a), GRAB, live, Popups)
    BY <1>1, <2>1, CreateOpType, HeldPlainAppend DEF GrabNeverOutlivesPopup
  <2>5. Append(queue, a) \in Seq(Commands(Wins))
    BY <1>1, <2>2
  <2>6. Held(Wins, Append(Append(queue, a), b), GRAB, live, Popups)
    BY <2>1, <2>4, <2>5, HeldPlainAppend
  <2>7. queue' = Append(queue, b) \/ queue' = queue \o <<a, b>>
    BY <1>4 DEF CommitBuffer
  <2> HIDE DEF a, b
  <2>8. queue \o <<a, b>> = Append(Append(queue, a), b)
    BY <1>1, <2>2
  <2> QED BY <2>3, <2>6, <2>7, <2>8
<1>5. CASE CommitNull(s)
  <2> DEFINE w == roleOf["popup"][s]
  <2>1. \/ w \in created /\ queue' = Append(queue, Cmd("Destroy", w))
        \/ queue' = queue
    BY <1>5 DEF CommitNull
  <2>2. w \in created => w \in Wins
    BY DEF TypeOK
  <2> HIDE DEF w
  <2> QED BY <1>1, <2>1, <2>2, HeldPlainAppend DEF GrabNeverOutlivesPopup
<1> QED BY <1>3, <1>4, <1>5

(* Records that are no popups go without a word about the grab. *)
LEMMA ReapOtherKeepsGrab ==
  ASSUME TypeOK, GrabNeverOutlivesPopup, NEW w \in Wins, ReapToplevel(w) \/ ReapLayerSurface(w)
  PROVE  GrabNeverOutlivesPopup'
<1>1. /\ UNCHANGED <<GRAB, Popups>> /\ queue \in Seq(Commands(Wins)) /\ created \subseteq Wins
      /\ live' = live \ {w} /\ w \notin Popups
      /\ queue' = queue \o DestroyIfCreated(w)
  BY DEF ReapToplevel, ReapLayerSurface, Reap, ForgetRecords, appkitVars, Popups, TypeOK
<1>2. Held(Wins, queue, GRAB, live', Popups)
  BY <1>1, HeldRecords DEF GrabNeverOutlivesPopup
<1>3. Held(Wins, queue', GRAB, live', Popups)
  BY <1>1, <1>2, HeldDestroyIfCreated
<1> QED BY <1>1, <1>3 DEF GrabNeverOutlivesPopup

(* A popup's record goes with a Destroy, whether it painted or not. *)
LEMMA ReapPopupKeepsGrab ==
  ASSUME TypeOK, GrabNeverOutlivesPopup, NEW v \in Wins, ReapPopup(v)
  PROVE  GrabNeverOutlivesPopup'
<1> DEFINE c == Cmd("Destroy", v)
<1>1. c \in Commands(Wins)
  BY CmdType
<1>2. c.op = "Destroy" /\ c.win = v
  BY DEF Cmd
<1>3. /\ UNCHANGED <<GRAB, Popups>> /\ queue \in Seq(Commands(Wins))
      /\ live' = live \ {v} /\ queue' = Append(queue, c)
  BY DEF ReapPopup, Reap, ForgetRecords, appkitVars, Popups, TypeOK
<1> HIDE DEF c
<1>4. \A w \in live \cap Popups : w \in live' \/ Destroys(c, w)
  BY <1>2, <1>3 DEF Destroys
<1>5. Held(Wins, Append(queue, c), GRAB, live', Popups)
  BY <1>1, <1>2, <1>3, <1>4, HeldAppend DEF GrabNeverOutlivesPopup, Grabs
<1> QED BY <1>3, <1>5 DEF GrabNeverOutlivesPopup

(* wl_surface.destroy leaves popups alone. *)
LEMMA SurfaceDestroyKeepsGrab ==
  ASSUME TypeOK, RecordsOK, GrabNeverOutlivesPopup, NEW s \in Surfaces, SurfaceDestroy(s)
  PROVE  GrabNeverOutlivesPopup'
<1> DEFINE t == roleOf["toplevel"][s]
           l == roleOf["layer"][s]
           q == queue \o DestroyIfCreated(t)
<1>1. /\ UNCHANGED <<GRAB, Popups>> /\ queue \in Seq(Commands(Wins)) /\ created \subseteq Wins
      /\ live' = live \ ({t, l} \ {NoWin})
      /\ queue' = q \o DestroyIfCreated(l)
  BY DEF SurfaceDestroy, ForgetRecords, appkitVars, Popups, TypeOK
<1>2. live \cap Popups \subseteq live'
  <2>1. (t # NoWin => kind[t] = "toplevel") /\ (l # NoWin => kind[l] = "layer")
    BY DEF RecordsOK, RolesNameLiveRecords, Kinds
  <2> QED BY <1>1, <2>1 DEF Popups
<1>3. Held(Wins, queue, GRAB, live', Popups)
  BY <1>2, HeldRecords DEF GrabNeverOutlivesPopup
<1>4. q \in Seq(Commands(Wins)) /\ Held(Wins, q, GRAB, live', Popups)
  BY <1>1, <1>3, HeldDestroyIfCreated
<1> HIDE DEF q
<1>5. Held(Wins, q \o DestroyIfCreated(l), GRAB, live', Popups)
  BY <1>1, <1>4, HeldDestroyIfCreated
<1> QED BY <1>1, <1>5 DEF GrabNeverOutlivesPopup

(* A dismissal asks for no grab at all. *)
LEMMA DismissKeepsGrab ==
  ASSUME TypeOK, GrabNeverOutlivesPopup, NEW v, Dismiss(v)
  PROVE  GrabNeverOutlivesPopup'
<1> DEFINE c == Cmd("SetGrab", NoWin)
<1>1. c \in Commands(Wins)
  BY CmdType
<1>2. c.op = "SetGrab" /\ c.win \notin Wins
  BY DEF Cmd, NoWin, Wins
<1>3. UNCHANGED <<live, GRAB, Popups>> /\ queue \in Seq(Commands(Wins)) /\ queue' = Append(queue, c)
  BY DEF Dismiss, recordVars, appkitVars, Popups, TypeOK
<1> HIDE DEF c
<1>4. Held(Wins, Append(queue, c), GRAB, live, Popups)
  BY <1>1, <1>2, <1>3, HeldAppend DEF GrabNeverOutlivesPopup, Grabs
<1> QED BY <1>3, <1>4 DEF GrabNeverOutlivesPopup

(* AppKit handles a command. *)
LEMMA HandleKeepsGrab ==
  ASSUME TypeOK, GrabNeverOutlivesPopup, NEW w \in Wins \cup {NoWin},
         HandleCreate(w) \/ HandleFrame(w) \/ HandleSetGrab(w) \/ HandleDestroy(w)
  PROVE  GrabNeverOutlivesPopup'
<1> DEFINE c == Head(queue)
<1>1. /\ queue \in Seq(Commands(Wins)) /\ queue # <<>> /\ queue' = Tail(queue) /\ c.win = w
      /\ GRAB \in Wins \cup {NoWin}
  BY DEF TypeOK, HandleCreate, HandleCreateWindow, HandleCreatePopup, HandleCreateLayer,
         HandleFrame, HandleSetGrab, HandleDestroy, Handle
<1>2. UNCHANGED <<live, Popups>>
  BY DEF HandleCreate, HandleCreateWindow, HandleCreatePopup, HandleCreateLayer,
         HandleFrame, HandleSetGrab, HandleDestroy, Handle, recordVars, Popups
<1>3. GRAB' = IF c.op = "SetGrab" THEN c.win ELSE IF Destroys(c, GRAB) THEN NoWin ELSE GRAB
  <2>1. CASE HandleCreate(w) \/ HandleFrame(w)
    <3>1. c.op \in CreateOps \cup {"Frame"} /\ GRAB' = GRAB
      BY <2>1
         DEF HandleCreate, HandleCreateWindow, HandleCreatePopup, HandleCreateLayer,
             HandleFrame, Handle, appkitVars, CreateOps
    <3> QED BY <3>1 DEF Destroys, CreateOps
  <2>2. CASE HandleSetGrab(w)
    BY <1>1, <2>2 DEF HandleSetGrab, Handle
  <2>3. CASE HandleDestroy(w)
    <3>1. c.op = "Destroy" /\ GRAB' = IF GRAB = w THEN NoWin ELSE GRAB
      BY <2>3 DEF HandleDestroy, Handle
    <3> QED BY <1>1, <3>1 DEF Destroys
  <2> QED BY <2>1, <2>2, <2>3
<1> HIDE DEF c
<1>4. Held(Wins, Tail(queue), GRAB', live, Popups)
  BY <1>1, <1>3, HeldTail DEF GrabNeverOutlivesPopup, c
<1> QED BY <1>1, <1>2, <1>4 DEF GrabNeverOutlivesPopup

(* The pointer grab never outlives its popup: whatever holds it, or is     *)
(* about to, is a popup that lives or that will lose it to a command on    *)
(* its way.                                                                *)
THEOREM GrabCorrect == Spec => []GrabNeverOutlivesPopup
<1>1. Init => GrabNeverOutlivesPopup
  BY DEF Init, GrabNeverOutlivesPopup, Held
<1>2. TypeOK /\ RecordsOK /\ GrabNeverOutlivesPopup /\ [Next]_vars => GrabNeverOutlivesPopup'
  <2> SUFFICES ASSUME TypeOK, RecordsOK, GrabNeverOutlivesPopup, [Next]_vars PROVE GrabNeverOutlivesPopup'
    OBVIOUS
  <2>1. ASSUME NEW s \in Surfaces, GetToplevel(s) \/ GetPopup(s) \/ GetLayerSurface(s)
        PROVE  GrabNeverOutlivesPopup'
    BY <2>1, AddRecordKeepsGrab DEF GetToplevel, GetPopup, GetLayerSurface, Kinds
  <2>2. ASSUME NEW s \in Surfaces, CommitNothing(s) \/ CommitBuffer(s) \/ CommitNull(s)
        PROVE  GrabNeverOutlivesPopup'
    BY <2>2, CommitKeepsGrab
  <2>3. ASSUME NEW s \in Surfaces, SurfaceDestroy(s) PROVE GrabNeverOutlivesPopup'
    BY <2>3, SurfaceDestroyKeepsGrab
  <2>4. ASSUME NEW w \in Wins, Grab(w) PROVE GrabNeverOutlivesPopup'
    BY <2>4, GrabKeepsGrab
  <2>5. ASSUME NEW w \in Wins, ReapToplevel(w) \/ ReapLayerSurface(w) PROVE GrabNeverOutlivesPopup'
    BY <2>5, ReapOtherKeepsGrab
  <2>6. ASSUME NEW w \in Wins, ReapPopup(w) PROVE GrabNeverOutlivesPopup'
    BY <2>6, ReapPopupKeepsGrab
  <2>7. CASE Input
    BY <2>7, DismissKeepsGrab DEF Input, PopupDismiss, AppDeactivated
  <2>8. ASSUME NEW w \in Wins \cup {NoWin},
               HandleCreate(w) \/ HandleFrame(w) \/ HandleSetGrab(w) \/ HandleDestroy(w)
        PROVE  GrabNeverOutlivesPopup'
    BY <2>8, HandleKeepsGrab
  <2>9. CASE MouseDropsGrab
    <3>1. UNCHANGED <<queue, live, Popups>> /\ GRAB' = NoWin
      BY <2>9 DEF MouseDropsGrab, recordVars, Popups
    <3> QED BY <3>1 DEF GrabNeverOutlivesPopup, Held
  <2>10. CASE PressOutside \/ UNCHANGED vars
    <3>1. UNCHANGED <<queue, live, Popups, GRAB>>
      BY <2>10 DEF PressOutside, vars, recordVars, appkitVars, Popups
    <3> QED BY <3>1 DEF GrabNeverOutlivesPopup
  <2> QED BY <2>1, <2>2, <2>3, <2>4, <2>5, <2>6, <2>7, <2>8, <2>9, <2>10 DEF Next, Client, AppKit, Mouse
<1> QED BY <1>1, <1>2, TypeCorrect, RecordsInvariant, PTL DEF Spec

-----------------------------------------------------------------------------
(***************************************************************************)
(* popup_done.                                                             *)
(***************************************************************************)

(* AtMostOnePopupDone is inductive once it is known that a popup that is   *)
(* not marked as dismissed was sent none, nor was one not yet born.        *)
DoneOK ==
  \A w \in Wins :
    /\ popupDone[w] \in {0, 1}
    /\ (w \in live /\ w \notin dismissed) \/ kind[w] = "unborn" => popupDone[w] = 0

(* A step that sends nothing and forgets no dismissal of a living record.  *)
LEMMA QuietKeepsDone ==
  ASSUME DoneOK, UNCHANGED <<kind, popupDone>>, live' \subseteq live, live' \cap dismissed \subseteq dismissed'
  PROVE  DoneOK'
BY DEF DoneOK

(* A record starts undismissed; nothing was sent to its window before.     *)
LEMMA AddRecordKeepsDone ==
  ASSUME TypeOK, RecordsOK, DoneOK, NEW k \in Kinds, NEW s \in Surfaces, AddRecord(k, s)
  PROVE  DoneOK'
<1>1. /\ nextWin \in Wins /\ live' = live \cup {nextWin}
      /\ kind' = [kind EXCEPT ![nextWin] = k] /\ kind \in [Wins -> Kinds \cup {"unborn"}]
      /\ UNCHANGED <<dismissed, popupDone>>
  BY DEF AddRecord, TypeOK, flagVars, history
<1>2. kind[nextWin] = "unborn" /\ k # "unborn"
  BY <1>1 DEF RecordsOK, Wins, Kinds
<1>3. ASSUME NEW w \in Wins, (w \in live' /\ w \notin dismissed') \/ kind'[w] = "unborn"
      PROVE  popupDone[w] = 0
  <2>1. CASE w = nextWin
    BY <1>2, <2>1 DEF DoneOK
  <2>2. CASE w # nextWin
    <3>1. kind'[w] = kind[w] /\ (w \in live' => w \in live)
      BY <1>1, <2>2
    <3> QED BY <1>1, <1>3, <3>1 DEF DoneOK
  <2> QED BY <2>1, <2>2
<1> QED BY <1>1, <1>3 DEF DoneOK

(* The only step that sends one marks the record. *)
LEMMA DismissKeepsDone ==
  ASSUME TypeOK, DoneOK, NEW v \in Wins, Dismiss(v)
  PROVE  DoneOK'
<1>1. UNCHANGED <<live, kind>> /\ popupDone \in [Wins -> Nat]
  BY DEF Dismiss, recordVars, TypeOK
<1>2. CASE UNCHANGED <<dismissed, popupDone>>
  BY <1>1, <1>2 DEF DoneOK
<1>3. CASE /\ v \in live /\ kind[v] = "popup" /\ v \notin dismissed
           /\ dismissed' = dismissed \cup {v}
           /\ popupDone' = [popupDone EXCEPT ![v] = @ + 1]
  <2>1. popupDone'[v] = 1
    BY <1>1, <1>3 DEF DoneOK
  <2>2. \A w \in Wins : w # v => popupDone'[w] = popupDone[w]
    BY <1>1, <1>3
  <2> QED BY <1>1, <1>3, <2>1, <2>2 DEF DoneOK
<1> QED BY <1>2, <1>3 DEF Dismiss

(* A commit sends none; a popup shown anew has been sent none since.       *)
LEMMA CommitKeepsDone ==
  ASSUME TypeOK, DoneOK, NEW s \in Surfaces, CommitNothing(s) \/ CommitBuffer(s) \/ CommitNull(s)
  PROVE  DoneOK'
<1>1. UNCHANGED <<live, kind, dismissed>> /\ popupDone \in [Wins -> Nat]
  BY DEF CommitNothing, CommitBuffer, CommitNull, Commit, recordVars, TypeOK
<1>2. popupDone' = popupDone \/ popupDone' = [popupDone EXCEPT ![PresentTarget(s)] = 0]
  BY DEF CommitNothing, CommitBuffer, CommitNull, history
<1>3. \A w \in Wins : popupDone'[w] \in {0, popupDone[w]}
  BY <1>1, <1>2
<1> QED BY <1>1, <1>3 DEF DoneOK

(* However often a menu is dismissed, from outside clicks already on their *)
(* way and from the app's deactivation, its client is sent one popup_done. *)
THEOREM PopupDoneCorrect == Spec => []AtMostOnePopupDone
<1>1. Init => DoneOK
  BY DEF Init, DoneOK
<1>2. TypeOK /\ RecordsOK /\ DoneOK /\ [Next]_vars => DoneOK'
  <2> SUFFICES ASSUME TypeOK, RecordsOK, DoneOK, [Next]_vars PROVE DoneOK'
    OBVIOUS
  <2>1. ASSUME NEW s \in Surfaces, GetToplevel(s) \/ GetPopup(s) \/ GetLayerSurface(s)
        PROVE  DoneOK'
    BY <2>1, AddRecordKeepsDone DEF GetToplevel, GetPopup, GetLayerSurface, Kinds
  <2>2. ASSUME NEW s \in Surfaces, CommitNothing(s) \/ CommitBuffer(s) \/ CommitNull(s)
        PROVE  DoneOK'
    BY <2>2, CommitKeepsDone
  <2>3. ASSUME NEW s \in Surfaces, SurfaceDestroy(s) PROVE DoneOK'
    BY <2>3, QuietKeepsDone DEF SurfaceDestroy, ForgetRecords
  <2>4. ASSUME NEW w \in Wins, ReapToplevel(w) \/ ReapPopup(w) \/ ReapLayerSurface(w)
        PROVE  DoneOK'
    BY <2>4, QuietKeepsDone DEF ReapToplevel, ReapPopup, ReapLayerSurface, Reap, ForgetRecords
  <2>5. ASSUME NEW w \in Wins, Grab(w) PROVE DoneOK'
    BY <2>5, QuietKeepsDone DEF Grab, recordVars, flagVars
  <2>6. CASE Input
    <3>1. CASE PopupDismiss
      <4>1. Head(bus) \in Wins
        BY <3>1 DEF PopupDismiss, TypeOK
      <4> QED BY <3>1, <4>1, DismissKeepsDone DEF PopupDismiss
    <3>2. ASSUME NEW w \in Wins, AppDeactivated(w) PROVE DoneOK'
      BY <3>2, DismissKeepsDone DEF AppDeactivated
    <3> QED BY <2>6, <3>1, <3>2 DEF Input
  <2>7. ASSUME NEW w, HandleCreate(w) \/ HandleFrame(w) \/ HandleSetGrab(w) \/ HandleDestroy(w)
        PROVE  DoneOK'
    BY <2>7, QuietKeepsDone
    DEF HandleCreate, HandleCreateWindow, HandleCreatePopup, HandleCreateLayer,
        HandleFrame, HandleSetGrab, HandleDestroy, Handle, recordVars, flagVars, history
  <2>8. CASE MouseDropsGrab \/ PressOutside \/ UNCHANGED vars
    BY <2>8, QuietKeepsDone DEF MouseDropsGrab, PressOutside, vars, recordVars, flagVars, history
  <2> QED BY <2>1, <2>2, <2>3, <2>4, <2>5, <2>6, <2>7, <2>8 DEF Next, Client, AppKit, Mouse
<1>3. TypeOK /\ DoneOK => AtMostOnePopupDone
  BY DEF DoneOK, AtMostOnePopupDone
<1> QED BY <1>1, <1>2, <1>3, TypeCorrect, RecordsInvariant, PTL DEF Spec

-----------------------------------------------------------------------------
(***************************************************************************)
(* The threads implement the abstract screen, step by step.                *)
(***************************************************************************)

(* Changes of the screen in flight for w. *)
InFlight(w) == Cardinality(Changes(queue, WINDOWS, w))

(* What a step of the Wayland thread must do to be the clients asking for  *)
(* the windows ws, or giving them up.                                      *)
LEMMA AsksFor ==
  ASSUME NEW ws \in SUBSET Wins,
         created' = (created \cup ws) \ (created \cap ws),
         WINDOWS' = WINDOWS,
         \A w \in Wins : InFlight(w)' = IF w \in ws THEN InFlight(w) + 1 ELSE InFlight(w)
  PROVE  Screen!Next
<1>1. [w \in Wins |-> InFlight(w)'] = [w \in Wins |-> IF w \in ws THEN InFlight(w) + 1 ELSE InFlight(w)]
  OBVIOUS
<1>2. Screen!Ask(ws)
  BY <1>1 DEF Screen!Ask, InFlight
<1> QED BY <1>2 DEF Screen!Next

(* What leaves the screen, the wishes and the changes in flight alone. *)
LEMMA Stutters ==
  ASSUME UNCHANGED <<created, WINDOWS>>, \A w \in Wins : InFlight(w)' = InFlight(w)
  PROVE  UNCHANGED Screen!vars
BY DEF Screen!vars, InFlight

(* The conditional Destroy is one more change for its window. *)
LEMMA ChangesDestroyIfCreated ==
  ASSUME NEW q \in Seq(Commands(Wins)), NEW W, NEW C, Leads(Wins, q, W, C),
         created \subseteq Wins, NEW v, v \in created => v \in C, NEW w \in Wins
  PROVE  Cardinality(Changes(q \o DestroyIfCreated(v), W, w)) =
           IF w = v /\ v \in created THEN Cardinality(Changes(q, W, w)) + 1 ELSE Cardinality(Changes(q, W, w))
<1>1. CASE v \in created
  <2> DEFINE c == Cmd("Destroy", v)
  <2>1. c \in Commands(Wins)
    BY <1>1, CmdType
  <2>2. q \o DestroyIfCreated(v) = Append(q, c)
    BY <1>1, <2>1 DEF DestroyIfCreated
  <2>3. ~Creates(c, w) /\ (Destroys(c, w) <=> w = v)
    BY DEF Cmd, Creates, Destroys, CreateOps
  <2> HIDE DEF c
  <2>4. Cardinality(Changes(Append(q, c), W, w)) =
          IF Creates(c, w) \/ (Destroys(c, w) /\ w \in C)
          THEN Cardinality(Changes(q, W, w)) + 1 ELSE Cardinality(Changes(q, W, w))
    BY <2>1, ChangesAppend
  <2> QED BY <1>1, <2>2, <2>3, <2>4
<1>2. CASE v \notin created
  <2>1. q \o DestroyIfCreated(v) = q
    BY <1>2 DEF DestroyIfCreated
  <2> QED BY <1>2, <2>1
<1> QED BY <1>1, <1>2

(* A SetGrab or a Frame at the end of the queue. *)
LEMMA PlainCommandStutters ==
  ASSUME TypeOK, QueueOK, NEW c \in Commands(Wins), c.op \in {"Frame", "SetGrab"},
         queue' = Append(queue, c), UNCHANGED <<created, WINDOWS>>
  PROVE  UNCHANGED Screen!vars
<1>1. ASSUME NEW w \in Wins PROVE InFlight(w)' = InFlight(w)
  <2>1. ~Creates(c, w) /\ ~Destroys(c, w)
    BY DEF Creates, Destroys, CreateOps
  <2>2. queue \in Seq(Commands(Wins)) /\ Leads(Wins, queue, WINDOWS, created)
    BY DEF TypeOK, QueueOK
  <2>3. Cardinality(Changes(Append(queue, c), WINDOWS, w)) = Cardinality(Changes(queue, WINDOWS, w))
    BY <2>1, <2>2, ChangesPlainAppend
  <2> QED BY <2>3 DEF InFlight
<1> QED BY <1>1, Stutters

(* The first buffer asks for the window. *)
LEMMA CommitBufferAsks ==
  ASSUME TypeOK, RolesNameLiveRecords, QueueOK, NEW s \in Surfaces, CommitBuffer(s)
  PROVE  [Screen!Next]_Screen!vars
<1> DEFINE v == PresentTarget(s)
<1>1. v \in Wins
  BY PresentTargetType DEF CommitBuffer
<1>2. WINDOWS' = WINDOWS
  BY DEF CommitBuffer, Commit, appkitVars
<1>3. queue \in Seq(Commands(Wins)) /\ Leads(Wins, queue, WINDOWS, created)
  BY DEF TypeOK, QueueOK
<1> HIDE DEF v
<1>4. CASE v \in created /\ queue' = Append(queue, Cmd("Frame", v)) /\ created' = created
  <2>1. Cmd("Frame", v) \in Commands(Wins) /\ Cmd("Frame", v).op \in {"Frame", "SetGrab"}
    BY <1>1, CmdType DEF Cmd
  <2> QED BY <1>2, <1>4, <2>1, PlainCommandStutters
<1>5. CASE /\ v \notin created
           /\ queue' = queue \o <<Cmd(CreateOp(kind[v]), v), Cmd("Frame", v)>>
           /\ created' = created \cup {v}
  <2> DEFINE a == Cmd(CreateOp(kind[v]), v)
             b == Cmd("Frame", v)
             q == Append(queue, a)
  <2>1. a \in Commands(Wins) /\ b \in Commands(Wins)
    BY <1>1, CmdType, CreateOpType
  <2>2. \A w \in Wins : (Creates(a, w) <=> w = v) /\ ~Destroys(a, w) /\ ~Creates(b, w) /\ ~Destroys(b, w)
    BY CreateOpType DEF Cmd, Creates, Destroys, CreateOps
  <2>3. q \in Seq(Commands(Wins))
    BY <1>3, <2>1
  <2>4. Leads(Wins, q, WINDOWS, created')
    BY <1>1, <1>3, <1>5, CreateOpType, LeadsCreate
  <2>5. queue' = Append(q, b)
    <3>1. queue' = queue \o <<a, b>>
      BY <1>5
    <3> HIDE DEF a, b
    <3> QED BY <1>3, <2>1, <3>1
  <2> HIDE DEF a, b
  <2>6. ASSUME NEW w \in Wins PROVE InFlight(w)' = IF w \in {v} THEN InFlight(w) + 1 ELSE InFlight(w)
    <3>1. Cardinality(Changes(q, WINDOWS, w)) = IF w = v THEN InFlight(w) + 1 ELSE InFlight(w)
      BY <1>3, <2>1, <2>2, ChangesAppend DEF InFlight
    <3> HIDE DEF q
    <3>2. Cardinality(Changes(Append(q, b), WINDOWS, w)) = Cardinality(Changes(q, WINDOWS, w))
      BY <2>1, <2>2, <2>3, <2>4, ChangesPlainAppend
    <3>3. InFlight(w)' = Cardinality(Changes(Append(q, b), WINDOWS, w))
      BY <1>2, <2>5 DEF InFlight
    <3> QED BY <3>1, <3>2, <3>3
  <2>7. created' = (created \cup {v}) \ (created \cap {v}) /\ {v} \in SUBSET Wins
    BY <1>1, <1>5
  <2> QED BY <1>2, <2>6, <2>7, AsksFor
<1> QED BY <1>4, <1>5 DEF CommitBuffer, v

(* A Destroy gives up the window, if it was there. *)
LEMMA DestroyAsks ==
  ASSUME TypeOK, QueueOK, NEW v \in Wins, created' = created \ {v}, WINDOWS' = WINDOWS,
         \/ queue' = queue \o DestroyIfCreated(v)
         \/ queue' = Append(queue, Cmd("Destroy", v))
  PROVE  Screen!Next
<1> DEFINE ws == created \cap {v}
           c == Cmd("Destroy", v)
<1>1. queue \in Seq(Commands(Wins)) /\ created \subseteq Wins /\ Leads(Wins, queue, WINDOWS, created)
  BY DEF TypeOK, QueueOK
<1>2. ASSUME NEW w \in Wins PROVE InFlight(w)' = IF w \in ws THEN InFlight(w) + 1 ELSE InFlight(w)
  <2>1. CASE queue' = queue \o DestroyIfCreated(v)
    <3>1. Cardinality(Changes(queue \o DestroyIfCreated(v), WINDOWS, w)) =
            IF w = v /\ v \in created THEN InFlight(w) + 1 ELSE InFlight(w)
      BY <1>1, ChangesDestroyIfCreated DEF InFlight
    <3> QED BY <2>1, <3>1 DEF InFlight
  <2>2. CASE queue' = Append(queue, c)
    <3>1. c \in Commands(Wins)
      BY CmdType
    <3>2. ~Creates(c, w) /\ (Destroys(c, w) <=> w = v)
      BY DEF Cmd, Creates, Destroys, CreateOps
    <3> HIDE DEF c
    <3>3. Cardinality(Changes(Append(queue, c), WINDOWS, w)) =
            IF w = v /\ w \in created THEN InFlight(w) + 1 ELSE InFlight(w)
      BY <1>1, <3>1, <3>2, ChangesAppend DEF InFlight
    <3> QED BY <2>2, <3>3 DEF InFlight
  <2> QED BY <2>1, <2>2
<1>3. ws \in SUBSET Wins /\ created' = (created \cup ws) \ (created \cap ws)
  OBVIOUS
<1> QED BY <1>2, <1>3, AsksFor

(* wl_surface.destroy gives up two windows at once. *)
LEMMA SurfaceDestroyAsks ==
  ASSUME TypeOK, RolesNameLiveRecords, QueueOK, NEW s \in Surfaces, SurfaceDestroy(s)
  PROVE  Screen!Next
<1> DEFINE t == roleOf["toplevel"][s]
           l == roleOf["layer"][s]
           q == queue \o DestroyIfCreated(t)
           ws == created \cap {t, l}
<1>1. /\ created' = created \ ({t, l} \ {NoWin})
      /\ WINDOWS' = WINDOWS
      /\ queue' = q \o DestroyIfCreated(l)
  BY DEF SurfaceDestroy, ForgetRecords, appkitVars
<1>2. queue \in Seq(Commands(Wins)) /\ created \subseteq Wins /\ Leads(Wins, queue, WINDOWS, created)
  BY DEF TypeOK, QueueOK
<1>3. t = l => t = NoWin
  BY DEF RolesNameLiveRecords, Kinds
<1>4. NoWin \notin created
  BY <1>2 DEF Wins, NoWin
<1>5. q \in Seq(Commands(Wins)) /\ Leads(Wins, q, WINDOWS, created \ {t})
  BY <1>2, LeadsDestroyIfCreated
<1> HIDE DEF t, l
<1>6. ASSUME NEW w \in Wins PROVE InFlight(w)' = IF w \in ws THEN InFlight(w) + 1 ELSE InFlight(w)
  <2>1. Cardinality(Changes(q, WINDOWS, w)) = IF w = t /\ t \in created THEN InFlight(w) + 1 ELSE InFlight(w)
    BY <1>2, ChangesDestroyIfCreated DEF InFlight
  <2> HIDE DEF q
  <2>2. l \in created => l \in created \ {t}
    BY <1>3, <1>4
  <2>3. Cardinality(Changes(q \o DestroyIfCreated(l), WINDOWS, w)) =
          IF w = l /\ l \in created THEN Cardinality(Changes(q, WINDOWS, w)) + 1
          ELSE Cardinality(Changes(q, WINDOWS, w))
    BY <1>2, <1>5, <2>2, ChangesDestroyIfCreated
  <2>4. InFlight(w)' = Cardinality(Changes(q \o DestroyIfCreated(l), WINDOWS, w))
    BY <1>1 DEF InFlight
  <2> QED BY <1>3, <1>4, <2>1, <2>3, <2>4
<1>7. ws \in SUBSET Wins /\ created' = (created \cup ws) \ (created \cap ws)
  BY <1>1, <1>2, <1>4
<1> QED BY <1>1, <1>6, <1>7, AsksFor

(* AppKit applies a change, or handles what changes nothing. *)
LEMMA HandleApplies ==
  ASSUME TypeOK, QueueOK, NEW v \in Wins \cup {NoWin},
         HandleCreate(v) \/ HandleFrame(v) \/ HandleSetGrab(v) \/ HandleDestroy(v)
  PROVE  [Screen!Next]_Screen!vars
<1> DEFINE c == Head(queue)
           changes(w) == Creates(c, w) \/ (Destroys(c, w) /\ w \in WINDOWS)
<1>1. /\ queue \in Seq(Commands(Wins)) /\ queue # <<>> /\ queue' = Tail(queue)
      /\ c \in Commands(Wins) /\ c.win = v /\ created' = created
  BY DEF TypeOK, HandleCreate, HandleCreateWindow, HandleCreatePopup, HandleCreateLayer,
         HandleFrame, HandleSetGrab, HandleDestroy, Handle, flagVars
<1>2. ASSUME NEW w \in Wins, Creates(c, w) PROVE w \notin WINDOWS
  <2>1. 1 \in 1 .. Len(queue) /\ c = queue[1]
    BY <1>1
  <2>2. Fits(queue, WINDOWS, 1, w)
    BY <2>1 DEF QueueOK, Leads
  <2>3. ~Shown(queue, WINDOWS, w, 1 - 1)
    BY <1>2, <2>1, <2>2 DEF Fits
  <2> QED BY <2>3 DEF Shown
<1>3. WINDOWS' = IF c.op \in CreateOps THEN WINDOWS \cup {v}
                 ELSE IF c.op = "Destroy" THEN WINDOWS \ {v} ELSE WINDOWS
  BY DEF HandleCreate, HandleCreateWindow, HandleCreatePopup, HandleCreateLayer,
         HandleFrame, HandleSetGrab, HandleDestroy, Handle, appkitVars, CreateOps
<1>4. \A w \in Wins : w \in WINDOWS' <=> Creates(c, w) \/ (w \in WINDOWS /\ ~Destroys(c, w))
  BY <1>1, <1>3 DEF Creates, Destroys, CreateOps
<1>5. \A w \in Wins : IF changes(w) THEN InFlight(w) > 0 /\ InFlight(w)' = InFlight(w) - 1
                      ELSE InFlight(w)' = InFlight(w)
  BY <1>1, <1>4, ChangesTail DEF InFlight
<1>6. CASE v \in Wins /\ changes(v)
  <2>1. \A w \in Wins : changes(w) <=> w = v
    BY <1>1, <1>6 DEF Creates, Destroys
  <2>2. WINDOWS' = IF v \in WINDOWS THEN WINDOWS \ {v} ELSE WINDOWS \cup {v}
    BY <1>2, <1>3, <1>6 DEF Creates, Destroys, CreateOps
  <2> HIDE DEF changes
  <2>3. [w \in Wins |-> InFlight(w)'] = [[w \in Wins |-> InFlight(w)] EXCEPT ![v] = @ - 1]
    BY <1>5, <1>6, <2>1
  <2>4. Screen!Apply(v)
    BY <1>1, <1>5, <1>6, <2>1, <2>2, <2>3 DEF Screen!Apply, InFlight
  <2> QED BY <1>6, <2>4 DEF Screen!Next
<1>7. CASE ~(v \in Wins /\ changes(v))
  <2>1. \A w \in Wins : ~changes(w)
    BY <1>1, <1>7 DEF Creates, Destroys
  <2>2. WINDOWS' = WINDOWS
    <3>1. WINDOWS' \subseteq Wins /\ WINDOWS \subseteq Wins
      <4>1. c.op \in CreateOps => v \in Wins
        BY <1>1 DEF Commands, CreateOps
      <4> QED BY <1>3, <4>1 DEF TypeOK
    <3> QED BY <1>4, <2>1, <3>1
  <2> HIDE DEF changes
  <2>3. \A w \in Wins : InFlight(w)' = InFlight(w)
    BY <1>5, <2>1
  <2> QED BY <1>1, <2>2, <2>3, Stutters
<1> QED BY <1>6, <1>7

(* Whatever the threads do, the screen follows the clients: a step is the  *)
(* clients asking for windows or giving them up, the oldest change of one  *)
(* window taking effect, or nothing.  So every create and destroy takes    *)
(* effect once, in the order the clients caused them.                      *)
THEOREM ScreenCorrect == Spec => Screen!SafeSpec
<1>1. Init => Screen!Init
  <2> SUFFICES ASSUME Init PROVE Screen!Init
    OBVIOUS
  <2>1. ASSUME NEW w \in Wins PROVE Cardinality(Changes(queue, WINDOWS, w)) = 0
    <3>1. Changes(queue, WINDOWS, w) = {}
      BY DEF Init, Changes
    <3> QED BY <3>1, FS_EmptySet
  <2> QED BY <2>1 DEF Init, Screen!Init
<1>2. TypeOK /\ RolesNameLiveRecords /\ QueueOK /\ [Next]_vars => [Screen!Next]_Screen!vars
  <2> SUFFICES ASSUME TypeOK, RolesNameLiveRecords, QueueOK, [Next]_vars
               PROVE  [Screen!Next]_Screen!vars
    OBVIOUS
  <2>1. ASSUME UNCHANGED <<created, queue, WINDOWS>> PROVE UNCHANGED Screen!vars
    BY <2>1, Stutters DEF InFlight
  <2>2. ASSUME NEW w \in Wins \cup {NoWin}, queue' = Append(queue, Cmd("SetGrab", w)),
               UNCHANGED <<created, WINDOWS>>
        PROVE  UNCHANGED Screen!vars
    <3>1. Cmd("SetGrab", w) \in Commands(Wins) /\ Cmd("SetGrab", w).op \in {"Frame", "SetGrab"}
      BY CmdType DEF Cmd
    <3> QED BY <2>2, <3>1, PlainCommandStutters
  <2>3. ASSUME NEW s \in Surfaces, GetToplevel(s) \/ GetPopup(s) \/ GetLayerSurface(s) \/ CommitNothing(s)
        PROVE  UNCHANGED Screen!vars
    BY <2>1, <2>3
    DEF GetToplevel, GetPopup, GetLayerSurface, AddRecord, CommitNothing, Commit, flagVars, appkitVars
  <2>4. ASSUME NEW w \in Wins, Grab(w) PROVE UNCHANGED Screen!vars
    BY <2>2, <2>4 DEF Grab, flagVars, appkitVars
  <2>5. ASSUME NEW s \in Surfaces, CommitNull(s) PROVE [Screen!Next]_Screen!vars
    <3> DEFINE w == roleOf["popup"][s]
    <3>1. WINDOWS' = WINDOWS
      BY <2>5 DEF CommitNull, Commit, appkitVars
    <3>2. CASE w \in created /\ created' = created \ {w} /\ queue' = Append(queue, Cmd("Destroy", w))
      <4>1. w \in Wins
        BY <3>2 DEF TypeOK
      <4> QED BY <3>1, <3>2, <4>1, DestroyAsks
    <3>3. CASE UNCHANGED <<created, queue>>
      BY <2>1, <3>1, <3>3
    <3> QED BY <2>5, <3>2, <3>3 DEF CommitNull
  <2>6. ASSUME NEW w \in Wins, ReapToplevel(w) \/ ReapPopup(w) \/ ReapLayerSurface(w)
        PROVE  Screen!Next
    BY <2>6, DestroyAsks DEF ReapToplevel, ReapPopup, ReapLayerSurface, Reap, ForgetRecords, appkitVars
  <2>7. CASE Input
    <3>1. \E w \in Wins : Dismiss(w)
      BY <2>7 DEF Input, PopupDismiss, AppDeactivated, TypeOK
    <3> QED BY <2>2, <3>1 DEF Dismiss, appkitVars
  <2>8. CASE MouseDropsGrab \/ PressOutside
    BY <2>1, <2>8 DEF MouseDropsGrab, PressOutside, flagVars, appkitVars
  <2>9. CASE UNCHANGED vars
    BY <2>1, <2>9 DEF vars, flagVars, appkitVars
  <2> QED
    BY <2>3, <2>4, <2>5, <2>6, <2>7, <2>8, <2>9, CommitBufferAsks, SurfaceDestroyAsks, HandleApplies
    DEF Next, Client, AppKit, Mouse
<1> QED BY <1>1, <1>2, TypeCorrect, RolesCorrect, QueueInvariant, PTL DEF Spec, Screen!SafeSpec
=============================================================================
