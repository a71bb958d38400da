------------------------- MODULE CliInstances_proofs -------------------------
(***************************************************************************)
(* Proofs about CliInstances, for any number of invocations and ports and  *)
(* any relation of their digits: types, audio server, what a stop leaves.  *)
(***************************************************************************)
EXTENDS CliInstances, TLAPS

Places == Starting \cup Stopping \cup {"audio", "parked", "done"}
Tables == [Clis -> [Kinds -> {"absent", "running", "zombie"}]]

(* CliTypeOK without the history. *)
InvocationsOK ==
  /\ command \in [Clis -> {"up", "detach", "stop", "all"}]
  /\ port \in [Clis -> Ports]
  /\ pc \in [Clis -> Places]
  /\ job \in [Clis -> Kinds]
SearchOK ==
  /\ scan \in [Clis -> SUBSET Ports] /\ found \in [Clis -> SUBSET Ports]
  /\ stale \in [Clis -> Ports \cup {NoPort}]
  /\ todo \in [Clis -> SUBSET Ports]
MachineOK ==
  /\ child \in Tables
  /\ pidfile \in [Ports -> [Kinds -> Clis \cup {NoCli}]]
  /\ audio \in BOOLEAN
  /\ failures \in 0 .. MaxFailures
  /\ \A c \in Clis : pc[c] = "done" => \A k \in Kinds : child[c][k] # "zombie"
HistoryOK == excused \subseteq Ports /\ starters \in [Clis -> SUBSET Clis]

(* The parts are the whole. *)
LEMMA TypeParts == CliTypeOK <=> InvocationsOK /\ SearchOK /\ MachineOK /\ HistoryOK
BY DEF CliTypeOK, InvocationsOK, SearchOK, MachineOK, HistoryOK, Places, Tables

(* Who ended has no zombies in the table. *)
Cleared(table) == \A c \in Clis : pc[c] = "done" => \A k \in Kinds : table[c][k] # "zombie"

(* What runs in table t runs in table u. *)
Within(t, u) == \A c \in Clis, k \in Kinds : t[c][k] = "running" => u[c][k] = "running"

(* Children die, and do nothing else. *)
LEMMA WithoutOK ==
  ASSUME InvocationsOK, MachineOK, NEW dying
  PROVE  /\ Without(dying) \in Tables /\ Cleared(Without(dying))
         /\ Within(Without(dying), child)
BY DEF InvocationsOK, MachineOK, Without, Dead, Tables, Cleared, Within

(* The end of an invocation takes its zombies. *)
LEMMA ExitOK ==
  ASSUME InvocationsOK, NEW c \in Clis, NEW table \in Tables, Cleared(table), Exit(c, table)
  PROVE  /\ pc' = [pc EXCEPT ![c] = "done"] /\ child' \in Tables
         /\ \A d \in Clis : pc'[d] = "done" => \A k \in Kinds : child'[d][k] # "zombie"
         /\ Within(child', table)
<1> DEFINE row == [k \in Kinds |-> IF table[c][k] = "zombie" THEN "absent" ELSE table[c][k]]
<1>1. pc' = [pc EXCEPT ![c] = "done"] /\ child' = [table EXCEPT ![c] = row]
  BY DEF Exit, Goto
<1>2. row \in [Kinds -> {"absent", "running", "zombie"}]
  BY DEF Tables
<1>3. \A k \in Kinds : row[k] # "zombie" /\ (row[k] = "running" => table[c][k] = "running")
  OBVIOUS
<1> HIDE DEF row
<1>4. child' \in Tables
  BY <1>1, <1>2 DEF Tables
<1>5. child'[c] = row /\ \A d \in Clis \ {c} : child'[d] = table[d]
  BY <1>1 DEF Tables
<1>6. \A d \in Clis \ {c} : pc'[d] = pc[d]
  BY <1>1 DEF InvocationsOK
<1>7. \A d \in Clis : pc'[d] = "done" => \A k \in Kinds : child'[d][k] # "zombie"
  BY <1>3, <1>5, <1>6 DEF Cleared
<1>8. Within(child', table)
  BY <1>3, <1>5 DEF Within
<1> QED
  BY <1>1, <1>4, <1>7, <1>8

(* Whatever a step ends with, the table of children stays in order. *)
LEMMA LeaveOK ==
  ASSUME InvocationsOK, NEW c \in Clis, NEW next \in Places \ {"done"},
         NEW table \in Tables, Cleared(table),
         Exit(c, table) \/ (Goto(c, next) /\ child' = table)
  PROVE  /\ pc' \in [Clis -> Places] /\ child' \in Tables
         /\ \A d \in Clis : pc'[d] = "done" => \A k \in Kinds : child'[d][k] # "zombie"
<1>1. CASE Exit(c, table)
  BY <1>1, ExitOK DEF InvocationsOK, Places
<1>2. CASE Goto(c, next) /\ child' = table
  BY <1>2 DEF InvocationsOK, Goto, Cleared
<1> QED
  BY <1>1, <1>2

(* A step of an invocation keeps the types of all but the history. *)
LEMMA CliTypes ==
  ASSUME InvocationsOK, SearchOK, MachineOK, NEW c \in Clis, Cli(c)
  PROVE  (InvocationsOK /\ SearchOK /\ MachineOK)'
<1> USE DEF InvocationsOK, SearchOK
<1>0. child \in Tables /\ Cleared(child) /\ {"spawn", "kill", "parked", "reap_all", "reap"} \subseteq Places \ {"done"}
  BY DEF MachineOK, Cleared, Places, Starting, Stopping
<1>1. ASSUME StartPulseaudio(c) PROVE (InvocationsOK /\ SearchOK /\ MachineOK)'
  BY <1>1 DEF StartPulseaudio, Goto, MachineOK, Places, Starting, search
<1>2. ASSUME CheckCompositor(c) PROVE (InvocationsOK /\ SearchOK /\ MachineOK)'
  <2>1. PICK next \in {"discover", "spawn"} : Goto(c, next)
    BY <1>2 DEF CheckCompositor, Start
  <2>2. job' = job \/ job' = [job EXCEPT ![c] = "compositor"]
    BY <1>2 DEF CheckCompositor, Start
  <2>3. UNCHANGED <<command, port, search, worldVars>>
    BY <1>2 DEF CheckCompositor
  <2>4. InvocationsOK'
    BY <2>1, <2>2, <2>3 DEF Goto, Places, Starting, Kinds
  <2>5. SearchOK'
    BY <2>3 DEF search
  <2>6. MachineOK'
    BY <2>1, <2>3 DEF Goto, MachineOK, worldVars
  <2> QED BY <2>4, <2>5, <2>6
<1>3. ASSUME Spawn(c) PROVE (InvocationsOK /\ SearchOK /\ MachineOK)'
  <2> DEFINE table == [Without(Replaced(c)) EXCEPT ![c][job[c]] = "running"]
  <2>1. table \in Tables /\ Cleared(table)
    BY WithoutOK, <1>3 DEF Tables, Cleared, Spawn
  <2>2. pidfile' \in [Ports -> [Kinds -> Clis \cup {NoCli}]]
    BY <1>3 DEF Spawn, MachineOK
  <2>3. job' \in [Clis -> Kinds] /\ UNCHANGED <<command, port, search, audio, failures>>
    BY <1>3 DEF Spawn, Start, Kinds, Ready
  <2>4. \E next \in Places \ {"done"} : Exit(c, table) \/ (Goto(c, next) /\ child' = table)
    BY <1>3 DEF Spawn, Start, Ready, Places, Starting, Kinds
  <2>5. /\ pc' \in [Clis -> Places] /\ child' \in Tables
        /\ \A d \in Clis : pc'[d] = "done" => \A k \in Kinds : child'[d][k] # "zombie"
    BY <2>1, <2>4, LeaveOK
  <2> QED
    BY <2>2, <2>3, <2>5 DEF MachineOK, search
<1>4. ASSUME SpawnFails(c) PROVE (InvocationsOK /\ SearchOK /\ MachineOK)'
  <2> DEFINE table == Without(Replaced(c))
  <2>1. table \in Tables /\ Cleared(table)
    BY WithoutOK
  <2>2. failures' \in 0 .. MaxFailures /\ UNCHANGED <<command, port, job, search, pidfile, audio>>
    BY <1>4, FailuresAssumption DEF SpawnFails, Fails, MachineOK
  <2>3. \E next \in Places \ {"done"} : Exit(c, table) \/ (Goto(c, next) /\ child' = table)
    BY <1>4, <1>0 DEF SpawnFails, Ready
  <2>4. /\ pc' \in [Clis -> Places] /\ child' \in Tables
        /\ \A d \in Clis : pc'[d] = "done" => \A k \in Kinds : child'[d][k] # "zombie"
    BY <2>1, <2>3, LeaveOK
  <2> QED
    BY <2>2, <2>4 DEF MachineOK, search
<1>5. ASSUME DiscoverSocket(c) PROVE (InvocationsOK /\ SearchOK /\ MachineOK)'
  BY <1>5 DEF DiscoverSocket, Start, Goto, MachineOK, Places, Starting, Kinds, search, worldVars
<1>6. ASSUME Signal(c) PROVE (InvocationsOK /\ SearchOK /\ MachineOK)'
  BY <1>6 DEF Signal, StopInstance, Goto, MachineOK, Places, Stopping, Kinds, search, worldVars
<1>7. ASSUME KillChild(c) PROVE (InvocationsOK /\ SearchOK /\ MachineOK)'
  <2>1. child' \in Tables /\ Cleared(child')
    BY <1>7, WithoutOK DEF KillChild
  <2>2. pidfile' \in [Ports -> [Kinds -> Clis \cup {NoCli}]]
    BY <1>7 DEF KillChild, MachineOK
  <2>3. pc' \in [Clis -> Places] /\ \A d \in Clis : pc'[d] = "done" => pc[d] = "done"
    BY <1>7 DEF KillChild, Goto, Places, Stopping
  <2>4. job' \in [Clis -> Kinds]
    BY <1>7 DEF KillChild, Kinds
  <2> QED
    BY <1>7, <2>1, <2>2, <2>3, <2>4 DEF KillChild, MachineOK, search, Cleared
<1>8. ASSUME Pkill(c) PROVE (InvocationsOK /\ SearchOK /\ MachineOK)'
  <2>1. child' \in Tables /\ Cleared(child')
    BY <1>8, WithoutOK DEF Pkill
  <2>2. pc' \in [Clis -> Places] /\ \A d \in Clis : pc'[d] = "done" => pc[d] = "done"
    BY <1>8 DEF Pkill, Goto, Places, Stopping
  <2> QED
    BY <1>8, <2>1, <2>2 DEF Pkill, MachineOK, Cleared
<1>9. ASSUME RemoveStale(c) PROVE (InvocationsOK /\ SearchOK /\ MachineOK)'
  BY <1>9 DEF RemoveStale, MachineOK, Kinds
<1>10. ASSUME ListDone(c) PROVE (InvocationsOK /\ SearchOK /\ MachineOK)'
  BY <1>10 DEF ListDone, Goto, MachineOK, Places, Stopping, worldVars
<1>11. ASSUME ScanDone(c) PROVE (InvocationsOK /\ SearchOK /\ MachineOK)'
  <2>1. \E next \in Places \ {"done"} : Exit(c, child) \/ (Goto(c, next) /\ child' = child)
    BY <1>11, <1>0 DEF ScanDone, AfterInstance
  <2>2. /\ pc' \in [Clis -> Places] /\ child' \in Tables
        /\ \A d \in Clis : pc'[d] = "done" => \A k \in Kinds : child'[d][k] # "zombie"
    BY <1>0, <2>1, LeaveOK
  <2> QED
    BY <1>11, <2>2 DEF ScanDone, MachineOK
<1>12. ASSUME StopSharedAudio(c) PROVE (InvocationsOK /\ SearchOK /\ MachineOK)'
  <2>1. \E next \in Places \ {"done"} : Exit(c, child) \/ (Goto(c, next) /\ child' = child)
    BY <1>12, <1>0 DEF StopSharedAudio, AfterInstance
  <2>2. /\ pc' \in [Clis -> Places] /\ child' \in Tables
        /\ \A d \in Clis : pc'[d] = "done" => \A k \in Kinds : child'[d][k] # "zombie"
    BY <1>0, <2>1, LeaveOK
  <2> QED
    BY <1>12, <2>2 DEF StopSharedAudio, MachineOK, search
<1>13. ASSUME Abort(c) PROVE (InvocationsOK /\ SearchOK /\ MachineOK)'
  <2>1. /\ pc' \in [Clis -> Places] /\ child' \in Tables
        /\ \A d \in Clis : pc'[d] = "done" => \A k \in Kinds : child'[d][k] # "zombie"
    BY <1>0, <1>13, LeaveOK DEF Abort
  <2>2. failures' \in 0 .. MaxFailures
    BY <1>13, FailuresAssumption DEF Abort, Fails, MachineOK
  <2> QED
    BY <1>13, <2>1, <2>2 DEF Abort, MachineOK
<1>14. ASSUME NEW p \in Ports, LookAt(c, p) PROVE (InvocationsOK /\ SearchOK /\ MachineOK)'
  BY <1>14 DEF LookAt, MachineOK, worldVars
<1>15. ASSUME NEW p \in Ports, NextOfAll(c, p) PROVE (InvocationsOK /\ SearchOK /\ MachineOK)'
  BY <1>15 DEF NextOfAll, StopInstance, Goto, MachineOK, Places, Stopping, Kinds, worldVars
<1>16. ASSUME NEW k \in Kinds, ChildCrashes(c, k) PROVE (InvocationsOK /\ SearchOK /\ MachineOK)'
  <2>1. child' \in Tables /\ Cleared(child')
    BY <1>16, WithoutOK DEF ChildCrashes
  <2>2. failures' \in 0 .. MaxFailures
    BY <1>16, FailuresAssumption DEF ChildCrashes, Fails, MachineOK
  <2> QED
    BY <1>16, <2>1, <2>2 DEF ChildCrashes, MachineOK, invocationVars, search, Cleared
<1> QED
  BY <1>1, <1>2, <1>3, <1>4, <1>5, <1>6, <1>7, <1>8, <1>9, <1>10, <1>11, <1>12, <1>13, <1>14, <1>15, <1>16 DEF Cli

(* The types hold of every behaviour: pids, ports and program counters are *)
(* what cli.rs takes them for, and a zombie has a parent that runs.        *)
THEOREM TypeCorrect == CliSpec => []CliTypeOK
<1>1. CliInit => CliTypeOK
  <2> SUFFICES ASSUME CliInit PROVE CliTypeOK
    OBVIOUS
  <2> USE DEF CliInit
  <2>1. InvocationsOK
    BY DEF InvocationsOK, Main, Kinds, Places, Starting, Stopping
  <2>2. SearchOK
    BY DEF SearchOK
  <2>3. MachineOK
    <3>1. failures \in 0 .. MaxFailures
      BY FailuresAssumption
    <3>2. child \in Tables /\ \A c \in Clis, k \in Kinds : child[c][k] = "absent"
      BY DEF Tables
    <3>3. pidfile \in [Ports -> [Kinds -> Clis \cup {NoCli}]] /\ audio \in BOOLEAN
      OBVIOUS
    <3> QED
      BY <3>1, <3>2, <3>3 DEF MachineOK
  <2>4. HistoryOK
    BY DEF HistoryOK
  <2> QED
    BY <2>1, <2>2, <2>3, <2>4, TypeParts
<1>2. CliTypeOK /\ [CliNext]_cliVars => CliTypeOK'
  <2> SUFFICES ASSUME CliTypeOK, [CliNext]_cliVars PROVE CliTypeOK'
    OBVIOUS
  <2>1. CASE UNCHANGED cliVars
    BY <2>1 DEF CliTypeOK, cliVars, invocationVars, worldVars, search
  <2>2. CASE CliNext
    <3>1. (InvocationsOK /\ SearchOK /\ MachineOK)'
      BY <2>2, TypeParts, CliTypes DEF CliNext
    <3>2. excused' \subseteq Ports
      BY <2>2, TypeParts DEF CliNext, Excuse, HistoryOK
    <3>3. starters' \in [Clis -> SUBSET Clis]
      BY <2>2, TypeParts DEF CliNext, TrackStarts, HistoryOK
    <3> QED
      BY <3>1, <3>2, <3>3, TypeParts DEF CliTypeOK, InvocationsOK, SearchOK, MachineOK, Places, Tables
  <2> QED
    BY <2>1, <2>2
<1> QED
  BY <1>1, <1>2, PTL DEF CliSpec

-----------------------------------------------------------------------------
(* What a step does to the children and their pidfiles *)

(* A child that runs ran before, or has just been started and named. *)
LEMMA ChildStep ==
  ASSUME InvocationsOK, SearchOK, MachineOK, NEW e \in Clis, Cli(e),
         NEW d \in Clis, NEW k \in Kinds, child'[d][k] = "running"
  PROVE  \/ child[d][k] = "running"
         \/ d = e /\ Spawn(e) /\ k = job[e] /\ pidfile'[port[e]][k] = e
<1> USE DEF InvocationsOK, SearchOK
<1>0. child \in Tables /\ Cleared(child) /\ pidfile \in [Ports -> [Kinds -> Clis \cup {NoCli}]]
  BY DEF MachineOK, Cleared
<1>1. CASE StartPulseaudio(e) \/ CheckCompositor(e) \/ DiscoverSocket(e) \/ Signal(e) \/ RemoveStale(e)
           \/ ListDone(e) \/ (\E q \in Ports : LookAt(e, q) \/ NextOfAll(e, q))
  <2>1. child' = child
    BY <1>1 DEF StartPulseaudio, CheckCompositor, DiscoverSocket, Signal, RemoveStale, ListDone, LookAt,
         NextOfAll, worldVars
  <2> QED
    BY <2>1
<1>2. CASE Spawn(e)
  <2> DEFINE table == [Without(Replaced(e)) EXCEPT ![e][job[e]] = "running"]
  <2>1. Without(Replaced(e)) \in Tables /\ Within(Without(Replaced(e)), child)
    BY WithoutOK
  <2>2. job[e] \in Kinds /\ port[e] \in Ports
    OBVIOUS
  <2>3. pidfile'[port[e]][job[e]] = e
    BY <1>0, <1>2, <2>2 DEF Spawn
  <2>4. table \in Tables /\ Cleared(table)
    BY <2>1, <2>2, <1>2, WithoutOK DEF Tables, Cleared, Spawn
  <2>5. \A c \in Clis, j \in Kinds :
          table[c][j] = "running" => child[c][j] = "running" \/ (c = e /\ j = job[e])
    BY <2>1, <2>2 DEF Tables, Within
  <2>6. child' = table \/ Exit(e, table)
    BY <1>2, <2>2 DEF Spawn, Ready, Kinds
  <2> HIDE DEF table
  <2>7. Within(child', table)
    <3>1. CASE child' = table
      BY <3>1 DEF Within
    <3>2. CASE Exit(e, table)
      BY <2>4, <3>2, ExitOK
    <3> QED
      BY <2>6, <3>1, <3>2
  <2> QED
    BY <1>2, <2>3, <2>5, <2>7 DEF Within
<1>3. CASE SpawnFails(e)
  <2> DEFINE table == Without(Replaced(e))
  <2>1. table \in Tables /\ Cleared(table) /\ Within(table, child)
    BY WithoutOK
  <2>2. child' = table \/ Exit(e, table)
    BY <1>3 DEF SpawnFails, Ready
  <2>3. Within(child', table)
    BY <2>1, <2>2, ExitOK DEF Within
  <2> QED
    BY <2>1, <2>3 DEF Within
<1>4. CASE KillChild(e) \/ Pkill(e) \/ \E j \in Kinds : ChildCrashes(e, j)
  <2>1. Within(child', child)
    BY <1>4, WithoutOK DEF KillChild, Pkill, ChildCrashes
  <2> QED
    BY <2>1 DEF Within
<1>5. CASE ScanDone(e) \/ StopSharedAudio(e) \/ Abort(e)
  <2>1. child' = child \/ Exit(e, child)
    BY <1>5 DEF ScanDone, StopSharedAudio, Abort, AfterInstance
  <2>2. Within(child', child)
    BY <1>0, <2>1, ExitOK DEF Within
  <2> QED
    BY <2>2 DEF Within
<1> QED
  BY <1>1, <1>2, <1>3, <1>4, <1>5 DEF Cli

(* A pidfile is written by the one that starts the child, and removed by   *)
(* who took the compositor for dead or killed the child.                   *)
LEMMA PidfileStep ==
  ASSUME InvocationsOK, SearchOK, MachineOK, NEW e \in Clis, Cli(e), NEW p \in Ports, NEW k \in Kinds,
         pidfile'[p][k] # pidfile[p][k]
  PROVE  \/ Spawn(e) /\ port[e] = p /\ job[e] = k /\ pidfile'[p][k] = e
         \/ pidfile'[p][k] = NoCli /\ stale[e] = p
         \/ /\ pidfile'[p][k] = NoCli /\ pc[e] = "kill"
            /\ \A d \in Clis : pidfile[p][k] = d => child'[d][k] # "running"
<1> USE DEF InvocationsOK, SearchOK
<1>0. child \in Tables /\ pidfile \in [Ports -> [Kinds -> Clis \cup {NoCli}]] /\ port[e] \in Ports /\ job[e] \in Kinds
  BY DEF MachineOK
<1>1. CASE Spawn(e)
  BY <1>0, <1>1 DEF Spawn
<1>2. CASE RemoveStale(e)
  BY <1>0, <1>2, NamesAssumption DEF RemoveStale, Kinds
<1>3. CASE KillChild(e)
  <2>1. pidfile' = [pidfile EXCEPT ![port[e]][job[e]] = NoCli] /\ pc[e] = "kill"
        /\ child' = Without({<<pidfile[port[e]][job[e]], job[e]>>})
    BY <1>3 DEF KillChild
  <2>2. p = port[e] /\ k = job[e] /\ pidfile'[p][k] = NoCli
    BY <1>0, <2>1
  <2>3. ASSUME NEW d \in Clis, pidfile[p][k] = d PROVE child'[d][k] # "running"
    BY <1>0, <2>1, <2>2, <2>3 DEF Without, Dead, Tables
  <2> QED
    BY <2>1, <2>2, <2>3
<1>4. ~ (Spawn(e) \/ RemoveStale(e) \/ KillChild(e)) => pidfile' = pidfile
  BY DEF Cli, StartPulseaudio, CheckCompositor, SpawnFails, DiscoverSocket, Signal, Pkill, ListDone, ScanDone,
       StopSharedAudio, Abort, LookAt, NextOfAll, ChildCrashes, worldVars
<1> QED
  BY <1>1, <1>2, <1>3, <1>4

-----------------------------------------------------------------------------
(* The audio server *)

Live(p) == /\ pidfile[p]["compositor"] \in Clis
           /\ child[pidfile[p]["compositor"]]["compositor"] = "running"

(* A stop has the instance of p still before it. *)
Before(c, p) ==
  /\ pc[c] # "reap"
  /\ pc[c] \in {"list", "scan"} => p \in scan[c] \cup found[c]
  /\ command[c] = "all" /\ pc[c] \in {"pkill", "scan", "reap_all"} => p \in todo[c]
  /\ command[c] = "all" /\ pc[c] = "kill" => p \in todo[c] \cup {port[c]}

(* `stop --all` makes a list and does nothing but stop. *)
ListsOK ==
  \A c \in Clis : /\ pc[c] \in {"list", "reap_all"} => command[c] = "all"
                  /\ command[c] = "all" => pc[c] \in Stopping \cup {"done"}

(* A stop has every live instance before it, but for those that were       *)
(* started meanwhile.                                                      *)
AudioOK ==
  \A c \in Clis, p \in Ports :
    pc[c] \in Stopping /\ Live(p) => pidfile[p]["compositor"] \in starters[c] \/ Before(c, p)

(* A live instance was live before, or has just been started. *)
LEMMA LiveStep ==
  ASSUME InvocationsOK, SearchOK, MachineOK, NEW e \in Clis, Cli(e), NEW p \in Ports, Live(p)'
  PROVE  \/ Live(p) /\ pidfile'[p]["compositor"] = pidfile[p]["compositor"]
         \/ pidfile'[p]["compositor"] = e /\ pc'[e] = "discover"
<1> DEFINE d == pidfile'[p]["compositor"]
<1>1. "compositor" \in Kinds /\ d \in Clis /\ child'[d]["compositor"] = "running"
  BY DEF Live, Kinds
<1>2. CASE Spawn(e) /\ job[e] = "compositor" /\ d = e
  BY <1>2 DEF Spawn, Goto, InvocationsOK
<1>3. CASE d # pidfile[p]["compositor"]
  BY <1>1, <1>2, <1>3, PidfileStep, NamesAssumption
<1>4. CASE d = pidfile[p]["compositor"]
  BY <1>1, <1>2, <1>4, ChildStep DEF Live
<1> QED
  BY <1>3, <1>4

(* What an invocation steps over: its own part of the state only. *)
LEMMA OthersStep ==
  ASSUME InvocationsOK, SearchOK, NEW e \in Clis, Cli(e), NEW c \in Clis \ {e}
  PROVE  /\ pc'[c] = pc[c] /\ port'[c] = port[c] /\ scan'[c] = scan[c]
         /\ found'[c] = found[c] /\ todo'[c] = todo[c] /\ command'[c] = command[c]
         /\ job'[c] = job[c] /\ stale'[c] = stale[c]
<1> USE DEF InvocationsOK, SearchOK, Goto, Start, StopInstance, Exit, Ready, AfterInstance, search, worldVars, invocationVars
<1>1. CASE StartPulseaudio(e) \/ CheckCompositor(e) \/ DiscoverSocket(e) \/ Signal(e)
  BY <1>1 DEF StartPulseaudio, CheckCompositor, DiscoverSocket, Signal
<1>2. CASE Spawn(e)
  <2>1. CASE job[e] = "compositor"
    BY <1>2, <2>1 DEF Spawn
  <2>2. CASE job[e] = "waypipe"
    BY <1>2, <2>2 DEF Spawn
  <2>3. CASE job[e] = "socat"
    BY <1>2, <2>3 DEF Spawn
  <2> QED
    BY <2>1, <2>2, <2>3 DEF Kinds
<1>3. CASE SpawnFails(e)
  BY <1>3 DEF SpawnFails
<1>4. CASE KillChild(e) \/ Pkill(e) \/ RemoveStale(e) \/ ListDone(e)
  BY <1>4 DEF KillChild, Pkill, RemoveStale, ListDone
<1>5. CASE ScanDone(e) \/ StopSharedAudio(e) \/ Abort(e)
  BY <1>5 DEF ScanDone, StopSharedAudio, Abort
<1>6. CASE \E q \in Ports : LookAt(e, q) \/ NextOfAll(e, q)
  BY <1>6 DEF LookAt, NextOfAll
<1>7. CASE \E k \in Kinds : ChildCrashes(e, k)
  BY <1>7 DEF ChildCrashes
<1> QED
  BY <1>1, <1>2, <1>3, <1>4, <1>5, <1>6, <1>7 DEF Cli

(* A stop that runs knows of every start that does. *)
LEMMA StartersGrow ==
  ASSUME HistoryOK, TrackStarts, NEW c \in Clis, pc'[c] \in Stopping
  PROVE  starters[c] \subseteq starters'[c]
         /\ \A d \in Clis : pc'[d] \in Starting => d \in starters'[c]
BY DEF TrackStarts, HistoryOK

(* A stop has what it had before it until it comes to it. *)
LEMMA OwnStep ==
  ASSUME InvocationsOK, SearchOK, MachineOK, ListsOK, NEW e \in Clis, Cli(e), NEW p \in Ports,
         Live(p), Live(p)', pc'[e] \in Stopping, pc[e] \in Stopping => Before(e, p)
  PROVE  Before(e, p)'
<1> USE DEF InvocationsOK, SearchOK, Stopping, Starting, Before
<1>1. ~ (StartPulseaudio(e) \/ CheckCompositor(e) \/ DiscoverSocket(e) \/ SpawnFails(e) \/ Abort(e))
  BY DEF StartPulseaudio, CheckCompositor, DiscoverSocket, SpawnFails, Abort, Goto, Start, Exit, Ready
<1>2. ~ Spawn(e)
  <2>1. ASSUME Spawn(e) PROVE pc'[e] \in {"discover", "spawn", "parked", "done"}
    BY <2>1 DEF Spawn, Goto, Start, Exit, Ready, Kinds
  <2> QED
    BY <2>1
<1>3. CASE Signal(e)
  <2>1. pc[e] = "parked" /\ pc'[e] = "kill" /\ command' = command
    BY <1>3 DEF Signal, StopInstance, Goto
  <2>2. command[e] # "all"
    BY <2>1 DEF ListsOK
  <2> QED
    BY <2>1, <2>2
<1>4. CASE KillChild(e)
  <2>1. job[e] = "compositor" => p # port[e]
    <3>1. job[e] = "compositor" => pidfile'[port[e]]["compositor"] = NoCli
      BY <1>4 DEF KillChild, MachineOK, Kinds
    <3> QED
      BY <3>1, NamesAssumption DEF Live
  <2>2. pc[e] = "kill" /\ UNCHANGED <<command, port, scan, found, todo>>
    BY <1>4 DEF KillChild, search
  <2>3. pc'[e] = IF job[e] = "compositor" THEN "pkill" ELSE "kill"
    BY <1>4, <2>2 DEF KillChild, Goto
  <2> QED
    BY <2>1, <2>2, <2>3
<1>5. CASE Pkill(e)
  BY <1>5 DEF Pkill, Goto
<1>6. CASE RemoveStale(e)
  BY <1>6 DEF RemoveStale
<1>7. CASE ListDone(e)
  BY <1>7 DEF ListDone, Scanned, Goto
<1>8. CASE ScanDone(e)
  <2>1. pc[e] = "scan" /\ scan[e] = {} /\ p \in found[e] /\ UNCHANGED <<command, port, scan, todo>>
    BY <1>8 DEF ScanDone, Scanned
  <2>2. AfterInstance(e)
    BY <1>8, <2>1 DEF ScanDone
  <2>3. command[e] = "all" /\ pc'[e] = "reap_all"
    BY <2>2 DEF AfterInstance, Exit, Goto
  <2> QED
    BY <2>1, <2>3
<1>9. CASE StopSharedAudio(e)
  BY <1>9 DEF StopSharedAudio, Exit, Goto
<1>10. CASE \E q \in Ports : LookAt(e, q)
  <2>1. PICK q \in Ports : LookAt(e, q)
    BY <1>10
  <2>2. Live(p) => Probes(p)
    BY NamesAssumption DEF Live, Probes
  <2>3. scan'[e] = scan[e] \ {q} /\ found'[e] = IF Probes(q) THEN found[e] \cup {q} ELSE found[e]
    BY <2>1 DEF LookAt
  <2>4. UNCHANGED <<command, port, pc, todo>>
    BY <2>1 DEF LookAt
  <2> QED
    BY <2>2, <2>3, <2>4
<1>11. CASE \E q \in Ports : NextOfAll(e, q)
  BY <1>11 DEF NextOfAll, StopInstance, Goto
<1>12. CASE \E k \in Kinds : ChildCrashes(e, k)
  BY <1>12 DEF ChildCrashes, invocationVars, search
<1> QED
  BY <1>1, <1>2, <1>3, <1>4, <1>5, <1>6, <1>7, <1>8, <1>9, <1>10, <1>11, <1>12 DEF Cli

(* Lists are of `stop --all`, before and after a step. *)
LEMMA ListsStep ==
  ASSUME InvocationsOK, SearchOK, ListsOK, NEW e \in Clis, Cli(e)
  PROVE  ListsOK'
<1>1. SUFFICES /\ pc'[e] \in {"list", "reap_all"} => command'[e] = "all"
               /\ command'[e] = "all" => pc'[e] \in Stopping \cup {"done"}
  BY OthersStep DEF ListsOK
<1> USE DEF InvocationsOK, Goto, Start, StopInstance, Exit, Ready, AfterInstance, search, worldVars, invocationVars,
            Starting, Stopping
<1>2. /\ pc[e] \in {"list", "reap_all"} => command[e] = "all"
      /\ command[e] = "all" => pc[e] \in Stopping \cup {"done"}
  BY DEF ListsOK
<1>3. CASE StartPulseaudio(e) \/ CheckCompositor(e) \/ DiscoverSocket(e) \/ Signal(e)
  BY <1>2, <1>3 DEF StartPulseaudio, CheckCompositor, DiscoverSocket, Signal
<1>4. CASE Spawn(e)
  <2>1. pc[e] = "spawn" /\ pc'[e] \in {"discover", "spawn", "parked", "done"} /\ command' = command
    BY <1>4 DEF Spawn, Kinds
  <2> QED
    BY <1>2, <2>1
<1>5. CASE SpawnFails(e)
  BY <1>2, <1>5 DEF SpawnFails
<1>6. CASE KillChild(e) \/ Pkill(e) \/ RemoveStale(e) \/ ListDone(e)
  BY <1>2, <1>6 DEF KillChild, Pkill, RemoveStale, ListDone
<1>7. CASE ScanDone(e) \/ StopSharedAudio(e) \/ Abort(e)
  BY <1>2, <1>7 DEF ScanDone, StopSharedAudio, Abort
<1>8. CASE \E q \in Ports : LookAt(e, q) \/ NextOfAll(e, q)
  BY <1>2, <1>8 DEF LookAt, NextOfAll
<1>9. CASE \E k \in Kinds : ChildCrashes(e, k)
  BY <1>2, <1>9 DEF ChildCrashes
<1> QED
  BY <1>3, <1>4, <1>5, <1>6, <1>7, <1>8, <1>9 DEF Cli

(* AudioOK, before and after a step. *)
LEMMA AudioStep ==
  ASSUME CliTypeOK, ListsOK, AudioOK, NEW e \in Clis, Cli(e), TrackStarts
  PROVE  AudioOK'
<1>1. SUFFICES ASSUME NEW c \in Clis, NEW p \in Ports, pc'[c] \in Stopping, Live(p)'
      PROVE  pidfile'[p]["compositor"] \in starters'[c] \/ Before(c, p)'
  BY DEF AudioOK
<1> DEFINE d == pidfile[p]["compositor"]
<1>2. InvocationsOK /\ SearchOK /\ MachineOK /\ HistoryOK
  BY TypeParts
<1>3. CASE pidfile'[p]["compositor"] = e /\ pc'[e] = "discover"
  BY <1>1, <1>2, <1>3, StartersGrow DEF Starting
<1>4. CASE Live(p) /\ pidfile'[p]["compositor"] = d
  <2>1. CASE pc[c] \in Stopping /\ d \in starters[c]
    BY <1>1, <1>2, <1>4, <2>1, StartersGrow
  <2>2. CASE pc[c] \in Stopping => Before(c, p)
    <3>1. CASE c = e
      BY <1>1, <1>2, <1>4, <2>2, <3>1, OwnStep
    <3>2. CASE c # e
      <4>1. /\ pc'[c] = pc[c] /\ port'[c] = port[c] /\ scan'[c] = scan[c]
            /\ found'[c] = found[c] /\ todo'[c] = todo[c] /\ command'[c] = command[c]
        BY <1>2, <3>2, OthersStep
      <4> QED
        BY <1>1, <2>2, <4>1 DEF Before
    <3> QED
      BY <3>1, <3>2
  <2> QED
    BY <1>4, <2>1, <2>2 DEF AudioOK
<1> QED
  BY <1>1, <1>2, <1>3, <1>4, LiveStep

(* Who ends the audio server (cli.rs) has seen every instance with a       *)
(* pidfile and a live compositor stopped, but for those that were started  *)
(* while it looked.                                                        *)
THEOREM AudioCorrect == CliSpec => SeenInstancesKeepAudio
<1> DEFINE Inv == CliTypeOK /\ ListsOK /\ AudioOK
<1>1. CliInit => ListsOK /\ AudioOK
  <2> SUFFICES ASSUME CliInit PROVE ListsOK /\ AudioOK
    OBVIOUS
  <2>1. ListsOK
    BY DEF CliInit, ListsOK, Main, Stopping
  <2>2. \A p \in Ports : ~ Live(p)
    BY NamesAssumption DEF CliInit, Live, Kinds
  <2> QED
    BY <2>1, <2>2 DEF AudioOK
<1>2. Inv /\ [CliNext]_cliVars => (ListsOK /\ AudioOK)'
  <2> SUFFICES ASSUME Inv, [CliNext]_cliVars PROVE (ListsOK /\ AudioOK)'
    OBVIOUS
  <2>1. CASE UNCHANGED cliVars
    BY <2>1 DEF ListsOK, AudioOK, Live, Before, cliVars, invocationVars, worldVars, search
  <2>2. CASE CliNext
    <3>1. PICK e \in Clis : Cli(e)
      BY <2>2 DEF CliNext
    <3>2. TrackStarts
      BY <2>2 DEF CliNext
    <3> QED
      BY <3>1, <3>2, ListsStep, AudioStep, TypeParts
  <2> QED
    BY <2>1, <2>2
<1>3. Inv /\ [CliNext]_cliVars =>
        (audio /\ ~audio' =>
           \E c \in Clis : /\ pc[c] \in {"reap", "reap_all"} /\ pc'[c] # pc[c]
                           /\ \A p \in Ports : LET d == pidfile[p]["compositor"] IN
                                d # NoCli /\ child[d]["compositor"] = "running" => d \in starters[c])
  <2> SUFFICES ASSUME Inv, [CliNext]_cliVars, audio, ~audio'
               PROVE  \E c \in Clis : /\ pc[c] \in {"reap", "reap_all"} /\ pc'[c] # pc[c]
                           /\ \A p \in Ports : LET d == pidfile[p]["compositor"] IN
                                d # NoCli /\ child[d]["compositor"] = "running" => d \in starters[c]
    OBVIOUS
  <2>1. PICK c \in Clis : StopSharedAudio(c)
    <3>1. PICK c \in Clis : Cli(c)
      BY DEF CliNext, cliVars, worldVars
    <3>2. StopSharedAudio(c)
      BY <3>1 DEF Cli, StartPulseaudio, CheckCompositor, Spawn, SpawnFails, DiscoverSocket, Signal, KillChild,
           Pkill, RemoveStale, ListDone, ScanDone, Abort, LookAt, NextOfAll, ChildCrashes, worldVars
    <3> QED
      BY <3>2
  <2>2. pc[c] \in {"reap", "reap_all"} /\ (pc[c] = "reap_all" => todo[c] = {})
    BY <2>1 DEF StopSharedAudio
  <2>3. pc'[c] # pc[c]
    BY <2>1, <2>2 DEF StopSharedAudio, AfterInstance, Exit, Goto, CliTypeOK
  <2>4. ASSUME NEW p \in Ports, Live(p) PROVE pidfile[p]["compositor"] \in starters[c]
    <3>1. ~ Before(c, p)
      BY <2>2 DEF Before, ListsOK
    <3> QED
      BY <2>2, <2>4, <3>1 DEF AudioOK, Stopping
  <2>5. \A p \in Ports : pidfile[p]["compositor"] \in Clis \cup {NoCli}
    BY TypeParts DEF MachineOK, Kinds
  <2> QED
    BY <2>2, <2>3, <2>4, <2>5 DEF Live
<1> HIDE DEF Inv
<1>4. CliSpec => []Inv
  <2>1. Inv => CliTypeOK
    BY DEF Inv
  <2>2. CliSpec => []CliTypeOK
    BY TypeCorrect
  <2>3. CliInit /\ CliTypeOK => Inv
    BY <1>1 DEF Inv
  <2>4. Inv /\ [CliNext]_cliVars /\ CliTypeOK' => Inv'
    BY <1>2 DEF Inv
  <2> QED
    BY <2>2, <2>3, <2>4, PTL DEF CliSpec
<1> QED
  BY <1>3, <1>4, PTL DEF CliSpec, SeenInstancesKeepAudio

-----------------------------------------------------------------------------
(***************************************************************************)
(* What a stop leaves behind.                                              *)
(***************************************************************************)

(* The compositor d started, for its port p, runs. *)
RunsOn(d, p) == port[d] = p /\ child[d]["compositor"] = "running"

(* A port that is to be forgotten is one being looked for, and `stop       *)
(* --all`, which changes its port, has no children.                        *)
SearchesOK ==
  \A c \in Clis : /\ stale[c] # NoPort => pc[c] \in {"list", "scan"}
                  /\ command[c] = "all" => \A k \in Kinds : child[c][k] # "running"

(* Two at work on a port excuse it, but for stops that have only begun. *)
OverlapOK ==
  \A c, d \in Clis, p \in Ports :
    c # d /\ p \in AtWork(c) /\ p \in AtWork(d) => p \in excused \/ (pc[c] = "kill" /\ pc[d] = "kill")

(* A compositor that runs is the one the pidfile names. *)
NamedOK == \A d \in Clis, p \in Ports \ excused : RunsOn(d, p) => pidfile[p]["compositor"] = d

(* Who starts a compositor, or takes it for dead, does so where none runs. *)
Claims(c, p) == (pc[c] = "spawn" /\ job[c] = "compositor" /\ port[c] = p) \/ stale[c] = p

VacantOK ==
  \A c, d \in Clis, p \in Ports \ excused : Claims(c, p) => ~RunsOn(d, p)

(* A stop has removed the pidfiles up to where it is. *)
Killed(c) ==
  CASE pc[c] = "kill" /\ job[c] = "waypipe"    -> {"socat"}
    [] pc[c] = "kill" /\ job[c] = "compositor" -> {"socat", "waypipe"}
    [] pc[c] = "pkill"                         -> Kinds
    [] OTHER                                   -> {}

KilledOK == \A c \in Clis, k \in Kinds : port[c] \notin excused /\ k \in Killed(c) => pidfile[port[c]][k] = NoCli

StopOK == SearchesOK /\ OverlapOK /\ NamedOK /\ VacantOK /\ KilledOK

(* Only `stop --all` goes from port to port. *)
LEMMA PortStep ==
  ASSUME InvocationsOK, SearchOK, ListsOK, NEW e \in Clis, Cli(e)
  PROVE  \A d \in Clis : port'[d] = port[d] \/ (d = e /\ command[e] = "all")
<1>1. (\E q \in Ports : NextOfAll(e, q)) => pc[e] = "reap_all"
  BY DEF NextOfAll
<1>2. ~ (\E q \in Ports : NextOfAll(e, q)) => port' = port
  BY DEF Cli, StartPulseaudio, CheckCompositor, Spawn, SpawnFails, DiscoverSocket, Signal, KillChild, Pkill,
       RemoveStale, ListDone, ScanDone, StopSharedAudio, Abort, LookAt, ChildCrashes, worldVars, invocationVars
<1> QED
  BY <1>1, <1>2, OthersStep DEF ListsOK

(* A compositor that runs on a port ran there before, or has just been     *)
(* started there and named by its pidfile.                                 *)
LEMMA RunsStep ==
  ASSUME InvocationsOK, SearchOK, MachineOK, ListsOK, SearchesOK, NEW e \in Clis, Cli(e),
         NEW d \in Clis, NEW p, RunsOn(d, p)'
  PROVE  \/ RunsOn(d, p)
         \/ d = e /\ Spawn(e) /\ job[e] = "compositor" /\ port[e] = p /\ pidfile'[p]["compositor"] = e
<1>1. "compositor" \in Kinds /\ child'[d]["compositor"] = "running" /\ port'[d] = p
  BY DEF RunsOn, Kinds
<1>2. CASE child[d]["compositor"] = "running"
  BY <1>1, <1>2, PortStep DEF SearchesOK, RunsOn
<1>3. CASE d = e /\ Spawn(e) /\ "compositor" = job[e] /\ pidfile'[port[e]]["compositor"] = e
  BY <1>1, <1>3 DEF Spawn
<1> QED
  BY <1>1, <1>2, <1>3, ChildStep

(* Who comes to claim a port found no process that its pidfile names; who  *)
(* starts a compositor claims none.                                        *)
LEMMA ClaimStep ==
  ASSUME InvocationsOK, SearchOK, SearchesOK, NEW e \in Clis, Cli(e), NEW p \in Ports, Claims(e, p)'
  PROVE  /\ ~Spawn(e)
         /\ Claims(e, p) \/ (~Probes(p) /\ child' = child /\ port' = port /\ pidfile' = pidfile)
<1> USE DEF InvocationsOK, SearchOK, Claims
<1>0. p # NoPort
  BY NamesAssumption
<1>1. ~Spawn(e)
  <2>1. ASSUME Spawn(e) PROVE FALSE
    <3>1. pc[e] = "spawn" /\ stale'[e] = stale[e]
      BY <2>1 DEF Spawn, search
    <3>2. pc'[e] = "spawn" => job'[e] = "socat"
      BY <2>1 DEF Spawn, Start, Goto, Ready, Exit, Kinds
    <3>3. stale[e] = NoPort
      BY <3>1 DEF SearchesOK
    <3> QED
      BY <1>0, <3>1, <3>2, <3>3
  <2> QED
    BY <2>1
<1>2. CASE CheckCompositor(e)
  <2>1. UNCHANGED <<child, port, pidfile, stale>>
    BY <1>2 DEF CheckCompositor, search, worldVars
  <2>2. Probes(port[e]) => pc'[e] = "discover"
    BY <1>2 DEF CheckCompositor, Goto
  <2> QED
    BY <1>1, <2>1, <2>2
<1>3. CASE \E q \in Ports : LookAt(e, q)
  <2>1. PICK q \in Ports : LookAt(e, q)
    BY <1>3
  <2>2. UNCHANGED <<child, port, pidfile, pc, job>>
    BY <2>1 DEF LookAt, worldVars
  <2>3. stale'[e] = p => stale[e] = p \/ (q = p /\ ~Probes(p))
    BY <2>1 DEF LookAt
  <2> QED
    BY <1>1, <2>2, <2>3
<1>4. CASE StartPulseaudio(e) \/ DiscoverSocket(e) \/ Signal(e) \/ StopSharedAudio(e) \/ Abort(e) \/ SpawnFails(e)
  BY <1>0, <1>1, <1>4 DEF StartPulseaudio, DiscoverSocket, Signal, StopSharedAudio, Abort, SpawnFails, Goto, Start,
     StopInstance, AfterInstance, Exit, Ready, search
<1>5. CASE KillChild(e) \/ Pkill(e) \/ RemoveStale(e) \/ ListDone(e) \/ ScanDone(e)
  BY <1>0, <1>1, <1>5 DEF KillChild, Pkill, RemoveStale, ListDone, ScanDone, Goto, AfterInstance, Exit, search
<1>6. CASE \E q \in Ports : NextOfAll(e, q)
  BY <1>0, <1>1, <1>6 DEF NextOfAll, StopInstance, Goto
<1>7. CASE \E k \in Kinds : ChildCrashes(e, k)
  BY <1>1, <1>7 DEF ChildCrashes, invocationVars, search
<1> QED
  BY <1>1, <1>2, <1>3, <1>4, <1>5, <1>6, <1>7 DEF Cli

(* Where a stop is, it has just removed the last of the pidfiles.          *)
LEMMA KilledStep ==
  ASSUME InvocationsOK, SearchOK, MachineOK, NEW e \in Clis, Cli(e), NEW k \in Kinds, k \in Killed(e)'
  PROVE  port'[e] = port[e] /\ (k \in Killed(e) \/ pidfile'[port[e]][k] = NoCli)
<1> USE DEF InvocationsOK, SearchOK, Killed
<1>1. pc'[e] \in {"kill", "pkill"}
  OBVIOUS
<1>2. CASE KillChild(e)
  BY <1>2 DEF KillChild, Goto, Kinds, MachineOK
<1>3. CASE Signal(e) \/ \E q \in Ports : NextOfAll(e, q)
  BY <1>3 DEF Signal, NextOfAll, StopInstance, Goto
<1>4. CASE RemoveStale(e) \/ (\E q \in Ports : LookAt(e, q)) \/ \E j \in Kinds : ChildCrashes(e, j)
  BY <1>4 DEF RemoveStale, LookAt, ChildCrashes, invocationVars
<1>5. ~ (StartPulseaudio(e) \/ CheckCompositor(e) \/ DiscoverSocket(e) \/ Pkill(e) \/ ListDone(e))
  BY <1>1 DEF StartPulseaudio, CheckCompositor, DiscoverSocket, Pkill, ListDone, Goto, Start
<1>6. ~ (SpawnFails(e) \/ ScanDone(e) \/ StopSharedAudio(e) \/ Abort(e))
  BY <1>1 DEF SpawnFails, ScanDone, StopSharedAudio, Abort, Goto, Exit, Ready, AfterInstance
<1>7. ~ Spawn(e)
  <2>1. Spawn(e) => pc'[e] \in {"discover", "spawn", "parked", "done"}
    BY DEF Spawn, Goto, Start, Exit, Ready, Kinds
  <2> QED
    BY <1>1, <2>1
<1> QED
  BY <1>2, <1>3, <1>4, <1>5, <1>6, <1>7 DEF Cli

(* The command of an invocation stays. *)
LEMMA CommandStays ==
  ASSUME NEW e \in Clis, Cli(e)
  PROVE  command' = command
BY DEF Cli, StartPulseaudio, CheckCompositor, Spawn, SpawnFails, DiscoverSocket, Signal, KillChild, Pkill,
   RemoveStale, ListDone, ScanDone, StopSharedAudio, Abort, LookAt, NextOfAll, ChildCrashes, invocationVars

(* SearchesOK, before and after a step. *)
LEMMA SearchesStep ==
  ASSUME InvocationsOK, SearchOK, MachineOK, ListsOK, SearchesOK, NEW e \in Clis, Cli(e)
  PROVE  SearchesOK'
<1> USE DEF InvocationsOK, SearchOK
<1>1. ASSUME NEW c \in Clis, stale'[c] # NoPort PROVE pc'[c] \in {"list", "scan"}
  <2>1. CASE c # e
    BY <1>1, <2>1, OthersStep DEF SearchesOK
  <2>2. CASE c = e
    <3>0. stale[e] # NoPort => pc[e] \in {"list", "scan"}
      BY DEF SearchesOK
    <3>1. CASE \E q \in Ports : LookAt(e, q)
      BY <2>2, <3>1 DEF LookAt
    <3>2. CASE RemoveStale(e) \/ Abort(e) \/ \E j \in Kinds : ChildCrashes(e, j)
      BY <1>1, <2>2, <3>0, <3>2 DEF RemoveStale, Abort, ChildCrashes, invocationVars, search
    <3>3. CASE ListDone(e) \/ ScanDone(e)
      BY <1>1, <2>2, <3>3 DEF ListDone, ScanDone, Scanned
    <3>4. CASE StartPulseaudio(e) \/ CheckCompositor(e) \/ DiscoverSocket(e) \/ Signal(e) \/ Spawn(e) \/ SpawnFails(e)
      BY <1>1, <2>2, <3>0, <3>4 DEF StartPulseaudio, CheckCompositor, DiscoverSocket, Signal, Spawn, SpawnFails, search
    <3>5. CASE KillChild(e) \/ Pkill(e) \/ StopSharedAudio(e) \/ \E q \in Ports : NextOfAll(e, q)
      BY <1>1, <2>2, <3>0, <3>5 DEF KillChild, Pkill, StopSharedAudio, NextOfAll, search
    <3> QED
      BY <3>1, <3>2, <3>3, <3>4, <3>5 DEF Cli
  <2> QED
    BY <2>1, <2>2
<1>2. ASSUME NEW c \in Clis, command'[c] = "all", NEW k \in Kinds PROVE child'[c][k] # "running"
  <2>1. command[c] = "all"
    BY <1>2, CommandStays
  <2>2. child[c][k] # "running"
    BY <2>1 DEF SearchesOK
  <2>3. ~ (c = e /\ Spawn(e))
    BY <2>1 DEF ListsOK, Spawn, Stopping
  <2> QED
    BY <2>2, <2>3, ChildStep
<1> QED
  BY <1>1, <1>2 DEF SearchesOK

(* OverlapOK, after any step. *)
LEMMA OverlapStep ==
  ASSUME CliTypeOK', Excuse
  PROVE  OverlapOK'
BY DEF OverlapOK, Excuse

(* Two at work on a port that is not excused: stops that have only begun. *)
LEMMA Alone ==
  ASSUME OverlapOK, NEW c \in Clis, NEW d \in Clis, c # d, NEW p \in Ports \ excused, p \in AtWork(c), p \in AtWork(d)
  PROVE  pc[c] = "kill" /\ pc[d] = "kill"
BY DEF OverlapOK

(* Who claims a port is at work on it. *)
LEMMA ClaimsWork ==
  ASSUME NEW c, NEW p \in Ports, Claims(c, p)
  PROVE  p \in AtWork(c)
BY NamesAssumption DEF Claims, AtWork, Starting

(* NamedOK, before and after a step. *)
LEMMA NamedStep ==
  ASSUME InvocationsOK, SearchOK, MachineOK, ListsOK, StopOK, NEW e \in Clis, Cli(e), Excuse
  PROVE  NamedOK'
<1>1. SUFFICES ASSUME NEW d \in Clis, NEW p \in Ports \ excused', RunsOn(d, p)'
      PROVE  pidfile'[p]["compositor"] = d
  BY DEF NamedOK
<1>2. p \in Ports \ excused /\ "compositor" \in Kinds
  BY DEF Excuse, Kinds
<1>3. CASE d = e /\ pidfile'[p]["compositor"] = e
  BY <1>3
<1>4. CASE RunsOn(d, p)
  <2>1. pidfile[p]["compositor"] = d
    BY <1>2, <1>4 DEF StopOK, NamedOK
  <2>2. ~ Claims(e, p)
    BY <1>2, <1>4 DEF StopOK, VacantOK
  <2>3. child'[d]["compositor"] = "running"
    BY <1>1 DEF RunsOn
  <2>4. ~ (Spawn(e) /\ port[e] = p /\ job[e] = "compositor") /\ stale[e] # p
    BY <2>2 DEF Claims, Spawn
  <2> QED
    BY <1>2, <2>1, <2>3, <2>4, PidfileStep
<1> QED
  BY <1>1, <1>3, <1>4, RunsStep DEF StopOK

(* VacantOK, before and after a step. *)
LEMMA VacantStep ==
  ASSUME InvocationsOK, SearchOK, MachineOK, ListsOK, StopOK, NEW e \in Clis, Cli(e), Excuse
  PROVE  VacantOK'
<1>1. SUFFICES ASSUME NEW c \in Clis, NEW d \in Clis, NEW p \in Ports \ excused', Claims(c, p)', RunsOn(d, p)'
      PROVE  FALSE
  BY DEF VacantOK
<1>2. p \in Ports \ excused
  BY DEF Excuse
<1>3. CASE Claims(c, p) /\ ~ (c = e /\ Spawn(e))
  <2>1. ~ RunsOn(d, p)
    BY <1>2, <1>3 DEF StopOK, VacantOK
  <2>2. d = e /\ Spawn(e) /\ job[e] = "compositor" /\ port[e] = p
    BY <1>1, <2>1, RunsStep DEF StopOK
  <2>3. pc[e] = "spawn" /\ Claims(e, p)
    BY <2>2 DEF Spawn, Claims
  <2>4. c # e /\ p \in AtWork(c) /\ p \in AtWork(e)
    BY <1>2, <1>3, <2>2, <2>3, ClaimsWork
  <2>5. pc[e] = "kill"
    BY <1>2, <2>4, Alone DEF StopOK
  <2> QED
    BY <2>3, <2>5
<1>4. CASE ~Probes(p) /\ child' = child /\ port' = port
  <2>1. RunsOn(d, p)
    BY <1>1, <1>4 DEF RunsOn
  <2>2. pidfile[p]["compositor"] = d
    BY <1>2, <2>1 DEF StopOK, NamedOK
  <2> QED
    BY <1>4, <2>1, <2>2, NamesAssumption DEF RunsOn, Probes
<1>5. c # e => Claims(c, p)
  BY <1>1, OthersStep DEF Claims
<1> QED
  BY <1>1, <1>2, <1>3, <1>4, <1>5, ClaimStep DEF StopOK

(* KilledOK, before and after a step. *)
LEMMA KilledKept ==
  ASSUME InvocationsOK, SearchOK, MachineOK, ListsOK, StopOK, NEW e \in Clis, Cli(e), Excuse
  PROVE  KilledOK'
<1>1. SUFFICES ASSUME NEW c \in Clis, NEW k \in Kinds, port'[c] \notin excused', k \in Killed(c)'
      PROVE  pidfile'[port'[c]][k] = NoCli
  BY DEF KilledOK
<1> DEFINE p == port[c]
<1>2. port'[c] = p /\ (k \in Killed(c) \/ pidfile'[p][k] = NoCli)
  <2>1. CASE c = e
    BY <1>1, <2>1, KilledStep
  <2>2. CASE c # e
    BY <1>1, <2>2, OthersStep DEF Killed
  <2> QED
    BY <2>1, <2>2
<1>3. p \in Ports \ excused
  BY <1>1, <1>2 DEF Excuse, InvocationsOK
<1>4. CASE k \in Killed(c)
  <2>1. pidfile[p][k] = NoCli
    BY <1>3, <1>4 DEF StopOK, KilledOK
  <2>2. pc[c] \in {"kill", "pkill"} /\ p \in AtWork(c)
    BY <1>4 DEF Killed, AtWork
  <2>3. ~ (Spawn(e) /\ port[e] = p)
    <3>0. Spawn(e) => pc[e] = "spawn"
      BY DEF Spawn
    <3>1. ASSUME pc[e] = "spawn", port[e] = p PROVE FALSE
      <4>1. c # e /\ p \in AtWork(e)
        BY <2>2, <3>1 DEF AtWork, Starting
      <4> QED
        BY <1>3, <2>2, <3>1, <4>1, Alone DEF StopOK
    <3> QED
      BY <3>0, <3>1
  <2> QED
    BY <1>2, <1>3, <2>1, <2>3, PidfileStep
<1> QED
  BY <1>2, <1>4

(* What runs when the last of a stop's kills is done. *)
LEMMA PkillStep ==
  ASSUME InvocationsOK, SearchOK, MachineOK, StopOK, NEW c \in Clis, Pkill(c), port[c] \notin excused
  PROVE  Running(port[c])' = {} /\ \A k \in Kinds : pidfile'[port[c]][k] = NoCli
<1> DEFINE p == port[c]  dying == SocketUsers(p) \cup Bridges(p)
<1>1. p \in Ports \ excused /\ pidfile' = pidfile /\ port' = port /\ child' = Without(dying)
  BY DEF Pkill, InvocationsOK
<1>2. \A k \in Kinds : pidfile[p][k] = NoCli
  BY DEF Pkill, Killed, StopOK, KilledOK
<1>3. ASSUME NEW d \in Clis, port[d] = p, NEW k \in Kinds, child'[d][k] = "running" PROVE FALSE
  <2>1. child[d][k] = "running"
    BY <1>1, <1>3, WithoutOK DEF Within
  <2>2. CASE k = "compositor"
    <3>1. pidfile[p]["compositor"] = d
      BY <1>1, <1>3, <2>1, <2>2 DEF RunsOn, StopOK, NamedOK
    <3> QED
      BY <1>2, <2>2, <3>1, NamesAssumption
  <2>3. CASE k \in {"waypipe", "socat"}
    <3>1. <<d, k>> \in dying
      BY <1>3, <2>3 DEF SocketUsers
    <3>2. child'[d][k] = Dead(d)
      BY <1>1, <2>1, <3>1 DEF Without
    <3> QED
      BY <1>3, <3>2 DEF Dead
  <2> QED
    BY <2>2, <2>3 DEF Kinds
<1> QED
  BY <1>1, <1>2, <1>3 DEF Running

(* Once a stop is through, nothing of its instance runs and no pidfile of  *)
(* it is left, unless two were at work on it.                              *)
THEOREM StopCorrect == CliSpec => StopIsComplete
<1> DEFINE Inv == CliTypeOK /\ ListsOK /\ StopOK
<1>1. CliInit => ListsOK /\ StopOK
  <2> SUFFICES ASSUME CliInit PROVE ListsOK /\ StopOK
    OBVIOUS
  <2>1. ListsOK
    BY DEF CliInit, ListsOK, Main, Stopping
  <2>2. \A c \in Clis : pc[c] \in {"kill", "list", "audio"} /\ stale[c] = NoPort /\ \A k \in Kinds : child[c][k] = "absent"
    BY DEF CliInit, Main
  <2>3. SearchesOK /\ NamedOK /\ VacantOK
    BY <2>2 DEF SearchesOK, NamedOK, VacantOK, RunsOn, Kinds
  <2>4. OverlapOK
    BY <2>2 DEF OverlapOK, AtWork, Starting
  <2>5. KilledOK
    BY DEF CliInit, KilledOK
  <2> QED
    BY <2>1, <2>3, <2>4, <2>5 DEF StopOK
<1>2. Inv /\ [CliNext]_cliVars /\ CliTypeOK' => (ListsOK /\ StopOK)'
  <2> SUFFICES ASSUME Inv, [CliNext]_cliVars, CliTypeOK' PROVE (ListsOK /\ StopOK)'
    OBVIOUS
  <2>1. CASE UNCHANGED cliVars
    BY <2>1 DEF ListsOK, StopOK, SearchesOK, OverlapOK, NamedOK, VacantOK, KilledOK, AtWork, Claims, RunsOn, Killed,
         cliVars, invocationVars, worldVars, search
  <2>2. CASE CliNext
    <3>1. PICK e \in Clis : Cli(e)
      BY <2>2 DEF CliNext
    <3>2. Excuse
      BY <2>2 DEF CliNext
    <3>3. InvocationsOK /\ SearchOK /\ MachineOK
      BY TypeParts
    <3>4. ListsOK' /\ SearchesOK' /\ OverlapOK'
      BY <3>1, <3>2, <3>3, ListsStep, SearchesStep, OverlapStep DEF StopOK
    <3>5. NamedOK' /\ VacantOK' /\ KilledOK'
      BY <3>1, <3>2, <3>3, NamedStep, VacantStep, KilledKept
    <3> QED
      BY <3>4, <3>5 DEF StopOK
  <2> QED
    BY <2>1, <2>2
<1>3. Inv /\ [CliNext]_cliVars =>
        (\A c \in Clis : pc[c] = "pkill" /\ pc'[c] = "scan" /\ port[c] \notin excused' =>
           Running(port[c])' = {} /\ \A k \in Kinds : pidfile'[port[c]][k] = NoCli)
  <2> SUFFICES ASSUME Inv, [CliNext]_cliVars, NEW c \in Clis, pc[c] = "pkill", pc'[c] = "scan", port[c] \notin excused'
               PROVE  Running(port[c])' = {} /\ \A k \in Kinds : pidfile'[port[c]][k] = NoCli
    OBVIOUS
  <2>1. CliNext
    BY DEF cliVars, invocationVars
  <2>2. PICK e \in Clis : Cli(e)
    BY <2>1 DEF CliNext
  <2>3. InvocationsOK /\ SearchOK /\ MachineOK
    BY TypeParts
  <2>4. c = e
    BY <2>2, <2>3, OthersStep
  <2>5. Pkill(c)
    BY <2>2, <2>3, <2>4 DEF Cli, InvocationsOK, StartPulseaudio, CheckCompositor, Spawn, SpawnFails, DiscoverSocket,
       Signal, KillChild, RemoveStale, ListDone, ScanDone, StopSharedAudio, Abort, LookAt, NextOfAll, ChildCrashes, Goto,
       Exit, invocationVars
  <2>6. port[c] \notin excused
    BY <2>1 DEF CliNext, Excuse
  <2> QED
    BY <2>3, <2>5, <2>6, PkillStep
<1> HIDE DEF Inv
<1>4. CliSpec => []Inv
  <2>1. Inv => CliTypeOK
    BY DEF Inv
  <2>2. CliSpec => []CliTypeOK
    BY TypeCorrect
  <2>3. CliInit /\ CliTypeOK => Inv
    BY <1>1 DEF Inv
  <2>4. Inv /\ [CliNext]_cliVars /\ CliTypeOK' => Inv'
    BY <1>2 DEF Inv
  <2> QED
    BY <2>2, <2>3, <2>4, PTL DEF CliSpec
<1> QED
  BY <1>3, <1>4, PTL DEF CliSpec, StopIsComplete
=============================================================================
