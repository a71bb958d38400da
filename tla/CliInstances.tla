---------------------------- MODULE CliInstances ----------------------------
(***************************************************************************)
(* The orchestrator (cli.rs, waypipe back-end): several invocations of     *)
(* `wayland-macos up`, `stop` and `stop --all` at the same time, on one or *)
(* several ports.  They share nothing but files under /tmp, the process    *)
(* table and one audio server.                                             *)
(*                                                                         *)
(* An invocation is a process with a program counter.  The children        *)
(* outlive it: each is named by the invocation that spawned it and its     *)
(* kind, which stands for its pid (pids are not reused).  A spawn and the  *)
(* write of its pidfile are one step, and so are the kill by a pidfile and *)
(* its removal.                                                            *)
(***************************************************************************)
EXTENDS Naturals, FiniteSets

CONSTANTS
  Clis,            \* invocations of the program
  CliCommands,     \* what each may be
  Ports,           \* a port names an instance
  PortExtensions,  \* <<p, q>>: q begins with the digits of p
  NoCli, NoPort,   \* None
  MaxFailures      \* bound: children and invocations that end by themselves

ASSUME NamesAssumption      == NoCli \notin Clis /\ NoPort \notin Ports
ASSUME CommandsAssumption   == CliCommands \in [Clis -> SUBSET {"up", "detach", "stop", "all"}]
ASSUME ExtensionsAssumption == PortExtensions \subseteq Ports \X Ports
ASSUME FailuresAssumption   == MaxFailures \in Nat

Kinds == {"socat", "waypipe", "compositor"}

VARIABLES
  (* the invocations *)
  command, port, pc,
  job,        \* the child that is started or stopped next
  scan,       \* ports discovered_ports has still to look at
  found,      \* ports it found alive
  stale,      \* the port whose pidfile it found dead and removes next
  todo,       \* ports `stop --all` has still to stop
  (* the machine *)
  child,      \* of an invocation and a kind: "absent", "running", "zombie"
  pidfile,    \* of a port and a kind: the invocation whose child it names
  audio,      \* the shared audio server runs
  failures,
  (* history, for the properties only *)
  excused,    \* ports two invocations were at work on at a time
  starters    \* of a stop: the starts that overlapped it

search         == <<scan, found, stale, todo>>
invocationVars == <<command, port, pc, job, search>>
worldVars      == <<child, pidfile, audio, failures>>
cliVars        == <<invocationVars, worldVars, excused, starters>>

Starting == {"check", "spawn", "discover"}
Stopping == {"list", "kill", "pkill", "scan", "reap", "reap_all"}

(* The state has its types, and a zombie has a parent that still runs. *)
CliTypeOK ==
  /\ command \in [Clis -> {"up", "detach", "stop", "all"}]
  /\ port \in [Clis -> Ports]
  /\ pc \in [Clis -> Starting \cup Stopping \cup {"audio", "parked", "done"}]
  /\ job \in [Clis -> Kinds]
  /\ scan \in [Clis -> SUBSET Ports] /\ found \in [Clis -> SUBSET Ports]
  /\ stale \in [Clis -> Ports \cup {NoPort}]
  /\ todo \in [Clis -> SUBSET Ports]
  /\ child \in [Clis -> [Kinds -> {"absent", "running", "zombie"}]]
  /\ pidfile \in [Ports -> [Kinds -> Clis \cup {NoCli}]]
  /\ audio \in BOOLEAN
  /\ failures \in 0 .. MaxFailures
  /\ excused \subseteq Ports
  /\ starters \in [Clis -> SUBSET Clis]
  /\ \A c \in Clis : pc[c] = "done" => \A k \in Kinds : child[c][k] # "zombie"

Main(cmd) == CASE cmd = "stop" -> "kill"
               [] cmd = "all"  -> "list"
               [] OTHER        -> "audio"

CliInit ==
  /\ command \in [Clis -> {"up", "detach", "stop", "all"}]
  /\ \A c \in Clis : command[c] \in CliCommands[c]
  /\ port \in [Clis -> Ports]
  /\ pc = [c \in Clis |-> Main(command[c])]
  /\ job = [c \in Clis |-> IF command[c] = "stop" THEN "socat" ELSE "compositor"]
  /\ scan = [c \in Clis |-> IF command[c] = "all" THEN Ports ELSE {}]
  /\ found = [c \in Clis |-> {}]
  /\ stale = [c \in Clis |-> NoPort]
  /\ todo = [c \in Clis |-> {}]
  /\ child = [c \in Clis |-> [k \in Kinds |-> "absent"]]
  /\ pidfile = [p \in Ports |-> [k \in Kinds |-> NoCli]]
  /\ audio = FALSE
  /\ failures = 0
  /\ excused = {}
  /\ starters = [c \in Clis |-> {}]

-----------------------------------------------------------------------------
(* Processes *)

(* Mutant: the dead are never reaped. *)
NeverReaped(c) == "zombie"

(* A dead child of an invocation that still runs stays as a zombie: nobody *)
(* waits for it.  init takes those of an invocation that ended.            *)
Dead(c) == IF pc[c] = "done" THEN "absent" ELSE "zombie"

(* The table once the children in dying, pairs of invocation and kind, are dead. *)
Without(dying) ==
  [c \in Clis |-> [k \in Kinds |->
     IF <<c, k>> \in dying /\ child[c][k] = "running" THEN Dead(c) ELSE child[c][k]]]

(* kill(pid, 0) finds a process, be it a zombie. *)
Probes(p) == /\ pidfile[p]["compositor"] # NoCli
             /\ child[pidfile[p]["compositor"]]["compositor"] # "absent"

(* pkill -f with the path of the client socket: the waypipe client has it  *)
(* in its arguments, and so has the bridge that connects to it.            *)
SocketUsers(p) == {c \in Clis : port[c] = p} \X {"waypipe", "socat"}

(* pkill -f with "socat TCP-LISTEN:<port>": a prefix is enough to match.   *)
Bridges(p) == {c \in Clis : port[c] = p \/ <<p, port[c]>> \in PortExtensions} \X {"socat"}

-----------------------------------------------------------------------------
(* The steps of an invocation *)

Goto(c, next) == pc' = [pc EXCEPT ![c] = next]

Start(c, k) == Goto(c, "spawn") /\ job' = [job EXCEPT ![c] = k]

(* stop_instance begins with the pidfile of the bridge. *)
StopInstance(c) == Goto(c, "kill") /\ job' = [job EXCEPT ![c] = "socat"]

Exit(c, table) ==
  /\ Goto(c, "done")
  /\ child' = [table EXCEPT ![c] =
       [k \in Kinds |-> IF table[c][k] = "zombie" THEN "absent" ELSE table[c][k]]]

Fails == failures < MaxFailures /\ failures' = failures + 1

(* The script does nothing if the server runs.  Then the compositor is built. *)
StartPulseaudio(c) ==
  /\ pc[c] = "audio"
  /\ audio' = TRUE
  /\ Goto(c, "check")
  /\ UNCHANGED <<command, port, job, search, child, pidfile, failures>>

(* Mutant: `up` starts a compositor whatever runs. *)
CheckNothing(c) ==
  /\ pc[c] = "check"
  /\ Start(c, "compositor")
  /\ UNCHANGED <<command, port, search, worldVars>>

(* No second compositor if the pidfile names a process. *)
CheckCompositor(c) ==
  /\ pc[c] = "check"
  /\ IF Probes(port[c]) THEN Goto(c, "discover") /\ UNCHANGED job ELSE Start(c, "compositor")
  /\ UNCHANGED <<command, port, search, worldVars>>

(* What is left over of an earlier run of this instance goes first. *)
Replaced(c) == CASE job[c] = "compositor" -> {}
                 [] job[c] = "waypipe"    -> SocketUsers(port[c])
                 [] job[c] = "socat"      -> Bridges(port[c])

Ready(c, table) ==
  IF command[c] = "detach" THEN Exit(c, table) ELSE Goto(c, "parked") /\ child' = table

Spawn(c) ==
  LET table == [Without(Replaced(c)) EXCEPT ![c][job[c]] = "running"] IN
  /\ pc[c] = "spawn"
  /\ pidfile' = [pidfile EXCEPT ![port[c]][job[c]] = c]
  /\ CASE job[c] = "compositor" -> Goto(c, "discover") /\ child' = table /\ UNCHANGED job
       [] job[c] = "waypipe"    -> Start(c, "socat") /\ child' = table
       [] job[c] = "socat"      -> Ready(c, table) /\ UNCHANGED job
  /\ UNCHANGED <<command, port, search, audio, failures>>

(* Without a bridge the program goes on, without the others it ends. *)
SpawnFails(c) ==
  /\ pc[c] = "spawn"
  /\ Fails
  /\ IF job[c] = "socat" THEN Ready(c, Without(Replaced(c))) ELSE Exit(c, Without(Replaced(c)))
  /\ UNCHANGED <<command, port, job, search, pidfile, audio>>

(* The log has a socket, of this compositor or of one before it. *)
DiscoverSocket(c) ==
  /\ pc[c] = "discover"
  /\ Start(c, "waypipe")
  /\ UNCHANGED <<command, port, search, worldVars>>

(* run_foreground: Ctrl-C. *)
Signal(c) ==
  /\ pc[c] = "parked"
  /\ StopInstance(c)
  /\ UNCHANGED <<command, port, search, worldVars>>

-----------------------------------------------------------------------------
(* stop_instance *)

KillChild(c) ==
  /\ pc[c] = "kill"
  /\ child' = Without({<<pidfile[port[c]][job[c]], job[c]>>})
  /\ pidfile' = [pidfile EXCEPT ![port[c]][job[c]] = NoCli]
  /\ IF job[c] = "compositor"
     THEN Goto(c, "pkill") /\ UNCHANGED job
     ELSE /\ job' = [job EXCEPT ![c] = IF @ = "socat" THEN "waypipe" ELSE "compositor"]
          /\ UNCHANGED pc
  /\ UNCHANGED <<command, port, search, audio, failures>>

(* Children without a pidfile; then discovered_ports begins. *)
Pkill(c) ==
  /\ pc[c] = "pkill"
  /\ child' = Without(SocketUsers(port[c]) \cup Bridges(port[c]))
  /\ scan' = [scan EXCEPT ![c] = Ports]
  /\ Goto(c, "scan")
  /\ UNCHANGED <<command, port, job, found, stale, todo, pidfile, audio, failures>>

(* discovered_ports, one directory entry: read and probe ... *)
LookAt(c, p) ==
  /\ pc[c] \in {"list", "scan"} /\ stale[c] = NoPort /\ p \in scan[c]
  /\ scan' = [scan EXCEPT ![c] = @ \ {p}]
  /\ found' = IF Probes(p) THEN [found EXCEPT ![c] = @ \cup {p}] ELSE found
  /\ stale' = IF pidfile[p]["compositor"] # NoCli /\ ~Probes(p)
              THEN [stale EXCEPT ![c] = p] ELSE stale
  /\ UNCHANGED <<command, port, pc, job, todo, worldVars>>

(* ... and remove what is dead. *)
RemoveStale(c) ==
  /\ stale[c] # NoPort
  /\ pidfile' = [pidfile EXCEPT ![stale[c]]["compositor"] = NoCli]
  /\ stale' = [stale EXCEPT ![c] = NoPort]
  /\ UNCHANGED <<command, port, pc, job, scan, found, todo, child, audio, failures>>

Scanned(c) == stale[c] = NoPort /\ scan[c] = {}

(* stop --all: its list is the instances with a live compositor. *)
ListDone(c) ==
  /\ pc[c] = "list" /\ Scanned(c)
  /\ todo' = [todo EXCEPT ![c] = found[c]] /\ found' = [found EXCEPT ![c] = {}]
  /\ Goto(c, "reap_all")
  /\ UNCHANGED <<command, port, job, scan, stale, worldVars>>

NextOfAll(c, p) ==
  /\ pc[c] = "reap_all" /\ p \in todo[c]
  /\ port' = [port EXCEPT ![c] = p] /\ todo' = [todo EXCEPT ![c] = @ \ {p}]
  /\ StopInstance(c)
  /\ UNCHANGED <<command, scan, found, stale, worldVars>>

AfterInstance(c) ==
  IF command[c] = "all" THEN Goto(c, "reap_all") /\ UNCHANGED child ELSE Exit(c, child)

(* Mutant: every stop is taken for the last. *)
ScanIgnored(c) ==
  /\ pc[c] = "scan" /\ Scanned(c)
  /\ Goto(c, "reap")
  /\ found' = [found EXCEPT ![c] = {}]
  /\ UNCHANGED <<command, port, job, scan, stale, todo, child, pidfile, audio, failures>>

(* The shared audio server is for the last one to stop. *)
ScanDone(c) ==
  /\ pc[c] = "scan" /\ Scanned(c)
  /\ IF found[c] = {} THEN Goto(c, "reap") /\ UNCHANGED child ELSE AfterInstance(c)
  /\ found' = [found EXCEPT ![c] = {}]
  /\ UNCHANGED <<command, port, job, scan, stale, todo, pidfile, audio, failures>>

StopSharedAudio(c) ==
  /\ \/ pc[c] = "reap" /\ AfterInstance(c)
     \/ pc[c] = "reap_all" /\ todo[c] = {} /\ Exit(c, child)
  /\ audio' = FALSE
  /\ UNCHANGED <<command, port, job, search, pidfile, failures>>

-----------------------------------------------------------------------------
(* Whatever ends by itself *)

(* exit(1): a build fails, no socket is announced in time; or Ctrl-C where *)
(* no handler is installed.  What was started stays.                       *)
Abort(c) ==
  /\ pc[c] \in Starting \/ (pc[c] \in Stopping /\ command[c] # "up")
  /\ Fails
  /\ Exit(c, child)
  /\ scan' = [scan EXCEPT ![c] = {}] /\ found' = [found EXCEPT ![c] = {}]
  /\ stale' = [stale EXCEPT ![c] = NoPort] /\ todo' = [todo EXCEPT ![c] = {}]
  /\ UNCHANGED <<command, port, job, pidfile, audio>>

ChildCrashes(c, k) ==
  /\ child[c][k] = "running"
  /\ Fails
  /\ child' = Without({<<c, k>>})
  /\ UNCHANGED <<invocationVars, pidfile, audio>>

-----------------------------------------------------------------------------
(* History *)

(* The ports an invocation is about to change. *)
AtWork(c) == (IF pc[c] \in Starting \cup {"kill", "pkill"} THEN {port[c]} ELSE {})
               \cup ({stale[c]} \ {NoPort})

Excuse ==
  excused' = excused \cup
    {p \in Ports : \E c, d \in Clis : c # d /\ p \in AtWork(c)' /\ p \in AtWork(d)'}

TrackStarts ==
  starters' = [c \in Clis |->
    IF pc'[c] \in Stopping THEN starters[c] \cup {d \in Clis : pc'[d] \in Starting} ELSE {}]

Cli(c) ==
  \/ StartPulseaudio(c) \/ CheckCompositor(c) \/ Spawn(c) \/ SpawnFails(c)
  \/ DiscoverSocket(c) \/ Signal(c)
  \/ KillChild(c) \/ Pkill(c) \/ RemoveStale(c) \/ ListDone(c) \/ ScanDone(c)
  \/ StopSharedAudio(c) \/ Abort(c)
  \/ \E p \in Ports : LookAt(c, p) \/ NextOfAll(c, p)
  \/ \E k \in Kinds : ChildCrashes(c, k)

CliNext == (\E c \in Clis : Cli(c)) /\ Excuse /\ TrackStarts

CliSpec == CliInit /\ [][CliNext]_cliVars

-----------------------------------------------------------------------------
(* Properties *)

Running(p) == {c \in Clis : port[c] = p /\ \E k \in Kinds : child[c][k] = "running"}

(* Once a stop of a port, by the command, by Ctrl-C or as one of --all, is *)
(* through, nothing of the instance runs and no pidfile of it is left,     *)
(* whatever crashed, failed half-way or was replaced before; unless two    *)
(* invocations were at work on that port at the same time.                 *)
StopIsComplete ==
  [][\A c \in Clis : pc[c] = "pkill" /\ pc'[c] = "scan" /\ port[c] \notin excused' =>
       Running(port[c])' = {} /\ \A k \in Kinds : pidfile'[port[c]][k] = NoCli]_cliVars

(* A stop does not end the audio server of an instance it can see: when it *)
(* does, every live compositor with a pidfile was started while that stop  *)
(* was under way (discovered_ports looks at one port after the other).     *)
SeenInstancesKeepAudio ==
  [][audio /\ ~audio' =>
       \E c \in Clis : /\ pc[c] \in {"reap", "reap_all"} /\ pc'[c] # pc[c]
                       /\ \A p \in Ports : LET d == pidfile[p]["compositor"] IN
                            d # NoCli /\ child[d]["compositor"] = "running" => d \in starters[c]]_cliVars

(* An instance relies on the audio server from the moment its start has    *)
(* seen to it, while it starts and while its compositor runs.              *)
ReliesOnAudio(c) == pc[c] \in Starting \/ child[c]["compositor"] = "running"

(* cli.rs:163-165: "One PulseAudio daemon on :4713 serves every instance,  *)
(* so it's started once and only torn down when the last instance stops";  *)
(* cli.rs:501-503: "otherwise stopping one instance would mute the         *)
(* others".  The stop that ends the audio server leaves no instance on     *)
(* another port that relies on it.                                         *)
OthersAreNotMuted ==
  [][audio /\ ~audio' =>
       \A c, d \in Clis : pc[c] # pc'[c] /\ port[d] # port[c] => ~ReliesOnAudio(d)]_cliVars
=============================================================================
