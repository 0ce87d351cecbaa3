---------------------------- MODULE DaemonStartup ----------------------------
(***************************************************************************)
(* How CLI commands find or start the daemon, and how daemons exclude one  *)
(* another: the startup lock (DaemonClient), the PID file (startDaemon)    *)
(* and the socket (DaemonServer), three paths in the file system.          *)
(*                                                                         *)
(* Commands and daemons are processes of the operating system, so every    *)
(* system call on a path is a step.  A command starts at most one daemon:  *)
(* the daemon of command c is known by c too.  A path holds the file one   *)
(* process created there; createPidFile() creates it empty and then writes *)
(* the pid, through its descriptor, so the write is lost on a file that    *)
(* was unlinked in between.  Pids are not reused.                          *)
(***************************************************************************)
EXTENDS Naturals, FiniteSets

CONSTANTS Cli,        \* commands that are there at a time
          Nobody,     \* a process that died before the first of them
          Absent,     \* "no file at this path"
          Leftovers,  \* sets of paths such processes may have left behind
          MaxAgain,   \* bound on commands that follow the first ones
          MaxSetbacks \* bound on daemons stopped, commands that wait too long for the
                      \* socket, and processes killed (the leftovers' too)

File == [by : Cli \cup {Nobody}, written : BOOLEAN]

ASSUME StartupAssumption ==
    /\ Nobody \notin Cli /\ Absent \notin File
    /\ Leftovers \subseteq SUBSET {"lock", "pid", "socket"}
    /\ MaxAgain \in Nat /\ MaxSetbacks \in Nat

VARIABLES path,       \* the files: lock, pid and socket
          cli,        \* where each command is
          daemon,     \* where the daemon of each command is
          closes,     \* daemons that will close the server when they stop
          again, stops, timeouts, crashes,
          misjudged,  \* history: where a takeover removed the file of a live process
          evicted,    \* history: a stopping daemon removed the socket of another
          refused     \* history: commands that found no one listening

counts == <<again, stops, timeouts, crashes>>
history == <<misjudged, evicted, refused>>
vars == <<path, cli, daemon, closes, counts, history>>

MaySetBack == stops + timeouts + crashes < MaxSetbacks

Paths == {"lock", "pid", "socket"}

Stale == [by |-> Nobody, written |-> TRUE]

CliAlive(c) == cli[c] # "dead"
DaemonAlive(d) == daemon[d] \notin {"none", "dead", "killed"}
Listening(d) == daemon[d] \in {"serving", "unpid", "unsocket"}

Holder(p) == path[p].by
HolderAlive(p) ==
    /\ Holder(p) # Nobody
    /\ IF p = "lock" THEN CliAlive(Holder(p)) ELSE DaemonAlive(Holder(p))

Init ==
    /\ \E left \in Leftovers :
           /\ path = [p \in Paths |-> IF p \in left THEN Stale ELSE Absent]
           /\ crashes = IF left = {} THEN 0 ELSE 1
    /\ cli = [c \in Cli |-> "idle"]
    /\ daemon = [c \in Cli |-> "none"]
    /\ closes = {}
    /\ again = 0 /\ stops = 0 /\ timeouts = 0
    /\ misjudged = {} /\ evicted = FALSE /\ refused = {}
----------------------------------------------------------------------------
(* System calls on a path. *)

\* openSync(path, 'wx')
Create(p, me) == path' = [path EXCEPT ![p] = [by |-> me, written |-> FALSE]]

\* writeSync(fd, pid)
WritePid(p, me) ==
    path' = IF path[p] # Absent /\ Holder(p) = me
            THEN [path EXCEPT ![p].written = TRUE] ELSE path

\* unlinkSync(path): whoever the file belongs to by now.
Unlink(p) == path' = [path EXCEPT ![p] = Absent]

\* Read a pid and signal it with 0: a file that is gone or still empty passes for one
\* whose process is dead.
LooksAlive(p) == path[p] # Absent /\ path[p].written /\ HolderAlive(p)

\* A takeover unlinks what it finds, and fails if it finds nothing.
TakeOver(p) ==
    /\ path[p] # Absent
    /\ misjudged' = IF HolderAlive(p) THEN misjudged \cup {p} ELSE misjudged
    /\ Unlink(p)
    /\ UNCHANGED <<evicted, refused>>
----------------------------------------------------------------------------
(* A command: DaemonClient.connect(). *)

CliGoes(c, from, to) == cli[c] = from /\ cli' = [cli EXCEPT ![c] = to]
CliOnly == UNCHANGED <<daemon, closes, counts>>

\* isDaemonRunning()
LookSocket(c) ==
    /\ CliGoes(c, "idle", IF path["socket"] = Absent THEN "lock" ELSE "look")
    /\ UNCHANGED <<path, history>> /\ CliOnly

LookPid(c) ==
    /\ CliGoes(c, "look", IF LooksAlive("pid") THEN "connect" ELSE "lock")
    /\ UNCHANGED <<path, history>> /\ CliOnly

\* acquireLock()
TryLock(c) ==
    /\ \/ path["lock"] = Absent /\ Create("lock", c) /\ CliGoes(c, "lock", "write")
       \/ path["lock"] # Absent /\ UNCHANGED path /\ CliGoes(c, "lock", "judge")
    /\ UNCHANGED history /\ CliOnly

WriteLock(c) ==
    /\ CliGoes(c, "write", "spawn")
    /\ WritePid("lock", c)
    /\ UNCHANGED history /\ CliOnly

JudgeLock(c) ==
    /\ CliGoes(c, "judge", IF LooksAlive("lock") THEN "wait" ELSE "takeover")
    /\ UNCHANGED <<path, history>> /\ CliOnly

TakeOverLock(c) ==
    /\ \/ TakeOver("lock") /\ CliGoes(c, "takeover", "relock")
       \/ path["lock"] = Absent /\ UNCHANGED <<path, history>> /\ CliGoes(c, "takeover", "wait")
    /\ CliOnly

Relock(c) ==
    /\ \/ path["lock"] = Absent /\ Create("lock", c) /\ CliGoes(c, "relock", "write")
       \/ path["lock"] # Absent /\ UNCHANGED path /\ CliGoes(c, "relock", "wait")
    /\ UNCHANGED history /\ CliOnly

\* startDaemon(): the lock holder spawns the daemon ...
SpawnDaemon(c) ==
    /\ CliGoes(c, "spawn", "await")
    /\ daemon' = [daemon EXCEPT ![c] = "open"]
    /\ UNCHANGED <<path, closes, counts, history>>

\* ... and polls for the socket, ...
SocketSeen == path["socket"] # Absent

SeesSocket(c) ==
    /\ SocketSeen
    /\ \/ CliGoes(c, "await", "settle")
       \/ CliGoes(c, "wait", "connect")
    /\ UNCHANGED <<path, history>> /\ CliOnly

\* ... then gives the lock back, whether the socket came or the time was up.
Release == Unlink("lock")

\* A waiter whose time is up has no lock to give back.
GiveUp == UNCHANGED path

ReleaseLock(c) ==
    /\ CliGoes(c, "settle", "connect")
    /\ Release
    /\ UNCHANGED history /\ CliOnly

StartTimeout(c) ==
    /\ MaySetBack
    /\ timeouts' = timeouts + 1
    /\ \/ CliGoes(c, "await", "failed") /\ Release
       \/ CliGoes(c, "wait", "failed") /\ GiveUp
    /\ UNCHANGED <<daemon, closes, again, stops, crashes, history>>

Answered == path["socket"] # Absent /\ Holder("socket") # Nobody /\ Listening(Holder("socket"))

Connect(c) ==
    /\ CliGoes(c, "connect", IF Answered THEN "connected" ELSE "failed")
    /\ refused' = IF Answered THEN refused ELSE refused \cup {c}
    /\ UNCHANGED <<path, misjudged, evicted>> /\ CliOnly
----------------------------------------------------------------------------
(* A daemon. *)

DaemonGoes(d, from, to) == daemon[d] = from /\ daemon' = [daemon EXCEPT ![d] = to]
DaemonOnly == UNCHANGED <<cli, closes, counts>>

\* acquirePidLock(): a daemon that does not get it exits, and cleans nothing up.
LostToUncleanly == "unpid"
LostTo == "dead"

OpenPid(d) ==
    /\ \/ path["pid"] = Absent /\ Create("pid", d) /\ DaemonGoes(d, "open", "write")
       \/ path["pid"] # Absent /\ UNCHANGED path /\ DaemonGoes(d, "open", "judge")
    /\ UNCHANGED history /\ DaemonOnly

WriteDaemonPid(d) ==
    /\ DaemonGoes(d, "write", "clear")
    /\ WritePid("pid", d)
    /\ UNCHANGED history /\ DaemonOnly

JudgePid(d) ==
    /\ DaemonGoes(d, "judge", IF LooksAlive("pid") THEN LostTo ELSE "takeover")
    /\ UNCHANGED <<path, history>> /\ DaemonOnly

TakeOverPid(d) ==
    /\ \/ TakeOver("pid") /\ DaemonGoes(d, "takeover", "recreate")
       \/ path["pid"] = Absent /\ UNCHANGED <<path, history>> /\ DaemonGoes(d, "takeover", LostTo)
    /\ DaemonOnly

RecreatePid(d) ==
    /\ \/ path["pid"] = Absent /\ Create("pid", d) /\ DaemonGoes(d, "recreate", "write")
       \/ path["pid"] # Absent /\ UNCHANGED path /\ DaemonGoes(d, "recreate", LostTo)
    /\ UNCHANGED history /\ DaemonOnly

\* server.start(): remove the socket that is there, and bind.
ClearsNothing == UNCHANGED path
Clears == Unlink("socket")

ClearSocket(d) ==
    /\ DaemonGoes(d, "clear", "bind")
    /\ Clears
    /\ UNCHANGED history /\ DaemonOnly

\* Where there is a socket again by now, the daemon cleans up and exits.
Bind(d) ==
    /\ \/ /\ path["socket"] = Absent
          /\ path' = [path EXCEPT !["socket"] = [by |-> d, written |-> TRUE]]
          /\ DaemonGoes(d, "bind", "serving")
       \/ path["socket"] # Absent /\ UNCHANGED path /\ DaemonGoes(d, "bind", "unpid")
    /\ UNCHANGED history /\ DaemonOnly

\* The daemon is told to stop, or stops after an error it did not catch: it cleans up,
\* and closes its server unless it is being killed or a recovery is under way.
Stop(d) ==
    /\ MaySetBack
    /\ stops' = stops + 1
    /\ DaemonGoes(d, "serving", "unpid")
    /\ closes' \in {closes, closes \cup {d}}
    /\ UNCHANGED <<path, cli, again, timeouts, crashes, history>>

\* cleanup(): the PID file, then the socket.
CleanupReversed == <<"socket", "pid">>
CleanupOrder == <<"pid", "socket">>

Evicts(d, p) ==
    p = "socket" /\ path[p] # Absent /\ Holder(p) \notin {d, Nobody} /\ Listening(Holder(p))

Remove(d, p) ==
    /\ Unlink(p)
    /\ evicted' = (evicted \/ Evicts(d, p))
    /\ UNCHANGED <<misjudged, refused>>

CleanupFirst(d) ==
    /\ DaemonGoes(d, "unpid", "unsocket")
    /\ Remove(d, CleanupOrder[1])
    /\ DaemonOnly

CleanupLast(d) ==
    /\ DaemonGoes(d, "unsocket", IF d \in closes THEN "closing" ELSE "dead")
    /\ Remove(d, CleanupOrder[2])
    /\ DaemonOnly

\* server.stop(): when the last connection is closed the path is unlinked again.
ServerClosed(d) ==
    /\ DaemonGoes(d, "closing", "dead")
    /\ Remove(d, "socket")
    /\ DaemonOnly
----------------------------------------------------------------------------
(* Environment. *)

\* Another command takes the place of one that is done, its daemon too: what they left
\* at a path is a dead process's from now on.
NextCommand(c) ==
    /\ again < MaxAgain
    /\ again' = again + 1
    /\ cli[c] \in {"connected", "failed", "dead"} /\ ~DaemonAlive(c)
    /\ cli' = [cli EXCEPT ![c] = "idle"]
    /\ daemon' = [daemon EXCEPT ![c] = "none"]
    /\ closes' = closes \ {c}
    /\ path' = [p \in Paths |-> IF path[p] # Absent /\ Holder(p) = c
                                THEN [path[p] EXCEPT !.by = Nobody] ELSE path[p]]
    /\ UNCHANGED <<stops, timeouts, crashes, history>>

\* A process is killed, and its files stay.

MayCrash == MaySetBack /\ crashes' = crashes + 1

CliCrash(c) ==
    /\ MayCrash
    /\ cli[c] \notin {"idle", "connected", "failed", "dead"}
    /\ cli' = [cli EXCEPT ![c] = "dead"]
    /\ UNCHANGED <<path, daemon, closes, again, stops, timeouts, history>>

DaemonCrash(d) ==
    /\ MayCrash
    /\ DaemonAlive(d)
    /\ daemon' = [daemon EXCEPT ![d] = "killed"]
    /\ UNCHANGED <<path, cli, closes, again, stops, timeouts, history>>
----------------------------------------------------------------------------
CliStep(c) ==
    \/ LookPid(c) \/ TryLock(c) \/ WriteLock(c) \/ JudgeLock(c)
    \/ TakeOverLock(c) \/ Relock(c) \/ SpawnDaemon(c) \/ SeesSocket(c) \/ ReleaseLock(c)
    \/ Connect(c)

DaemonStep(d) ==
    \/ OpenPid(d) \/ WriteDaemonPid(d) \/ JudgePid(d) \/ TakeOverPid(d) \/ RecreatePid(d)
    \/ ClearSocket(d) \/ Bind(d)
    \/ CleanupFirst(d) \/ CleanupLast(d) \/ ServerClosed(d)

Next ==
    \E c \in Cli :
        \/ LookSocket(c) \/ CliStep(c) \/ StartTimeout(c) \/ CliCrash(c) \/ NextCommand(c)
        \/ DaemonStep(c) \/ Stop(c) \/ DaemonCrash(c)

Spec == Init /\ [][Next]_vars

\* A daemon's process runs.  Nothing is assumed of the commands.
FairSpec == Spec /\ \A d \in Cli : WF_vars(DaemonStep(d))
----------------------------------------------------------------------------
(* Properties. *)

CliPc == {"idle", "look", "lock", "write", "judge", "takeover", "relock", "spawn", "await",
          "settle", "wait", "connect", "connected", "failed", "dead"}
DaemonPc == {"none", "open", "write", "judge", "takeover", "recreate", "clear", "bind",
             "serving", "unpid", "unsocket", "closing", "dead", "killed"}

(* The types: the files at the paths, and where each process can be.                *)
TypeOK ==
    /\ path \in [Paths -> File \cup {Absent}]
    /\ cli \in [Cli -> CliPc]
    /\ daemon \in [Cli -> DaemonPc]
    /\ closes \subseteq Cli
    /\ again \in 0..MaxAgain
    /\ {stops, timeouts, crashes} \subseteq 0..MaxSetbacks + 1
    /\ misjudged \subseteq Paths /\ evicted \in BOOLEAN
    /\ refused \subseteq Cli

Serving == {d \in Cli : daemon[d] = "serving"}
Starting == {c \in Cli : cli[c] \in {"write", "spawn", "await", "settle"}}

(* Commands exclude one another while they start a daemon, as long as no takeover   *)
(* removed the lock of a live command (DaemonClient.ts:127-131).                    *)
OneStarter == "lock" \notin misjudged => Cardinality(Starting) <= 1

(* Daemons exclude one another, whoever started them and however they stop or die,  *)
(* as long as no takeover removed the PID file of a live one (startDaemon.ts:77-84).*)
OneDaemon == "pid" \notin misjudged => Cardinality(Serving) <= 1

(* Both exclusions, of commands that start a daemon and of daemons that serve, which *)
(* rest on the same way to take a file over (pid-file.ts:10-23).                    *)
Exclusive == TypeOK /\ OneStarter /\ OneDaemon

(* A serving daemon is the one its PID file names, and a daemon whose PID file is   *)
(* there is reached through the socket: it is removed last, so that its             *)
(* disappearance means that the daemon is gone (startDaemon.ts:807-810).            *)
PidIsServed ==
    misjudged = {} /\ ~evicted =>
        \A d \in Cli :
            /\ daemon[d] = "serving" => path["pid"] = [by |-> d, written |-> TRUE]
            /\ daemon[d] \in {"serving", "unpid", "unsocket", "closing"}
               /\ path["pid"] # Absent /\ Holder("pid") = d
               => path["socket"] # Absent /\ Holder("socket") = d

(* A command that found the socket is answered, when no daemon stopped and nothing  *)
(* crashed or was judged dead: the socket is there only once the daemon listens     *)
(* (DaemonClient.ts:170-204).                                                       *)
FoundSocketAnswers == stops = 0 /\ crashes = 0 /\ misjudged = {} => refused = {}

(* What the files promise is kept: behind the PID file and the socket a daemon      *)
(* listens (DaemonClient.ts:109-125).                                               *)
Reachable == PidIsServed /\ FoundSocketAnswers

(* A daemon that was started brings one up: itself, or the one it lost to, whatever *)
(* files earlier daemons left, unless a daemon is stopped, killed or misjudged      *)
(* meanwhile (startDaemon.ts:77-117, DaemonServer.ts:103-111).                      *)
Disturbed == stops > 0 \/ misjudged # {} \/ \E d \in Cli : daemon[d] = "killed"
DaemonComesUp == \A d \in Cli : daemon[d] = "open" ~> Serving # {} \/ Disturbed

(* startDaemon.ts:84: a daemon does not start when another is genuinely running, so *)
(* that commands given together start one (tests/integration/startup-lock.test.ts). *)
AtMostOneDaemon == Cardinality(Serving) <= 1
=============================================================================
