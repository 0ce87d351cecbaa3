--------------------------- MODULE DaemonHandover ---------------------------
(***************************************************************************)
(* How a daemon stops and what takes over from it: the kill request, the   *)
(* graceful shutdown, crash recovery, `orkify kill` and `orkify            *)
(* daemon-reload`, and the MCP server a daemon may run.                    *)
(*                                                                         *)
(* A daemon is one process.  A shutdown is a coroutine that gives way at   *)
(* every await, so requests, timers, signals and errors come in between;   *)
(* whoever triggers a second one ends the process at once.  Starting a     *)
(* daemon (locks, races: module DaemonStartup) is one step here.           *)
(*                                                                         *)
(* The snapshot outlives the daemons: `orkify snap` writes it by way of a  *)
(* temporary file, `orkify restore` starts what it names.  A file is the   *)
(* command that created it, so that two may write to one.                  *)
(***************************************************************************)
EXTENDS Integers, FiniteSets

CONSTANTS Names,       \* processes
          Opts,        \* what MCP_START may be asked for
          None,
          Clients,     \* command line processes and recovery processes, each used once
          MaxDaemons,  \* bound on daemon processes
          MaxAsks,     \* bound on requests of other clients
          MaxSetbacks  \* bound on crashes, signals and deadlines that pass

ASSUME HandoverAssumption ==
    /\ Opts \subseteq [transport : {"simple", "advanced"}, port : Nat]
    /\ None \notin Opts \cup Clients \cup Nat
    /\ MaxDaemons \in Nat \ {0} /\ {MaxAsks, MaxSetbacks} \subseteq Nat

VARIABLES daemon,   \* of each daemon process its state
          pidFile,  \* the daemon the PID file names, or None
          socket,   \* the daemon that listens on the socket path, or None
          kids,     \* the running processes: <<daemon, name>>
          client,   \* of each command its state
          snapshot, tmp,  \* the files at the two paths: who created them, or None
          data,     \* what each file holds
          asks, setbacks,
          mixed,    \* history: two saves have been under way at once
          overtaken,\* history: daemons whose shutdown a second one cut short, or that
                    \* started a process after they had told theirs to stop
          evicted   \* history: daemons whose socket an older one removed as it closed

saves == <<snapshot, tmp, data, mixed>>
vars == <<daemon, pidFile, socket, kids, client, saves, asks, setbacks, overtaken, evicted>>

Daemons == 1..MaxDaemons

Unborn == [phase |-> "unborn", stops |-> 0, forced |-> FALSE, taken |-> {}, mcp |-> None,
           server |-> None, key |-> FALSE, guard |-> FALSE, skip |-> FALSE]
Idle   == [pc |-> "idle", kind |-> "none", old |-> None, conn |-> None, had |-> {},
           mcp |-> None, key |-> FALSE, late |-> FALSE]

Part == [whole |-> FALSE, had |-> {}, mcp |-> None]

\* The first daemon may have been started with a key.
Init ==
    /\ \E key \in BOOLEAN :
          daemon = [d \in Daemons |-> IF d = 1 THEN [Unborn EXCEPT !.phase = "up", !.key = key]
                                               ELSE Unborn]
    /\ pidFile = 1 /\ socket = 1
    /\ kids = {}
    /\ client = [c \in Clients |-> Idle]
    /\ snapshot = None /\ tmp = None /\ data = [c \in Clients |-> Part] /\ mixed = FALSE
    /\ asks = 0 /\ setbacks = 0
    /\ overtaken = {} /\ evicted = {}

Alive(d)     == d \in {e \in Daemons : daemon[e].phase \notin {"unborn", "down"}}
Answers(d)   == d \in {e \in Daemons : daemon[e].phase \in {"up", "mcp", "telemetry", "processes"}}
Running(d)   == {n \in Names : <<d, n>> \in kids}

\* What a daemon lists: a process that is being stopped keeps its name, and is not running.
Known(d)     == Running(d) \cup daemon[d].taken
Configs(d)   == Running(d) \ daemon[d].taken
MayFail      == setbacks < MaxSetbacks /\ setbacks' = setbacks + 1
MayAsk       == asks < MaxAsks /\ asks' = asks + 1
----------------------------------------------------------------------------
(* The end of a daemon. *)

\* cleanup(): whatever files are there.
Cleanup == pidFile' = None /\ socket' = None
KeepFiles == UNCHANGED <<pidFile, socket>>

\* process.exit(), or the end of the process group: the sockets close; the children of
\* a daemon that has not stopped them go on.
Exit(d, rec) ==
    daemon' = [daemon EXCEPT ![d] = [rec EXCEPT !.phase = "down", !.stops = 0,
                                                !.forced = FALSE, !.server = None]]

\* gracefulShutdown() and then process.exit(): a shutdown that is under way already is not
\* waited for.
Shutdown(d, rec) ==
    IF rec.phase = "up"
    THEN /\ daemon' = [daemon EXCEPT ![d] = [rec EXCEPT !.phase = "mcp"]]
         /\ UNCHANGED overtaken
    ELSE /\ Exit(d, rec)
         /\ overtaken' = overtaken \cup {d}

\* The MCP server is shut down, the telemetry sends what it has left, ...
McpDown(d) ==
    /\ daemon[d].phase = "mcp"
    /\ daemon' = [daemon EXCEPT ![d] =
                     IF @.server = None THEN [@ EXCEPT !.phase = "telemetry"]
                     ELSE [@ EXCEPT !.phase = "telemetry", !.server = None, !.mcp = None]]
    /\ UNCHANGED <<pidFile, socket, kids, client, saves, asks, setbacks, overtaken, evicted>>

\* ... and the processes there are now are told to stop.
TelemetryDown(d) ==
    /\ daemon[d].phase = "telemetry"
    /\ daemon' = [daemon EXCEPT ![d].phase = "processes", ![d].taken = Running(d)]
    /\ UNCHANGED <<pidFile, socket, kids, client, saves, asks, setbacks, overtaken, evicted>>

ProcessStops(d, n) ==
    /\ daemon[d].phase = "processes"
    /\ n \in daemon[d].taken /\ <<d, n>> \in kids
    /\ kids' = kids \ {<<d, n>>}
    /\ UNCHANGED <<daemon, pidFile, socket, client, saves, asks, setbacks, overtaken, evicted>>

StoppedAnyway(d) == TRUE
Stopped(d) == daemon[d].taken \cap Running(d) = {}

\* finally: the files first, then server.stop() closes the connections; neither after crash
\* recovery has taken the files away.
CleansAlways(d) == TRUE
Cleans(d) == ~daemon[d].skip

Finish(d) ==
    /\ daemon[d].phase = "processes"
    /\ Stopped(d)
    /\ IF Cleans(d)
       THEN Cleanup /\ daemon' = [daemon EXCEPT ![d].phase = "closing"]
       ELSE KeepFiles /\ Exit(d, daemon[d])
    /\ UNCHANGED <<kids, client, saves, asks, setbacks, overtaken, evicted>>

\* When its last connection has ended the callback removes the socket path once more, which
\* may be a successor's by now.
Close(d) ==
    /\ daemon[d].phase = "closing"
    /\ Exit(d, daemon[d])
    /\ socket' = None
    /\ evicted' = evicted \cup ({socket} \ {None})
    /\ UNCHANGED <<pidFile, kids, client, saves, asks, setbacks, overtaken>>

\* The timers a kill request leaves, 100 ms after it was answered.
StopTimer(d) ==
    /\ Alive(d) /\ daemon[d].stops > 0
    /\ Shutdown(d, [daemon[d] EXCEPT !.stops = @ - 1])
    /\ UNCHANGED <<pidFile, socket, kids, client, saves, asks, setbacks, evicted>>

ForceTimer(d) ==
    /\ Alive(d) /\ daemon[d].forced
    /\ Cleanup
    /\ Exit(d, daemon[d])
    /\ kids' = {k \in kids : k[1] # d}
    /\ overtaken' = overtaken \cup (IF daemon[d].phase = "up" THEN {} ELSE {d})
    /\ UNCHANGED <<client, saves, asks, setbacks, evicted>>

\* SIGTERM or SIGINT.
Signal(d) ==
    /\ Alive(d) /\ MayFail
    /\ Shutdown(d, daemon[d])
    /\ UNCHANGED <<pidFile, socket, kids, client, saves, asks, evicted>>

\* An error that is not caught.  The recovery process starts before the shutdown does,
\* unless this daemon was itself started by one a moment ago, or has nothing to recover.
Recovers(d) == ~daemon[d].guard /\ (Configs(d) # {} \/ daemon[d].mcp # None)

Crash(d) ==
    /\ Alive(d) /\ MayFail
    /\ IF Recovers(d)
       THEN \E c \in Clients :
               /\ client[c].pc = "idle"
               /\ client' = [client EXCEPT ![c] =
                     [Idle EXCEPT !.kind = "recovery", !.pc = "dead", !.old = d,
                                  !.had = Configs(d), !.mcp = daemon[d].mcp,
                                  !.key = daemon[d].key]]
               /\ Cleanup
               /\ Shutdown(d, [daemon[d] EXCEPT !.skip = TRUE])
       ELSE Shutdown(d, daemon[d]) /\ KeepFiles /\ UNCHANGED client
    /\ UNCHANGED <<kids, saves, asks, evicted>>

\* A daemon started by crash recovery that has run for a minute.
Stable(d) ==
    /\ Alive(d) /\ daemon[d].guard
    /\ daemon' = [daemon EXCEPT ![d].guard = FALSE]
    /\ UNCHANGED <<pidFile, socket, kids, client, saves, asks, setbacks, overtaken, evicted>>
----------------------------------------------------------------------------
(* Requests of other clients. *)

Change(d, rec) ==
    /\ daemon' = [daemon EXCEPT ![d] = rec]
    /\ UNCHANGED <<pidFile, socket, kids, client, saves, setbacks, overtaken, evicted>>

Overtakes(d) == overtaken' = overtaken \cup {e \in {d} : daemon[e].phase = "processes"}

\* UP.  A daemon answers while it shuts down.
Up(d, n) ==
    /\ Answers(d) /\ MayAsk
    /\ n \notin Known(d)
    /\ kids' = kids \cup {<<d, n>>}
    /\ Overtakes(d)
    /\ UNCHANGED <<daemon, pidFile, socket, client, saves, setbacks, evicted>>

\* CONFIGURE_TELEMETRY, from a command with a key: advanced servers may then be configured.
Configure(d) ==
    /\ Answers(d) /\ MayAsk
    /\ ~daemon[d].key
    /\ Change(d, [daemon[d] EXCEPT !.key = TRUE])

PortFree(d, o) == \A e \in Daemons \ {d} :
                     Alive(e) /\ daemon[e].server # None => daemon[e].server.port # o.port

\* MCP_START, when no other is being worked on.  An advanced server is only noted, whatever
\* runs; a simple one replaces what runs, which comes back when the new one cannot listen.
\* Opts has no two options for one port and transport: the same options again do nothing.
McpStarted(d, o) ==
    LET rec == daemon[d]
    IN IF o.transport = "advanced" THEN [rec EXCEPT !.mcp = o]
       ELSE IF rec.server # None /\ rec.mcp = o THEN rec
       ELSE IF PortFree(d, o) THEN [rec EXCEPT !.mcp = o, !.server = o]
       ELSE rec

McpStart(d, o) ==
    /\ Answers(d) /\ MayAsk
    /\ Change(d, McpStarted(d, o))

McpStop(d) ==
    /\ Answers(d)
    /\ daemon[d].server # None
    /\ Change(d, [daemon[d] EXCEPT !.mcp = None, !.server = None])
    /\ UNCHANGED asks

\* The remote configuration enables or disables an advanced server.
ConfigUpdated(d, enabled) ==
    LET rec == daemon[d]
    IN /\ Answers(d) /\ rec.key
       /\ rec.mcp # None /\ rec.mcp.transport = "advanced"
       /\ IF enabled THEN rec.server = None /\ PortFree(d, rec.mcp) ELSE rec.server # None
       /\ Change(d, [rec EXCEPT !.server = IF enabled THEN rec.mcp ELSE None])
       /\ UNCHANGED asks
----------------------------------------------------------------------------
(* The commands: DaemonClient, kill, daemon-reload and crash-recovery. *)

\* connect(): the daemon that listens, or a new one when there is none.
Found == Alive(pidFile) /\ Answers(socket)

CanStart == ~Alive(pidFile)

\* A request to d that brings no answer.  To kill, a closed connection is the end it asked
\* for; daemon-reload ignores it and goes on, with nothing to restore.
Unheard(c, d) ==
    CASE client[c].pc = "connected" /\ client[c].kind \in {"kill", "force"} ->
             [client[c] EXCEPT !.pc = "done", !.old = d]
      [] client[c].kind = "reload" /\ client[c].old = None ->
             [client[c] EXCEPT !.pc = "files", !.old = d]
      [] OTHER -> [client[c] EXCEPT !.pc = "failed"]

Started(d, c) == [Unborn EXCEPT !.phase = "up", !.key = client[c].key,
                                !.guard = client[c].kind = "recovery"]

\* A recovery process has the key in its environment and sends it to a daemon it finds;
\* daemon-reload has it for a daemon it starts.
Connect(c) ==
    \/ /\ Found
       /\ daemon' = IF client[c].kind = "recovery" /\ client[c].key
                    THEN [daemon EXCEPT ![socket].key = TRUE] ELSE daemon
       /\ client' = [client EXCEPT ![c].conn = socket, ![c].pc = "connected"]
       /\ UNCHANGED <<pidFile, socket>>
    \/ /\ ~Found /\ CanStart
       /\ \E d \in Daemons :
             /\ daemon[d] = Unborn
             /\ \A e \in Daemons : daemon[e] = Unborn => d <= e
             /\ daemon' = [daemon EXCEPT ![d] = Started(d, c)]
             /\ pidFile' = d /\ socket' = d
             /\ client' = [client EXCEPT ![c].conn = d, ![c].pc = "connected"]
    \/ /\ ~Found /\ ~CanStart
       /\ client' = [client EXCEPT ![c] = Unheard(c, pidFile)]
       /\ UNCHANGED <<daemon, pidFile, socket>>

Kinds == {"kill", "force", "reload", "snap", "restore"}

Begin(c, kind) ==
    /\ client[c].pc = "idle"
    /\ client' = [client EXCEPT ![c] = [Idle EXCEPT !.kind = kind, !.pc = "connect"]]
    /\ UNCHANGED <<daemon, pidFile, socket, kids, saves, asks, setbacks, overtaken, evicted>>

ClientConnects(c) ==
    /\ client[c].pc = "connect"
    /\ Connect(c)
    /\ UNCHANGED <<kids, saves, asks, setbacks, overtaken, evicted>>

\* The connection is closed before the answer.
Dropped(c) ==
    /\ client[c].pc = "connected" /\ ~Answers(client[c].conn)
    /\ client' = [client EXCEPT ![c] = Unheard(c, client[c].conn)]
    /\ UNCHANGED <<daemon, pidFile, socket, kids, saves, asks, setbacks, overtaken, evicted>>

\* KILL_DAEMON: the answer says what runs; the shutdown comes 100 ms later.
KillAnswered(c) ==
    LET d == client[c].conn
    IN /\ client[c].pc = "connected" /\ client[c].old = None
       /\ client[c].kind \in {"kill", "force", "reload"}
       /\ Answers(d)
       /\ daemon' = IF client[c].kind = "force" THEN [daemon EXCEPT ![d].forced = TRUE]
                    ELSE [daemon EXCEPT ![d].stops = @ + 1]
       /\ client' = [client EXCEPT ![c].old = d, ![c].had = Configs(d),
                        ![c].mcp = daemon[d].mcp, ![c].key = daemon[d].key,
                        ![c].pc = IF client[c].kind = "reload" THEN "files" ELSE "closed"]
       /\ UNCHANGED <<pidFile, socket, kids, saves, asks, setbacks, overtaken, evicted>>

\* waitForClose(), in kill; the timeout after ten seconds is an error.
KillEnds(c) ==
    /\ client[c].pc = "closed"
    /\ \/ /\ daemon[client[c].old].phase \in {"closing", "down"}
          /\ client' = [client EXCEPT ![c].pc = "done"]
          /\ UNCHANGED setbacks
       \/ /\ MayFail
          /\ client' = [client EXCEPT ![c].pc = "failed"]
    /\ UNCHANGED <<daemon, pidFile, socket, kids, saves, asks, overtaken, evicted>>

\* A recovery process waits for the old daemon's death, then like daemon-reload for its
\* PID file to go, ten seconds each at most.
WaitIsOverAtOnce(c) == TRUE
WaitIsOver(c) == IF client[c].pc = "dead" THEN ~Alive(client[c].old) ELSE pidFile = None

Waited(c) ==
    /\ client[c].pc \in {"dead", "files"}
    /\ LET next == IF client[c].pc = "dead" THEN "files" ELSE "connect"
       IN \/ /\ WaitIsOver(c)
             /\ client' = [client EXCEPT ![c].pc = next]
             /\ UNCHANGED setbacks
          \/ /\ ~WaitIsOver(c) /\ MayFail
             /\ client' = [client EXCEPT ![c].pc = next, ![c].late = TRUE]
    /\ UNCHANGED <<daemon, pidFile, socket, kids, saves, asks, overtaken, evicted>>

\* RESTORE_CONFIGS: a name that is there already stays as it is.
RestoreAnswered(c) ==
    LET d == client[c].conn
    IN /\ client[c].pc = "connected" /\ client[c].old # None
       /\ Answers(d)
       /\ kids' = kids \cup {<<d, n>> : n \in client[c].had \ Known(d)}
       /\ Overtakes(d)
       /\ client' = [client EXCEPT ![c].pc = IF client[c].mcp = None THEN "done" ELSE "mcp"]
       /\ UNCHANGED <<daemon, pidFile, socket, saves, asks, setbacks, evicted>>

\* MCP_START on the same connection; a failure is only reported.
McpRestored(c) ==
    LET d == client[c].conn
    IN /\ client[c].pc = "mcp"
       /\ daemon' = IF Answers(d) THEN [daemon EXCEPT ![d] = McpStarted(d, client[c].mcp)]
                    ELSE daemon
       /\ client' = [client EXCEPT ![c].pc = "done"]
       /\ UNCHANGED <<pidFile, socket, kids, saves, asks, setbacks, overtaken, evicted>>

\* SNAP: what runs is taken now, and written to the temporary file, which is emptied first
\* if it is there ...
Opened(c) == IF tmp = None THEN c ELSE tmp

SnapBegins(c) ==
    LET d == client[c].conn
    IN /\ client[c].pc = "connected" /\ client[c].kind = "snap"
       /\ Answers(d)
       /\ tmp' = Opened(c)
       /\ data' = [data EXCEPT ![Opened(c)] = Part]
       /\ client' = [client EXCEPT ![c].pc = "writing", ![c].old = Opened(c),
                        ![c].had = Configs(d), ![c].mcp = daemon[d].mcp]
       /\ mixed' = (mixed \/ \E e \in Clients : client[e].pc \in {"writing", "renaming"})
       /\ UNCHANGED <<daemon, pidFile, socket, kids, snapshot, asks, setbacks, overtaken, evicted>>

\* ... which then takes the place of the snapshot.
SnapWritten(c) ==
    /\ client[c].pc = "writing" /\ Alive(client[c].conn)
    /\ data' = [data EXCEPT ![client[c].old] =
                    [whole |-> TRUE, had |-> client[c].had, mcp |-> client[c].mcp]]
    /\ client' = [client EXCEPT ![c].pc = "renaming"]
    /\ UNCHANGED <<daemon, pidFile, socket, kids, snapshot, tmp, mixed, asks, setbacks, overtaken, evicted>>

SnapRenamed(c) ==
    /\ client[c].pc = "renaming" /\ Alive(client[c].conn)
    /\ IF tmp = None
       THEN client' = [client EXCEPT ![c].pc = "failed"] /\ UNCHANGED <<snapshot, tmp>>
       ELSE /\ client' = [client EXCEPT ![c].pc = "done"]
            /\ snapshot' = tmp /\ tmp' = None
    /\ UNCHANGED <<daemon, pidFile, socket, kids, data, mixed, asks, setbacks, overtaken, evicted>>

\* The daemon dies before the snapshot is in place.
SnapLost(c) ==
    /\ client[c].pc \in {"writing", "renaming"} /\ ~Alive(client[c].conn)
    /\ client' = [client EXCEPT ![c].pc = "failed"]
    /\ UNCHANGED <<daemon, pidFile, socket, kids, saves, asks, setbacks, overtaken, evicted>>

\* RESTORE: what the snapshot names is started, and an MCP server, of whichever kind, with
\* the options it holds.
Restored(d, state) ==
    LET rec == daemon[d]
    IN IF state.mcp # None /\ rec.server = None /\ PortFree(d, state.mcp)
       THEN [rec EXCEPT !.mcp = state.mcp, !.server = state.mcp] ELSE rec

Restore(c) ==
    LET d == client[c].conn
        state == IF snapshot = None THEN Part ELSE data[snapshot]
    IN /\ client[c].pc = "connected" /\ client[c].kind = "restore"
       /\ Answers(d)
       /\ kids' = kids \cup {<<d, n>> : n \in state.had \ Known(d)}
       /\ daemon' = [daemon EXCEPT ![d] = Restored(d, state)]
       /\ Overtakes(d)
       /\ client' = [client EXCEPT ![c].pc = "done"]
       /\ UNCHANGED <<pidFile, socket, saves, asks, setbacks, evicted>>
----------------------------------------------------------------------------
DaemonStep(d) ==
    \/ McpDown(d) \/ TelemetryDown(d) \/ (\E n \in Names : ProcessStops(d, n))
    \/ Finish(d) \/ Close(d)
    \/ StopTimer(d) \/ ForceTimer(d)

ClientStep(c) ==
    \/ ClientConnects(c) \/ Dropped(c) \/ KillAnswered(c) \/ KillEnds(c)
    \/ Waited(c) \/ RestoreAnswered(c) \/ McpRestored(c)
    \/ SnapBegins(c) \/ SnapWritten(c) \/ SnapRenamed(c) \/ SnapLost(c) \/ Restore(c)

Next ==
    \/ \E d \in Daemons :
          \/ DaemonStep(d) \/ Signal(d) \/ Crash(d) \/ Stable(d)
          \/ \E n \in Names : Up(d, n)
          \/ Configure(d) \/ McpStop(d)
          \/ \E o \in Opts : McpStart(d, o)
          \/ \E enabled \in BOOLEAN : ConfigUpdated(d, enabled)
    \/ \E c \in Clients : ClientStep(c) \/ \E kind \in Kinds : Begin(c, kind)

Spec == Init /\ [][Next]_vars
----------------------------------------------------------------------------
\* A restore is answered by a daemon that took over from the old one, which runs none of
\* the processes any more (restoreDaemon.ts:7); excepted are a wait of ten seconds that was
\* too short, a daemon whose shutdown was overtaken, and for daemon-reload a daemon that crashes
\* meanwhile, whose files are gone before it is.
Handover ==
    [][\A c \in Clients :
          /\ client[c].pc = "connected" /\ client'[c].pc \in {"mcp", "done"}
          /\ ~client[c].late /\ overtaken = {}
          /\ client[c].kind = "reload" => ~daemon[client[c].old].skip
          => /\ client[c].conn # client[c].old
             /\ \A n \in client[c].had : <<client[c].old, n>> \notin kids']_vars

\* `orkify kill` reports the end of a daemon that has stopped what it was running and whose
\* files are gone (kill.ts:15-22, 30-32); excepted is a daemon whose shutdown was overtaken.
KilledIsGone ==
    \A c \in Clients :
        LET d == client[c].old
        IN client[c].kind \in {"kill", "force"} /\ client[c].pc = "done" /\ d \notin overtaken =>
              /\ daemon[d].taken \cap Running(d) = {}
              /\ pidFile # d /\ socket # d

\* A daemon that is up can be found: no other daemon that ends takes its files away
\* (startDaemon.ts:803-808); excepted are a daemon whose shutdown was overtaken, and the socket,
\* never the PID file, of one whose predecessor was still closing connections.
Findable ==
    overtaken = {} => \A d \in Daemons :
        daemon[d].phase = "up" => pidFile = d /\ (socket = d \/ d \in evicted)

\* The snapshot is whole whenever a daemon may die or a restore read it (StateStore.ts:31-32);
\* excepted are two saves at once, which write to one temporary file.
SnapshotWhole == ~mixed /\ snapshot # None => data[snapshot].whole

\* The three files of the daemons can be relied on.
FilesSound == Findable /\ SnapshotWhole
=============================================================================
