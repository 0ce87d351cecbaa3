--------------------------- MODULE ManagedCluster ---------------------------
(***************************************************************************)
(* ManagedProcess in cluster mode: what the daemon knows of the workers of *)
(* an app, and the commands it sends to the primary.  Both directions are  *)
(* FIFO channels: primary.out up to the daemon, commands down.             *)
(***************************************************************************)
EXTENDS ClusterPrimary

CONSTANTS Absent  \* "no record for this slot"

VARIABLES commands,         \* to the primary
          clusterWorkers,   \* the daemon's record of each slot
          slotCrashes,      \* per slot, exits counted as crashes
          launchTimers,     \* the slots whose launch is timed
          isShuttingDown, isReloading, memoryRestarting,
          gaveUp            \* history: a reload outlived the daemon's patience

mirror == <<clusterWorkers, slotCrashes, launchTimers>>
modes == <<isShuttingDown, isReloading, memoryRestarting, gaveUp>>
vars == <<primary, given, history, commands, mirror, modes>>
local == <<given, commands, mirror, modes>>

\* errored: the launch took too long
Record == [pid : Nat, ready : BOOLEAN, stale : BOOLEAN, errored : BOOLEAN]

Init ==
    /\ PrimaryInit
    /\ commands = <<>>
    /\ clusterWorkers = [s \in Slot |-> Absent]
    /\ slotCrashes = [s \in Slot |-> 0]
    /\ launchTimers = {}
    /\ isShuttingDown = FALSE
    /\ isReloading = FALSE
    /\ memoryRestarting = {}
    /\ gaveUp = FALSE
----------------------------------------------------------------------------
(* The daemon handles the primary's next message. *)

\* updateWorkerState() makes the record if there is none.
Known(s) == IF clusterWorkers[s] = Absent THEN [pid |-> 0, ready |-> FALSE, stale |-> FALSE, errored |-> FALSE]
                                          ELSE clusterWorkers[s]

HearsOnline(m) ==
    /\ clusterWorkers' = [clusterWorkers EXCEPT ![m.slot] =
                            [Known(m.slot) EXCEPT !.pid = m.pid, !.ready = FALSE, !.errored = FALSE]]
    /\ launchTimers' = launchTimers \cup {m.slot}
    /\ UNCHANGED <<slotCrashes, modes>>

\* worker:listening and worker:ready
HearsListening(m) ==
    /\ clusterWorkers' = [clusterWorkers EXCEPT ![m.slot] =
                            [Known(m.slot) EXCEPT !.ready = TRUE, !.errored = FALSE]]
    /\ launchTimers' = launchTimers \ {m.slot}
    /\ UNCHANGED <<slotCrashes, modes>>

DeliberateUnlessReloading(s) == isShuttingDown \/ s \in memoryRestarting
Deliberate(s) == isShuttingDown \/ isReloading \/ s \in memoryRestarting

Tracks(s, pid) == clusterWorkers[s] # Absent /\ clusterWorkers[s].pid = pid

\* The exit of the worker on record counts, that of another leaves the record alone.
HearsExit(m) ==
    /\ launchTimers' = launchTimers \ {m.slot}
    /\ IF Tracks(m.slot, m.pid)
       THEN /\ slotCrashes' = [slotCrashes EXCEPT ![m.slot] = IF Deliberate(m.slot) THEN @ ELSE @ + 1]
            /\ memoryRestarting' = memoryRestarting \ {m.slot}
            /\ clusterWorkers' = [clusterWorkers EXCEPT ![m.slot] = Absent]
            /\ UNCHANGED <<isShuttingDown, isReloading, gaveUp>>
       ELSE UNCHANGED <<clusterWorkers, slotCrashes, modes>>

\* worker:metrics: a worker that sends them is up after all.
HearsMetrics(m) ==
    /\ clusterWorkers' = IF clusterWorkers[m.slot] # Absent /\ clusterWorkers[m.slot].errored
                         THEN [clusterWorkers EXCEPT ![m.slot].errored = FALSE, ![m.slot].ready = TRUE]
                         ELSE clusterWorkers
    /\ UNCHANGED <<slotCrashes, launchTimers, modes>>

\* reload:complete: the stale flags, and the end of every reload() that waits.
MarkedStale(m) == {s \in Slot : \E n \in DOMAIN m.results : m.results[n] = [slot |-> s, ok |-> FALSE]}
AllSucceeded(m) == m.results # <<>> /\ MarkedStale(m) = {}

EndsReloadOnSuccess(m) == isReloading' = (isReloading /\ ~AllSucceeded(m))
EndsReload(m) == isReloading' = FALSE

HearsComplete(m) ==
    /\ clusterWorkers' =
         [s \in Slot |-> IF clusterWorkers[s] = Absent THEN Absent
                         ELSE [clusterWorkers[s] EXCEPT
                                 !.stale = ~AllSucceeded(m) /\ (@ \/ s \in MarkedStale(m))]]
    /\ EndsReload(m)
    /\ UNCHANGED <<slotCrashes, launchTimers, isShuttingDown, memoryRestarting, gaveUp>>

HearsFailed(m) ==
    /\ memoryRestarting' = memoryRestarting \ {m.slot}
    /\ UNCHANGED <<mirror, isShuttingDown, isReloading, gaveUp>>

Deliver ==
    /\ primary.out # <<>>
    /\ primary' = [primary EXCEPT !.out = Tail(@)]
    /\ LET m == Head(primary.out)
       IN \/ m.type = "online" /\ HearsOnline(m)
          \/ m.type = "listening" /\ HearsListening(m)
          \/ m.type = "exit" /\ HearsExit(m)
          \/ m.type = "metrics" /\ HearsMetrics(m)
          \/ m.type = "complete" /\ HearsComplete(m)
          \/ m.type = "failed" /\ HearsFailed(m)
    /\ UNCHANGED <<given, history, commands>>

\* The 'exit' of the primary.
PrimaryExit ==
    /\ primary.exited
    /\ clusterWorkers' = [s \in Slot |-> Absent]
    /\ UNCHANGED <<primary, given, history, commands, slotCrashes, launchTimers, modes>>

\* The launch timer of a slot.
LaunchTimeout(s) ==
    /\ s \in launchTimers
    /\ launchTimers' = launchTimers \ {s}
    /\ clusterWorkers' = IF clusterWorkers[s] # Absent /\ ~clusterWorkers[s].ready
                         THEN [clusterWorkers EXCEPT ![s].errored = TRUE] ELSE clusterWorkers
    /\ UNCHANGED <<primary, given, history, commands, slotCrashes, modes>>

\* A worker, be it a candidate, sends metrics by way of the primary.  Only those that may
\* tell the daemon something: one message at a time, of a slot not known to be ready.
SendMetrics(w) ==
    LET s == primary.workers[w].slot
    IN /\ primary.workers[w].life = "online" /\ ~primary.workers[w].killed /\ ~primary.exited
       /\ clusterWorkers[s] # Absent /\ ~clusterWorkers[s].ready
       /\ \A n \in DOMAIN primary.out : primary.out[n].type # "metrics"
       /\ primary' = Send(primary, [type |-> "metrics", slot |-> s])
       /\ UNCHANGED <<given, history, commands, mirror, modes>>
----------------------------------------------------------------------------
(* The daemon's commands. *)

Command(c) == commands' = Append(commands, c)

SendReload ==
    /\ ~primary.exited
    /\ ReloadCommand
    /\ isReloading' = TRUE
    /\ Command([type |-> "reload"])
    /\ UNCHANGED <<primary, history, mirror, isShuttingDown, memoryRestarting, gaveUp>>

\* reload()'s own timer: the daemon stops waiting, the primary does not stop reloading.
ReloadTimeout ==
    /\ isReloading
    /\ isReloading' = FALSE
    /\ gaveUp' = TRUE
    /\ setbacks < MaxSetbacks
    /\ setbacks' = setbacks + 1
    /\ UNCHANGED <<primary, given, crashed, crashedInReload, commands, mirror, isShuttingDown, memoryRestarting>>

\* checkMemoryThreshold() finds the worker on record over the limit.
SendRestart(s) ==
    /\ ~isShuttingDown /\ ~isReloading
    /\ clusterWorkers[s] # Absent
    /\ RestartCommand
    /\ memoryRestarting' = memoryRestarting \cup {s}
    /\ Command([type |-> "restart-worker", slot |-> s])
    /\ UNCHANGED <<primary, history, mirror, isShuttingDown, isReloading, gaveUp>>

\* stop()
Stop ==
    /\ MayStop
    /\ ~isShuttingDown
    /\ isShuttingDown' = TRUE
    /\ launchTimers' = {}
    /\ Command([type |-> "shutdown"])
    /\ UNCHANGED <<primary, given, history, clusterWorkers, slotCrashes, isReloading,
                   memoryRestarting, gaveUp>>

\* getInfo(), getStatus(): what the daemon's list shows of a worker, and of the app.
WorkerStatus(r) == IF r.errored THEN "errored" ELSE IF r.ready THEN "online" ELSE "launching"

Status ==
    LET shown == {WorkerStatus(clusterWorkers[s]) : s \in {t \in Slot : clusterWorkers[t] # Absent}}
    IN CASE isShuttingDown -> "stopping"
         [] shown = {"online"} -> "online"
         [] ~isShuttingDown /\ "errored" \in shown -> "errored"
         [] OTHER -> "launching"

TakeCommand ==
    /\ commands # <<>>
    /\ commands' = Tail(commands)
    /\ LET c == Head(commands)
       IN \/ c.type = "reload" /\ TakesReload
          \/ c.type = "restart-worker" /\ TakesRestart(c.slot)
          \/ c.type = "shutdown" /\ TakesShutdown
    /\ UNCHANGED <<given, mirror, modes>>
----------------------------------------------------------------------------
Next ==
    \/ PrimaryStep /\ UNCHANGED local
    \/ Deliver \/ PrimaryExit
    \/ \E s \in Slot : LaunchTimeout(s)
    \/ \E w \in Mapped(primary) : SendMetrics(w)
    \/ SendReload \/ ReloadTimeout \/ Stop
    \/ \E s \in Slot : SendRestart(s)
    \/ TakeCommand

Spec == Init /\ [][Next]_vars
----------------------------------------------------------------------------
(* Properties. *)

\* The types of the daemon's side, with those of the primary's.
TypeOK ==
    /\ PrimaryTypeOK
    /\ clusterWorkers \in [Slot -> Record \cup {Absent}]
    /\ slotCrashes \in [Slot -> Nat]
    /\ memoryRestarting \cup launchTimers \subseteq Slot
    /\ {isShuttingDown, isReloading, gaveUp} \subseteq BOOLEAN

\* ManagedProcess.ts:478 counts an exit as a crash "if not a deliberate shutdown, reload,
\* or memory restart": no slot is charged with more crashes than its workers had, unless
\* the daemon gave up waiting for a reload or had a second replacement in hand.
NoFalseCrash == ~gaveUp /\ reloads + memoryRestarts <= 1 => \A s \in Slot : slotCrashes[s] <= crashed[s]

Quiet == /\ primary.out = <<>> /\ commands = <<>>
         /\ ~primary.isReloading /\ primary.restarts = {} /\ ~primary.isShuttingDown
         /\ \A w \in Mapped(primary) :
              LET v == primary.workers[w] IN v.life = "online" /\ ~v.left /\ ~v.killed

\* When nothing is under way or under discussion, the daemon's record of a slot with one
\* worker is that worker's: the suppressed and the announced events add up to the truth
\* (unless a worker crashed during a reload, or there was a crash beside several requests,
\* when they may not).  The list shows online what is ready in every slot, and launching
\* only what is still being timed (ManagedProcess.ts:1093-1120, 1162-1176).
MirrorAccurate ==
    Quiet /\ ~crashedInReload /\ (reloads + memoryRestarts <= 1 \/ Crashes = 0) =>
        /\ \A s \in Slot, w \in Ids(primary) :
              InSlot(primary, s) = {w} => clusterWorkers[s] # Absent /\ clusterWorkers[s].pid = w
        /\ (\A s \in Slot : Cardinality(InSlot(primary, s)) = 1) /\ ~isShuttingDown =>
              /\ (\A w \in Mapped(primary) : primary.workers[w].ready) => Status = "online"
              /\ Status = "launching" => launchTimers # {}

\* ClusterWrapper.ts:380 says that the daemon is told "of the new worker": the worker on
\* record is one of the slot's, when nothing is under way.
RecordLives ==
    Quiet /\ ~crashedInReload =>
        \A s \in Slot : clusterWorkers[s] # Absent => clusterWorkers[s].pid \in InSlot(primary, s)

\* No reload() waits for nothing: as long as the daemon waits, a command, the primary's own
\* reload or an answer is on its way, or the primary is gone.
ReloadAnswered ==
    isReloading =>
        \/ primary.isReloading \/ primary.exited
        \/ \E n \in DOMAIN commands : commands[n].type = "reload"
        \/ \E n \in DOMAIN primary.out : primary.out[n].type = "complete"
=============================================================================
