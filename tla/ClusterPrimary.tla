--------------------------- MODULE ClusterPrimary ---------------------------
(***************************************************************************)
(* The primary process of a cluster-mode app: ClusterWrapper.              *)
(*                                                                         *)
(* It keeps a map of the workers it forked, each in a slot (the worker's   *)
(* ORKIFY_WORKER_ID), respawns a worker that exits, replaces all of them   *)
(* one by one on 'reload' and one of them on 'restart-worker'.  reload()   *)
(* and restartWorker() are coroutines of one event loop: between two       *)
(* awaits they run without interruption, and an exit event runs its        *)
(* handler and the coroutines it wakes in one turn.  A turn can change the *)
(* map several times, so the primary is one record and what a turn does is *)
(* written as operators from record to record.                             *)
(*                                                                         *)
(* The n-th worker forked has index n in workers; it is in the source's    *)
(* map until it is "gone".  A process that has died is not told from one   *)
(* that is about to: nothing here looks at it before its exit event.       *)
(***************************************************************************)
EXTENDS Integers, Sequences, FiniteSets, SequencesExt

CONSTANTS WorkerCount,        \* ORKIFY_WORKERS
          Retries,            \* ORKIFY_RELOAD_RETRIES
          HasParent,          \* process.send exists; else nothing is told of the workers
          MaxReloads,         \* bound on reload commands
          MaxMemoryRestarts,  \* bound on restarts of one worker for its memory
          MaxCommands,        \* bound on both together (a shutdown is given while there is room)
          MaxCrashes,         \* bound on workers that die unasked
          MaxSetbacks,        \* bound on waits for a worker that time out
          MayStop             \* whether the app is ever told to shut down

ASSUME PrimaryAssumption ==
    /\ WorkerCount \in Nat \ {0}
    /\ Retries \in Nat
    /\ HasParent \in BOOLEAN /\ MayStop \in BOOLEAN
    /\ MaxReloads \in Nat /\ MaxMemoryRestarts \in Nat
    /\ MaxCommands \in Nat /\ MaxCrashes \in Nat /\ MaxSetbacks \in Nat

VARIABLES primary,                  \* the state of ClusterWrapper
          reloads, memoryRestarts,  \* commands given so far
          crashed,                  \* history: per slot, workers that died unasked
          crashedInReload,          \* history: one did while reload() ran
          setbacks                  \* history: waits for a worker that timed out

history == <<crashed, crashedInReload, setbacks>>
given == <<reloads, memoryRestarts>>

Slot == 0..WorkerCount - 1
NoReload == [pc |-> "idle"]

Ids(p)        == DOMAIN p.workers
Mapped(p)     == {w \in Ids(p) : p.workers[w].life # "gone"}
InSlot(p, s)  == {w \in Mapped(p) : p.workers[w].slot = s}

\* process.send() to the daemon.
SendAll(p, ms) == IF HasParent THEN [p EXCEPT !.out = @ \o ms] ELSE p
Send(p, m) == SendAll(p, <<m>>)
SendUnless(hidden, p, m) == IF hidden THEN p ELSE Send(p, m)
----------------------------------------------------------------------------
(* Workers come and go. *)

Unready(s) == [slot |-> s, life |-> "forked", ready |-> FALSE, left |-> FALSE, killed |-> FALSE]
Gone(s) == [Unready(s) EXCEPT !.life = "gone"]

\* spawnWorker(slotId)
Spawn(p, s) ==
    [p EXCEPT !.workers = Append(@, Unready(s)), !.freeSlots = @ \ {s}]

Newest(p) == Len(p.workers)

\* A worker forked as a replacement: the daemon hears nothing of it yet.
SpawnCandidate(p, s) ==
    LET q == Spawn(p, s) IN [q EXCEPT !.candidates = @ \cup {Newest(q)}]

\* kill('SIGKILL')
Kill(p, w) == IF w \in Mapped(p) THEN [p EXCEPT !.workers[w].killed = TRUE] ELSE p

\* stopWorker(): disconnect and SIGTERM; the promise is the caller's to await.
Leave(p, w) == IF w \in Mapped(p) THEN [p EXCEPT !.workers[w].left = TRUE] ELSE p

SlotIsFreeAnyway(p, s) == TRUE
SlotIsFree(p, s) == InSlot(p, s) = {}

RespawnDueAlways(p) == ~p.isShuttingDown
RespawnDue(p) == ~p.isShuttingDown /\ ~p.isReloading

\* The 'exit' handler.
Exited(p, w) ==
    LET s == p.workers[w].slot
        unmapped == [p EXCEPT !.workers[w] = Gone(s)]
        freed == [unmapped EXCEPT !.freeSlots = IF SlotIsFree(unmapped, s) THEN @ \cup {s} ELSE @]
        told == SendUnless(w \in p.candidates, freed, [type |-> "exit", slot |-> s, pid |-> w])
        after == [told EXCEPT !.candidates = @ \ {w}]
    IN IF RespawnDue(after) THEN Spawn(after, s) ELSE after
----------------------------------------------------------------------------
(* reload() *)

FinishOnSuccess(p, results) ==
    Send([p EXCEPT !.isReloading = \E n \in DOMAIN results : ~results[n].ok,
                   !.candidates = {}, !.reload = NoReload],
         [type |-> "complete", results |-> results])
Finish(p, results) ==
    Send([p EXCEPT !.isReloading = FALSE, !.candidates = {}, !.reload = NoReload],
         [type |-> "complete", results |-> results])

\* One attempt at replacing r.old: fork a candidate and wait for it.
AttemptStopsOldFirst(p, r) ==
    LET q == Leave(SpawnCandidate(p, r.slot), r.old)
    IN [q EXCEPT !.reload = [r EXCEPT !.pc = "waiting", !.new = Newest(q)]]
Attempt(p, r) ==
    LET q == SpawnCandidate(p, r.slot)
    IN [q EXCEPT !.reload = [r EXCEPT !.pc = "waiting", !.new = Newest(q)]]

\* The map lists its workers in the order they were forked.
First(S) == CHOOSE w \in S : \A v \in S : w <= v

\* The head of the loop over the old workers.
NextSlot(p, queue, results) ==
    IF queue = {} \/ p.isShuttingDown
    THEN Finish(p, results)
    ELSE Attempt(p, [pc |-> "waiting", queue |-> queue \ {First(queue)}, attempt |-> 0,
                     old |-> First(queue), slot |-> p.workers[First(queue)].slot, new |-> 0,
                     results |-> results])

\* The old worker is stopped, or given up on: tell the daemon of the new one, which
\* waitForReady() has seen ready, and go on.
AnnouncementReadyFirst(r) == <<[type |-> "listening", slot |-> r.slot],
                               [type |-> "online", slot |-> r.slot, pid |-> r.new]>>
Announcement(r) ==
    <<[type |-> "online", slot |-> r.slot, pid |-> r.new], [type |-> "listening", slot |-> r.slot]>>

Replaced(p) ==
    LET r == p.reload
    IN NextSlot(SendAll(p, Announcement(r)), r.queue, Append(r.results, [slot |-> r.slot, ok |-> TRUE]))

AttemptsLeft(p) == p.reload.attempt < Retries

\* waitForReady() rejected.
Rejected(p) ==
    LET r == p.reload
        q == Kill(p, r.new)
    IN IF AttemptsLeft(p) /\ ~p.isShuttingDown
       THEN [q EXCEPT !.reload.pc = "backoff", !.reload.attempt = @ + 1]
       ELSE IF p.isShuttingDown
            THEN Finish(q, r.results)
            ELSE Finish(q, Append(r.results, [slot |-> r.slot, ok |-> FALSE]))

Reload(p) ==
    IF p.isReloading THEN p
                     ELSE NextSlot([p EXCEPT !.isReloading = TRUE], Mapped(p), <<>>)
----------------------------------------------------------------------------
(* restartWorker(): the same for one slot, but isReloading stays as it is. *)

RestartWorker(p, s) ==
    IF p.isShuttingDown \/ p.isReloading \/ InSlot(p, s) = {} THEN p
    ELSE LET q == SpawnCandidate(p, s)
         IN [q EXCEPT !.restarts = @ \cup {[pc |-> "waiting", slot |-> s, old |-> First(InSlot(p, s)),
                                            new |-> Newest(q)]}]

RestartMoves(p, r, pc) == [p EXCEPT !.restarts = (@ \ {r}) \cup {[r EXCEPT !.pc = pc]}]

\* The restarts R are done, in the order in which they began: two messages of each.
Announcements(R) ==
    LET order == CHOOSE f \in [1..Cardinality(R) -> R] :
                     \A i, j \in DOMAIN f : i < j => f[i].new < f[j].new
    IN [n \in 1..2 * Cardinality(R) |-> Announcement(order[(n + 1) \div 2])[2 - (n % 2)]]

RestartsDone(p, R) == SendAll([p EXCEPT !.restarts = @ \ R], Announcements(R))

RestartRejected(p, r) ==
    Send([Kill(p, r.new) EXCEPT !.restarts = @ \ {r}, !.candidates = @ \ {r.new}],
         [type |-> "failed", slot |-> r.slot])
----------------------------------------------------------------------------
(* The turns of the event loop. *)

PrimaryInit ==
    /\ primary = [workers |-> [w \in 1..WorkerCount |-> Unready(w - 1)],
                  freeSlots |-> {}, isShuttingDown |-> FALSE, isReloading |-> FALSE,
                  candidates |-> {}, reload |-> NoReload, restarts |-> {}, stopping |-> {},
                  exited |-> FALSE, out |-> <<>>]
    /\ reloads = 0
    /\ memoryRestarts = 0
    /\ crashed = [s \in Slot |-> 0]
    /\ crashedInReload = FALSE
    /\ setbacks = 0

Turn(p) == ~primary.exited /\ primary' = p
ByTheBook == UNCHANGED history

\* A wait times out: any may, and one for a worker that is gone can only.
Setback(p, w) ==
    /\ setbacks < MaxSetbacks \/ w \notin Mapped(p)
    /\ setbacks' = IF setbacks < MaxSetbacks THEN setbacks + 1 ELSE setbacks
    /\ UNCHANGED <<crashed, crashedInReload>>

\* The 'online' event of worker w.  (What a worker wrote before SIGKILL counts as read
\* before it.)
Online(w) ==
    /\ primary.workers[w].life = "forked"
    /\ ~primary.workers[w].killed
    /\ Turn(SendUnless(w \in primary.candidates,
                       [primary EXCEPT !.workers[w].life = "online"],
                       [type |-> "online", slot |-> primary.workers[w].slot, pid |-> w]))
    /\ ByTheBook

BecomesReady(w) ==
    LET v == primary.workers[w] IN v.life = "online" /\ ~v.ready /\ ~v.killed

\* The 'listening' event of an app that binds a port, ...
Listening(w) ==
    /\ BecomesReady(w)
    /\ Turn(SendUnless(w \in primary.candidates,
                       [primary EXCEPT !.workers[w].ready = TRUE],
                       [type |-> "listening", slot |-> primary.workers[w].slot]))
    /\ ByTheBook

\* ... and the 'ready' message of one that does not, which is always passed on.
SignalsReady(w) ==
    /\ BecomesReady(w)
    /\ Turn(Send([primary EXCEPT !.workers[w].ready = TRUE],
                 [type |-> "listening", slot |-> primary.workers[w].slot]))
    /\ ByTheBook

\* The 'exit' event: the handler, then the coroutines that awaited it, each up to its
\* next await.
WakeReload(p, w) == IF p.reload.pc = "stopping" /\ p.reload.old = w THEN Replaced(p) ELSE p

WakeRestarts(p, w) == RestartsDone(p, {r \in p.restarts : r.pc = "stopping" /\ r.old = w})

WakeShutdown(p, w) ==
    [p EXCEPT !.stopping = @ \ {w},
              !.exited = p.isShuttingDown /\ p.stopping \ {w} = {}]

Exit(w) ==
    \E reloadFirst \in IF primary.restarts = {} THEN {TRUE} ELSE BOOLEAN :
        LET p == Exited(primary, w)
        IN Turn(WakeShutdown(IF reloadFirst THEN WakeRestarts(WakeReload(p, w), w)
                                            ELSE WakeReload(WakeRestarts(p, w), w), w))

\* A worker told to stop or killed exits, ...
Terminates(w) ==
    /\ primary.workers[w].life # "gone"
    /\ primary.workers[w].left \/ primary.workers[w].killed
    /\ Exit(w)
    /\ ByTheBook

Crashes == FoldFunction(+, 0, crashed)

\* ... and others may.
Crash(w) ==
    /\ Crashes < MaxCrashes
    /\ primary.workers[w].life # "gone"
    /\ ~primary.workers[w].left /\ ~primary.workers[w].killed
    /\ Exit(w)
    /\ crashed' = [crashed EXCEPT ![primary.workers[w].slot] = @ + 1]
    /\ crashedInReload' = (crashedInReload \/ primary.isReloading)
    /\ UNCHANGED setbacks

\* waitForReady() resolves, after a look at the health URL if there is one.
NewIsReadyUnchecked(p, w) == TRUE
NewIsReady(p, w) == p.workers[w].ready

ReloadReady ==
    /\ primary.reload.pc = "waiting"
    /\ NewIsReady(primary, primary.reload.new)
    /\ Turn([primary EXCEPT !.reload.pc = "settling"])
    /\ ByTheBook

\* It rejects: the 30 s are up (maybe before the poll that would have seen the worker
\* ready), or the health check failed.  By then a live worker's runtime is online.
ReloadRejected ==
    /\ primary.reload.pc = "waiting"
    /\ primary.workers[primary.reload.new].life # "forked"
    /\ Turn(Rejected(primary))
    /\ Setback(primary, primary.reload.new)

ReloadBackoffEnds ==
    /\ primary.reload.pc = "backoff"
    /\ Turn(Attempt(primary, primary.reload))
    /\ ByTheBook

\* 50 ms later the candidate is promoted and the old worker told to stop.
ReloadPromotes ==
    /\ primary.reload.pc = "settling"
    /\ Turn(Leave([primary EXCEPT !.reload.pc = "stopping",
                                  !.candidates = @ \ {primary.reload.new}], primary.reload.old))
    /\ ByTheBook

\* The timer of stopWorker(): the promise does not wait for the exit.
ReloadKillTimeout ==
    /\ primary.reload.pc = "stopping"
    /\ Turn(Replaced(Kill(primary, primary.reload.old)))
    /\ Setback(primary, primary.reload.old)

RestartReady(r) ==
    /\ r.pc = "waiting"
    /\ NewIsReady(primary, r.new)
    /\ Turn(RestartMoves(primary, r, "settling"))
    /\ ByTheBook

RestartFails(r) ==
    /\ r.pc = "waiting"
    /\ primary.workers[r.new].life # "forked"
    /\ Turn(RestartRejected(primary, r))
    /\ Setback(primary, r.new)

RestartPromotes(r) ==
    /\ r.pc = "settling"
    /\ Turn(Leave([RestartMoves(primary, r, "stopping") EXCEPT !.candidates = @ \ {r.new}], r.old))
    /\ ByTheBook

RestartKillTimeout(r) ==
    /\ r.pc = "stopping"
    /\ Turn(RestartsDone(Kill(primary, r.old), {r}))
    /\ Setback(primary, r.old)

\* shutdown(): every worker of the map is told to stop, and process.exit() follows
\* when they have, ...
ShutdownForgetsCandidates(p) ==
    IF p.isShuttingDown THEN p
    ELSE [p EXCEPT !.isShuttingDown = TRUE,
                   !.workers = [w \in Ids(p) |-> IF w \in Mapped(p) \ p.candidates
                                                 THEN [p.workers[w] EXCEPT !.left = TRUE]
                                                 ELSE p.workers[w]],
                   !.stopping = Mapped(p),
                   !.exited = Mapped(p) = {}]
Shutdown(p) ==
    IF p.isShuttingDown THEN p
    ELSE [p EXCEPT !.isShuttingDown = TRUE,
                   !.workers = [w \in Ids(p) |-> IF w \in Mapped(p)
                                                 THEN [p.workers[w] EXCEPT !.left = TRUE]
                                                 ELSE p.workers[w]],
                   !.stopping = Mapped(p),
                   !.exited = Mapped(p) = {}]

\* ... or when the time of one that is left is up, as it then is of them all.
ShutdownKillTimeout ==
    /\ primary.isShuttingDown
    /\ Turn([primary EXCEPT !.stopping = {}, !.exited = TRUE])
    /\ setbacks < MaxSetbacks
    /\ setbacks' = setbacks + 1
    /\ UNCHANGED <<crashed, crashedInReload>>

\* The 'message' handler.
TakesReload == Turn(Reload(primary)) /\ ByTheBook
TakesRestart(s) == Turn(RestartWorker(primary, s)) /\ ByTheBook
TakesShutdown == Turn(Shutdown(primary)) /\ ByTheBook

ReloadStep == ReloadReady \/ ReloadRejected \/ ReloadBackoffEnds \/ ReloadPromotes
              \/ ReloadKillTimeout

RestartStep ==
    \E r \in primary.restarts :
        RestartReady(r) \/ RestartFails(r) \/ RestartPromotes(r) \/ RestartKillTimeout(r)

WorkerBoots == \E w \in Ids(primary) : Online(w)
WorkerStarts == \E w \in Ids(primary) : Listening(w) \/ SignalsReady(w)
WorkerStops == \E w \in Ids(primary) : Terminates(w)
WorkerCrashes == \E w \in Ids(primary) : Crash(w)

WorkerStep == WorkerBoots \/ WorkerStarts \/ WorkerStops \/ WorkerCrashes

PrimaryStep == WorkerStep \/ ReloadStep \/ RestartStep \/ ShutdownKillTimeout
----------------------------------------------------------------------------
(* The primary on its own: it takes a command as soon as it is given. *)

primaryVars == <<primary, given, history>>

MayCommand == reloads + memoryRestarts < MaxCommands

ReloadCommand ==
    /\ MayCommand /\ reloads < MaxReloads
    /\ reloads' = reloads + 1
    /\ UNCHANGED memoryRestarts

RestartCommand ==
    /\ MayCommand /\ memoryRestarts < MaxMemoryRestarts
    /\ memoryRestarts' = memoryRestarts + 1
    /\ UNCHANGED reloads

PrimaryNext ==
    \/ PrimaryStep /\ UNCHANGED given
    \/ ReloadCommand /\ TakesReload
    \/ \E s \in Slot : RestartCommand /\ TakesRestart(s)
    \/ MayStop /\ MayCommand /\ TakesShutdown /\ UNCHANGED given

PrimarySpec == PrimaryInit /\ [][PrimaryNext]_primaryVars

\* The timers of the coroutines fire, workers start, and stop when they are told to: each
\* of these happens finitely often, so that one weak fairness is enough for all.
PrimaryFairness ==
    WF_primaryVars(/\ UNCHANGED given
                   /\ \/ ReloadStep \/ RestartStep
                      \/ WorkerBoots \/ WorkerStarts \/ WorkerStops)

FairPrimarySpec == PrimarySpec /\ PrimaryFairness
----------------------------------------------------------------------------
(* Properties. *)

Worker == [slot : Slot, life : {"forked", "online", "gone"}, ready : BOOLEAN,
           left : BOOLEAN, killed : BOOLEAN]

\* The types, an attempt within the retries of a slot included (ClusterWrapper.ts:345).
PrimaryTypeOK ==
    /\ primary.workers \in Seq(Worker)
    /\ primary.freeSlots \subseteq Slot
    /\ primary.candidates \subseteq Ids(primary)
    /\ primary.reload.pc \in {"idle", "waiting", "backoff", "settling", "stopping"}
    /\ primary.reload.pc # "idle" => primary.reload.attempt \in 0..Retries
    /\ primary.stopping \subseteq Ids(primary)
    /\ crashed \in [Slot -> Nat]
    /\ crashedInReload \in BOOLEAN
    /\ setbacks \in 0..MaxSetbacks

\* Accounting of slots: the free list holds exactly the slots without a worker, whatever
\* overlap of old, new and killed workers a reload leaves (the test in the exit handler
\* and the delete in spawnWorker keep it so).
SlotsAccounted == primary.freeSlots = {s \in Slot : InSlot(primary, s) = {}}

\* No slot is ever without a worker, whatever replacement fails or is killed late, unless
\* a worker crashes during a reload: reload() keeps the old worker until the new one is
\* ready, and the exit handler forks anew outside a reload.
SlotsCovered ==
    ~primary.isShuttingDown /\ ~crashedInReload =>
        \A s \in Slot : InSlot(primary, s) # {}

\* Outside a reload each slot has exactly one worker, as long as no wait timed out, no
\* worker crashed in a reload and none was restarted for its memory: a reload leaves no
\* old worker behind, and an exit during it is not taken for one that calls for a new worker.
OneEach ==
    /\ ~primary.isReloading /\ ~primary.isShuttingDown
    /\ setbacks = 0 /\ ~crashedInReload /\ memoryRestarts = 0
    =>
        \A s \in Slot : Cardinality(InSlot(primary, s)) = 1

\* The replacements that reload() and restartWorker() have not yet committed to.
OnTrial(p) ==
    {r.new : r \in {q \in p.restarts \cup {p.reload} : q.pc \in {"waiting", "settling"}}}

Serving(p, s) == \E w \in InSlot(p, s) \ OnTrial(p) :
                    LET v == p.workers[w] IN v.ready /\ ~v.left /\ ~v.killed

\* Zero downtime: a slot whose own workers never crash, once served by a ready worker, is
\* served at every moment until the shutdown, through reloads, their failures and memory
\* restarts, whatever happens in other slots.
NoDowntime ==
    [][~primary'.isShuttingDown =>
          \A s \in Slot : Serving(primary, s) /\ crashed'[s] = 0 => Serving(primary', s)]_primaryVars

\* A reload ends, with the success or failure of its slots, or with the primary.
ReloadEnds == primary.isReloading ~> ~primary.isReloading \/ primary.exited

\* A shutdown ends: the workers of the map are all told to stop and waited for, those
\* that a reload or a restart has in hand included.
ShutdownEnds == primary.isShuttingDown ~> primary.exited

\* src/README.md:294 takes ORKIFY_WORKER_ID for a stable identity fit to elect a
\* singleton: no two workers hold one, outside a replacement.
OneWorkerPerSlot ==
    ~primary.isReloading /\ primary.restarts = {} =>
       \A s \in Slot : Cardinality({w \in InSlot(primary, s) : ~primary.workers[w].left}) <= 1

\* src/README.md:48 says that crashed processes are restarted: when no reload is under
\* way every slot has a worker.
NoSlotLost ==
    ~primary.isReloading /\ ~primary.isShuttingDown => \A s \in Slot : InSlot(primary, s) # {}
=============================================================================
