# TLA+ models of orkify

[orkify](../src/README.md) is a process manager for Node.js: a command line talks to a
daemon, the daemon supervises apps (one child in *fork* mode, a primary with workers in
*cluster* mode), and `@orkify/cache` gives the workers of an app a shared cache. The daemon
also deploys releases, reports to a server and keeps logs; `@orkify/chat` is a support
widget for web pages. This directory holds TLA+ models of these parts, the TLC runs that
check them, and proofs, checked by TLAPS, of what holds for every value of the constants: of
the replicated cache, the cluster primary, the supervision of a fork, the start of daemons and
the handover from one to the next, the registry of processes, deploys, and the log files.

`PROJECT.json` lists components, runs, mutants, the source lines behind every definition,
the hazards of the code and the theorems.

## The system

| Part | State | Operations | Talks to | What is hard | What makes it correct |
|---|---|---|---|---|---|
| `CacheClient` (a worker) | local store, pending incrs, next request id | set, delete, clear, invalidateTag, updateTagTimestamp, incr; handles broadcasts | `CachePrimary` over IPC | optimistic writes cross broadcasts; retries with one idempotency key; late answers | converges to the primary; a caller gets a value of its own increment |
| `CachePrimary` (the cluster primary) | store, `IncrDedupCache` | handles worker messages, broadcasts, snapshot to a new worker | every worker | order of echoes, snapshot and joins; record dropped before a retry | increments at most once; what is in flight accounts for every difference |
| `CacheStore`, `CacheFileStore`, `CachePersistence` | entries, tag index, byte count, disk index, files | LRU, expiry, eviction to disk, promotion, flush, load | file system | disk jobs race deletes and overwrites; restarts between any two steps | no stale read, nothing lost between the tiers, exact accounting |
| `ClusterWrapper` (the cluster primary) | workers by slot, free slots, reload candidates, two flags | online/listening/ready/exit, reload, restart-worker, shutdown | workers (signals, IPC), daemon (IPC) | coroutines interleave with exits; timeouts resolve before exits | every slot served, no slot lost or doubled, no downtime |
| `ManagedProcess`, cluster mode | record per slot, launch timers, crash counts, flags | mirrors worker events, reload, memory restart, stop, status | the primary over IPC | suppressed and announced events; what counts as a crash | the record is the truth once quiet; no false crash |
| `ManagedProcess`, fork mode | child, counters, timers, watcher | start, exit, backoff, stop, restart, memory restart, force kill, watch | the child (signals, IPC) | overlapping stops; stale timers and events | one child; stopped stays stopped; exact restart limit |
| `DaemonClient`, `startDaemon`, `DaemonServer` | lock file, PID file, socket | connect, start, takeover, bind, cleanup | each other, through three paths | non-atomic files, takeovers, crashes | one daemon, which is reached through the socket |
| `Orchestrator`, `GracefulManager`, names of `CronScheduler` | two maps of processes, reload marks, jobs | up, down, restart, reload, delete, reconcile, restore, close | `ManagedProcess` | requests interleave at awaits | names, processes and jobs correspond; no orphan; every request ends |
| shutdown, `kill`, crash recovery, `daemon-reload`, snapshot, MCP server | two files of the daemon, snapshot and its temporary file, what clients carry over | kill, force kill, recover, hand over, snap, restore | old and new daemon | the old daemon is still stopping; a second trigger | nothing run twice; files tell the truth |
| `TelemetryReporter`, `payload-budget`, `AlertEvaluator` | buffers, alert states, rules | collect, flush, restore, evaluate | HTTP service | overlapping flushes, failures, poisoned batches | every item in one place; the server knows the alerts |
| `DeployExecutor`, `CommandPoller`, `orkify restore` | releases, a link | execute, roll back, prune | file system, orchestrator | failures at every step, two deploys at once | the link points to a kept release; reports are true |
| `RotatingWriter` | active file, rotated files, archives, jobs | write, rotate, compress, prune, flush, end | file system | jobs cut short or done by two writers | no line lost; archives bounded |
| chat widget | thread, storage, bubbles, stream | post, retry, history, stream, log in and out | chat server | late answers after a change of visitor | nothing shown to the wrong visitor; no silent loss |
| IPC framing, CLI, Next.js, probes, MCP tools | views | I/O | | | |

Nothing in the daemon or in a primary runs in parallel: each is one event loop, and what is
concurrent is the interleaving of its turns, between awaits, with the other processes.

## Modules

| Module | Models |
|---|---|
| `CacheData` | keys, entries, tags, and what replication needs of `CacheStore` |
| `CacheReplication` | `CacheClient`, `CachePrimary`, `IncrDedupCache`, and the IPC channels between them |
| `CacheService` | abstract: one store changed atomically, increments with idempotency keys |
| `CacheReplicationProofs` | theorems about `CacheReplication`, and that it implements `CacheService` |
| `CacheStore` | `CacheStore` as operators from store to store: eviction, bytes, tags, expiry |
| `CacheFileStore` | extends it by the disk, the index file, restarts, and the primary's persistence |
| `ClusterPrimary` | `ClusterWrapper`: workers, slots, `reload()`, `restartWorker()`, `shutdown()` |
| `ManagedCluster` | extends it by the daemon's side, `ManagedProcess` in cluster mode, and the two channels |
| `ForkProcess` | `ManagedProcess` in fork mode |
| `DaemonStartup` | `DaemonClient.connect()`, `acquirePidLock()`, `DaemonServer.start()` and `stop()`, `cleanup()` |
| `Orchestrator` | `Orchestrator`, `GracefulManager`, the handlers of `startDaemon` |
| `DaemonHandover` | `gracefulShutdown()`, kill, recovery, daemon-reload, snapshot, the MCP server |
| `AlertEvaluator` | one evaluation of the alert rules, as operators |
| `Telemetry` | extends it by `TelemetryReporter`, its requests and the server |
| `Deploy` | `CommandPoller`, `DeployExecutor`, `deploy local`, `orkify restore` |
| `LogFiles` | `RotatingWriter`, and when `ManagedProcess` makes and ends one |
| `ChatWidget` | `packages/chat/src/widget/index.ts` |
| `ClusterProofs` | theorems about `ClusterPrimary` and `ManagedCluster` |
| `ForkProcessProofs`, `DaemonStartupProofs`, `OrchestratorProofs`, `DaemonHandoverProofs`, `DeployProofs`, `LogFilesProofs` | theorems about the module each is named after |
| `MC*` | constants for TLC |

In each module the operators named `...Always`, `...Unchecked`, `...Not` and the like, which
stand right before the definition they vary and are used by nothing, are plausible bugs: a
property is worth checking when TLC finds it violated with the variant in place.

### The cache

A worker (one pid) is `unborn`, `forked`, `online` (the primary saw its `online` event),
`dead` or `gone` (the primary saw its `exit` event). `up[w]` and `down[w]` are the IPC
channel. `Set`, `Delete`, `Clear`, `InvalidateTag`, `UpdateTagTimestamp` change the local
store and send one message; `Incr` only sends, `Retry` and `Exhaust` are its timer;
`Receive` is `CacheClient.handleMessage`. The primary's `Online` sends the snapshot,
`HandleWrite`, `HandleInvalidate`, `HandleRepeat`, `HandleRefused`, `HandleIncr` are the
cases of `CachePrimary.handleMessage`, each with its whole broadcast; `DedupExpire` is the
expiry of a record. `Crash` keeps a prefix of what the worker had sent. `Date.now()` is any
member of `Stamp`. Left out here: expiry, LRU and sizes, which each process applies to its
own copy and no message depends on, statistics, and `cache:configure` (see the disk).
The history variable `replayed` names the keys for which a worker's last word was the
replayed answer to a repeated incr: there, and only there, a worker may differ (finding 1).

### The store and its disk

`CacheStore` takes a store to a store, or to the set of possible ones where entries are
equally old. `CacheFileStore` runs it. A call is synchronous; the disk work it starts is a
record in `jobs` (`write`: directory, then file; `unlink`; `read`; `load`), which goes on in
any order, while the saves of the index are a chain (`saves`, `saving`). `current` is the
history of what was last written to a key and not yet dropped, by number of write; it is
what reads are compared with. `raced` names the keys that were changed while the disk was
busy with them, `drifted` says that a `set()` evicted the entry it replaced. `Restart` is
the exit of a fork with `flushSync()`, `Dies` an end without, `Persists` and `PersistsPlain`
what a primary does when the daemon is killed, during which its workers write on; `plain` is
a primary's store before a worker asked for the disk. `Tick` is the clock, on which expiry
and tag timestamps rest.

### The cluster

The primary is one record, `primary`, and each turn of its event loop is one action: an
event handler together with the coroutines its event wakes, up to their next await.
`reload` and `restarts` hold the coroutines: `waiting` (`waitForReady`), `backoff`,
`settling` (the 50 ms), `stopping` (`stopWorker`). The old workers a reload still has to
replace are a set, of which `First` is the next, because the map lists workers in the order
of their forks. A worker that was killed or told to stop
is marked and exits later (`Terminates`); the death of a process and its exit event are one
step, because the primary never looks at a process before that event, and what a worker
wrote before a SIGKILL counts as read before it. A rejected wait needs a worker whose
runtime is online (a live Node boots in far less than 30 s) or gone. `newState.ready` holds
whenever it is tested after `waitForReady`, so `Announce` always sends both messages. The
primary's own `stale` flag is written and never read, so only the daemon's is kept.

`ManagedCluster` adds the daemon's record, launch timers, metrics (which revive an errored
launch), the status that `list` shows, flags and the two FIFO channels. `HasParent = FALSE`
stands for a wrapper without `process.send`; the primary is checked alone that way. Not
modelled: the restart of a dead primary, counters of restarts, the sticky balancer, the
attempts of a health check, and the await of the cache's persistence at the start of a
shutdown.

### The fork process

`proc` is the state of `ManagedProcess`; `calls` is the bag of the coroutines of `stop`,
`restart`, the memory restart and a reload that await an exit, or the close of the watcher:
those that go on in one turn do the same in any order (`Resume`); `backoffs`
counts timers nothing cancels. `Begin` is `stop()` up to its await, `Exited` the exit
handler and the listeners it wakes. `open` are the watchers
not closed, `timers` their debounce timers, which `stop()` does not clear. The memory figure
may be that of a dead child. Any kill timer may fire at any time; the history variable
`timedOut` says that one did, `overlapped` that a call began while another waited,
`lateReload` that a debounce timer fired after a stop. After `forceKill()` the daemon forgets
the process, so no command follows. A cache flush in `stopFork` makes the child exit, as
SIGTERM does. `Status` is what `getInfo()` tells.

### Starting a daemon

Commands and daemons are processes, so each system call on the lock file, the PID file or
the socket is a step. `createPidFile()` is two: the file is there empty, then its pid is
written through the descriptor (into nothing, if the file was unlinked). A file that is gone
or empty looks stale to a reader (`parseInt` gives NaN and `process.kill` throws). A slot of
`Cli` holds a command and the daemon it starts; `NextCommand` puts a later command there,
with new pids. A serving daemon goes on serving until `cleanup()`: the shutdown of the apps
before it is not seen from outside. History: `misjudged` (where a takeover removed the file
of a live process), `evicted` (a stopping daemon removed another's socket), `refused`.

### The registry

A request is a coroutine in `calls` with the steps it has `todo`; it awaits one stop, one
start or one reload at a time (`at`), and runs alone in between (`Runnable` before all
else). A request for all processes turns to them in the order of their ids (`InOrder`).
Children are numbered and belong to a container (`of`), which holds one of them, a dead
one, or none. `Stops` awaits the exit of the one held: it joins the `waiters` of the
child, or, if that is dead, nobody, so that only the kill timer ends the stop. `Exits` is
the exit handler of a child and its listeners, which do not ask whether the child is the one
held; `KillTimer` resolves a stop whether or not the child has gone; `BackoffEnds` forks,
since no stop or restart clears a backoff timer. So a container may come to have several
children, of which it knows one. A fork's reload is a restart.
`Closing`, `StopsAll` and `DaemonExits` are the shutdown, during which requests still come.
History: `raced` names given away while another request awaited the old process, `slow` a
primary that `up()` gave up on, `torn` names of processes of which a restart (or a fork's reload) awaited
the exit another awaited, or was ended by its kill timer instead, `stray` jobs left by ways
to remove a process that do not tell the scheduler, `late` requests during the shutdown.

### Handing over

A daemon's `phase` follows `gracefulShutdown()`: up, MCP, telemetry, processes, files,
connections, dead. A client is a command or a recovery process with its own `pc`;
`Connect` finds the daemon that listens or starts one. `Change` is what any request does;
requests are answered during a shutdown, too. The kill request's two timers, signals and
uncaught errors each begin a shutdown or end the process at once. The snapshot is a pair of
names (`snapshot`, `tmp`) for files in `data`, a file being the client that created it.
`Close` is the end of a daemon's last connection, after which `server.stop()` removes the
socket once more, whosever it is by then; `Dropped` is what a connection closed without an
answer means to each command: a kill takes it for success, `daemon-reload` goes on with
nothing to restore. History: `overtaken` (a second trigger ended a shutdown), `evicted` (daemons whose
socket an older one removed so), `mixed` (two saves shared the
temporary file), `late` (a wait of ten seconds was too short).

### Telemetry

Items are numbered; a flush takes the buffers up to its request in one step, a request is
`sent`, then answered (`Serves`) or failed (`Fails`, before or after the server stored it),
and `Answered` is the rest of `collectAndFlush()`, which may put the batch back. `Bad` items
are those for which the server refuses a batch; it is dropped (`GivesUp`). An item has size one,
an error with its context two. Metrics are left out: they are sampled anew each time and lost
ones are not missed. The line that tells how many log lines were dropped at a flush
(`TelemetryReporter.ts:209-215`, 607-617) is wording and left out; the lines are in `dropped`.

### Deploys

An executor is `at` the await it is in; between two awaits nothing else runs. A release is
the name of its directory, so that two deploys of one release share directory and tarball.
`releases` is ordered by age. `Crash` is seen by every executor that monitors, whichever
process crashed, as the code has it. `asking` is an `orkify restore` that waits for a
deploy and falls back on the snapshot. History: `before` (what was linked and ran), `swapped`,
`overlapped`.

### Log files

A file is the set of its lines. `job[w]` is the compression under way in a writer's chain;
creating the archive comes before the source is opened (`Open`), which is why `StartJob`
looks whether the file is there. The directory is then listed (`List`, `ListFails`) and the
superfluous archives are removed one await at a time (`Prune`, `Unlinks`, `UnlinkFails`);
each of these calls may fail. `fd` may be a number that the daemon has reused. `Restart`
makes a second writer while the jobs of the first go on. History: `unwritten`,
`overwritten`, `dropped` lines, `left` files, `shared`.

### The chat widget

`widgets[i]` is the closure of one `initWidget()`; a widget taken off the page lives on in
its callbacks as `removed`, until the page is loaded anew (`gone`). A post is one request at a time
(`isSending`), history and stream one each. `bubble` is how the last bubble of a post
shows: the retry of a text or a file uses the same bubble, that of a GIF (`RetriesGif`) adds
another and leaves the first, without its error, among the `earlier` ones. History: `received`
posts, `refused` retries, `changed` (the visitor changed while the panel was open). The server is external: `Takes`, `Replied`,
`Forgets`. A guest is somebody else in each widget, because a site with logins clears what a
guest left.

## Runs

Times are those of two workers of TLC on the machine the project was written on.

| Run | Shows | Bounds, and why they are enough | States, time |
|---|---|---|---|
| `cache_replication` | `Accounted`, `Converged` and, under fairness, `EventuallyConverged`; `AtMostOnce`; the protocol implements `CacheService` (`ServiceSpec`) | a worker from the start and one that joins, one key and tag, two calls with two attempts each and two idempotency keys over a dedup cache of one, a crash: two operations make every pair of messages cross, and the second key drops the record of the first | 519 405, 3 min |
| `cluster_primary` | slots accounted for, covered, single, served without a gap (`NoDowntime`, an action property); reloads and shutdowns end | two slots, so that a reload has a next worker; a reload with one retry, a memory restart that may overlap it, a crash, a failed wait, a shutdown at any time | 140 069, 4 min |
| `cluster_mirror` | the daemon's record and status, its crash counts, its waits | one slot; a failed wait or a daemon that gives up; either one request with these, a crash and a shutdown, or two requests (reloads, memory restarts) that overlap, without any of them (`OneOrCalm`, a constraint). A second slot is out of reach; `NoCrashInvented` and `NoReloadForgotten` hold for any number | 1 923 032, 2 min |
| `fork_process` | one child, watched launches, an exact limit, stopped stays stopped, a true status (`Supervised`); calls return, crashes are answered | one respawn, two calls of any kind: overlapping pairs, and both sides of the limit | 747 212, 2 min |
| `daemon_startup` | starters and daemons exclude one another, the PID file and the socket agree, a daemon comes up | two commands at a time and a third that follows; files left by a dead command or daemon; two stops, kills or timeouts | 616 063, 3 min |
| `orchestrator` | maps, marks and jobs in step, no orphan, every request answered | two processes, a cluster and a fork with jobs, ids for one more; two requests, which is what a race takes; an exit nobody asked for, a child that outlives its kill timer, or a shutdown | 543 755, 2 min |
| `daemon_handover` | a restore is the new daemon's alone, a kill is a kill, the files are sound | three daemons (the old one, one started beside or after it, one more), two clients, one further request, one crash, signal or missed deadline; one process and two MCP servers' options | 1 131 771, 1 min |
| `cache_disk` | reads are fresh, no entry is lost between the tiers, indexes and totals are exact | two keys over a memory of two entries and three bytes, so that a second value of two bytes evicts; values with and without tag and expiry; three writes and four calls together with the ends of the process; a call may come while one job is under way, and makes more | 2 128 601, 3 min |
| `telemetry` | items in one place, the server knows the alerts, no batch blocks | three items, batches of two, one poisoned; two requests overlap; one failure or change of the rules | 159 740, 3 min |
| `deploy` | what runs stays, reports are true, deploys end | three deploys of two releases, so that one is deployed again; two at once; one release kept | 203 911, 1 min |
| `chat` | nothing shown to the wrong visitor or lost silently; the stream returns | one visitor and guests, two widgets, two threads, two posts, a text and a GIF, and a reply; two failures or deleted threads, so that a retry can fail as well | 795 856, 2 min |
| `log_files` | no line lost, archives bounded | three lines in files of two, one archive, two writers, days of two ticks; one failure or crash | 3 616 320, 2 min |

Each run's bounds are CONSTANTS named `Max...` in its module, tested in guards only.

Deadlock is not checked: every bound ends in a state where no more operations are given, and
an app or a daemon that was stopped has nothing left to do.

**Properties with exceptions.** Several properties name the situation in which the code does
not keep them (a wait that timed out, a crash in a reload, overlapping calls or deploys, a
file judged stale, a key changed while the disk is busy with it): a history variable records
that it happened, and each is a hazard in `PROJECT.json`. Where a comment or a document of
the repository says otherwise it is a finding.

**Fairness.** Weak fairness is asked of what an event loop or a timer does by itself, never of
operations, exits nobody asked for, crashes, failures or commands. Where those steps can each
happen finitely often within the bounds, their disjunction is under one WF: it is then
enabled until all of them are done, so that none can be kept from happening for ever.
Cache: messages in a channel are handled and timers fire. Cluster: the coroutines' timers
fire, and workers boot, start and stop when told to. Fork: backoff and kill timers fire, a
watcher closes, and a child that was sent SIGKILL dies; nothing is assumed of a child that
was only asked. Start-up: a daemon's process runs; nothing is assumed of commands. Registry:
coroutines that can run do, timers fire (a kill timer's and a backoff's), a child told to stop
exits, by SIGKILL in the end, the shutdown goes on; a primary need not become ready nor a reload be answered, since both
waits have timers. Telemetry: the flush timer fires, the server answers and answers are read
(a request has a timeout in the code). Deploys: downloads, commands, reconciles and the
monitoring window end. The download has no timeout in the code, so `DeploysEnd` takes a
connection that closes or delivers for granted. Chat: requests are answered or fail, which
`fetch` alone does not promise; the reconnection timer fires.

## Findings

Each is stated by a definition that no run lists; adding it as an INVARIANT to the cfg named
gives the counterexample.

1. `AllConverged` (`MCCacheReplication.cfg` with `MaxOps = 3`): the answer to a repeated incr
   carries the recorded value and its sender applies it over later writes
   (`CacheClient.ts:366`); it stays different from the primary.
2. `OneWorkerPerSlot` (`MCClusterPrimary.cfg`): `restartWorker()` leaves `isReloading` false,
   so the exit of the worker it replaced is answered with another worker in the same slot.
3. `NoSlotLost` (`MCClusterPrimary.cfg`): a crash during a reload is never answered; a slot
   stays empty.
4. `MemoryRestartsAreFree` (`MCForkProcess.cfg`): a memory restart uses up a restart of
   `--max-restarts`.
5. `AtMostOneDaemon` (`MCDaemonStartup.cfg`): a lock or PID file that is created but not yet
   written passes for stale, so two commands given together can start two daemons. Both
   windows are a few microseconds wide; a slow start that outlives the lock needs only one.
6. `FinalStatusKept` (`MCTelemetry.cfg`): the final status of a deploy is cleared before its
   request is known to have arrived, and a failed request does not put it back.
7. `SuccessRuns` (`MCDeploy.cfg`): a reload that fails keeps the old workers and counts as
   done, so a deploy is reported a success although none of its files run.
8. `RecordLives` (`MCManagedCluster.cfg` with `MaxCrashes = 0`, `MaxSetbacks = 0`,
   `MayStop = FALSE`): a reload that begins during a memory restart replaces its candidate as
   well, and `restartWorker()` then announces the candidate that has exited. With a crash of the
   candidate instead, and a second slot, the dead worker may be the only one on record.
9. `LoadedOnce` (`MCChatWidget.cfg`): history is loaded for a thread whose messages the
   widget already shows.
10. `OneChildEach` (`MCOrchestrator.cfg`): two restarts that await one exit each fork a
   child, and so does a restart whose kill timer fired beside the exit that comes later or the
   backoff timer that is left; nothing remembers the first of the two children, which runs on
   until the machine is restarted. `ForkProcess` shows the same of one process on its own.
11. `EveryBubbleTrue` (`MCChatWidget.cfg`): a GIF tried again shows in a bubble of its own; if
   it fails again, the first bubble, whose error is gone, shows a GIF nobody received as sent.
12. `SeenByOwner` (`MCChatWidget.cfg`): a login or logout without a page load leaves the
   previous visitor's conversation in the open panel until it is toggled.

What the exceptions of the properties say of the code, beyond these:

- *Store.* `set()` may evict the entry it replaces and count it out twice
  (`CacheStore.ts:68`). A spill that ends after a delete brings the entry back
  (`CacheFileStore.ts:435`). An index not yet loaded when the primary persists is replaced by
  an empty one (305). The file of `CachePersistence` is not removed when it is restored, so an
  end without a save restores the same snapshot again. Only a kill persists a primary's store;
  a stop of the cluster does not.
- *Processes.* `stop()` leaves the watcher's debounce timer (`ManagedProcess.ts:760`). A fork in
  its backoff is listed online with a dead pid. A metrics message of any worker of a slot
  revives an errored launch (526).
- *Registry.* A name given away while a request awaits the old process is removed with it
  (`Orchestrator.ts:231`). A primary that is not ready in time stays, unlisted. Jobs of a process
  that `reconcile()` deletes stay registered; a `restart` after `down` does not register them. Torn
  restarts leave children nobody holds (finding 10).
- *Handover.* A second trigger ends a daemon in the middle of its shutdown and leaves processes
  and files (`startDaemon.ts:782`). After ten seconds `daemon-reload` restores into the dying
  daemon (`restoreDaemon.ts:17`). A daemon whose last connection closes late removes the socket
  of its successor (`DaemonServer.ts:178`), which then serves nobody. Two saves of the snapshot share one temporary file.
- *Telemetry.* Overlapping failures reorder alerts. A rule that is taken away never resolves. A
  batch that is refused takes its alerts with it.
- *Deploys.* Cleanup protects only the previous directory of its own deploy. Any process's crash
  rolls every monitored deploy back. A step that fails after the swap reports `failed` with the
  new release linked. A restore that gives up waiting starts the snapshot beside the deploy.
- *Log files.* `end()` of a stopped process closes a descriptor number that may be reused
  (`RotatingWriter.ts:240`). Two rotations in one millisecond share a name (91). The jobs of an
  old and a new writer overlap and may truncate a complete archive (131). A directory
  that cannot be listed is not pruned, and an archive that cannot be removed is passed over (143,
  173); both stay until a later job.
- *Chat.* A retry that finds another post under way drops the message and its error (1316). The
  answer to a widget that was removed opens its stream again. Replies sent while the stream is
  down are not shown until the history is loaded.

## Proofs

Each theorem holds for every value of the constants, bounds included, from the assumptions
named in the module it is about (`DataAssumption`, `ReplicationAssumption`,
`PrimaryAssumption`, `ForkAssumption`, `StartupAssumption`, `OrchestratorAssumption`,
`HandoverAssumption`, `DeployAssumption`, `LogAssumption`); they say of what kind a constant is, that the numbers of workers and of
attempts are positive, and that the names of processes are finitely many. The pattern is one:
an inductive invariant, a lemma per action or per group of actions that it is kept, and the
property as a consequence. Why each invariant is more than its properties:

**Replication** (`CacheReplicationProofs`).

- `TypeCorrect`: `Spec => []TypeOK`. The message type decides the fields, so the lemmas
  `UpTypes` and `DownTypes` come first and each action has one step.
- `WorkersConverge`: `Spec => []Converged`. That a worker with empty channels agrees with the
  primary is not inductive: one has to say what the channels hold while they are not empty.
  `Accounted` does, one worker and one key at a time: the last message on its way down that
  fixes the key leaves the primary's value, up to invalidations behind it; where no message
  in either direction fixes it, the two agree up to invalidations on their way; a worker not
  yet online may lack what its snapshot will bring. `IInv == TypeOK /\ Fresh /\ Accounted`,
  where `Fresh` says that a worker never forked is empty. The step lemmas (`SendFix`,
  `SendSkip`, `SendInvalidate`, `TakeMessage`, `WriteFix`, `ReceiveMessage`, ...) are about
  two sequences and two slots and know nothing of the state; the actions are instances.
- `MessagesAccount`: `Spec => []Accounted`, the same invariant as a result of its own.
- `IncrementedOnce`: `Spec => []AtMostOnce`, from `Recorded`: a key that was applied or
  refused is on record unless its record was dropped.
- `Implements`: `Spec => ServiceSpec`, the refinement. The mapping forgets the channels, the
  workers' stores and the attempts. A step that tells a caller is one of the service only if
  the answer is about the caller's own key, which the state alone does not show: `AnswersInv`
  says that a request id belongs to one attempt of one call (`CallsApart`), that a question on
  its way asks about the key of the call that waits for it (`Asked`), and that an answer, on its
  way or on record, was produced for the key it is given for (`Told`, `Records`). Under it
  each action serves or is silent: the lemmas `ClientServes`, `ReceiveServes`, and so on.

**The cluster** (`ClusterProofs`). The first group is about the primary alone, the second
about the daemon and the primary.

- `PrimaryTypeCorrect`, `SlotAccount`, `SlotCoverage`, `ZeroDowntime` (an action property) rest
  on `PrimaryInv`. That a slot has a worker is not inductive, since the worker may have been
  told to go. `Firm` are the workers of a slot that nothing has told to go and no coroutine
  may still kill; `Backed` says that where a replacement on trial was itself told to go or has
  died, a firm worker younger than it stands in, because its coroutine may go on and retire the old
  one. `Linked` ties the coroutines to the workers they hold, `Accounted` the free list to
  the map. A turn of the event loop is many operators in a row, so each is shown to be
  `Fine`, which composes: it keeps the record good and a backed slot backed and firm.
- `OneWorkerEach`: `PrimarySpec => []OneEach`, from `Orderly`: while nothing disturbs it, a
  reload has the old and the new worker of one slot in hand, only the old one ever told to go,
  and every other slot, those still to be replaced included, has one worker nothing has told to go.
- `NoCrashInvented`: `Spec => []NoFalseCrash`, given that the primary has a parent (it does
  where a daemon forked it). The property compares two counters, the daemon's of crashes and that of
  the workers that crashed, and between them are exits on their way, flags the daemon may
  clear before they arrive and workers yet to be told to go. `Balanced` is the ledger: the
  crashes counted, the exits on their way that will count (`Charged`) and the one a restart
  asked for will cause (`Due`) are no more than the crashes there were and the excuse the daemon has
  noted for it (`Excuse`). Whether an exit on its way will count depends on the messages before it,
  hence `Tracked`, which is what the daemon's record will name when it hears them, and
  `Answered`, whether its reload has ended by then. `Tidy` says what makes a step of one process
  keep the ledger: a worker exits once, the daemon is told nothing of a candidate, and a worker that
  was killed is off the record by the time its exit is heard (`Doomed`). The property
  holds as long as one replacement at a time was asked for and the daemon waits for its reload; so
  does the ledger (`CalmInv`).
- `NoReloadForgotten` and `ManagedTypes` hold without that condition, by `ManagedInv`: the
  primary's invariant under the daemon's commands, with the types of both channels; whatever
  ends a reload of the primary leaves its answer behind (`Says`), and only that answer or the
  daemon's own patience ends the wait.

**The fork process** (`ForkProcessProofs`).

- `Supervision`: `Spec => []Supervised`, the types and the five properties of one process.
  `SupervisionInv` says, while calls come one at a time and none has timed out, what the one
  call there may be goes with (`CallsFit`), that the child that lives is the one held and was
  asked to stop exactly if a call awaits its exit (`ChildHeld`), that a backoff runs only when
  it is dead (`BackoffFits`), for which child the launch timer is armed (`TimerFits`) and what the
  counters add up to (`CountsFit`). That a stopped app stays stopped is not inductive: the
  backoff timer, the memory check, the late exit and a call that goes on could each fork a
  child, and each is stopped by another clause. The types, which hold without those
  conditions, carry the rest: that an awaited child was forked and an open watcher opened. An
  exit is five operators in a row, each with a lemma on what it makes of the record.

**Starting a daemon** (`DaemonStartupProofs`).

- `Exclusion` and `Reachability`. Mutual exclusion follows from ownership: whoever is in the
  section is the process that created the file (`LockHeld`, `PidHeld`), a PID file is complete
  before its daemon turns to the socket (`PidOwned`), and the socket is out of the way of the one daemon
  that is about to bind (`SocketKept`). Each clause holds until a takeover removes the file of a live
  process (`misjudged`), which the invariant carries through the two system calls in
  which a file exists but is not yet written.

**The registry** (`OrchestratorProofs`).

- `Agreement` (`MapsAgree`), `Custody` (`NoOrphan`), `Tidiness` (`JobsFollow`) are consequences of
  `OrchestratorInv`, which relates the maps to what every coroutine still has to do: where
  `up()` awaits a primary, nobody else has its name (`Unnamed`); the reload marks are those of
  the requests that wait in a reload, one each (`ReloadInv`); a job without a process is one
  that a request has yet to give a process or to remove (`JobInv`); the child a container
  holds is its own (`Family`); who awaits an exit is told of it (`Waits`); as long as no restart
  was torn, the child held is the only one, a backoff follows only its death, and a restart
  has seen it exit before it forks (`Tended`, of which `Sole` and `Attended` are the parts); what
  runs is listed (`Listed`), a process about to leave the maps does not run (`Gone`), and during the shutdown every process that runs is stopped by a request of the
  shutdown (`Closings`). A request is a record in a sequence, so the lemmas first say what one
  step does to it (`SkippedInv`, `MovedInv`, `TurnedInv`) and that the others stay.

**Handing over** (`DaemonHandoverProofs`).

- `KillIsTrue`, `FilesAreSound`, `TakenOver` (an action property) follow from `HandoverInv`, in three
  parts that are kept one after the other: `DaemonInv` says which daemon has the two files
  (the socket unless it was evicted),
  that one that has ended has neither, and that it stopped what it ran; `ClientInv` what a
  command knows of its predecessor at each place of its program, which is stable because no daemon
  comes back (`Onward`); `SnapInv` that the file in place and the one being written differ.

**Deploys** (`DeployProofs`).

- `WhatRunsIsKept` and `OutcomesAreTrue` follow from `DeployInv`: as long as deploys come one at a
  time, `Stands` says at each phase of the one under way whether the link has moved, whose files
  its directory holds, what may run, and that what it would go back to is what was linked
  when it began. That the cleanup spares the release that was just linked follows from its being
  the newest directory (`Linked`), and `CleanedKeeps` says what the cleanup leaves for any number
  of releases and any number kept. When a deploy ends, `Leaves` turns this into what its final
  phase tells. The lemmas `Removed`, `TouchedKeeps` and `CleanedKeeps` are about sequences
  without repetition.

**Log files** (`LogFilesProofs`).

- `NoLineLost`: `LinesKept` is inductive once a job is known to create an archive only of a
  file it has seen (`Seen`).
- `ArchiveBound`: a bound that holds at rest says nothing of the jobs that lead there.
  `BareKnown` and `ListKnown` say that a rotated file, or an archive a job has not listed, is
  known to somebody who will prune after it: it waits in a chain, is being compressed, or was
  left by a failure. Those that nobody knows of so are few (`FewSettled`): a prune that went
  through has seen them all, and one that failed leaves what it did not remove to be counted.

Only model-checked: the accuracy of the daemon's record (`MirrorAccurate`), `CacheFileStore`,
`Telemetry` and `ChatWidget` (see the plan); all liveness, since fairness and ENABLED are out of the prover's
reach; and what a fold computes for every input (the bytes of a store, the sum of `Crashes`),
which takes an induction over data. Where a proof needs that a nonempty set of numbers has a least
element, it comes from the well-foundedness of the finite subsets (`LeastElement`). No
module declares a RECURSIVE operator; folds of the community modules are used instead.

## Not modelled

- The sticky balancer of `ClusterWrapper` (556-647): it forwards sockets to the workers of the
  map and keeps no state of its own. While a slot is replaced it counts candidates that are
  ready and workers that are leaving.
- The restart of a primary that died, and counters of restarts: they are shown, and decide
  nothing else than `ForkProcess` does for a child.
- Cron dispatch: a tick reads the list of processes and sends a request. A job registered anew
  while its old request runs is dispatched beside it (`CronScheduler.ts:157`).
- Metrics, probes, statistics and heap figures; framework detection and stack traces: pure
  functions of what they read.
- IPC framing: requests and answers are taken as reliable within a connection, whose end is
  modelled. The queue of a client that reconnects is left out.
- The remote configuration beyond alert rules and the MCP server, MCP tools and their keys,
  the Next.js adapters, the command line's parsing and printing, the styles and rendering of
  the chat widget and its bundled copy `orkify-chat.js`.

## Plan

In this order; what is done is marked.

1. Cache replication, its service and its proofs (done).
2. Cluster primary, the daemon's mirror of it (done); fork supervision with the watcher (done).
3. Daemon start-up (done).
4. `Orchestrator`: the two maps under interleaved requests (done).
5. `CacheStore` and `CacheFileStore`: accounting, eviction to disk, restarts (done).
6. `Deploy`: link, reconcile, rollback, pruning, overlapping deploys (done).
7. `Telemetry` with `AlertEvaluator` (done).
8. `DaemonHandover`: kill, crash recovery, `daemon-reload`, the snapshot, the MCP server (done).
9. `LogFiles` and `ChatWidget` (done).
10. Proofs: `ClusterPrimary`, `DaemonStartup`, `Orchestrator`, `DaemonHandover`, `LogFiles` and
    the refinement of `CacheService`, `ForkProcess`, `Deploy`, crash counts and waits of
    `ManagedCluster` (done); `Accounted` of `Telemetry`, the record of `ManagedCluster`, the
    bookkeeping of `CacheStore`'s operators and of `CacheFileStore`.
11. A dead primary in `ManagedCluster`; cron dispatch.

## Running

    tlc -workers 2 -config MCCacheReplication.cfg MCCacheReplication
    tlapm CacheReplicationProofs.tla

Each `.cfg` is named after its module. The longest run takes about four minutes on two
cores. From nothing, the proofs of `CacheReplicationProofs` take four
minutes, those of `OrchestratorProofs` seven, of `ClusterProofs` twelve, of `ForkProcessProofs` two, the others one or
less.
