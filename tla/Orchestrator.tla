----------------------------- MODULE Orchestrator -----------------------------
(***************************************************************************)
(* The daemon's registry of processes: Orchestrator's two maps, the        *)
(* requests of startDaemon that change them, GracefulManager's guard on    *)
(* reloads and the names for which CronScheduler holds jobs.               *)
(*                                                                         *)
(* A request is a coroutine: it works through a list of steps and awaits   *)
(* the stop, the start or the reload of one container at a time.  Several  *)
(* requests may be under way.  Between two awaits a coroutine runs alone   *)
(* (Runnable), and when an event wakes several of them they go on in any   *)
(* order.  A container (ManagedProcess) is here its name, isShuttingDown,  *)
(* the child it holds, which may be dead, and the backoff timers it has    *)
(* armed; the module ForkProcess has the rest of it.  The children that    *)
(* are not gone, of forks or the primaries of clusters, are numbered; only *)
(* the container that forked a child knows of it.                          *)
(***************************************************************************)
EXTENDS Integers, Sequences, FiniteSets, SequencesExt

CONSTANTS Names,        \* names of processes
          Started,      \* those that run already, a sequence
          Clustered,    \* those with more than one worker: their start awaits the primary
          Scheduled,    \* those with cron jobs
          MaxIds,       \* bound on processes ever started
          MaxCalls,     \* bound on requests
          MaxSetbacks      \* bound on children that exit unasked or outlive a kill timer and on
                           \* shutdowns

ASSUME OrchestratorAssumption ==
    /\ IsFiniteSet(Names)
    /\ Started \in Seq(Names) /\ IsInjective(Started)
    /\ Clustered \subseteq Names /\ Scheduled \subseteq Names
    /\ MaxIds \in Nat /\ MaxCalls \in Nat /\ MaxSetbacks \in Nat

VARIABLES containers,   \* by process id: those dropped from the maps included
          children,     \* each with the requests whose stop awaits its exit
          processes,    \* ids in the map by id
          nameToId,     \* the map by name, 0 for none
          reloading,    \* GracefulManager.reloadInProgress
          jobs,         \* names CronScheduler holds jobs for
          calls,        \* the requests, in the order they began
          phase,        \* "up", or how far gracefulShutdown() is: "closing", "stopping", "down"
          setbacks,     \* children that exited unasked or were killed and shutdowns
          raced,        \* history: names that got or lost a process while another request
                      \* awaited one of that name
          slow,         \* history: names whose primary took too long to start
          torn,         \* history: names whose restart took another restart's child, or did not
                        \* see the old one exit
          stray,        \* history: names a reconcile() deleted, or whose jobs a request
                      \* registers though they are deleted or could not be started
          late          \* history: requests under way while the daemon was closing

registry == <<processes, nameToId>>
history == <<raced, slow, torn, stray, late>>
vars == <<containers, children, registry, reloading, jobs, calls, phase, setbacks, history>>

Ids == DOMAIN containers
Kids == DOMAIN children
None == 0
Dead == -1
ChildOf(i) == containers[i].child
Held(i) == ChildOf(i) # None

\* Neither dead nor about to be.
Living == {k \in Kids : children[k].state # "killed"}

\* stop() was called on it: its exit has a listener that drops the child of the container.
Asked(k) == children[k].waiters # {} \/ children[k].state = "killed"

\* isRunning(): a child in its backoff counts, one being stopped does not.
IsRunning(i) == i \in Ids /\ Held(i) /\ ~containers[i].stopping

\* primary?.connected
Connected(i) == ChildOf(i) \in Kids

Answered == [kind |-> "none", todo |-> <<>>, at |-> "done", names |-> {}]

Step(op, name, id) == [op |-> op, name |-> name, id |-> id]
On(op, i) == Step(op, containers[i].name, i)

Pending(c) == calls[c].at # "done"
Head1(c) == Head(calls[c].todo)
Waiting == {"stop", "ready", "reload"}
Stopping == {"stop", "stopped"}
Restarting(c, i) ==
    calls[c].at \in Stopping /\ Head1(c).op \in {"restart", "reload"} /\ Head1(c).id = i

\* Another request awaits a process named n.
Holds(c, n, ops) ==
    \E d \in DOMAIN calls \ {c} :
        /\ calls[d].at \in Waiting \cup {"stopped"}
        /\ Head1(d).name = n /\ Head1(d).op \in ops

Races(n, racing) == raced' = IF racing THEN raced \cup {n} ELSE raced

\* No coroutine can go on without an event: the event loop takes the next one.
Settled == \A c \in DOMAIN calls : calls[c].at \in Waiting \cup {"done"}

Init ==
    /\ containers = [i \in DOMAIN Started |->
                        [name |-> Started[i], stopping |-> FALSE, child |-> i, backoffs |-> 0]]
    /\ children = [i \in DOMAIN Started |->
                      [of |-> i, state |-> "live", waiters |-> {}]]
    /\ processes = DOMAIN Started
    /\ nameToId = [n \in Names |-> IF n \in Range(Started) THEN CHOOSE i \in DOMAIN Started : Started[i] = n
                                  ELSE 0]
    /\ jobs = Range(Started) \cap Scheduled
    /\ reloading = {} /\ calls = <<>>
    /\ phase = "up"
    /\ setbacks = 0
    /\ raced = {} /\ slow = {} /\ torn = {} /\ stray = {} /\ late = FALSE
----------------------------------------------------------------------------
(* Requests begin. *)

Begins(kind, todo) ==
    /\ Settled
    /\ phase # "down"
    /\ Len(calls) < MaxCalls
    /\ calls' = Append(calls, [kind |-> kind, todo |-> todo, at |-> "go",
                               names |-> {todo[k].name : k \in DOMAIN todo}])
    /\ late' = (late \/ phase = "stopping")
    /\ UNCHANGED <<containers, children, registry, reloading, jobs, phase, setbacks,
                   raced, slow, torn, stray>>

\* The elements of S in their order: a set of one sequence.
InOrder(S) == {s \in SetToSeqs(S) : \A j, k \in DOMAIN s : j < k => s[j] < s[k]}

Up == \E n \in Names : Begins("up", <<Step("up", n, 0)>>)

\* resolveTarget(): one process, by its name or id, or all of them in the order of their ids.
\* The reload of a watched process and the restart of a fork for memory are such requests.
OnTargets(op) ==
    \E T \in {{i} : i \in processes} \cup {processes} : \E order \in InOrder(T) :
        T # {} /\ Begins(op, [k \in DOMAIN order |-> On(op, order[k])])

\* restoreFromMemory(), of a snapshot or of what the last daemon handed over.
Restore ==
    \E T \in SUBSET Names : \E order \in SetToSeqs(T) :
        T # {} /\ Begins("restore", [k \in DOMAIN order |-> Step("up", order[k], 0)])

\* reconcile(): what is not wanted is deleted, what is new started, what has changed
\* replaced and the rest reloaded.  Only DEPLOY_RESTORE registers jobs afterwards.
Reconcile ==
    \E wanted \in SUBSET Names, changed \in SUBSET Names, kind \in {"reconcile", "deploy"} :
        LET running == {n \in Names : nameToId[n] # 0}
            OpFor(n) == IF n \notin running THEN "up" ELSE IF n \in changed THEN "replace" ELSE "reload"
            deletes == [k \in DOMAIN SetToSeq(running \ wanted) |->
                            Step("delete", SetToSeq(running \ wanted)[k], 0)]
            others == [k \in DOMAIN SetToSeq(wanted) |->
                            Step(OpFor(SetToSeq(wanted)[k]), SetToSeq(wanted)[k], 0)]
        IN /\ wanted # {} /\ changed \subseteq wanted \cap running
           /\ Begins(kind, deletes \o others)
----------------------------------------------------------------------------
(* Between two awaits. *)

Goes(c, at) == calls[c].at = at /\ calls[c].todo # <<>>
Wait(c, at) == calls' = [calls EXCEPT ![c].at = at]
NextStep(c) == calls' = [calls EXCEPT ![c].at = "go", ![c].todo = Tail(@)]

\* An error ends the request, unless each step has its own try.
Fails(c) ==
    IF calls[c].kind \in {"deploy", "reconcile", "up"}
    THEN calls' = [calls EXCEPT ![c] = Answered]
    ELSE NextStep(c)

\* A step of reconcile() looks its process up by name when its turn comes.
Target(c) == IF Head1(c).id # 0 THEN Head1(c).id ELSE nameToId[Head1(c).name]

\* The first lines of container.stop(): it awaits the exit of the child it finds, which may
\* be dead already, or nothing.
Stops(c, i) ==
    /\ containers' = [containers EXCEPT ![i].stopping = TRUE]
    /\ children' = IF Connected(i) THEN [children EXCEPT ![ChildOf(i)].waiters = @ \cup {c}] ELSE children
    /\ calls' = [calls EXCEPT ![c].todo[1].id = i, ![c].at = IF Held(i) THEN "stop" ELSE "stopped"]
    /\ torn' = IF Head1(c).op \in {"restart", "reload"}
                  /\ \E d \in DOMAIN calls \ {c} : Restarting(d, i)
               THEN torn \cup {Head1(c).name} ELSE torn

StopsTarget(c) ==
    /\ Goes(c, "go") /\ Head1(c).op \in {"down", "restart", "delete", "replace", "close"}
    /\ LET i == Target(c)
       IN IF i = 0 THEN Fails(c) /\ UNCHANGED <<containers, children, torn>> ELSE Stops(c, i)
    /\ UNCHANGED <<registry, reloading, jobs, phase, setbacks, raced, slow, stray, late>>

\* One reload of a process at a time; a cluster's goes on beside what else is asked of it.
ReloadIsFree(i) == i \notin reloading

ReloadsTarget(c) ==
    /\ Goes(c, "go") /\ Head1(c).op = "reload"
    /\ LET i == Target(c)
           clustered == Head1(c).name \in Clustered
       IN IF i = 0 \/ ~ReloadIsFree(i) \/ (clustered /\ ~Connected(i))
          THEN /\ IF i = 0 THEN Fails(c) ELSE NextStep(c)
               /\ UNCHANGED <<containers, children, reloading, torn>>
          ELSE /\ reloading' = reloading \cup {i}
               /\ IF clustered
                  THEN /\ calls' = [calls EXCEPT ![c].todo[1].id = i, ![c].at = "reload"]
                       /\ UNCHANGED <<containers, children, torn>>
                  ELSE Stops(c, i)
    /\ UNCHANGED <<registry, jobs, phase, setbacks, raced, slow, stray, late>>

\* startFork() and startCluster(): a child is forked, whatever others the container has.
NewChild == CHOOSE k \in 1..Cardinality(Kids) + 1 : k \notin Kids
Forks(i, n) ==
    LET child == [of |-> i, state |-> IF n \in Clustered THEN "launching" ELSE "live", waiters |-> {}]
    IN children' = [k \in Kids \cup {NewChild} |-> IF k = NewChild THEN child ELSE children[k]]

\* up(): a name is free when its process does not run.
NameIsFreeUnchecked(i) == TRUE
NameIsFree(i) == ~IsRunning(i)

Starts(c) ==
    /\ Goes(c, "go") /\ Head1(c).op = "up"
    /\ LET n == Head1(c).name
           old == nameToId[n]
           new == Len(containers) + 1
           skipped == calls[c].kind = "restore" /\ old # 0
       IN \/ /\ Len(containers) < MaxIds /\ ~skipped /\ NameIsFree(old)
             /\ containers' = Append(containers, [name |-> n, stopping |-> FALSE,
                                                  child |-> NewChild, backoffs |-> 0])
             /\ Forks(new, n)
             /\ processes' = (processes \ {old}) \cup {new}
             /\ nameToId' = [nameToId EXCEPT ![n] = new]
             /\ Races(n, Holds(c, n, {"up", "down", "restart", "reload", "delete", "replace"}))
             /\ IF n \in Clustered
                THEN calls' = [calls EXCEPT ![c].at = "ready", ![c].todo[1].id = new]
                ELSE NextStep(c)
             /\ UNCHANGED stray
          \* The name is taken, or there is no such script.
          \/ /\ Fails(c)
             /\ stray' = IF calls[c].kind = "restore" THEN stray \cup {n} ELSE stray
             /\ UNCHANGED <<containers, children, registry, raced>>
    /\ UNCHANGED <<reloading, jobs, phase, setbacks, slow, torn, late>>

\* A request under way will register the jobs of n when it ends.
WillRegister(n) ==
    \E d \in DOMAIN calls :
        Pending(d) /\ n \in calls[d].names /\ calls[d].kind \in {"up", "restore", "reconcile"}

\* The awaited stop is over: down() emits process:stop, at which the jobs go; ...
Downed(c) ==
    /\ Goes(c, "stopped") /\ Head1(c).op = "down"
    /\ jobs' = jobs \ {Head1(c).name}
    /\ NextStep(c)
    /\ UNCHANGED <<containers, children, registry, reloading, phase, setbacks, history>>

\* ... delete() takes the process off the maps, the name whoever has it by now; ...
Deleted(c) ==
    /\ Goes(c, "stopped") /\ Head1(c).op \in {"delete", "replace"}
    /\ LET n == Head1(c).name
           i == Head1(c).id
       IN /\ processes' = processes \ {i}
          /\ nameToId' = [nameToId EXCEPT ![n] = 0]
          /\ Races(n, nameToId[n] \notin {0, i} \/ Holds(c, n, {"up", "restart", "reload"}))
          /\ stray' = IF calls[c].kind = "delete" /\ ~WillRegister(n) THEN stray ELSE stray \cup {n}
          /\ IF Head1(c).op = "delete" THEN NextStep(c)
             ELSE calls' = [calls EXCEPT ![c].at = "go", ![c].todo[1] = Step("up", n, 0)]
    /\ UNCHANGED <<containers, children, reloading, jobs, phase, setbacks, slow, torn, late>>

\* ... restart(), which is a fork's reload too, starts a child again, on the maps or not; ...
Restarted(c) ==
    /\ Goes(c, "stopped") /\ Head1(c).op \in {"restart", "reload"}
    /\ LET n == Head1(c).name
           i == Head1(c).id
       IN /\ containers' = [containers EXCEPT ![i].stopping = FALSE, ![i].child = NewChild]
          /\ Forks(i, n)
          /\ reloading' = IF Head1(c).op = "reload" THEN reloading \ {i} ELSE reloading
          /\ Races(n, i \notin processes \/ Holds(c, n, {"delete", "replace"}))
          /\ IF n \in Clustered THEN Wait(c, "ready") ELSE NextStep(c)
    /\ UNCHANGED <<registry, jobs, phase, setbacks, slow, torn, stray, late>>

\* ... and a stop of the shutdown has nothing left to do.
Closed(c) ==
    /\ Goes(c, "stopped") /\ Head1(c).op = "close"
    /\ NextStep(c)
    /\ UNCHANGED <<containers, children, registry, reloading, jobs, phase, setbacks, history>>

\* The handler's last lines, before it answers.
JobsAfterNoDelete(call) ==
    IF call.kind \in {"up", "restore", "reconcile"} THEN jobs \cup (call.names \cap Scheduled) ELSE jobs
JobsAfter(call) ==
    CASE call.kind \in {"up", "restore", "reconcile"} -> jobs \cup (call.names \cap Scheduled)
      [] call.kind = "delete" -> jobs \ call.names
      [] OTHER -> jobs

Answers(c) ==
    /\ calls[c].at = "go" /\ calls[c].todo = <<>>
    /\ calls' = [calls EXCEPT ![c] = Answered]
    /\ jobs' = JobsAfter(calls[c])
    /\ UNCHANGED <<containers, children, registry, reloading, phase, setbacks, history>>

Runnable(c) ==
    \/ StopsTarget(c) \/ ReloadsTarget(c) \/ Starts(c)
    \/ Downed(c) \/ Deleted(c) \/ Restarted(c) \/ Closed(c) \/ Answers(c)
----------------------------------------------------------------------------
(* Events. *)

Woken(from, S, to(_)) ==
    [c \in DOMAIN calls |-> IF calls[c].at = from /\ c \in S THEN to(calls[c]) ELSE calls[c]]

\* A child exits: by itself, because it was told to, or by SIGKILL.  The handlers do not ask
\* whether it is the one the container holds.  The container forks again after a backoff, or
\* never, unless it is being stopped, and drops the child it holds if this one was told to
\* stop, or is the last; stops that await the exit go on.
Exits(k) ==
    LET i == children[k].of
        stopping == containers[i].stopping
        IsStopped(call) == [call EXCEPT !.at = "stopped"]
    IN /\ Settled /\ phase # "down"
       /\ ~Asked(k) => setbacks < MaxSetbacks
       /\ setbacks' = IF Asked(k) THEN setbacks ELSE setbacks + 1
       /\ \E again \in BOOLEAN :
             LET drops == Asked(k) \/ IF stopping THEN containers[i].name \notin Clustered ELSE ~again
             IN containers' = [containers EXCEPT
                    ![i].backoffs = IF ~stopping /\ again THEN @ + 1 ELSE @,
                    ![i].child = IF drops THEN None ELSE IF @ = k THEN Dead ELSE @]
       /\ children' = [l \in Kids \ {k} |-> children[l]]
       /\ calls' = Woken("stop", children[k].waiters, IsStopped)
       /\ UNCHANGED <<registry, reloading, jobs, phase, history>>

\* A child that lives on for as long as the kill timer runs.
Ignored(c) == \E k \in Living : c \in children[k].waiters

KillTimerOfLiving(c) ==
    /\ Settled /\ Ignored(c)
    /\ setbacks < MaxSetbacks /\ setbacks' = setbacks + 1
    /\ Wait(c, "stopped")
    /\ UNCHANGED <<containers, children, registry, reloading, jobs, phase, history>>

\* The kill timer of a stop: SIGKILL, and the stop is over, whether the child exits now, later
\* or has done so before.
KillTimer(c) ==
    /\ Settled /\ calls[c].at = "stop"
    /\ Ignored(c) => setbacks < MaxSetbacks
    /\ setbacks' = IF Ignored(c) THEN setbacks + 1 ELSE setbacks
    /\ Wait(c, "stopped")
    /\ children' = [k \in Kids |->
           IF c \in children[k].waiters
           THEN [children[k] EXCEPT !.waiters = @ \ {c}, !.state = "killed"]
           ELSE children[k]]
    /\ torn' = IF Head1(c).op \in {"restart", "reload"} THEN torn \cup {Head1(c).name} ELSE torn
    /\ UNCHANGED <<containers, registry, reloading, jobs, phase, raced, slow, stray, late>>

\* Nothing disarms a backoff timer.
BackoffEnds(i) ==
    /\ Settled /\ phase # "down" /\ containers[i].backoffs > 0
    /\ IF containers[i].stopping
       THEN containers' = [containers EXCEPT ![i].backoffs = @ - 1] /\ UNCHANGED children
       ELSE /\ containers' = [containers EXCEPT ![i].backoffs = @ - 1, ![i].child = NewChild]
            /\ Forks(i, containers[i].name)
    /\ UNCHANGED <<registry, reloading, jobs, calls, phase, setbacks, history>>

\* 'primary:ready', of whichever primary.
PrimaryReady(k) ==
    LET i == children[k].of
        IsReady(call) == [call EXCEPT !.at = "go", !.todo = Tail(@)]
    IN /\ Settled /\ phase # "down" /\ children[k].state = "launching"
       /\ children' = [children EXCEPT ![k].state = "live"]
       /\ calls' = Woken("ready", {c \in DOMAIN calls : calls[c].at = "ready" /\ Head1(c).id = i},
                         IsReady)
       /\ UNCHANGED <<containers, registry, reloading, jobs, phase, setbacks, history>>

\* waitForPrimaryReady() gives up; up() takes the process off the maps and leaves it be.
ForgetsId(c, i) == processes' = processes \ {i} /\ UNCHANGED nameToId
Forgets(c, i) == processes' = processes \ {i} /\ nameToId' = [nameToId EXCEPT ![Head1(c).name] = 0]

ReadyTimesOut(c) ==
    /\ Settled /\ calls[c].at = "ready"
    /\ Fails(c)
    /\ IF Head1(c).op = "up" THEN Forgets(c, Head1(c).id) ELSE UNCHANGED registry
    /\ slow' = slow \cup {Head1(c).name}
    /\ UNCHANGED <<containers, children, reloading, jobs, phase, setbacks, raced, torn, stray, late>>

\* 'reload:complete', or its timeout.
ReloadEnds(c) ==
    /\ Settled /\ calls[c].at = "reload"
    /\ reloading' = reloading \ {Head1(c).id}
    /\ NextStep(c)
    /\ UNCHANGED <<containers, children, registry, jobs, phase, setbacks, history>>

\* gracefulShutdown() ends the scheduler, then the MCP server and the telemetry, ...
Closing ==
    /\ Settled /\ phase = "up"
    /\ setbacks < MaxSetbacks /\ setbacks' = setbacks + 1
    /\ phase' = "closing"
    /\ jobs' = {}
    /\ UNCHANGED <<containers, children, registry, reloading, calls, history>>

\* ... and then stops all containers at once; requests still come.
StopsAll ==
    /\ Settled /\ phase = "closing"
    /\ phase' = "stopping"
    /\ late' = \E c \in DOMAIN calls : Pending(c)
    /\ \E order \in InOrder(processes) :
          calls' = calls \o [k \in DOMAIN order |->
                                [kind |-> "close", todo |-> <<On("close", order[k])>>, at |-> "go",
                                 names |-> {}]]
    /\ UNCHANGED <<containers, children, registry, reloading, jobs, setbacks,
                   raced, slow, torn, stray>>

AllStopped == \A c \in DOMAIN calls : calls[c].kind # "close"

DaemonExits ==
    /\ Settled /\ phase = "stopping"
    /\ AllStopped
    /\ phase' = "down"
    /\ processes' = {} /\ nameToId' = [n \in Names |-> 0]
    /\ calls' = [c \in DOMAIN calls |-> Answered]
    /\ late' = (late \/ \E c \in DOMAIN calls : Pending(c) /\ calls[c].kind # "close")
    /\ UNCHANGED <<containers, children, reloading, jobs, setbacks, raced, slow, torn, stray>>

Timers == \E c \in DOMAIN calls : KillTimer(c) \/ ReadyTimesOut(c) \/ ReloadEnds(c)
Children == (\E k \in Kids : Exits(k) \/ PrimaryReady(k)) \/ \E i \in Ids : BackoffEnds(i)
Requests == Up \/ Restore \/ Reconcile \/ \E op \in {"down", "restart", "reload", "delete"} : OnTargets(op)
Next ==
    \/ Requests \/ Timers \/ Children \/ Closing \/ StopsAll \/ DaemonExits
    \/ \E c \in DOMAIN calls : Runnable(c)

Spec == Init /\ [][Next]_vars

\* The event loop goes on: while a coroutine can run, a timer is armed or a child that was
\* told to stop lives, some such thing happens.
Progress ==
    \/ \E c \in DOMAIN calls : Runnable(c)
    \/ Timers \/ StopsAll \/ DaemonExits
    \/ \E k \in Kids : Asked(k) /\ Exits(k)

FairSpec == Spec /\ WF_vars(Progress)
----------------------------------------------------------------------------
(* Properties. *)

Call == [kind : {"up", "restore", "deploy", "reconcile", "down", "restart", "reload", "delete", "close", "none"},
         todo : Seq([op : {"up", "replace", "down", "restart", "reload", "delete", "close"},
                     name : Names, id : Nat]),
         at : Waiting \cup {"go", "stopped", "done"}, names : SUBSET Names]

\* The types; a request that waits has something to wait for.
TypeOK ==
    /\ containers \in Seq([name : Names, stopping : BOOLEAN, child : {None, Dead} \cup Kids,
                           backoffs : Nat])
    /\ IsFiniteSet(Kids) /\ Kids \subseteq Nat \ {0}
    /\ children \in [Kids -> [of : Ids, state : {"launching", "live", "killed"},
                              waiters : SUBSET DOMAIN calls]]
    /\ processes \subseteq Ids /\ reloading \subseteq Ids
    /\ nameToId \in [Names -> 0..Len(containers)]
    /\ jobs \subseteq Names
    /\ calls \in Seq(Call)
    /\ \A c \in DOMAIN calls :
          calls[c].at \notin {"go", "done"} => calls[c].todo # <<>> /\ Head1(c).id \in Ids
    /\ phase \in {"up", "closing", "stopping", "down"}
    /\ setbacks \in 0..MaxSetbacks
    /\ raced \subseteq Names /\ slow \subseteq Names /\ torn \subseteq Names /\ stray \subseteq Names
    /\ late \in BOOLEAN

\* Orchestrator.ts:37-38: the two maps name the same processes: a name leads to the process
\* that has it, and each process is found by its name, unless up() gave the name away while
\* another request awaited the old process (Orchestrator.ts:59-63, 143, 232).
NamesAgree ==
    /\ \A n \in Names : nameToId[n] # 0 =>
          nameToId[n] \in processes /\ containers[nameToId[n]].name = n
    /\ \A i \in processes : containers[i].name \notin raced => nameToId[containers[i].name] = i

\* No child runs that the daemon cannot list or stop, none when it has shut down, and no name
\* has two; but for raced names, for a primary too slow for up() and for requests that overlap
\* the shutdown.  Torn names are excepted too: of two restarts that await one exit each forks
\* (ManagedProcess.ts:988-1004); a restart whose kill timer fired forks beside a child whose
\* exit then drops the new one and arms a backoff (ManagedProcess.ts:309-344, 929-937), or
\* beside a backoff timer of the old one (ManagedProcess.ts:337, 601).
NoOrphan ==
    \A k \in Living :
        LET i == children[k].of
            n == containers[i].name
        IN n \notin raced \cup slow \cup torn /\ ~late =>
               /\ i \in processes /\ ChildOf(i) = k
               /\ \A l \in Living : containers[children[l].of].name = n => k = l

\* Without that exception: a container has one child at a time, the one it would stop.  Torn
\* names break it.
OneChildEach ==
    \A k \in Living : containers[children[k].of].name \notin raced => ChildOf(children[k].of) = k

\* GracefulManager.ts:12-32: the mark of a process says that exactly one reload of it is under
\* way: two never overlap, and none is refused for one that failed, timed out or raced.
OneReload ==
    phase # "down" => \A i \in Ids :
        LET reloads == {c \in DOMAIN calls :
                            /\ calls[c].at \in Waiting \cup {"stopped"}
                            /\ Head1(c).op = "reload" /\ Head1(c).id = i}
        IN Cardinality(reloads) = IF i \in reloading THEN 1 ELSE 0

\* What the daemon remembers of its processes, names, ids and reloads, is so
\* (Orchestrator.ts:31-44, GracefulManager.ts:7-36).
MapsAgree == TypeOK /\ NamesAgree /\ OneReload

Quiet == \A c \in DOMAIN calls : ~Pending(c)

\* startDaemon.ts:265: no job is left for a process that was deleted, unless a reconcile()
\* deleted it, which does not tell the scheduler, a restore that failed to start it registered
\* its jobs all the same, or a request raced.
JobsFollow ==
    Quiet /\ phase # "down" => \A n \in jobs \ (raced \cup slow \cup stray) : nameToId[n] # 0

\* Every request is answered, whatever stops, exits or closes meanwhile.
RequestsEnd == \A c \in 1..MaxCalls : c \in DOMAIN calls ~> c \in DOMAIN calls /\ ~Pending(c)
=============================================================================
