----------------------------- MODULE ForkProcess -----------------------------
(***************************************************************************)
(* ManagedProcess in fork mode: one child process under supervision.       *)
(*                                                                         *)
(* The n-th child forked has index n in children; forkProcess is the one   *)
(* the daemon holds, 0 for none.  stop(), restart() and the memory restart *)
(* are coroutines that await the exit of the child they found; several may *)
(* await at once.  An exit event runs its handler, the once('exit')        *)
(* listeners of the stops and the coroutines they wake in one turn of the  *)
(* event loop, so the process is one record, and what a turn does is       *)
(* written as operators from record to record.  The coroutines that await  *)
(* are a bag: in which order they go on tells no state from another.       *)
(*                                                                         *)
(* With --watch a file watcher is opened with each start() and closed by   *)
(* the stop that finds it; watchers are numbered as the children are.  A   *)
(* change arms a timer of 300 ms, which no stop clears.                    *)
(***************************************************************************)
EXTENDS Integers, Sequences, FiniteSets, Bags

CONSTANTS MaxRestarts,        \* config.maxRestarts
          MaxCommands,        \* bound on calls: commands of the user, restarts for memory
          MaxMemoryRestarts   \* bound on restarts for memory among them

ASSUME ForkAssumption ==
    MaxRestarts \in Nat /\ MaxCommands \in Nat /\ MaxMemoryRestarts \in Nat

VARIABLES proc,               \* the state of ManagedProcess
          commands,           \* commands given and changes seen so far
          memoryRestarts,     \* restarts for memory so far
          wanted,             \* history: what the last command asked for
          timedOut,           \* history: a stop did not see its child exit
          overlapped,         \* history: a call began while another waited
          lateReload          \* history: a change was followed by a reload after a stop

history == <<commands, memoryRestarts, wanted, timedOut, overlapped, lateReload>>
vars == <<proc, history>>

Ids(p) == DOMAIN p.children
Alive(p) == {c \in Ids(p) : p.children[c].life # "gone"}

\* Alive and told by nobody to stop.
Running(p) == {c \in Alive(p) : ~p.children[c].asked /\ ~p.children[c].killed}
----------------------------------------------------------------------------
(* Children start, ... *)

Fresh == [life |-> "launching", asked |-> FALSE, killed |-> FALSE, reported |-> FALSE]
Gone == [Fresh EXCEPT !.life = "gone"]

\* startFork(), n times over, with the launch timer it arms.
StartFork(p, n) ==
    [p EXCEPT !.children = @ \o [c \in 1..n |-> Fresh], !.forkProcess = Len(p.children) + n,
              !.forkReady = FALSE, !.launchTimer = TRUE]

\* start(), n times over
OpensWatcher(p, n) ==
    [p EXCEPT !.opened = @ + n, !.watcher = p.opened + n, !.open = @ \cup p.opened + 1..p.opened + n]

Start(p, n) == IF p.watch THEN OpensWatcher(StartFork(p, n), n) ELSE StartFork(p, n)

\* ... and are stopped by coroutines that go on when they have exited.
ResetCounters(p) == [p EXCEPT !.forkRestarts = 0, !.respawns = 0, !.gaveUp = FALSE]

\* So many calls of restart() and memoryRestartFork() go on; each starts a child.
Resume(p, restarts, memory) ==
    IF restarts + memory = 0 THEN p
    ELSE LET q == [p EXCEPT !.isShuttingDown = FALSE]
         IN Start(IF restarts = 0 THEN q ELSE ResetCounters(q), restarts + memory)

ResumeOne(p, kind) ==
    Resume(p, IF kind \in {"restart", "reload"} THEN 1 ELSE 0, IF kind = "memory" THEN 1 ELSE 0)

\* A signal is lost on a child that is gone.
Mark(p, c, signal) ==
    IF c \in Alive(p) THEN [p EXCEPT !.children[c][signal] = TRUE] ELSE p

Adds(p, call) == [p EXCEPT !.calls = @ (+) SetToBag({call})]
Drops(p, call) == [p EXCEPT !.calls = @ (-) SetToBag({call})]

\* stopFork(): with no child to wait for the call goes right on.
Waits(kind, c) == [kind |-> kind, child |-> c, closing |-> FALSE]
Awaits(p, kind) ==
    IF p.forkProcess = 0 THEN ResumeOne(p, kind)
    ELSE Adds(Mark(p, p.forkProcess, "asked"), Waits(kind, p.forkProcess))

\* stop() up to its first await: a watcher is closed, which is waited for, or the child is.
Closes(kind) == [kind |-> kind, child |-> 0, closing |-> TRUE]
Begin(p, kind) ==
    LET q == [p EXCEPT !.isShuttingDown = TRUE, !.launchTimer = FALSE, !.open = @ \ {p.watcher}]
    IN IF p.watcher = 0 THEN Awaits(q, kind) ELSE Adds(q, Closes(kind))

\* Wakes the coroutines that await child c.
WakeCallers(p, c) ==
    LET others == {call \in DOMAIN p.calls : call.child # c}
        waiting(kind) == IF Waits(kind, c) \in DOMAIN p.calls THEN p.calls[Waits(kind, c)] ELSE 0
    IN Resume([p EXCEPT !.calls = [call \in others |-> p.calls[call]]],
              waiting("restart") + waiting("reload"), waiting("memory"))
----------------------------------------------------------------------------
(* The 'exit' event. *)

UnexpectedAlways(p) == TRUE
Unexpected(p) == ~p.isShuttingDown

MayRespawn(p) == p.forkRestarts < MaxRestarts

GiveUp(p) == [p EXCEPT !.gaveUp = TRUE, !.forkProcess = 0]

Crashed(p) ==
    IF MayRespawn(p) THEN [p EXCEPT !.forkRestarts = @ + 1, !.backoffs = @ + 1] ELSE GiveUp(p)

\* The launch timer is cleared whichever child exits.
Bury(p, c) == [p EXCEPT !.children[c] = Gone, !.launchTimer = FALSE]

\* The handler, then the listeners of the stops that found this child.
Exited(p, c, clean) ==
    LET q == Bury(p, c)
        handled == IF Unexpected(q) /\ ~clean THEN Crashed(q) ELSE [q EXCEPT !.forkProcess = 0]
    IN WakeCallers(IF p.children[c].asked THEN [handled EXCEPT !.forkProcess = 0] ELSE handled, c)
----------------------------------------------------------------------------
(* The turns of the event loop. *)

Launched ==
    [children |-> <<Fresh>>, forkProcess |-> 1, isShuttingDown |-> FALSE,
     forkRestarts |-> 0, forkReady |-> FALSE, launchTimer |-> TRUE,
     backoffs |-> 0, calls |-> EmptyBag, respawns |-> 0, gaveUp |-> FALSE,
     watch |-> FALSE, watcher |-> 0, open |-> {}, opened |-> 0, timers |-> {}]

Init ==
    /\ proc \in {Launched, OpensWatcher([Launched EXCEPT !.watch = TRUE], 1)}
    /\ commands = 0
    /\ memoryRestarts = 0
    /\ wanted = "up"
    /\ timedOut = FALSE /\ overlapped = FALSE /\ lateReload = FALSE

\* The 'ready' message, or the probe's 'listening', of child c.
Ready(c) ==
    /\ proc.children[c].life = "launching"
    /\ ~proc.children[c].killed
    /\ proc' = [proc EXCEPT !.children[c].life = "ready", !.forkReady = TRUE, !.launchTimer = FALSE]
    /\ UNCHANGED history

\* The launch timer: an error is reported, nothing more.
LaunchTimeout ==
    /\ proc.launchTimer
    /\ LET due == ~proc.forkReady /\ proc.forkProcess # 0 /\ ~proc.isShuttingDown
           p == [proc EXCEPT !.launchTimer = FALSE]
       IN proc' = IF due THEN Mark(p, p.forkProcess, "reported") ELSE p
    /\ UNCHANGED history

\* A child ends by itself, or as it was told to: with code 0 or without.
Exit(c) ==
    /\ proc.children[c].life # "gone"
    /\ \E clean \in BOOLEAN : proc' = Exited(proc, c, clean)
    /\ UNCHANGED history

Killed(c) == proc.children[c].killed /\ Exit(c)

StartDueIfNone(p) == ~p.isShuttingDown /\ p.forkProcess = 0
StartDue(p) == ~p.isShuttingDown

\* A backoff timer fires; nothing cancels it.
BackoffEnds ==
    /\ proc.backoffs > 0
    /\ LET p == [proc EXCEPT !.backoffs = @ - 1]
       IN proc' = IF StartDue(p) THEN [StartFork(p, 1) EXCEPT !.respawns = @ + 1] ELSE p
    /\ UNCHANGED history

\* The kill timer of a call: SIGKILL, and the coroutine goes on without the exit.
KillAndWait(p, call) == Mark(p, call.child, "killed")
KillAndGoOn(p, call) == ResumeOne(Drops(Mark(p, call.child, "killed"), call), call.kind)

KillTimeout ==
    \E call \in DOMAIN proc.calls :
        /\ ~call.closing
        /\ proc' = KillAndGoOn(proc, call)
        /\ timedOut' = TRUE
        /\ UNCHANGED <<commands, memoryRestarts, wanted, overlapped, lateReload>>

\* The watcher is closed; the child the stop waits for is the one there is now.
WatcherClosed ==
    \E call \in DOMAIN proc.calls :
        /\ call.closing
        /\ proc' = Awaits([Drops(proc, call) EXCEPT !.watcher = 0], call.kind)
        /\ UNCHANGED history

Called == overlapped' = (overlapped \/ proc.calls # EmptyBag)

UserCommand(intent) ==
    /\ commands + memoryRestarts < MaxCommands
    /\ commands' = commands + 1
    /\ wanted' = intent
    /\ Called
    /\ UNCHANGED <<memoryRestarts, timedOut, lateReload>>

Stop == UserCommand("down") /\ proc' = Begin(proc, "stop")
Restart == UserCommand("up") /\ proc' = Begin(proc, "restart")

\* forceKill(): no call waits for the child, and the daemon forgets the process: no
\* command follows.
ForceKill ==
    /\ commands' = MaxCommands
    /\ wanted' = "down"
    /\ Called
    /\ UNCHANGED <<memoryRestarts, timedOut, lateReload>>
    /\ LET c == proc.forkProcess
           p == [proc EXCEPT !.isShuttingDown = TRUE, !.launchTimer = FALSE, !.forkProcess = 0]
       IN proc' = Mark(p, c, "killed")

OverLimit(p) == ~p.isShuttingDown

\* checkMemoryThreshold(): the figure it looks at may be that of a child now dead.  The
\* cooldown only spaces these restarts out.
MemoryRestart ==
    /\ memoryRestarts < MaxMemoryRestarts /\ commands + memoryRestarts < MaxCommands
    /\ OverLimit(proc)
    /\ proc' = Begin([proc EXCEPT !.forkRestarts = @ + 1], "memory")
    /\ memoryRestarts' = memoryRestarts + 1
    /\ Called
    /\ UNCHANGED <<commands, wanted, timedOut, lateReload>>

\* A file changes; the timer starts again.
Change(w) ==
    /\ commands + memoryRestarts < MaxCommands /\ commands' = commands + 1
    /\ proc' = [proc EXCEPT !.timers = @ \cup {w}]
    /\ UNCHANGED <<memoryRestarts, wanted, timedOut, overlapped, lateReload>>

\* watch:reload, which is a restart, unless one such is under way.
WatchReload(w) ==
    LET p == [proc EXCEPT !.timers = @ \ {w}]
    IN /\ proc' = IF \E call \in DOMAIN p.calls : call.kind = "reload" THEN p
                  ELSE Begin(p, "reload")
       /\ Called
       /\ lateReload' = (lateReload \/ wanted = "down")
       /\ UNCHANGED <<commands, memoryRestarts, wanted, timedOut>>

\* getInfo(), getStatus(): what the daemon's list shows.
Status == CASE proc.forkProcess = 0 -> "stopped"
            [] proc.forkProcess # 0 /\ proc.isShuttingDown -> "stopping"
            [] OTHER -> "online"

Next ==
    \/ \E c \in Ids(proc) : Ready(c) \/ Exit(c)
    \/ LaunchTimeout \/ BackoffEnds \/ KillTimeout \/ WatcherClosed
    \/ (\E w \in proc.open : Change(w)) \/ (\E w \in proc.timers : WatchReload(w))
    \/ Stop \/ Restart \/ ForceKill \/ MemoryRestart

Spec == Init /\ [][Next]_vars

\* Timers fire, watchers close, and a child that was sent SIGKILL dies.  Calls and children
\* are bounded, so that no one of these can for ever be kept from happening by the others.
Fires ==
    \/ BackoffEnds \/ KillTimeout \/ WatcherClosed
    \/ \E c \in Ids(proc) : Killed(c)

FairSpec == Spec /\ WF_proc(Fires)
----------------------------------------------------------------------------
(* Properties. *)

Call == [kind : {"stop", "restart", "memory", "reload"}, child : Nat, closing : BOOLEAN]
Child == [life : {"launching", "ready", "gone"}, asked : BOOLEAN, killed : BOOLEAN,
          reported : BOOLEAN]

\* The types: a held or awaited child was forked, and the restart counter within its bounds
\* (ManagedProcess.ts:321, 816).
TypeOK ==
    /\ proc.children \in Seq(Child)
    /\ proc.forkProcess \in 0..Len(proc.children)
    /\ IsABag(proc.calls) /\ DOMAIN proc.calls \subseteq Call
    /\ \A call \in DOMAIN proc.calls : call.closing \/ call.child \in Ids(proc)
    /\ proc.forkRestarts \in 0..MaxRestarts + memoryRestarts
    /\ {proc.backoffs, proc.respawns} \subseteq Nat
    /\ {proc.isShuttingDown, proc.forkReady, proc.launchTimer, proc.gaveUp} \subseteq BOOLEAN
    /\ commands \in 0..MaxCommands
    /\ memoryRestarts \in 0..MaxMemoryRestarts
    /\ wanted \in {"up", "down"}
    /\ proc.open \cup proc.timers \subseteq 1..proc.opened
    /\ {timedOut, overlapped, lateReload} \subseteq BOOLEAN

\* One call at a time, each of which saw its child exit, and no reload that a change before a
\* stop caused after it.
Orderly == ~timedOut /\ ~overlapped /\ ~lateReload

\* "single child process" (ManagedProcess.ts:52): no child runs but the one held, and when
\* nothing is pending the one held does, or is on its way out, whatever crashes, stops and
\* restarts went before, as long as the calls did not overlap and none timed out.
OneChild ==
    Orderly =>
        /\ Running(proc) \subseteq {proc.forkProcess}
        /\ ~proc.isShuttingDown /\ proc.backoffs = 0 /\ proc.forkProcess # 0 =>
               proc.forkProcess \in Running(proc)

\* The launch timer is armed for a child that runs and has not signalled, and for no other:
\* no hung start goes unreported, no report is made of a child that is up or gone.
LaunchWatched ==
    Orderly =>
        LET c == proc.forkProcess
            hung == c \in Running(proc) /\ proc.children[c].life = "launching"
                    /\ ~proc.children[c].reported /\ ~proc.isShuttingDown
        IN proc.launchTimer <=> hung

\* --max-restarts is exact: never more crashes are answered with a new child, and with no
\* restart for memory the app is given up only after that many.
LimitExact ==
    Orderly =>
        /\ proc.respawns <= MaxRestarts
        /\ proc.gaveUp /\ memoryRestarts = 0 => proc.respawns = MaxRestarts

\* What was told to stop stays stopped: no timer, exit or memory check forks a child for it.
StaysStopped ==
    Orderly /\ wanted = "down" /\ proc.calls = EmptyBag => Running(proc) = {}

\* With no call under way the list shows an app as online when a child of it runs or is about
\* to be started again, and as stopped otherwise (ManagedProcess.ts:1141-1151).
ListedTruly ==
    Orderly /\ proc.calls = EmptyBag =>
        Status = IF Running(proc) # {} \/ (proc.backoffs > 0 /\ StartDue(proc)) THEN "online"
                 ELSE "stopped"

\* The supervision of one process: its child, its launch timer, its restart limit and its
\* stops, in every order of exits, timers and calls (ManagedProcess.ts:306-355, 924-950).
Supervised == TypeOK /\ OneChild /\ LaunchWatched /\ LimitExact /\ StaysStopped /\ ListedTruly

\* Every stop and restart returns, one that awaits the exit of a child already dead included.
CallsReturn == proc.calls # EmptyBag ~> proc.calls = EmptyBag

\* A crash that may be answered is: a new child runs, unless the app is being stopped.
Recovers == proc.backoffs > 0 ~> Running(proc) # {} \/ proc.isShuttingDown

\* src/README.md:233 says that a restart for memory does not count toward --max-restarts: an
\* app is given up only after the restarts it may have.  A restart for memory that is counted
\* falsifies it.
MemoryRestartsAreFree == Orderly /\ proc.gaveUp => proc.respawns = MaxRestarts
=============================================================================
