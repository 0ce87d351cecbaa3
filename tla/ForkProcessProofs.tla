-------------------------- MODULE ForkProcessProofs --------------------------
(***************************************************************************)
(* What holds of the supervision of a forked child for any restart limit   *)
(* and any number of commands.                                             *)
(***************************************************************************)
EXTENDS ForkProcess, SequenceTheorems, TLAPS

(* The state of ManagedProcess. *)

CallBags == UNION {[S -> Nat \ {0}] : S \in SUBSET Call}

State ==
    [children : Seq(Child), forkProcess : Nat, isShuttingDown : BOOLEAN, forkRestarts : Nat,
     forkReady : BOOLEAN, launchTimer : BOOLEAN, backoffs : Nat, calls : CallBags, respawns : Nat,
     gaveUp : BOOLEAN, watch : BOOLEAN, watcher : Nat, open : SUBSET Nat, opened : Nat,
     timers : SUBSET Nat]

\* A held or awaited child was forked, an open watcher opened, and the restarts are bounded.
Linked(p, memory) ==
    /\ p.forkProcess <= Len(p.children)
    /\ \A call \in DOMAIN p.calls : IF call.closing THEN call.child = 0
                                                    ELSE call.child \in DOMAIN p.children
    /\ p.forkRestarts <= MaxRestarts + memory
    /\ p.open \cup p.timers \subseteq 1..p.opened

Typed(p, memory) == p \in State /\ Linked(p, memory)

Numbers ==
    /\ Typed(proc, memoryRestarts)
    /\ commands \in 0..MaxCommands /\ memoryRestarts \in 0..MaxMemoryRestarts
    /\ wanted \in {"up", "down"}
    /\ {timedOut, overlapped, lateReload} \subseteq BOOLEAN

(* The calls of an orderly process: one at most, and what it goes with. *)

Alone(p) ==
    \A call \in DOMAIN p.calls :
        p.calls[call] = 1 /\ \A other \in DOMAIN p.calls : other = call

Awaited(p) == \E call \in DOMAIN p.calls : ~call.closing

CallsFit(p, want, memory) ==
    /\ want = "down" => p.isShuttingDown
    /\ p.isShuttingDown /\ p.calls = EmptyBag => want = "down" /\ p.forkProcess = 0
    /\ \A call \in DOMAIN p.calls :
          /\ p.isShuttingDown /\ (call.kind = "stop" <=> want = "down")
          /\ call.kind = "memory" => memory # 0
          /\ ~call.closing => call.child = p.forkProcess /\ p.forkProcess # 0

\* After a forced kill nothing starts a child.
Over(p, want, given) ==
    want = "down" /\ given = MaxCommands /\ p.isShuttingDown /\ p.calls = EmptyBag

\* The child that lives is the one held, which was asked to stop if a call awaits it; or it was
\* killed by force.
ChildHeld(p, over) ==
    /\ \A c \in Alive(p) :
          \/ /\ c = p.forkProcess /\ ~p.children[c].killed
             /\ p.children[c].asked <=> Awaited(p)
          \/ p.forkProcess = 0 /\ p.children[c].killed /\ over
    /\ ~p.isShuttingDown /\ p.backoffs = 0 /\ p.forkProcess # 0 => p.forkProcess \in Alive(p)

\* A backoff runs when the child held is dead.
BackoffFits(p, over) ==
    p.backoffs > 0 => p.backoffs = 1 /\ p.forkProcess \notin Alive(p) /\ (p.forkProcess = 0 => over)

TimerFits(p) ==
    LET c == p.forkProcess
    IN /\ p.launchTimer <=> /\ c \in Running(p) /\ p.children[c].life = "launching"
                            /\ ~p.children[c].reported /\ ~p.isShuttingDown
       /\ p.launchTimer => ~p.forkReady

\* Restarts are counted once each; those for memory come on top.
CountsFit(p, memory) ==
    /\ p.respawns + p.backoffs <= p.forkRestarts /\ p.respawns + p.backoffs <= MaxRestarts
    /\ memory = 0 /\ ~p.isShuttingDown => p.forkRestarts = p.respawns + p.backoffs
    /\ p.gaveUp /\ memory = 0 => p.respawns = MaxRestarts /\ p.backoffs = 0 /\ p.forkProcess = 0

Sound(p, want, given, memory) ==
    /\ Alone(p) /\ CallsFit(p, want, memory)
    /\ ChildHeld(p, Over(p, want, given)) /\ BackoffFits(p, Over(p, want, given))
    /\ TimerFits(p) /\ CountsFit(p, memory)

\* The inductive invariant: the types, and how an orderly process stands.
SupervisionInv == Numbers /\ (Orderly => Sound(proc, wanted, commands, memoryRestarts))
----------------------------------------------------------------------------
(* Bags of calls. *)

LEMMA BagType ==
    \A b : b \in CallBags <=> DOMAIN b \subseteq Call /\ b \in [DOMAIN b -> Nat \ {0}]
BY DEF CallBags

LEMMA NoCall == EmptyBag \in CallBags /\ DOMAIN EmptyBag = {}
                /\ \A b \in CallBags : DOMAIN b = {} => b = EmptyBag
<1>1. EmptyBag = [e \in {} |-> 1]
  BY DEF EmptyBag, SetToBag
<1>2. DOMAIN EmptyBag = {} /\ EmptyBag \in [DOMAIN EmptyBag -> Nat \ {0}]
  BY <1>1
<1>3. EmptyBag \in CallBags
  BY <1>2, BagType
<1>4. ASSUME NEW b \in CallBags, DOMAIN b = {}
      PROVE  b = EmptyBag
  BY <1>1, <1>4 DEF CallBags
<1> QED
  BY <1>2, <1>3, <1>4

LEMMA AddCall ==
    ASSUME NEW b \in CallBags, NEW call \in Call
    PROVE  LET d == b (+) SetToBag({call})
           IN /\ d \in CallBags /\ DOMAIN d = DOMAIN b \cup {call}
              /\ b = EmptyBag => d[call] = 1
<1> DEFINE d == b (+) SetToBag({call})
<1>1. DOMAIN b \subseteq Call /\ b \in [DOMAIN b -> Nat \ {0}]
  BY BagType
<1>2. d = [e \in DOMAIN b \cup {call} |->
             (IF e \in DOMAIN b THEN b[e] ELSE 0) + (IF e \in {call} THEN 1 ELSE 0)]
  BY DEF (+), SetToBag
<1> HIDE DEF d
<1>3. DOMAIN d = DOMAIN b \cup {call} /\ d \in [DOMAIN d -> Nat \ {0}]
  BY <1>1, <1>2
<1>4. d \in CallBags
  BY <1>1, <1>3, BagType
<1>5. b = EmptyBag => d[call] = 1
  BY <1>2 DEF EmptyBag, SetToBag
<1> QED
  BY <1>3, <1>4, <1>5 DEF d

LEMMA DropCall ==
    ASSUME NEW b \in CallBags, NEW call \in DOMAIN b
    PROVE  LET d == b (-) SetToBag({call})
           IN /\ d \in CallBags /\ DOMAIN d \subseteq DOMAIN b
              /\ b[call] = 1 => DOMAIN d = DOMAIN b \ {call}
<1> DEFINE less == [e \in DOMAIN b |-> IF e \in {call} THEN b[e] - 1 ELSE b[e]]
           d == b (-) SetToBag({call})
<1>1. DOMAIN b \subseteq Call /\ b \in [DOMAIN b -> Nat \ {0}]
  BY BagType
<1>2. d = [e \in {x \in DOMAIN less : less[x] > 0} |-> less[e]]
  BY DEF (-), SetToBag
<1>3. DOMAIN less = DOMAIN b /\ \A e \in DOMAIN b : less[e] \in Nat
                            /\ (e # call => less[e] > 0) /\ (b[call] = 1 => less[call] = 0)
  BY <1>1
<1> HIDE DEF d, less
<1>4. DOMAIN d \subseteq DOMAIN b /\ d \in [DOMAIN d -> Nat \ {0}]
  BY <1>2, <1>3
<1>5. b[call] = 1 => DOMAIN d = DOMAIN b \ {call}
  BY <1>2, <1>3
<1>6. d \in CallBags
  BY <1>1, <1>4, BagType
<1> QED
  BY <1>4, <1>5, <1>6 DEF d

LEMMA KeepCalls ==
    ASSUME NEW b \in CallBags, NEW S \in SUBSET (DOMAIN b)
    PROVE  LET d == [call \in S |-> b[call]]
           IN d \in CallBags /\ DOMAIN d = S /\ (S = DOMAIN b => d = b)
<1> DEFINE d == [call \in S |-> b[call]]
<1>1. DOMAIN b \subseteq Call /\ b \in [DOMAIN b -> Nat \ {0}]
  BY BagType
<1>2. DOMAIN d = S /\ d \in [DOMAIN d -> Nat \ {0}]
  BY <1>1
<1>3. S = DOMAIN b => d = b
  BY <1>1
<1> HIDE DEF d
<1>4. d \in CallBags
  BY <1>1, <1>2, BagType
<1> QED
  BY <1>2, <1>3, <1>4 DEF d
----------------------------------------------------------------------------
(* What the operators make of a process. *)

WatchersFit(p) == p.open \cup p.timers \subseteq 1..p.opened

LEMMA StateFields ==
    ASSUME NEW p \in State
    PROVE  /\ p.children \in Seq(Child) /\ Len(p.children) \in Nat
           /\ DOMAIN p.children = 1..Len(p.children)
           /\ \A c \in DOMAIN p.children : p.children[c] \in Child
           /\ p.forkProcess \in Nat /\ p.forkRestarts \in Nat /\ p.backoffs \in Nat
           /\ p.respawns \in Nat /\ p.calls \in CallBags
           /\ p.isShuttingDown \in BOOLEAN /\ p.launchTimer \in BOOLEAN /\ p.gaveUp \in BOOLEAN
           /\ p.forkReady \in BOOLEAN /\ p.opened \in Nat /\ p.watcher \in Nat
<1>1. p.children \in Seq(Child)
  BY DEF State
<1>2. Len(p.children) \in Nat /\ DOMAIN p.children = 1..Len(p.children)
  BY <1>1
<1> QED
  BY <1>1, <1>2 DEF State

\* q is p but for its children, the timer of their launch and the watchers.
SameCalls(p, q) == q.calls = p.calls /\ q.backoffs = p.backoffs
SameCounts(p, q) == q.forkRestarts = p.forkRestarts /\ q.respawns = p.respawns /\ q.gaveUp = p.gaveUp

Forks(p, q, n) ==
    /\ q.children = p.children \o [c \in 1..n |-> Fresh] /\ q.forkProcess = Len(p.children) + n
    /\ ~q.forkReady /\ q.launchTimer

LEMMA StartForkFields ==
    ASSUME NEW p \in State, NEW n \in Nat \ {0}, NEW q, q = StartFork(p, n)
    PROVE  /\ q \in State /\ Forks(p, q, n) /\ SameCalls(p, q) /\ SameCounts(p, q)
           /\ q.isShuttingDown = p.isShuttingDown
           /\ q.open = p.open /\ q.opened = p.opened /\ q.timers = p.timers /\ q.watch = p.watch
<1> DEFINE new == p.children \o [c \in 1..n |-> Fresh]
           held == Len(p.children) + n
<1>1. [c \in 1..n |-> Fresh] \in Seq(Child)
  BY DEF Fresh, Child
<1>2. new \in Seq(Child) /\ held \in Nat
  BY <1>1, StateFields
<1>3. q = [p EXCEPT !.children = new, !.forkProcess = held, !.forkReady = FALSE, !.launchTimer = TRUE]
  BY DEF StartFork
<1>4. Forks(p, q, n) <=> q.children = new /\ q.forkProcess = held /\ ~q.forkReady /\ q.launchTimer
  BY DEF Forks
<1> HIDE DEF new, held
<1>5. q \in State
  BY <1>2, <1>3 DEF State
<1> QED
  BY <1>2, <1>3, <1>4, <1>5 DEF State, SameCalls, SameCounts

LEMMA StartFields ==
    ASSUME NEW p \in State, NEW n \in Nat \ {0}, NEW q, q = Start(p, n)
    PROVE  /\ q \in State /\ Forks(p, q, n) /\ SameCalls(p, q) /\ SameCounts(p, q)
           /\ q.isShuttingDown = p.isShuttingDown
           /\ WatchersFit(p) => WatchersFit(q)
<1> DEFINE r == StartFork(p, n)
<1>1. /\ r \in State /\ Forks(p, r, n) /\ SameCalls(p, r) /\ SameCounts(p, r)
      /\ r.isShuttingDown = p.isShuttingDown
      /\ r.open = p.open /\ r.opened = p.opened /\ r.timers = p.timers /\ r.watch = p.watch
  BY StartForkFields
<1> HIDE DEF r
<1>2. CASE ~p.watch
  <2>1. q = r
    BY <1>2 DEF Start, r
  <2> QED
    BY <1>1, <2>1 DEF WatchersFit
<1>3. CASE p.watch
  <2> DEFINE opened == r.opened + n
             open == r.open \cup r.opened + 1..r.opened + n
  <2>1. q = [r EXCEPT !.opened = opened, !.watcher = opened, !.open = open]
    BY <1>3 DEF Start, r, OpensWatcher
  <2>2. opened \in Nat /\ open \in SUBSET Nat
    BY <1>1, SMTT(20) DEF State
  <2>3. WatchersFit(p) => open \cup r.timers \subseteq 1..opened
    BY <1>1, StateFields DEF WatchersFit
  <2> HIDE DEF opened, open
  <2>4. q \in State /\ q.open = open /\ q.opened = opened /\ q.timers = r.timers
    BY <1>1, <2>1, <2>2 DEF State
  <2>5. Forks(p, q, n) /\ SameCalls(p, q) /\ SameCounts(p, q) /\ q.isShuttingDown = p.isShuttingDown
    BY <1>1, <2>1, <2>2, SMTT(20) DEF State, Forks, SameCalls, SameCounts
  <2> QED
    BY <2>3, <2>4, <2>5 DEF WatchersFit
<1>4. p.watch \in BOOLEAN
  BY DEF State
<1> QED
  BY <1>2, <1>3, <1>4

\* A call goes on and starts a child, or n do.
Resumed(p, q, n, reset) ==
    /\ q \in State /\ Forks(p, q, n) /\ SameCalls(p, q) /\ ~q.isShuttingDown
    /\ IF reset THEN q.forkRestarts = 0 /\ q.respawns = 0 /\ ~q.gaveUp ELSE SameCounts(p, q)
    /\ WatchersFit(p) => WatchersFit(q)

LEMMA ResumeFields ==
    ASSUME NEW p \in State, NEW r \in Nat, NEW m \in Nat, NEW q, q = Resume(p, r, m)
    PROVE  IF r + m = 0 THEN q = p ELSE Resumed(p, q, r + m, r # 0)
<1>1. CASE r + m = 0
  BY <1>1 DEF Resume
<1>2. CASE r + m # 0
  <2> DEFINE a == [p EXCEPT !.isShuttingDown = FALSE]
             b == IF r = 0 THEN a ELSE ResetCounters(a)
  <2>1. q = Start(b, r + m) /\ r + m \in Nat \ {0}
    BY <1>2 DEF Resume
  <2>2. /\ a \in State /\ ~a.isShuttingDown /\ a.children = p.children /\ SameCalls(p, a)
        /\ SameCounts(p, a) /\ a.open = p.open /\ a.opened = p.opened /\ a.timers = p.timers
    BY DEF State, SameCalls, SameCounts
  <2> HIDE DEF a
  <2>3. /\ b \in State /\ ~b.isShuttingDown /\ b.children = p.children /\ SameCalls(p, b)
        /\ b.open = p.open /\ b.opened = p.opened /\ b.timers = p.timers
        /\ IF r # 0 THEN b.forkRestarts = 0 /\ b.respawns = 0 /\ ~b.gaveUp ELSE SameCounts(p, b)
    <3>1. CASE r = 0
      BY <2>2, <3>1
    <3>2. CASE r # 0
      <4>1. b = [a EXCEPT !.forkRestarts = 0, !.respawns = 0, !.gaveUp = FALSE]
        BY <3>2 DEF ResetCounters
      <4> HIDE DEF b
      <4> QED
        BY <2>2, <3>2, <4>1 DEF State, SameCalls
    <3> QED
      BY <3>1, <3>2
  <2> HIDE DEF b
  <2>4. /\ q \in State /\ Forks(b, q, r + m) /\ SameCalls(b, q) /\ SameCounts(b, q)
        /\ q.isShuttingDown = b.isShuttingDown /\ (WatchersFit(b) => WatchersFit(q))
    BY <2>1, <2>3, StartFields
  <2>5. WatchersFit(p) => WatchersFit(q)
    BY <2>3, <2>4 DEF WatchersFit
  <2>6. Forks(p, q, r + m)
    BY <2>3, <2>4 DEF Forks
  <2>7. SameCalls(p, q) /\ ~q.isShuttingDown
    BY <2>3, <2>4 DEF SameCalls
  <2>8. IF r # 0 THEN q.forkRestarts = 0 /\ q.respawns = 0 /\ ~q.gaveUp ELSE SameCounts(p, q)
    BY <2>3, <2>4 DEF SameCounts
  <2> QED
    BY <1>2, <2>4, <2>5, <2>6, <2>7, <2>8 DEF Resumed
<1> QED
  BY <1>1, <1>2
LEMMA ResumeOneFields ==
    ASSUME NEW p \in State, NEW kind \in {"stop", "restart", "memory", "reload"},
           NEW q, q = ResumeOne(p, kind)
    PROVE  IF kind = "stop" THEN q = p ELSE Resumed(p, q, 1, kind # "memory")
<1> DEFINE r == IF kind \in {"restart", "reload"} THEN 1 ELSE 0
           m == IF kind = "memory" THEN 1 ELSE 0
<1>1. r \in Nat /\ m \in Nat /\ q = Resume(p, r, m)
  BY DEF ResumeOne
<1>2. IF r + m = 0 THEN q = p ELSE Resumed(p, q, r + m, r # 0)
  BY <1>1, ResumeFields
<1>3. (kind = "stop" => r + m = 0) /\ (kind # "stop" => r + m = 1 /\ (r # 0 <=> kind # "memory"))
  OBVIOUS
<1> QED
  BY <1>2, <1>3

\* All but the children.
SameRest(p, q) ==
    /\ q.forkProcess = p.forkProcess /\ q.isShuttingDown = p.isShuttingDown
    /\ q.forkReady = p.forkReady /\ q.launchTimer = p.launchTimer
    /\ SameCalls(p, q) /\ SameCounts(p, q)
    /\ q.open = p.open /\ q.opened = p.opened /\ q.timers = p.timers /\ q.watcher = p.watcher

\* One child is another record.
OneChanged(p, q, c, child) ==
    /\ q.children \in Seq(Child) /\ DOMAIN q.children = DOMAIN p.children
    /\ Len(q.children) = Len(p.children)
    /\ \A d \in DOMAIN p.children : q.children[d] = IF d = c THEN child ELSE p.children[d]

LEMMA ChangeChild ==
    ASSUME NEW p \in State, NEW c \in DOMAIN p.children, NEW child \in Child, NEW q,
           q = [p EXCEPT !.children = [p.children EXCEPT ![c] = child]]
    PROVE  q \in State /\ OneChanged(p, q, c, child) /\ SameRest(p, q)
<1> DEFINE new == [p.children EXCEPT ![c] = child]
<1>1. /\ new \in Seq(Child) /\ DOMAIN new = DOMAIN p.children /\ Len(new) = Len(p.children)
      /\ \A d \in DOMAIN p.children : new[d] = IF d = c THEN child ELSE p.children[d]
  BY StateFields
<1>2. q = [p EXCEPT !.children = new]
  OBVIOUS
<1> HIDE DEF new
<1>3. q \in State /\ q.children = new
  BY <1>1, <1>2 DEF State
<1>4. SameRest(p, q)
  BY <1>2 DEF State, SameRest, SameCalls, SameCounts
<1> QED
  BY <1>1, <1>3, <1>4 DEF OneChanged

\* A child alive is marked, another is not.
LEMMA MarkFields ==
    ASSUME NEW p \in State, NEW c, NEW signal \in {"asked", "killed", "reported"},
           NEW q, q = Mark(p, c, signal)
    PROVE  /\ q \in State /\ SameRest(p, q)
           /\ DOMAIN q.children = DOMAIN p.children /\ Len(q.children) = Len(p.children)
           /\ c \notin Alive(p) => q = p
           /\ c \in Alive(p) => OneChanged(p, q, c, [p.children[c] EXCEPT ![signal] = TRUE])
<1>1. CASE c \notin Alive(p)
  BY <1>1 DEF Mark, SameRest, SameCalls, SameCounts
<1>2. CASE c \in Alive(p)
  <2> DEFINE child == [p.children[c] EXCEPT ![signal] = TRUE]
  <2>1. c \in DOMAIN p.children /\ p.children[c] \in Child
    BY <1>2, StateFields DEF Alive, Ids
  <2>2. child \in Child
    <3>1. CASE signal = "asked"
      BY <2>1, <3>1 DEF Child
    <3>2. CASE signal = "killed"
      BY <2>1, <3>2 DEF Child
    <3>3. CASE signal = "reported"
      BY <2>1, <3>3 DEF Child
    <3> QED
      BY <3>1, <3>2, <3>3
  <2>3. q = [p EXCEPT !.children = [p.children EXCEPT ![c] = child]]
    BY <1>2 DEF Mark
  <2> HIDE DEF child
  <2>4. q \in State /\ OneChanged(p, q, c, child) /\ SameRest(p, q)
    BY <2>1, <2>2, <2>3, ChangeChild
  <2> QED
    BY <1>2, <2>4 DEF child, OneChanged
<1> QED
  BY <1>1, <1>2

\* All but the calls.
SameButCalls(p, q) ==
    /\ q.children = p.children /\ q.forkProcess = p.forkProcess
    /\ q.isShuttingDown = p.isShuttingDown /\ q.backoffs = p.backoffs
    /\ q.forkReady = p.forkReady /\ q.launchTimer = p.launchTimer /\ SameCounts(p, q)
    /\ q.open = p.open /\ q.opened = p.opened /\ q.timers = p.timers

LEMMA CallsChange ==
    ASSUME NEW p \in State, NEW b \in CallBags, NEW q, q = [p EXCEPT !.calls = b]
    PROVE  q \in State /\ q.calls = b /\ SameButCalls(p, q)
BY DEF State, SameButCalls, SameCounts

LEMMA AddsFields ==
    ASSUME NEW p \in State, NEW call \in Call, NEW q, q = Adds(p, call)
    PROVE  /\ q \in State /\ SameButCalls(p, q) /\ DOMAIN q.calls = DOMAIN p.calls \cup {call}
           /\ p.calls = EmptyBag => q.calls[call] = 1
<1> DEFINE b == p.calls (+) SetToBag({call})
<1>1. /\ b \in CallBags /\ DOMAIN b = DOMAIN p.calls \cup {call}
      /\ p.calls = EmptyBag => b[call] = 1
  BY AddCall, StateFields
<1>2. q = [p EXCEPT !.calls = b]
  BY DEF Adds
<1> HIDE DEF b
<1>3. q \in State /\ q.calls = b /\ SameButCalls(p, q)
  BY <1>1, <1>2, CallsChange
<1> QED
  BY <1>1, <1>3

LEMMA DropsFields ==
    ASSUME NEW p \in State, NEW call \in DOMAIN p.calls, NEW q, q = Drops(p, call)
    PROVE  /\ q \in State /\ SameButCalls(p, q) /\ DOMAIN q.calls \subseteq DOMAIN p.calls
           /\ p.calls[call] = 1 => DOMAIN q.calls = DOMAIN p.calls \ {call}
<1> DEFINE b == p.calls (-) SetToBag({call})
<1>1. /\ b \in CallBags /\ DOMAIN b \subseteq DOMAIN p.calls
      /\ p.calls[call] = 1 => DOMAIN b = DOMAIN p.calls \ {call}
  BY DropCall, StateFields
<1>2. q = [p EXCEPT !.calls = b]
  BY DEF Drops
<1> HIDE DEF b
<1>3. q \in State /\ q.calls = b /\ SameButCalls(p, q)
  BY <1>1, <1>2, CallsChange
<1> QED
  BY <1>1, <1>3
Kinds == {"stop", "restart", "memory", "reload"}

\* The child held is asked to stop, if it lives, and a call waits for it.
Asks(p, q, kind) ==
    /\ q \in State /\ DOMAIN q.children = DOMAIN p.children /\ Len(q.children) = Len(p.children)
    /\ IF p.forkProcess \in Alive(p)
       THEN OneChanged(p, q, p.forkProcess, [p.children[p.forkProcess] EXCEPT !["asked"] = TRUE])
       ELSE q.children = p.children
    /\ q.forkProcess = p.forkProcess /\ q.isShuttingDown = p.isShuttingDown
    /\ q.backoffs = p.backoffs /\ q.forkReady = p.forkReady /\ q.launchTimer = p.launchTimer
    /\ SameCounts(p, q) /\ q.open = p.open /\ q.opened = p.opened /\ q.timers = p.timers
    /\ DOMAIN q.calls = DOMAIN p.calls \cup {Waits(kind, p.forkProcess)}
    /\ p.calls = EmptyBag => q.calls[Waits(kind, p.forkProcess)] = 1

LEMMA AwaitsFields ==
    ASSUME NEW p \in State, NEW kind \in Kinds, NEW q, q = Awaits(p, kind)
    PROVE  /\ p.forkProcess = 0 =>
                IF kind = "stop" THEN q = p ELSE Resumed(p, q, 1, kind # "memory")
           /\ p.forkProcess # 0 => Asks(p, q, kind)
<1>1. CASE p.forkProcess = 0
  BY <1>1, ResumeOneFields DEF Awaits, Kinds
<1>2. CASE p.forkProcess # 0
  <2> DEFINE f == p.forkProcess
             r == Mark(p, f, "asked")
             call == Waits(kind, f)
  <2>1. f \in Nat /\ call \in Call
    BY StateFields DEF Waits, Call, Kinds
  <2>2. /\ r \in State /\ SameRest(p, r)
        /\ DOMAIN r.children = DOMAIN p.children /\ Len(r.children) = Len(p.children)
        /\ f \notin Alive(p) => r = p
        /\ f \in Alive(p) => OneChanged(p, r, f, [p.children[f] EXCEPT !["asked"] = TRUE])
    BY MarkFields
  <2>3. q = Adds(r, call)
    BY <1>2 DEF Awaits
  <2> HIDE DEF r, call
  <2>4. /\ q \in State /\ SameButCalls(r, q) /\ DOMAIN q.calls = DOMAIN r.calls \cup {call}
        /\ r.calls = EmptyBag => q.calls[call] = 1
    BY <2>1, <2>2, <2>3, AddsFields
  <2>5. q.children = r.children /\ r.calls = p.calls
    BY <2>2, <2>4 DEF SameButCalls, SameRest, SameCalls
  <2>6. IF f \in Alive(p) THEN OneChanged(p, q, f, [p.children[f] EXCEPT !["asked"] = TRUE])
                          ELSE q.children = p.children
    BY <2>2, <2>5 DEF OneChanged
  <2>7. /\ q.forkProcess = f /\ q.isShuttingDown = p.isShuttingDown
        /\ q.backoffs = p.backoffs /\ q.forkReady = p.forkReady /\ q.launchTimer = p.launchTimer
        /\ SameCounts(p, q) /\ q.open = p.open /\ q.opened = p.opened /\ q.timers = p.timers
    BY <2>2, <2>4 DEF SameButCalls, SameRest, SameCalls, SameCounts
  <2> QED
    BY <1>2, <2>2, <2>4, <2>5, <2>6, <2>7 DEF Asks, call
<1> QED
  BY <1>1, <1>2

\* stop() takes note of the shutdown; its watcher, if it has one, is not open any more.
Shuts(p, q) ==
    /\ q \in State /\ q.isShuttingDown /\ ~q.launchTimer /\ q.children = p.children
    /\ q.forkProcess = p.forkProcess /\ q.forkReady = p.forkReady /\ q.watcher = p.watcher
    /\ SameCalls(p, q) /\ SameCounts(p, q)
    /\ q.open \subseteq p.open /\ q.opened = p.opened /\ q.timers = p.timers

LEMMA BeginFields ==
    ASSUME NEW p \in State, NEW kind \in Kinds
    PROVE  \E q : /\ Shuts(p, q)
                  /\ Begin(p, kind) = IF p.watcher = 0 THEN Awaits(q, kind)
                                                       ELSE Adds(q, Closes(kind))
<1> DEFINE fewer == p.open \ {p.watcher}
<1>1. PICK q : q = [p EXCEPT !.isShuttingDown = TRUE, !.launchTimer = FALSE, !.open = fewer]
  OBVIOUS
<1>2. Begin(p, kind) = IF p.watcher = 0 THEN Awaits(q, kind) ELSE Adds(q, Closes(kind))
  BY <1>1 DEF Begin
<1>3. fewer \in SUBSET Nat /\ fewer \subseteq p.open
  BY DEF State
<1> HIDE DEF fewer
<1>4. Shuts(p, q)
  BY <1>1, <1>3 DEF Shuts, State, SameCalls, SameCounts
<1> QED
  BY <1>2, <1>4
----------------------------------------------------------------------------
(* Types. *)

LEMMA LinkedLater ==
    ASSUME NEW p \in State, NEW q \in State, NEW memory \in Nat, Linked(p, memory),
           q.children = p.children \/ Len(q.children) >= Len(p.children),
           q.forkProcess <= Len(q.children),
           \A call \in DOMAIN q.calls : \/ call \in DOMAIN p.calls
                                        \/ call.closing /\ call.child = 0
                                        \/ ~call.closing /\ call.child \in DOMAIN q.children,
           q.forkRestarts <= p.forkRestarts \/ q.forkRestarts <= MaxRestarts, WatchersFit(q)
    PROVE  Linked(q, memory)
<1>1. DOMAIN p.children \subseteq DOMAIN q.children
  BY StateFields
<1>2. \A call \in DOMAIN q.calls : IF call.closing THEN call.child = 0
                                                   ELSE call.child \in DOMAIN q.children
  BY <1>1 DEF Linked
<1>3. q.forkRestarts <= MaxRestarts + memory
  BY StateFields, ForkAssumption DEF Linked
<1> QED
  BY <1>2, <1>3 DEF Linked, WatchersFit

LEMMA LinkedWatchers == \A p, memory : Linked(p, memory) => WatchersFit(p)
BY DEF Linked, WatchersFit

LEMMA ResumedTyped ==
    ASSUME NEW p \in State, NEW memory \in Nat, Linked(p, memory), NEW n \in Nat \ {0},
           NEW q, NEW reset, Resumed(p, q, n, reset)
    PROVE  Typed(q, memory)
<1>1. /\ q \in State /\ Forks(p, q, n) /\ SameCalls(p, q) /\ WatchersFit(q)
      /\ q.forkRestarts = 0 \/ q.forkRestarts = p.forkRestarts
  BY LinkedWatchers DEF Resumed, SameCounts
<1>2. Len(q.children) = Len(p.children) + n
  <2>1. [c \in 1..n |-> Fresh] \in Seq(Child) /\ Len([c \in 1..n |-> Fresh]) = n
    BY DEF Fresh, Child
  <2> HIDE DEF Fresh
  <2> QED
    BY <1>1, <2>1, StateFields DEF Forks
<1>3. q.forkProcess = Len(q.children)
  BY <1>1, <1>2 DEF Forks
<1> QED
  BY <1>1, <1>2, <1>3, LinkedLater, StateFields DEF Typed, SameCalls

LEMMA ResumeOneTyped ==
    ASSUME NEW p \in State, NEW memory \in Nat, Linked(p, memory), NEW kind \in Kinds
    PROVE  Typed(ResumeOne(p, kind), memory)
<1>1. PICK q : q = ResumeOne(p, kind)
  OBVIOUS
<1>2. IF kind = "stop" THEN q = p ELSE Resumed(p, q, 1, kind # "memory")
  BY <1>1, ResumeOneFields DEF Kinds
<1>3. CASE kind = "stop"
  BY <1>1, <1>2, <1>3 DEF Typed
<1>4. CASE kind # "stop"
  <2>1. Resumed(p, q, 1, kind # "memory") /\ 1 \in Nat \ {0}
    BY <1>2, <1>4
  <2>2. Typed(q, memory)
    BY <2>1, ResumedTyped
  <2> QED
    BY <1>1, <2>2
<1> QED
  BY <1>3, <1>4

LEMMA AwaitsTyped ==
    ASSUME NEW p \in State, NEW memory \in Nat, Linked(p, memory), NEW kind \in Kinds
    PROVE  Typed(Awaits(p, kind), memory)
<1>1. PICK q : q = Awaits(p, kind)
  OBVIOUS
<1>2. CASE p.forkProcess = 0
  BY <1>2, ResumeOneTyped DEF Awaits
<1>3. CASE p.forkProcess # 0
  <2>1. Asks(p, q, kind)
    BY <1>1, <1>3, AwaitsFields
  <2>2. p.forkProcess \in DOMAIN q.children
    BY <1>3, <2>1, StateFields DEF Linked, Asks
  <2>3. \A call \in DOMAIN q.calls : \/ call \in DOMAIN p.calls
                                     \/ ~call.closing /\ call.child \in DOMAIN q.children
    BY <2>1, <2>2 DEF Asks, Waits
  <2>4. WatchersFit(q)
    BY <2>1, LinkedWatchers DEF Asks, WatchersFit
  <2>5. q.forkProcess <= Len(q.children) /\ q.forkRestarts <= p.forkRestarts
    BY <2>1, StateFields DEF Linked, Asks, SameCounts
  <2>6. q \in State /\ Len(q.children) >= Len(p.children)
    BY <2>1, StateFields DEF Asks
  <2> QED
    BY <1>1, <2>3, <2>4, <2>5, <2>6, LinkedLater DEF Typed
<1> QED
  BY <1>2, <1>3

LEMMA BeginTyped ==
    ASSUME NEW p \in State, NEW memory \in Nat, Linked(p, memory), NEW kind \in Kinds
    PROVE  Typed(Begin(p, kind), memory)
<1>1. PICK q : /\ Shuts(p, q)
               /\ Begin(p, kind) = IF p.watcher = 0 THEN Awaits(q, kind)
                                                    ELSE Adds(q, Closes(kind))
  BY BeginFields
<1>2. WatchersFit(q)
  BY <1>1, LinkedWatchers DEF Shuts, WatchersFit
<1>3. q \in State /\ Linked(q, memory)
  <2>1. q \in State /\ q.children = p.children /\ q.forkProcess = p.forkProcess
        /\ q.calls = p.calls /\ q.forkRestarts = p.forkRestarts
    BY <1>1 DEF Shuts, SameCalls, SameCounts
  <2>2. q.forkProcess <= Len(q.children) /\ q.forkRestarts <= p.forkRestarts
    BY <2>1, StateFields DEF Linked
  <2> QED
    BY <1>2, <2>1, <2>2, LinkedLater
<1>4. CASE p.watcher = 0
  BY <1>1, <1>3, <1>4, AwaitsTyped
<1>5. CASE p.watcher # 0
  <2>1. PICK r : r = Adds(q, Closes(kind))
    OBVIOUS
  <2>2. Closes(kind) \in Call /\ Closes(kind).closing /\ Closes(kind).child = 0
    BY DEF Closes, Call, Kinds
  <2>3. r \in State /\ SameButCalls(q, r) /\ DOMAIN r.calls = DOMAIN q.calls \cup {Closes(kind)}
    BY <1>3, <2>1, <2>2, AddsFields
  <2>4. r.children = q.children /\ r.forkProcess = q.forkProcess /\ WatchersFit(r)
        /\ r.forkRestarts = q.forkRestarts
    BY <1>2, <2>3 DEF SameButCalls, SameCounts, WatchersFit
  <2>5. r.forkProcess <= Len(r.children) /\ r.forkRestarts <= q.forkRestarts
    BY <1>3, <2>4, StateFields DEF Linked
  <2>6. \A call \in DOMAIN r.calls : call \in DOMAIN q.calls \/ (call.closing /\ call.child = 0)
    BY <2>2, <2>3
  <2>7. Linked(r, memory)
    BY <1>3, <2>3, <2>4, <2>5, <2>6, LinkedLater
  <2> QED
    BY <1>1, <1>5, <2>1, <2>3, <2>7 DEF Typed
<1> QED
  BY <1>4, <1>5
----------------------------------------------------------------------------
(* The exit of a child: its handler, and who is woken. *)

\* How the handler leaves the process: without its child, with a restart to come, or given up.
Handled(p, r, c) ==
    /\ r \in State /\ OneChanged(p, r, c, Gone) /\ ~r.launchTimer
    /\ r.isShuttingDown = p.isShuttingDown /\ r.forkReady = p.forkReady /\ r.calls = p.calls
    /\ r.respawns = p.respawns /\ r.open = p.open /\ r.opened = p.opened /\ r.timers = p.timers
    /\ \/ r.forkProcess = 0 /\ r.backoffs = p.backoffs /\ SameCounts(p, r)
       \/ /\ ~p.isShuttingDown /\ p.forkRestarts < MaxRestarts
          /\ r.forkRestarts = p.forkRestarts + 1 /\ r.backoffs = p.backoffs + 1
          /\ r.gaveUp = p.gaveUp
          /\ r.forkProcess = IF p.children[c].asked THEN 0 ELSE p.forkProcess
       \/ /\ ~p.isShuttingDown /\ p.forkRestarts >= MaxRestarts /\ r.forkProcess = 0 /\ r.gaveUp
          /\ r.backoffs = p.backoffs /\ r.forkRestarts = p.forkRestarts

LEMMA BuryFields ==
    ASSUME NEW p \in State, NEW c \in DOMAIN p.children, NEW q, q = Bury(p, c)
    PROVE  /\ q \in State /\ OneChanged(p, q, c, Gone) /\ ~q.launchTimer
           /\ q.isShuttingDown = p.isShuttingDown /\ q.forkReady = p.forkReady
           /\ q.forkProcess = p.forkProcess /\ SameCalls(p, q) /\ SameCounts(p, q)
           /\ q.open = p.open /\ q.opened = p.opened /\ q.timers = p.timers
<1> DEFINE new == [p.children EXCEPT ![c] = Gone]
<1>1. PICK r : r = [p EXCEPT !.children = [p.children EXCEPT ![c] = Gone]]
  OBVIOUS
<1>2. Gone \in Child
  BY DEF Gone, Fresh, Child
<1>3. r \in State /\ OneChanged(p, r, c, Gone) /\ SameRest(p, r)
  BY <1>1, <1>2, ChangeChild
<1>4. q = [r EXCEPT !.launchTimer = FALSE]
  BY <1>1 DEF Bury, State
<1>5. /\ q \in State /\ q.children = r.children /\ ~q.launchTimer
      /\ q.isShuttingDown = r.isShuttingDown /\ q.forkReady = r.forkReady
      /\ q.forkProcess = r.forkProcess /\ SameCalls(r, q) /\ SameCounts(r, q)
      /\ q.open = r.open /\ q.opened = r.opened /\ q.timers = r.timers
  BY <1>3, <1>4 DEF State, SameCalls, SameCounts
<1>6. OneChanged(p, q, c, Gone)
  BY <1>3, <1>5 DEF OneChanged
<1> QED
  BY <1>3, <1>5, <1>6 DEF SameRest, SameCalls, SameCounts

LEMMA ExitHandled ==
    ASSUME NEW p \in State, NEW c \in DOMAIN p.children, NEW clean \in BOOLEAN
    PROVE  \E r : Handled(p, r, c) /\ Exited(p, c, clean) = WakeCallers(r, c)
<1>1. PICK q : q = Bury(p, c)
  OBVIOUS
<1>2. /\ q \in State /\ OneChanged(p, q, c, Gone) /\ ~q.launchTimer
      /\ q.isShuttingDown = p.isShuttingDown /\ q.forkReady = p.forkReady
      /\ q.forkProcess = p.forkProcess /\ SameCalls(p, q) /\ SameCounts(p, q)
      /\ q.open = p.open /\ q.opened = p.opened /\ q.timers = p.timers
  BY <1>1, BuryFields
<1>3. PICK h : h = IF Unexpected(q) /\ ~clean THEN Crashed(q) ELSE [q EXCEPT !.forkProcess = 0]
  OBVIOUS
<1>4. PICK r : r = IF p.children[c].asked THEN [h EXCEPT !.forkProcess = 0] ELSE h
  OBVIOUS
<1>5. Exited(p, c, clean) = WakeCallers(r, c)
  BY <1>1, <1>3, <1>4 DEF Exited
<1>6. q.forkRestarts \in Nat /\ q.backoffs \in Nat
  BY <1>2, StateFields
<1>7. CASE ~Unexpected(q) \/ clean
  <2>1. r = [q EXCEPT !.forkProcess = 0]
    BY <1>2, <1>3, <1>4, <1>7 DEF State
  <2>2. /\ r \in State /\ r.children = q.children /\ ~r.launchTimer
        /\ r.isShuttingDown = q.isShuttingDown /\ r.forkReady = q.forkReady /\ r.calls = q.calls
        /\ r.forkProcess = 0 /\ r.backoffs = q.backoffs /\ SameCounts(q, r)
        /\ r.open = q.open /\ r.opened = q.opened /\ r.timers = q.timers
    BY <1>2, <2>1 DEF State, SameCounts
  <2>3. OneChanged(p, r, c, Gone)
    BY <1>2, <2>2 DEF OneChanged
  <2> QED
    BY <1>2, <1>5, <2>2, <2>3 DEF Handled, SameCalls, SameCounts
<1>8. CASE Unexpected(q) /\ ~clean /\ MayRespawn(q)
  <2> DEFINE f == IF p.children[c].asked THEN 0 ELSE q.forkProcess
             restarts == q.forkRestarts + 1
             backoffs == q.backoffs + 1
  <2>1. f \in Nat /\ restarts \in Nat /\ backoffs \in Nat
    BY <1>2, <1>6, StateFields
  <2>2. r = [q EXCEPT !.forkRestarts = restarts, !.backoffs = backoffs, !.forkProcess = f]
    BY <1>2, <1>3, <1>4, <1>8 DEF State, Crashed
  <2> HIDE DEF f, restarts, backoffs
  <2>3. /\ r \in State /\ r.children = q.children /\ ~r.launchTimer
        /\ r.isShuttingDown = q.isShuttingDown /\ r.forkReady = q.forkReady /\ r.calls = q.calls
        /\ r.forkProcess = f /\ r.backoffs = backoffs /\ r.forkRestarts = restarts
        /\ r.gaveUp = q.gaveUp /\ r.respawns = q.respawns
        /\ r.open = q.open /\ r.opened = q.opened /\ r.timers = q.timers
    BY <1>2, <2>1, <2>2 DEF State
  <2>4. OneChanged(p, r, c, Gone)
    BY <1>2, <2>3 DEF OneChanged
  <2>5. ~p.isShuttingDown /\ p.forkRestarts < MaxRestarts
    BY <1>2, <1>8 DEF Unexpected, MayRespawn, SameCounts
  <2> QED
    BY <1>2, <1>5, <2>3, <2>4, <2>5 DEF Handled, SameCalls, SameCounts, f, restarts, backoffs
<1>9. CASE Unexpected(q) /\ ~clean /\ ~MayRespawn(q)
  <2>1. r = [q EXCEPT !.gaveUp = TRUE, !.forkProcess = 0]
    BY <1>2, <1>3, <1>4, <1>9 DEF State, Crashed, GiveUp
  <2>2. /\ r \in State /\ r.children = q.children /\ ~r.launchTimer
        /\ r.isShuttingDown = q.isShuttingDown /\ r.forkReady = q.forkReady /\ r.calls = q.calls
        /\ r.forkProcess = 0 /\ r.backoffs = q.backoffs /\ r.forkRestarts = q.forkRestarts
        /\ r.gaveUp /\ r.respawns = q.respawns
        /\ r.open = q.open /\ r.opened = q.opened /\ r.timers = q.timers
    BY <1>2, <2>1 DEF State
  <2>3. OneChanged(p, r, c, Gone)
    BY <1>2, <2>2 DEF OneChanged
  <2>4. ~p.isShuttingDown /\ p.forkRestarts >= MaxRestarts
    BY <1>2, <1>6, <1>9, ForkAssumption DEF Unexpected, MayRespawn, SameCounts
  <2> QED
    BY <1>2, <1>5, <2>2, <2>3, <2>4 DEF Handled, SameCalls, SameCounts
<1> QED
  BY <1>7, <1>8, <1>9

Waiting(p, kind, c) == IF Waits(kind, c) \in DOMAIN p.calls THEN p.calls[Waits(kind, c)] ELSE 0

\* Who awaits child c leaves the calls.
Leaves(p, a, c) ==
    /\ a \in State /\ SameButCalls(p, a)
    /\ DOMAIN a.calls = {call \in DOMAIN p.calls : call.child # c}
    /\ DOMAIN a.calls = DOMAIN p.calls => a = p

LEMMA WakeFields ==
    ASSUME NEW p \in State, NEW c
    PROVE  \E a, x, y :
              /\ Leaves(p, a, c) /\ WakeCallers(p, c) = Resume(a, x, y)
              /\ x = Waiting(p, "restart", c) + Waiting(p, "reload", c)
              /\ y = Waiting(p, "memory", c) /\ x \in Nat /\ y \in Nat
<1> DEFINE others == {call \in DOMAIN p.calls : call.child # c}
           b == [call \in others |-> p.calls[call]]
           x == Waiting(p, "restart", c) + Waiting(p, "reload", c)
           y == Waiting(p, "memory", c)
<1>1. p.calls \in CallBags
  BY StateFields
<1>2. b \in CallBags /\ DOMAIN b = others /\ (others = DOMAIN p.calls => b = p.calls)
  BY <1>1, KeepCalls
<1>3. PICK a : a = [p EXCEPT !.calls = b]
  OBVIOUS
<1>4. WakeCallers(p, c) = Resume(a, x, y)
  BY <1>3 DEF WakeCallers, Waiting
<1>5. \A kind : Waiting(p, kind, c) \in Nat
  BY <1>1, BagType DEF Waiting
<1> HIDE DEF b
<1>6. a \in State /\ a.calls = b /\ SameButCalls(p, a)
  BY <1>2, <1>3, CallsChange
<1>7. others = DOMAIN p.calls => a = p
  BY <1>2, <1>3 DEF State
<1>8. Leaves(p, a, c)
  BY <1>2, <1>6, <1>7 DEF Leaves
<1>9. x \in Nat /\ y \in Nat
  BY <1>5
<1> QED
  BY <1>4, <1>8, <1>9

LEMMA ExitedTyped ==
    ASSUME NEW p \in State, NEW memory \in Nat, Linked(p, memory), NEW c \in DOMAIN p.children,
           NEW clean \in BOOLEAN
    PROVE  Typed(Exited(p, c, clean), memory)
<1>1. PICK r : Handled(p, r, c) /\ Exited(p, c, clean) = WakeCallers(r, c)
  BY ExitHandled
<1>2. r \in State /\ Linked(r, memory)
  <2>1. /\ r \in State /\ Len(r.children) = Len(p.children) /\ DOMAIN r.children = DOMAIN p.children
        /\ r.calls = p.calls /\ WatchersFit(r)
    BY <1>1, LinkedWatchers DEF Handled, OneChanged, WatchersFit
  <2>2. r.forkRestarts <= p.forkRestarts \/ r.forkRestarts <= MaxRestarts
    BY <1>1, StateFields, ForkAssumption DEF Handled, SameCounts
  <2>3. r.forkProcess <= Len(r.children)
    BY <1>1, <2>1, StateFields DEF Handled, Linked
  <2> QED
    BY <2>1, <2>2, <2>3, StateFields, LinkedLater
<1>3. PICK a, x, y : Leaves(r, a, c) /\ WakeCallers(r, c) = Resume(a, x, y) /\ x \in Nat /\ y \in Nat
  BY <1>2, WakeFields
<1>4. a \in State /\ Linked(a, memory)
  <2>1. /\ a \in State /\ a.children = r.children /\ a.forkProcess = r.forkProcess
        /\ a.forkRestarts = r.forkRestarts /\ DOMAIN a.calls \subseteq DOMAIN r.calls
    BY <1>3 DEF Leaves, SameButCalls, SameCounts
  <2>2. WatchersFit(a)
    BY <1>2, <1>3, LinkedWatchers DEF Leaves, SameButCalls, WatchersFit
  <2>3. a.forkProcess <= Len(a.children) /\ a.forkRestarts <= r.forkRestarts
    BY <1>2, <2>1, StateFields DEF Linked
  <2> QED
    BY <1>2, <2>1, <2>2, <2>3, LinkedLater
<1>5. PICK q : q = Resume(a, x, y)
  OBVIOUS
<1>6. CASE x + y = 0
  BY <1>1, <1>3, <1>4, <1>5, <1>6, ResumeFields DEF Typed
<1>7. CASE x + y # 0
  <2>1. Resumed(a, q, x + y, x # 0) /\ x + y \in Nat \ {0}
    BY <1>3, <1>4, <1>5, <1>7, ResumeFields
  <2> QED
    BY <1>1, <1>3, <1>4, <1>5, <2>1, ResumedTyped
<1> QED
  BY <1>6, <1>7
----------------------------------------------------------------------------
(* Starts and stops keep an orderly process sound. *)

LEMMA AliveChild ==
    ASSUME NEW p \in State, NEW c \in Alive(p)
    PROVE  c \in DOMAIN p.children /\ c \in Nat /\ c # 0 /\ p.children[c] \in Child
           /\ p.children[c].life # "gone"
BY StateFields DEF Alive, Ids

LEMMA OneMore ==
    ASSUME NEW S, NEW s \in Seq(S), NEW t \in Seq(S), Len(t) = 1
    PROVE  /\ DOMAIN (s \o t) = DOMAIN s \cup {Len(s) + 1} /\ Len(s) + 1 \notin DOMAIN s
           /\ (s \o t)[Len(s) + 1] = t[1]
           /\ \A n \in DOMAIN s : (s \o t)[n] = s[n]
<1>1. Len(s) \in Nat /\ DOMAIN s = 1..Len(s)
  OBVIOUS
<1>2. /\ s \o t \in Seq(S) /\ Len(s \o t) = Len(s) + Len(t)
      /\ \A n \in 1..(Len(s) + Len(t)) : (s \o t)[n] = IF n <= Len(s) THEN s[n] ELSE t[n - Len(s)]
  BY ConcatProperties
<1>3. DOMAIN (s \o t) = 1..(Len(s) + Len(t))
  BY <1>2
<1> QED
  BY ONLY <1>1, <1>2, <1>3, Len(t) = 1

LEMMA ForkedAlive ==
    ASSUME NEW p \in State, NEW q \in State, Forks(p, q, 1)
    PROVE  /\ q.forkProcess \notin Alive(p) /\ q.forkProcess \in Running(q) /\ q.forkProcess # 0
           /\ Alive(q) = Alive(p) \cup {q.forkProcess} /\ q.children[q.forkProcess] = Fresh
           /\ \A c \in Alive(p) : q.children[c] = p.children[c]
<1> DEFINE f == Len(p.children) + 1
           fresh == [c \in 1..1 |-> Fresh]
<1>1. /\ p.children \in Seq(Child) /\ Len(p.children) \in Nat
      /\ DOMAIN p.children = 1..Len(p.children)
  BY StateFields
<1>2. fresh \in Seq(Child) /\ Len(fresh) = 1 /\ fresh[1] = Fresh
  BY DEF Fresh, Child
<1>3. q.forkProcess = f /\ q.children = p.children \o fresh
  BY DEF Forks
<1> HIDE DEF fresh
<1>4. DOMAIN q.children = DOMAIN p.children \cup {f} /\ f \notin DOMAIN p.children /\ f # 0
  BY <1>1, <1>2, <1>3, OneMore
<1>5. q.children[f] = Fresh /\ \A c \in DOMAIN p.children : q.children[c] = p.children[c]
  BY <1>1, <1>2, <1>3, OneMore
<1>6. Fresh.life = "launching" /\ ~Fresh.asked /\ ~Fresh.killed
  BY DEF Fresh
<1>7. Alive(q) = Alive(p) \cup {f}
  BY <1>4, <1>5, <1>6 DEF Alive, Ids
<1>8. f \in Running(q)
  BY <1>5, <1>6, <1>7 DEF Running
<1> QED
  BY <1>3, <1>4, <1>5, <1>7, <1>8 DEF Alive, Ids

LEMMA StartedSound ==
    ASSUME NEW p \in State, NEW q, NEW reset, Resumed(p, q, 1, reset), NEW memory \in Nat, NEW given,
           Alive(p) = {}, p.backoffs = 0, p.calls = EmptyBag, CountsFit(p, memory),
           ~reset => memory # 0
    PROVE  Sound(q, "up", given, memory)
<1>1. /\ q \in State /\ Forks(p, q, 1) /\ q.calls = EmptyBag /\ q.backoffs = 0
      /\ ~q.isShuttingDown /\ ~q.forkReady /\ q.launchTimer
      /\ IF reset THEN q.forkRestarts = 0 /\ q.respawns = 0 /\ ~q.gaveUp ELSE SameCounts(p, q)
  BY DEF Resumed, SameCalls, Forks
<1>2. DOMAIN q.calls = {}
  BY <1>1, NoCall
<1>3. /\ Alive(q) = {q.forkProcess} /\ q.forkProcess \in Running(q) /\ q.forkProcess # 0
      /\ q.children[q.forkProcess] = Fresh
  BY <1>1, ForkedAlive
<1>4. Fresh.life = "launching" /\ ~Fresh.asked /\ ~Fresh.killed /\ ~Fresh.reported
  BY DEF Fresh
<1>5. Alone(q) /\ CallsFit(q, "up", memory)
  BY <1>1, <1>2 DEF Alone, CallsFit
<1>6. ChildHeld(q, Over(q, "up", given)) /\ BackoffFits(q, Over(q, "up", given))
  BY <1>1, <1>2, <1>3, <1>4 DEF ChildHeld, BackoffFits, Awaited
<1>7. TimerFits(q)
  BY <1>1, <1>3, <1>4 DEF TimerFits
<1>8. CountsFit(q, memory)
  <2>1. CASE reset
    BY <1>1, <2>1, ForkAssumption DEF CountsFit
  <2>2. CASE ~reset
    <3>1. memory # 0 /\ q.respawns = p.respawns /\ q.forkRestarts = p.forkRestarts
          /\ q.backoffs = p.backoffs
      BY <1>1, <2>2 DEF SameCounts
    <3> QED
      BY <3>1 DEF CountsFit
  <2> QED
    BY <2>1, <2>2
<1> QED
  BY <1>5, <1>6, <1>7, <1>8 DEF Sound

\* No child is left, the app is being stopped, and a call goes on.
Still(p, memory) ==
    /\ p.isShuttingDown /\ p.forkProcess = 0 /\ Alive(p) = {} /\ p.backoffs = 0
    /\ p.calls = EmptyBag /\ ~p.launchTimer /\ CountsFit(p, memory)

\* The call is what the last command asked for.
Means(kind, want, memory) ==
    /\ kind \in Kinds /\ want \in {"up", "down"}
    /\ kind = "stop" <=> want = "down"
    /\ kind = "memory" => memory # 0

LEMMA StillSound ==
    ASSUME NEW p \in State, NEW memory \in Nat, Still(p, memory), NEW given
    PROVE  Sound(p, "down", given, memory)
<1>1. DOMAIN p.calls = {}
  BY NoCall DEF Still
<1>2. Alone(p) /\ CallsFit(p, "down", memory)
  BY <1>1 DEF Alone, CallsFit, Still
<1>3. ChildHeld(p, Over(p, "down", given)) /\ BackoffFits(p, Over(p, "down", given))
  BY DEF ChildHeld, BackoffFits, Still
<1>4. TimerFits(p)
  BY DEF TimerFits, Still
<1> QED
  BY <1>2, <1>3, <1>4 DEF Sound, Still

LEMMA ResumeOneSound ==
    ASSUME NEW p \in State, NEW memory \in Nat, Still(p, memory), NEW given,
           NEW kind, NEW want, Means(kind, want, memory)
    PROVE  Sound(ResumeOne(p, kind), want, given, memory)
<1>1. PICK q : q = ResumeOne(p, kind)
  OBVIOUS
<1>2. IF kind = "stop" THEN q = p ELSE Resumed(p, q, 1, kind # "memory")
  BY <1>1, ResumeOneFields DEF Means, Kinds
<1>3. CASE kind = "stop"
  BY <1>1, <1>2, <1>3, StillSound DEF Means
<1>4. CASE kind # "stop"
  <2>1. Resumed(p, q, 1, kind # "memory") /\ want = "up" /\ (~(kind # "memory") => memory # 0)
    BY <1>2, <1>4 DEF Means
  <2>2. Sound(q, "up", given, memory)
    BY <2>1, StartedSound DEF Still
  <2> QED
    BY <1>1, <2>1, <2>2
<1> QED
  BY <1>3, <1>4

\* A call is about to look for the child: it lives, or its backoff runs, or there is none.
Stopping(p, memory) ==
    /\ p.isShuttingDown /\ p.calls = EmptyBag /\ ~p.launchTimer /\ CountsFit(p, memory)
    /\ \A c \in Alive(p) : c = p.forkProcess /\ ~p.children[c].killed /\ ~p.children[c].asked
    /\ p.backoffs > 0 => p.backoffs = 1 /\ p.forkProcess \notin Alive(p) /\ p.forkProcess # 0

LEMMA AwaitsSound ==
    ASSUME NEW p \in State, NEW memory \in Nat, Stopping(p, memory), NEW given,
           NEW kind, NEW want, Means(kind, want, memory)
    PROVE  Sound(Awaits(p, kind), want, given, memory)
<1> DEFINE f == p.forkProcess
<1>1. CASE f = 0
  <2>1. Alive(p) = {} /\ p.backoffs = 0
    BY <1>1, AliveChild, StateFields DEF Stopping
  <2>2. Still(p, memory)
    BY <1>1, <2>1 DEF Still, Stopping
  <2> QED
    BY <1>1, <2>2, ResumeOneSound DEF Awaits
<1>2. CASE f # 0
  <2>1. PICK q : q = Awaits(p, kind)
    OBVIOUS
  <2>2. Asks(p, q, kind)
    BY <1>2, <2>1, AwaitsFields DEF Means
  <2> DEFINE call == Waits(kind, f)
  <2>3. /\ DOMAIN q.calls = {call} /\ q.calls[call] = 1 /\ call.kind = kind /\ call.child = f
        /\ ~call.closing
    BY <2>2, NoCall DEF Asks, Stopping, Waits
  <2>4. /\ q \in State /\ q.forkProcess = f /\ q.isShuttingDown /\ ~q.launchTimer
        /\ q.backoffs = p.backoffs /\ SameCounts(p, q)
    BY <2>2 DEF Asks, Stopping
  <2> HIDE DEF call
  <2>5. q.calls # EmptyBag /\ Awaited(q)
    BY <2>3, NoCall DEF Awaited
  <2>6. Alive(q) = Alive(p) /\ \A c \in Alive(q) : c = f /\ ~q.children[c].killed /\ q.children[c].asked
    <3>1. CASE f \notin Alive(p)
      <4>1. q.children = p.children /\ Alive(p) = {}
        BY <2>2, <3>1 DEF Asks, Stopping
      <4> QED
        BY <4>1 DEF Alive, Ids
    <3>2. CASE f \in Alive(p)
      <4> DEFINE child == [p.children[f] EXCEPT !["asked"] = TRUE]
      <4>1. OneChanged(p, q, f, child)
        BY <2>2, <3>2 DEF Asks
      <4>2. p.children[f] \in Child /\ ~p.children[f].killed /\ p.children[f].life # "gone"
        BY <3>2, AliveChild DEF Stopping
      <4>3. child.asked /\ ~child.killed /\ child.life # "gone"
        BY <4>2 DEF Child
      <4> HIDE DEF child
      <4>4. Alive(q) = Alive(p)
        BY <4>1, <4>2, <4>3 DEF OneChanged, Alive, Ids
      <4>5. Alive(p) = {f} /\ q.children[f] = child
        BY <3>2, <4>1, AliveChild DEF Stopping, OneChanged
      <4> QED
        BY <4>3, <4>4, <4>5
    <3> QED
      BY <3>1, <3>2
  <2>7. Alone(q) /\ CallsFit(q, want, memory)
    BY <1>2, <2>3, <2>4, <2>5 DEF Alone, CallsFit, Means
  <2>8. ChildHeld(q, Over(q, want, given)) /\ BackoffFits(q, Over(q, want, given))
    BY <1>2, <2>4, <2>5, <2>6 DEF ChildHeld, BackoffFits, Stopping
  <2>9. TimerFits(q)
    BY <2>4 DEF TimerFits
  <2>10. CountsFit(q, memory)
    BY <1>2, <2>4 DEF CountsFit, SameCounts, Stopping
  <2> QED
    BY <2>1, <2>7, <2>8, <2>9, <2>10 DEF Sound
<1> QED
  BY <1>1, <1>2
\* No call is under way, and none was cut short by a forced kill.
Settled(p, memory) ==
    /\ p.calls = EmptyBag /\ CountsFit(p, memory)
    /\ \A c \in Alive(p) : c = p.forkProcess /\ ~p.children[c].killed /\ ~p.children[c].asked
    /\ p.backoffs > 0 => p.backoffs = 1 /\ p.forkProcess \notin Alive(p) /\ p.forkProcess # 0

LEMMA SoundSettled ==
    ASSUME NEW p \in State, NEW want, NEW given, NEW memory, Sound(p, want, given, memory),
           p.calls = EmptyBag, ~Over(p, want, given)
    PROVE  Settled(p, memory)
<1>1. ~Awaited(p)
  BY NoCall DEF Awaited
<1>2. \A c \in Alive(p) : p.children[c].asked \in BOOLEAN
  BY AliveChild DEF Child
<1> QED
  BY <1>1, <1>2 DEF Settled, Sound, ChildHeld, BackoffFits

LEMMA BeginSound ==
    ASSUME NEW p \in State, NEW memory \in Nat, Settled(p, memory), NEW given,
           NEW kind, NEW want, Means(kind, want, memory)
    PROVE  Sound(Begin(p, kind), want, given, memory)
<1>1. PICK q : /\ Shuts(p, q)
               /\ Begin(p, kind) = IF p.watcher = 0 THEN Awaits(q, kind)
                                                    ELSE Adds(q, Closes(kind))
  BY BeginFields DEF Means
<1>2. Alive(q) = Alive(p)
  BY <1>1 DEF Shuts, Alive, Ids
<1>3. Stopping(q, memory)
  BY <1>1, <1>2 DEF Stopping, Settled, Shuts, SameCalls, SameCounts, CountsFit
<1>4. q \in State
  BY <1>1 DEF Shuts
<1>5. CASE p.watcher = 0
  BY <1>1, <1>3, <1>4, <1>5, AwaitsSound
<1>6. CASE p.watcher # 0
  <2>1. PICK r : r = Adds(q, Closes(kind))
    OBVIOUS
  <2> DEFINE call == Closes(kind)
  <2>2. call \in Call /\ call.closing /\ call.kind = kind
    BY DEF Closes, Call, Kinds, Means
  <2> HIDE DEF call
  <2>3. /\ r \in State /\ SameButCalls(q, r) /\ DOMAIN r.calls = DOMAIN q.calls \cup {call}
        /\ q.calls = EmptyBag => r.calls[call] = 1
    BY <1>4, <2>1, <2>2, AddsFields DEF call
  <2>4. DOMAIN r.calls = {call} /\ r.calls[call] = 1 /\ r.calls # EmptyBag /\ ~Awaited(r)
    BY <1>3, <2>2, <2>3, NoCall DEF Stopping, Awaited
  <2>5. /\ r.isShuttingDown /\ ~r.launchTimer /\ r.backoffs = q.backoffs /\ SameCounts(q, r)
        /\ r.forkProcess = q.forkProcess /\ r.children = q.children /\ Alive(r) = Alive(q)
    BY <1>3, <2>3 DEF SameButCalls, Stopping, Alive, Ids
  <2>6. Alone(r) /\ CallsFit(r, want, memory)
    BY <2>2, <2>4, <2>5 DEF Alone, CallsFit, Means
  <2>7. ChildHeld(r, Over(r, want, given)) /\ BackoffFits(r, Over(r, want, given))
    BY <1>3, <2>4, <2>5 DEF ChildHeld, BackoffFits, Stopping
  <2>8. TimerFits(r)
    BY <2>5 DEF TimerFits
  <2>9. CountsFit(r, memory)
    BY <1>3, <2>5 DEF CountsFit, SameCounts, Stopping
  <2> QED
    BY <1>1, <1>6, <2>1, <2>6, <2>7, <2>8, <2>9 DEF Sound
<1> QED
  BY <1>5, <1>6

\* A stop has closed its watcher.
LEMMA ClosedSound ==
    ASSUME NEW p \in State, NEW memory \in Nat, NEW want \in {"up", "down"}, NEW given,
           Sound(p, want, given, memory), NEW call \in DOMAIN p.calls, call.closing
    PROVE  Sound(Awaits([Drops(p, call) EXCEPT !.watcher = 0], call.kind), want, given, memory)
<1>1. PICK d : d = Drops(p, call)
  OBVIOUS
<1>2. PICK q : q = [d EXCEPT !.watcher = 0]
  OBVIOUS
<1>3. p.calls \in CallBags /\ call \in Call /\ p.calls[call] = 1
  BY StateFields, BagType DEF Sound, Alone
<1>4. d \in State /\ SameButCalls(p, d) /\ DOMAIN d.calls = DOMAIN p.calls \ {call}
  BY <1>1, <1>3, DropsFields
<1>5. DOMAIN d.calls = {} /\ d.calls = EmptyBag
  BY <1>4, NoCall, StateFields DEF Sound, Alone
<1>6. /\ q \in State /\ q.calls = d.calls /\ q.children = d.children
      /\ q.forkProcess = d.forkProcess /\ q.isShuttingDown = d.isShuttingDown
      /\ q.launchTimer = d.launchTimer /\ q.backoffs = d.backoffs /\ SameCounts(d, q)
  BY <1>2, <1>4 DEF State, SameCounts
<1>7. Alive(q) = Alive(p) /\ q.children = p.children
  BY <1>4, <1>6 DEF SameButCalls, Alive, Ids
<1>8. p.isShuttingDown /\ ~Awaited(p) /\ ~Over(p, want, given) /\ ~p.launchTimer
  BY NoCall, StateFields DEF Sound, CallsFit, Alone, Awaited, Over, TimerFits
<1>9. CountsFit(q, memory)
  BY <1>4, <1>6 DEF Sound, CountsFit, SameButCalls, SameCounts
<1>10. \A c \in Alive(p) : p.children[c].asked \in BOOLEAN
  BY AliveChild DEF Child
<1>11. Stopping(q, memory)
  BY <1>4, <1>5, <1>6, <1>7, <1>8, <1>9, <1>10 DEF Stopping, Sound, ChildHeld, BackoffFits, SameButCalls
<1>12. Means(call.kind, want, memory)
  BY <1>3 DEF Means, Sound, CallsFit, Call, Kinds
<1>13. Sound(Awaits(q, call.kind), want, given, memory)
  BY <1>6, <1>11, <1>12, AwaitsSound
<1> QED
  BY <1>1, <1>2, <1>13
----------------------------------------------------------------------------
(* Exits. *)

LEMMA HandledAlive ==
    ASSUME NEW p \in State, NEW c \in DOMAIN p.children, NEW r, Handled(p, r, c)
    PROVE  Alive(r) = Alive(p) \ {c} /\ \A d \in Alive(r) : r.children[d] = p.children[d]
<1>1. Gone.life = "gone"
  BY DEF Gone, Fresh
<1>2. OneChanged(p, r, c, Gone)
  BY DEF Handled
<1> QED
  BY <1>1, <1>2 DEF OneChanged, Alive, Ids

\* Nobody awaits the child.
LEMMA NobodyWoken ==
    ASSUME NEW p \in State, NEW c \in Nat \ {0}, ~Awaited(p),
           \A call \in DOMAIN p.calls : call.closing => call.child = 0
    PROVE  WakeCallers(p, c) = p
<1>1. PICK a, x, y : /\ Leaves(p, a, c) /\ WakeCallers(p, c) = Resume(a, x, y)
                     /\ x = Waiting(p, "restart", c) + Waiting(p, "reload", c)
                     /\ y = Waiting(p, "memory", c) /\ x \in Nat /\ y \in Nat
  BY WakeFields
<1>2. \A kind : Waits(kind, c) \notin DOMAIN p.calls
  BY DEF Awaited, Waits
<1>3. x + y = 0
  BY <1>1, <1>2 DEF Waiting
<1>4. \A call \in DOMAIN p.calls : call.child # c
  BY DEF Awaited
<1>5. a = p
  BY <1>1, <1>4 DEF Leaves
<1>6. PICK q : q = Resume(a, x, y)
  OBVIOUS
<1>7. q = a
  BY <1>1, <1>3, <1>5, <1>6, ResumeFields
<1> QED
  BY <1>1, <1>5, <1>6, <1>7
\* Whoever awaits the one child there is is woken, and is alone.
LEMMA CallerWoken ==
    ASSUME NEW p \in State, NEW call \in DOMAIN p.calls, Alone(p), ~call.closing
    PROVE  \E a : /\ a \in State /\ SameButCalls(p, a) /\ a.calls = EmptyBag
                  /\ WakeCallers(p, call.child) = ResumeOne(a, call.kind)
<1> DEFINE c == call.child
<1>1. p.calls \in CallBags /\ call \in Call /\ DOMAIN p.calls = {call} /\ p.calls[call] = 1
  BY StateFields, BagType DEF Alone
<1>2. call = Waits(call.kind, c) /\ call.kind \in Kinds
  BY <1>1 DEF Waits, Call, Kinds
<1>3. \A kind : Waits(kind, c) = call <=> kind = call.kind
  BY <1>2 DEF Waits
<1>4. \A kind : Waiting(p, kind, c) = IF kind = call.kind THEN 1 ELSE 0
  BY <1>1, <1>3 DEF Waiting
<1>5. PICK a, x, y : /\ Leaves(p, a, c) /\ WakeCallers(p, c) = Resume(a, x, y)
                     /\ x = Waiting(p, "restart", c) + Waiting(p, "reload", c)
                     /\ y = Waiting(p, "memory", c)
  BY WakeFields
<1>6. x = (IF call.kind \in {"restart", "reload"} THEN 1 ELSE 0)
      /\ y = (IF call.kind = "memory" THEN 1 ELSE 0)
  BY <1>4, <1>5
<1>7. WakeCallers(p, c) = ResumeOne(a, call.kind)
  BY <1>5, <1>6 DEF ResumeOne
<1>8. a \in State /\ SameButCalls(p, a) /\ a.calls = EmptyBag
  BY <1>1, <1>5, NoCall, StateFields DEF Leaves
<1> QED
  BY <1>7, <1>8

LEMMA ExitSound ==
    ASSUME NEW p \in State, NEW memory \in Nat, Linked(p, memory), NEW want \in {"up", "down"},
           NEW given, Sound(p, want, given, memory), NEW c \in Alive(p), NEW clean \in BOOLEAN
    PROVE  Sound(Exited(p, c, clean), want, given, memory)
<1>1. c \in DOMAIN p.children /\ c \in Nat \ {0} /\ p.children[c] \in Child
  BY AliveChild
<1>2. PICK r : Handled(p, r, c) /\ Exited(p, c, clean) = WakeCallers(r, c)
  BY <1>1, ExitHandled
<1>3. /\ Alive(r) = Alive(p) \ {c} /\ r \in State /\ r.calls = p.calls /\ ~r.launchTimer
      /\ r.isShuttingDown = p.isShuttingDown /\ r.respawns = p.respawns
      /\ \A d \in Alive(r) : r.children[d] = p.children[d]
  BY <1>1, <1>2, HandledAlive DEF Handled
<1>4. Alone(r) /\ (Awaited(r) <=> Awaited(p))
  BY <1>3 DEF Sound, Alone, Awaited
<1>5. CASE Awaited(p)
  <2>1. PICK call \in DOMAIN p.calls : ~call.closing
    BY <1>5 DEF Awaited
  <2>2. call.child = p.forkProcess /\ p.forkProcess # 0 /\ p.isShuttingDown
    BY <2>1 DEF Sound, CallsFit
  <2>3. p.forkProcess = c /\ p.children[c].asked /\ Alive(p) = {c}
    BY <1>5, <2>2 DEF Sound, ChildHeld
  <2>4. r.forkProcess = 0 /\ r.backoffs = p.backoffs /\ SameCounts(p, r)
    BY <1>2, <2>2 DEF Handled
  <2>5. p.backoffs = 0
    BY <2>3, StateFields DEF Sound, BackoffFits
  <2>6. PICK a : /\ a \in State /\ SameButCalls(r, a) /\ a.calls = EmptyBag
                 /\ WakeCallers(r, c) = ResumeOne(a, call.kind)
    BY <1>3, <1>4, <2>1, <2>2, <2>3, CallerWoken
  <2>7. Alive(a) = {}
    BY <1>3, <2>3, <2>6 DEF SameButCalls, Alive, Ids
  <2>8. CountsFit(a, memory)
    BY <1>3, <2>4, <2>6 DEF Sound, CountsFit, SameButCalls, SameCounts
  <2>9. Still(a, memory)
    BY <1>3, <2>2, <2>4, <2>5, <2>6, <2>7, <2>8 DEF Still, SameButCalls
  <2>10. Means(call.kind, want, memory)
    <3>1. call \in Call
      BY StateFields, BagType
    <3> QED
      BY <3>1, <2>1 DEF Means, Sound, CallsFit, Call, Kinds
  <2>11. Sound(ResumeOne(a, call.kind), want, given, memory)
    BY <2>6, <2>9, <2>10, ResumeOneSound
  <2> QED
    BY <1>2, <2>6, <2>11
<1>6. CASE ~Awaited(p)
  <2>1. Exited(p, c, clean) = r
    <3>1. r \in State /\ r.calls = p.calls /\ ~Awaited(r)
      BY <1>3, <1>4, <1>6
    <3>2. \A call \in DOMAIN r.calls : call.closing => call.child = 0
      BY <3>1 DEF Linked
    <3> QED
      BY <1>1, <1>2, <3>1, <3>2, NobodyWoken
  <2>2. \A d \in Alive(r) : r.forkProcess = 0 /\ r.children[d].killed /\ Over(p, want, given)
    <3>1. SUFFICES ASSUME NEW d \in Alive(r)
                   PROVE  r.forkProcess = 0 /\ r.children[d].killed /\ Over(p, want, given)
      OBVIOUS
    <3>2. d \in Alive(p) /\ d # c /\ d # 0 /\ c # 0 /\ r.children[d] = p.children[d]
      BY <1>1, <1>3, AliveChild
    <3>3. p.forkProcess = 0 /\ p.children[d].killed /\ Over(p, want, given)
      BY <3>2 DEF Sound, ChildHeld
    <3>4. r.forkProcess = 0
      BY <1>2, <3>3 DEF Handled, Over
    <3> QED
      BY <3>2, <3>3, <3>4
  <2>3. TimerFits(r)
    BY <1>3, <2>2 DEF TimerFits, Running
  <2>4. CASE c # p.forkProcess \/ p.isShuttingDown
    <3>1. Over(p, want, given) \/ p.isShuttingDown
      BY <2>4 DEF Sound, ChildHeld
    <3>2. p.isShuttingDown
      BY <3>1 DEF Over
    <3>3. r.forkProcess = 0 /\ r.backoffs = p.backoffs /\ SameCounts(p, r)
      BY <1>2, <3>2 DEF Handled
    <3>4. CallsFit(r, want, memory)
      BY <1>3, <1>6, <3>3 DEF Sound, CallsFit, Awaited
    <3>5. Over(r, want, given) <=> Over(p, want, given)
      BY <1>3 DEF Over
    <3>6. c = p.forkProcess => p.backoffs = 0
      BY StateFields DEF Sound, BackoffFits
    <3>7. c # p.forkProcess => Over(p, want, given)
      BY DEF Sound, ChildHeld
    <3>8. ChildHeld(r, Over(r, want, given)) /\ BackoffFits(r, Over(r, want, given))
      BY <1>1, <1>3, <2>2, <3>2, <3>3, <3>5, <3>6, <3>7, AliveChild
         DEF Sound, ChildHeld, BackoffFits
    <3>9. CountsFit(r, memory)
      BY <1>3, <3>2, <3>3 DEF Sound, CountsFit, SameCounts
    <3> QED
      BY <1>4, <2>1, <2>3, <3>4, <3>8, <3>9 DEF Sound
  <2>5. CASE c = p.forkProcess /\ ~p.isShuttingDown
    <3>1. p.calls = EmptyBag /\ p.backoffs = 0 /\ ~p.children[c].asked /\ want = "up"
      <4>1. DOMAIN p.calls = {} /\ want = "up"
        BY <2>5 DEF Sound, CallsFit
      <4>2. p.calls = EmptyBag
        BY <4>1, NoCall, StateFields
      <4>3. ~(p.backoffs > 0)
        BY <2>5 DEF Sound, BackoffFits
      <4>4. p.children[c].asked <=> Awaited(p)
        BY <1>1, <2>5 DEF Sound, ChildHeld
      <4> QED
        BY <1>6, <4>1, <4>2, <4>3, <4>4, StateFields
    <3>2. Alive(r) = {} /\ ~Over(p, want, given)
      BY <2>2, <2>5 DEF Over
    <3>3. CallsFit(r, want, memory)
      BY <1>3, <2>5, <3>1, NoCall DEF CallsFit
    <3>4. /\ p.forkRestarts \in Nat /\ p.respawns \in Nat /\ p.respawns <= p.forkRestarts
          /\ p.respawns <= MaxRestarts /\ (memory = 0 => p.forkRestarts = p.respawns)
      BY <2>5, <3>1, StateFields DEF Sound, CountsFit
    <3>5. p.forkProcess # 0 /\ ~(p.gaveUp /\ memory = 0)
      BY <1>1, <2>5 DEF Sound, CountsFit
    <3>6. /\ ChildHeld(r, Over(r, want, given)) /\ BackoffFits(r, Over(r, want, given))
          /\ CountsFit(r, memory)
      <4>1. CASE r.forkProcess = 0 /\ r.backoffs = p.backoffs /\ SameCounts(p, r)
        <5>1. r.forkProcess = 0 /\ r.backoffs = 0 /\ SameCounts(p, r)
          BY <3>1, <4>1
        <5>2. CountsFit(r, memory)
          BY <1>3, <3>4, <3>5, <5>1 DEF CountsFit, SameCounts
        <5> QED
          BY <3>2, <5>1, <5>2 DEF ChildHeld, BackoffFits
      <4>2. CASE /\ p.forkRestarts < MaxRestarts
                 /\ r.forkRestarts = p.forkRestarts + 1 /\ r.backoffs = p.backoffs + 1
                 /\ r.gaveUp = p.gaveUp
                 /\ r.forkProcess = IF p.children[c].asked THEN 0 ELSE p.forkProcess
        <5>1. r.forkProcess # 0 /\ r.backoffs = 1
          BY <3>1, <3>5, <4>2
        <5>2. CountsFit(r, memory)
          BY <1>3, <3>4, <3>5, <4>2, <5>1, ForkAssumption DEF CountsFit
        <5> QED
          BY <3>2, <5>1, <5>2 DEF ChildHeld, BackoffFits
      <4>3. CASE /\ p.forkRestarts >= MaxRestarts /\ r.forkProcess = 0 /\ r.gaveUp
                 /\ r.backoffs = p.backoffs /\ r.forkRestarts = p.forkRestarts
        <5>1. r.forkProcess = 0 /\ r.backoffs = 0
          BY <3>1, <4>3
        <5>2. CountsFit(r, memory)
          BY <1>3, <3>4, <4>3, <5>1, ForkAssumption DEF CountsFit
        <5> QED
          BY <3>2, <5>1, <5>2 DEF ChildHeld, BackoffFits
      <4> QED
        BY <1>2, <4>1, <4>2, <4>3 DEF Handled
    <3> QED
      BY <1>4, <2>1, <2>3, <3>3, <3>6 DEF Sound
  <2> QED
    BY <2>4, <2>5
<1> QED
  BY <1>5, <1>6
----------------------------------------------------------------------------
(* Each turn of the event loop keeps the types, and an orderly process sound. *)

\* q is p but for its watchers.
SameButWatchers(p, q) ==
    /\ q.children = p.children /\ q.forkProcess = p.forkProcess
    /\ q.isShuttingDown = p.isShuttingDown /\ q.backoffs = p.backoffs
    /\ q.forkReady = p.forkReady /\ q.launchTimer = p.launchTimer /\ SameCounts(p, q)
    /\ q.calls = p.calls

LEMMA WatchersSound ==
    ASSUME NEW p, NEW q, SameButWatchers(p, q), NEW want, NEW given, NEW memory,
           Sound(p, want, given, memory)
    PROVE  Sound(q, want, given, memory)
<1>1. Alive(q) = Alive(p) /\ Running(q) = Running(p) /\ (Awaited(q) <=> Awaited(p))
  BY DEF SameButWatchers, Alive, Running, Ids, Awaited
<1>2. Over(q, want, given) <=> Over(p, want, given)
  BY DEF SameButWatchers, Over
<1>3. Alone(q) /\ CallsFit(q, want, memory)
  BY DEF Sound, SameButWatchers, Alone, CallsFit
<1>4. ChildHeld(q, Over(q, want, given))
  BY <1>1, <1>2 DEF Sound, SameButWatchers, ChildHeld
<1>5. BackoffFits(q, Over(q, want, given))
  BY <1>1, <1>2 DEF Sound, SameButWatchers, BackoffFits
<1>6. TimerFits(q)
  BY <1>1 DEF Sound, SameButWatchers, TimerFits
<1>7. CountsFit(q, memory)
  BY DEF Sound, SameButWatchers, SameCounts, CountsFit
<1> QED
  BY <1>3, <1>4, <1>5, <1>6, <1>7 DEF Sound

LEMMA WatchersTyped ==
    ASSUME NEW p \in State, NEW q \in State, SameButWatchers(p, q), NEW memory \in Nat,
           Linked(p, memory), WatchersFit(q)
    PROVE  Typed(q, memory)
<1>1. q.forkProcess <= Len(q.children) /\ q.forkRestarts <= p.forkRestarts
  BY StateFields DEF Linked, SameButWatchers, SameCounts
<1> QED
  BY <1>1, LinkedLater DEF SameButWatchers, Typed

LEMMA TimersChange ==
    ASSUME NEW p \in State, NEW memory \in Nat, Linked(p, memory), NEW set,
           set \subseteq 1..p.opened, NEW q, q = [p EXCEPT !.timers = set]
    PROVE  Typed(q, memory) /\ SameButWatchers(p, q)
<1>1. set \in SUBSET Nat
  BY StateFields
<1>2. q \in State /\ SameButWatchers(p, q) /\ q.open = p.open /\ q.opened = p.opened /\ q.timers = set
  BY <1>1 DEF State, SameButWatchers, SameCounts
<1>3. WatchersFit(q)
  BY <1>2, LinkedWatchers DEF WatchersFit
<1> QED
  BY <1>2, <1>3, WatchersTyped

\* The child that is up is the one held.
LEMMA ReadyKept ==
    ASSUME NEW p \in State, NEW memory \in Nat, Linked(p, memory), NEW want, NEW given,
           NEW c \in DOMAIN p.children, p.children[c].life = "launching", ~p.children[c].killed,
           NEW q, q = [p EXCEPT !.children[c].life = "ready", !.forkReady = TRUE,
                                !.launchTimer = FALSE]
    PROVE  Typed(q, memory) /\ (Sound(p, want, given, memory) => Sound(q, want, given, memory))
<1> DEFINE child == [p.children[c] EXCEPT !.life = "ready"]
<1>1. PICK r : r = [p EXCEPT !.children = [p.children EXCEPT ![c] = child]]
  OBVIOUS
<1>2. q = [r EXCEPT !.forkReady = TRUE, !.launchTimer = FALSE]
  BY <1>1 DEF State
<1>3. /\ child \in Child /\ child.life = "ready" /\ child.killed = p.children[c].killed
      /\ child.asked = p.children[c].asked
  BY StateFields DEF Child
<1> HIDE DEF child
<1>4. r \in State /\ OneChanged(p, r, c, child) /\ SameRest(p, r)
  BY <1>1, <1>3, ChangeChild
<1>5. /\ q \in State /\ q.children = r.children /\ q.forkReady /\ ~q.launchTimer
      /\ q.forkProcess = r.forkProcess /\ q.isShuttingDown = r.isShuttingDown
      /\ q.calls = r.calls /\ q.backoffs = r.backoffs /\ SameCounts(r, q)
      /\ q.open = r.open /\ q.opened = r.opened /\ q.timers = r.timers
  BY <1>2, <1>4 DEF State, SameCounts
<1>6. Typed(q, memory)
  <2>1. q.forkProcess <= Len(q.children) /\ q.forkRestarts <= p.forkRestarts /\ WatchersFit(q)
        /\ Len(q.children) >= Len(p.children) /\ q.calls = p.calls
    BY <1>4, <1>5, StateFields, LinkedWatchers
       DEF Linked, SameRest, SameCalls, SameCounts, OneChanged, WatchersFit
  <2> QED
    BY <1>5, <2>1, LinkedLater DEF Typed
<1>7. ASSUME Sound(p, want, given, memory)
      PROVE  Sound(q, want, given, memory)
  <2>1. c \in Alive(p)
    BY DEF Alive, Ids
  <2>2. c = p.forkProcess
    BY <1>7, <2>1 DEF Sound, ChildHeld
  <2>3. /\ q.forkProcess = p.forkProcess /\ q.isShuttingDown = p.isShuttingDown
        /\ q.calls = p.calls /\ q.backoffs = p.backoffs /\ SameCounts(p, q)
        /\ OneChanged(p, q, c, child)
    BY <1>4, <1>5 DEF SameRest, SameCalls, SameCounts, OneChanged
  <2>4. Alive(q) = Alive(p) /\ (Awaited(q) <=> Awaited(p))
    BY <1>3, <2>1, <2>3 DEF OneChanged, Alive, Ids, Awaited
  <2>5. \A d \in Alive(p) : q.children[d].killed = p.children[d].killed
                         /\ q.children[d].asked = p.children[d].asked
    BY <1>3, <2>3, AliveChild DEF OneChanged
  <2>6. Alone(q) /\ CallsFit(q, want, memory)
    BY <1>7, <2>3 DEF Sound, Alone, CallsFit
  <2>7. Over(q, want, given) <=> Over(p, want, given)
    BY <2>3 DEF Over
  <2>8. ChildHeld(q, Over(q, want, given))
    BY <1>7, <2>3, <2>4, <2>5, <2>7 DEF Sound, ChildHeld
  <2>9. BackoffFits(q, Over(q, want, given))
    BY <1>7, <2>3, <2>4, <2>7 DEF Sound, BackoffFits
  <2>10. TimerFits(q)
    <3>1. q.children[q.forkProcess].life = "ready"
      BY <1>3, <2>2, <2>3 DEF OneChanged
    <3> QED
      BY <1>5, <3>1 DEF TimerFits
  <2>11. CountsFit(q, memory)
    BY <1>7, <2>3 DEF Sound, CountsFit, SameCounts
  <2> QED
    BY <2>6, <2>8, <2>9, <2>10, <2>11 DEF Sound
<1> QED
  BY <1>6, <1>7
\* The report is made of the child whose launch is timed.
Reports(p) ==
    LET r == [p EXCEPT !.launchTimer = FALSE]
    IN IF ~p.forkReady /\ p.forkProcess # 0 /\ ~p.isShuttingDown
       THEN Mark(r, r.forkProcess, "reported") ELSE r

LEMMA LaunchTimeoutKept ==
    ASSUME NEW p \in State, NEW memory \in Nat, Linked(p, memory), NEW want, NEW given,
           p.launchTimer
    PROVE  /\ Typed(Reports(p), memory)
           /\ Sound(p, want, given, memory) => Sound(Reports(p), want, given, memory)
<1>1. PICK r : r = [p EXCEPT !.launchTimer = FALSE]
  OBVIOUS
<1>2. PICK q : q = Reports(p)
  OBVIOUS
<1>3. q = IF ~p.forkReady /\ p.forkProcess # 0 /\ ~p.isShuttingDown
          THEN Mark(r, r.forkProcess, "reported") ELSE r
  BY <1>1, <1>2 DEF Reports
<1> DEFINE f == p.forkProcess
<1>4. /\ r \in State /\ r.children = p.children /\ r.forkProcess = f /\ r.calls = p.calls
      /\ r.isShuttingDown = p.isShuttingDown /\ r.forkReady = p.forkReady /\ ~r.launchTimer
      /\ r.backoffs = p.backoffs /\ SameCounts(p, r)
      /\ r.open = p.open /\ r.opened = p.opened /\ r.timers = p.timers
  BY <1>1 DEF State, SameCounts
<1>5. PICK m : m = Mark(r, r.forkProcess, "reported")
  OBVIOUS
<1>6. /\ m \in State /\ SameRest(r, m) /\ Len(m.children) = Len(r.children)
      /\ f \in Alive(r) => OneChanged(r, m, f, [r.children[f] EXCEPT !["reported"] = TRUE])
  BY <1>4, <1>5, MarkFields, ZenonT(60)
<1>7. q = m \/ q = r
  BY <1>3, <1>5
<1>8. Typed(q, memory)
  <2>1. /\ q \in State /\ Len(q.children) >= Len(p.children) /\ q.forkProcess <= Len(q.children)
        /\ q.forkRestarts <= p.forkRestarts /\ WatchersFit(q) /\ q.calls = p.calls
    BY <1>4, <1>6, <1>7, StateFields, LinkedWatchers
       DEF Linked, SameRest, SameCalls, SameCounts, WatchersFit
  <2> QED
    BY <2>1, LinkedLater DEF Typed
<1>9. ASSUME Sound(p, want, given, memory)
      PROVE  Sound(q, want, given, memory)
  <2>1. f \in Running(p) /\ ~p.isShuttingDown /\ ~p.forkReady
    BY <1>9 DEF Sound, TimerFits
  <2>2. f \in Alive(p) /\ f # 0 /\ Alive(r) = Alive(p) /\ p.children[f] \in Child
    BY <1>4, <2>1, AliveChild DEF Running, Alive, Ids
  <2>3. q = m
    BY <1>3, <1>5, <2>1, <2>2
  <2> DEFINE child == [p.children[f] EXCEPT !["reported"] = TRUE]
  <2>4. OneChanged(p, q, f, child) /\ SameRest(r, q)
    BY <1>4, <1>6, <2>2, <2>3, ZenonT(60) DEF OneChanged
  <2>5. /\ child.life = p.children[f].life /\ child.asked = p.children[f].asked
        /\ child.killed = p.children[f].killed /\ child.reported
    BY <2>2 DEF Child
  <2> HIDE DEF child
  <2>6. /\ q.forkProcess = f /\ q.isShuttingDown = p.isShuttingDown /\ ~q.launchTimer
        /\ q.calls = p.calls /\ q.backoffs = p.backoffs /\ SameCounts(p, q)
    BY <1>4, <2>4 DEF SameRest, SameCalls, SameCounts
  <2>7. Alive(q) = Alive(p) /\ (Awaited(q) <=> Awaited(p))
    BY <2>2, <2>4, <2>5, <2>6 DEF OneChanged, Alive, Ids, Awaited
  <2>8. \A d \in Alive(p) : q.children[d].killed = p.children[d].killed
                         /\ q.children[d].asked = p.children[d].asked
    BY <2>4, <2>5, AliveChild DEF OneChanged
  <2>9. Alone(q) /\ CallsFit(q, want, memory)
    BY <1>9, <2>6 DEF Sound, Alone, CallsFit
  <2>10. Over(q, want, given) <=> Over(p, want, given)
    BY <2>6 DEF Over
  <2>11. ChildHeld(q, Over(q, want, given))
    BY <1>9, <2>6, <2>7, <2>8, <2>10 DEF Sound, ChildHeld
  <2>12. BackoffFits(q, Over(q, want, given))
    BY <1>9, <2>6, <2>7, <2>10 DEF Sound, BackoffFits
  <2>13. TimerFits(q)
    <3>1. q.children[q.forkProcess].reported
      BY <2>2, <2>4, <2>5, <2>6, AliveChild DEF OneChanged
    <3> QED
      BY <2>6, <3>1 DEF TimerFits
  <2>14. CountsFit(q, memory)
    BY <1>9, <2>6 DEF Sound, CountsFit, SameCounts
  <2> QED
    BY <2>9, <2>11, <2>12, <2>13, <2>14 DEF Sound
<1> QED
  BY <1>2, <1>8, <1>9

\* The backoff over, a child is forked unless the app is being stopped.
LEMMA BackoffKept ==
    ASSUME NEW p \in State, NEW memory \in Nat, Linked(p, memory),
           NEW want \in {"up", "down"}, NEW given,
           p.backoffs > 0
    PROVE  \A r, q : /\ r = [p EXCEPT !.backoffs = p.backoffs - 1]
                     /\ q = IF StartDue(r) THEN [StartFork(r, 1) EXCEPT !.respawns = @ + 1] ELSE r
              => Typed(q, memory) /\ (Sound(p, want, given, memory) => Sound(q, want, given, memory))
<1>0. SUFFICES ASSUME NEW r, NEW q, r = [p EXCEPT !.backoffs = p.backoffs - 1],
                      q = IF StartDue(r) THEN [StartFork(r, 1) EXCEPT !.respawns = @ + 1] ELSE r
               PROVE  /\ Typed(q, memory)
                      /\ Sound(p, want, given, memory) => Sound(q, want, given, memory)
  OBVIOUS
<1> DEFINE fewer == p.backoffs - 1
<1>1. fewer \in Nat
  BY StateFields
<1>2. r = [p EXCEPT !.backoffs = fewer]
  BY <1>0
<1> HIDE DEF fewer
<1>3. /\ r \in State /\ r.children = p.children /\ r.forkProcess = p.forkProcess
      /\ r.calls = p.calls /\ r.isShuttingDown = p.isShuttingDown /\ r.forkReady = p.forkReady
      /\ r.launchTimer = p.launchTimer /\ r.backoffs = fewer /\ SameCounts(p, r)
      /\ r.open = p.open /\ r.opened = p.opened /\ r.timers = p.timers
  BY <1>1, <1>2 DEF State, SameCounts
<1>4. PICK s : s = StartFork(r, 1)
  OBVIOUS
<1>5. /\ s \in State /\ Forks(r, s, 1) /\ SameCalls(r, s) /\ SameCounts(r, s)
      /\ s.isShuttingDown = r.isShuttingDown
      /\ s.open = r.open /\ s.opened = r.opened /\ s.timers = r.timers
  BY <1>3, <1>4, StartForkFields
<1>6. Typed(r, memory) /\ WatchersFit(s)
  <2>1. /\ r.forkProcess <= Len(r.children) /\ r.forkRestarts <= p.forkRestarts
        /\ WatchersFit(r) /\ WatchersFit(s)
    BY <1>3, <1>5, StateFields, LinkedWatchers DEF Linked, SameCounts, WatchersFit
  <2> QED
    BY <1>3, <2>1, LinkedLater DEF Typed
<1>7. CASE ~StartDue(r)
  <2>1. q = r /\ p.isShuttingDown
    BY <1>0, <1>3, <1>7 DEF StartDue
  <2>2. ASSUME Sound(p, want, given, memory)
        PROVE  Sound(r, want, given, memory)
    <3>1. Alive(r) = Alive(p) /\ Running(r) = Running(p) /\ (Awaited(r) <=> Awaited(p))
      BY <1>3 DEF Alive, Running, Ids, Awaited
    <3>2. r.backoffs = 0 /\ p.backoffs = 1
      BY <1>3, <2>2 DEF fewer, Sound, BackoffFits
    <3>3. Alone(r) /\ CallsFit(r, want, memory)
      BY <1>3, <2>2 DEF Sound, Alone, CallsFit
    <3>4. Over(r, want, given) <=> Over(p, want, given)
      BY <1>3 DEF Over
    <3>5. ChildHeld(r, Over(r, want, given))
      BY <1>3, <2>1, <2>2, <3>1, <3>4 DEF Sound, ChildHeld
    <3>6. BackoffFits(r, Over(r, want, given))
      BY <3>2 DEF BackoffFits
    <3>7. TimerFits(r)
      BY <1>3, <2>2, <3>1 DEF Sound, TimerFits
    <3>8. CountsFit(r, memory)
      <4>1. CountsFit(p, memory) /\ {p.respawns, p.forkRestarts} \subseteq Nat
        BY <2>2, StateFields DEF Sound
      <4>2. /\ r.respawns = p.respawns /\ r.forkRestarts = p.forkRestarts /\ r.gaveUp = p.gaveUp
            /\ r.isShuttingDown /\ r.backoffs = 0 /\ p.backoffs = 1
        BY <1>3, <2>1, <3>2 DEF SameCounts
      <4> QED
        BY ONLY <4>1, <4>2, ForkAssumption DEF CountsFit
    <3> QED
      BY <3>3, <3>5, <3>6, <3>7, <3>8 DEF Sound
  <2> QED
    BY <1>6, <2>1, <2>2
<1>8. CASE StartDue(r)
  <2> DEFINE more == s.respawns + 1
  <2>1. q = [s EXCEPT !.respawns = more]
    BY <1>0, <1>4, <1>8
  <2>2. more \in Nat
    BY <1>5, StateFields
  <2> HIDE DEF more
  <2>3. /\ q \in State /\ q.children = s.children /\ q.forkProcess = s.forkProcess
        /\ q.calls = s.calls /\ q.isShuttingDown = s.isShuttingDown /\ q.forkReady = s.forkReady
        /\ q.launchTimer = s.launchTimer /\ q.backoffs = s.backoffs
        /\ q.forkRestarts = s.forkRestarts /\ q.gaveUp = s.gaveUp /\ q.respawns = more
        /\ q.open = s.open /\ q.opened = s.opened /\ q.timers = s.timers
    BY <1>5, <2>1, <2>2 DEF State
  <2>4. Forks(r, q, 1) /\ WatchersFit(q)
    BY <1>5, <1>6, <2>3 DEF Forks, WatchersFit
  <2>5. q.calls = p.calls /\ q.backoffs = fewer /\ ~q.isShuttingDown /\ ~p.isShuttingDown
        /\ q.forkRestarts = p.forkRestarts /\ q.gaveUp = p.gaveUp /\ q.respawns = p.respawns + 1
    BY <1>3, <1>5, <1>8, <2>3 DEF SameCalls, SameCounts, StartDue, more
  <2>6. Typed(q, memory)
    <3>1. [c \in 1..1 |-> Fresh] \in Seq(Child) /\ Len([c \in 1..1 |-> Fresh]) = 1
      BY DEF Fresh, Child
    <3> HIDE DEF Fresh
    <3>2. Len(q.children) = Len(p.children) + 1 /\ q.forkProcess = Len(p.children) + 1
      BY <1>3, <2>4, <3>1, StateFields DEF Forks
    <3>3. q.forkProcess <= Len(q.children) /\ Len(q.children) >= Len(p.children)
          /\ q.forkRestarts <= p.forkRestarts
      BY <2>5, <3>2, StateFields
    <3> QED
      BY <2>3, <2>4, <2>5, <3>3, LinkedLater DEF Typed
  <2>7. ASSUME Sound(p, want, given, memory)
        PROVE  Sound(q, want, given, memory)
    <3>1. p.backoffs = 1 /\ q.backoffs = 0
      BY <2>5, <2>7 DEF fewer, Sound, BackoffFits
    <3>2. ~Over(p, want, given) /\ ~Over(q, want, given) /\ want = "up"
      BY <2>5, <2>7 DEF Over, Sound, CallsFit
    <3>3. Alive(p) = {} /\ Alive(r) = {}
      BY <1>3, <2>7, <3>2 DEF Sound, ChildHeld, BackoffFits, Alive, Ids
    <3>4. DOMAIN p.calls = {} /\ q.calls = EmptyBag /\ DOMAIN q.calls = {}
      <4>1. DOMAIN p.calls = {}
        BY <2>5, <2>7 DEF Sound, CallsFit
      <4> QED
        BY <2>5, <4>1, NoCall, StateFields
    <3>5. /\ Alive(q) = {q.forkProcess} /\ q.forkProcess \in Running(q) /\ q.forkProcess # 0
          /\ q.children[q.forkProcess] = Fresh
      BY <1>3, <2>3, <2>4, <3>3, ForkedAlive
    <3>6. Fresh.life = "launching" /\ ~Fresh.asked /\ ~Fresh.killed /\ ~Fresh.reported
      BY DEF Fresh
    <3> HIDE DEF Fresh
    <3>7. Alone(q) /\ CallsFit(q, want, memory) /\ ~Awaited(q)
      BY <2>5, <3>2, <3>4 DEF Alone, CallsFit, Awaited
    <3>8. ChildHeld(q, Over(q, want, given)) /\ BackoffFits(q, Over(q, want, given))
      BY <3>1, <3>5, <3>6, <3>7 DEF ChildHeld, BackoffFits
    <3>9. TimerFits(q)
      BY <2>4, <2>5, <3>5, <3>6 DEF TimerFits, Forks
    <3>10. CountsFit(q, memory)
      BY <2>5, <2>7, <3>1, StateFields DEF Sound, CountsFit
    <3> QED
      BY <3>7, <3>8, <3>9, <3>10 DEF Sound
  <2> QED
    BY <2>6, <2>7
<1> QED
  BY <1>7, <1>8
\* A stop that was not answered in time kills the child and goes on.
LEMMA KillTyped ==
    ASSUME NEW p \in State, NEW memory \in Nat, Linked(p, memory), NEW call \in DOMAIN p.calls
    PROVE  Typed(KillAndGoOn(p, call), memory)
<1>1. PICK m : m = Mark(p, call.child, "killed")
  OBVIOUS
<1>2. PICK d : d = Drops(m, call)
  OBVIOUS
<1>3. call \in Call /\ call.kind \in Kinds
  BY StateFields, BagType DEF Call, Kinds
<1>4. m \in State /\ SameRest(p, m) /\ Len(m.children) = Len(p.children)
  <2> DEFINE c == call.child
  <2>1. m = Mark(p, c, "killed") /\ "killed" \in {"asked", "killed", "reported"}
    BY <1>1
  <2> HIDE DEF c
  <2> QED
    BY ONLY <2>1, p \in State, MarkFields, Zenon
<1>5. call \in DOMAIN m.calls
  BY <1>4 DEF SameRest, SameCalls
<1>6. d \in State /\ SameButCalls(m, d) /\ DOMAIN d.calls \subseteq DOMAIN m.calls
  BY <1>2, <1>4, <1>5, DropsFields
<1>7. /\ d.forkProcess <= Len(d.children) /\ d.forkRestarts <= p.forkRestarts
      /\ Len(d.children) >= Len(p.children) /\ DOMAIN d.calls \subseteq DOMAIN p.calls
      /\ WatchersFit(d)
  BY <1>4, <1>6, StateFields, LinkedWatchers
     DEF Linked, SameRest, SameButCalls, SameCalls, SameCounts, WatchersFit
<1>8. Linked(d, memory)
  BY <1>6, <1>7, LinkedLater
<1> QED
  BY <1>1, <1>2, <1>3, <1>6, <1>8, ResumeOneTyped DEF KillAndGoOn

LEMMA ClosedTyped ==
    ASSUME NEW p \in State, NEW memory \in Nat, Linked(p, memory), NEW call \in DOMAIN p.calls
    PROVE  Typed(Awaits([Drops(p, call) EXCEPT !.watcher = 0], call.kind), memory)
<1>1. PICK d : d = Drops(p, call)
  OBVIOUS
<1>2. PICK q : q = [d EXCEPT !.watcher = 0]
  OBVIOUS
<1>3. call.kind \in Kinds
  BY StateFields, BagType DEF Call, Kinds
<1>4. d \in State /\ SameButCalls(p, d) /\ DOMAIN d.calls \subseteq DOMAIN p.calls
  BY <1>1, DropsFields
<1>5. /\ q \in State /\ q.children = d.children /\ q.forkProcess = d.forkProcess
      /\ q.forkRestarts = d.forkRestarts /\ q.calls = d.calls
      /\ q.open = d.open /\ q.opened = d.opened /\ q.timers = d.timers
  BY <1>2, <1>4 DEF State
<1>6. /\ q.forkProcess <= Len(q.children) /\ q.forkRestarts <= p.forkRestarts
      /\ q.children = p.children /\ DOMAIN q.calls \subseteq DOMAIN p.calls /\ WatchersFit(q)
  BY <1>4, <1>5, StateFields, LinkedWatchers DEF Linked, SameButCalls, SameCounts, WatchersFit
<1>7. Linked(q, memory)
  BY <1>5, <1>6, LinkedLater
<1> QED
  BY <1>1, <1>2, <1>3, <1>5, <1>7, AwaitsTyped

\* The forced kill: the child is killed, and nothing follows.
LEMMA ForceKilled ==
    ASSUME NEW p \in State, NEW memory \in Nat, Linked(p, memory)
    PROVE  \A r, q :
              /\ r = [p EXCEPT !.isShuttingDown = TRUE, !.launchTimer = FALSE, !.forkProcess = 0]
              /\ q = Mark(r, p.forkProcess, "killed")
              => /\ Typed(q, memory)
                 /\ \A given : \A want \in {"up", "down"} :
                       Sound(p, want, given, memory) /\ p.calls = EmptyBag
                       => Sound(q, "down", MaxCommands, memory)
<1>0. SUFFICES
        ASSUME NEW r, NEW q,
               r = [p EXCEPT !.isShuttingDown = TRUE, !.launchTimer = FALSE, !.forkProcess = 0],
               q = Mark(r, p.forkProcess, "killed")
        PROVE  /\ Typed(q, memory)
               /\ \A given : \A want \in {"up", "down"} :
                     Sound(p, want, given, memory) /\ p.calls = EmptyBag
                     => Sound(q, "down", MaxCommands, memory)
  OBVIOUS
<1> DEFINE f == p.forkProcess
<1>1. /\ r \in State /\ r.children = p.children /\ r.forkProcess = 0 /\ r.calls = p.calls
      /\ r.isShuttingDown /\ r.forkReady = p.forkReady /\ ~r.launchTimer
      /\ r.backoffs = p.backoffs /\ SameCounts(p, r)
      /\ r.open = p.open /\ r.opened = p.opened /\ r.timers = p.timers
  BY <1>0 DEF State, SameCounts
<1>2. /\ q \in State /\ SameRest(r, q) /\ Len(q.children) = Len(r.children)
      /\ DOMAIN q.children = DOMAIN r.children
      /\ f \notin Alive(r) => q = r
      /\ f \in Alive(r) => OneChanged(r, q, f, [r.children[f] EXCEPT !["killed"] = TRUE])
  <2>1. "killed" \in {"asked", "killed", "reported"} /\ r \in State /\ q = Mark(r, f, "killed")
    BY <1>0, <1>1
  <2> HIDE DEF f
  <2> QED
    BY ONLY <2>1, MarkFields, Zenon
<1>3. /\ q.forkProcess = 0 /\ q.isShuttingDown /\ ~q.launchTimer
      /\ q.calls = p.calls /\ q.backoffs = p.backoffs /\ SameCounts(p, q)
      /\ WatchersFit(q)
  BY <1>1, <1>2, LinkedWatchers DEF SameRest, SameCalls, SameCounts, WatchersFit
<1>4. Typed(q, memory)
  <2>1. /\ Len(q.children) >= Len(p.children) /\ q.forkProcess <= Len(q.children)
        /\ q.forkRestarts <= p.forkRestarts
    BY <1>1, <1>2, <1>3, StateFields DEF SameCounts
  <2> QED
    BY <1>2, <1>3, <2>1, LinkedLater DEF Typed
<1>5. ASSUME NEW want \in {"up", "down"}, NEW given,
             Sound(p, want, given, memory), p.calls = EmptyBag
      PROVE  Sound(q, "down", MaxCommands, memory)
  <2>1. Over(q, "down", MaxCommands)
    BY <1>3, <1>5 DEF Over
  <2>2. \A c \in Alive(q) : q.children[c].killed
    <3>1. SUFFICES ASSUME NEW c \in Alive(q)
                   PROVE  q.children[c].killed
      OBVIOUS
    <3>2. CASE f \in Alive(r)
      <4> DEFINE child == [p.children[f] EXCEPT !["killed"] = TRUE]
      <4>1. p.children[f] \in Child /\ p.children[f].life # "gone"
        BY <1>1, <3>2, AliveChild
      <4>2. child.life = p.children[f].life /\ child.killed
        BY <4>1 DEF Child
      <4>3. OneChanged(p, q, f, child)
        BY <1>1, <1>2, <3>2 DEF OneChanged
      <4> HIDE DEF child
      <4>4. c \in Alive(p)
        BY <4>1, <4>2, <4>3 DEF OneChanged, Alive, Ids
      <4>5. c = f \/ p.children[c].killed
        BY <1>5, <4>4 DEF Sound, ChildHeld
      <4> QED
        BY <4>2, <4>3, <4>4, <4>5, AliveChild DEF OneChanged
    <3>3. CASE f \notin Alive(r)
      <4>1. q.children = p.children /\ c \in Alive(p) /\ f \notin Alive(p)
        BY <1>1, <1>2, <3>3 DEF Alive, Ids
      <4> QED
        BY <1>5, <4>1 DEF Sound, ChildHeld
    <3> QED
      BY <3>2, <3>3
  <2>3. ChildHeld(q, Over(q, "down", MaxCommands))
    BY <1>3, <2>1, <2>2 DEF ChildHeld
  <2>4. BackoffFits(q, Over(q, "down", MaxCommands))
    <3>1. 0 \notin Alive(q)
      BY <1>2, AliveChild
    <3> QED
      BY <1>3, <1>5, <2>1, <3>1 DEF Sound, BackoffFits
  <2>5. Alone(q) /\ CallsFit(q, "down", memory)
    BY <1>3, <1>5, NoCall DEF Alone, CallsFit
  <2>6. TimerFits(q)
    BY <1>3 DEF TimerFits
  <2>7. CountsFit(q, memory)
    BY <1>3, <1>5 DEF Sound, CountsFit, SameCounts
  <2> QED
    BY <2>3, <2>4, <2>5, <2>6, <2>7 DEF Sound
<1> QED
  BY <1>4, <1>5
----------------------------------------------------------------------------
(* The invariant is inductive. *)

LEMMA LaunchedFits ==
    /\ Typed(Launched, 0) /\ WatchersFit(Launched) /\ Launched.calls = EmptyBag
    /\ Sound(Launched, "up", 0, 0)
<1> DEFINE p == Launched
<1>1. /\ p.children = <<Fresh>> /\ p.forkProcess = 1 /\ ~p.isShuttingDown /\ p.forkRestarts = 0
      /\ ~p.forkReady /\ p.launchTimer /\ p.backoffs = 0 /\ p.calls = EmptyBag /\ p.respawns = 0
      /\ ~p.gaveUp /\ p.open = {} /\ p.opened = 0 /\ p.timers = {}
  BY DEF Launched
<1>2. Fresh \in Child /\ Fresh.life = "launching" /\ ~Fresh.asked /\ ~Fresh.killed /\ ~Fresh.reported
  BY DEF Fresh, Child
<1>3. p \in State
  BY <1>2, NoCall DEF State, Launched
<1> HIDE DEF p, Fresh
<1>4. DOMAIN p.children = {1} /\ p.children[1] = Fresh /\ Len(p.children) = 1
  BY <1>1
<1>5. DOMAIN p.calls = {}
  BY <1>1, NoCall
<1>6. Linked(p, 0) /\ WatchersFit(p)
  BY <1>1, <1>4, <1>5, ForkAssumption DEF Linked, WatchersFit
<1>7. Alive(p) = {1} /\ Running(p) = {1} /\ ~Awaited(p)
  BY <1>2, <1>4, <1>5 DEF Alive, Running, Ids, Awaited
<1>8. Alone(p) /\ CallsFit(p, "up", 0)
  BY <1>1, <1>5 DEF Alone, CallsFit
<1>9. ChildHeld(p, Over(p, "up", 0)) /\ BackoffFits(p, Over(p, "up", 0))
  BY <1>1, <1>2, <1>4, <1>7 DEF ChildHeld, BackoffFits
<1>10. TimerFits(p)
  BY <1>1, <1>2, <1>4, <1>7 DEF TimerFits
<1>11. CountsFit(p, 0)
  BY <1>1, ForkAssumption DEF CountsFit
<1>12. Typed(p, 0) /\ Sound(p, "up", 0, 0)
  BY <1>3, <1>6, <1>8, <1>9, <1>10, <1>11 DEF Typed, Sound
<1> QED
  BY <1>1, <1>6, <1>12 DEF p

LEMMA SupervisionInit == Init => SupervisionInv
<1> SUFFICES ASSUME Init
             PROVE  SupervisionInv
  OBVIOUS
<1>1. Typed(Launched, 0) /\ Sound(Launched, "up", 0, 0)
  BY LaunchedFits
<1>2. Typed(proc, 0) /\ Sound(proc, "up", 0, 0)
  <2>1. CASE proc = Launched
    BY <1>1, <2>1
  <2>2. CASE proc = OpensWatcher([Launched EXCEPT !.watch = TRUE], 1)
    <3>1. PICK p : p = Launched
      OBVIOUS
    <3>2. p \in State /\ Linked(p, 0) /\ p.opened = 0 /\ p.open = {} /\ p.timers = {}
      <4>1. Launched.opened = 0 /\ Launched.open = {} /\ Launched.timers = {}
        BY DEF Launched
      <4> QED
        BY <1>1, <3>1, <4>1 DEF Typed
    <3>3. proc = [p EXCEPT !.watch = TRUE, !.opened = 1, !.watcher = 1, !.open = {1}]
      <4>1. PICK q : q = [p EXCEPT !.watch = TRUE]
        OBVIOUS
      <4>2. q \in State /\ q.opened = 0 /\ q.open = {}
        BY <3>2, <4>1 DEF State
      <4>3. q.opened + 1 = 1 /\ q.open \cup q.opened + 1..q.opened + 1 = {1}
        BY <4>2
      <4>4. proc = [q EXCEPT !.opened = q.opened + 1, !.watcher = q.opened + 1,
                             !.open = q.open \cup q.opened + 1..q.opened + 1]
        BY <2>2, <3>1, <4>1 DEF OpensWatcher
      <4>5. proc = [q EXCEPT !.opened = 1, !.watcher = 1, !.open = {1}]
        BY <4>3, <4>4
      <4> QED
        BY <3>2, <4>1, <4>5 DEF State
    <3>4. proc \in State /\ SameButWatchers(p, proc) /\ WatchersFit(proc)
      <4> DEFINE set == {1}
                 one == 1
      <4>1. PICK q : q = [p EXCEPT !.watch = TRUE, !.opened = one, !.watcher = one, !.open = set]
        OBVIOUS
      <4>2. one \in Nat /\ set \in SUBSET Nat /\ set = 1..one /\ q = proc
        BY <3>3, <4>1
      <4> HIDE DEF set, one
      <4>3. q \in State /\ q.open = set /\ q.opened = one /\ q.timers = {}
        <5>1. p \in State /\ p.timers = {} /\ one \in Nat /\ set \in SUBSET Nat
          BY <3>2, <4>2
        <5> QED
          BY ONLY <4>1, <5>1 DEF State
      <4>4. SameButWatchers(p, q)
        BY <3>2, <4>1, <4>2 DEF State, SameButWatchers, SameCounts
      <4>5. WatchersFit(q)
        BY <4>2, <4>3 DEF WatchersFit
      <4> QED
        BY <4>2, <4>3, <4>4, <4>5
    <3> QED
      BY <1>1, <3>1, <3>2, <3>4, WatchersTyped, WatchersSound
  <2> QED
    BY <2>1, <2>2 DEF Init
<1>3. Numbers
  <2>1. commands = 0 /\ memoryRestarts = 0 /\ wanted = "up"
    BY DEF Init
  <2>2. commands \in 0..MaxCommands /\ memoryRestarts \in 0..MaxMemoryRestarts
    BY <2>1, ForkAssumption
  <2>3. {timedOut, overlapped, lateReload} \subseteq BOOLEAN
    BY DEF Init
  <2> QED
    BY <1>2, <2>1, <2>2, <2>3 DEF Numbers
<1> QED
  BY <1>2, <1>3 DEF Init, SupervisionInv
\* A turn of which no command is part.
LEMMA TurnKeeps ==
    ASSUME SupervisionInv, UNCHANGED history, Typed(proc', memoryRestarts),
           Orderly => Sound(proc', wanted, commands, memoryRestarts)
    PROVE  SupervisionInv'
<1>1. /\ commands' = commands /\ memoryRestarts' = memoryRestarts /\ wanted' = wanted
      /\ timedOut' = timedOut /\ overlapped' = overlapped /\ lateReload' = lateReload
  BY DEF history
<1>2. Orderly' <=> Orderly
  BY <1>1 DEF Orderly
<1>3. Numbers'
  BY <1>1 DEF SupervisionInv, Numbers
<1> QED
  BY <1>1, <1>2, <1>3 DEF SupervisionInv

LEMMA InvFields ==
    ASSUME SupervisionInv
    PROVE  /\ proc \in State /\ Linked(proc, memoryRestarts) /\ memoryRestarts \in Nat
           /\ commands \in Nat /\ wanted \in {"up", "down"} /\ Ids(proc) = DOMAIN proc.children
           /\ proc.calls \in CallBags
<1>1. proc \in State /\ Linked(proc, memoryRestarts)
  BY DEF SupervisionInv, Numbers, Typed
<1>2. memoryRestarts \in Nat /\ commands \in Nat /\ wanted \in {"up", "down"}
  BY ForkAssumption DEF SupervisionInv, Numbers
<1> QED
  BY <1>1, <1>2, StateFields DEF Ids

LEMMA EventsKeep ==
    ASSUME SupervisionInv
    PROVE  /\ \A c \in Ids(proc) : Ready(c) \/ Exit(c) => SupervisionInv'
           /\ LaunchTimeout \/ BackoffEnds => SupervisionInv'
<1>1. /\ proc \in State /\ Linked(proc, memoryRestarts) /\ memoryRestarts \in Nat
      /\ wanted \in {"up", "down"} /\ Ids(proc) = DOMAIN proc.children
  BY InvFields
<1>2. Orderly => Sound(proc, wanted, commands, memoryRestarts)
  BY DEF SupervisionInv
<1>3. ASSUME NEW c \in Ids(proc), Ready(c)
      PROVE  SupervisionInv'
  <2>1. /\ Typed(proc', memoryRestarts)
        /\ Sound(proc, wanted, commands, memoryRestarts)
               => Sound(proc', wanted, commands, memoryRestarts)
    <3>1. /\ c \in DOMAIN proc.children /\ proc \in State /\ Linked(proc, memoryRestarts)
          /\ memoryRestarts \in Nat
          /\ proc.children[c].life = "launching" /\ ~proc.children[c].killed
          /\ proc' = [proc EXCEPT !.children[c].life = "ready", !.forkReady = TRUE,
                                  !.launchTimer = FALSE]
      BY <1>1, <1>3 DEF Ready
    <3> QED
      BY ONLY <3>1, ReadyKept, ZenonT(60)
  <2> QED
    BY <1>2, <1>3, <2>1, TurnKeeps DEF Ready
<1>4. ASSUME NEW c \in Ids(proc), Exit(c)
      PROVE  SupervisionInv'
  <2>1. PICK clean \in BOOLEAN : proc' = Exited(proc, c, clean)
    BY <1>4 DEF Exit
  <2>2. c \in Alive(proc) /\ UNCHANGED history
    BY <1>4 DEF Exit, Alive
  <2>3. Typed(proc', memoryRestarts)
    BY <1>1, <2>1, ExitedTyped
  <2>4. Orderly => Sound(proc', wanted, commands, memoryRestarts)
    BY <1>1, <1>2, <2>1, <2>2, ExitSound
  <2> QED
    BY <2>2, <2>3, <2>4, TurnKeeps
<1>5. ASSUME LaunchTimeout
      PROVE  SupervisionInv'
  <2>1. proc.launchTimer /\ UNCHANGED history /\ proc' = Reports(proc)
    BY <1>5 DEF LaunchTimeout, Reports
  <2>2. /\ Typed(proc', memoryRestarts)
        /\ Sound(proc, wanted, commands, memoryRestarts)
               => Sound(proc', wanted, commands, memoryRestarts)
    BY <1>1, <2>1, LaunchTimeoutKept
  <2> QED
    BY <1>2, <2>1, <2>2, TurnKeeps
<1>6. ASSUME BackoffEnds
      PROVE  SupervisionInv'
  <2> DEFINE p == [proc EXCEPT !.backoffs = proc.backoffs - 1]
  <2>1. /\ proc.backoffs > 0 /\ UNCHANGED history
        /\ proc' = IF StartDue(p) THEN [StartFork(p, 1) EXCEPT !.respawns = @ + 1] ELSE p
    BY <1>6 DEF BackoffEnds
  <2>2. /\ Typed(proc', memoryRestarts)
        /\ Sound(proc, wanted, commands, memoryRestarts)
               => Sound(proc', wanted, commands, memoryRestarts)
    BY <1>1, <2>1, BackoffKept
  <2> HIDE DEF p
  <2> QED
    BY <1>2, <2>1, <2>2, TurnKeeps
<1> QED
  BY <1>3, <1>4, <1>5, <1>6

LEMMA StopsKeep ==
    ASSUME SupervisionInv
    PROVE  KillTimeout \/ WatcherClosed => SupervisionInv'
<1>1. /\ proc \in State /\ Linked(proc, memoryRestarts) /\ memoryRestarts \in Nat
      /\ wanted \in {"up", "down"}
  BY InvFields
<1>2. ASSUME KillTimeout
      PROVE  SupervisionInv'
  <2>1. PICK call \in DOMAIN proc.calls :
           /\ proc' = KillAndGoOn(proc, call) /\ timedOut' = TRUE
           /\ UNCHANGED <<commands, memoryRestarts, wanted, overlapped, lateReload>>
    BY <1>2 DEF KillTimeout
  <2>2. Typed(proc', memoryRestarts)
    BY <1>1, <2>1, KillTyped
  <2>3. Numbers' /\ ~Orderly'
    BY <2>1, <2>2 DEF SupervisionInv, Numbers, Orderly
  <2> QED
    BY <2>3 DEF SupervisionInv
<1>3. ASSUME WatcherClosed
      PROVE  SupervisionInv'
  <2>1. PICK call \in DOMAIN proc.calls :
           /\ call.closing /\ UNCHANGED history
           /\ proc' = Awaits([Drops(proc, call) EXCEPT !.watcher = 0], call.kind)
    BY <1>3 DEF WatcherClosed
  <2>2. Typed(proc', memoryRestarts)
    BY <1>1, <2>1, ClosedTyped
  <2>3. Orderly => Sound(proc', wanted, commands, memoryRestarts)
    BY <1>1, <2>1, ClosedSound DEF SupervisionInv
  <2> QED
    BY <2>1, <2>2, <2>3, TurnKeeps
<1> QED
  BY <1>2, <1>3

\* A command finds no other under way, or the calls overlap.
LEMMA CalledAlone ==
    ASSUME SupervisionInv, Called, timedOut' = timedOut, lateReload => lateReload'
    PROVE  /\ overlapped' \in BOOLEAN
           /\ Orderly' => Orderly /\ proc.calls = EmptyBag
<1>1. overlapped' = (overlapped \/ proc.calls # EmptyBag) /\ overlapped \in BOOLEAN
  BY DEF SupervisionInv, Numbers, Called
<1>2. overlapped' \in BOOLEAN /\ (~overlapped' => ~overlapped /\ proc.calls = EmptyBag)
  BY <1>1, Zenon
<1> QED
  BY <1>2 DEF Orderly

LEMMA CommandsKeep ==
    ASSUME SupervisionInv
    PROVE  Stop \/ Restart \/ ForceKill \/ MemoryRestart => SupervisionInv'
<1>1. /\ proc \in State /\ Linked(proc, memoryRestarts) /\ memoryRestarts \in Nat
      /\ commands \in Nat /\ wanted \in {"up", "down"}
  BY InvFields
<1>2. Orderly => Sound(proc, wanted, commands, memoryRestarts)
  BY DEF SupervisionInv
<1>3. /\ memoryRestarts \in 0..MaxMemoryRestarts /\ commands \in 0..MaxCommands
      /\ timedOut \in BOOLEAN /\ lateReload \in BOOLEAN
  BY DEF SupervisionInv, Numbers
<1>4. ASSUME NEW kind \in Kinds, NEW intent \in {"up", "down"}, kind = "stop" <=> intent = "down",
             kind # "memory", UserCommand(intent), proc' = Begin(proc, kind)
      PROVE  SupervisionInv'
  <2>1. /\ commands + memoryRestarts < MaxCommands /\ commands' = commands + 1 /\ wanted' = intent
        /\ Called /\ memoryRestarts' = memoryRestarts /\ timedOut' = timedOut
        /\ lateReload' = lateReload
    BY <1>4 DEF UserCommand
  <2>2. overlapped' \in BOOLEAN /\ (Orderly' => Orderly /\ proc.calls = EmptyBag)
    BY <2>1, CalledAlone
  <2>3. Typed(proc', memoryRestarts)
    BY <1>1, <1>4, BeginTyped
  <2>4. commands' \in 0..MaxCommands /\ commands # MaxCommands
    BY <1>1, <2>1, ForkAssumption
  <2>5. Numbers'
    BY <1>3, <1>4, <2>1, <2>2, <2>3, <2>4 DEF Numbers
  <2>6. ASSUME Orderly'
        PROVE  Sound(proc', intent, commands', memoryRestarts)
    <3>1. Settled(proc, memoryRestarts)
      BY <1>1, <1>2, <2>2, <2>4, <2>6, SoundSettled DEF Over
    <3>2. Means(kind, intent, memoryRestarts)
      BY <1>4 DEF Means
    <3> QED
      BY <1>1, <1>4, <3>1, <3>2, BeginSound
  <2> QED
    BY <2>1, <2>5, <2>6 DEF SupervisionInv
<1>5. ASSUME Stop
      PROVE  SupervisionInv'
  BY <1>4, <1>5 DEF Stop, Kinds
<1>6. ASSUME Restart
      PROVE  SupervisionInv'
  BY <1>4, <1>6 DEF Restart, Kinds
<1>7. ASSUME ForceKill
      PROVE  SupervisionInv'
  <2> DEFINE p == [proc EXCEPT !.isShuttingDown = TRUE, !.launchTimer = FALSE, !.forkProcess = 0]
  <2>1. /\ commands' = MaxCommands /\ wanted' = "down" /\ Called
        /\ memoryRestarts' = memoryRestarts /\ timedOut' = timedOut /\ lateReload' = lateReload
        /\ proc' = Mark(p, proc.forkProcess, "killed")
    BY <1>7 DEF ForceKill
  <2>2. overlapped' \in BOOLEAN /\ (Orderly' => Orderly /\ proc.calls = EmptyBag)
    BY <2>1, CalledAlone
  <2>3. /\ Typed(proc', memoryRestarts)
        /\ \A given : \A want \in {"up", "down"} :
              Sound(proc, want, given, memoryRestarts) /\ proc.calls = EmptyBag
              => Sound(proc', "down", MaxCommands, memoryRestarts)
    BY <1>1, <2>1, ForceKilled
  <2> HIDE DEF p
  <2>4. commands' \in 0..MaxCommands
    BY <2>1, ForkAssumption
  <2>5. Numbers'
    BY <1>3, <2>1, <2>2, <2>3, <2>4 DEF Numbers
  <2>6. Orderly' => Sound(proc', "down", MaxCommands, memoryRestarts)
    BY <1>1, <1>2, <2>2, <2>3
  <2> QED
    BY <2>1, <2>5, <2>6 DEF SupervisionInv
<1>8. ASSUME MemoryRestart
      PROVE  SupervisionInv'
  <2> DEFINE more == proc.forkRestarts + 1
             memory == memoryRestarts + 1
  <2>1. /\ memoryRestarts < MaxMemoryRestarts /\ ~proc.isShuttingDown /\ Called
        /\ memoryRestarts' = memory /\ commands' = commands /\ wanted' = wanted
        /\ timedOut' = timedOut /\ lateReload' = lateReload
    BY <1>8 DEF MemoryRestart, OverLimit
  <2>2. PICK p : p = [proc EXCEPT !.forkRestarts = more]
    OBVIOUS
  <2>3. proc' = Begin(p, "memory")
    BY <1>8, <2>2 DEF MemoryRestart
  <2>4. overlapped' \in BOOLEAN /\ (Orderly' => Orderly /\ proc.calls = EmptyBag)
    BY <2>1, CalledAlone
  <2>5. more \in Nat /\ memory \in Nat /\ memory \in 0..MaxMemoryRestarts /\ memory # 0
        /\ more = proc.forkRestarts + 1 /\ proc.forkRestarts \in Nat
        /\ more <= MaxRestarts + memory
    BY <1>1, <1>3, <2>1, StateFields, ForkAssumption DEF Linked
  <2> HIDE DEF more, memory
  <2>6. /\ p \in State /\ p.children = proc.children /\ p.forkProcess = proc.forkProcess
        /\ p.isShuttingDown = proc.isShuttingDown /\ p.calls = proc.calls
        /\ p.backoffs = proc.backoffs /\ p.respawns = proc.respawns /\ p.gaveUp = proc.gaveUp
        /\ p.forkRestarts = more
        /\ p.open = proc.open /\ p.opened = proc.opened /\ p.timers = proc.timers
    BY <1>1, <2>2, <2>5 DEF State
  <2>7. Linked(p, memory)
    BY <1>1, <2>5, <2>6 DEF Linked
  <2>8. Typed(proc', memory)
    BY <2>3, <2>5, <2>6, <2>7, BeginTyped DEF Kinds
  <2>9. Numbers'
    BY <1>3, <2>1, <2>4, <2>5, <2>8 DEF SupervisionInv, Numbers
  <2>10. ASSUME Orderly'
         PROVE  Sound(proc', wanted, commands, memory)
    <3>1. wanted = "up" /\ proc.calls = EmptyBag /\ Sound(proc, wanted, commands, memoryRestarts)
      BY <1>1, <1>2, <2>1, <2>4, <2>10 DEF Sound, CallsFit
    <3>2. Settled(proc, memoryRestarts)
      BY <1>1, <3>1, SoundSettled DEF Over
    <3>3. CountsFit(p, memory)
      BY <1>1, <2>5, <2>6, <3>2, StateFields DEF Settled, CountsFit
    <3>4. Alive(p) = Alive(proc)
      BY <2>6 DEF Alive, Ids
    <3>5. Settled(p, memory)
      BY <2>6, <3>2, <3>3, <3>4 DEF Settled
    <3>6. Means("memory", wanted, memory)
      BY <2>5, <3>1 DEF Means, Kinds
    <3> QED
      BY <2>3, <2>5, <2>6, <3>5, <3>6, BeginSound
  <2> QED
    BY <2>1, <2>9, <2>10 DEF SupervisionInv
<1> QED
  BY <1>5, <1>6, <1>7, <1>8
LEMMA WatchesKeep ==
    ASSUME SupervisionInv
    PROVE  /\ \A w \in proc.open : Change(w) => SupervisionInv'
           /\ \A w \in proc.timers : WatchReload(w) => SupervisionInv'
<1>1. /\ proc \in State /\ Linked(proc, memoryRestarts) /\ memoryRestarts \in Nat
      /\ commands \in Nat /\ wanted \in {"up", "down"}
  BY InvFields
<1>2. Orderly => Sound(proc, wanted, commands, memoryRestarts)
  BY DEF SupervisionInv
<1>3. /\ memoryRestarts \in 0..MaxMemoryRestarts /\ commands \in 0..MaxCommands
      /\ {timedOut, overlapped, lateReload} \subseteq BOOLEAN
  BY DEF SupervisionInv, Numbers
<1>4. ASSUME NEW w \in proc.open, Change(w)
      PROVE  SupervisionInv'
  <2> DEFINE set == proc.timers \cup {w}
  <2>1. /\ commands + memoryRestarts < MaxCommands /\ commands' = commands + 1
        /\ memoryRestarts' = memoryRestarts /\ wanted' = wanted /\ timedOut' = timedOut
        /\ overlapped' = overlapped /\ lateReload' = lateReload
        /\ proc' = [proc EXCEPT !.timers = set]
    BY <1>4 DEF Change
  <2>2. set \subseteq 1..proc.opened
    BY <1>1 DEF Linked
  <2> HIDE DEF set
  <2>3. Typed(proc', memoryRestarts) /\ SameButWatchers(proc, proc')
    BY <1>1, <2>1, <2>2, TimersChange
  <2>4. commands' \in 0..MaxCommands /\ commands # MaxCommands
    BY <1>1, <2>1, ForkAssumption
  <2>5. Numbers'
    BY <1>3, <2>1, <2>3, <2>4 DEF SupervisionInv, Numbers
  <2>6. ASSUME Orderly'
        PROVE  Sound(proc', wanted, commands', memoryRestarts)
    <3>1. Sound(proc, wanted, commands, memoryRestarts)
      BY <1>2, <2>1, <2>6 DEF Orderly
    <3>2. Sound(proc', wanted, commands, memoryRestarts)
      BY <2>3, <3>1, WatchersSound
    <3>3. ~Over(proc', wanted, commands)
      BY <2>4 DEF Over
    <3> QED
      BY <3>2, <3>3 DEF Sound, ChildHeld, BackoffFits
  <2> QED
    BY <2>1, <2>5, <2>6 DEF SupervisionInv
<1>5. ASSUME NEW w \in proc.timers, WatchReload(w)
      PROVE  SupervisionInv'
  <2> DEFINE set == proc.timers \ {w}
             busy == \E call \in DOMAIN proc.calls : call.kind = "reload"
  <2>1. PICK p : p = [proc EXCEPT !.timers = set]
    OBVIOUS
  <2>2. /\ commands' = commands /\ memoryRestarts' = memoryRestarts /\ wanted' = wanted
        /\ timedOut' = timedOut /\ Called /\ lateReload' = (lateReload \/ wanted = "down")
        /\ proc' = IF \E call \in DOMAIN p.calls : call.kind = "reload" THEN p
                   ELSE Begin(p, "reload")
    BY <1>5, <2>1 DEF WatchReload
  <2>3. set \subseteq 1..proc.opened
    BY <1>1 DEF Linked
  <2> HIDE DEF set
  <2>4. Typed(p, memoryRestarts) /\ SameButWatchers(proc, p)
    BY <1>1, <2>1, <2>3, TimersChange
  <2>5. Typed(proc', memoryRestarts)
    BY <1>1, <2>2, <2>4, BeginTyped DEF Typed, Kinds
  <2>6. /\ lateReload' \in BOOLEAN /\ (lateReload => lateReload')
        /\ wanted = "down" => lateReload'
    BY <1>3, <2>2, Zenon
  <2>7. overlapped' \in BOOLEAN /\ (Orderly' => Orderly /\ proc.calls = EmptyBag)
    BY <2>2, <2>6, CalledAlone
  <2>8. Numbers'
    BY <1>3, <2>2, <2>5, <2>6, <2>7 DEF SupervisionInv, Numbers
  <2>9. ASSUME Orderly'
        PROVE  Sound(proc', wanted, commands, memoryRestarts)
    <3>1. wanted = "up" /\ proc.calls = EmptyBag /\ Sound(proc, wanted, commands, memoryRestarts)
      BY <1>1, <1>2, <2>6, <2>7, <2>9 DEF Orderly
    <3>2. p.calls = EmptyBag /\ Sound(p, wanted, commands, memoryRestarts)
      BY <2>4, <3>1, WatchersSound DEF SameButWatchers
    <3>3. proc' = Begin(p, "reload")
      BY <2>2, <3>2, NoCall
    <3>4. p \in State /\ Settled(p, memoryRestarts)
      BY <2>4, <3>1, <3>2, SoundSettled DEF Over, Typed
    <3>5. Means("reload", wanted, memoryRestarts)
      BY <3>1 DEF Means, Kinds
    <3> QED
      BY <1>1, <3>3, <3>4, <3>5, BeginSound
  <2> QED
    BY <2>2, <2>8, <2>9 DEF SupervisionInv
<1> QED
  BY <1>4, <1>5

LEMMA SupervisionStep == SupervisionInv /\ [Next]_vars => SupervisionInv'
<1> SUFFICES ASSUME SupervisionInv, [Next]_vars
             PROVE  SupervisionInv'
  OBVIOUS
<1>1. CASE UNCHANGED vars
  BY <1>1, TurnKeeps DEF vars, SupervisionInv, Numbers
<1>2. CASE \E c \in Ids(proc) : Ready(c) \/ Exit(c)
  BY <1>2, EventsKeep
<1>3. CASE LaunchTimeout \/ BackoffEnds
  BY <1>3, EventsKeep
<1>4. CASE KillTimeout \/ WatcherClosed
  BY <1>4, StopsKeep
<1>5. CASE Stop \/ Restart \/ ForceKill \/ MemoryRestart
  BY <1>5, CommandsKeep
<1>6. CASE (\E w \in proc.open : Change(w)) \/ (\E w \in proc.timers : WatchReload(w))
  BY <1>6, WatchesKeep
<1> QED
  BY <1>1, <1>2, <1>3, <1>4, <1>5, <1>6 DEF Next
----------------------------------------------------------------------------
(* What the invariant says of the process. *)

LEMMA TypesFit == SupervisionInv => TypeOK
<1> SUFFICES ASSUME SupervisionInv
             PROVE  TypeOK
  OBVIOUS
<1>1. /\ proc \in State /\ Linked(proc, memoryRestarts) /\ memoryRestarts \in Nat
      /\ Ids(proc) = DOMAIN proc.children /\ proc.calls \in CallBags
  BY InvFields
<1>2. proc.children \in Seq(Child) /\ proc.forkProcess \in 0..Len(proc.children)
  BY <1>1, StateFields DEF Linked
<1>3. DOMAIN proc.calls \subseteq Call /\ proc.calls \in [DOMAIN proc.calls -> Nat \ {0}]
  BY <1>1, BagType
<1>4. IsABag(proc.calls)
  <2>1. {n \in Nat : n > 0} = Nat \ {0}
    OBVIOUS
  <2> QED
    BY <1>3, <2>1 DEF IsABag
<1>5. \A call \in DOMAIN proc.calls : call.closing \/ call.child \in Ids(proc)
  BY <1>1 DEF Linked
<1>6. proc.forkRestarts \in 0..MaxRestarts + memoryRestarts
  BY <1>1, StateFields, ForkAssumption DEF Linked
<1>7. {proc.backoffs, proc.respawns} \subseteq Nat
  BY <1>1, StateFields
<1>8. {proc.isShuttingDown, proc.forkReady, proc.launchTimer, proc.gaveUp} \subseteq BOOLEAN
  BY <1>1, StateFields
<1>9. proc.open \cup proc.timers \subseteq 1..proc.opened
  BY <1>1 DEF Linked
<1> QED
  BY <1>2, <1>3, <1>4, <1>5, <1>6, <1>7, <1>8, <1>9 DEF TypeOK, SupervisionInv, Numbers

LEMMA OrderlyFits ==
    SupervisionInv => OneChild /\ LaunchWatched /\ LimitExact /\ StaysStopped /\ ListedTruly
<1> SUFFICES ASSUME SupervisionInv, Orderly
             PROVE  OneChild /\ LaunchWatched /\ LimitExact /\ StaysStopped /\ ListedTruly
  BY Zenon DEF OneChild, LaunchWatched, LimitExact, StaysStopped, ListedTruly
<1>1. /\ proc \in State /\ wanted \in {"up", "down"} /\ proc.forkProcess \in Nat
      /\ proc.backoffs \in Nat /\ proc.respawns \in Nat /\ proc.forkRestarts \in Nat
      /\ proc.isShuttingDown \in BOOLEAN /\ proc.launchTimer \in BOOLEAN
  BY InvFields, StateFields
<1>2. /\ Alone(proc) /\ CallsFit(proc, wanted, memoryRestarts)
      /\ ChildHeld(proc, Over(proc, wanted, commands))
      /\ BackoffFits(proc, Over(proc, wanted, commands))
      /\ TimerFits(proc) /\ CountsFit(proc, memoryRestarts)
  BY DEF SupervisionInv, Sound
<1>3. \A c \in Alive(proc) : /\ c # 0 /\ proc.children[c].asked \in BOOLEAN
                             /\ proc.children[c].killed \in BOOLEAN
  BY <1>1, AliveChild DEF Child
<1>4. Running(proc) \subseteq {proc.forkProcess}
  BY <1>2 DEF ChildHeld, Running
<1>5. ASSUME ~proc.isShuttingDown
      PROVE  /\ proc.calls = EmptyBag /\ ~Awaited(proc) /\ wanted = "up"
             /\ Running(proc) = Alive(proc)
  <2>1. DOMAIN proc.calls = {} /\ wanted = "up"
    BY <1>1, <1>2, <1>5 DEF CallsFit
  <2>2. proc.calls = EmptyBag /\ ~Awaited(proc)
    BY <1>1, <2>1, NoCall, StateFields DEF Awaited
  <2>3. \A c \in Alive(proc) : ~proc.children[c].asked /\ ~proc.children[c].killed
    BY <1>2, <1>3, <1>5, <2>2 DEF ChildHeld, Over
  <2> QED
    BY <2>1, <2>2, <2>3 DEF Running
<1>6. OneChild
  BY <1>2, <1>4, <1>5 DEF OneChild, ChildHeld
<1>7. LaunchWatched
  BY <1>2 DEF LaunchWatched, TimerFits
<1>8. LimitExact
  BY <1>1, <1>2, ForkAssumption DEF LimitExact, CountsFit
<1>9. ASSUME proc.isShuttingDown, proc.calls = EmptyBag
      PROVE  Running(proc) = {} /\ proc.forkProcess = 0
  <2>1. proc.forkProcess = 0
    BY <1>2, <1>9 DEF CallsFit
  <2> QED
    BY <1>3, <1>4, <2>1 DEF Running
<1>10. StaysStopped
  BY <1>2, <1>9 DEF StaysStopped, CallsFit
<1>11. ListedTruly
  <2> SUFFICES ASSUME proc.calls = EmptyBag
               PROVE  Status = IF Running(proc) # {} \/ (proc.backoffs > 0 /\ StartDue(proc))
                               THEN "online" ELSE "stopped"
    BY DEF ListedTruly
  <2>1. CASE proc.isShuttingDown
    BY <1>9, <2>1 DEF Status, StartDue
  <2>2. CASE ~proc.isShuttingDown /\ proc.forkProcess = 0
    <3>1. Running(proc) = {}
      BY <1>3, <1>4, <2>2 DEF Running
    <3>2. ~(proc.backoffs > 0)
      BY <1>2, <2>2 DEF BackoffFits, Over
    <3> QED
      BY <2>2, <3>1, <3>2 DEF Status
  <2>3. CASE ~proc.isShuttingDown /\ proc.forkProcess # 0
    <3>1. Running(proc) # {} \/ proc.backoffs > 0
      BY <1>1, <1>2, <1>5, <2>3 DEF ChildHeld
    <3> QED
      BY <2>3, <3>1 DEF Status, StartDue
  <2> QED
    BY <1>1, <2>1, <2>2, <2>3
<1> QED
  BY <1>6, <1>7, <1>8, <1>10, <1>11

\* The supervision invariant holds in every state of every behaviour.
THEOREM SupervisionInvariant == Spec => []SupervisionInv
<1>1. Init => SupervisionInv
  BY SupervisionInit
<1>2. SupervisionInv /\ [Next]_vars => SupervisionInv'
  BY SupervisionStep
<1> QED
  BY <1>1, <1>2, PTL DEF Spec

\* Whatever the restart limit and the commands: one child, its launch watched and its restarts
\* counted exactly, that stays stopped when it was stopped and is listed as it is
\* (ManagedProcess.ts:306-355, 793-961).
THEOREM Supervision == Spec => []Supervised
<1>1. SupervisionInv => Supervised
  BY TypesFit, OrderlyFits DEF Supervised
<1> QED
  BY <1>1, SupervisionInvariant, PTL
==============================================================================
