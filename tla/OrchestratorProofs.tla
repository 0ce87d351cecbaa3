--------------------------- MODULE OrchestratorProofs ---------------------------
(***************************************************************************)
(* The registry of processes for any number of processes, names and        *)
(* requests: the maps agree, no child escapes and jobs follow.             *)
(***************************************************************************)
EXTENDS Orchestrator, FiniteSetTheorems, TLAPS

StopOps == {"down", "restart", "reload", "delete", "replace", "close"}
Steps == [op : {"up", "replace", "down", "restart", "reload", "delete", "close"}, name : Names, id : Nat]
Container == [name : Names, stopping : BOOLEAN, child : Int, backoffs : Nat]
Child == [of : Ids, state : {"launching", "live", "killed"}, waiters : SUBSET DOMAIN calls]

\* The types of all but the requests and the children.
Shape ==
    /\ containers \in Seq(Container)
    /\ processes \subseteq Ids /\ reloading \subseteq Ids
    /\ nameToId \in [Names -> 0..Len(containers)]
    /\ jobs \subseteq Names
    /\ phase \in {"up", "closing", "stopping", "down"}
    /\ setbacks \in 0..MaxSetbacks
    /\ raced \subseteq Names /\ slow \subseteq Names /\ torn \subseteq Names /\ stray \subseteq Names
    /\ late \in BOOLEAN

(* Every request, whatever else there is. *)

\* A step of the request r that has an id names the process of cs that has it.
StepInv(r, s, cs) ==
    /\ s.id # 0 => s.id \in DOMAIN cs /\ cs[s.id].name = s.name
    /\ s.op = "close" => r.kind = "close" /\ s.id # 0
    /\ r.kind = "close" => s.op = "close"
    /\ s.op \in {"delete", "replace"} => s.name \in r.names

\* What a request may await follows from its step.
PlaceInv(r) ==
    /\ r.at \notin {"go", "done"} => r.todo # <<>> /\ r.todo[1].id # 0
    /\ r.at \in Stopping =>
           r.todo[1].op \in StopOps /\ (r.todo[1].op = "reload" => r.todo[1].name \notin Clustered)
    /\ r.at = "ready" => r.todo[1].op \in {"up", "restart"}
    /\ r.at = "reload" => r.todo[1].op = "reload"

CallInv(r, cs) == r \in Call /\ PlaceInv(r) /\ \A k \in DOMAIN r.todo : StepInv(r, r.todo[k], cs)
CallsInv == calls \in Seq(Call) /\ \A c \in DOMAIN calls : CallInv(calls[c], containers)

(* The maps. *)

\* While up() awaits the primary of a name that is not raced no other process has the name.
Launches(r) == r.at = "ready" /\ r.todo[1].op = "up"
Unnamed == \A c \in DOMAIN calls :
    Launches(calls[c]) /\ calls[c].todo[1].name \notin raced =>
        nameToId[calls[c].todo[1].name] \in {0, calls[c].todo[1].id}

RegistryInv == NamesAgree /\ Unnamed

(* The reloads. *)

Reloads(r) == r.at \in Waiting \cup {"stopped"} /\ r.todo[1].op = "reload"
Reloaded(r) == r.todo[1].id
ReloadInv ==
    phase # "down" =>
        /\ \A c \in DOMAIN calls : Reloads(calls[c]) => Reloaded(calls[c]) \in reloading
        /\ \A c, d \in DOMAIN calls :
               Reloads(calls[c]) /\ Reloads(calls[d]) /\ Reloaded(calls[c]) = Reloaded(calls[d]) => c = d
        /\ \A i \in reloading : \E c \in DOMAIN calls : Reloads(calls[c]) /\ Reloaded(calls[c]) = i

(* The jobs. *)

Strange == raced \cup slow \cup stray
Registering == {"up", "restore", "reconcile"}
\* A step of r will give n a process.
ToCome(r, n) == \E k \in DOMAIN r.todo : r.todo[k].op = "up" /\ r.todo[k].name = n /\ (k = 1 => r.at = "go")
Registers(r) == r.at # "done" /\ r.kind \in Registering
Deletes(r, n) == r.at # "done" /\ r.kind = "delete" /\ n \in r.names
JobInv ==
    phase # "down" =>
        /\ \A n \in jobs \ Strange : nameToId[n] # 0 \/ \E d \in DOMAIN calls : Deletes(calls[d], n)
        /\ \A c \in DOMAIN calls : Registers(calls[c]) =>
               \A n \in calls[c].names \ Strange : nameToId[n] # 0 \/ ToCome(calls[c], n)

(* The children. *)

\* A child of i lives, or will after a backoff.
Runs(i, cs, ks) ==
    \/ \E k \in DOMAIN ks : ks[k].of = i /\ ks[k].state # "killed"
    \/ cs[i].backoffs # 0 /\ ~cs[i].stopping
AwaitedAt(r, i, ats) == r.at \in ats /\ r.todo # <<>> /\ r.todo[1].id = i
Restarts(r, i) == r.at \in Stopping /\ r.todo[1].op \in {"restart", "reload"} /\ r.todo[1].id = i

\* The child that a container holds is its own.
Family ==
    /\ IsFiniteSet(Kids) /\ Kids \subseteq Nat \ {0}
    /\ children \in [Kids -> Child]
    /\ \A i \in Ids : ChildOf(i) \in {None, Dead} \cup Kids
                      /\ (ChildOf(i) \in Kids => children[ChildOf(i)].of = i)

\* A container whose name is not torn has the one child that it holds, and it is being stopped
\* when some stop awaits its exit or has killed it.  A backoff follows a child that is dead.
Sole(i) ==
    /\ \A k \in Kids : children[k].of = i =>
           ChildOf(i) = k /\ (Asked(k) <=> containers[i].stopping)
    /\ containers[i].backoffs # 0 => ChildOf(i) = Dead /\ containers[i].backoffs = 1
\* Who stops it waits for that child, and a restart has seen it exit, one at a time.
Attended(i) ==
    /\ \A c \in DOMAIN calls : AwaitedAt(calls[c], i, {"stop"}) =>
           /\ containers[i].stopping /\ Held(i)
           /\ \A k \in Kids : children[k].of = i => c \in children[k].waiters
    /\ \A c \in DOMAIN calls : calls[c].at = "stopped" /\ Restarts(calls[c], i) => ~Held(i)
    /\ \A c, d \in DOMAIN calls : Restarts(calls[c], i) /\ Restarts(calls[d], i) => c = d
Tended == \A i \in Ids : containers[i].name \notin torn => Sole(i) /\ Attended(i)

\* Who is to be told of an exit awaits it, and no other.
Waits == phase # "down" => \A k \in Kids : \A c \in children[k].waiters :
    /\ AwaitedAt(calls[c], children[k].of, {"stop"})
    /\ \A l \in Kids : c \in children[l].waiters => k = l

Listed == \A i \in Ids :
    Runs(i, containers, children) /\ containers[i].name \notin raced \cup slow \cup torn /\ ~late =>
        i \in processes
\* A process that is about to leave the maps does not run.
Leaves(r) == r.at = "stopped" /\ r.todo[1].op \in {"delete", "replace"}
Gone == \A c \in DOMAIN calls :
    Leaves(calls[c]) /\ calls[c].todo[1].name \notin raced \cup torn =>
        ~Runs(calls[c].todo[1].id, containers, children)
\* The shutdown stops every process, and nothing else goes on meanwhile.
Closes(r) == r.kind = "close" /\ r.at # "done"
Closings ==
    /\ \A c \in DOMAIN calls : Closes(calls[c]) => phase = "stopping"
    /\ phase \in {"up", "closing"} => ~late
    /\ phase = "down" => \A c \in DOMAIN calls : ~Pending(c)
    /\ phase = "stopping" /\ ~late =>
          /\ \A c \in DOMAIN calls : Pending(c) => Closes(calls[c])
          /\ \A i \in processes : Runs(i, containers, children) /\ containers[i].name \notin torn =>
                \E c \in DOMAIN calls : Closes(calls[c]) /\ AwaitedAt(calls[c], i, {"go", "stop"})

ChildInv == Family /\ Tended /\ Waits /\ Listed /\ Gone /\ Closings

OrchestratorInv == Shape /\ CallsInv /\ RegistryInv /\ ReloadInv /\ JobInv /\ ChildInv
----------------------------------------------------------------------------
(* How a request changes. *)

Skipped(r) == [kind |-> r.kind, todo |-> Tail(r.todo), at |-> "go", names |-> r.names]
Moved(r, at) == [kind |-> r.kind, todo |-> r.todo, at |-> at, names |-> r.names]
Turned(r, s, at) == [kind |-> r.kind, todo |-> [r.todo EXCEPT ![1] = s], at |-> at, names |-> r.names]
Moves(c, q) == calls' = [calls EXCEPT ![c] = q]

LEMMA CallFields ==
    ASSUME NEW r \in Call
    PROVE  /\ r.todo \in Seq(Steps) /\ r.names \subseteq Names
           /\ r.at \in Waiting \cup {"go", "stopped", "done"}
           /\ r.kind \in {"up", "restore", "deploy", "reconcile", "down", "restart", "reload", "delete",
                          "close", "none"}
           /\ r = [kind |-> r.kind, todo |-> r.todo, at |-> r.at, names |-> r.names]
BY DEF Call, Steps

LEMMA FirstStep ==
    ASSUME NEW r \in Call, r.todo # <<>>
    PROVE  /\ 1 \in DOMAIN r.todo /\ Head(r.todo) = r.todo[1] /\ r.todo[1] \in Steps
           /\ Tail(r.todo) \in Seq(Steps)
           /\ \A k \in DOMAIN Tail(r.todo) : k + 1 \in DOMAIN r.todo /\ Tail(r.todo)[k] = r.todo[k + 1]
           /\ \A k \in DOMAIN r.todo : k # 1 => k - 1 \in DOMAIN Tail(r.todo)
                                                /\ Tail(r.todo)[k - 1] = r.todo[k]
<1>1. r.todo \in Seq(Steps)
  BY CallFields
<1> PICK todo \in Seq(Steps) : todo = r.todo
  BY <1>1
<1>2. todo # <<>> => Len(todo) \in Nat /\ Len(todo) > 0 /\ DOMAIN todo = 1..Len(todo)
  OBVIOUS
<1>3. Head(todo) = todo[1] /\ 1 \in DOMAIN todo /\ todo[1] \in Steps
  BY <1>2
<1>4. /\ Tail(todo) \in Seq(Steps) /\ DOMAIN Tail(todo) = 1..(Len(todo) - 1)
      /\ \A k \in 1..(Len(todo) - 1) : Tail(todo)[k] = todo[k + 1]
  BY <1>2
<1>5. \A k \in 1..(Len(todo) - 1) : k + 1 \in 1..Len(todo)
  BY <1>2
<1>6. \A k \in 1..Len(todo) : k # 1 => k - 1 \in 1..(Len(todo) - 1) /\ (k - 1) + 1 = k
  BY <1>2
<1> QED
  BY <1>2, <1>3, <1>4, <1>5, <1>6

LEMMA StepFields ==
    ASSUME NEW s \in Steps
    PROVE  /\ s.name \in Names /\ s.id \in Nat
           /\ s.op \in {"up", "replace", "down", "restart", "reload", "delete", "close"}
           /\ s = [op |-> s.op, name |-> s.name, id |-> s.id]
BY DEF Steps

LEMMA CallSet ==
    ASSUME NEW r \in Call, NEW todo, NEW at
    PROVE  /\ [r EXCEPT !.todo = todo, !.at = at]
              = [kind |-> r.kind, todo |-> todo, at |-> at, names |-> r.names]
           /\ [r EXCEPT !.at = at, !.todo = todo]
              = [kind |-> r.kind, todo |-> todo, at |-> at, names |-> r.names]
<1>1. DOMAIN r = {"kind", "todo", "at", "names"}
  BY DEF Call
<1> PICK x : x = [r EXCEPT !.todo = todo, !.at = at]
  OBVIOUS
<1> PICK y : y = [r EXCEPT !.at = at, !.todo = todo]
  OBVIOUS
<1>2. x = [kind |-> r.kind, todo |-> todo, at |-> at, names |-> r.names]
  BY <1>1
<1>3. y = [kind |-> r.kind, todo |-> todo, at |-> at, names |-> r.names]
  BY <1>1
<1> QED
  BY <1>2, <1>3

LEMMA OneMoves ==
    ASSUME calls \in Seq(Call), NEW c \in DOMAIN calls, NEW q \in Call, Moves(c, q)
    PROVE  /\ calls' \in Seq(Call) /\ DOMAIN calls' = DOMAIN calls /\ calls'[c] = q
           /\ \A d \in DOMAIN calls : d # c => calls'[d] = calls[d]
BY DEF Moves

LEMMA NextStepMoves ==
    ASSUME calls \in Seq(Call), NEW c \in DOMAIN calls, NextStep(c)
    PROVE  Moves(c, Skipped(calls[c]))
<1>1. calls[c] \in Call
  OBVIOUS
<1>2. [calls[c] EXCEPT !.at = "go", !.todo = Tail(calls[c].todo)] = Skipped(calls[c])
  BY <1>1, CallSet DEF Skipped
<1> QED
  BY <1>2 DEF NextStep, Moves

LEMMA WaitMoves ==
    ASSUME calls \in Seq(Call), NEW c \in DOMAIN calls, NEW at, Wait(c, at)
    PROVE  Moves(c, Moved(calls[c], at))
<1>1. calls[c] \in Call
  OBVIOUS
<1>2. [calls[c] EXCEPT !.at = at] = Moved(calls[c], at)
  BY <1>1, CallFields DEF Moved
<1> QED
  BY <1>2 DEF Wait, Moves

LEMMA FailsMoves ==
    ASSUME calls \in Seq(Call), NEW c \in DOMAIN calls, Fails(c)
    PROVE  \/ calls[c].kind \in {"deploy", "reconcile", "up"} /\ Moves(c, Answered)
           \/ calls[c].kind \notin {"deploy", "reconcile", "up"} /\ Moves(c, Skipped(calls[c]))
BY NextStepMoves DEF Fails, Moves

\* The head of a request's list is its first step.
LEMMA HeadOfCall ==
    ASSUME calls \in Seq(Call), NEW c \in DOMAIN calls, calls[c].todo # <<>>
    PROVE  Head1(c) = calls[c].todo[1] /\ Head1(c) \in Steps /\ 1 \in DOMAIN calls[c].todo
BY FirstStep DEF Head1

LEMMA TurnMoves ==
    ASSUME calls \in Seq(Call), NEW c \in DOMAIN calls, calls[c].todo # <<>>, NEW i, NEW at,
           calls' = [calls EXCEPT ![c].todo[1].id = i, ![c].at = at]
    PROVE  Moves(c, Turned(calls[c], Step(Head1(c).op, Head1(c).name, i), at))
<1>1. calls[c] \in Call
  OBVIOUS
<1>2. Head1(c) = calls[c].todo[1] /\ Head1(c) \in Steps
  BY HeadOfCall
<1>3. [Head1(c) EXCEPT !.id = i] = Step(Head1(c).op, Head1(c).name, i)
  BY <1>2, StepFields DEF Step
<1>4. [calls[c] EXCEPT !.todo = [calls[c].todo EXCEPT ![1] = [Head1(c) EXCEPT !.id = i]], !.at = at]
      = Turned(calls[c], Step(Head1(c).op, Head1(c).name, i), at)
  <2> DEFINE new == [calls[c].todo EXCEPT ![1] = [Head1(c) EXCEPT !.id = i]]
  <2>1. new = [calls[c].todo EXCEPT ![1] = Step(Head1(c).op, Head1(c).name, i)]
    BY <1>3
  <2> HIDE DEF new
  <2>2. [calls[c] EXCEPT !.todo = new, !.at = at]
        = [kind |-> calls[c].kind, todo |-> new, at |-> at, names |-> calls[c].names]
    BY <1>1, CallSet, Zenon
  <2>3. [calls[c] EXCEPT !.todo = new, !.at = at] = Turned(calls[c], Step(Head1(c).op, Head1(c).name, i), at)
    BY <2>1, <2>2, Zenon DEF Turned
  <2> QED
    BY <2>3 DEF new
<1>5. calls' = [calls EXCEPT ![c] = [calls[c] EXCEPT
                  !.todo = [calls[c].todo EXCEPT ![1] = [Head1(c) EXCEPT !.id = i]], !.at = at]]
  BY <1>2
<1> QED
  BY <1>4, <1>5 DEF Moves

LEMMA ReplaceMoves ==
    ASSUME calls \in Seq(Call), NEW c \in DOMAIN calls, calls[c].todo # <<>>, NEW s,
           calls' = [calls EXCEPT ![c].at = "go", ![c].todo[1] = s]
    PROVE  Moves(c, Turned(calls[c], s, "go"))
<1>1. calls[c] \in Call
  OBVIOUS
<1>4. [calls[c] EXCEPT !.at = "go", !.todo = [calls[c].todo EXCEPT ![1] = s]]
      = Turned(calls[c], s, "go")
  BY <1>1, CallSet DEF Turned
<1>5. calls' = [calls EXCEPT ![c] = [calls[c] EXCEPT
                  !.at = "go", !.todo = [calls[c].todo EXCEPT ![1] = s]]]
  OBVIOUS
<1> QED
  BY <1>4, <1>5 DEF Moves
----------------------------------------------------------------------------
(* What a request that changes keeps. *)

NamedSame(cs, ds) == DOMAIN cs \subseteq DOMAIN ds /\ \A i \in DOMAIN cs : ds[i].name = cs[i].name

LEMMA CallKeeps ==
    ASSUME NEW r, NEW cs, NEW ds, CallInv(r, cs), NamedSame(cs, ds)
    PROVE  CallInv(r, ds)
BY DEF CallInv, NamedSame, StepInv

LEMMA AnsweredInv ==
    ASSUME NEW cs
    PROVE  CallInv(Answered, cs)
BY DEF CallInv, Answered, Call, PlaceInv, Stopping

LEMMA SkippedInv ==
    ASSUME NEW r, NEW cs, CallInv(r, cs), r.todo # <<>>
    PROVE  CallInv(Skipped(r), cs)
<1>1. r \in Call
  BY DEF CallInv
<1>2. Tail(r.todo) \in Seq(Steps)
  BY <1>1, FirstStep
<1>3. Skipped(r) \in Call
  BY <1>1, <1>2, CallFields DEF Skipped, Call, Steps
<1>4. PlaceInv(Skipped(r))
  BY DEF PlaceInv, Skipped, Stopping
<1>5. ASSUME NEW k \in DOMAIN Skipped(r).todo
      PROVE  StepInv(Skipped(r), Skipped(r).todo[k], cs)
  <2>1. k \in DOMAIN Tail(r.todo) /\ Skipped(r).todo[k] = Tail(r.todo)[k]
    BY <1>5 DEF Skipped
  <2>2. k + 1 \in DOMAIN r.todo /\ Tail(r.todo)[k] = r.todo[k + 1]
    BY <1>1, <2>1, FirstStep
  <2>3. StepInv(r, r.todo[k + 1], cs)
    BY <2>2 DEF CallInv
  <2>4. StepInv(Skipped(r), r.todo[k + 1], cs)
    BY <2>3 DEF StepInv, Skipped
  <2> QED
    BY <2>1, <2>2, <2>4
<1> QED
  BY <1>3, <1>4, <1>5 DEF CallInv

LEMMA MovedInv ==
    ASSUME NEW r, NEW cs, CallInv(r, cs), NEW at \in Waiting \cup {"go", "stopped", "done"},
           PlaceInv(Moved(r, at))
    PROVE  CallInv(Moved(r, at), cs)
<1>1. Moved(r, at) \in Call
  BY DEF CallInv, Moved, Call
<1>2. \A k \in DOMAIN r.todo : StepInv(Moved(r, at), r.todo[k], cs)
  BY DEF CallInv, StepInv, Moved
<1> QED
  BY <1>1, <1>2 DEF CallInv, Moved

LEMMA TurnedFields ==
    ASSUME NEW r \in Call, r.todo # <<>>, NEW s \in Steps, NEW at
    PROVE  /\ Turned(r, s, at).todo \in Seq(Steps) /\ Turned(r, s, at).todo # <<>>
           /\ Turned(r, s, at).todo[1] = s /\ DOMAIN Turned(r, s, at).todo = DOMAIN r.todo
           /\ \A k \in DOMAIN r.todo : k # 1 => Turned(r, s, at).todo[k] = r.todo[k]
           /\ Turned(r, s, at).at = at /\ Turned(r, s, at).kind = r.kind
           /\ Turned(r, s, at).names = r.names
<1>1. r.todo \in Seq(Steps) /\ 1 \in DOMAIN r.todo
  BY CallFields, FirstStep
<1> PICK todo \in Seq(Steps) : todo = r.todo
  BY <1>1
<1> PICK new : new = [todo EXCEPT ![1] = s]
  OBVIOUS
<1>2. /\ new \in Seq(Steps) /\ DOMAIN new = DOMAIN todo /\ new[1] = s
      /\ \A k \in DOMAIN todo : k # 1 => new[k] = todo[k]
  BY <1>1
<1>3. new # <<>>
  BY <1>1, <1>2
<1> QED
  BY <1>2, <1>3 DEF Turned

LEMMA TurnedInv ==
    ASSUME NEW r, NEW cs, CallInv(r, cs), r.todo # <<>>, NEW s \in Steps, StepInv(r, s, cs),
           NEW at \in Waiting \cup {"go", "stopped", "done"}, PlaceInv(Turned(r, s, at))
    PROVE  CallInv(Turned(r, s, at), cs)
<1> DEFINE q == Turned(r, s, at)
<1>1. r \in Call
  BY DEF CallInv
<1>2. /\ q.todo \in Seq(Steps) /\ q.todo[1] = s /\ DOMAIN q.todo = DOMAIN r.todo
      /\ \A k \in DOMAIN r.todo : k # 1 => q.todo[k] = r.todo[k]
      /\ q.at = at /\ q.kind = r.kind /\ q.names = r.names
  BY <1>1, TurnedFields
<1>3. q \in Call
  <2>1. q = [kind |-> r.kind, todo |-> q.todo, at |-> at, names |-> r.names]
    BY DEF Turned
  <2> HIDE DEF q
  <2> QED
    BY <1>1, <1>2, <2>1, CallFields DEF Call, Steps
<1>4. PlaceInv(q)
  OBVIOUS
<1> HIDE DEF q
<1>5. ASSUME NEW k \in DOMAIN q.todo
      PROVE  StepInv(q, q.todo[k], cs)
  <2>1. StepInv(r, q.todo[k], cs)
    BY <1>2 DEF CallInv
  <2> QED
    BY <1>2, <2>1 DEF StepInv
<1>6. CallInv(q, cs)
  BY <1>3, <1>4, <1>5 DEF CallInv
<1> QED
  BY <1>6 DEF q

LEMMA CallsMove ==
    ASSUME CallsInv, NEW c \in DOMAIN calls, NEW q, Moves(c, q),
           NamedSame(containers, containers'), CallInv(q, containers')
    PROVE  CallsInv'
<1>1. q \in Call
  BY DEF CallInv
<1>2. /\ calls' \in Seq(Call) /\ DOMAIN calls' = DOMAIN calls /\ calls'[c] = q
      /\ \A d \in DOMAIN calls : d # c => calls'[d] = calls[d]
  BY <1>1, OneMoves DEF CallsInv
<1>3. ASSUME NEW d \in DOMAIN calls
      PROVE  CallInv(calls'[d], containers')
  BY <1>2, CallKeeps DEF CallsInv
<1> QED
  BY <1>2, <1>3 DEF CallsInv

LEMMA CallsKept ==
    ASSUME CallsInv, calls' = calls, NamedSame(containers, containers')
    PROVE  CallsInv'
BY CallKeeps DEF CallsInv
----------------------------------------------------------------------------
(* What a step keeps of each part, when each request keeps something. *)

\* Requests may be new; then they have not begun.
CallsGrow ==
    /\ DOMAIN calls \subseteq DOMAIN calls'
    /\ \A d \in DOMAIN calls' \ DOMAIN calls : calls'[d].at = "go"

\* The processes stay; whichever runs did before.
Calm ==
    /\ DOMAIN containers' = Ids
    /\ \A i \in Ids :
          /\ containers'[i].name = containers[i].name
          /\ Runs(i, containers', children') /\ containers[i].name \notin torn' =>
                Runs(i, containers, children)

HistoryGrows == raced \subseteq raced' /\ slow \subseteq slow' /\ torn \subseteq torn' /\ stray \subseteq stray'

LaunchKept(r, q) == Launches(q) => Launches(r) /\ q.todo[1] = r.todo[1]
ReloadKept(r, q) ==
    /\ Reloads(q) => Reloads(r)
    /\ Reloads(r) => Reloads(q) /\ Reloaded(q) = Reloaded(r)
JobKept(r, q) ==
    /\ \A n : Deletes(r, n) => Deletes(q, n)
    /\ Registers(q) => Registers(r) /\ q.names = r.names /\ \A n : ToCome(r, n) => ToCome(q, n)
LeaveKept(r, q) == Leaves(q) => Leaves(r) /\ q.todo[1] = r.todo[1]
AwaitKept(r, q) == r.at # "stop" /\ q.at \notin Stopping
CloseKept(r, q, i) ==
    Closes(r) /\ AwaitedAt(r, i, {"go", "stop"}) => Closes(q) /\ AwaitedAt(q, i, {"go", "stop"})
PendingKept(r, q) ==
    /\ q.at # "done" => r.at # "done"
    /\ Closes(q) <=> Closes(r) /\ q.at # "done"

LEMMA RegistrySame ==
    ASSUME RegistryInv, Shape, NamedSame(containers, containers'), UNCHANGED registry, HistoryGrows, CallsGrow,
           \A d \in DOMAIN calls : calls'[d] = calls[d] \/ LaunchKept(calls[d], calls'[d])
    PROVE  RegistryInv'
<1>1. UNCHANGED <<processes, nameToId>>
  BY DEF registry
<1>2. \A i \in processes : containers'[i].name = containers[i].name
  BY DEF Shape, NamedSame, Ids
<1>3. NamesAgree'
  BY <1>1, <1>2 DEF NamesAgree, RegistryInv, HistoryGrows
<1>4. ASSUME NEW d \in DOMAIN calls', Launches(calls'[d])
      PROVE  d \in DOMAIN calls /\ Launches(calls[d]) /\ calls'[d].todo[1] = calls[d].todo[1]
  <2>1. d \in DOMAIN calls
    BY <1>4 DEF CallsGrow, Launches
  <2> QED
    BY <1>4, <2>1 DEF LaunchKept
<1>5. Unnamed'
  <2> SUFFICES ASSUME NEW d \in DOMAIN calls', Launches(calls'[d]), calls'[d].todo[1].name \notin raced'
               PROVE  nameToId'[calls'[d].todo[1].name] \in {0, calls'[d].todo[1].id}
    BY DEF Unnamed, Launches
  <2>1. d \in DOMAIN calls /\ Launches(calls[d]) /\ calls'[d].todo[1] = calls[d].todo[1]
    BY <1>4
  <2>2. calls[d].todo[1].name \notin raced
    BY <2>1 DEF HistoryGrows
  <2> QED
    BY <1>1, <2>1, <2>2 DEF Unnamed, RegistryInv
<1> QED
  BY <1>3, <1>5 DEF RegistryInv

LEMMA RegistryKept ==
    ASSUME RegistryInv, Shape, Calm, UNCHANGED registry, HistoryGrows, CallsGrow,
           \A d \in DOMAIN calls : calls'[d] = calls[d] \/ LaunchKept(calls[d], calls'[d])
    PROVE  RegistryInv'
<1>1. NamedSame(containers, containers')
  BY DEF Calm, NamedSame, Ids
<1> QED
  BY <1>1, RegistrySame

LEMMA ReloadKeeps ==
    ASSUME ReloadInv, phase' # "down" => phase # "down", UNCHANGED reloading, CallsGrow,
           \A d \in DOMAIN calls' \ DOMAIN calls : ~Reloads(calls'[d]),
           \A d \in DOMAIN calls : calls'[d] = calls[d] \/ ReloadKept(calls[d], calls'[d])
    PROVE  ReloadInv'
<1> SUFFICES ASSUME phase' # "down"
             PROVE  /\ \A c \in DOMAIN calls' : Reloads(calls'[c]) => Reloaded(calls'[c]) \in reloading
                    /\ \A c, d \in DOMAIN calls' :
                          Reloads(calls'[c]) /\ Reloads(calls'[d]) /\ Reloaded(calls'[c]) = Reloaded(calls'[d])
                          => c = d
                    /\ \A i \in reloading : \E c \in DOMAIN calls' :
                          Reloads(calls'[c]) /\ Reloaded(calls'[c]) = i
  BY DEF ReloadInv, Reloads, Reloaded
<1>1. \A d \in DOMAIN calls' : Reloads(calls'[d]) =>
          d \in DOMAIN calls /\ Reloads(calls[d]) /\ Reloaded(calls'[d]) = Reloaded(calls[d])
  BY DEF ReloadKept
<1>2. \A d \in DOMAIN calls : Reloads(calls[d]) =>
          d \in DOMAIN calls' /\ Reloads(calls'[d]) /\ Reloaded(calls'[d]) = Reloaded(calls[d])
  BY DEF ReloadKept, CallsGrow
<1>3. /\ \A c \in DOMAIN calls : Reloads(calls[c]) => Reloaded(calls[c]) \in reloading
      /\ \A c, d \in DOMAIN calls :
             Reloads(calls[c]) /\ Reloads(calls[d]) /\ Reloaded(calls[c]) = Reloaded(calls[d]) => c = d
      /\ \A i \in reloading : \E c \in DOMAIN calls : Reloads(calls[c]) /\ Reloaded(calls[c]) = i
  BY DEF ReloadInv
<1> QED
  BY <1>1, <1>2, <1>3

LEMMA JobKeeps ==
    ASSUME JobInv, phase' # "down" => phase # "down", HistoryGrows, CallsGrow,
           jobs' \subseteq jobs, UNCHANGED nameToId,
           \A d \in DOMAIN calls' \ DOMAIN calls : Registers(calls'[d]) =>
               \A n \in calls'[d].names \ Strange : nameToId[n] # 0 \/ ToCome(calls'[d], n),
           \A d \in DOMAIN calls : calls'[d] = calls[d] \/ JobKept(calls[d], calls'[d])
    PROVE  JobInv'
<1>1. Strange \subseteq Strange'
  BY DEF Strange, HistoryGrows
<1> SUFFICES ASSUME phase' # "down"
             PROVE  /\ \A n \in jobs' \ Strange' :
                          nameToId[n] # 0 \/ \E d \in DOMAIN calls' : Deletes(calls'[d], n)
                    /\ \A c \in DOMAIN calls' : Registers(calls'[c]) =>
                          \A n \in calls'[c].names \ Strange' : nameToId[n] # 0 \/ ToCome(calls'[c], n)
  BY DEF JobInv, Deletes, Registers, ToCome
<1>2. \A n \in jobs \ Strange : nameToId[n] # 0 \/ \E d \in DOMAIN calls : Deletes(calls[d], n)
  BY DEF JobInv
<1>3. \A c \in DOMAIN calls : Registers(calls[c]) =>
          \A n \in calls[c].names \ Strange : nameToId[n] # 0 \/ ToCome(calls[c], n)
  BY DEF JobInv
<1>4. ASSUME NEW n \in jobs' \ Strange'
      PROVE  nameToId[n] # 0 \/ \E d \in DOMAIN calls' : Deletes(calls'[d], n)
  <2>1. CASE nameToId[n] # 0
    BY <2>1
  <2>2. CASE \E d \in DOMAIN calls : Deletes(calls[d], n)
    <3>1. PICK d \in DOMAIN calls : Deletes(calls[d], n)
      BY <2>2
    <3>2. Deletes(calls'[d], n)
      BY <3>1 DEF JobKept
    <3> QED
      BY <3>2 DEF CallsGrow
  <2> QED
    BY <1>1, <1>2, <1>4, <2>1, <2>2
<1>5. ASSUME NEW c \in DOMAIN calls', Registers(calls'[c]), NEW n \in calls'[c].names \ Strange'
      PROVE  nameToId[n] # 0 \/ ToCome(calls'[c], n)
  <2>1. CASE c \notin DOMAIN calls
    BY <1>1, <1>5, <2>1
  <2>2. CASE c \in DOMAIN calls /\ calls'[c] = calls[c]
    BY <1>1, <1>3, <1>5, <2>2
  <2>3. CASE c \in DOMAIN calls /\ JobKept(calls[c], calls'[c])
    BY <1>1, <1>3, <1>5, <2>3 DEF JobKept
  <2> QED
    BY <2>1, <2>2, <2>3
<1> QED
  BY <1>4, <1>5

LEMMA ListedKept ==
    ASSUME Listed, Calm, HistoryGrows, late => late', UNCHANGED processes
    PROVE  Listed'
<1> SUFFICES ASSUME NEW i \in Ids', Runs(i, containers', children'), 
                    containers'[i].name \notin raced' \cup slow' \cup torn', ~late'
             PROVE  i \in processes'
  BY DEF Listed
<1>1. i \in Ids /\ Runs(i, containers, children) /\ containers[i].name \notin raced \cup slow \cup torn /\ ~late
  BY DEF Calm, HistoryGrows, Ids
<1> QED
  BY <1>1 DEF Listed

LEMMA FamilyKept ==
    ASSUME Family, UNCHANGED <<containers, children>>, DOMAIN calls \subseteq DOMAIN calls'
    PROVE  Family'
<1>1. /\ Ids' = Ids /\ Kids' = Kids /\ \A i \in Ids : ChildOf(i)' = ChildOf(i)
      /\ Child \subseteq Child'
  BY DEF Ids, Kids, ChildOf, Child
<1>2. children' \in [Kids -> Child']
  BY <1>1 DEF Family
<1> QED
  BY <1>1, <1>2 DEF Family

\* What is known of a container stays, when it and its children do and the requests that turn
\* to it do not stop it.
KidSame(k) ==
    /\ k \in Kids /\ children'[k].of = children[k].of /\ children'[k].waiters = children[k].waiters
    /\ children'[k].state = "killed" <=> children[k].state = "killed"
Aside(d, i) ==
    \/ d \in DOMAIN calls /\ calls'[d] = calls[d]
    \/ ~AwaitedAt(calls'[d], i, {"stop"}) /\ ~Restarts(calls'[d], i)

LEMMA TendedAt ==
    ASSUME NEW i \in Ids, Sole(i), Attended(i),
           containers'[i].stopping = containers[i].stopping, containers'[i].child = containers[i].child,
           containers'[i].backoffs = containers[i].backoffs,
           \A k \in DOMAIN children' : children'[k].of = i => KidSame(k),
           \A d \in DOMAIN calls' : Aside(d, i)
    PROVE  Sole(i)' /\ Attended(i)'
<1>1. Sole(i)'
  BY DEF Sole, KidSame, Kids, ChildOf, Asked
<1>2. ASSUME NEW c \in DOMAIN calls', AwaitedAt(calls'[c], i, {"stop"})
      PROVE  /\ containers'[i].stopping /\ Held(i)'
             /\ \A k \in Kids' : children'[k].of = i => c \in children'[k].waiters
  BY <1>2 DEF Attended, Aside, KidSame, Kids, ChildOf, Held
<1>3. ASSUME NEW c \in DOMAIN calls', calls'[c].at = "stopped", Restarts(calls'[c], i)
      PROVE  ~Held(i)'
  BY <1>3 DEF Attended, Aside, ChildOf, Held
<1>4. ASSUME NEW c \in DOMAIN calls', NEW d \in DOMAIN calls', Restarts(calls'[c], i), Restarts(calls'[d], i)
      PROVE  c = d
  BY <1>4 DEF Attended, Aside
<1>5. Attended(i)'
  BY <1>2, <1>3, <1>4 DEF Attended
<1> QED
  BY <1>1, <1>5

LEMMA TendedKept ==
    ASSUME Tended, UNCHANGED <<containers, children>>, torn \subseteq torn', CallsGrow,
           \A d \in DOMAIN calls : calls'[d] = calls[d] \/ AwaitKept(calls[d], calls'[d])
    PROVE  Tended'
<1> SUFFICES ASSUME NEW i \in Ids, containers[i].name \notin torn'
             PROVE  Sole(i)' /\ Attended(i)'
  BY DEF Tended, Ids
<1>1. Sole(i) /\ Attended(i)
  BY DEF Tended
<1>2. \A d \in DOMAIN calls' : Aside(d, i)
  BY DEF CallsGrow, AwaitKept, Aside, AwaitedAt, Restarts, Stopping
<1>3. \A k \in DOMAIN children' : KidSame(k)
  BY DEF KidSame, Kids
<1> QED
  BY <1>1, <1>2, <1>3, TendedAt

LEMMA WaitsKept ==
    ASSUME Waits, Family, phase' # "down" => phase # "down", UNCHANGED children, CallsGrow,
           \A d \in DOMAIN calls : calls'[d] = calls[d] \/ AwaitKept(calls[d], calls'[d])
    PROVE  Waits'
<1> SUFFICES ASSUME phase' # "down", NEW k \in Kids, NEW c \in children[k].waiters
             PROVE  /\ AwaitedAt(calls'[c], children[k].of, {"stop"})
                    /\ \A l \in Kids : c \in children[l].waiters => k = l
  BY DEF Waits, Kids
<1>1. /\ AwaitedAt(calls[c], children[k].of, {"stop"})
      /\ \A l \in Kids : c \in children[l].waiters => k = l
  BY DEF Waits
<1>2. c \in DOMAIN calls
  BY DEF Family, Child
<1>3. calls'[c] = calls[c]
  BY <1>1, <1>2 DEF AwaitKept, AwaitedAt
<1> QED
  BY <1>1, <1>3

\* The three of them, when a step leaves the containers and the children as they are.
LEMMA ChildrenKept ==
    ASSUME OrchestratorInv, UNCHANGED <<containers, children>>, torn \subseteq torn', CallsGrow,
           phase' # "down" => phase # "down",
           \A d \in DOMAIN calls : calls'[d] = calls[d] \/ AwaitKept(calls[d], calls'[d])
    PROVE  Family' /\ Tended' /\ Waits'
<1>1. Family /\ Tended /\ Waits
  BY DEF OrchestratorInv, ChildInv
<1>2. DOMAIN calls \subseteq DOMAIN calls'
  BY DEF CallsGrow
<1> QED
  BY <1>1, <1>2, FamilyKept, TendedKept, WaitsKept

\* The process that a request is about to take off the maps.
LEMMA LeavesId ==
    ASSUME NEW r, NEW cs, CallInv(r, cs), Leaves(r)
    PROVE  r.todo[1].id \in DOMAIN cs /\ cs[r.todo[1].id].name = r.todo[1].name
<1>1. r \in Call /\ r.todo # <<>> /\ r.todo[1].id # 0
  BY DEF CallInv, PlaceInv, Leaves
<1>2. StepInv(r, r.todo[1], cs)
  BY <1>1, FirstStep DEF CallInv
<1> QED
  BY <1>1, <1>2 DEF StepInv

LEMMA GoneKept ==
    ASSUME Gone, CallsInv, CallsGrow, raced \subseteq raced', torn \subseteq torn',
           \A i \in Ids : Runs(i, containers', children') =>
               Runs(i, containers, children) \/ containers[i].name \in raced' \cup torn',
           \A d \in DOMAIN calls : calls'[d] = calls[d] \/ LeaveKept(calls[d], calls'[d])
    PROVE  Gone'
<1> SUFFICES ASSUME NEW d \in DOMAIN calls', Leaves(calls'[d]), calls'[d].todo[1].name \notin raced' \cup torn'
             PROVE  ~Runs(calls'[d].todo[1].id, containers', children')
  BY DEF Gone, Leaves, Runs
<1>1. d \in DOMAIN calls
  BY DEF CallsGrow, Leaves
<1>2. Leaves(calls[d]) /\ calls'[d].todo[1] = calls[d].todo[1]
  BY <1>1 DEF LeaveKept
<1>3. CallInv(calls[d], containers)
  BY <1>1 DEF CallsInv
<1>4. calls[d].todo[1].id \in Ids /\ containers[calls[d].todo[1].id].name = calls[d].todo[1].name
  <2> PICK r : r = calls[d]
    OBVIOUS
  <2>1. r.todo[1].id \in DOMAIN containers /\ containers[r.todo[1].id].name = r.todo[1].name
    BY <1>2, <1>3, LeavesId, Zenon
  <2> QED
    BY <2>1 DEF Ids
<1>5. ~Runs(calls[d].todo[1].id, containers, children)
  BY <1>1, <1>2 DEF Gone
<1> QED
  BY <1>2, <1>4, <1>5

LEMMA ClosingsKept ==
    ASSUME Closings, Shape, UNCHANGED <<phase, late>>, Calm, CallsGrow, torn \subseteq torn', DOMAIN calls' = DOMAIN calls,
           ~late /\ phase = "stopping" => processes' \subseteq processes,
           \A d \in DOMAIN calls : calls'[d] = calls[d] \/
               /\ PendingKept(calls[d], calls'[d])
               /\ \A i \in Ids : Runs(i, containers', children') /\ containers[i].name \notin torn' => CloseKept(calls[d], calls'[d], i)
    PROVE  Closings'
<1>1. \A d \in DOMAIN calls : Closes(calls'[d]) => Closes(calls[d])
  BY DEF PendingKept
<1>2. \A d \in DOMAIN calls : calls'[d].at # "done" => calls[d].at # "done"
  BY DEF PendingKept
<1>3. \A d \in DOMAIN calls : Closes(calls[d]) /\ calls'[d].at # "done" => Closes(calls'[d])
  BY DEF PendingKept, Closes
<1>4. \A c \in DOMAIN calls' : Closes(calls'[c]) => phase' = "stopping"
  BY <1>1 DEF Closings
<1>5. phase' \in {"up", "closing"} => ~late'
  BY DEF Closings
<1>6. phase' = "down" => \A c \in DOMAIN calls' : calls'[c].at = "done"
  BY <1>2 DEF Closings, Pending
<1>7. ASSUME phase' = "stopping", ~late'
      PROVE  /\ \A c \in DOMAIN calls' : calls'[c].at # "done" => Closes(calls'[c])
             /\ \A i \in processes' : Runs(i, containers', children') /\ containers'[i].name \notin torn' =>
                   \E c \in DOMAIN calls' : Closes(calls'[c]) /\ AwaitedAt(calls'[c], i, {"go", "stop"})
  <2>1. \A c \in DOMAIN calls' : calls'[c].at # "done" => Closes(calls'[c])
    BY <1>2, <1>3, <1>7 DEF Closings, Pending
  <2>2. ASSUME NEW i \in processes', Runs(i, containers', children'), containers'[i].name \notin torn'
        PROVE  \E c \in DOMAIN calls' : Closes(calls'[c]) /\ AwaitedAt(calls'[c], i, {"go", "stop"})
    <3>1. i \in processes /\ i \in Ids
      BY <1>7, <2>2 DEF Shape
    <3>2. Runs(i, containers, children) /\ containers[i].name \notin torn'
      BY <2>2, <3>1 DEF Calm
    <3>3. PICK c \in DOMAIN calls : Closes(calls[c]) /\ AwaitedAt(calls[c], i, {"go", "stop"})
      BY <1>7, <3>1, <3>2 DEF Closings
    <3>4. Closes(calls'[c]) /\ AwaitedAt(calls'[c], i, {"go", "stop"})
      BY <2>2, <3>1, <3>2, <3>3 DEF CloseKept
    <3> QED
      BY <3>4
  <2> QED
    BY <2>1, <2>2
<1> QED
  BY <1>4, <1>5, <1>6, <1>7 DEF Closings, Pending, Closes, AwaitedAt, Runs
\* A request that is no stop of the shutdown moves: it overlaps the shutdown, if there is one.
LEMMA OtherCloses ==
    ASSUME Closings, NEW c \in DOMAIN calls, Pending(c), ~Closes(calls[c]), UNCHANGED <<phase, late>>,
           DOMAIN calls' = DOMAIN calls,
           \A d \in DOMAIN calls : calls'[d] = calls[d] \/ PendingKept(calls[d], calls'[d])
    PROVE  Closings'
<1>1. phase = "stopping" => late
  BY DEF Closings
<1>2. \A d \in DOMAIN calls' : Closes(calls'[d]) => phase' = "stopping"
  BY DEF Closings, PendingKept
<1>3. phase' # "down"
  BY DEF Closings
<1> QED
  BY <1>1, <1>2, <1>3 DEF Closings
----------------------------------------------------------------------------
(* A request that goes on to its next step, or is answered, keeps most. *)

LEMMA SkippedKeeps ==
    ASSUME NEW r \in Call, r.todo # <<>>, r.at # "done"
    PROVE  /\ LaunchKept(r, Skipped(r)) /\ LeaveKept(r, Skipped(r)) /\ PendingKept(r, Skipped(r))
           /\ ~Reloads(r) => ReloadKept(r, Skipped(r))
           /\ r.at # "go" \/ r.todo[1].op # "up" => JobKept(r, Skipped(r))
           /\ r.at # "stop" => AwaitKept(r, Skipped(r))
           /\ ~Closes(r) \/ r.at \notin {"go", "stop"} => \A i : CloseKept(r, Skipped(r), i)
<1> DEFINE q == Skipped(r)
<1>1. q.at = "go" /\ q.kind = r.kind /\ q.names = r.names /\ q.todo = Tail(r.todo)
  BY DEF Skipped
<1> HIDE DEF q
<1>2. LaunchKept(r, q) /\ LeaveKept(r, q) /\ PendingKept(r, q)
  BY <1>1 DEF LaunchKept, LeaveKept, PendingKept, Launches, Leaves, Closes
<1>3. ~Reloads(r) => ReloadKept(r, q)
  BY <1>1 DEF ReloadKept, Reloads, Waiting
<1>4. ASSUME r.at # "go" \/ r.todo[1].op # "up"
      PROVE  JobKept(r, q)
  <2>1. \A n : Deletes(r, n) => Deletes(q, n)
    BY <1>1 DEF Deletes
  <2>2. Registers(q) => Registers(r) /\ q.names = r.names
    BY <1>1 DEF Registers
  <2>3. ASSUME NEW n, ToCome(r, n)
        PROVE  ToCome(q, n)
    <3>1. PICK k \in DOMAIN r.todo :
              r.todo[k].op = "up" /\ r.todo[k].name = n /\ (k = 1 => r.at = "go")
      BY <2>3 DEF ToCome
    <3>2. k # 1
      BY <1>4, <3>1
    <3>3. k - 1 \in DOMAIN q.todo /\ q.todo[k - 1] = r.todo[k]
      BY <1>1, <3>2, FirstStep
    <3> QED
      BY <1>1, <3>1, <3>3 DEF ToCome
  <2> QED
    BY <2>1, <2>2, <2>3 DEF JobKept
<1>5. r.at # "stop" => AwaitKept(r, q)
  BY <1>1 DEF AwaitKept, Stopping
<1>6. ~Closes(r) \/ r.at \notin {"go", "stop"} => \A i : CloseKept(r, q, i)
  BY DEF CloseKept, AwaitedAt
<1> QED
  BY <1>2, <1>3, <1>4, <1>5, <1>6 DEF q

LEMMA AnsweredKeeps ==
    ASSUME NEW r \in Call, r.at # "done"
    PROVE  /\ LaunchKept(r, Answered) /\ LeaveKept(r, Answered) /\ PendingKept(r, Answered)
           /\ ~Reloads(r) => ReloadKept(r, Answered)
           /\ r.kind # "delete" => JobKept(r, Answered)
           /\ r.at # "stop" => AwaitKept(r, Answered)
           /\ ~Closes(r) \/ r.at \notin {"go", "stop"} \/ r.todo = <<>> => \A i : CloseKept(r, Answered, i)
<1>1. Answered.at = "done" /\ Answered.kind = "none" /\ Answered.todo = <<>>
  BY DEF Answered
<1>2. LaunchKept(r, Answered) /\ LeaveKept(r, Answered) /\ PendingKept(r, Answered)
  BY <1>1 DEF LaunchKept, LeaveKept, PendingKept, Launches, Leaves, Closes
<1>3. ~Reloads(r) => ReloadKept(r, Answered)
  BY <1>1 DEF ReloadKept, Reloads, Waiting
<1>4. r.kind # "delete" => JobKept(r, Answered)
  BY <1>1 DEF JobKept, Deletes, Registers
<1>5. r.at # "stop" => AwaitKept(r, Answered)
  BY <1>1 DEF AwaitKept, Stopping
<1>6. ~Closes(r) \/ r.at \notin {"go", "stop"} \/ r.todo = <<>> => \A i : CloseKept(r, Answered, i)
  BY DEF CloseKept, AwaitedAt
<1> QED
  BY <1>2, <1>3, <1>4, <1>5, <1>6

\* A step that is turned, as long as it gives no process.
LEMMA TurnedKeeps ==
    ASSUME NEW r \in Call, r.todo # <<>>, r.at # "done", NEW s \in Steps, NEW at, at # "done",
           r.at # "go" \/ r.todo[1].op # "up" \/ (s = r.todo[1] /\ at = "go")
    PROVE  PendingKept(r, Turned(r, s, at)) /\ JobKept(r, Turned(r, s, at))
<1> DEFINE q == Turned(r, s, at)
<1>1. /\ q.at = at /\ q.kind = r.kind /\ q.names = r.names /\ q.todo[1] = s
      /\ DOMAIN q.todo = DOMAIN r.todo /\ \A k \in DOMAIN r.todo : k # 1 => q.todo[k] = r.todo[k]
  BY TurnedFields
<1> HIDE DEF q
<1>2. PendingKept(r, q)
  BY <1>1 DEF PendingKept, Closes
<1>3. \A n : ToCome(r, n) => ToCome(q, n)
  BY <1>1 DEF ToCome
<1>4. JobKept(r, q)
  BY <1>1, <1>3 DEF JobKept, Deletes, Registers
<1> QED
  BY <1>2, <1>4 DEF q

LEMMA MoveGrows ==
    ASSUME CallsInv, NEW c \in DOMAIN calls, NEW q \in Call, Moves(c, q)
    PROVE  /\ CallsGrow /\ DOMAIN calls' = DOMAIN calls /\ calls'[c] = q
           /\ \A d \in DOMAIN calls : calls'[d] = calls[d] \/ d = c
BY OneMoves DEF CallsInv, CallsGrow

\* A request moves and nothing else changes that matters, but for the jobs and the
\* reloads.
LEMMA MoveKeepsOthers ==
    ASSUME OrchestratorInv, NEW c \in DOMAIN calls, NEW q, Moves(c, q), CallInv(q, containers'),
           UNCHANGED <<containers, children, registry, phase, setbacks, history>>,
           LaunchKept(calls[c], q), LeaveKept(calls[c], q),
           PendingKept(calls[c], q), AwaitKept(calls[c], q) /\ \A i : CloseKept(calls[c], q, i)
    PROVE  CallsInv' /\ RegistryInv' /\ ChildInv'
<1>0. Shape /\ CallsInv /\ RegistryInv /\ Listed /\ Gone /\ Closings
  BY DEF OrchestratorInv, ChildInv
<1>1. q \in Call
  BY DEF CallInv
<1>2. /\ CallsGrow /\ DOMAIN calls' = DOMAIN calls /\ calls'[c] = q
      /\ \A d \in DOMAIN calls : calls'[d] = calls[d] \/ d = c
  BY <1>0, <1>1, MoveGrows
<1>3. Calm /\ NamedSame(containers, containers') /\ HistoryGrows
  BY DEF Calm, NamedSame, HistoryGrows, history, Ids, Runs
<1>4. UNCHANGED <<processes, nameToId, raced, slow, torn, stray, late>>
  BY DEF registry, history
<1>6. CallsInv'
  BY <1>0, <1>3, CallsMove
<1>7. RegistryInv'
  BY <1>0, <1>2, <1>3, RegistryKept
<1>10. Listed'
  BY <1>0, <1>3, <1>4, ListedKept
<1>11. Family' /\ Tended' /\ Waits'
  BY <1>2, <1>4, ChildrenKept
<1>12. Gone'
  BY <1>0, <1>2, <1>3, <1>4, GoneKept DEF Calm
<1>13. Closings'
  <2>1. \A d \in DOMAIN calls : calls'[d] = calls[d] \/
               /\ PendingKept(calls[d], calls'[d])
               /\ \A i \in Ids : Runs(i, containers', children') /\ containers[i].name \notin torn' => CloseKept(calls[d], calls'[d], i)
    BY <1>2
  <2> QED
    BY <1>0, <1>2, <1>3, <1>4, <2>1, ClosingsKept
<1> QED
  BY <1>6, <1>7, <1>10, <1>11, <1>12, <1>13 DEF ChildInv

LEMMA MoveKeeps ==
    ASSUME OrchestratorInv, NEW c \in DOMAIN calls, NEW q, Moves(c, q), CallInv(q, containers'),
           UNCHANGED <<containers, children, registry, reloading, phase, setbacks, history>>, jobs' \subseteq jobs,
           LaunchKept(calls[c], q), ReloadKept(calls[c], q), JobKept(calls[c], q), LeaveKept(calls[c], q),
           PendingKept(calls[c], q), AwaitKept(calls[c], q) /\ \A i : CloseKept(calls[c], q, i)
    PROVE  OrchestratorInv'
<1>0. Shape /\ CallsInv /\ JobInv /\ ReloadInv
  BY DEF OrchestratorInv
<1>1. q \in Call
  BY DEF CallInv
<1>2. /\ CallsGrow /\ DOMAIN calls' = DOMAIN calls /\ calls'[c] = q
      /\ \A d \in DOMAIN calls : calls'[d] = calls[d] \/ d = c
  BY <1>0, <1>1, MoveGrows
<1>3. HistoryGrows
  BY DEF HistoryGrows, history
<1>4. UNCHANGED <<processes, nameToId, raced, slow, torn, stray, late>>
  BY DEF registry, history
<1>5. Shape'
  BY <1>0, <1>4 DEF Shape, Ids
<1>6. JobInv'
  BY <1>0, <1>2, <1>3, <1>4, JobKeeps
<1>7. CallsInv' /\ RegistryInv' /\ ChildInv'
  BY MoveKeepsOthers
<1>8. ReloadInv'
  BY <1>0, <1>2, ReloadKeeps
<1> QED
  BY <1>5, <1>6, <1>7, <1>8 DEF OrchestratorInv
----------------------------------------------------------------------------
(* The steps that change no process and no map. *)

LEMMA Going ==
    ASSUME CallsInv, NEW c \in DOMAIN calls, calls[c].todo # <<>>
    PROVE  /\ calls[c] \in Call /\ CallInv(calls[c], containers) /\ PlaceInv(calls[c])
           /\ Head1(c) = calls[c].todo[1] /\ Head1(c) \in Steps /\ 1 \in DOMAIN calls[c].todo
           /\ StepInv(calls[c], Head1(c), containers)
<1>1. calls[c] \in Call /\ CallInv(calls[c], containers) /\ PlaceInv(calls[c])
  BY DEF CallsInv, CallInv
<1>2. Head1(c) = calls[c].todo[1] /\ Head1(c) \in Steps /\ 1 \in DOMAIN calls[c].todo
  BY HeadOfCall DEF CallsInv
<1> QED
  BY <1>1, <1>2 DEF CallInv

LEMMA DownedKeeps ==
    ASSUME OrchestratorInv, NEW c \in DOMAIN calls, Downed(c) \/ Closed(c)
    PROVE  OrchestratorInv'
<1> PICK r : r = calls[c]
  OBVIOUS
<1>0. r.at = "stopped" /\ r.todo # <<>> /\ Head1(c).op \in {"down", "close"} /\ NextStep(c)
  BY DEF Downed, Closed, Goes
<1>1. CallsInv
  BY DEF OrchestratorInv
<1>2. r \in Call /\ CallInv(r, containers) /\ Head1(c) = r.todo[1]
  BY <1>0, <1>1, Going
<1>3. Moves(c, Skipped(r))
  BY <1>0, <1>1, NextStepMoves DEF CallsInv
<1>4. UNCHANGED <<containers, children, registry, reloading, phase, setbacks, history>> /\ jobs' \subseteq jobs
  BY DEF Downed, Closed
<1>5. CallInv(Skipped(r), containers')
  BY <1>0, <1>2, <1>4, SkippedInv
<1>6. ~Reloads(r)
  BY <1>0, <1>2 DEF Reloads
<1>7. /\ LaunchKept(r, Skipped(r)) /\ LeaveKept(r, Skipped(r)) /\ PendingKept(r, Skipped(r))
      /\ ReloadKept(r, Skipped(r)) /\ JobKept(r, Skipped(r))
      /\ AwaitKept(r, Skipped(r)) /\ \A i : CloseKept(r, Skipped(r), i)
  BY <1>0, <1>2, <1>6, SkippedKeeps
<1> QED
  BY <1>3, <1>4, <1>5, <1>7, MoveKeeps

LEMMA AnswersKeep ==
    ASSUME OrchestratorInv, NEW c \in DOMAIN calls, Answers(c)
    PROVE  OrchestratorInv'
<1> PICK r : r = calls[c]
  OBVIOUS
<1>0. r.at = "go" /\ r.todo = <<>> /\ Moves(c, Answered) /\ jobs' = JobsAfter(r)
  BY DEF Answers, Moves
<1>1. Shape /\ CallsInv /\ JobInv /\ ReloadInv
  BY DEF OrchestratorInv
<1>2. r \in Call /\ CallInv(r, containers)
  BY <1>1 DEF CallsInv, CallInv
<1>4. UNCHANGED <<containers, children, registry, reloading, phase, setbacks, history>>
  BY DEF Answers
<1>5. UNCHANGED <<processes, nameToId, raced, slow, torn, stray, late, Strange>>
  BY <1>4 DEF registry, history, Strange
<1>6. CallInv(Answered, containers') /\ Answered \in Call
  BY AnsweredInv DEF CallInv
<1>7. CallsInv' /\ RegistryInv' /\ ReloadInv' /\ ChildInv'
  <2>1. ~Reloads(r)
    BY <1>0 DEF Reloads, Waiting
  <2>2. /\ LaunchKept(r, Answered) /\ LeaveKept(r, Answered) /\ PendingKept(r, Answered)
        /\ ReloadKept(r, Answered) /\ AwaitKept(r, Answered) /\ \A i : CloseKept(r, Answered, i)
    BY <1>0, <1>2, <2>1, AnsweredKeeps
  <2>3. ReloadInv'
    <3>1. /\ CallsGrow /\ DOMAIN calls' = DOMAIN calls /\ calls'[c] = Answered
          /\ \A d \in DOMAIN calls : calls'[d] = calls[d] \/ d = c
      BY <1>0, <1>1, <1>6, MoveGrows
    <3> QED
      BY <1>1, <1>4, <2>2, <3>1, ReloadKeeps
  <2> QED
    BY <1>0, <1>4, <1>6, <2>2, <2>3, MoveKeepsOthers
<1>8. r.names \subseteq Names /\ jobs' \subseteq jobs \cup r.names
  BY <1>0, <1>2, CallFields DEF JobsAfter
<1>9. Shape'
  BY <1>1, <1>4, <1>5, <1>8 DEF Shape, Ids
<1>10. JobInv'
  <2>0. /\ DOMAIN calls' = DOMAIN calls /\ calls'[c] = Answered
        /\ \A d \in DOMAIN calls : calls'[d] = calls[d] \/ d = c
    BY <1>0, <1>1, <1>6, MoveGrows
  <2> SUFFICES ASSUME phase # "down"
               PROVE  /\ \A n \in jobs' \ Strange :
                            nameToId[n] # 0 \/ \E d \in DOMAIN calls' : Deletes(calls'[d], n)
                      /\ \A d \in DOMAIN calls' : Registers(calls'[d]) =>
                            \A n \in calls'[d].names \ Strange : nameToId[n] # 0 \/ ToCome(calls'[d], n)
    BY <1>4, <1>5 DEF JobInv
  <2>1. \A n \in jobs \ Strange : nameToId[n] # 0 \/ \E d \in DOMAIN calls : Deletes(calls[d], n)
    BY <1>1 DEF JobInv
  <2>2. \A d \in DOMAIN calls : Registers(calls[d]) =>
            \A n \in calls[d].names \ Strange : nameToId[n] # 0 \/ ToCome(calls[d], n)
    BY <1>1 DEF JobInv
  <2>3. ~Registers(Answered)
    BY DEF Registers, Answered
  <2>4. \A n : ~ToCome(r, n)
    BY <1>0 DEF ToCome
  <2>5. ASSUME NEW n \in jobs' \ Strange
        PROVE  nameToId[n] # 0 \/ \E d \in DOMAIN calls' : Deletes(calls'[d], n)
    <3>1. CASE n \notin jobs
      <4>1. r.kind \in Registering /\ n \in r.names
        BY <1>0, <2>5, <3>1 DEF JobsAfter, Registering
      <4> QED
        BY <1>0, <2>2, <2>4, <2>5, <4>1 DEF Registers
    <3>2. CASE n \in jobs /\ \E d \in DOMAIN calls : Deletes(calls[d], n)
      <4>1. PICK d \in DOMAIN calls : Deletes(calls[d], n)
        BY <3>2
      <4>2. d # c
        BY <1>0, <2>5, <4>1 DEF Deletes, JobsAfter
      <4> QED
        BY <2>0, <4>1, <4>2
    <3> QED
      BY <2>1, <2>5, <3>1, <3>2
  <2>6. ASSUME NEW d \in DOMAIN calls', Registers(calls'[d]), NEW n \in calls'[d].names \ Strange
        PROVE  nameToId[n] # 0 \/ ToCome(calls'[d], n)
    BY <2>0, <2>2, <2>3, <2>6
  <2> QED
    BY <2>5, <2>6
<1> QED
  BY <1>7, <1>9, <1>10 DEF OrchestratorInv

\* A step that finds nothing to stop or to reload.
LEMMA PassKeeps ==
    ASSUME OrchestratorInv, NEW c \in DOMAIN calls, calls[c].at = "go", calls[c].todo # <<>>,
           Head1(c).op \notin {"up", "close"}, Fails(c) \/ NextStep(c),
           UNCHANGED <<containers, children, registry, reloading, jobs, phase, setbacks, history>>
    PROVE  OrchestratorInv'
<1> PICK r : r = calls[c]
  OBVIOUS
<1>1. CallsInv
  BY DEF OrchestratorInv
<1>2. r \in Call /\ CallInv(r, containers) /\ Head1(c) = r.todo[1] /\ StepInv(r, Head1(c), containers)
  BY <1>1, Going
<1>3. ~Closes(r) /\ ~Reloads(r) /\ r.at = "go" /\ r.todo[1].op # "up"
  BY <1>2 DEF Closes, Reloads, StepInv, Waiting
<1>4. \/ r.kind # "delete" /\ Moves(c, Answered)
      \/ Moves(c, Skipped(r))
  BY <1>1, FailsMoves, NextStepMoves DEF CallsInv
<1>5. CASE r.kind # "delete" /\ Moves(c, Answered)
  <2>1. /\ LaunchKept(r, Answered) /\ LeaveKept(r, Answered) /\ PendingKept(r, Answered)
        /\ ReloadKept(r, Answered) /\ JobKept(r, Answered)
        /\ AwaitKept(r, Answered) /\ \A i : CloseKept(r, Answered, i)
    BY <1>2, <1>3, <1>5, AnsweredKeeps
  <2>2. CallInv(Answered, containers')
    BY AnsweredInv
  <2> QED
    BY <1>5, <2>1, <2>2, MoveKeeps
<1>6. CASE Moves(c, Skipped(r))
  <2>1. /\ LaunchKept(r, Skipped(r)) /\ LeaveKept(r, Skipped(r)) /\ PendingKept(r, Skipped(r))
        /\ ReloadKept(r, Skipped(r)) /\ JobKept(r, Skipped(r))
        /\ AwaitKept(r, Skipped(r)) /\ \A i : CloseKept(r, Skipped(r), i)
    BY <1>2, <1>3, SkippedKeeps
  <2>2. CallInv(Skipped(r), containers')
    BY <1>2, SkippedInv
  <2> QED
    BY <1>6, <2>1, <2>2, MoveKeeps
<1> QED
  BY <1>4, <1>5, <1>6
----------------------------------------------------------------------------
(* A request stops a container. *)

LEMMA TargetIs ==
    ASSUME OrchestratorInv, NEW c \in DOMAIN calls, calls[c].todo # <<>>, Target(c) # 0
    PROVE  Target(c) \in Ids /\ containers[Target(c)].name = Head1(c).name
<1>1. Shape /\ CallsInv /\ NamesAgree
  BY DEF OrchestratorInv, RegistryInv
<1>2. Head1(c) \in Steps /\ StepInv(calls[c], Head1(c), containers)
  BY <1>1, Going
<1>3. Head1(c).name \in Names
  BY <1>2, StepFields
<1> QED
  BY <1>1, <1>2, <1>3 DEF Target, StepInv, NamesAgree, Shape, Ids

StopAt(i) == IF Held(i) THEN "stop" ELSE "stopped"
Stop(c, i) == Turned(calls[c], Step(Head1(c).op, Head1(c).name, i), StopAt(i))

\* What Stops does to its request.
LEMMA StopIs ==
    ASSUME OrchestratorInv, NEW c \in DOMAIN calls, calls[c].at = "go", calls[c].todo # <<>>,
           Head1(c).op \in StopOps, Head1(c).op = "reload" => Head1(c).name \notin Clustered,
           NEW i \in Ids, i = Target(c), i # 0, Stops(c, i)
    PROVE  /\ Moves(c, Stop(c, i)) /\ CallInv(Stop(c, i), containers) /\ Stop(c, i) \in Call
           /\ Stop(c, i).at = StopAt(i) /\ Stop(c, i).kind = calls[c].kind /\ Stop(c, i).todo # <<>>
           /\ Stop(c, i).todo[1] = Step(Head1(c).op, Head1(c).name, i)
           /\ PendingKept(calls[c], Stop(c, i)) /\ JobKept(calls[c], Stop(c, i))
<1> PICK r : r = calls[c]
  OBVIOUS
<1> PICK s : s = Step(Head1(c).op, Head1(c).name, i)
  OBVIOUS
<1>1. Shape /\ CallsInv
  BY DEF OrchestratorInv
<1>2. /\ r \in Call /\ CallInv(r, containers) /\ Head1(c) = r.todo[1] /\ Head1(c) \in Steps
      /\ StepInv(r, Head1(c), containers)
  BY <1>1, Going
<1>3. i \in Nat /\ containers[i].name = Head1(c).name
  BY <1>1, TargetIs DEF Shape, Ids
<1>4. s \in Steps /\ s.op = Head1(c).op /\ s.name = Head1(c).name /\ s.id = i
  BY <1>2, <1>3, StepFields DEF Step, Steps
<1>5. StepInv(r, s, containers)
  BY <1>2, <1>3, <1>4 DEF StepInv, Ids
<1>6. StopAt(i) \in Stopping
  BY DEF StopAt, Stopping
<1>7. Moves(c, Turned(r, s, StopAt(i)))
  <2> PICK at : at = StopAt(i)
    OBVIOUS
  <2>1. calls' = [calls EXCEPT ![c].todo[1].id = i, ![c].at = at]
    BY DEF Stops, StopAt
  <2>2. Moves(c, Turned(calls[c], Step(Head1(c).op, Head1(c).name, i), at))
    BY <1>1, <2>1, TurnMoves, Zenon DEF CallsInv
  <2> QED
    BY <2>2
<1> PICK at : at = StopAt(i)
  OBVIOUS
<1> PICK q : q = Turned(r, s, at)
  OBVIOUS
<1>8. q.at = at /\ q.kind = r.kind /\ q.todo # <<>> /\ q.todo[1] = s
  BY <1>2, <1>4, TurnedFields
<1>9. PlaceInv(q)
  BY <1>4, <1>6, <1>8 DEF PlaceInv, Waiting, Stopping
<1>10. CallInv(q, containers)
  BY <1>2, <1>4, <1>5, <1>6, <1>9, TurnedInv DEF Waiting, Stopping
<1>11. PendingKept(r, q) /\ JobKept(r, q)
  BY <1>2, <1>4, <1>6, TurnedKeeps DEF StopOps, Stopping
<1>12. q = Stop(c, i)
  BY DEF Stop
<1>13. q \in Call
  BY <1>10 DEF CallInv
<1> QED
  BY <1>7, <1>8, <1>10, <1>11, <1>12, <1>13

LEMMA StoppedContainer ==
    ASSUME Shape, NEW i \in Ids, containers' = [containers EXCEPT ![i].stopping = TRUE]
    PROVE  /\ containers' \in Seq(Container) /\ Len(containers') = Len(containers)
           /\ DOMAIN containers' = Ids /\ NamedSame(containers, containers')
           /\ containers'[i].stopping = TRUE /\ containers'[i].child = containers[i].child
           /\ containers'[i].backoffs = containers[i].backoffs
           /\ \A j \in Ids : j # i => containers'[j] = containers[j]
<1> PICK x : x = [containers[i] EXCEPT !.stopping = TRUE]
  OBVIOUS
<1>1. containers[i] \in Container
  BY DEF Shape, Ids
<1>2. /\ x \in Container /\ x.name = containers[i].name /\ x.child = containers[i].child
      /\ x.stopping = TRUE /\ x.backoffs = containers[i].backoffs
  BY <1>1 DEF Container
<1>3. containers' = [containers EXCEPT ![i] = x]
  OBVIOUS
<1>4. /\ containers' \in Seq(Container) /\ Len(containers') = Len(containers)
      /\ DOMAIN containers' = DOMAIN containers /\ containers'[i] = x
      /\ \A j \in Ids : j # i => containers'[j] = containers[j]
  BY ONLY <1>2, <1>3, i \in Ids, Shape DEF Shape, Ids
<1> QED
  BY <1>2, <1>4 DEF NamedSame, Ids

\* The numbers of children are never those of no child or of a dead one.
LEMMA KidIsLive ==
    ASSUME Family, NEW k \in Kids
    PROVE  k # None /\ k # Dead /\ children[k].of \in Ids /\ children[k].waiters \subseteq DOMAIN calls
BY DEF Family, None, Dead, Child

\* Who restarts is seen by the next that does.
LEMMA RestartingIs ==
    ASSUME CallsInv, NEW c \in DOMAIN calls, NEW i
    PROVE  Restarting(c, i) <=> Restarts(calls[c], i)
<1>1. calls[c].at \in Stopping => calls[c].todo # <<>>
  BY DEF CallsInv, CallInv, PlaceInv, Stopping
<1>2. calls[c].at \in Stopping => Head1(c) = calls[c].todo[1]
  BY <1>1, Going
<1> QED
  BY <1>2 DEF Restarting, Restarts

\* What a stop does to the children: it is told of the exit of the one it finds.
LEMMA StopWaits ==
    ASSUME OrchestratorInv, NEW c \in DOMAIN calls, NEW i \in Ids, Stops(c, i), calls[c].at = "go",
           DOMAIN calls' = DOMAIN calls
    PROVE  /\ DOMAIN children' = Kids /\ Family'
           /\ \A k \in Kids : /\ children'[k].of = children[k].of /\ children'[k].state = children[k].state
                              /\ children'[k].waiters = children[k].waiters \cup
                                     (IF k = ChildOf(i) THEN {c} ELSE {})
<1>0. Shape /\ Family
  BY DEF OrchestratorInv, ChildInv
<1>1. /\ DOMAIN containers' = Ids /\ containers'[i].child = containers[i].child
      /\ \A j \in Ids : j # i => containers'[j] = containers[j]
  BY <1>0, StoppedContainer DEF Stops
<1>2. /\ DOMAIN children' = Kids /\ children' = [k \in Kids |-> children'[k]]
      /\ \A k \in Kids : /\ children'[k] \in Child
                         /\ children'[k].of = children[k].of /\ children'[k].state = children[k].state
                         /\ children'[k].waiters = children[k].waiters \cup
                                (IF k = ChildOf(i) THEN {c} ELSE {})
  <2>1. CASE Connected(i)
    <3>1. PICK l \in Kids : l = ChildOf(i)
      BY <2>1 DEF Connected
    <3>2. children' = [children EXCEPT ![l].waiters = @ \cup {c}]
      BY <2>1, <3>1 DEF Stops
    <3>3. /\ children[l] \in Child
          /\ [children[l] EXCEPT !.waiters = @ \cup {c}] \in Child
          /\ [children[l] EXCEPT !.waiters = @ \cup {c}].of = children[l].of
          /\ [children[l] EXCEPT !.waiters = @ \cup {c}].state = children[l].state
          /\ [children[l] EXCEPT !.waiters = @ \cup {c}].waiters = children[l].waiters \cup {c}
      BY <1>0 DEF Family, Child
    <3>4. /\ DOMAIN children' = Kids /\ children' = [k \in Kids |-> children'[k]]
          /\ children'[l] = [children[l] EXCEPT !.waiters = @ \cup {c}]
          /\ \A k \in Kids : k # l => children'[k] = children[k] /\ children[k] \in Child
      BY <1>0, <3>2 DEF Family, Kids
    <3> QED
      BY <3>1, <3>3, <3>4
  <2>2. CASE ~Connected(i)
    <3>1. children' = children
      BY <2>2 DEF Stops
    <3>2. \A k \in Kids : k # ChildOf(i)
      BY <2>2 DEF Connected
    <3> QED
      BY <1>0, <3>1, <3>2 DEF Family, Kids
  <2> QED
    BY <2>1, <2>2
<1>3. Child' = Child /\ Kids' = Kids /\ Ids' = Ids /\ \A j \in Ids : ChildOf(j)' = ChildOf(j)
  BY <1>1, <1>2 DEF Child, Kids, Ids, ChildOf
<1>4. children' \in [Kids -> Child]
  BY <1>2
<1>5. \A j \in Ids : ChildOf(j) \in Kids => children'[ChildOf(j)].of = j
  BY <1>0, <1>2 DEF Family
<1>6. Family'
  BY <1>0, <1>3, <1>4, <1>5 DEF Family
<1> QED
  BY <1>2, <1>6

LEMMA StopTends ==
    ASSUME OrchestratorInv, NEW c \in DOMAIN calls, calls[c].at = "go", calls[c].todo # <<>>,
           Head1(c).op \in StopOps, Head1(c).op = "reload" => Head1(c).name \notin Clustered,
           NEW i \in Ids, i = Target(c), i # 0, Stops(c, i), phase' = phase
    PROVE  /\ Family' /\ Tended' /\ Waits' /\ Calm
           /\ ~Held(i) /\ containers[i].name \notin torn' => ~Runs(i, containers', children')
<1> PICK q : q = Stop(c, i)
  OBVIOUS
<1>0. Shape /\ CallsInv /\ Family /\ Tended /\ Waits
  BY DEF OrchestratorInv, ChildInv
<1>1. /\ Moves(c, q) /\ q \in Call /\ q.at = StopAt(i) /\ q.todo # <<>>
      /\ q.todo[1] = Step(Head1(c).op, Head1(c).name, i)
  BY StopIs
<1>2. /\ DOMAIN containers' = Ids /\ NamedSame(containers, containers')
      /\ containers'[i].stopping /\ containers'[i].stopping = TRUE
      /\ containers'[i].child = containers[i].child /\ containers'[i].backoffs = containers[i].backoffs
      /\ \A j \in Ids : j # i => containers'[j] = containers[j]
  BY <1>0, StoppedContainer DEF Stops
<1>3. /\ CallsGrow /\ DOMAIN calls' = DOMAIN calls /\ calls'[c] = q
      /\ \A d \in DOMAIN calls : d # c => calls'[d] = calls[d]
  BY <1>0, <1>1, MoveGrows, OneMoves DEF CallsInv
<1>4. /\ DOMAIN children' = Kids /\ Family'
      /\ \A k \in Kids : /\ children'[k].of = children[k].of /\ children'[k].state = children[k].state
                         /\ children'[k].waiters = children[k].waiters \cup
                                (IF k = ChildOf(i) THEN {c} ELSE {})
  BY <1>3, StopWaits
<1>5. containers[i].name = Head1(c).name
  BY TargetIs
<1>6. /\ torn \subseteq torn'
      /\ Head1(c).op \in {"restart", "reload"} /\ (\E d \in DOMAIN calls \ {c} : Restarts(calls[d], i)) =>
             containers[i].name \in torn'
  BY <1>0, <1>5, RestartingIs DEF Stops
<1>7. /\ q.todo[1].id = i /\ q.todo[1].op = Head1(c).op
      /\ q.at = "stop" <=> Held(i)
      /\ q.at = "stopped" <=> ~Held(i)
      /\ q.at \in Stopping
  BY <1>1 DEF Step, StopAt, Stopping
<1>8. Kids' = Kids /\ Ids' = Ids
  BY <1>2, <1>4 DEF Kids, Ids
<1>9. ASSUME containers[i].name \notin torn'
      PROVE  Sole(i)' /\ Attended(i)'
  <2>1. Sole(i) /\ Attended(i)
    BY <1>0, <1>6, <1>9 DEF Tended
  <2>2. \A k \in Kids : children[k].of = i => ChildOf(i) = k /\ c \in children'[k].waiters
    BY <1>4, <2>1 DEF Sole
  <2>3. Sole(i)'
    BY <1>2, <1>4, <1>8, <2>1, <2>2 DEF Sole, Asked, ChildOf
  <2>4. ASSUME NEW d \in DOMAIN calls', AwaitedAt(calls'[d], i, {"stop"})
        PROVE  /\ containers'[i].stopping /\ Held(i)'
               /\ \A k \in Kids' : children'[k].of = i => d \in children'[k].waiters
    <3>1. CASE d = c
      BY <1>2, <1>3, <1>4, <1>7, <1>8, <2>2, <2>4, <3>1 DEF AwaitedAt, Held, ChildOf
    <3>2. CASE d # c
      BY <1>2, <1>3, <1>4, <1>8, <2>1, <2>4, <3>2 DEF Attended, Held, ChildOf
    <3> QED
      BY <3>1, <3>2
  <2>5. ASSUME NEW d \in DOMAIN calls', calls'[d].at = "stopped", Restarts(calls'[d], i)
        PROVE  ~Held(i)'
    BY <1>2, <1>3, <1>7, <2>1, <2>5 DEF Attended, Held, ChildOf
  <2>6. ASSUME NEW d \in DOMAIN calls', NEW e \in DOMAIN calls', Restarts(calls'[d], i), Restarts(calls'[e], i)
        PROVE  d = e
    <3>1. \A f \in DOMAIN calls : f # c /\ Restarts(calls'[c], i) => ~Restarts(calls'[f], i)
      BY <1>3, <1>6, <1>7, <1>9 DEF Restarts
    <3> QED
      BY <1>3, <2>1, <2>6, <3>1 DEF Attended
  <2>7. Attended(i)'
    BY <2>4, <2>5, <2>6 DEF Attended
  <2> QED
    BY <2>3, <2>7
<1>10. ASSUME NEW j \in Ids, j # i, containers[j].name \notin torn'
       PROVE  Sole(j)' /\ Attended(j)'
  <2>1. Sole(j) /\ Attended(j)
    BY <1>0, <1>6, <1>10 DEF Tended
  <2>2. \A k \in DOMAIN children' : children'[k].of = j => KidSame(k)
    <3> SUFFICES ASSUME NEW k \in Kids, children[k].of = j
                 PROVE  KidSame(k)
      BY <1>4 DEF KidSame
    <3>1. k # ChildOf(i)
      BY <1>0, <1>10 DEF Family
    <3>2. children'[k].waiters = children[k].waiters
      BY <1>4, <3>1
    <3> QED
      BY <1>4, <3>2 DEF KidSame
  <2>3. \A d \in DOMAIN calls' : Aside(d, j)
    BY <1>3, <1>7, <1>10 DEF Aside, AwaitedAt, Restarts
  <2> QED
    BY <1>2, <1>10, <2>1, <2>2, <2>3, TendedAt
<1>11. Tended'
  BY <1>2, <1>8, <1>9, <1>10 DEF Tended, NamedSame, Ids
<1>12. Waits'
  <2> SUFFICES ASSUME phase # "down", NEW k \in Kids, NEW d \in children'[k].waiters
               PROVE  /\ AwaitedAt(calls'[d], children'[k].of, {"stop"})
                      /\ \A l \in Kids : d \in children'[l].waiters => k = l
    BY <1>8 DEF Waits
  <2>1. \A l \in Kids : \A e \in children[l].waiters :
            /\ AwaitedAt(calls[e], children[l].of, {"stop"}) /\ e \in DOMAIN calls /\ e # c
            /\ \A m \in Kids : e \in children[m].waiters => l = m
    BY <1>0, KidIsLive DEF Waits, AwaitedAt
  <2>2. CASE d = c
    <3>1. \A l \in Kids : c \in children'[l].waiters => l = ChildOf(i)
      BY <1>4, <2>1
    <3>2. k = ChildOf(i) /\ children[k].of = i
      BY <1>0, <2>2, <3>1 DEF Family
    <3>3. Held(i)
      BY <1>0, <3>2, KidIsLive DEF Held
    <3> QED
      BY <1>1, <1>3, <1>4, <1>7, <2>2, <3>1, <3>2, <3>3 DEF AwaitedAt
  <2>3. CASE d # c
    <3>1. \A l \in Kids : d \in children'[l].waiters => d \in children[l].waiters
      BY <1>4, <2>3
    <3> QED
      BY <1>3, <1>4, <2>1, <2>3, <3>1
  <2> QED
    BY <2>2, <2>3
<1>13. Calm
  BY <1>2, <1>4, <1>8 DEF Calm, NamedSame, Ids, Runs, Kids
<1>14. ASSUME ~Held(i), containers[i].name \notin torn'
       PROVE  ~Runs(i, containers', children')
  <2>1. \A k \in Kids : children[k].of # i
    BY <1>0, <1>6, <1>14, KidIsLive DEF Tended, Sole, Held
  <2> QED
    BY <1>2, <1>4, <2>1 DEF Runs
<1> QED
  BY <1>4, <1>11, <1>12, <1>13, <1>14

LEMMA StopsKeep ==
    ASSUME OrchestratorInv, NEW c \in DOMAIN calls, calls[c].at = "go", calls[c].todo # <<>>,
           Head1(c).op \in StopOps, Head1(c).op = "reload" => Head1(c).name \notin Clustered,
           NEW i \in Ids, i = Target(c), i # 0, Stops(c, i), reloading' \subseteq Ids,
           UNCHANGED <<registry, jobs, phase, setbacks, raced, slow, stray, late>>
    PROVE  Shape' /\ CallsInv' /\ RegistryInv' /\ JobInv' /\ ChildInv'
<1> PICK r : r = calls[c]
  OBVIOUS
<1> PICK q : q = Stop(c, i)
  OBVIOUS
<1>0. Shape /\ CallsInv /\ RegistryInv /\ JobInv /\ Listed /\ Gone /\ Closings
  BY DEF OrchestratorInv, ChildInv
<1>1. /\ Moves(c, q) /\ CallInv(q, containers) /\ q \in Call
      /\ q.at = StopAt(i) /\ q.kind = r.kind /\ q.todo # <<>>
      /\ q.todo[1] = Step(Head1(c).op, Head1(c).name, i)
      /\ PendingKept(r, q) /\ JobKept(r, q)
  BY StopIs
<1>2. /\ containers' \in Seq(Container) /\ Len(containers') = Len(containers)
      /\ NamedSame(containers, containers')
  BY <1>0, StoppedContainer DEF Stops
<1>3. /\ CallsGrow /\ DOMAIN calls' = DOMAIN calls /\ calls'[c] = q
      /\ \A d \in DOMAIN calls : calls'[d] = calls[d] \/ d = c
  BY <1>0, <1>1, MoveGrows
<1>4. torn \subseteq torn' /\ torn' \subseteq Names
  <2>1. containers[i].name = Head1(c).name
    BY TargetIs
  <2>2. Head1(c).name \in Names
    BY <1>0, Going, StepFields
  <2> QED
    BY <1>0, <2>2 DEF Stops, Shape
<1>5. UNCHANGED <<processes, nameToId, raced, slow, stray, late>> /\ HistoryGrows
  BY <1>4 DEF registry, HistoryGrows
<1>6. /\ Family' /\ Tended' /\ Waits' /\ Calm
      /\ ~Held(i) /\ containers[i].name \notin torn' => ~Runs(i, containers', children')
  BY StopTends
<1>7. q.todo[1].id = i /\ q.todo[1].name = containers[i].name /\ (q.at = "stop" <=> Held(i))
      /\ q.at # "ready"
  BY <1>1, TargetIs DEF Step, StopAt
<1>8. Shape'
  BY <1>0, <1>2, <1>4, <1>5 DEF Shape, Ids
<1>9. CallsInv'
  <2>1. CallInv(q, containers')
    BY <1>1, <1>2, CallKeeps
  <2> QED
    BY <1>0, <1>1, <1>2, <2>1, CallsMove
<1>10. RegistryInv'
  <2>1. LaunchKept(r, q)
    BY <1>7 DEF LaunchKept, Launches
  <2> QED
    BY <1>0, <1>3, <1>5, <1>6, <2>1, RegistryKept
<1>11. JobInv'
  BY <1>0, <1>1, <1>3, <1>5, JobKeeps
<1>12. Listed'
  BY <1>0, <1>5, <1>6, ListedKept
<1>14. Gone'
  <2> SUFFICES ASSUME NEW d \in DOMAIN calls, Leaves(calls'[d]), calls'[d].todo[1].name \notin raced \cup torn'
               PROVE  ~Runs(calls'[d].todo[1].id, containers', children')
    BY <1>3, <1>5 DEF Gone
  <2>1. CASE d = c
    <3>1. ~Held(i) /\ containers[i].name \notin torn'
      BY <1>3, <1>7, <2>1 DEF Leaves
    <3> QED
      BY <1>3, <1>6, <1>7, <2>1, <3>1
  <2>2. CASE d # c
    <3>1. calls'[d] = calls[d]
      BY <1>3, <2>2
    <3>2. PICK j : j = calls[d].todo[1].id
      OBVIOUS
    <3>3. j \in Ids /\ containers[j].name = calls[d].todo[1].name
      BY <1>0, <3>1, <3>2, LeavesId DEF CallsInv, Ids
    <3>4. ~Runs(j, containers, children) /\ containers[j].name \notin torn'
      BY <1>0, <1>4, <3>1, <3>2, <3>3 DEF Gone
    <3>5. ~Runs(j, containers', children')
      BY <1>6, <3>3, <3>4 DEF Calm
    <3> QED
      BY <3>1, <3>2, <3>5
  <2> QED
    BY <2>1, <2>2
<1>15. Closings'
  <2>1. ASSUME NEW j \in Ids, Runs(j, containers', children'), containers[j].name \notin torn',
               Closes(r), AwaitedAt(r, j, {"go", "stop"})
        PROVE  Closes(q) /\ AwaitedAt(q, j, {"go", "stop"})
    <3>1. StepInv(r, Head1(c), containers) /\ Head1(c) = r.todo[1]
      BY <1>0, Going
    <3>2. j = i
      BY <2>1, <3>1 DEF Target, Closes, AwaitedAt, StepInv
    <3>3. q.at = "stop"
      BY <1>6, <1>7, <2>1, <3>2
    <3> QED
      BY <1>1, <1>7, <2>1, <3>2, <3>3 DEF Closes, AwaitedAt
  <2>2. \A d \in DOMAIN calls : calls'[d] = calls[d] \/
               /\ PendingKept(calls[d], calls'[d])
               /\ \A j \in Ids : Runs(j, containers', children') /\ containers[j].name \notin torn' =>
                      CloseKept(calls[d], calls'[d], j)
    BY <1>1, <1>3, <2>1 DEF CloseKept
  <2> QED
    BY <1>0, <1>3, <1>4, <1>5, <1>6, <2>2, ClosingsKept
<1> QED
  BY <1>6, <1>8, <1>9, <1>10, <1>11, <1>12, <1>14, <1>15 DEF ChildInv

LEMMA StopsTargetKeeps ==
    ASSUME OrchestratorInv, NEW c \in DOMAIN calls, StopsTarget(c)
    PROVE  OrchestratorInv'
<1>0. /\ calls[c].at = "go" /\ calls[c].todo # <<>>
      /\ Head1(c).op \in {"down", "restart", "delete", "replace", "close"}
      /\ UNCHANGED <<registry, reloading, jobs, phase, setbacks, raced, slow, stray, late>>
  BY DEF StopsTarget, Goes
<1>1. Shape /\ CallsInv /\ ReloadInv
  BY DEF OrchestratorInv
<1>2. /\ calls[c] \in Call /\ Head1(c) = calls[c].todo[1]
      /\ StepInv(calls[c], Head1(c), containers)
  BY <1>0, <1>1, Going
<1>3. CASE Target(c) = 0
  <2>1. Head1(c).op # "close"
    BY <1>2, <1>3 DEF Target, StepInv
  <2>2. Fails(c) /\ UNCHANGED <<containers, children, history>>
    BY <1>3 DEF StopsTarget, history
  <2> QED
    BY <1>0, <2>1, <2>2, PassKeeps
<1>4. CASE Target(c) # 0
  <2> PICK i : i = Target(c)
    OBVIOUS
  <2>1. i \in Ids /\ Stops(c, i)
    BY <1>0, <1>4, TargetIs DEF StopsTarget
  <2>2. Shape' /\ CallsInv' /\ RegistryInv' /\ JobInv' /\ ChildInv'
    BY <1>0, <1>1, <1>4, <2>1, StopsKeep DEF StopOps, Shape
  <2>3. ReloadInv'
    <3> PICK q : q = Stop(c, i)
      OBVIOUS
    <3>1. Moves(c, q) /\ q \in Call /\ q.todo[1] = Step(Head1(c).op, Head1(c).name, i)
      BY <1>0, <1>4, <2>1, StopIs DEF StopOps
    <3>2. /\ CallsGrow /\ DOMAIN calls' = DOMAIN calls /\ calls'[c] = q
          /\ \A d \in DOMAIN calls : calls'[d] = calls[d] \/ d = c
      BY <1>1, <3>1, MoveGrows
    <3>3. ~Reloads(calls[c]) /\ ~Reloads(q)
      BY <1>0, <3>1 DEF Reloads, Step, Waiting
    <3>4. ReloadKept(calls[c], q)
      BY <3>3 DEF ReloadKept
    <3> QED
      BY <1>0, <1>1, <3>2, <3>4, ReloadKeeps
  <2> QED
    BY <2>2, <2>3 DEF OrchestratorInv
<1> QED
  BY <1>3, <1>4
----------------------------------------------------------------------------
(* Reloads begin and end. *)

LEMMA ReloadBegins ==
    ASSUME ReloadInv, NEW c \in DOMAIN calls, NEW i, i \notin reloading, reloading' = reloading \cup {i},
           DOMAIN calls' = DOMAIN calls, \A d \in DOMAIN calls : calls'[d] = calls[d] \/ d = c,
           ~Reloads(calls[c]), Reloads(calls'[c]), Reloaded(calls'[c]) = i, phase' = phase
    PROVE  ReloadInv'
<1> SUFFICES ASSUME phase # "down"
             PROVE  /\ \A d \in DOMAIN calls : Reloads(calls'[d]) => Reloaded(calls'[d]) \in reloading'
                    /\ \A d, e \in DOMAIN calls :
                          Reloads(calls'[d]) /\ Reloads(calls'[e]) /\ Reloaded(calls'[d]) = Reloaded(calls'[e])
                          => d = e
                    /\ \A j \in reloading' : \E d \in DOMAIN calls :
                          Reloads(calls'[d]) /\ Reloaded(calls'[d]) = j
  BY DEF ReloadInv
<1>1. /\ \A d \in DOMAIN calls : Reloads(calls[d]) => Reloaded(calls[d]) \in reloading
      /\ \A d, e \in DOMAIN calls :
             Reloads(calls[d]) /\ Reloads(calls[e]) /\ Reloaded(calls[d]) = Reloaded(calls[e]) => d = e
      /\ \A j \in reloading : \E d \in DOMAIN calls : Reloads(calls[d]) /\ Reloaded(calls[d]) = j
  BY DEF ReloadInv
<1> QED
  BY <1>1

LEMMA ReloadIsOver ==
    ASSUME ReloadInv, NEW c \in DOMAIN calls, reloading' = reloading \ {Reloaded(calls[c])},
           DOMAIN calls' = DOMAIN calls, \A d \in DOMAIN calls : calls'[d] = calls[d] \/ d = c,
           Reloads(calls[c]), ~Reloads(calls'[c]), phase' = phase
    PROVE  ReloadInv'
<1> SUFFICES ASSUME phase # "down"
             PROVE  /\ \A d \in DOMAIN calls : Reloads(calls'[d]) => Reloaded(calls'[d]) \in reloading'
                    /\ \A d, e \in DOMAIN calls :
                          Reloads(calls'[d]) /\ Reloads(calls'[e]) /\ Reloaded(calls'[d]) = Reloaded(calls'[e])
                          => d = e
                    /\ \A j \in reloading' : \E d \in DOMAIN calls :
                          Reloads(calls'[d]) /\ Reloaded(calls'[d]) = j
  BY DEF ReloadInv
<1>1. /\ \A d \in DOMAIN calls : Reloads(calls[d]) => Reloaded(calls[d]) \in reloading
      /\ \A d, e \in DOMAIN calls :
             Reloads(calls[d]) /\ Reloads(calls[e]) /\ Reloaded(calls[d]) = Reloaded(calls[e]) => d = e
      /\ \A j \in reloading : \E d \in DOMAIN calls : Reloads(calls[d]) /\ Reloaded(calls[d]) = j
  BY DEF ReloadInv
<1> QED
  BY <1>1

LEMMA ReloadsTargetKeeps ==
    ASSUME OrchestratorInv, NEW c \in DOMAIN calls, ReloadsTarget(c)
    PROVE  OrchestratorInv'
<1> PICK i : i = Target(c)
  OBVIOUS
<1> PICK r : r = calls[c]
  OBVIOUS
<1>0. /\ r.at = "go" /\ r.todo # <<>> /\ Head1(c).op = "reload"
      /\ UNCHANGED <<registry, jobs, phase, setbacks, raced, slow, stray, late>>
  BY DEF ReloadsTarget, Goes
<1>1. Shape /\ CallsInv /\ ReloadInv /\ JobInv
  BY DEF OrchestratorInv
<1>2. /\ r \in Call /\ Head1(c) = r.todo[1] /\ Head1(c) \in Steps /\ CallInv(r, containers)
      /\ StepInv(r, Head1(c), containers)
  BY <1>0, <1>1, Going
<1>3. CASE (Fails(c) \/ NextStep(c)) /\ UNCHANGED <<containers, children, reloading, torn>>
  BY <1>0, <1>3, PassKeeps DEF history
<1>4. CASE /\ i # 0 /\ ReloadIsFree(i) /\ reloading' = reloading \cup {i}
           /\ Head1(c).name \in Clustered /\ UNCHANGED <<containers, children, torn>>
           /\ calls' = [calls EXCEPT ![c].todo[1].id = i, ![c].at = "reload"]
  <2> PICK s : s = Step(Head1(c).op, Head1(c).name, i)
    OBVIOUS
  <2> PICK q : q = Turned(r, s, "reload")
    OBVIOUS
  <2>1. i \in Ids /\ i \in Nat /\ containers[i].name = Head1(c).name
    BY <1>0, <1>1, <1>4, TargetIs DEF Shape, Ids
  <2>2. s \in Steps /\ s.op = "reload" /\ s.name = Head1(c).name /\ s.id = i
    BY <1>0, <1>2, <2>1, StepFields DEF Step, Steps
  <2>3. StepInv(r, s, containers)
    BY <1>0, <1>2, <1>4, <2>1, <2>2 DEF StepInv, Ids
  <2>4. Moves(c, q)
    <3>1. Moves(c, Turned(calls[c], Step(Head1(c).op, Head1(c).name, i), "reload"))
      BY <1>0, <1>1, <1>4, TurnMoves, Zenon DEF CallsInv
    <3> QED
      BY <3>1
  <2>5. q.at = "reload" /\ q.kind = r.kind /\ q.todo # <<>> /\ q.todo[1] = s
    BY <1>2, <1>0, <2>2, TurnedFields
  <2>6. PlaceInv(q)
    BY <1>4, <2>2, <2>5 DEF PlaceInv, Waiting, Stopping
  <2>7. CallInv(q, containers)
    BY <1>0, <1>2, <2>2, <2>3, <2>6, TurnedInv DEF Waiting
  <2>8. PendingKept(r, q) /\ JobKept(r, q)
    BY <1>0, <1>2, <2>2, TurnedKeeps
  <2>9. LaunchKept(r, q) /\ LeaveKept(r, q)
    BY <2>5 DEF LaunchKept, LeaveKept, Launches, Leaves
  <2>10. AwaitKept(r, q) /\ \A j : CloseKept(r, q, j)
    BY <1>0, <1>2, <2>5 DEF AwaitKept, CloseKept, AwaitedAt, Closes, StepInv, Stopping
  <2>11. CallsInv' /\ RegistryInv' /\ ChildInv'
    BY <1>0, <1>4, <2>4, <2>7, <2>8, <2>9, <2>10, MoveKeepsOthers DEF history
  <2>12. /\ CallsGrow /\ DOMAIN calls' = DOMAIN calls /\ calls'[c] = q
         /\ \A d \in DOMAIN calls : calls'[d] = calls[d] \/ d = c
    BY <1>1, <2>4, <2>7, MoveGrows DEF CallInv
  <2>13. ReloadInv'
    <3>1. ~Reloads(r) /\ Reloads(q) /\ Reloaded(q) = i
      BY <1>0, <2>2, <2>5 DEF Reloads, Reloaded, Waiting
    <3> QED
      BY <1>0, <1>1, <1>4, <2>12, <3>1, ReloadBegins DEF ReloadIsFree
  <2>14. UNCHANGED nameToId /\ UNCHANGED processes /\ HistoryGrows
    BY <1>0, <1>4 DEF registry, HistoryGrows
  <2>15. JobInv'
    BY <1>0, <1>1, <2>8, <2>12, <2>14, JobKeeps
  <2>16. Shape'
    BY <1>0, <1>1, <1>4, <2>1, <2>14 DEF Shape, Ids, history
  <2> QED
    BY <2>11, <2>13, <2>15, <2>16 DEF OrchestratorInv
<1>5. CASE /\ i # 0 /\ ReloadIsFree(i) /\ reloading' = reloading \cup {i}
           /\ Head1(c).name \notin Clustered /\ Stops(c, i)
  <2>1. i \in Ids
    BY <1>0, <1>5, TargetIs
  <2>2. reloading' \subseteq Ids
    BY <1>1, <1>5, <2>1 DEF Shape
  <2>3. Shape' /\ CallsInv' /\ RegistryInv' /\ JobInv' /\ ChildInv'
    BY <1>0, <1>5, <2>1, <2>2, StopsKeep DEF StopOps
  <2>4. ReloadInv'
    <3> PICK q : q = Stop(c, i)
      OBVIOUS
    <3>1. /\ Moves(c, q) /\ q \in Call /\ q.todo[1] = Step(Head1(c).op, Head1(c).name, i)
          /\ q.at = StopAt(i)
      BY <1>0, <1>5, <2>1, StopIs DEF StopOps
    <3>2. /\ CallsGrow /\ DOMAIN calls' = DOMAIN calls /\ calls'[c] = q
          /\ \A d \in DOMAIN calls : calls'[d] = calls[d] \/ d = c
      BY <1>1, <3>1, MoveGrows
    <3>3. StopAt(i) \in Stopping
      BY DEF StopAt, Stopping
    <3>4. ~Reloads(calls[c]) /\ Reloads(q) /\ Reloaded(q) = i
      BY <1>0, <3>1, <3>3 DEF Reloads, Reloaded, Step, Waiting, Stopping
    <3> QED
      BY <1>0, <1>1, <1>5, <3>2, <3>4, ReloadBegins DEF ReloadIsFree
  <2> QED
    BY <2>3, <2>4 DEF OrchestratorInv
<1> QED
  BY <1>3, <1>4, <1>5 DEF ReloadsTarget

LEMMA ReloadEndsKeeps ==
    ASSUME OrchestratorInv, NEW c \in DOMAIN calls, ReloadEnds(c)
    PROVE  OrchestratorInv'
<1> PICK r : r = calls[c]
  OBVIOUS
<1> PICK q : q = Skipped(r)
  OBVIOUS
<1>0. /\ r.at = "reload" /\ reloading' = reloading \ {Head1(c).id} /\ NextStep(c)
      /\ UNCHANGED <<containers, children, registry, jobs, phase, setbacks, history>>
  BY DEF ReloadEnds
<1>1. Shape /\ CallsInv /\ ReloadInv /\ JobInv
  BY DEF OrchestratorInv
<1>2. r \in Call /\ PlaceInv(r)
  BY <1>1 DEF CallsInv, CallInv
<1>3. r.todo # <<>> /\ r.todo[1].op = "reload"
  BY <1>0, <1>2 DEF PlaceInv
<1>4. CallInv(r, containers) /\ Head1(c) = r.todo[1] /\ StepInv(r, Head1(c), containers)
  BY <1>1, <1>3, Going
<1>5. Moves(c, q)
  BY <1>0, <1>1, NextStepMoves DEF CallsInv
<1>6. CallInv(q, containers) /\ q \in Call
  BY <1>3, <1>4, SkippedInv DEF CallInv
<1>7. ~Closes(r)
  BY <1>3, <1>4 DEF StepInv, Closes
<1>8. /\ LaunchKept(r, q) /\ LeaveKept(r, q) /\ PendingKept(r, q) /\ JobKept(r, q)
      /\ AwaitKept(r, q) /\ \A i : CloseKept(r, q, i)
  BY <1>0, <1>2, <1>3, <1>7, SkippedKeeps
<1>9. CallsInv' /\ RegistryInv' /\ ChildInv'
  BY <1>0, <1>5, <1>6, <1>8, MoveKeepsOthers
<1>10. /\ CallsGrow /\ DOMAIN calls' = DOMAIN calls /\ calls'[c] = q
       /\ \A d \in DOMAIN calls : calls'[d] = calls[d] \/ d = c
  BY <1>1, <1>5, <1>6, MoveGrows
<1>11. ReloadInv'
  <2>1. Reloads(r) /\ Reloaded(r) = Head1(c).id /\ ~Reloads(q)
    BY <1>0, <1>3, <1>4 DEF Reloads, Reloaded, Skipped, Waiting
  <2> QED
    BY <1>0, <1>1, <1>10, <2>1, ReloadIsOver
<1>12. UNCHANGED nameToId /\ UNCHANGED processes /\ HistoryGrows
  BY <1>0 DEF registry, history, HistoryGrows
<1>13. JobInv'
  BY <1>0, <1>1, <1>8, <1>10, <1>12, JobKeeps
<1>14. Shape'
  BY <1>0, <1>1, <1>12 DEF Shape, Ids, history
<1> QED
  BY <1>9, <1>11, <1>13, <1>14 DEF OrchestratorInv
----------------------------------------------------------------------------
(* Children. *)

\* A request that a change of the container i moves on.
Wakes(r, q, i) ==
    /\ CallInv(q, containers)
    /\ LaunchKept(r, q) /\ ReloadKept(r, q) /\ JobKept(r, q) /\ PendingKept(r, q)
    /\ \/ LeaveKept(r, q)
       \/ q.todo[1].id = i /\ (q.todo[1].name \notin torn' => ~Runs(i, containers', children'))
    /\ \A j \in Ids : Runs(j, containers', children') /\ containers[j].name \notin torn' => CloseKept(r, q, j)

\* The rest of the invariant, when a child changes.
LEMMA ChildKeeps ==
    ASSUME OrchestratorInv, NEW i, containers' \in Seq(Container), Len(containers') = Len(containers), Calm,
           Family', Tended', Waits',
           UNCHANGED <<registry, reloading, jobs, phase, raced, slow, stray, late>>,
           torn \subseteq torn', torn' \subseteq Names, setbacks' \in 0..MaxSetbacks,
           calls' \in Seq(Call), DOMAIN calls' = DOMAIN calls,
           \A d \in DOMAIN calls : calls'[d] = calls[d] \/ Wakes(calls[d], calls'[d], i)
    PROVE  OrchestratorInv'
<1>0. /\ Shape /\ CallsInv /\ RegistryInv /\ ReloadInv /\ JobInv
      /\ Family /\ Tended /\ Waits /\ Listed /\ Gone /\ Closings
  BY DEF OrchestratorInv, ChildInv
<1>1. DOMAIN containers' = Ids /\ NamedSame(containers, containers')
  BY DEF Calm, NamedSame, Ids
<1>3. CallsGrow
  BY DEF CallsGrow
<1>4. UNCHANGED <<processes, nameToId, raced, slow, stray, late>> /\ HistoryGrows
  BY DEF registry, HistoryGrows
<1>5. Shape'
  BY <1>0, <1>1, <1>4 DEF Shape, Ids
<1>6. CallsInv'
  <2>1. ASSUME NEW d \in DOMAIN calls'
        PROVE  CallInv(calls'[d], containers')
    <3>1. CallInv(calls'[d], containers)
      BY <1>0, <2>1 DEF Wakes, CallsInv
    <3> QED
      BY <1>1, <3>1, CallKeeps
  <2> QED
    BY <2>1 DEF CallsInv
<1>7. RegistryInv'
  <2>1. \A d \in DOMAIN calls : calls'[d] = calls[d] \/ LaunchKept(calls[d], calls'[d])
    BY DEF Wakes
  <2> QED
    BY <1>0, <1>3, <1>4, <2>1, RegistryKept
<1>8. ReloadInv'
  <2>1. \A d \in DOMAIN calls : calls'[d] = calls[d] \/ ReloadKept(calls[d], calls'[d])
    BY DEF Wakes
  <2> QED
    BY <1>0, <1>3, <2>1, ReloadKeeps
<1>9. JobInv'
  <2>1. \A d \in DOMAIN calls : calls'[d] = calls[d] \/ JobKept(calls[d], calls'[d])
    BY DEF Wakes
  <2> QED
    BY <1>0, <1>3, <1>4, <2>1, JobKeeps
<1>10. Listed'
  BY <1>0, <1>4, ListedKept
<1>12. Gone'
  <2> SUFFICES ASSUME NEW d \in DOMAIN calls, Leaves(calls'[d]), calls'[d].todo[1].name \notin raced' \cup torn'
               PROVE  ~Runs(calls'[d].todo[1].id, containers', children')
    BY DEF Gone
  <2>2. CASE Leaves(calls[d]) /\ calls'[d].todo[1] = calls[d].todo[1]
    <3>1. ~Runs(calls[d].todo[1].id, containers, children)
      BY <1>0, <1>4, <2>2 DEF Gone
    <3> PICK r : r = calls[d]
      OBVIOUS
    <3>2. CallInv(r, containers) /\ Leaves(r)
      BY <1>0, <2>2 DEF CallsInv
    <3>3. r.todo[1].id \in Ids /\ containers[r.todo[1].id].name = r.todo[1].name
      BY <3>2, LeavesId DEF Ids
    <3> QED
      BY <2>2, <3>1, <3>3 DEF Calm
  <2>3. \/ calls'[d] = calls[d] \/ LeaveKept(calls[d], calls'[d])
        \/ calls'[d].todo[1].id = i /\ ~Runs(i, containers', children')
    BY DEF Wakes
  <2> QED
    BY <2>2, <2>3 DEF LeaveKept
<1>13. Closings'
  <2>1. \A d \in DOMAIN calls : calls'[d] = calls[d] \/
               /\ PendingKept(calls[d], calls'[d])
               /\ \A j \in Ids : Runs(j, containers', children') /\ containers[j].name \notin torn'
                                     => CloseKept(calls[d], calls'[d], j)
    BY DEF Wakes
  <2>2. UNCHANGED <<phase, late>> /\ (~late /\ phase = "stopping" => processes' \subseteq processes)
    BY <1>4
  <2> QED
    BY <1>0, <1>3, <2>1, <2>2, ClosingsKept
<1> QED
  BY <1>5, <1>6, <1>7, <1>8, <1>9, <1>10, <1>12, <1>13 DEF OrchestratorInv, ChildInv

\* A container whose fields change.
LEMMA ContainerSet ==
    ASSUME Shape, NEW i \in Ids, NEW y \in Container, y.name = containers[i].name,
           containers' = [containers EXCEPT ![i] = y]
    PROVE  /\ containers' \in Seq(Container) /\ Len(containers') = Len(containers)
           /\ DOMAIN containers' = Ids /\ containers'[i] = y
           /\ \A j \in Ids : containers'[j].name = containers[j].name
           /\ \A j \in Ids : j # i => containers'[j] = containers[j]
<1>1. /\ containers' \in Seq(Container) /\ Len(containers') = Len(containers)
      /\ DOMAIN containers' = DOMAIN containers /\ containers'[i] = y
      /\ \A j \in Ids : j # i => containers'[j] = containers[j]
  BY DEF Shape, Ids
<1> QED
  BY <1>1 DEF Ids

\* A child's number is new.
LEMMA NewChildIs ==
    ASSUME Family
    PROVE  NewChild \in Nat \ {0} /\ NewChild \notin Kids /\ NewChild # None /\ NewChild # Dead
<1>1. IsFiniteSet(Kids) /\ Cardinality(Kids) \in Nat
  BY FS_CardinalityType DEF Family
<1> PICK n \in Nat : n = Cardinality(Kids)
  BY <1>1
<1>2. \E k \in 1..n + 1 : k \notin Kids
  <2> SUFFICES ASSUME 1..n + 1 \subseteq Kids
               PROVE  FALSE
    OBVIOUS
  <2>1. Cardinality(1..n + 1) = n + 1
    BY FS_Interval
  <2>2. Cardinality(1..n + 1) <= Cardinality(Kids)
    BY <1>1, FS_Subset
  <2> QED
    BY <2>1, <2>2
<1>3. NewChild \in 1..n + 1 /\ NewChild \notin Kids
  BY <1>2 DEF NewChild
<1> QED
  BY <1>3 DEF None, Dead

\* A child is forked, of a container that may be new.
LEMMA ForkIs ==
    ASSUME Family, NEW i \in Ids', NEW n, Forks(i, n), DOMAIN calls' = DOMAIN calls,
           Ids' = Ids \cup {i}, containers'[i].child = NewChild,
           \A j \in Ids : j # i => containers'[j].child = containers[j].child
    PROVE  /\ Kids' = Kids \cup {NewChild} /\ Family'
           /\ \A k \in Kids : children'[k] = children[k]
           /\ children'[NewChild].of = i /\ children'[NewChild].waiters = {}
           /\ children'[NewChild].state \in {"launching", "live"}
<1> PICK new : new = NewChild
  OBVIOUS
<1>1. new \in Nat \ {0} /\ new \notin Kids /\ new # None /\ new # Dead
  BY NewChildIs
<1> PICK x : x = [of |-> i, state |-> IF n \in Clustered THEN "launching" ELSE "live", waiters |-> {}]
  OBVIOUS
<1>2. children' = [k \in Kids \cup {new} |-> IF k = new THEN x ELSE children[k]]
  BY DEF Forks
<1>3. x.of = i /\ x.waiters = {} /\ x.state \in {"launching", "live"}
  OBVIOUS
<1>4. x \in Child'
  <2>1. Child' = [of : Ids', state : {"launching", "live", "killed"}, waiters : SUBSET DOMAIN calls']
    BY DEF Child
  <2> QED
    BY <2>1
<1>5. Child \subseteq Child'
  BY DEF Child
<1>6. Kids' = Kids \cup {new}
  BY <1>2 DEF Kids
<1>7. children' \in [Kids' -> Child']
  BY <1>2, <1>4, <1>5, <1>6 DEF Family
<1>8. \A k \in Kids : children'[k] = children[k]
  BY <1>1, <1>2
<1>9. children'[new] = x
  BY <1>2
<1>10. IsFiniteSet(Kids') /\ Kids' \subseteq Nat \ {0}
  BY <1>1, <1>6, FS_AddElement DEF Family
<1>11. ASSUME NEW j \in Ids'
       PROVE  /\ ChildOf(j)' \in {None, Dead} \cup Kids'
              /\ ChildOf(j)' \in Kids' => children'[ChildOf(j)'].of = j
  <2>1. CASE j = i
    BY <1>3, <1>6, <1>9, <2>1 DEF ChildOf
  <2>2. CASE j # i
    <3>1. j \in Ids /\ ChildOf(j)' = ChildOf(j)
      BY <2>2 DEF ChildOf
    <3>2. ChildOf(j) \in {None, Dead} \cup Kids /\ (ChildOf(j) \in Kids => children[ChildOf(j)].of = j)
      BY <3>1 DEF Family
    <3> QED
      BY <1>1, <1>6, <1>8, <3>1, <3>2
  <2> QED
    BY <2>1, <2>2
<1>12. Family'
  BY <1>7, <1>10, <1>11 DEF Family
<1> QED
  BY <1>3, <1>6, <1>8, <1>9, <1>12

LEMMA CallsMapped ==
    ASSUME calls \in Seq(Call), DOMAIN calls' = DOMAIN calls, calls' = [d \in DOMAIN calls |-> calls'[d]],
           \A d \in DOMAIN calls : calls'[d] \in Call
    PROVE  calls' \in Seq(Call)
<1>1. DOMAIN calls = 1..Len(calls) /\ Len(calls) \in Nat
  OBVIOUS
<1>2. calls' \in [1..Len(calls) -> Call]
  BY <1>1
<1> QED
  BY <1>1, <1>2

\* A stop that is over, for the request that awaits it.
LEMMA StopIsOver ==
    ASSUME OrchestratorInv, NEW d \in DOMAIN calls, calls[d].at = "stop", NEW i \in Ids, calls[d].todo[1].id = i,
           containers[i].name \notin torn' => ~Runs(i, containers', children')
    PROVE  /\ calls[d] \in Call /\ calls[d].todo # <<>> /\ Head1(d) = calls[d].todo[1]
           /\ containers[i].name = calls[d].todo[1].name
           /\ [calls[d] EXCEPT !.at = "stopped"] = Moved(calls[d], "stopped")
           /\ Moved(calls[d], "stopped") \in Call /\ Wakes(calls[d], Moved(calls[d], "stopped"), i)
<1> PICK r : r = calls[d]
  OBVIOUS
<1> PICK q : q = Moved(r, "stopped")
  OBVIOUS
<1>0. Shape /\ CallsInv
  BY DEF OrchestratorInv
<1>1. r.at = "stop" /\ r \in Call /\ CallInv(r, containers) /\ PlaceInv(r)
  BY <1>0 DEF CallsInv, CallInv
<1>2. r.todo # <<>> /\ r.todo[1].id = i /\ r.todo[1].op \in StopOps /\ r.todo[1].id # 0
  BY <1>1 DEF PlaceInv, Stopping
<1>3. Head1(d) = r.todo[1] /\ StepInv(r, r.todo[1], containers)
  BY <1>0, <1>2, Going
<1>4. containers[i].name = r.todo[1].name
  BY <1>2, <1>3 DEF StepInv
<1>5. [r EXCEPT !.at = "stopped"] = q
  BY <1>1, CallFields DEF Moved
<1>6. q.at = "stopped" /\ q.todo = r.todo /\ q.kind = r.kind /\ q.names = r.names
  BY DEF Moved
<1>7. PlaceInv(q)
  BY <1>1, <1>6 DEF PlaceInv, Stopping
<1>8. CallInv(q, containers) /\ q \in Call
  BY <1>1, <1>7, MovedInv DEF Waiting, CallInv
<1>9. LaunchKept(r, q) /\ PendingKept(r, q) /\ ReloadKept(r, q)
  BY <1>1, <1>6 DEF LaunchKept, PendingKept, ReloadKept, Launches, Reloads, Reloaded, Waiting, Closes
<1>10. JobKept(r, q)
  BY <1>1, <1>6 DEF JobKept, Deletes, Registers, ToCome
<1>11. \A j \in Ids : Runs(j, containers', children') /\ containers[j].name \notin torn' => CloseKept(r, q, j)
  BY <1>2 DEF CloseKept, AwaitedAt
<1>12. q.todo[1].id = i /\ (q.todo[1].name \notin torn' => ~Runs(i, containers', children'))
  BY <1>2, <1>4, <1>6
<1>13. Wakes(r, q, i)
  BY <1>8, <1>9, <1>10, <1>11, <1>12 DEF Wakes
<1> QED
  BY <1>1, <1>2, <1>3, <1>4, <1>5, <1>8, <1>13

\* What an exit changes.
LEMMA ExitIs ==
    ASSUME OrchestratorInv, NEW k \in Kids, Exits(k), NEW i \in Ids, i = children[k].of
    PROVE  /\ containers' \in Seq(Container) /\ Len(containers') = Len(containers)
           /\ DOMAIN containers' = Ids /\ \A j \in Ids : containers'[j].name = containers[j].name
           /\ \A j \in Ids : j # i => containers'[j] = containers[j]
           /\ containers'[i].stopping = containers[i].stopping
           /\ containers'[i].child \in {None, Dead, ChildOf(i)} /\ containers'[i].child # k
           /\ Asked(k) => containers'[i].child = None
           /\ \/ containers'[i].backoffs = containers[i].backoffs
              \/ /\ ~containers[i].stopping /\ containers'[i].backoffs = containers[i].backoffs + 1
                 /\ ~Asked(k) /\ ChildOf(i) = k => containers'[i].child = Dead
           /\ Kids' = Kids \ {k} /\ \A l \in Kids' : children'[l] = children[l]
           /\ children' \in [Kids \ {k} -> Child]
           /\ DOMAIN calls' = DOMAIN calls /\ calls' = [c \in DOMAIN calls |-> calls'[c]]
           /\ \A c \in DOMAIN calls :
                 IF calls[c].at = "stop" /\ c \in children[k].waiters
                 THEN calls'[c] = [calls[c] EXCEPT !.at = "stopped"] ELSE calls'[c] = calls[c]
<1>0. Shape /\ Family
  BY DEF OrchestratorInv, ChildInv
<1> DEFINE Drops(again) ==
        Asked(k) \/ IF containers[i].stopping THEN containers[i].name \notin Clustered ELSE ~again
<1>1. PICK again \in BOOLEAN :
          containers' = [containers EXCEPT
             ![i].backoffs = IF ~containers[i].stopping /\ again THEN containers[i].backoffs + 1
                             ELSE containers[i].backoffs,
             ![i].child = IF Drops(again) THEN None ELSE IF ChildOf(i) = k THEN Dead ELSE ChildOf(i)]
  BY DEF Exits, ChildOf
<1> PICK b : b = IF ~containers[i].stopping /\ again THEN containers[i].backoffs + 1 ELSE containers[i].backoffs
  OBVIOUS
<1> PICK x : x = IF Drops(again) THEN None ELSE IF ChildOf(i) = k THEN Dead ELSE ChildOf(i)
  OBVIOUS
<1>2. containers[i].stopping \in BOOLEAN /\ ChildOf(i) \in Int /\ containers[i].backoffs \in Nat
  <2>1. containers[i] \in Container
    BY <1>0 DEF Shape, Ids
  <2> QED
    BY <2>1 DEF Container, ChildOf
<1>3. b \in Nat /\ x \in Int
  BY <1>2 DEF None, Dead
<1>4. containers' = [containers EXCEPT ![i].backoffs = b, ![i].child = x]
  BY <1>1
<1>5. /\ containers' \in Seq(Container) /\ Len(containers') = Len(containers)
      /\ DOMAIN containers' = Ids /\ \A j \in Ids : containers'[j].name = containers[j].name
      /\ \A j \in Ids : j # i => containers'[j] = containers[j]
      /\ containers'[i].stopping = containers[i].stopping
      /\ containers'[i].child = x /\ containers'[i].backoffs = b
  <2>1. /\ containers' \in Seq(Container) /\ Len(containers') = Len(containers)
        /\ DOMAIN containers' = Ids /\ \A j \in Ids : containers'[j].name = containers[j].name
        /\ containers'[i].stopping = containers[i].stopping /\ containers'[i].child = x
        /\ containers'[i].backoffs = b
        /\ \A j \in Ids : j # i => containers'[j] = containers[j]
    <3> PICK y : y = [containers[i] EXCEPT !.backoffs = b, !.child = x]
      OBVIOUS
    <3>1. containers' = [containers EXCEPT ![i] = y]
      BY <1>4
    <3>2. containers[i] \in Container
      BY <1>0 DEF Shape, Ids
    <3>3. /\ y \in Container /\ y.name = containers[i].name /\ y.stopping = containers[i].stopping
          /\ y.child = x /\ y.backoffs = b
      BY <1>3, <3>2 DEF Container
    <3>4. /\ containers' \in Seq(Container) /\ Len(containers') = Len(containers)
          /\ DOMAIN containers' = Ids /\ containers'[i] = y
          /\ \A j \in Ids : containers'[j].name = containers[j].name
          /\ \A j \in Ids : j # i => containers'[j] = containers[j]
      BY <1>0, <3>1, <3>3, ContainerSet, Zenon
    <3> QED
      BY <3>3, <3>4
  <2> QED
    BY <2>1
<1>6. x \in {None, Dead, ChildOf(i)} /\ x # k /\ (Asked(k) => x = None)
  <2>1. k # None /\ k # Dead
    BY <1>0, KidIsLive
  <2> QED
    BY <2>1
<1>7. \/ b = containers[i].backoffs
      \/ /\ ~containers[i].stopping /\ b = containers[i].backoffs + 1
         /\ ~Asked(k) /\ ChildOf(i) = k => x = Dead
  BY <1>1
<1>8. children' = [l \in Kids \ {k} |-> children[l]]
  BY DEF Exits
<1>9. /\ Kids' = Kids \ {k} /\ (\A l \in Kids' : children'[l] = children[l])
      /\ children' \in [Kids \ {k} -> Child]
  BY <1>0, <1>8 DEF Kids, Family
<1>10. calls' = [c \in DOMAIN calls |-> IF calls[c].at = "stop" /\ c \in children[k].waiters
                                       THEN [calls[c] EXCEPT !.at = "stopped"] ELSE calls[c]]
  BY DEF Exits, Woken
<1>11. /\ DOMAIN calls' = DOMAIN calls /\ calls' = [c \in DOMAIN calls |-> calls'[c]]
       /\ \A c \in DOMAIN calls :
                 IF calls[c].at = "stop" /\ c \in children[k].waiters
                 THEN calls'[c] = [calls[c] EXCEPT !.at = "stopped"] ELSE calls'[c] = calls[c]
  BY <1>10
<1> QED
  BY <1>5, <1>6, <1>7, <1>9, <1>11

LEMMA ExitTends ==
    ASSUME OrchestratorInv, NEW k \in Kids, Exits(k), NEW i \in Ids, i = children[k].of
    PROVE  /\ Family' /\ Tended' /\ Waits' /\ Calm
           /\ \A d \in DOMAIN calls : calls'[d] # calls[d] =>
                 /\ calls[d].at = "stop" /\ calls'[d] = [calls[d] EXCEPT !.at = "stopped"]
                 /\ calls[d].todo[1].id = i
                 /\ containers[i].name \notin torn' => ~Runs(i, containers', children')
<1>0. Shape /\ CallsInv /\ Family /\ Tended /\ Waits
  BY DEF OrchestratorInv, ChildInv
<1>1. /\ DOMAIN containers' = Ids /\ \A j \in Ids : containers'[j].name = containers[j].name
      /\ \A j \in Ids : j # i => containers'[j] = containers[j]
      /\ containers'[i].stopping = containers[i].stopping
      /\ containers'[i].child \in {None, Dead, ChildOf(i)} /\ containers'[i].child # k
      /\ Asked(k) => containers'[i].child = None
      /\ \/ containers'[i].backoffs = containers[i].backoffs
         \/ /\ ~containers[i].stopping /\ containers'[i].backoffs = containers[i].backoffs + 1
            /\ ~Asked(k) /\ ChildOf(i) = k => containers'[i].child = Dead
  BY ExitIs
<1>2. /\ Kids' = Kids \ {k} /\ (\A l \in Kids' : children'[l] = children[l])
      /\ children' \in [Kids \ {k} -> Child]
  BY ExitIs
<1>3. /\ DOMAIN calls' = DOMAIN calls
      /\ \A c \in DOMAIN calls :
                 IF calls[c].at = "stop" /\ c \in children[k].waiters
                 THEN calls'[c] = [calls[c] EXCEPT !.at = "stopped"] ELSE calls'[c] = calls[c]
  BY ExitIs
<1>4. torn' = torn /\ phase # "down" /\ phase' = phase
  BY DEF Exits, history
<1>5. \A c \in children[k].waiters : c \in DOMAIN calls /\ AwaitedAt(calls[c], i, {"stop"}) /\ Asked(k)
                                     /\ \A l \in Kids : c \in children[l].waiters => k = l
  BY <1>0, <1>4, KidIsLive DEF Waits, Asked
<1>6. \A d \in DOMAIN calls : calls'[d].todo = calls[d].todo /\
          IF d \in children[k].waiters /\ calls[d].at = "stop" THEN calls'[d].at = "stopped"
          ELSE calls'[d] = calls[d]
  <2> SUFFICES ASSUME NEW d \in DOMAIN calls, d \in children[k].waiters, calls[d].at = "stop",
                      calls'[d] = [calls[d] EXCEPT !.at = "stopped"]
               PROVE  calls'[d].todo = calls[d].todo /\ calls'[d].at = "stopped"
    BY <1>3
  <2>1. calls[d] \in Call
    BY <1>0 DEF CallsInv
  <2> QED
    BY <2>1 DEF Call
<1>7. Family'
  <2>1. Ids' = Ids /\ \A j \in Ids : ChildOf(j)' = containers'[j].child
    BY <1>1 DEF Ids, ChildOf
  <2>2. Child' = Child
    BY <1>3, <2>1 DEF Child
  <2>3. IsFiniteSet(Kids') /\ Kids' \subseteq Nat \ {0} /\ children' \in [Kids' -> Child']
    BY <1>0, <1>2, <2>2, FS_Subset DEF Family
  <2>4. ASSUME NEW j \in Ids
        PROVE  /\ ChildOf(j)' \in {None, Dead} \cup Kids'
               /\ ChildOf(j)' \in Kids' => children'[ChildOf(j)'].of = j
    <3>1. ChildOf(j) \in {None, Dead} \cup Kids /\ (ChildOf(j) \in Kids => children[ChildOf(j)].of = j)
      BY <1>0 DEF Family
    <3>2. CASE j # i
      <4>1. ChildOf(j)' = ChildOf(j) /\ ChildOf(j) # k
        BY <1>1, <2>1, <3>1, <3>2 DEF ChildOf
      <4> QED
        BY <1>2, <3>1, <4>1
    <3>3. CASE j = i
      <4>1. ChildOf(j)' \in {None, Dead, ChildOf(j)} /\ ChildOf(j)' # k
        BY <1>1, <2>1, <3>3
      <4>2. None \notin Kids /\ Dead \notin Kids
        BY <1>0, KidIsLive
      <4> QED
        BY <1>2, <3>1, <4>1, <4>2
    <3> QED
      BY <3>2, <3>3
  <2> QED
    BY <2>1, <2>3, <2>4 DEF Family
<1>8. ASSUME containers[i].name \notin torn
      PROVE  /\ Sole(i)' /\ Attended(i)' /\ (Runs(i, containers, children) \/ Asked(k))
             /\ \A l \in Kids' : children'[l].of # i
             /\ Asked(k) => containers[i].stopping
  <2>1. Sole(i) /\ Attended(i)
    BY <1>0, <1>8 DEF Tended
  <2>2. ChildOf(i) = k /\ (Asked(k) <=> containers[i].stopping) /\ k # None /\ k # Dead
    BY <1>0, <2>1, KidIsLive DEF Sole
  <2>3. \A l \in Kids' : children'[l].of # i
    BY <1>2, <2>1, <2>2 DEF Sole
  <2>4. containers[i].backoffs = 0
    BY <2>1, <2>2 DEF Sole
  <2>5. Sole(i)'
    <3>1. containers'[i].backoffs # 0 => containers'[i].child = Dead /\ containers'[i].backoffs = 1
      BY <1>1, <2>2, <2>4
    <3> QED
      BY <2>3, <3>1 DEF Sole, ChildOf
  <2>6. \A c \in DOMAIN calls : ~AwaitedAt(calls'[c], i, {"stop"})
    <3> SUFFICES ASSUME NEW c \in DOMAIN calls, AwaitedAt(calls'[c], i, {"stop"})
                 PROVE  FALSE
      OBVIOUS
    <3>1. calls'[c] = calls[c]
      BY <1>6 DEF AwaitedAt
    <3>2. c \in children[k].waiters
      BY <2>1, <3>1 DEF Attended
    <3> QED
      BY <1>3, <1>5, <1>6, <3>1, <3>2 DEF AwaitedAt
  <2>7. \A c \in DOMAIN calls : Restarts(calls'[c], i) => Restarts(calls[c], i)
    BY <1>6 DEF Restarts, Stopping
  <2>8. ASSUME NEW c \in DOMAIN calls, calls'[c].at = "stopped", Restarts(calls'[c], i)
        PROVE  ~Held(i)'
    <3>1. calls'[c] # calls[c]
      BY <2>1, <2>2, <2>8 DEF Attended, Held
    <3>2. Asked(k)
      BY <1>5, <1>6, <3>1
    <3> QED
      BY <1>1, <3>2 DEF Held, ChildOf
  <2>9. Attended(i)'
    BY <1>3, <2>1, <2>6, <2>7, <2>8 DEF Attended
  <2>10. Runs(i, containers, children) \/ Asked(k)
    BY DEF Runs, Asked, Kids
  <2> QED
    BY <2>2, <2>3, <2>5, <2>9, <2>10
<1>9. ASSUME NEW j \in Ids, j # i, containers[j].name \notin torn
      PROVE  Sole(j)' /\ Attended(j)'
  <2>1. Sole(j) /\ Attended(j)
    BY <1>0, <1>9 DEF Tended
  <2>2. \A l \in DOMAIN children' : KidSame(l)
    BY <1>2 DEF KidSame, Kids
  <2>3. \A d \in DOMAIN calls' : Aside(d, j)
    <3> SUFFICES ASSUME NEW d \in DOMAIN calls, calls'[d] # calls[d]
                 PROVE  ~AwaitedAt(calls'[d], j, {"stop"}) /\ ~Restarts(calls'[d], j)
      BY <1>3 DEF Aside
    <3>1. calls'[d].todo[1].id = i
      BY <1>5, <1>6 DEF AwaitedAt
    <3> QED
      BY <1>9, <3>1 DEF AwaitedAt, Restarts
  <2> QED
    BY <1>1, <1>9, <2>1, <2>2, <2>3, TendedAt
<1>10. Tended'
  BY <1>1, <1>4, <1>8, <1>9 DEF Tended, Ids
<1>11. Waits'
  <2> SUFFICES ASSUME NEW l \in Kids', NEW c \in children'[l].waiters
               PROVE  /\ AwaitedAt(calls'[c], children'[l].of, {"stop"})
                      /\ \A m \in Kids' : c \in children'[m].waiters => l = m
    BY DEF Waits
  <2>1. l \in Kids /\ l # k /\ children'[l] = children[l]
    BY <1>2
  <2>2. /\ AwaitedAt(calls[c], children[l].of, {"stop"})
        /\ \A m \in Kids : c \in children[m].waiters => l = m
    BY <1>0, <1>4, <2>1 DEF Waits
  <2>3. c \in DOMAIN calls /\ c \notin children[k].waiters
    BY <1>0, <2>1, <2>2, KidIsLive
  <2> QED
    BY <1>2, <1>3, <2>1, <2>2, <2>3
<1>12. Calm
  <2> SUFFICES ASSUME NEW j \in Ids, Runs(j, containers', children'), containers[j].name \notin torn
               PROVE  Runs(j, containers, children)
    BY <1>1, <1>4 DEF Calm
  <2>1. CASE j # i
    BY <1>1, <1>2, <2>1 DEF Runs, Kids
  <2>2. CASE j = i
    <3>1. ~containers'[i].stopping
      BY <1>8, <2>2 DEF Runs, Kids
    <3> QED
      BY <1>1, <1>8, <2>2, <3>1
  <2> QED
    BY <2>1, <2>2
<1>13. ASSUME NEW d \in DOMAIN calls, calls'[d] # calls[d]
       PROVE  /\ calls[d].at = "stop" /\ calls'[d] = [calls[d] EXCEPT !.at = "stopped"]
              /\ calls[d].todo[1].id = i
              /\ containers[i].name \notin torn' => ~Runs(i, containers', children')
  <2>1. d \in children[k].waiters /\ calls[d].at = "stop" /\ calls'[d] = [calls[d] EXCEPT !.at = "stopped"]
    BY <1>3, <1>13
  <2>2. calls[d].todo[1].id = i /\ Asked(k)
    BY <1>5, <2>1 DEF AwaitedAt
  <2>3. containers[i].name \notin torn' => ~Runs(i, containers', children')
    BY <1>1, <1>4, <1>8, <2>2 DEF Runs, Kids
  <2> QED
    BY <2>1, <2>2, <2>3
<1> QED
  BY <1>7, <1>10, <1>11, <1>12, <1>13

LEMMA ExitsKeeps ==
    ASSUME OrchestratorInv, NEW k \in Kids, Exits(k)
    PROVE  OrchestratorInv'
<1>0. Shape /\ CallsInv /\ Family
  BY DEF OrchestratorInv, ChildInv
<1> PICK i \in Ids : i = children[k].of
  BY <1>0, KidIsLive
<1>1. /\ Family' /\ Tended' /\ Waits' /\ Calm
      /\ \A d \in DOMAIN calls : calls'[d] # calls[d] =>
            /\ calls[d].at = "stop" /\ calls'[d] = [calls[d] EXCEPT !.at = "stopped"]
            /\ calls[d].todo[1].id = i
            /\ containers[i].name \notin torn' => ~Runs(i, containers', children')
  BY ExitTends
<1>2. ASSUME NEW d \in DOMAIN calls, calls'[d] # calls[d]
      PROVE  Wakes(calls[d], calls'[d], i) /\ calls'[d] \in Call
  <2>1. /\ calls[d].at = "stop" /\ calls'[d] = [calls[d] EXCEPT !.at = "stopped"]
        /\ calls[d].todo[1].id = i
        /\ containers[i].name \notin torn' => ~Runs(i, containers', children')
    BY <1>1, <1>2
  <2>2. /\ [calls[d] EXCEPT !.at = "stopped"] = Moved(calls[d], "stopped")
        /\ Moved(calls[d], "stopped") \in Call /\ Wakes(calls[d], Moved(calls[d], "stopped"), i)
    BY <2>1, StopIsOver, Zenon
  <2> QED
    BY <2>1, <2>2, Zenon
<1>3. /\ containers' \in Seq(Container) /\ Len(containers') = Len(containers)
      /\ DOMAIN calls' = DOMAIN calls /\ calls' = [c \in DOMAIN calls |-> calls'[c]]
  BY ExitIs
<1>4. calls' \in Seq(Call)
  <2>1. \A d \in DOMAIN calls : calls'[d] \in Call
    BY <1>0, <1>2 DEF CallsInv
  <2> QED
    BY <1>0, <1>3, <2>1, CallsMapped DEF CallsInv
<1>5. UNCHANGED <<registry, reloading, jobs, phase, raced, slow, torn, stray, late>>
  BY DEF Exits, history
<1>6. setbacks' \in 0..MaxSetbacks
  BY <1>0, OrchestratorAssumption DEF Exits, Shape
<1>7. torn \subseteq torn' /\ torn' \subseteq Names
  BY <1>0, <1>5 DEF Shape
<1> QED
  BY <1>1, <1>2, <1>3, <1>4, <1>5, <1>6, <1>7, ChildKeeps

\* What a kill timer changes.
LEMMA KillTimerIs ==
    ASSUME OrchestratorInv, NEW c \in DOMAIN calls, KillTimer(c)
    PROVE  /\ phase # "down" /\ calls[c].at = "stop" /\ Moves(c, Moved(calls[c], "stopped"))
           /\ Head1(c) = calls[c].todo[1] /\ calls[c].todo[1].id \in Ids
           /\ containers[calls[c].todo[1].id].name = calls[c].todo[1].name
           /\ torn \subseteq torn' /\ torn' \subseteq Names
           /\ calls[c].todo[1].op \in {"restart", "reload"} => calls[c].todo[1].name \in torn'
           /\ Kids' = Kids /\ children' \in [Kids -> Child]
           /\ \A k \in Kids : /\ children'[k].of = children[k].of
                              /\ children'[k].waiters = children[k].waiters \ {c}
                              /\ children'[k].state = IF c \in children[k].waiters THEN "killed"
                                                      ELSE children[k].state
<1> PICK r : r = calls[c]
  OBVIOUS
<1>0. Shape /\ CallsInv /\ Family /\ Closings
  BY DEF OrchestratorInv, ChildInv
<1>1. r.at = "stop" /\ Wait(c, "stopped")
  BY DEF KillTimer
<1>2. phase # "down"
  BY <1>0, <1>1 DEF Closings, Pending
<1>3. Moves(c, Moved(r, "stopped"))
  BY <1>0, <1>1, WaitMoves DEF CallsInv
<1>4. PlaceInv(r)
  BY <1>0 DEF CallsInv, CallInv
<1>5. r.todo # <<>> /\ r.todo[1].id # 0
  BY <1>1, <1>4 DEF PlaceInv
<1>6. Head1(c) = r.todo[1] /\ Head1(c) \in Steps /\ StepInv(r, Head1(c), containers)
  BY <1>0, <1>5, Going
<1>7. r.todo[1].id \in Ids /\ containers[r.todo[1].id].name = r.todo[1].name /\ r.todo[1].name \in Names
  BY <1>5, <1>6, StepFields DEF StepInv, Ids
<1>8. torn' = IF r.todo[1].op \in {"restart", "reload"} THEN torn \cup {r.todo[1].name} ELSE torn
  BY <1>6 DEF KillTimer
<1>9. torn \subseteq torn' /\ torn' \subseteq Names
      /\ (r.todo[1].op \in {"restart", "reload"} => r.todo[1].name \in torn')
  BY <1>0, <1>7, <1>8 DEF Shape
<1> DEFINE Killed(k) == [children[k] EXCEPT !.waiters = @ \ {c}, !.state = "killed"]
<1>10. children' = [k \in Kids |-> IF c \in children[k].waiters THEN Killed(k) ELSE children[k]]
  BY DEF KillTimer
<1>11. ASSUME NEW k \in Kids
       PROVE  /\ children'[k] \in Child /\ children'[k].of = children[k].of
              /\ children'[k].waiters = children[k].waiters \ {c}
              /\ children'[k].state = IF c \in children[k].waiters THEN "killed" ELSE children[k].state
  <2>1. children[k] \in Child
    BY <1>0 DEF Family
  <2>2. CASE c \in children[k].waiters
    <3> PICK x : x = Killed(k)
      OBVIOUS
    <3>1. x \in Child /\ x.of = children[k].of /\ x.waiters = children[k].waiters \ {c} /\ x.state = "killed"
      BY <2>1 DEF Child
    <3>2. children'[k] = x
      BY <1>10, <2>2
    <3> QED
      BY <2>2, <3>1, <3>2
  <2>3. CASE c \notin children[k].waiters
    <3>1. children'[k] = children[k]
      BY <1>10, <2>3
    <3> QED
      BY <2>1, <2>3, <3>1
  <2> QED
    BY <2>2, <2>3
<1>12. Kids' = Kids /\ children' \in [Kids -> Child]
  <2>1. DOMAIN children' = Kids /\ children' = [k \in Kids |-> children'[k]]
    BY <1>10
  <2> QED
    BY <1>11, <2>1 DEF Kids
<1> QED
  BY <1>1, <1>2, <1>3, <1>6, <1>7, <1>9, <1>11, <1>12

LEMMA KillTends ==
    ASSUME OrchestratorInv, NEW c \in DOMAIN calls, KillTimer(c), NEW i \in Ids, i = calls[c].todo[1].id
    PROVE  /\ Family' /\ Tended' /\ Waits' /\ Calm
           /\ containers[i].name \notin torn' => ~Runs(i, containers', children')
<1> PICK q : q = Moved(calls[c], "stopped")
  OBVIOUS
<1>0. Shape /\ CallsInv /\ Family /\ Tended /\ Waits
  BY DEF OrchestratorInv, ChildInv
<1>1. /\ phase # "down" /\ calls[c].at = "stop" /\ Moves(c, q)
      /\ containers[i].name = calls[c].todo[1].name /\ torn \subseteq torn'
      /\ calls[c].todo[1].op \in {"restart", "reload"} => calls[c].todo[1].name \in torn'
  BY KillTimerIs
<1>2. /\ Kids' = Kids /\ children' \in [Kids -> Child]
      /\ \A k \in Kids : /\ children'[k].of = children[k].of
                         /\ children'[k].waiters = children[k].waiters \ {c}
                         /\ children'[k].state = IF c \in children[k].waiters THEN "killed"
                                                 ELSE children[k].state
  BY KillTimerIs
<1>3. q.at = "stopped" /\ q.todo = calls[c].todo /\ calls[c].todo # <<>>
  BY <1>0, <1>1 DEF Moved, CallsInv, CallInv, PlaceInv
<1>4. DOMAIN calls' = DOMAIN calls /\ calls'[c] = q /\ \A d \in DOMAIN calls : d # c => calls'[d] = calls[d]
  BY <1>0, <1>1 DEF Moves, CallsInv
<1>5. UNCHANGED <<containers, phase>>
  BY DEF KillTimer
<1>6. Ids' = Ids /\ (\A j \in Ids : ChildOf(j)' = ChildOf(j)) /\ Child' = Child
  BY <1>4, <1>5 DEF Ids, ChildOf, Child
<1>7. Family'
  <2>1. children' \in [Kids' -> Child']
    BY <1>2, <1>6
  <2> QED
    BY <1>0, <1>2, <1>6, <2>1 DEF Family
<1>8. AwaitedAt(calls[c], i, {"stop"})
  BY <1>1, <1>3 DEF AwaitedAt
<1>9. ASSUME containers[i].name \notin torn'
      PROVE  Sole(i)' /\ Attended(i)' /\ ~Runs(i, containers', children')
  <2>1. Sole(i) /\ Attended(i)
    BY <1>0, <1>1, <1>9 DEF Tended
  <2>2. containers[i].stopping /\ Held(i) /\ \A k \in Kids : children[k].of = i => c \in children[k].waiters
    BY <1>8, <2>1 DEF Attended
  <2>3. \A k \in Kids : children[k].of = i => children'[k].state = "killed" /\ Asked(k)
    BY <1>2, <2>2 DEF Asked
  <2>4. Sole(i)'
    BY <1>2, <1>5, <1>6, <2>1, <2>2, <2>3 DEF Sole, Asked
  <2>5. ~Restarts(calls[c], i)
    BY <1>1, <1>9 DEF Restarts
  <2>6. \A d \in DOMAIN calls : Restarts(calls'[d], i) => d # c
    BY <1>3, <1>4, <1>1, <1>9 DEF Restarts
  <2>7. ASSUME NEW d \in DOMAIN calls, AwaitedAt(calls'[d], i, {"stop"})
        PROVE  containers[i].stopping /\ Held(i) /\ \A k \in Kids : children[k].of = i => d \in children'[k].waiters
    <3>1. d # c
      BY <1>3, <1>4, <2>7 DEF AwaitedAt
    <3> QED
      BY <1>2, <1>4, <2>1, <2>7, <3>1 DEF Attended
  <2>8. Attended(i)'
    BY <1>2, <1>4, <1>5, <1>6, <2>1, <2>6, <2>7 DEF Attended, Held
  <2>9. ~Runs(i, containers', children')
    BY <1>2, <1>5, <2>2, <2>3 DEF Runs, Kids
  <2> QED
    BY <2>4, <2>8, <2>9
<1>10. ASSUME NEW j \in Ids, j # i, containers[j].name \notin torn'
       PROVE  Sole(j)' /\ Attended(j)'
  <2>1. Sole(j) /\ Attended(j)
    BY <1>0, <1>1, <1>10 DEF Tended
  <2>2. ASSUME NEW k \in Kids, children[k].of = j
        PROVE  KidSame(k)
    <3>1. c \notin children[k].waiters
      BY <1>0, <1>1, <1>10, <2>2 DEF Waits, AwaitedAt
    <3> QED
      BY <1>2, <3>1 DEF KidSame
  <2>3. \A d \in DOMAIN calls' : Aside(d, j)
    BY <1>3, <1>4, <1>10 DEF Aside, AwaitedAt, Restarts
  <2>4. \A k \in DOMAIN children' : children'[k].of = j => KidSame(k)
    BY <1>2, <2>2 DEF Kids
  <2> QED
    BY <1>5, <2>1, <2>3, <2>4, TendedAt
<1>11. Tended'
  BY <1>5, <1>6, <1>9, <1>10 DEF Tended
<1>12. Waits'
  <2> SUFFICES ASSUME NEW k \in Kids, NEW d \in children'[k].waiters
               PROVE  /\ AwaitedAt(calls'[d], children'[k].of, {"stop"})
                      /\ \A l \in Kids : d \in children'[l].waiters => k = l
    BY <1>2 DEF Waits
  <2>1. d \in children[k].waiters /\ d # c /\ d \in DOMAIN calls
    BY <1>0, <1>2, KidIsLive
  <2> QED
    BY <1>0, <1>1, <1>2, <1>4, <2>1 DEF Waits
<1>13. Calm
  BY <1>2, <1>5 DEF Calm, Runs, Kids, Ids
<1> QED
  BY <1>7, <1>9, <1>11, <1>12, <1>13

LEMMA KillTimerKeeps ==
    ASSUME OrchestratorInv, NEW c \in DOMAIN calls, KillTimer(c)
    PROVE  OrchestratorInv'
<1>0. Shape /\ CallsInv
  BY DEF OrchestratorInv
<1>1. /\ calls[c].at = "stop" /\ Moves(c, Moved(calls[c], "stopped")) /\ calls[c].todo[1].id \in Ids
      /\ torn \subseteq torn' /\ torn' \subseteq Names
  BY KillTimerIs
<1> PICK i \in Ids : i = calls[c].todo[1].id
  BY <1>1
<1>2. /\ Family' /\ Tended' /\ Waits' /\ Calm
      /\ containers[i].name \notin torn' => ~Runs(i, containers', children')
  BY KillTends
<1>3. Moved(calls[c], "stopped") \in Call /\ Wakes(calls[c], Moved(calls[c], "stopped"), i)
  BY <1>1, <1>2, StopIsOver
<1>4. /\ calls' \in Seq(Call) /\ DOMAIN calls' = DOMAIN calls /\ calls'[c] = Moved(calls[c], "stopped")
      /\ \A d \in DOMAIN calls : d # c => calls'[d] = calls[d]
  BY <1>0, <1>1, <1>3, OneMoves DEF CallsInv
<1>5. UNCHANGED <<containers, registry, reloading, jobs, phase, raced, slow, stray, late>>
  BY DEF KillTimer
<1>6. setbacks' \in 0..MaxSetbacks
  <2>1. /\ Ignored(c) => setbacks < MaxSetbacks
        /\ setbacks' = IF Ignored(c) THEN setbacks + 1 ELSE setbacks
    BY DEF KillTimer
  <2> QED
    BY <1>0, <2>1, OrchestratorAssumption DEF Shape
<1>7. containers' \in Seq(Container) /\ Len(containers') = Len(containers)
  BY <1>0, <1>5 DEF Shape
<1>8. \A d \in DOMAIN calls : calls'[d] = calls[d] \/ Wakes(calls[d], calls'[d], i)
  BY <1>3, <1>4
<1> QED
  BY <1>1, <1>2, <1>4, <1>5, <1>6, <1>7, <1>8, ChildKeeps

LEMMA BackoffTends ==
    ASSUME OrchestratorInv, NEW i \in Ids, BackoffEnds(i)
    PROVE  /\ containers' \in Seq(Container) /\ Len(containers') = Len(containers)
           /\ Family' /\ Tended' /\ Waits' /\ Calm
<1>0. Shape /\ Family /\ Tended /\ Waits
  BY DEF OrchestratorInv, ChildInv
<1> PICK st, b, ch : st = containers[i].stopping /\ b = containers[i].backoffs - 1
                     /\ ch = IF st THEN ChildOf(i) ELSE NewChild
  OBVIOUS
<1>1. /\ containers[i].backoffs \in Nat /\ containers[i].backoffs > 0 /\ containers[i] \in Container
      /\ UNCHANGED <<registry, reloading, jobs, calls, phase, setbacks, history>> /\ phase # "down"
  <2>1. /\ containers[i].backoffs > 0 /\ phase # "down"
        /\ UNCHANGED <<registry, reloading, jobs, calls, phase, setbacks, history>>
    BY DEF BackoffEnds
  <2>2. containers[i] \in Container
    BY <1>0 DEF Shape, Ids
  <2> QED
    BY <2>1, <2>2 DEF Container
<1>2. NewChild \in Int /\ NewChild \notin Kids /\ NewChild # None /\ NewChild # Dead
  BY <1>0, NewChildIs
<1>3. /\ containers' \in Seq(Container) /\ Len(containers') = Len(containers)
      /\ DOMAIN containers' = Ids /\ (\A j \in Ids : containers'[j].name = containers[j].name)
      /\ (\A j \in Ids : j # i => containers'[j] = containers[j])
      /\ containers'[i].stopping = st /\ containers'[i].child = ch /\ containers'[i].backoffs = b
  <2>1. b \in Nat /\ ch \in Int
    BY <1>1, <1>2 DEF Container, ChildOf
  <2>2. PICK y \in Container : /\ containers' = [containers EXCEPT ![i] = y]
                               /\ y.name = containers[i].name /\ y.stopping = st /\ y.child = ch /\ y.backoffs = b
    <3>1. CASE st
      <4> PICK z : z = [containers[i] EXCEPT !.backoffs = b]
        OBVIOUS
      <4>1. containers' = [containers EXCEPT ![i].backoffs = containers[i].backoffs - 1]
        BY <3>1, Zenon DEF BackoffEnds
      <4>2. containers' = [containers EXCEPT ![i] = z]
        BY <4>1
      <4>3. /\ z \in Container /\ z.name = containers[i].name /\ z.stopping = st /\ z.child = ch
            /\ z.backoffs = b
        BY <1>1, <2>1, <3>1 DEF Container, ChildOf
      <4> QED
        BY <4>2, <4>3
    <3>2. CASE ~st
      <4> PICK z : z = [containers[i] EXCEPT !.backoffs = b, !.child = ch]
        OBVIOUS
      <4>1. containers' = [containers EXCEPT ![i].backoffs = containers[i].backoffs - 1, ![i].child = NewChild]
        BY <3>2, Zenon DEF BackoffEnds
      <4>2. containers' = [containers EXCEPT ![i] = z]
        BY <3>2, <4>1
      <4>3. /\ z \in Container /\ z.name = containers[i].name /\ z.stopping = st /\ z.child = ch
            /\ z.backoffs = b
        BY <1>1, <2>1, <3>2 DEF Container
      <4> QED
        BY <4>2, <4>3
    <3> QED
      BY <3>1, <3>2
  <2>4. /\ containers' \in Seq(Container) /\ Len(containers') = Len(containers)
        /\ DOMAIN containers' = Ids /\ containers'[i] = y
        /\ \A j \in Ids : containers'[j].name = containers[j].name
        /\ \A j \in Ids : j # i => containers'[j] = containers[j]
    BY <1>0, <2>2, ContainerSet, Zenon
  <2> QED
    BY <2>2, <2>4
<1>4. Ids' = Ids /\ (\A j \in Ids : ChildOf(j)' = containers'[j].child) /\ torn' = torn
      /\ calls' = calls /\ DOMAIN calls' = DOMAIN calls
  BY <1>1, <1>3 DEF Ids, ChildOf, history
<1>5. /\ Kids \subseteq Kids' /\ Family' /\ (\A k \in Kids : children'[k] = children[k])
      /\ \A k \in Kids' : k \in Kids \/ (k = ch /\ ~st /\ children'[k].of = i /\ children'[k].waiters = {}
                                        /\ children'[k].state # "killed")
      /\ st => Kids' = Kids
  <2>1. CASE st
    <3>1. UNCHANGED children
      BY <2>1 DEF BackoffEnds
    <3>2. \A j \in Ids : ChildOf(j)' = ChildOf(j)
      BY <1>3, <1>4, <2>1 DEF ChildOf
    <3>3. Child' = Child /\ Kids' = Kids
      BY <1>4, <3>1 DEF Child, Kids
    <3>4. Family'
      BY <1>0, <1>4, <3>1, <3>2, <3>3 DEF Family
    <3> QED
      BY <2>1, <3>1, <3>3, <3>4
  <2>2. CASE ~st
    <3>1. Forks(i, containers[i].name)
      BY <2>2 DEF BackoffEnds
    <3>2. containers'[i].child = NewChild /\ \A j \in Ids : j # i => containers'[j].child = containers[j].child
      BY <1>3, <2>2
    <3>3. i \in Ids' /\ Ids' = Ids \cup {i} /\ DOMAIN calls' = DOMAIN calls
      BY <1>4
    <3>4. /\ Kids' = Kids \cup {NewChild} /\ Family'
          /\ \A k \in Kids : children'[k] = children[k]
          /\ children'[NewChild].of = i /\ children'[NewChild].waiters = {}
          /\ children'[NewChild].state \in {"launching", "live"}
      BY <1>0, <3>1, <3>2, <3>3, ForkIs
    <3> QED
      BY <1>2, <2>2, <3>4
  <2> QED
    BY <2>1, <2>2
<1>6. ASSUME containers[i].name \notin torn
      PROVE  Sole(i)' /\ Attended(i)'
  <2>1. Sole(i) /\ Attended(i)
    BY <1>0, <1>6 DEF Tended
  <2>2. ChildOf(i) = Dead /\ b = 0 /\ None # Dead
    BY <1>1, <2>1 DEF Sole, None, Dead
  <2>3. \A k \in Kids : children[k].of # i
    BY <1>0, <2>1, <2>2, KidIsLive DEF Sole
  <2>4. Sole(i)'
    BY <1>3, <1>4, <1>5, <2>2, <2>3 DEF Sole, Asked
  <2>5. \A c \in DOMAIN calls : ~(calls[c].at = "stopped" /\ Restarts(calls[c], i))
    BY <2>1, <2>2 DEF Attended, Held
  <2>6. \A c \in DOMAIN calls : AwaitedAt(calls[c], i, {"stop"}) =>
            /\ st /\ containers'[i].stopping /\ Held(i)'
            /\ \A k \in Kids' : children'[k].of = i => c \in children'[k].waiters
    BY <1>3, <1>4, <1>5, <2>1, <2>2, <2>3 DEF Attended, Held
  <2>7. Attended(i)'
    BY <1>4, <2>1, <2>5, <2>6 DEF Attended
  <2> QED
    BY <2>4, <2>7
<1>7. ASSUME NEW j \in Ids, j # i, containers[j].name \notin torn
      PROVE  Sole(j)' /\ Attended(j)'
  <2>1. Sole(j) /\ Attended(j)
    BY <1>0, <1>7 DEF Tended
  <2>2. \A k \in DOMAIN children' : children'[k].of = j => KidSame(k)
    BY <1>5, <1>7 DEF KidSame, Kids
  <2>3. \A d \in DOMAIN calls' : Aside(d, j)
    BY <1>4 DEF Aside
  <2> QED
    BY <1>3, <1>7, <2>1, <2>2, <2>3, TendedAt
<1>8. Tended'
  BY <1>3, <1>4, <1>6, <1>7 DEF Tended
<1>9. Waits'
  <2> SUFFICES ASSUME NEW k \in Kids', NEW d \in children'[k].waiters
               PROVE  /\ AwaitedAt(calls'[d], children'[k].of, {"stop"})
                      /\ \A l \in Kids' : d \in children'[l].waiters => k = l
    BY DEF Waits
  <2>1. k \in Kids /\ d \in children[k].waiters /\ children'[k] = children[k]
    BY <1>5
  <2>2. \A l \in Kids' : d \in children'[l].waiters => l \in Kids /\ d \in children[l].waiters
    BY <1>5
  <2> QED
    BY <1>0, <1>1, <1>4, <2>1, <2>2 DEF Waits
<1>10. Calm
  <2> SUFFICES ASSUME NEW j \in Ids, Runs(j, containers', children')
               PROVE  Runs(j, containers, children)
    BY <1>3 DEF Calm
  <2>1. CASE j # i
    BY <1>3, <1>5, <2>1 DEF Runs, Kids
  <2>2. CASE j = i /\ st
    BY <1>3, <1>5, <2>2 DEF Runs, Kids
  <2>3. CASE j = i /\ ~st
    BY <1>1, <2>3 DEF Runs
  <2> QED
    BY <2>1, <2>2, <2>3
<1> QED
  BY <1>3, <1>5, <1>8, <1>9, <1>10

LEMMA BackoffEndsKeeps ==
    ASSUME OrchestratorInv, NEW i \in Ids, BackoffEnds(i)
    PROVE  OrchestratorInv'
<1>0. Shape /\ CallsInv
  BY DEF OrchestratorInv
<1>1. /\ containers' \in Seq(Container) /\ Len(containers') = Len(containers)
      /\ Family' /\ Tended' /\ Waits' /\ Calm
  BY BackoffTends
<1>2. /\ UNCHANGED <<registry, reloading, jobs, phase, raced, slow, torn, stray, late, setbacks>>
      /\ calls' = calls
  BY DEF BackoffEnds, history
<1>3. /\ calls' \in Seq(Call) /\ DOMAIN calls' = DOMAIN calls /\ setbacks' \in 0..MaxSetbacks
      /\ torn \subseteq torn' /\ torn' \subseteq Names
  BY <1>0, <1>2 DEF CallsInv, Shape
<1> QED
  BY <1>1, <1>2, <1>3, ChildKeeps

\* No stop ends when a primary is ready.
LEMMA ReadyTends ==
    ASSUME OrchestratorInv, NEW k \in Kids, PrimaryReady(k)
    PROVE  /\ Family' /\ Tended' /\ Waits' /\ Calm
           /\ UNCHANGED <<containers, registry, reloading, jobs, phase, setbacks, history>>
           /\ DOMAIN calls' = DOMAIN calls /\ calls' = [c \in DOMAIN calls |-> calls'[c]]
           /\ \A c \in DOMAIN calls : calls'[c] # calls[c] =>
                 calls[c].at = "ready" /\ calls'[c] = [calls[c] EXCEPT !.at = "go", !.todo = Tail(calls[c].todo)]
<1>0. Shape /\ CallsInv /\ Family /\ Tended /\ Waits
  BY DEF OrchestratorInv, ChildInv
<1>1. /\ UNCHANGED <<containers, registry, reloading, jobs, phase, setbacks, history>>
      /\ phase # "down" /\ children[k].state = "launching"
  BY DEF PrimaryReady
<1>2. children' = [children EXCEPT ![k].state = "live"]
  BY DEF PrimaryReady
<1>3. /\ Kids' = Kids /\ children' \in [Kids -> Child]
      /\ \A l \in Kids : /\ children'[l].of = children[l].of /\ children'[l].waiters = children[l].waiters
                         /\ children'[l].state = "killed" <=> children[l].state = "killed"
  <2> PICK x : x = [children[k] EXCEPT !.state = "live"]
    OBVIOUS
  <2>1. children' = [children EXCEPT ![k] = x]
    BY <1>2
  <2>2. children[k] \in Child
    BY <1>0 DEF Family
  <2>3. x \in Child /\ x.of = children[k].of /\ x.waiters = children[k].waiters /\ x.state = "live"
    BY <2>2 DEF Child
  <2>4. /\ Kids' = Kids /\ children' \in [Kids -> Child] /\ children'[k] = x
        /\ \A l \in Kids : l # k => children'[l] = children[l]
    BY <1>0, <2>1, <2>3 DEF Family, Kids
  <2> QED
    BY <1>1, <2>3, <2>4
<1>4. calls' = [c \in DOMAIN calls |->
          IF calls[c].at = "ready" /\ c \in {d \in DOMAIN calls : calls[d].at = "ready" /\ Head1(d).id = children[k].of}
          THEN [calls[c] EXCEPT !.at = "go", !.todo = Tail(calls[c].todo)] ELSE calls[c]]
  BY DEF PrimaryReady, Woken
<1>5. /\ DOMAIN calls' = DOMAIN calls /\ calls' = [c \in DOMAIN calls |-> calls'[c]]
      /\ \A c \in DOMAIN calls : calls'[c] # calls[c] =>
             calls[c].at = "ready" /\ calls'[c] = [calls[c] EXCEPT !.at = "go", !.todo = Tail(calls[c].todo)]
  BY <1>4
<1>6. \A c \in DOMAIN calls : calls'[c] # calls[c] => calls[c].at = "ready" /\ calls'[c].at = "go"
  <2> SUFFICES ASSUME NEW c \in DOMAIN calls, calls'[c] # calls[c]
               PROVE  calls[c].at = "ready" /\ calls'[c].at = "go"
    OBVIOUS
  <2>1. calls[c] \in Call
    BY <1>0 DEF CallsInv
  <2>2. calls'[c] = [kind |-> calls[c].kind, todo |-> Tail(calls[c].todo), at |-> "go", names |-> calls[c].names]
    <3>1. [calls[c] EXCEPT !.at = "go", !.todo = Tail(calls[c].todo)]
          = [kind |-> calls[c].kind, todo |-> Tail(calls[c].todo), at |-> "go", names |-> calls[c].names]
      BY <2>1, CallSet, ZenonT(60)
    <3> QED
      BY <1>5, <3>1
  <2> QED
    BY <1>5, <2>2
<1>7. Ids' = Ids /\ (\A j \in Ids : ChildOf(j)' = ChildOf(j)) /\ Child' = Child /\ torn' = torn
  BY <1>1, <1>5 DEF Ids, ChildOf, Child, history
<1>8. Family'
  BY <1>0, <1>3, <1>7 DEF Family
<1>9. Tended'
  <2> SUFFICES ASSUME NEW j \in Ids, containers[j].name \notin torn
               PROVE  Sole(j)' /\ Attended(j)'
    BY <1>1, <1>7 DEF Tended
  <2>1. Sole(j) /\ Attended(j)
    BY <1>0 DEF Tended
  <2>2. \A l \in DOMAIN children' : children'[l].of = j => KidSame(l)
    BY <1>3 DEF KidSame, Kids
  <2>3. \A d \in DOMAIN calls' : Aside(d, j)
    BY <1>5, <1>6 DEF Aside, AwaitedAt, Restarts, Stopping
  <2> QED
    BY <1>1, <2>1, <2>2, <2>3, TendedAt
<1>10. Waits'
  <2> SUFFICES ASSUME NEW l \in Kids, NEW d \in children[l].waiters
               PROVE  /\ AwaitedAt(calls'[d], children[l].of, {"stop"})
                      /\ \A m \in Kids : d \in children[m].waiters => l = m
    BY <1>3 DEF Waits
  <2>1. /\ AwaitedAt(calls[d], children[l].of, {"stop"}) /\ d \in DOMAIN calls
        /\ \A m \in Kids : d \in children[m].waiters => l = m
    BY <1>0, <1>1, KidIsLive DEF Waits
  <2> QED
    BY <1>6, <2>1 DEF AwaitedAt
<1>11. Calm
  BY <1>1, <1>3, <1>7 DEF Calm, Runs, Kids, Ids
<1> QED
  BY <1>1, <1>5, <1>8, <1>9, <1>10, <1>11

LEMMA PrimaryReadyKeeps ==
    ASSUME OrchestratorInv, NEW k \in Kids, PrimaryReady(k)
    PROVE  OrchestratorInv'
<1>0. Shape /\ CallsInv
  BY DEF OrchestratorInv
<1>1. /\ Family' /\ Tended' /\ Waits' /\ Calm
      /\ UNCHANGED <<containers, registry, reloading, jobs, phase, setbacks, history>>
      /\ DOMAIN calls' = DOMAIN calls /\ calls' = [c \in DOMAIN calls |-> calls'[c]]
      /\ \A c \in DOMAIN calls : calls'[c] # calls[c] =>
            calls[c].at = "ready" /\ calls'[c] = [calls[c] EXCEPT !.at = "go", !.todo = Tail(calls[c].todo)]
  BY ReadyTends
<1>6. ASSUME NEW d \in DOMAIN calls, calls'[d] # calls[d]
      PROVE  Wakes(calls[d], calls'[d], children[k].of) /\ calls'[d] \in Call
  <2>1. PICK r : r = calls[d]
    OBVIOUS
  <2>2. PICK q : q = Skipped(r)
    OBVIOUS
  <2>3. r.at = "ready" /\ calls'[d] = [r EXCEPT !.at = "go", !.todo = Tail(r.todo)]
    BY <1>1, <1>6, <2>1
  <2>4. r \in Call /\ CallInv(r, containers) /\ PlaceInv(r)
    BY <1>0, <2>1 DEF CallsInv, CallInv
  <2>5. r.todo # <<>> /\ r.todo[1].op \in {"up", "restart"}
    BY <2>3, <2>4 DEF PlaceInv
  <2>6. calls'[d] = q
    BY <2>2, <2>3, <2>4, CallSet, ZenonT(60) DEF Skipped
  <2>7. CallInv(q, containers)
    BY <2>2, <2>4, <2>5, SkippedInv
  <2>8. ~Reloads(r)
    BY <2>5 DEF Reloads
  <2>9. /\ LaunchKept(r, q) /\ LeaveKept(r, q) /\ PendingKept(r, q) /\ ReloadKept(r, q)
        /\ JobKept(r, q) /\ \A j : CloseKept(r, q, j)
    BY <2>2, <2>3, <2>4, <2>5, <2>8, SkippedKeeps
  <2>10. Wakes(r, q, children[k].of) /\ q \in Call
    BY <2>7, <2>9 DEF Wakes, CallInv
  <2> QED
    BY <2>1, <2>6, <2>10
<1>7. calls' \in Seq(Call)
  <2>1. \A d \in DOMAIN calls : calls'[d] \in Call
    BY <1>0, <1>6 DEF CallsInv
  <2> QED
    BY <1>0, <1>1, <2>1, CallsMapped DEF CallsInv
<1>8. /\ setbacks' \in 0..MaxSetbacks /\ torn \subseteq torn' /\ torn' \subseteq Names
      /\ containers' \in Seq(Container) /\ Len(containers') = Len(containers)
      /\ UNCHANGED <<registry, reloading, jobs, phase, raced, slow, stray, late>>
  BY <1>0, <1>1 DEF Shape, history
<1> QED
  BY <1>1, <1>6, <1>7, <1>8, ChildKeeps

LEMMA ClosingKeeps ==
    ASSUME OrchestratorInv, Closing
    PROVE  OrchestratorInv'
<1>0. /\ Shape /\ CallsInv /\ RegistryInv /\ ReloadInv /\ JobInv
      /\ Family /\ Tended /\ Waits /\ Listed /\ Gone /\ Closings
  BY DEF OrchestratorInv, ChildInv
<1>1. /\ phase = "up" /\ phase' = "closing" /\ jobs' = {} /\ setbacks' \in 0..MaxSetbacks
      /\ UNCHANGED <<containers, children, processes, nameToId, reloading, calls, raced, slow, torn, stray, late, registry>>
  BY <1>0, OrchestratorAssumption DEF Closing, registry, history, Shape
<1>2. Shape'
  BY <1>0, <1>1 DEF Shape, Ids
<1>3. Calm /\ HistoryGrows /\ CallsGrow /\ NamedSame(containers, containers') /\ DOMAIN containers' = Ids
  BY <1>1 DEF Calm, HistoryGrows, CallsGrow, NamedSame, Ids
<1>4. CallsInv'
  BY <1>0, <1>1, <1>3, CallsKept
<1>5. RegistryInv'
  BY <1>0, <1>1, <1>3, RegistryKept
<1>6. ReloadInv'
  BY <1>0, <1>1, <1>3, ReloadKeeps
<1>7. JobInv'
  BY <1>0, <1>1, <1>3, JobKeeps
<1>8. Listed'
  BY <1>0, <1>1, <1>3, ListedKept
<1>9. Family' /\ Tended' /\ Waits'
  BY <1>1, <1>3, ChildrenKept
<1>10. Gone'
  BY <1>0, <1>1, <1>3, GoneKept
<1>11. Closings'
  <2>1. \A d \in DOMAIN calls : ~Closes(calls[d])
    BY <1>0, <1>1 DEF Closings
  <2>2. ~late
    BY <1>0, <1>1 DEF Closings
  <2> QED
    BY <1>1, <2>1, <2>2 DEF Closings
<1> QED
  BY <1>2, <1>4, <1>5, <1>6, <1>7, <1>8, <1>9, <1>10, <1>11 DEF OrchestratorInv, ChildInv
----------------------------------------------------------------------------
(* A process leaves the maps. *)

JobGoes(r, q) ==
    /\ \A n : Deletes(r, n) => Deletes(q, n)
    /\ Registers(q) =>
          /\ Registers(r) /\ q.names = r.names
          /\ \A n \in r.names \ Strange' :
                nameToId[n] # 0 \/ ToCome(r, n) => nameToId'[n] # 0 \/ ToCome(q, n)

LEMMA JobGoesOn ==
    ASSUME JobInv, UNCHANGED phase, HistoryGrows, UNCHANGED jobs, DOMAIN calls' = DOMAIN calls,
           \A n \in jobs \ Strange' : nameToId[n] # 0 =>
               nameToId'[n] # 0 \/ \E d \in DOMAIN calls : Deletes(calls[d], n),
           \A d \in DOMAIN calls : JobGoes(calls[d], calls'[d])
    PROVE  JobInv'
<1>1. Strange \subseteq Strange'
  BY DEF Strange, HistoryGrows
<1> SUFFICES ASSUME phase # "down"
             PROVE  /\ \A n \in jobs \ Strange' :
                          nameToId'[n] # 0 \/ \E d \in DOMAIN calls : Deletes(calls'[d], n)
                    /\ \A c \in DOMAIN calls : Registers(calls'[c]) =>
                          \A n \in calls'[c].names \ Strange' : nameToId'[n] # 0 \/ ToCome(calls'[c], n)
  BY DEF JobInv
<1>2. \A n \in jobs \ Strange : nameToId[n] # 0 \/ \E d \in DOMAIN calls : Deletes(calls[d], n)
  BY DEF JobInv
<1>3. \A c \in DOMAIN calls : Registers(calls[c]) =>
          \A n \in calls[c].names \ Strange : nameToId[n] # 0 \/ ToCome(calls[c], n)
  BY DEF JobInv
<1>4. ASSUME NEW n \in jobs \ Strange'
      PROVE  nameToId'[n] # 0 \/ \E d \in DOMAIN calls : Deletes(calls'[d], n)
  <2>1. nameToId'[n] # 0 \/ \E d \in DOMAIN calls : Deletes(calls[d], n)
    BY <1>1, <1>2, <1>4
  <2> QED
    BY <2>1 DEF JobGoes
<1>5. ASSUME NEW c \in DOMAIN calls, Registers(calls'[c]), NEW n \in calls'[c].names \ Strange'
      PROVE  nameToId'[n] # 0 \/ ToCome(calls'[c], n)
  <2>1. JobGoes(calls[c], calls'[c])
    OBVIOUS
  <2>2. Registers(calls[c]) /\ n \in calls[c].names \ Strange'
    BY <1>5, <2>1 DEF JobGoes
  <2>3. nameToId[n] # 0 \/ ToCome(calls[c], n)
    BY <1>1, <1>3, <2>2
  <2> QED
    BY <1>5, <2>1, <2>2, <2>3 DEF JobGoes
<1> QED
  BY <1>4, <1>5

LEMMA ForgetAgrees ==
    ASSUME RegistryInv, Shape, CallsInv, CallsGrow, NEW n \in Names, NEW i \in Ids, containers[i].name = n,
           UNCHANGED containers, processes' = processes \ {i}, nameToId' = [nameToId EXCEPT ![n] = 0],
           raced \subseteq raced', n \notin raced' => nameToId[n] \in {0, i},
           \A d \in DOMAIN calls : calls'[d] = calls[d] \/ LaunchKept(calls[d], calls'[d])
    PROVE  RegistryInv'
<1>0. i # 0 /\ nameToId'[n] = 0 /\ \A m \in Names : m # n => nameToId'[m] = nameToId[m]
  BY DEF Shape, Ids
<1>1. /\ \A m \in Names : nameToId[m] # 0 => nameToId[m] \in processes /\ containers[nameToId[m]].name = m
      /\ \A j \in processes : containers[j].name \notin raced => nameToId[containers[j].name] = j
  BY DEF RegistryInv, NamesAgree
<1>2. ASSUME NEW m \in Names, nameToId'[m] # 0
      PROVE  nameToId'[m] \in processes' /\ containers[nameToId'[m]].name = m
  BY <1>0, <1>1, <1>2
<1>3. ASSUME NEW j \in processes', containers[j].name \notin raced'
      PROVE  nameToId'[containers[j].name] = j
  <2>1. j \in processes /\ j # i /\ j \in Ids /\ j # 0 /\ nameToId[containers[j].name] = j
    BY <1>1, <1>3 DEF Shape, Ids
  <2>2. containers[j].name \in Names
    <3>1. containers[j] \in Container
      BY <2>1 DEF Shape, Ids
    <3> QED
      BY <3>1 DEF Container
  <2>3. containers[j].name # n
    BY <1>3, <2>1
  <2> QED
    BY <1>0, <2>1, <2>2, <2>3
<1>4. NamesAgree'
  BY <1>2, <1>3 DEF NamesAgree
<1>5. Unnamed'
  <2> SUFFICES ASSUME NEW d \in DOMAIN calls', Launches(calls'[d]), calls'[d].todo[1].name \notin raced'
               PROVE  nameToId'[calls'[d].todo[1].name] \in {0, calls'[d].todo[1].id}
    BY DEF Unnamed
  <2>1. d \in DOMAIN calls
    BY DEF CallsGrow, Launches
  <2>2. Launches(calls[d]) /\ calls'[d].todo[1] = calls[d].todo[1]
    BY <2>1 DEF LaunchKept
  <2>3. calls[d].todo[1].name \in Names
    <3>1. calls[d].todo # <<>>
      BY <2>1, <2>2 DEF CallsInv, CallInv, PlaceInv, Launches
    <3>2. calls[d].todo[1] \in Steps
      BY <2>1, <3>1, Going
    <3> QED
      BY <3>2, StepFields
  <2>4. nameToId[calls[d].todo[1].name] \in {0, calls[d].todo[1].id}
    BY <2>1, <2>2 DEF RegistryInv, Unnamed
  <2> QED
    BY <1>0, <2>2, <2>3, <2>4
<1> QED
  BY <1>4, <1>5 DEF RegistryInv

LEMMA ForgetListed ==
    ASSUME Listed, NEW i \in Ids, UNCHANGED <<containers, children, late>>, processes' = processes \ {i},
           HistoryGrows, Runs(i, containers, children) => containers[i].name \in raced' \cup slow' \cup torn'
    PROVE  Listed'
<1> SUFFICES ASSUME NEW j \in Ids, Runs(j, containers, children), 
                    containers[j].name \notin raced' \cup slow' \cup torn', ~late
             PROVE  j \in processes'
  BY DEF Listed, Ids
<1>1. j \in processes
  BY DEF Listed, HistoryGrows
<1> QED
  BY <1>1

\* What a move keeps whatever it does to the maps.
LEMMA MoveKeepsRest ==
    ASSUME OrchestratorInv, NEW c \in DOMAIN calls, NEW q, Moves(c, q), CallInv(q, containers),
           UNCHANGED <<containers, children, reloading, phase, late>>, HistoryGrows,
           Pending(c), ~Closes(calls[c]), ReloadKept(calls[c], q), LeaveKept(calls[c], q),
           PendingKept(calls[c], q), AwaitKept(calls[c], q)
    PROVE  CallsInv' /\ ReloadInv' /\ Family' /\ Tended' /\ Waits' /\ Gone' /\ Closings'
<1>0. CallsInv /\ ReloadInv /\ Gone /\ Closings
  BY DEF OrchestratorInv, ChildInv
<1>1. /\ CallsGrow /\ DOMAIN calls' = DOMAIN calls /\ calls'[c] = q
      /\ \A d \in DOMAIN calls : calls'[d] = calls[d] \/ d = c
  BY <1>0, MoveGrows DEF CallInv
<1>2. CallsInv'
  BY <1>0, CallsMove DEF NamedSame
<1>3. ReloadInv'
  BY <1>0, <1>1, ReloadKeeps
<1>4. Family' /\ Tended' /\ Waits'
  BY <1>1, ChildrenKept DEF HistoryGrows
<1>5. Gone'
  <2>1. \A i \in Ids : Runs(i, containers', children') => Runs(i, containers, children)
    BY DEF Runs
  <2> QED
    BY <1>0, <1>1, <2>1, GoneKept DEF HistoryGrows
<1>6. Closings'
  BY <1>0, <1>1, OtherCloses
<1> QED
  BY <1>2, <1>3, <1>4, <1>5, <1>6

LEMMA ReadyTimesOutKeeps ==
    ASSUME OrchestratorInv, NEW c \in DOMAIN calls, ReadyTimesOut(c)
    PROVE  OrchestratorInv'
<1> PICK r : r = calls[c]
  OBVIOUS
<1>0. /\ Shape /\ CallsInv /\ RegistryInv /\ ReloadInv /\ JobInv
      /\ Family /\ Tended /\ Waits /\ Listed /\ Gone /\ Closings
  BY DEF OrchestratorInv, ChildInv
<1>1. /\ r.at = "ready" /\ Fails(c) /\ slow' = slow \cup {Head1(c).name}
      /\ UNCHANGED <<containers, children, reloading, jobs, phase, setbacks, raced, torn, stray, late>>
      /\ IF Head1(c).op = "up" THEN Forgets(c, Head1(c).id) ELSE UNCHANGED registry
  BY DEF ReadyTimesOut
<1>2. r \in Call /\ PlaceInv(r)
  BY <1>0 DEF CallsInv, CallInv
<1>3. r.todo # <<>> /\ r.todo[1].op \in {"up", "restart"} /\ r.todo[1].id # 0
  BY <1>1, <1>2 DEF PlaceInv
<1>4. /\ CallInv(r, containers) /\ Head1(c) = r.todo[1] /\ Head1(c) \in Steps
      /\ StepInv(r, Head1(c), containers)
  BY <1>0, <1>3, Going
<1>5. /\ Head1(c).name \in Names /\ Head1(c).id \in Ids /\ containers[Head1(c).id].name = Head1(c).name
      /\ ~Closes(r) /\ ~Reloads(r)
  BY <1>3, <1>4, StepFields DEF StepInv, Closes, Reloads, Ids
<1>6. PICK q : /\ Moves(c, q) /\ CallInv(q, containers) /\ q \in Call
               /\ LaunchKept(r, q) /\ ReloadKept(r, q) /\ JobKept(r, q) /\ LeaveKept(r, q)
               /\ PendingKept(r, q) /\ AwaitKept(r, q) /\ \A i : CloseKept(r, q, i)
  <2>1. \/ r.kind # "delete" /\ Moves(c, Answered)
        \/ Moves(c, Skipped(r))
    BY <1>0, <1>1, FailsMoves DEF CallsInv
  <2>2. CASE r.kind # "delete" /\ Moves(c, Answered)
    <3>1. CallInv(Answered, containers) /\ Answered \in Call
      BY AnsweredInv DEF CallInv
    <3>2. /\ LaunchKept(r, Answered) /\ LeaveKept(r, Answered) /\ PendingKept(r, Answered)
          /\ ReloadKept(r, Answered) /\ JobKept(r, Answered)
          /\ AwaitKept(r, Answered) /\ \A i : CloseKept(r, Answered, i)
      BY <1>1, <1>2, <1>5, <2>2, AnsweredKeeps
    <3> QED
      BY <2>2, <3>1, <3>2
  <2>3. CASE Moves(c, Skipped(r))
    <3>1. CallInv(Skipped(r), containers) /\ Skipped(r) \in Call
      BY <1>3, <1>4, SkippedInv DEF CallInv
    <3>2. /\ LaunchKept(r, Skipped(r)) /\ LeaveKept(r, Skipped(r)) /\ PendingKept(r, Skipped(r))
          /\ ReloadKept(r, Skipped(r)) /\ JobKept(r, Skipped(r))
          /\ AwaitKept(r, Skipped(r)) /\ \A i : CloseKept(r, Skipped(r), i)
      BY <1>1, <1>2, <1>3, <1>5, SkippedKeeps
    <3> QED
      BY <2>3, <3>1, <3>2
  <2> QED
    BY <2>1, <2>2, <2>3
<1>7. /\ CallsGrow /\ DOMAIN calls' = DOMAIN calls /\ calls'[c] = q
      /\ \A d \in DOMAIN calls : calls'[d] = calls[d] \/ d = c
  BY <1>0, <1>6, MoveGrows
<1>8. Calm /\ NamedSame(containers, containers') /\ HistoryGrows /\ DOMAIN containers' = Ids
  BY <1>1 DEF Calm, NamedSame, HistoryGrows, Ids, Runs
<1>9. \/ Head1(c).op = "up" /\ processes' = processes \ {Head1(c).id}
         /\ nameToId' = [nameToId EXCEPT ![Head1(c).name] = 0]
      \/ Head1(c).op = "restart" /\ UNCHANGED <<registry, processes, nameToId>>
  BY <1>1, <1>3, <1>4 DEF Forgets, registry
<1>11. Shape'
  BY <1>0, <1>1, <1>5, <1>9 DEF Shape, Ids
<1>12. CallsInv' /\ ReloadInv' /\ Family' /\ Tended' /\ Waits' /\ Gone' /\ Closings'
  BY <1>1, <1>5, <1>6, <1>8, MoveKeepsRest DEF Pending
<1>13. RegistryInv'
  <2>1. CASE Head1(c).op = "restart" /\ UNCHANGED <<registry, processes, nameToId>>
    BY <1>0, <1>6, <1>7, <1>8, <2>1, RegistryKept
  <2>2. CASE Head1(c).op = "up" /\ processes' = processes \ {Head1(c).id}
             /\ nameToId' = [nameToId EXCEPT ![Head1(c).name] = 0]
    <3>1. Head1(c).name \notin raced => nameToId[Head1(c).name] \in {0, Head1(c).id}
      BY <1>0, <1>1, <1>4, <2>2 DEF RegistryInv, Unnamed, Launches
    <3> QED
      BY <1>0, <1>1, <1>5, <1>6, <1>7, <2>2, <3>1, ForgetAgrees
  <2> QED
    BY <1>9, <2>1, <2>2
<1>15. JobInv'
  <2>1. Head1(c).name \in Strange'
    BY <1>1 DEF Strange
  <2>2. \A m \in Names \ Strange' : nameToId'[m] = nameToId[m]
    BY <1>0, <1>9, <2>1 DEF Shape
  <2>3. \A n \in jobs \ Strange' : nameToId[n] # 0 => nameToId'[n] # 0
    BY <1>0, <2>2 DEF Shape
  <2>4. \A d \in DOMAIN calls : calls[d].names \subseteq Names
    BY <1>0, CallFields DEF CallsInv
  <2>5. \A d \in DOMAIN calls : JobGoes(calls[d], calls'[d])
    BY <1>6, <1>7, <2>2, <2>4 DEF JobGoes, JobKept
  <2> QED
    BY <1>0, <1>1, <1>7, <1>8, <2>3, <2>5, JobGoesOn
<1>16. Listed'
  <2>1. CASE processes' = processes \ {Head1(c).id}
    BY <1>0, <1>1, <1>5, <1>8, <2>1, ForgetListed
  <2>2. CASE UNCHANGED processes
    BY <1>0, <1>1, <1>8, <2>2, ListedKept
  <2> QED
    BY <1>9, <2>1, <2>2
<1> QED
  BY <1>11, <1>12, <1>13, <1>15, <1>16 DEF OrchestratorInv, ChildInv

LEMMA DeletedKeeps ==
    ASSUME OrchestratorInv, NEW c \in DOMAIN calls, Deleted(c)
    PROVE  OrchestratorInv'
<1>1. PICK r : r = calls[c]
  OBVIOUS
<1>2. PICK n : n = Head1(c).name
  OBVIOUS
<1>3. PICK i : i = Head1(c).id
  OBVIOUS
<1>0. /\ Shape /\ CallsInv /\ RegistryInv /\ ReloadInv /\ JobInv
      /\ Family /\ Tended /\ Waits /\ Listed /\ Gone /\ Closings
  BY DEF OrchestratorInv, ChildInv
<1>4. /\ r.at = "stopped" /\ r.todo # <<>> /\ Head1(c).op \in {"delete", "replace"}
      /\ processes' = processes \ {i} /\ nameToId' = [nameToId EXCEPT ![n] = 0]
      /\ Races(n, nameToId[n] \notin {0, i} \/ Holds(c, n, {"up", "restart", "reload"}))
      /\ stray' = (IF r.kind = "delete" /\ ~WillRegister(n) THEN stray ELSE stray \cup {n})
      /\ UNCHANGED <<containers, children, reloading, jobs, phase, setbacks, slow, torn, late>>
  BY <1>1, <1>2, <1>3 DEF Deleted, Goes
<1>5. /\ r \in Call /\ CallInv(r, containers) /\ PlaceInv(r)
      /\ Head1(c) = r.todo[1] /\ Head1(c) \in Steps /\ StepInv(r, Head1(c), containers)
  BY <1>0, <1>1, <1>4, Going
<1>6. /\ n \in Names /\ i \in Ids /\ containers[i].name = n /\ n \in r.names
      /\ ~Closes(r) /\ ~Reloads(r) /\ Leaves(r)
  BY <1>2, <1>3, <1>4, <1>5, StepFields DEF StepInv, PlaceInv, Closes, Reloads, Leaves, Ids
<1>7. PICK q : /\ Moves(c, q) /\ CallInv(q, containers) /\ q \in Call
               /\ LaunchKept(r, q) /\ ReloadKept(r, q) /\ JobKept(r, q) /\ LeaveKept(r, q)
               /\ PendingKept(r, q) /\ AwaitKept(r, q)
  <2>1. CASE Head1(c).op = "delete"
    <3>1. Moves(c, Skipped(r))
      BY <1>0, <1>1, <2>1, NextStepMoves DEF Deleted, CallsInv
    <3>2. CallInv(Skipped(r), containers) /\ Skipped(r) \in Call
      BY <1>4, <1>5, SkippedInv DEF CallInv
    <3>3. /\ LaunchKept(r, Skipped(r)) /\ LeaveKept(r, Skipped(r)) /\ PendingKept(r, Skipped(r))
          /\ ReloadKept(r, Skipped(r)) /\ JobKept(r, Skipped(r)) /\ AwaitKept(r, Skipped(r))
      BY <1>4, <1>5, <1>6, SkippedKeeps
    <3> QED
      BY <3>1, <3>2, <3>3
  <2>2. CASE Head1(c).op = "replace"
    <3>1. PICK s : s = Step("up", n, 0)
      OBVIOUS
    <3>2. PICK q : q = Turned(r, s, "go")
      OBVIOUS
    <3>3. s \in Steps /\ s.op = "up" /\ s.id = 0
      BY <1>6, <3>1 DEF Step, Steps
    <3>4. calls' = [calls EXCEPT ![c].at = "go", ![c].todo[1] = s]
      BY <1>2, <2>2, <3>1 DEF Deleted
    <3>5. Moves(c, q)
      BY <1>0, <1>1, <1>4, <3>2, <3>4, ReplaceMoves DEF CallsInv
    <3>6. q.at = "go"
      BY <3>2 DEF Turned
    <3>7. PlaceInv(q) /\ StepInv(r, s, containers)
      BY <1>4, <1>5, <3>3, <3>6 DEF PlaceInv, StepInv, Stopping
    <3>8. CallInv(q, containers)
      BY <1>4, <1>5, <3>2, <3>3, <3>7, TurnedInv
    <3>9. PendingKept(r, q) /\ JobKept(r, q)
      BY <1>4, <1>5, <3>2, <3>3, TurnedKeeps
    <3>10. LaunchKept(r, q) /\ LeaveKept(r, q) /\ ReloadKept(r, q)
      BY <1>6, <3>6 DEF LaunchKept, LeaveKept, ReloadKept, Launches, Leaves, Reloads, Waiting
    <3>11. AwaitKept(r, q)
      BY <1>4, <3>6 DEF AwaitKept, Stopping
    <3> QED
      BY <3>5, <3>8, <3>9, <3>10, <3>11 DEF CallInv
  <2> QED
    BY <1>4, <2>1, <2>2
<1>8. /\ CallsGrow /\ DOMAIN calls' = DOMAIN calls /\ calls'[c] = q
      /\ \A d \in DOMAIN calls : calls'[d] = calls[d] \/ d = c
  BY <1>0, <1>7, MoveGrows
<1>9. HistoryGrows /\ raced' \subseteq raced \cup {n}
  BY <1>4 DEF HistoryGrows, Races
<1>10. Pending(c)
  BY <1>1, <1>4 DEF Pending
<1>11. Shape'
  BY <1>0, <1>4, <1>6, <1>9 DEF Shape, Ids
<1>12. CallsInv' /\ ReloadInv' /\ Family' /\ Tended' /\ Waits' /\ Gone' /\ Closings'
  BY <1>1, <1>4, <1>6, <1>7, <1>9, <1>10, MoveKeepsRest
<1>13. RegistryInv'
  <2>1. n \notin raced' => nameToId[n] \in {0, i}
    BY <1>4 DEF Races
  <2>2. \A d \in DOMAIN calls : calls'[d] = calls[d] \/ LaunchKept(calls[d], calls'[d])
    BY <1>1, <1>7, <1>8
  <2> QED
    BY <1>0, <1>4, <1>6, <1>8, <1>9, <2>1, <2>2, ForgetAgrees DEF HistoryGrows
<1>14. JobInv'
  <2>1. /\ nameToId'[n] = 0
        /\ \A m \in Names : m # n => nameToId'[m] = nameToId[m]
    BY <1>0, <1>4, <1>6 DEF Shape
  <2>2. n \notin Strange' => r.kind = "delete" /\ ~WillRegister(n)
    BY <1>4 DEF Strange
  <2>3. \A m \in jobs \ Strange' : nameToId[m] # 0 =>
            nameToId'[m] # 0 \/ \E d \in DOMAIN calls : Deletes(calls[d], m)
    <3> SUFFICES ASSUME NEW m \in jobs \ Strange', m = n
                 PROVE  Deletes(calls[c], m)
      BY <1>0, <2>1 DEF Shape
    <3> QED
      BY <1>1, <1>4, <1>6, <2>2 DEF Deletes
  <2>4. ASSUME NEW d \in DOMAIN calls
        PROVE  JobGoes(calls[d], calls'[d])
    <3>1. calls'[d] = calls[d] \/ JobKept(calls[d], calls'[d])
      BY <1>1, <1>7, <1>8
    <3>2. \A m : Deletes(calls[d], m) => Deletes(calls'[d], m)
      BY <3>1 DEF JobKept
    <3>3. ASSUME Registers(calls'[d])
          PROVE  /\ Registers(calls[d]) /\ calls'[d].names = calls[d].names
                 /\ \A m : ToCome(calls[d], m) => ToCome(calls'[d], m)
      BY <3>1, <3>3 DEF JobKept
    <3>4. ASSUME Registers(calls'[d]), NEW m \in calls[d].names \ Strange'
          PROVE  m # n /\ m \in Names
      <4>1. calls[d].names \subseteq Names
        BY <1>0, CallFields DEF CallsInv
      <4>2. Registers(calls[d])
        BY <3>3, <3>4
      <4> QED
        BY <2>2, <3>4, <4>1, <4>2 DEF WillRegister, Registers, Registering, Pending
    <3> QED
      BY <2>1, <3>2, <3>3, <3>4 DEF JobGoes
  <2> QED
    BY <1>0, <1>4, <1>8, <1>9, <2>3, <2>4, JobGoesOn
<1>15. Listed'
  <2>1. Runs(i, containers, children) => n \in raced \cup torn
    BY <1>0, <1>1, <1>2, <1>3, <1>5, <1>6 DEF Gone
  <2> QED
    BY <1>0, <1>4, <1>6, <1>9, <2>1, ForgetListed DEF HistoryGrows
<1> QED
  BY <1>11, <1>12, <1>13, <1>14, <1>15 DEF OrchestratorInv, ChildInv
----------------------------------------------------------------------------
(* Children start. *)

LEMMA RestartedKeeps ==
    ASSUME OrchestratorInv, NEW c \in DOMAIN calls, Restarted(c)
    PROVE  OrchestratorInv'
<1>1. PICK r : r = calls[c]
  OBVIOUS
<1>2. PICK n : n = Head1(c).name
  OBVIOUS
<1>3. PICK i : i = Head1(c).id
  OBVIOUS
<1>0. /\ Shape /\ CallsInv /\ RegistryInv /\ ReloadInv /\ JobInv
      /\ Family /\ Tended /\ Waits /\ Listed /\ Gone /\ Closings
  BY DEF OrchestratorInv, ChildInv
<1>4. /\ r.at = "stopped" /\ r.todo # <<>> /\ Head1(c).op \in {"restart", "reload"}
      /\ containers' = [containers EXCEPT ![i].stopping = FALSE, ![i].child = NewChild] /\ Forks(i, n)
      /\ reloading' = (IF Head1(c).op = "reload" THEN reloading \ {i} ELSE reloading)
      /\ Races(n, i \notin processes \/ Holds(c, n, {"delete", "replace"}))
      /\ IF n \in Clustered THEN Wait(c, "ready") ELSE NextStep(c)
      /\ UNCHANGED <<registry, jobs, phase, setbacks, slow, torn, stray, late>>
  BY <1>1, <1>2, <1>3 DEF Restarted, Goes
<1>5. /\ r \in Call /\ CallInv(r, containers) /\ PlaceInv(r)
      /\ Head1(c) = r.todo[1] /\ Head1(c) \in Steps /\ StepInv(r, Head1(c), containers)
  BY <1>0, <1>1, <1>4, Going
<1>6. /\ n \in Names /\ i \in Ids /\ containers[i].name = n /\ ~Closes(r)
      /\ Head1(c).op = "reload" => n \notin Clustered
  BY <1>2, <1>3, <1>4, <1>5, StepFields DEF StepInv, PlaceInv, Closes, Ids, Stopping
<1>7. NewChild \in Int /\ NewChild \notin Kids /\ NewChild # None /\ NewChild # Dead
  BY <1>0, NewChildIs
<1>9. /\ containers' \in Seq(Container) /\ Len(containers') = Len(containers)
      /\ DOMAIN containers' = Ids /\ (\A j \in Ids : containers'[j].name = containers[j].name)
      /\ (\A j \in Ids : j # i => containers'[j] = containers[j])
      /\ containers'[i].stopping = FALSE /\ containers'[i].child = NewChild
      /\ containers'[i].backoffs = containers[i].backoffs
  <2> PICK y : y = [containers[i] EXCEPT !.stopping = FALSE, !.child = NewChild]
    OBVIOUS
  <2>1. containers' = [containers EXCEPT ![i] = y]
    BY <1>4
  <2>2. containers[i] \in Container
    BY <1>0, <1>6 DEF Shape, Ids
  <2>3. /\ y \in Container /\ y.name = containers[i].name /\ y.stopping = FALSE /\ y.child = NewChild
        /\ y.backoffs = containers[i].backoffs
    BY <1>7, <2>2 DEF Container
  <2>4. /\ containers' \in Seq(Container) /\ Len(containers') = Len(containers)
        /\ DOMAIN containers' = Ids /\ containers'[i] = y
        /\ \A j \in Ids : containers'[j].name = containers[j].name
        /\ \A j \in Ids : j # i => containers'[j] = containers[j]
    BY <1>0, <1>6, <2>1, <2>3, ContainerSet, Zenon
  <2> QED
    BY <2>3, <2>4
<1>10. NamedSame(containers, containers')
  BY <1>9 DEF NamedSame, Ids
<1>11. PICK q : /\ Moves(c, q) /\ CallInv(q, containers) /\ q \in Call
                /\ ~Launches(q) /\ ~Reloads(q) /\ ~Leaves(q) /\ q.at \notin Stopping /\ JobKept(r, q) /\ PendingKept(r, q)
  <2>1. CASE n \in Clustered
    <3>1. PICK q : q = Moved(r, "ready")
      OBVIOUS
    <3>2. q.at = "ready" /\ q.todo = r.todo /\ q.kind = r.kind /\ q.names = r.names
      BY <3>1 DEF Moved
    <3>3. r.todo[1].op = "restart"
      BY <1>4, <1>5, <1>6, <2>1
    <3>4. Moves(c, q)
      BY <1>0, <1>1, <1>4, <2>1, <3>1, WaitMoves DEF CallsInv
    <3>5. PlaceInv(q)
      BY <1>4, <1>5, <3>2, <3>3 DEF PlaceInv, Stopping
    <3>6. CallInv(q, containers)
      BY <1>5, <3>1, <3>5, MovedInv DEF Waiting
    <3>7. ~Launches(q) /\ ~Reloads(q) /\ ~Leaves(q) /\ q.at \notin Stopping
      BY <3>2, <3>3 DEF Launches, Reloads, Leaves, Stopping
    <3>8. JobKept(r, q)
      BY <1>4, <3>2 DEF JobKept, Deletes, Registers, ToCome
    <3>9. PendingKept(r, q)
      BY <1>4, <3>2 DEF PendingKept, Closes
    <3> QED
      BY <3>4, <3>6, <3>7, <3>8, <3>9 DEF CallInv
  <2>2. CASE n \notin Clustered
    <3>1. Moves(c, Skipped(r))
      BY <1>0, <1>1, <1>4, <2>2, NextStepMoves DEF CallsInv
    <3>2. CallInv(Skipped(r), containers) /\ Skipped(r) \in Call
      BY <1>4, <1>5, SkippedInv DEF CallInv
    <3>3. PendingKept(r, Skipped(r)) /\ JobKept(r, Skipped(r))
      BY <1>4, <1>5, SkippedKeeps
    <3>4. /\ ~Launches(Skipped(r)) /\ ~Reloads(Skipped(r)) /\ ~Leaves(Skipped(r))
          /\ Skipped(r).at \notin Stopping
      BY DEF Skipped, Launches, Reloads, Leaves, Waiting, Stopping
    <3> QED
      BY <3>1, <3>2, <3>3, <3>4
  <2> QED
    BY <2>1, <2>2
<1>12. /\ CallsGrow /\ DOMAIN calls' = DOMAIN calls /\ calls'[c] = q
       /\ \A d \in DOMAIN calls : calls'[d] = calls[d] \/ d = c
  BY <1>0, <1>11, MoveGrows
<1>13. HistoryGrows /\ raced' \subseteq raced \cup {n} /\ UNCHANGED <<processes, nameToId>>
  BY <1>4 DEF HistoryGrows, Races, registry
<1>14. Shape'
  BY <1>0, <1>4, <1>6, <1>9, <1>13 DEF Shape, Ids
<1>15. CallsInv'
  BY <1>0, <1>10, <1>11, CallKeeps, CallsMove
<1>16. RegistryInv'
  <2>1. \A d \in DOMAIN calls : calls'[d] = calls[d] \/ LaunchKept(calls[d], calls'[d])
    BY <1>11, <1>12 DEF LaunchKept
  <2> QED
    BY <1>0, <1>4, <1>10, <1>12, <1>13, <2>1, RegistrySame
<1>17. ReloadInv'
  <2>1. CASE Head1(c).op = "reload"
    <3>1. Reloads(calls[c]) /\ Reloaded(calls[c]) = i
      BY <1>1, <1>3, <1>4, <1>5, <2>1 DEF Reloads, Reloaded
    <3> QED
      BY <1>0, <1>4, <1>11, <1>12, <2>1, <3>1, ReloadIsOver
  <2>2. CASE Head1(c).op # "reload"
    <3>1. ~Reloads(calls[c])
      BY <1>1, <1>5, <2>2 DEF Reloads
    <3>2. \A d \in DOMAIN calls : calls'[d] = calls[d] \/ ReloadKept(calls[d], calls'[d])
      BY <1>11, <1>12, <3>1 DEF ReloadKept
    <3> QED
      BY <1>0, <1>4, <1>12, <2>2, <3>2, ReloadKeeps
  <2> QED
    BY <2>1, <2>2
<1>18. JobInv'
  <2>1. \A d \in DOMAIN calls : calls'[d] = calls[d] \/ JobKept(calls[d], calls'[d])
    BY <1>1, <1>11, <1>12
  <2> QED
    BY <1>0, <1>4, <1>12, <1>13, <2>1, JobKeeps
<1>19. /\ Kids' = Kids \cup {NewChild} /\ Family'
       /\ \A k \in Kids : children'[k] = children[k]
       /\ children'[NewChild].of = i /\ children'[NewChild].waiters = {}
       /\ children'[NewChild].state \in {"launching", "live"}
  <2>1. i \in Ids' /\ Ids' = Ids \cup {i} /\ containers'[i].child = NewChild
        /\ \A j \in Ids : j # i => containers'[j].child = containers[j].child
    BY <1>6, <1>9 DEF Ids
  <2> QED
    BY <1>0, <1>4, <1>12, <2>1, ForkIs
<1>23. \A j \in Ids : j # i /\ Runs(j, containers', children') => Runs(j, containers, children)
  BY <1>9, <1>19 DEF Runs, Kids
<1>24. Listed'
  <2> SUFFICES ASSUME NEW j \in Ids, Runs(j, containers', children'),
                      containers'[j].name \notin raced' \cup slow' \cup torn', ~late
               PROVE  j \in processes
    BY <1>4, <1>9, <1>13 DEF Listed, Ids
  <2>1. CASE j = i
    BY <1>4, <1>6, <1>9, <2>1 DEF Races
  <2>2. CASE j # i
    BY <1>0, <1>9, <1>13, <1>23, <2>2 DEF Listed, HistoryGrows
  <2> QED
    BY <2>1, <2>2
<1>25. r.at = "stopped" /\ Restarts(r, i)
  BY <1>3, <1>4, <1>5 DEF Restarts, Stopping
<1>26. \A d \in DOMAIN calls, j \in Ids :
           (AwaitedAt(calls'[d], j, {"stop"}) \/ Restarts(calls'[d], j)) => d # c /\ calls'[d] = calls[d]
  BY <1>11, <1>12 DEF AwaitedAt, Restarts, Stopping
<1>27. ASSUME n \notin torn
       PROVE  Sole(i)' /\ Attended(i)'
  <2>1. Sole(i) /\ Attended(i)
    BY <1>0, <1>6, <1>27 DEF Tended
  <2>2. ChildOf(i) = None
    BY <1>1, <1>25, <2>1 DEF Attended, Held
  <2>3. containers[i].backoffs = 0 /\ \A k \in Kids : children[k].of # i
    BY <1>0, <2>1, <2>2, KidIsLive DEF Sole, None, Dead
  <2>4. Sole(i)'
    BY <1>9, <1>19, <2>3 DEF Sole, Asked, ChildOf
  <2>5. \A d \in DOMAIN calls : ~AwaitedAt(calls'[d], i, {"stop"}) /\ ~Restarts(calls'[d], i)
    BY <1>1, <1>6, <1>25, <1>26, <2>1, <2>2 DEF Attended, Held
  <2>6. Attended(i)'
    BY <1>12, <2>5 DEF Attended
  <2> QED
    BY <2>4, <2>6
<1>28. ASSUME NEW j \in Ids, j # i, containers[j].name \notin torn
       PROVE  Sole(j)' /\ Attended(j)'
  <2>1. Sole(j) /\ Attended(j)
    BY <1>0, <1>28 DEF Tended
  <2>2. \A k \in DOMAIN children' : children'[k].of = j => KidSame(k)
    BY <1>19, <1>28 DEF KidSame, Kids
  <2>3. \A d \in DOMAIN calls' : Aside(d, j)
    BY <1>12, <1>26 DEF Aside
  <2> QED
    BY <1>9, <1>28, <2>1, <2>2, <2>3, TendedAt
<1>20. Tended'
  <2>1. Ids' = Ids /\ torn' = torn
    BY <1>4, <1>9 DEF Ids
  <2> QED
    BY <1>6, <1>9, <1>27, <1>28, <2>1 DEF Tended
<1>29. Waits'
  <2> SUFFICES ASSUME phase # "down", NEW k \in Kids', NEW d \in children'[k].waiters
               PROVE  /\ AwaitedAt(calls'[d], children'[k].of, {"stop"})
                      /\ \A l \in Kids' : d \in children'[l].waiters => k = l
    BY <1>4 DEF Waits
  <2>1. k \in Kids /\ d \in children[k].waiters /\ children'[k] = children[k]
    BY <1>19
  <2>2. \A l \in Kids' : d \in children'[l].waiters => l \in Kids /\ d \in children[l].waiters
    BY <1>19
  <2>3. /\ AwaitedAt(calls[d], children[k].of, {"stop"}) /\ d \in DOMAIN calls
        /\ \A l \in Kids : d \in children[l].waiters => k = l
    BY <1>0, <2>1, KidIsLive DEF Waits
  <2>4. d # c
    BY <1>1, <1>4, <2>3 DEF AwaitedAt
  <2> QED
    BY <1>12, <2>1, <2>2, <2>3, <2>4
<1>21. Gone'
  <2> SUFFICES ASSUME NEW d \in DOMAIN calls, Leaves(calls'[d]), calls'[d].todo[1].name \notin raced' \cup torn'
               PROVE  ~Runs(calls'[d].todo[1].id, containers', children')
    BY <1>12 DEF Gone
  <2>1. d # c /\ calls'[d] = calls[d] /\ calls[d].todo[1].name \notin raced \cup torn
    BY <1>4, <1>11, <1>12, <1>13 DEF HistoryGrows
  <2>2. CallInv(calls[d], containers)
    BY <1>0 DEF CallsInv
  <2>3. calls[d].todo[1].id \in Ids /\ containers[calls[d].todo[1].id].name = calls[d].todo[1].name
    BY <2>1, <2>2, LeavesId DEF Ids
  <2>4. ~Runs(calls[d].todo[1].id, containers, children)
    BY <1>0, <2>1 DEF Gone
  <2>5. calls[d].todo[1].id # i
    <3> SUFFICES ASSUME calls[d].todo[1].id = i
                 PROVE  n \in raced'
      BY <1>6, <2>1, <2>3
    <3>1. calls[d].todo # <<>>
      BY <2>1, <2>2 DEF CallInv, PlaceInv, Leaves
    <3>2. Head1(d) = calls[d].todo[1]
      BY <1>0, <3>1, Going
    <3>3. Holds(c, n, {"delete", "replace"})
      BY <1>6, <2>1, <2>3, <3>2 DEF Holds, Leaves, Waiting
    <3> QED
      BY <1>4, <3>3 DEF Races
  <2> QED
    BY <1>23, <2>1, <2>3, <2>4, <2>5
<1>22. Closings'
  <2>1. \A d \in DOMAIN calls : calls'[d] = calls[d] \/ PendingKept(calls[d], calls'[d])
    BY <1>1, <1>11, <1>12
  <2> QED
    BY <1>0, <1>1, <1>4, <1>6, <1>12, <2>1, OtherCloses DEF Pending
<1> QED
  BY <1>14, <1>15, <1>16, <1>17, <1>18, <1>19, <1>20, <1>21, <1>22, <1>24, <1>29 DEF OrchestratorInv, ChildInv

\* The container of a process that is new.
Fresh(n) == [name |-> n, stopping |-> FALSE, child |-> NewChild, backoffs |-> 0]

LEMMA FreshIs ==
    ASSUME Family, NEW n \in Names
    PROVE  /\ Fresh(n) \in Container /\ Fresh(n).name = n /\ Fresh(n).stopping = FALSE
           /\ Fresh(n).child = NewChild /\ Fresh(n).backoffs = 0
<1>1. NewChild \in Int
  BY NewChildIs
<1> QED
  BY <1>1 DEF Fresh, Container

LEMMA LaunchMoves ==
    ASSUME calls \in Seq(Call), NEW c \in DOMAIN calls, calls[c].todo # <<>>, NEW i, NEW at,
           calls' = [calls EXCEPT ![c].at = at, ![c].todo[1].id = i]
    PROVE  Moves(c, Turned(calls[c], Step(Head1(c).op, Head1(c).name, i), at))
<1>1. calls[c] \in Call
  OBVIOUS
<1>2. Head1(c) = calls[c].todo[1] /\ Head1(c) \in Steps
  BY HeadOfCall
<1>3. [Head1(c) EXCEPT !.id = i] = Step(Head1(c).op, Head1(c).name, i)
  BY <1>2, StepFields DEF Step
<1>4. [calls[c] EXCEPT !.at = at, !.todo = [calls[c].todo EXCEPT ![1] = [Head1(c) EXCEPT !.id = i]]]
      = Turned(calls[c], Step(Head1(c).op, Head1(c).name, i), at)
  <2> DEFINE new == [calls[c].todo EXCEPT ![1] = [Head1(c) EXCEPT !.id = i]]
  <2>1. new = [calls[c].todo EXCEPT ![1] = Step(Head1(c).op, Head1(c).name, i)]
    BY <1>3
  <2> HIDE DEF new
  <2>2. [calls[c] EXCEPT !.at = at, !.todo = new]
        = [kind |-> calls[c].kind, todo |-> new, at |-> at, names |-> calls[c].names]
    BY <1>1, CallSet, Zenon
  <2>3. [calls[c] EXCEPT !.at = at, !.todo = new] = Turned(calls[c], Step(Head1(c).op, Head1(c).name, i), at)
    BY <2>1, <2>2, Zenon DEF Turned
  <2> QED
    BY <2>3 DEF new
<1>5. calls' = [calls EXCEPT ![c] = [calls[c] EXCEPT
                  !.at = at, !.todo = [calls[c].todo EXCEPT ![1] = [Head1(c) EXCEPT !.id = i]]]]
  BY <1>2
<1> QED
  BY <1>4, <1>5 DEF Moves

\* A request that goes on from the step for n still gives the other names their processes.
LEMMA OthersToCome ==
    ASSUME NEW r \in Call, r.todo # <<>>, NEW m, m # r.todo[1].name, ToCome(r, m)
    PROVE  /\ ToCome(Skipped(r), m)
           /\ \A s \in Steps : \A at : ToCome(Turned(r, s, at), m)
<1>1. PICK k \in DOMAIN r.todo : r.todo[k].op = "up" /\ r.todo[k].name = m
  BY DEF ToCome
<1>2. k # 1
  BY <1>1
<1>3. k - 1 \in DOMAIN Tail(r.todo) /\ Tail(r.todo)[k - 1] = r.todo[k]
  BY <1>2, FirstStep
<1>4. ToCome(Skipped(r), m)
  BY <1>1, <1>3 DEF ToCome, Skipped
<1>5. ASSUME NEW s \in Steps, NEW at
      PROVE  ToCome(Turned(r, s, at), m)
  <2> PICK q : q = Turned(r, s, at)
    OBVIOUS
  <2>1. DOMAIN q.todo = DOMAIN r.todo /\ q.todo[k] = r.todo[k]
    BY <1>2, TurnedFields
  <2> QED
    BY <1>1, <1>2, <2>1 DEF ToCome
<1> QED
  BY <1>4, <1>5

\* A child that runs at the name that up() finds free: its process races, or the daemon closes.
LEMMA FreeRaces ==
    ASSUME OrchestratorInv, NEW c \in DOMAIN calls, Pending(c), calls[c].at = "go", ~Closes(calls[c]),
           NEW old \in Ids, ~IsRunning(old), Runs(old, containers, children), ~late,
           containers[old].name \notin torn
    PROVE  Holds(c, containers[old].name, {"up", "down", "restart", "reload", "delete", "replace"})
<1>0. CallsInv /\ Family /\ Tended /\ Waits /\ Closings
  BY DEF OrchestratorInv, ChildInv
<1>1. Sole(old)
  BY <1>0 DEF Tended
<1>2. phase # "down" /\ phase # "stopping"
  BY <1>0 DEF Closings
<1>3. PICK d \in DOMAIN calls : AwaitedAt(calls[d], old, {"stop"})
  <2>1. ~Held(old) \/ containers[old].stopping
    BY DEF IsRunning
  <2>2. CASE \E k \in Kids : children[k].of = old /\ children[k].state # "killed"
    <3>1. PICK k \in Kids : children[k].of = old /\ children[k].state # "killed"
      BY <2>2
    <3>2. ChildOf(old) = k /\ (Asked(k) <=> containers[old].stopping)
      BY <1>1, <3>1 DEF Sole
    <3>3. k # None /\ children[k].waiters \subseteq DOMAIN calls
      BY <1>0, KidIsLive
    <3>4. children[k].waiters # {}
      BY <2>1, <3>1, <3>2, <3>3 DEF Held, Asked
    <3>5. PICK e : e \in children[k].waiters
      BY <3>4
    <3>6. AwaitedAt(calls[e], old, {"stop"}) /\ e \in DOMAIN calls
      BY <1>0, <1>2, <3>1, <3>3, <3>5 DEF Waits
    <3> QED
      BY <3>6
  <2>3. CASE containers[old].backoffs # 0 /\ ~containers[old].stopping
    BY <1>1, <2>1, <2>3 DEF Sole, Held, None, Dead
  <2> QED
    BY <2>2, <2>3 DEF Runs, Kids
<1>4. /\ calls[d].at = "stop" /\ calls[d].todo # <<>> /\ calls[d].todo[1].id = old /\ d # c
  BY <1>3 DEF AwaitedAt
<1>5. /\ Head1(d) = calls[d].todo[1] /\ StepInv(calls[d], Head1(d), containers) /\ PlaceInv(calls[d])
      /\ Head1(d) \in Steps
  BY <1>0, <1>4, Going
<1>6. ~Closes(calls[d])
  BY <1>0, <1>2 DEF Closings
<1>7. Head1(d).op # "close"
  BY <1>4, <1>5, <1>6 DEF StepInv, Closes
<1>8. Head1(d).op \in {"up", "down", "restart", "reload", "delete", "replace"}
  BY <1>5, <1>7, StepFields
<1>9. old # 0
  BY <1>4, <1>5 DEF PlaceInv
<1>10. Head1(d).name = containers[old].name
  BY <1>4, <1>5, <1>9 DEF StepInv
<1> QED
  BY <1>4, <1>8, <1>10 DEF Holds, Waiting

LEMMA StartsNot ==
    ASSUME OrchestratorInv, NEW c \in DOMAIN calls, Goes(c, "go"), Head1(c).op = "up",
           Fails(c), stray' = (IF calls[c].kind = "restore" THEN stray \cup {Head1(c).name} ELSE stray),
           UNCHANGED <<containers, children, registry, raced, reloading, jobs, phase, setbacks, slow, torn, late>>
    PROVE  OrchestratorInv'
<1>1. PICK r : r = calls[c]
  OBVIOUS
<1>2. PICK n : n = Head1(c).name
  OBVIOUS
<1>0. /\ Shape /\ CallsInv /\ RegistryInv /\ ReloadInv /\ JobInv
      /\ Family /\ Tended /\ Waits /\ Listed /\ Gone /\ Closings
  BY DEF OrchestratorInv, ChildInv
<1>3. r.at = "go" /\ r.todo # <<>>
  BY <1>1 DEF Goes
<1>4. /\ r \in Call /\ CallInv(r, containers) /\ Head1(c) = r.todo[1] /\ Head1(c) \in Steps
      /\ StepInv(r, Head1(c), containers) /\ n \in Names
  BY <1>0, <1>1, <1>2, <1>3, Going, StepFields
<1>5. ~Closes(r) /\ ~Reloads(r)
  BY <1>3, <1>4 DEF StepInv, Closes, Reloads, Waiting
<1>6. HistoryGrows /\ UNCHANGED <<processes, nameToId>> /\ Strange \subseteq Strange'
      /\ (r.kind = "restore" => n \in Strange')
  BY <1>1, <1>2 DEF HistoryGrows, registry, Strange
<1>7. PICK q : /\ Moves(c, q) /\ CallInv(q, containers) /\ q \in Call
               /\ LaunchKept(r, q) /\ ReloadKept(r, q) /\ LeaveKept(r, q) /\ PendingKept(r, q)
               /\ AwaitKept(r, q)
               /\ JobGoes(r, q)
  <2>1. \/ r.kind \in {"deploy", "reconcile", "up"} /\ Moves(c, Answered)
        \/ r.kind \notin {"deploy", "reconcile", "up"} /\ Moves(c, Skipped(r))
    BY <1>0, <1>1, FailsMoves DEF CallsInv
  <2>2. CASE r.kind \in {"deploy", "reconcile", "up"} /\ Moves(c, Answered)
    <3>1. CallInv(Answered, containers) /\ Answered \in Call
      BY AnsweredInv DEF CallInv
    <3>2. /\ LaunchKept(r, Answered) /\ LeaveKept(r, Answered) /\ PendingKept(r, Answered)
          /\ ReloadKept(r, Answered) /\ AwaitKept(r, Answered)
      BY <1>3, <1>4, <1>5, <2>2, AnsweredKeeps
    <3>3. JobGoes(r, Answered)
      BY <2>2 DEF JobGoes, Deletes, Registers, Answered
    <3> QED
      BY <2>2, <3>1, <3>2, <3>3
  <2>3. CASE r.kind \notin {"deploy", "reconcile", "up"} /\ Moves(c, Skipped(r))
    <3>1. CallInv(Skipped(r), containers) /\ Skipped(r) \in Call
      BY <1>3, <1>4, SkippedInv DEF CallInv
    <3>2. /\ LaunchKept(r, Skipped(r)) /\ LeaveKept(r, Skipped(r)) /\ PendingKept(r, Skipped(r))
          /\ ReloadKept(r, Skipped(r)) /\ AwaitKept(r, Skipped(r))
      BY <1>3, <1>4, <1>5, SkippedKeeps
    <3>3. \A m : Deletes(r, m) => Deletes(Skipped(r), m)
      BY <1>3 DEF Deletes, Skipped
    <3>4. ASSUME Registers(Skipped(r))
          PROVE  Registers(r) /\ Skipped(r).names = r.names /\ r.kind = "restore"
      BY <1>3, <2>3, <3>4 DEF Registers, Registering, Skipped
    <3>5. ASSUME Registers(Skipped(r)), NEW m \in r.names \ Strange', nameToId[m] # 0 \/ ToCome(r, m)
          PROVE  nameToId'[m] # 0 \/ ToCome(Skipped(r), m)
      <4>1. m # r.todo[1].name
        BY <1>2, <1>4, <1>6, <3>4, <3>5
      <4> QED
        BY <1>3, <1>4, <1>6, <3>5, <4>1, OthersToCome
    <3>6. JobGoes(r, Skipped(r))
      BY <3>3, <3>4, <3>5 DEF JobGoes
    <3> QED
      BY <2>3, <3>1, <3>2, <3>6
  <2> QED
    BY <2>1, <2>2, <2>3
<1>8. /\ CallsGrow /\ DOMAIN calls' = DOMAIN calls /\ calls'[c] = q
      /\ \A d \in DOMAIN calls : calls'[d] = calls[d] \/ d = c
  BY <1>0, <1>7, MoveGrows
<1>9. Calm /\ NamedSame(containers, containers')
  BY DEF Calm, NamedSame, Ids, Runs
<1>10. Shape'
  BY <1>0, <1>1, <1>2, <1>4, <1>6 DEF Shape, Ids
<1>11. CallsInv' /\ ReloadInv' /\ Family' /\ Tended' /\ Waits' /\ Gone' /\ Closings'
  BY <1>1, <1>3, <1>5, <1>6, <1>7, MoveKeepsRest DEF Pending
<1>12. RegistryInv'
  <2>1. \A d \in DOMAIN calls : calls'[d] = calls[d] \/ LaunchKept(calls[d], calls'[d])
    BY <1>1, <1>7, <1>8
  <2> QED
    BY <1>0, <1>6, <1>8, <1>9, <2>1, RegistryKept
<1>13. JobInv'
  <2>1. ASSUME NEW d \in DOMAIN calls
        PROVE  JobGoes(calls[d], calls'[d])
    <3>1. CASE calls'[d] = calls[d]
      BY <1>6, <3>1 DEF JobGoes
    <3>2. CASE d = c
      BY <1>1, <1>7, <1>8, <3>2
    <3> QED
      BY <1>8, <3>1, <3>2
  <2>2. \A m \in jobs \ Strange' : nameToId[m] # 0 => nameToId'[m] # 0
    BY <1>6
  <2> QED
    BY <1>0, <1>6, <1>8, <2>1, <2>2, JobGoesOn
<1>14. Listed'
  BY <1>0, <1>6, <1>9, ListedKept
<1> QED
  BY <1>10, <1>11, <1>12, <1>13, <1>14 DEF OrchestratorInv, ChildInv

\* What up() does to its request when it starts a child.
LEMMA StartIs ==
    ASSUME OrchestratorInv, NEW c \in DOMAIN calls, Goes(c, "go"), Head1(c).op = "up",
           containers' = Append(containers, Fresh(Head1(c).name)),
           nameToId' = [nameToId EXCEPT ![Head1(c).name] = Len(containers) + 1], HistoryGrows,
           IF Head1(c).name \in Clustered
           THEN calls' = [calls EXCEPT ![c].at = "ready", ![c].todo[1].id = Len(containers) + 1]
           ELSE NextStep(c)
    PROVE  \E q \in Call :
              /\ Moves(c, q) /\ CallInv(q, containers')
              /\ Launches(q) => q.todo[1].name = Head1(c).name /\ q.todo[1].id = Len(containers) + 1
              /\ ~Reloads(q) /\ ~Leaves(q) /\ q.at \notin Stopping /\ PendingKept(calls[c], q) /\ JobGoes(calls[c], q)
<1>1. PICK r : r = calls[c]
  OBVIOUS
<1>2. PICK n : n = Head1(c).name
  OBVIOUS
<1>3. PICK new : new = Len(containers) + 1
  OBVIOUS
<1>0. Shape /\ CallsInv /\ Family
  BY DEF OrchestratorInv, ChildInv
<1>4. r.at = "go" /\ r.todo # <<>>
  BY <1>1 DEF Goes
<1>5. /\ r \in Call /\ CallInv(r, containers) /\ Head1(c) = r.todo[1] /\ Head1(c) \in Steps
      /\ StepInv(r, Head1(c), containers) /\ n \in Names
  BY <1>0, <1>1, <1>2, <1>4, Going, StepFields
<1>6. Fresh(n) \in Container /\ Fresh(n).name = n
  BY <1>0, <1>5, FreshIs
<1>7. /\ new \in Nat /\ new # 0 /\ new \in DOMAIN containers' /\ containers'[new].name = n
      /\ NamedSame(containers, containers')
  <2>1. Len(containers) \in Nat /\ Ids = 1..Len(containers)
    BY <1>0 DEF Shape, Ids
  <2>2. /\ DOMAIN containers' = 1..(Len(containers) + 1) /\ containers'[Len(containers) + 1] = Fresh(n)
        /\ \A i \in 1..Len(containers) : containers'[i] = containers[i]
    BY <1>0, <1>2, <1>6, <2>1 DEF Shape
  <2> QED
    BY <1>3, <1>6, <2>1, <2>2 DEF NamedSame, Ids
<1>8. CallInv(r, containers')
  BY <1>5, <1>7, CallKeeps
<1>9. \A m \in r.names \ Strange' : nameToId[m] # 0 \/ m = n => nameToId'[m] # 0
  <2>1. r.names \subseteq Names
    BY <1>5, CallFields
  <2> QED
    BY <1>0, <1>2, <1>3, <1>7, <2>1 DEF Shape
<1>10. CASE n \in Clustered
  <2>1. PICK s : s = Step("up", n, new)
    OBVIOUS
  <2>2. PICK q : q = Turned(r, s, "ready")
    OBVIOUS
  <2>3. s \in Steps /\ s.op = "up" /\ s.name = n /\ s.id = new
    BY <1>5, <1>7, <2>1 DEF Step, Steps
  <2>4. Moves(c, q)
    BY <1>0, <1>1, <1>2, <1>3, <1>4, <1>10, <2>1, <2>2, LaunchMoves DEF CallsInv
  <2>5. q.at = "ready" /\ q.kind = r.kind /\ q.names = r.names /\ q.todo # <<>> /\ q.todo[1] = s
    BY <1>4, <1>5, <2>2, <2>3, TurnedFields
  <2>6. PlaceInv(q)
    BY <1>7, <2>3, <2>5 DEF PlaceInv, Stopping
  <2>7. r.kind # "close"
    BY <1>5 DEF StepInv
  <2>8. StepInv(r, s, containers')
    BY <1>7, <2>3, <2>7 DEF StepInv
  <2>9. CallInv(q, containers')
    BY <1>4, <1>8, <2>2, <2>3, <2>6, <2>8, TurnedInv DEF Waiting
  <2>10. ~Reloads(q) /\ ~Leaves(q) /\ q.at \notin Stopping /\ PendingKept(r, q)
    BY <1>4, <2>3, <2>5 DEF Reloads, Leaves, PendingKept, Closes, Stopping
  <2>11. JobGoes(r, q)
    <3>1. \A m : Deletes(r, m) => Deletes(q, m)
      BY <2>5 DEF Deletes
    <3>2. Registers(q) => Registers(r) /\ q.names = r.names
      BY <1>4, <2>5 DEF Registers
    <3>3. ASSUME NEW m \in r.names \ Strange', nameToId[m] # 0 \/ ToCome(r, m)
          PROVE  nameToId'[m] # 0 \/ ToCome(q, m)
      <4>1. m = n => nameToId'[m] # 0
        BY <1>9
      <4>2. m # n /\ ToCome(r, m) => ToCome(q, m)
        BY <1>2, <1>4, <1>5, <2>2, <2>3, OthersToCome
      <4> QED
        BY <1>9, <3>3, <4>1, <4>2
    <3> QED
      BY <3>1, <3>2, <3>3 DEF JobGoes
  <2> QED
    BY <1>1, <1>2, <1>3, <2>3, <2>4, <2>5, <2>9, <2>10, <2>11 DEF CallInv
<1>11. CASE n \notin Clustered
  <2>1. PICK q : q = Skipped(r)
    OBVIOUS
  <2>2. Moves(c, q)
    BY <1>0, <1>1, <1>2, <1>11, <2>1, NextStepMoves DEF CallsInv
  <2>3. CallInv(q, containers')
    BY <1>4, <1>8, <2>1, SkippedInv
  <2>4. q.at = "go" /\ q.kind = r.kind /\ q.names = r.names
    BY <2>1 DEF Skipped
  <2>5. ~Reloads(q) /\ ~Leaves(q) /\ ~Launches(q) /\ q.at \notin Stopping /\ PendingKept(r, q)
    BY <1>4, <2>4 DEF Reloads, Leaves, Launches, PendingKept, Closes, Waiting, Stopping
  <2>6. JobGoes(r, q)
    <3>1. \A m : Deletes(r, m) => Deletes(q, m)
      BY <2>4 DEF Deletes
    <3>2. Registers(q) => Registers(r) /\ q.names = r.names
      BY <1>4, <2>4 DEF Registers
    <3>3. ASSUME NEW m \in r.names \ Strange', nameToId[m] # 0 \/ ToCome(r, m)
          PROVE  nameToId'[m] # 0 \/ ToCome(q, m)
      <4>1. m = n => nameToId'[m] # 0
        BY <1>9
      <4>2. m # n /\ ToCome(r, m) => ToCome(q, m)
        BY <1>2, <1>4, <1>5, <2>1, OthersToCome
      <4> QED
        BY <1>9, <3>3, <4>1, <4>2
    <3> QED
      BY <3>1, <3>2, <3>3 DEF JobGoes
  <2> QED
    BY <1>1, <2>2, <2>3, <2>5, <2>6 DEF CallInv
<1> QED
  BY <1>10, <1>11

LEMMA StartsOne ==
    ASSUME OrchestratorInv, NEW c \in DOMAIN calls, Goes(c, "go"), Head1(c).op = "up",
           NEW n, n = Head1(c).name, NEW old, old = nameToId[n], NEW new, new = Len(containers) + 1,
           NameIsFree(old), Forks(new, n), containers' = Append(containers, Fresh(n)),
           processes' = (processes \ {old}) \cup {new}, nameToId' = [nameToId EXCEPT ![n] = new],
           Races(n, Holds(c, n, {"up", "down", "restart", "reload", "delete", "replace"})),
           IF n \in Clustered THEN calls' = [calls EXCEPT ![c].at = "ready", ![c].todo[1].id = new]
           ELSE NextStep(c),
           UNCHANGED <<reloading, jobs, phase, setbacks, slow, torn, stray, late>>
    PROVE  OrchestratorInv'
<1>0. /\ Shape /\ CallsInv /\ RegistryInv /\ ReloadInv /\ JobInv
      /\ Family /\ Tended /\ Waits /\ Listed /\ Gone /\ Closings
  BY DEF OrchestratorInv, ChildInv
<1>1. calls[c].at = "go" /\ calls[c].todo # <<>>
  BY DEF Goes
<1>2. /\ Head1(c) = calls[c].todo[1] /\ Head1(c) \in Steps /\ StepInv(calls[c], Head1(c), containers)
      /\ n \in Names /\ ~Closes(calls[c]) /\ ~Reloads(calls[c])
  BY <1>0, <1>1, Going, StepFields DEF StepInv, Closes, Reloads, Waiting
<1>3. HistoryGrows /\ raced' \subseteq raced \cup {n}
      /\ (Holds(c, n, {"up", "down", "restart", "reload", "delete", "replace"}) => n \in raced')
  BY DEF HistoryGrows, Races
<1>4. PICK q \in Call :
         /\ Moves(c, q) /\ CallInv(q, containers')
         /\ Launches(q) => q.todo[1].name = n /\ q.todo[1].id = new
         /\ ~Reloads(q) /\ ~Leaves(q) /\ q.at \notin Stopping /\ PendingKept(calls[c], q) /\ JobGoes(calls[c], q)
  BY <1>3, StartIs
<1>5. /\ CallsGrow /\ DOMAIN calls' = DOMAIN calls /\ calls'[c] = q
      /\ \A d \in DOMAIN calls : calls'[d] = calls[d] \/ d = c
  BY <1>0, <1>4, MoveGrows
<1>6. /\ Fresh(n) \in Container /\ Fresh(n).name = n /\ Fresh(n).stopping = FALSE
      /\ Fresh(n).child = NewChild /\ Fresh(n).backoffs = 0
  BY <1>0, <1>2, FreshIs
<1>7. /\ Len(containers) \in Nat /\ Ids = 1..Len(containers) /\ new \in Nat /\ new # 0 /\ new \notin Ids
      /\ containers' \in Seq(Container) /\ Len(containers') = new
      /\ DOMAIN containers' = Ids \cup {new} /\ containers'[new] = Fresh(n)
      /\ \A i \in Ids : containers'[i] = containers[i]
  <2>1. containers \in Seq(Container)
    BY <1>0 DEF Shape
  <2>2. Len(containers) \in Nat /\ DOMAIN containers = 1..Len(containers)
    BY <2>1
  <2>3. /\ containers' \in Seq(Container) /\ Len(containers') = Len(containers) + 1
        /\ DOMAIN containers' = 1..(Len(containers) + 1) /\ containers'[Len(containers) + 1] = Fresh(n)
        /\ \A i \in 1..Len(containers) : containers'[i] = containers[i]
    BY <1>6, <2>1, <2>2
  <2> QED
    BY <2>2, <2>3 DEF Ids
<1>8. NamedSame(containers, containers')
  BY <1>7 DEF NamedSame, Ids
<1>9. /\ nameToId'[n] = new /\ \A m \in Names : m # n => nameToId'[m] = nameToId[m]
      /\ nameToId' \in [Names -> 0..Len(containers')] /\ old \in 0..Len(containers)
  BY <1>0, <1>2, <1>7 DEF Shape
<1>10. old # 0 => old \in processes /\ old \in Ids /\ containers[old].name = n
  BY <1>0, <1>2 DEF RegistryInv, NamesAgree, Shape
<1>11. Shape'
  BY <1>0, <1>2, <1>3, <1>7, <1>9 DEF Shape, Ids
<1>12. CallsInv'
  BY <1>0, <1>4, <1>8, CallsMove
<1>13. NamesAgree'
  <2>1. /\ \A m \in Names : nameToId[m] # 0 => nameToId[m] \in processes /\ containers[nameToId[m]].name = m
        /\ \A j \in processes : containers[j].name \notin raced => nameToId[containers[j].name] = j
    BY <1>0 DEF RegistryInv, NamesAgree
  <2>2. ASSUME NEW m \in Names, nameToId'[m] # 0
        PROVE  nameToId'[m] \in processes' /\ containers'[nameToId'[m]].name = m
    <3>1. CASE m = n
      BY <1>6, <1>7, <1>9, <3>1
    <3>2. CASE m # n
      <4>1. nameToId'[m] = nameToId[m] /\ nameToId[m] \in processes /\ containers[nameToId[m]].name = m
        BY <1>9, <2>1, <2>2, <3>2
      <4>2. nameToId[m] # old /\ nameToId[m] \in Ids
        BY <1>0, <1>10, <2>2, <3>2, <4>1 DEF Shape
      <4> QED
        BY <1>7, <4>1, <4>2
    <3> QED
      BY <3>1, <3>2
  <2>3. ASSUME NEW j \in processes', containers'[j].name \notin raced'
        PROVE  nameToId'[containers'[j].name] = j
    <3>1. CASE j = new
      BY <1>6, <1>7, <1>9, <3>1
    <3>2. CASE j # new
      <4>1. j \in processes /\ j # old /\ j \in Ids /\ containers'[j] = containers[j]
        BY <1>0, <1>7, <2>3, <3>2 DEF Shape
      <4>2. nameToId[containers[j].name] = j
        BY <1>3, <2>1, <2>3, <4>1 DEF HistoryGrows
      <4>3. containers[j].name \in Names
        <5>1. containers[j] \in Container
          BY <1>0, <4>1 DEF Shape, Ids
        <5> QED
          BY <5>1 DEF Container
      <4>4. containers[j].name # n
        BY <4>1, <4>2
      <4> QED
        BY <1>9, <4>1, <4>2, <4>3, <4>4
    <3> QED
      BY <3>1, <3>2
  <2> QED
    BY <2>2, <2>3 DEF NamesAgree
<1>14. Unnamed'
  <2> SUFFICES ASSUME NEW d \in DOMAIN calls, Launches(calls'[d]), calls'[d].todo[1].name \notin raced'
               PROVE  nameToId'[calls'[d].todo[1].name] \in {0, calls'[d].todo[1].id}
    BY <1>5 DEF Unnamed
  <2>1. CASE d = c
    BY <1>4, <1>5, <1>9, <2>1
  <2>2. CASE d # c
    <3>1. calls'[d] = calls[d] /\ calls[d].todo[1].name \notin raced
      BY <1>3, <1>5, <2>2 DEF HistoryGrows
    <3>2. calls[d].todo # <<>> /\ calls[d].at = "ready" /\ calls[d].todo[1].op = "up"
      BY <1>0, <3>1 DEF CallsInv, CallInv, PlaceInv, Launches
    <3>3. Head1(d) = calls[d].todo[1] /\ Head1(d).name \in Names
      BY <1>0, <3>2, Going, StepFields
    <3>4. calls[d].todo[1].name = n => Holds(c, n, {"up", "down", "restart", "reload", "delete", "replace"})
      BY <2>2, <3>2, <3>3 DEF Holds, Waiting
    <3>5. calls[d].todo[1].name # n
      BY <1>3, <3>1, <3>4
    <3>6. nameToId[calls[d].todo[1].name] \in {0, calls[d].todo[1].id}
      BY <1>0, <3>1 DEF RegistryInv, Unnamed
    <3> QED
      BY <1>9, <3>1, <3>3, <3>5, <3>6
  <2> QED
    BY <2>1, <2>2
<1>15. ReloadInv'
  <2>1. \A d \in DOMAIN calls : calls'[d] = calls[d] \/ ReloadKept(calls[d], calls'[d])
    BY <1>2, <1>4, <1>5 DEF ReloadKept
  <2> QED
    BY <1>0, <1>5, <2>1, ReloadKeeps
<1>16. JobInv'
  <2>1. \A m \in Names : nameToId[m] # 0 => nameToId'[m] # 0
    BY <1>7, <1>9
  <2>2. ASSUME NEW d \in DOMAIN calls
        PROVE  JobGoes(calls[d], calls'[d])
    <3>1. CASE calls'[d] = calls[d]
      <4>1. calls[d].names \subseteq Names
        BY <1>0, CallFields DEF CallsInv
      <4> QED
        BY <2>1, <3>1, <4>1 DEF JobGoes
    <3>2. CASE d = c
      BY <1>4, <1>5, <3>2
    <3> QED
      BY <1>5, <3>1, <3>2
  <2>3. \A m \in jobs \ Strange' : nameToId[m] # 0 => nameToId'[m] # 0
    BY <1>0, <2>1 DEF Shape
  <2> QED
    BY <1>0, <1>3, <1>5, <2>2, <2>3, JobGoesOn
<1>21. /\ Kids' = Kids \cup {NewChild} /\ Family'
       /\ \A k \in Kids : children'[k] = children[k]
       /\ children'[NewChild].of = new /\ children'[NewChild].waiters = {}
       /\ children'[NewChild].state \in {"launching", "live"}
  <2>1. new \in Ids' /\ Ids' = Ids \cup {new} /\ containers'[new].child = NewChild
        /\ \A j \in Ids : j # new => containers'[j].child = containers[j].child
    BY <1>6, <1>7 DEF Ids
  <2> QED
    BY <1>0, <1>5, <2>1, ForkIs
<1>22. \A j \in Ids : Runs(j, containers', children') => Runs(j, containers, children)
  BY <1>7, <1>21 DEF Runs, Kids
<1>17. Listed'
  <2> SUFFICES ASSUME NEW j \in Ids \cup {new}, Runs(j, containers', children'),
                      containers'[j].name \notin raced' \cup slow \cup torn, ~late
               PROVE  j \in processes'
    BY <1>7 DEF Listed, Ids
  <2>1. CASE j # new
    <3>1. j \in Ids /\ Runs(j, containers, children) /\ containers[j].name \notin raced' \cup slow \cup torn
      BY <1>7, <1>22, <2>1
    <3>2. j \in processes
      BY <1>0, <1>3, <3>1 DEF Listed, HistoryGrows
    <3>3. j # old
      <4> SUFFICES ASSUME j = old
                   PROVE  n \in raced'
        BY <1>7, <1>10, <3>1
      <4>1. j # 0 /\ containers[old].name = n
        BY <1>7, <1>10, <3>1
      <4>2. Holds(c, containers[old].name, {"up", "down", "restart", "reload", "delete", "replace"})
        BY <1>1, <1>2, <3>1, FreeRaces DEF NameIsFree, Pending
      <4> QED
        BY <1>3, <4>1, <4>2
    <3> QED
      BY <3>2, <3>3
  <2> QED
    BY <2>1
<1>23. ASSUME NEW d \in DOMAIN calls, calls'[d].at \in Stopping
       PROVE  d # c /\ calls'[d] = calls[d] /\ calls[d].todo[1].id \in Ids
  <2>1. d # c /\ calls'[d] = calls[d]
    BY <1>4, <1>5, <1>23
  <2>2. /\ Head1(d) = calls[d].todo[1] /\ StepInv(calls[d], Head1(d), containers) /\ Head1(d).id # 0
    <3>1. PlaceInv(calls[d]) /\ calls[d].at \in Stopping
      BY <1>0, <1>23, <2>1 DEF CallsInv, CallInv
    <3>2. calls[d].todo # <<>> /\ calls[d].todo[1].id # 0
      BY <3>1 DEF PlaceInv, Stopping
    <3> QED
      BY <1>0, <3>2, Going
  <2> QED
    BY <2>1, <2>2 DEF StepInv, Ids
<1>24. Sole(new)' /\ Attended(new)'
  <2>1. \A k \in Kids' : children'[k].of = new => k = NewChild
    BY <1>0, <1>7, <1>21, KidIsLive
  <2>2. Sole(new)'
    BY <1>6, <1>7, <1>21, <2>1 DEF Sole, Asked, ChildOf
  <2>3. \A d \in DOMAIN calls' : ~AwaitedAt(calls'[d], new, {"stop"}) /\ ~Restarts(calls'[d], new)
    BY <1>5, <1>7, <1>23 DEF AwaitedAt, Restarts, Stopping
  <2>4. Attended(new)'
    BY <2>3 DEF Attended
  <2> QED
    BY <2>2, <2>4
<1>25. ASSUME NEW j \in Ids, containers[j].name \notin torn
       PROVE  Sole(j)' /\ Attended(j)'
  <2>1. Sole(j) /\ Attended(j)
    BY <1>0, <1>25 DEF Tended
  <2>2. \A k \in DOMAIN children' : children'[k].of = j => KidSame(k)
    BY <1>7, <1>21 DEF KidSame, Kids
  <2>3. \A d \in DOMAIN calls' : Aside(d, j)
    BY <1>5, <1>23 DEF Aside, AwaitedAt, Restarts, Stopping
  <2> QED
    BY <1>7, <2>1, <2>2, <2>3, TendedAt
<1>18. Tended'
  <2>1. Ids' = Ids \cup {new} /\ torn' = torn
    BY <1>7 DEF Ids
  <2> QED
    BY <1>7, <1>24, <1>25, <2>1 DEF Tended
<1>26. Waits'
  <2> SUFFICES ASSUME phase # "down", NEW k \in Kids', NEW d \in children'[k].waiters
               PROVE  /\ AwaitedAt(calls'[d], children'[k].of, {"stop"})
                      /\ \A l \in Kids' : d \in children'[l].waiters => k = l
    BY DEF Waits
  <2>1. k \in Kids /\ d \in children[k].waiters /\ children'[k] = children[k]
    BY <1>21
  <2>2. \A l \in Kids' : d \in children'[l].waiters => l \in Kids /\ d \in children[l].waiters
    BY <1>21
  <2>3. /\ AwaitedAt(calls[d], children[k].of, {"stop"}) /\ d \in DOMAIN calls
        /\ \A l \in Kids : d \in children[l].waiters => k = l
    BY <1>0, <2>1, KidIsLive DEF Waits
  <2>4. d # c
    BY <1>1, <2>3 DEF AwaitedAt
  <2> QED
    BY <1>5, <2>1, <2>2, <2>3, <2>4
<1>19. Gone'
  <2>1. \A d \in DOMAIN calls : calls'[d] = calls[d] \/ LeaveKept(calls[d], calls'[d])
    BY <1>4, <1>5 DEF LeaveKept
  <2> QED
    BY <1>0, <1>3, <1>5, <1>22, <2>1, GoneKept DEF HistoryGrows
<1>20. Closings'
  <2>1. \A d \in DOMAIN calls : calls'[d] = calls[d] \/ PendingKept(calls[d], calls'[d])
    BY <1>4, <1>5
  <2> QED
    BY <1>0, <1>1, <1>2, <1>5, <2>1, OtherCloses DEF Pending
<1> QED
  BY <1>11, <1>12, <1>13, <1>14, <1>15, <1>16, <1>17, <1>18, <1>19, <1>20, <1>21, <1>26
  DEF OrchestratorInv, ChildInv, RegistryInv

LEMMA StartsKeep ==
    ASSUME OrchestratorInv, NEW c \in DOMAIN calls, Starts(c)
    PROVE  OrchestratorInv'
<1>1. PICK n : n = Head1(c).name
  OBVIOUS
<1>2. PICK old : old = nameToId[n]
  OBVIOUS
<1>3. PICK new : new = Len(containers) + 1
  OBVIOUS
<1>4. Goes(c, "go") /\ Head1(c).op = "up" /\ UNCHANGED <<reloading, jobs, phase, setbacks, slow, torn, late>>
  BY DEF Starts
<1>5. CASE /\ Fails(c) /\ UNCHANGED <<containers, children, registry, raced>>
           /\ stray' = IF calls[c].kind = "restore" THEN stray \cup {n} ELSE stray
  BY <1>1, <1>4, <1>5, StartsNot
<1>6. CASE /\ NameIsFree(old) /\ containers' = Append(containers, Fresh(n)) /\ Forks(new, n)
           /\ processes' = (processes \ {old}) \cup {new} /\ nameToId' = [nameToId EXCEPT ![n] = new]
           /\ Races(n, Holds(c, n, {"up", "down", "restart", "reload", "delete", "replace"}))
           /\ IF n \in Clustered THEN calls' = [calls EXCEPT ![c].at = "ready", ![c].todo[1].id = new]
              ELSE NextStep(c)
           /\ UNCHANGED stray
  BY <1>1, <1>2, <1>3, <1>4, <1>6, StartsOne
<1> QED
  BY <1>1, <1>2, <1>3, <1>5, <1>6 DEF Starts, Fresh
----------------------------------------------------------------------------
(* Requests begin. *)

Kinds == {"up", "restore", "deploy", "reconcile", "down", "restart", "reload", "delete"}

LEMMA BeginsKeep ==
    ASSUME OrchestratorInv, NEW kind \in Kinds, NEW todo \in Seq(Steps), Begins(kind, todo),
           \A k \in DOMAIN todo :
               /\ todo[k].op # "close"
               /\ todo[k].id # 0 => todo[k].id \in Ids /\ containers[todo[k].id].name = todo[k].name,
           kind \in Registering =>
               \A k \in DOMAIN todo : nameToId[todo[k].name] # 0 \/ todo[k].op = "up"
    PROVE  OrchestratorInv'
<1>1. PICK r : r = [kind |-> kind, todo |-> todo, at |-> "go", names |-> {todo[k].name : k \in DOMAIN todo}]
  OBVIOUS
<1>0. /\ Shape /\ CallsInv /\ RegistryInv /\ ReloadInv /\ JobInv
      /\ Family /\ Tended /\ Waits /\ Listed /\ Gone /\ Closings
  BY DEF OrchestratorInv, ChildInv
<1>2. /\ phase # "down" /\ calls' = Append(calls, r) /\ late' = (late \/ phase = "stopping")
      /\ UNCHANGED <<containers, children, registry, reloading, jobs, phase, setbacks, raced, slow, torn, stray>>
      /\ UNCHANGED <<processes, nameToId>>
  BY <1>1 DEF Begins, registry
<1>3. r.kind = kind /\ r.todo = todo /\ r.at = "go" /\ r.names = {todo[k].name : k \in DOMAIN todo}
  BY <1>1
<1>4. \A k \in DOMAIN todo : todo[k] \in Steps /\ todo[k].name \in Names
  <2>1. \A k \in DOMAIN todo : todo[k] \in Steps
    OBVIOUS
  <2> QED
    BY <2>1, StepFields
<1>5. r \in Call
  <2>1. r.names \subseteq Names
    BY <1>3, <1>4
  <2> QED
    BY <1>1, <1>3, <2>1 DEF Call, Kinds, Steps, Waiting
<1>6. CallInv(r, containers)
  <2>1. PlaceInv(r)
    BY <1>3 DEF PlaceInv, Stopping
  <2>2. \A k \in DOMAIN r.todo : StepInv(r, r.todo[k], containers)
    BY <1>3 DEF StepInv, Kinds, Ids
  <2> QED
    BY <1>5, <2>1, <2>2 DEF CallInv
<1>7. PICK new \in Nat : new = Len(calls) + 1
  BY <1>0 DEF CallsInv
<1>8. /\ calls' \in Seq(Call) /\ DOMAIN calls' = DOMAIN calls \cup {new} /\ calls'[new] = r
      /\ new \notin DOMAIN calls /\ \A d \in DOMAIN calls : calls'[d] = calls[d]
  BY <1>0, <1>2, <1>5, <1>7 DEF CallsInv
<1>9. CallsGrow /\ HistoryGrows /\ Calm /\ NamedSame(containers, containers') /\ DOMAIN containers' = Ids
  BY <1>2, <1>3, <1>8 DEF CallsGrow, HistoryGrows, Calm, NamedSame, Ids, Runs
<1>10. Shape'
  BY <1>0, <1>2 DEF Shape, Ids
<1>11. CallsInv'
  <2>1. \A d \in DOMAIN calls' : CallInv(calls'[d], containers)
    BY <1>0, <1>6, <1>8 DEF CallsInv
  <2> QED
    BY <1>2, <1>8, <2>1 DEF CallsInv
<1>12. RegistryInv'
  BY <1>0, <1>2, <1>8, <1>9, RegistryKept
<1>13. ReloadInv'
  <2>1. ~Reloads(r)
    BY <1>3 DEF Reloads, Waiting
  <2> QED
    BY <1>0, <1>2, <1>8, <1>9, <2>1, ReloadKeeps
<1>14. JobInv'
  <2>1. ASSUME Registers(r), NEW n \in r.names
        PROVE  nameToId[n] # 0 \/ ToCome(r, n)
    <3>1. PICK k \in DOMAIN todo : todo[k].name = n
      BY <1>3, <2>1
    <3>2. nameToId[n] # 0 \/ todo[k].op = "up"
      BY <1>3, <2>1, <3>1 DEF Registers
    <3> QED
      BY <1>3, <3>1, <3>2 DEF ToCome
  <2>2. \A d \in DOMAIN calls' \ DOMAIN calls : Registers(calls'[d]) =>
            \A n \in calls'[d].names \ Strange : nameToId[n] # 0 \/ ToCome(calls'[d], n)
    BY <1>8, <2>1
  <2> QED
    BY <1>0, <1>2, <1>8, <1>9, <2>2, JobKeeps
<1>15. Listed'
  BY <1>0, <1>2, <1>9, ListedKept
<1>16. Family' /\ Tended' /\ Waits'
  BY <1>2, <1>8, <1>9, ChildrenKept
<1>17. Gone'
  <2>1. \A i \in Ids : Runs(i, containers', children') => Runs(i, containers, children)
    BY <1>2 DEF Runs
  <2> QED
    BY <1>0, <1>2, <1>8, <1>9, <2>1, GoneKept DEF HistoryGrows
<1>18. Closings'
  <2>1. \A d \in DOMAIN calls' : Closes(calls'[d]) => phase' = "stopping"
    BY <1>0, <1>2, <1>3, <1>8 DEF Closings, Closes, Kinds
  <2>2. phase' \in {"up", "closing"} => ~late'
    BY <1>0, <1>2 DEF Closings
  <2>3. phase' # "down" /\ (phase' = "stopping" => late')
    BY <1>2
  <2> QED
    BY <2>1, <2>2, <2>3 DEF Closings
<1> QED
  BY <1>10, <1>11, <1>12, <1>13, <1>14, <1>15, <1>16, <1>17, <1>18 DEF OrchestratorInv, ChildInv

\* A list of steps, by its elements.
LEMMA StepsMapped ==
    ASSUME NEW n \in Nat, NEW f, DOMAIN f = 1..n, f = [k \in 1..n |-> f[k]], \A k \in 1..n : f[k] \in Steps
    PROVE  f \in Seq(Steps)
<1>1. f \in [1..n -> Steps]
  OBVIOUS
<1> QED
  BY <1>1

\* Two lists of steps, one after the other.
LEMMA StepsJoined ==
    ASSUME NEW s \in Seq(Steps), NEW t \in Seq(Steps)
    PROVE  /\ s \o t \in Seq(Steps)
           /\ \A k \in DOMAIN (s \o t) : \/ \E j \in DOMAIN s : (s \o t)[k] = s[j]
                                        \/ \E j \in DOMAIN t : (s \o t)[k] = t[j]
<1>1. s \o t \in Seq(Steps) /\ Len(s \o t) = Len(s) + Len(t)
  OBVIOUS
<1>2. \A k \in 1..(Len(s) + Len(t)) : (s \o t)[k] = IF k <= Len(s) THEN s[k] ELSE t[k - Len(s)]
  OBVIOUS
<1>3. Len(s) \in Nat /\ Len(t) \in Nat /\ DOMAIN s = 1..Len(s) /\ DOMAIN t = 1..Len(t)
  OBVIOUS
<1>4. DOMAIN (s \o t) = 1..(Len(s) + Len(t))
  BY <1>1, <1>3
<1>5. ASSUME NEW k \in 1..(Len(s) + Len(t))
      PROVE  IF k <= Len(s) THEN k \in 1..Len(s) ELSE k - Len(s) \in 1..Len(t)
  BY <1>3
<1> QED
  BY <1>1, <1>2, <1>3, <1>4, <1>5

\* SetToSeqs lists each element of a finite set once.
LEMMA SeqsOf ==
    ASSUME NEW S, IsFiniteSet(S), NEW order \in SetToSeqs(S)
    PROVE  /\ Cardinality(S) \in Nat /\ order \in [1..Cardinality(S) -> S] /\ DOMAIN order = 1..Cardinality(S)
           /\ \A s \in S : \E k \in DOMAIN order : order[k] = s
<1>1. Cardinality(S) \in Nat
  BY FS_CardinalityType
<1>2. order \in [1..Cardinality(S) -> S] /\ \A i, j \in 1..Cardinality(S) : i # j => order[i] # order[j]
  BY DEF SetToSeqs
<1>3. order \in Injection(1..Cardinality(S), S)
  BY <1>2 DEF Injection, IsInjective
<1>4. Cardinality(1..Cardinality(S)) = Cardinality(S)
  BY <1>1, FS_Interval
<1>5. order \in Surjection(1..Cardinality(S), S)
  BY <1>3, <1>4, FS_Injection
<1> QED
  BY <1>1, <1>2, <1>5 DEF Surjection

LEMMA ListOf ==
    ASSUME NEW S, IsFiniteSet(S)
    PROVE  Cardinality(S) \in Nat /\ SetToSeq(S) \in [1..Cardinality(S) -> S]
<1>1. Cardinality(S) \in Nat /\ ExistsBijection(1..Cardinality(S), S)
  BY FS_CardinalityType
<1>2. \E f \in [1..Cardinality(S) -> S] : IsInjective(f)
  <2>1. Bijection(1..Cardinality(S), S) # {}
    BY <1>1 DEF ExistsBijection
  <2> QED
    BY <2>1 DEF Bijection, Injection
<1>3. SetToSeq(S) \in [1..Cardinality(S) -> S]
  BY <1>2 DEF SetToSeq
<1>4. QED
  BY <1>1, <1>3

LEMMA UpKeeps ==
    ASSUME OrchestratorInv, Up
    PROVE  OrchestratorInv'
<1>1. PICK n \in Names : Begins("up", <<Step("up", n, 0)>>)
  BY DEF Up
<1>2. PICK s : s = Step("up", n, 0)
  OBVIOUS
<1>3. s \in Steps /\ s.op = "up" /\ s.id = 0 /\ s.name = n
  BY <1>2 DEF Step, Steps
<1>4. <<s>> \in Seq(Steps) /\ DOMAIN <<s>> = {1} /\ <<s>>[1] = s
  BY <1>3
<1>5. Begins("up", <<s>>)
  BY <1>1, <1>2
<1>6. "up" \in Kinds
  BY DEF Kinds
<1>7. \A k \in DOMAIN <<s>> : <<s>>[k].op = "up" /\ <<s>>[k].id = 0
  BY <1>3, <1>4
<1> QED
  BY <1>4, <1>5, <1>6, <1>7, BeginsKeep

LEMMA IdsFinite ==
    ASSUME Shape
    PROVE  IsFiniteSet(processes) /\ \A i \in processes : i \in Nat \ {0} /\ containers[i].name \in Names
<1>1. containers \in Seq(Container) /\ processes \subseteq 1..Len(containers)
  BY DEF Shape, Ids
<1>2. Len(containers) \in Nat
  BY <1>1
<1>3. IsFiniteSet(processes)
  <2>1. IsFiniteSet(1..Len(containers))
    BY <1>2, FS_Interval
  <2> QED
    BY <1>1, <2>1, FS_Subset
<1>4. \A i \in processes : containers[i] \in Container
  BY <1>1
<1> QED
  BY <1>1, <1>2, <1>3, <1>4 DEF Container

LEMMA OnTargetsKeeps ==
    ASSUME OrchestratorInv, NEW op \in {"down", "restart", "reload", "delete"}, OnTargets(op)
    PROVE  OrchestratorInv'
<1>0. Shape
  BY DEF OrchestratorInv
<1>1. PICK T \in {{i} : i \in processes} \cup {processes} : \E order \in InOrder(T) :
          Begins(op, [k \in DOMAIN order |-> On(op, order[k])])
  BY DEF OnTargets
<1>2. PICK order \in SetToSeqs(T) : Begins(op, [k \in DOMAIN order |-> On(op, order[k])])
  BY <1>1 DEF InOrder
<1>3. IsFiniteSet(T) /\ T \subseteq processes
  BY <1>0, IdsFinite, FS_Subset
<1>4. PICK n \in Nat : DOMAIN order = 1..n /\ order \in [1..n -> T]
  BY <1>3, SeqsOf
<1>5. PICK todo : todo = [k \in 1..n |-> On(op, order[k])]
  OBVIOUS
<1>6. ASSUME NEW k \in 1..n
      PROVE  /\ todo[k] \in Steps /\ todo[k].op = op /\ todo[k].id = order[k]
             /\ order[k] \in Ids /\ todo[k].name = containers[order[k]].name
  <2>1. order[k] \in processes /\ order[k] \in Nat /\ containers[order[k]].name \in Names
    BY <1>0, <1>3, <1>4, IdsFinite
  <2>2. todo[k] = Step(op, containers[order[k]].name, order[k])
    BY <1>5 DEF On
  <2> QED
    BY <1>0, <2>1, <2>2 DEF Step, Steps, Shape
<1>7. todo \in Seq(Steps) /\ DOMAIN todo = 1..n
  BY <1>5, <1>6, StepsMapped
<1>8. Begins(op, todo)
  BY <1>2, <1>4, <1>5
<1>9. op \in Kinds /\ op \notin Registering
  BY DEF Kinds, Registering
<1>10. \A k \in DOMAIN todo :
          /\ todo[k].op # "close"
          /\ todo[k].id # 0 => todo[k].id \in Ids /\ containers[todo[k].id].name = todo[k].name
  BY <1>6, <1>7
<1> QED
  BY <1>7, <1>8, <1>9, <1>10, BeginsKeep

LEMMA RestoreKeeps ==
    ASSUME OrchestratorInv, Restore
    PROVE  OrchestratorInv'
<1>1. PICK T \in SUBSET Names : \E order \in SetToSeqs(T) :
          Begins("restore", [k \in DOMAIN order |-> Step("up", order[k], 0)])
  BY DEF Restore
<1>2. PICK order \in SetToSeqs(T) : Begins("restore", [k \in DOMAIN order |-> Step("up", order[k], 0)])
  BY <1>1
<1>3. IsFiniteSet(T)
  BY OrchestratorAssumption, FS_Subset
<1>4. PICK n \in Nat : DOMAIN order = 1..n /\ order \in [1..n -> T]
  BY <1>3, SeqsOf
<1>5. PICK todo : todo = [k \in 1..n |-> Step("up", order[k], 0)]
  OBVIOUS
<1>6. ASSUME NEW k \in 1..n
      PROVE  todo[k] \in Steps /\ todo[k].op = "up" /\ todo[k].id = 0
  <2>1. order[k] \in Names /\ todo[k] = Step("up", order[k], 0)
    BY <1>4, <1>5
  <2> QED
    BY <2>1 DEF Step, Steps
<1>7. todo \in Seq(Steps) /\ DOMAIN todo = 1..n
  BY <1>5, <1>6, StepsMapped
<1>8. Begins("restore", todo)
  BY <1>2, <1>4, <1>5
<1>9. "restore" \in Kinds
  BY DEF Kinds
<1> QED
  BY <1>6, <1>7, <1>8, <1>9, BeginsKeep

LEMMA ReconcileKeeps ==
    ASSUME OrchestratorInv, Reconcile
    PROVE  OrchestratorInv'
<1> DEFINE running == {n \in Names : nameToId[n] # 0}
           OpFor(n, changed) ==
               IF n \notin running THEN "up" ELSE IF n \in changed THEN "replace" ELSE "reload"
           Gone1(wanted) == SetToSeq(running \ wanted)
           Kept(wanted) == SetToSeq(wanted)
<1>1. PICK wanted \in SUBSET Names, changed \in SUBSET Names, kind \in {"reconcile", "deploy"} :
          Begins(kind, [k \in DOMAIN Gone1(wanted) |-> Step("delete", Gone1(wanted)[k], 0)]
                       \o [k \in DOMAIN Kept(wanted) |->
                              Step(OpFor(Kept(wanted)[k], changed), Kept(wanted)[k], 0)])
  BY DEF Reconcile
<1>2. PICK old : old = SetToSeq(running \ wanted)
  OBVIOUS
<1>3. PICK new : new = SetToSeq(wanted)
  OBVIOUS
<1>4. PICK n \in Nat : old \in [1..n -> running \ wanted] /\ DOMAIN old = 1..n
  <2>1. IsFiniteSet(running \ wanted)
    BY OrchestratorAssumption, FS_Subset
  <2>2. Cardinality(running \ wanted) \in Nat /\ old \in [1..Cardinality(running \ wanted) -> running \ wanted]
    BY <1>2, <2>1, ListOf
  <2> QED
    BY <2>2
<1>5. PICK m \in Nat : new \in [1..m -> wanted] /\ DOMAIN new = 1..m
  <2>1. IsFiniteSet(wanted)
    BY OrchestratorAssumption, FS_Subset
  <2>2. Cardinality(wanted) \in Nat /\ new \in [1..Cardinality(wanted) -> wanted]
    BY <1>3, <2>1, ListOf
  <2> QED
    BY <2>2
<1>6. PICK deletes : deletes = [k \in 1..n |-> Step("delete", old[k], 0)]
  OBVIOUS
<1>7. PICK others : others = [k \in 1..m |-> Step(OpFor(new[k], changed), new[k], 0)]
  OBVIOUS
<1>8. Begins(kind, deletes \o others)
  BY <1>1, <1>2, <1>3, <1>4, <1>5, <1>6, <1>7
<1> DEFINE Fit(s) == s \in Steps /\ s.op # "close" /\ s.id = 0 /\ (nameToId[s.name] # 0 \/ s.op = "up")
<1>9. ASSUME NEW k \in 1..n
      PROVE  Fit(deletes[k])
  <2>1. old[k] \in Names /\ nameToId[old[k]] # 0 /\ deletes[k] = Step("delete", old[k], 0)
    BY <1>4, <1>6
  <2> QED
    BY <2>1 DEF Step, Steps
<1>10. ASSUME NEW k \in 1..m
       PROVE  Fit(others[k])
  <2>1. new[k] \in Names /\ others[k] = Step(OpFor(new[k], changed), new[k], 0)
    BY <1>5, <1>7
  <2>2. /\ OpFor(new[k], changed) \in {"up", "replace", "reload"}
        /\ nameToId[new[k]] # 0 \/ OpFor(new[k], changed) = "up"
    BY <2>1
  <2>3. PICK op \in {"up", "replace", "reload"} : op = OpFor(new[k], changed)
    BY <2>2
  <2>4. others[k] = Step(op, new[k], 0) /\ (nameToId[new[k]] # 0 \/ op = "up")
    BY <2>1, <2>2, <2>3
  <2> QED
    BY <2>1, <2>4 DEF Step, Steps
<1>11. deletes \in Seq(Steps) /\ DOMAIN deletes = 1..n
  BY <1>6, <1>9, StepsMapped
<1>12. others \in Seq(Steps) /\ DOMAIN others = 1..m
  BY <1>7, <1>10, StepsMapped
<1>13. PICK todo : todo = deletes \o others
  OBVIOUS
<1>14. \A k \in DOMAIN todo : Fit(todo[k])
  <2> HIDE DEF Fit
  <2>1. \A k \in DOMAIN todo : \/ \E j \in DOMAIN deletes : todo[k] = deletes[j]
                               \/ \E j \in DOMAIN others : todo[k] = others[j]
    BY <1>11, <1>12, <1>13, StepsJoined, SMTT(20)
  <2> QED
    BY <1>9, <1>10, <1>11, <1>12, <2>1
<1>15. kind \in Kinds
  BY DEF Kinds
<1>16. Begins(kind, todo) /\ todo \in Seq(Steps)
  BY <1>8, <1>11, <1>12, <1>13, StepsJoined
<1> QED
  BY <1>14, <1>15, <1>16, BeginsKeep
----------------------------------------------------------------------------
(* The shutdown. *)

CloseOf(i) == [kind |-> "close", todo |-> <<On("close", i)>>, at |-> "go", names |-> {}]

\* New requests come after the ones there are.
Joined(s, t, u) ==
    /\ u \in Seq(Call) /\ DOMAIN s \subseteq DOMAIN u
    /\ \A k \in DOMAIN s : u[k] = s[k]
    /\ \A k \in DOMAIN u \ DOMAIN s : \E j \in DOMAIN t : u[k] = t[j]
    /\ \A j \in DOMAIN t : \E k \in DOMAIN u \ DOMAIN s : u[k] = t[j]

LEMMA CallsJoined ==
    ASSUME NEW s \in Seq(Call), NEW t \in Seq(Call), NEW u, u = s \o t
    PROVE  Joined(s, t, u)
<1>1. u \in Seq(Call) /\ Len(u) = Len(s) + Len(t)
  OBVIOUS
<1>2. \A k \in 1..(Len(s) + Len(t)) : u[k] = IF k <= Len(s) THEN s[k] ELSE t[k - Len(s)]
  OBVIOUS
<1>3. Len(s) \in Nat /\ Len(t) \in Nat /\ DOMAIN s = 1..Len(s) /\ DOMAIN t = 1..Len(t)
  OBVIOUS
<1>4. DOMAIN u = 1..(Len(s) + Len(t))
  BY <1>1, <1>3
<1>5. ASSUME NEW k \in 1..Len(s)
      PROVE  k \in 1..(Len(s) + Len(t)) /\ k <= Len(s)
  BY <1>3
<1>6. ASSUME NEW k \in 1..(Len(s) + Len(t)), k \notin 1..Len(s)
      PROVE  ~(k <= Len(s)) /\ k - Len(s) \in 1..Len(t)
  BY <1>3, <1>6
<1>7. ASSUME NEW j \in 1..Len(t)
      PROVE  \E k \in 1..(Len(s) + Len(t)) \ 1..Len(s) : u[k] = t[j]
  <2>1. Len(s) + j \in 1..(Len(s) + Len(t)) /\ ~(Len(s) + j <= Len(s)) /\ (Len(s) + j) - Len(s) = j
    BY <1>3
  <2>2. u[Len(s) + j] = t[j]
    BY <1>2, <2>1
  <2> QED
    BY <1>3, <2>1, <2>2
<1> QED
  BY <1>1, <1>2, <1>3, <1>4, <1>5, <1>6, <1>7 DEF Joined

LEMMA CloseInv ==
    ASSUME Shape, NEW i \in processes
    PROVE  CloseOf(i) \in Call /\ CallInv(CloseOf(i), containers) /\ AwaitedAt(CloseOf(i), i, {"go"})
<1>1. i \in Ids /\ i # 0 /\ i \in Nat /\ containers[i].name \in Names
  BY IdsFinite DEF Shape
<1>2. PICK s : s = On("close", i)
  OBVIOUS
<1>3. s \in Steps /\ s.op = "close" /\ s.id = i /\ s.name = containers[i].name
  BY <1>1, <1>2 DEF On, Step, Steps
<1>4. <<s>> \in Seq(Steps) /\ DOMAIN <<s>> = {1} /\ <<s>>[1] = s /\ <<s>> # <<>>
  BY <1>3
<1>5. PICK todo \in Seq(Steps) : todo = <<s>>
  BY <1>4
<1>6. PICK r : r = [kind |-> "close", todo |-> todo, at |-> "go", names |-> {}]
  OBVIOUS
<1>7. r \in Call
  BY <1>6 DEF Call, Steps
<1>8. PlaceInv(r)
  BY <1>6 DEF PlaceInv, Stopping
<1>9. \A k \in DOMAIN r.todo : StepInv(r, r.todo[k], containers)
  <2>1. StepInv(r, s, containers)
    BY <1>1, <1>3, <1>6 DEF StepInv, Ids
  <2> QED
    BY <1>4, <1>5, <1>6, <2>1
<1>10. AwaitedAt(r, i, {"go"})
  BY <1>3, <1>4, <1>5, <1>6 DEF AwaitedAt
<1>11. CloseOf(i) = r
  BY <1>2, <1>5, <1>6 DEF CloseOf
<1> QED
  BY <1>7, <1>8, <1>9, <1>10, <1>11 DEF CallInv

LEMMA StopsAllIs ==
    ASSUME Shape, calls \in Seq(Call), StopsAll
    PROVE  /\ calls' \in Seq(Call) /\ DOMAIN calls \subseteq DOMAIN calls'
           /\ \A d \in DOMAIN calls : calls'[d] = calls[d]
           /\ \A d \in DOMAIN calls' \ DOMAIN calls : \E i \in processes : calls'[d] = CloseOf(i)
           /\ \A i \in processes : \E d \in DOMAIN calls' \ DOMAIN calls : calls'[d] = CloseOf(i)
<1>1. PICK order \in SetToSeqs(processes) :
          calls' = calls \o [k \in DOMAIN order |-> CloseOf(order[k])]
  BY DEF StopsAll, InOrder, CloseOf
<1>2. IsFiniteSet(processes)
  BY IdsFinite
<1>3. PICK n \in Nat : /\ DOMAIN order = 1..n /\ order \in [1..n -> processes]
                       /\ \A i \in processes : \E k \in 1..n : order[k] = i
  BY <1>2, SeqsOf
<1>4. PICK closes : closes = [k \in 1..n |-> CloseOf(order[k])]
  OBVIOUS
<1>5. \A k \in 1..n : order[k] \in processes /\ closes[k] = CloseOf(order[k])
  BY <1>3, <1>4
<1>6. closes \in [1..n -> Call]
  BY <1>4, <1>5, CloseInv
<1>7. closes \in Seq(Call) /\ DOMAIN closes = 1..n
  BY <1>6
<1>8. calls' = calls \o closes
  BY <1>1, <1>3, <1>4
<1>9. \A j \in DOMAIN closes : \E i \in processes : closes[j] = CloseOf(i)
  BY <1>5, <1>7
<1>10. \A i \in processes : \E j \in DOMAIN closes : closes[j] = CloseOf(i)
  BY <1>3, <1>5, <1>7
<1>11. Joined(calls, closes, calls')
  BY <1>7, <1>8, CallsJoined
<1> QED
  BY <1>9, <1>10, <1>11 DEF Joined

LEMMA StopsAllKeeps ==
    ASSUME OrchestratorInv, StopsAll
    PROVE  OrchestratorInv'
<1>0. /\ Shape /\ CallsInv /\ RegistryInv /\ ReloadInv /\ JobInv
      /\ Family /\ Tended /\ Waits /\ Listed /\ Gone /\ Closings /\ calls \in Seq(Call)
  BY DEF OrchestratorInv, ChildInv, CallsInv
<1>1. /\ phase = "closing" /\ phase' = "stopping" /\ late' = (\E c \in DOMAIN calls : Pending(c))
      /\ UNCHANGED <<containers, children, processes, nameToId, registry, reloading, jobs, setbacks, raced, slow, torn, stray>>
  BY DEF StopsAll, registry
<1>2. /\ calls' \in Seq(Call) /\ DOMAIN calls \subseteq DOMAIN calls'
      /\ \A d \in DOMAIN calls : calls'[d] = calls[d]
      /\ \A d \in DOMAIN calls' \ DOMAIN calls : \E i \in processes : calls'[d] = CloseOf(i)
      /\ \A i \in processes : \E d \in DOMAIN calls' \ DOMAIN calls : calls'[d] = CloseOf(i)
  BY <1>0, StopsAllIs
<1>3. \A i : CloseOf(i).kind = "close" /\ CloseOf(i).at = "go"
  BY DEF CloseOf
<1>4. \A d \in DOMAIN calls' \ DOMAIN calls : calls'[d].kind = "close" /\ calls'[d].at = "go"
  BY <1>2, <1>3
<1>5. /\ CallsGrow /\ HistoryGrows /\ Calm /\ NamedSame(containers, containers') /\ DOMAIN containers' = Ids
      /\ ~late
  BY <1>0, <1>1, <1>2, <1>4 DEF CallsGrow, HistoryGrows, Calm, NamedSame, Ids, Closings, Runs
<1>6. Shape'
  BY <1>0, <1>1 DEF Shape, Ids
<1>7. CallsInv'
  <2>1. \A i \in processes : CallInv(CloseOf(i), containers)
    BY <1>0, CloseInv
  <2>2. \A d \in DOMAIN calls' \ DOMAIN calls : CallInv(calls'[d], containers)
    BY <1>2, <2>1
  <2>3. \A d \in DOMAIN calls : CallInv(calls[d], containers)
    BY <1>0 DEF CallsInv
  <2>4. \A d \in DOMAIN calls' : CallInv(calls'[d], containers)
    BY <1>2, <2>2, <2>3
  <2> QED
    BY <1>1, <1>2, <2>4 DEF CallsInv
<1>8. RegistryInv'
  BY <1>0, <1>1, <1>2, <1>5, RegistryKept
<1>9. ReloadInv'
  <2>1. \A d \in DOMAIN calls' \ DOMAIN calls : ~Reloads(calls'[d])
    BY <1>4 DEF Reloads, Waiting
  <2> QED
    BY <1>0, <1>1, <1>2, <1>5, <2>1, ReloadKeeps
<1>10. JobInv'
  <2>1. \A d \in DOMAIN calls' \ DOMAIN calls : ~Registers(calls'[d])
    BY <1>4 DEF Registers, Registering
  <2> QED
    BY <1>0, <1>1, <1>2, <1>5, <2>1, JobKeeps
<1>11. Listed'
  BY <1>0, <1>1, <1>5, ListedKept
<1>12. Family' /\ Tended' /\ Waits'
  BY <1>1, <1>2, <1>5, ChildrenKept
<1>13. Gone'
  <2>1. \A i \in Ids : Runs(i, containers', children') => Runs(i, containers, children)
    BY <1>1 DEF Runs
  <2> QED
    BY <1>0, <1>1, <1>2, <1>5, <2>1, GoneKept DEF HistoryGrows
<1>14. Closings'
  <2>1. ASSUME ~late'
        PROVE  \A c \in DOMAIN calls' : calls'[c].at # "done" => Closes(calls'[c])
    BY <1>1, <1>2, <1>4, <2>1 DEF Pending, Closes
  <2>2. ASSUME NEW i \in processes
        PROVE  \E c \in DOMAIN calls' : Closes(calls'[c]) /\ AwaitedAt(calls'[c], i, {"go", "stop"})
    <3>1. PICK d \in DOMAIN calls' \ DOMAIN calls : calls'[d] = CloseOf(i)
      BY <1>2
    <3>2. AwaitedAt(calls'[d], i, {"go", "stop"}) /\ Closes(calls'[d])
      BY <1>0, <1>4, <3>1, CloseInv DEF AwaitedAt, Closes
    <3> QED
      BY <3>2
  <2> QED
    BY <1>1, <2>1, <2>2 DEF Closings, Pending
<1> QED
  BY <1>6, <1>7, <1>8, <1>9, <1>10, <1>11, <1>12, <1>13, <1>14 DEF OrchestratorInv, ChildInv

LEMMA DaemonExitsKeeps ==
    ASSUME OrchestratorInv, DaemonExits
    PROVE  OrchestratorInv'
<1>0. /\ Shape /\ CallsInv /\ Family /\ Tended /\ Listed /\ Closings
  BY DEF OrchestratorInv, ChildInv
<1>1. /\ phase = "stopping" /\ phase' = "down" /\ AllStopped
      /\ processes' = {} /\ nameToId' = [n \in Names |-> 0]
      /\ calls' = [c \in DOMAIN calls |-> Answered]
      /\ late' = (late \/ \E c \in DOMAIN calls : Pending(c) /\ calls[c].kind # "close")
      /\ UNCHANGED <<containers, children, reloading, jobs, setbacks, raced, slow, torn, stray>>
  BY DEF DaemonExits
<1>2. Answered \in Call /\ CallInv(Answered, containers)
  BY AnsweredInv DEF CallInv
<1>3. calls' \in Seq(Call) /\ DOMAIN calls' = DOMAIN calls /\ \A d \in DOMAIN calls : calls'[d] = Answered
  <2>1. Len(calls) \in Nat /\ DOMAIN calls = 1..Len(calls)
    BY <1>0 DEF CallsInv
  <2>2. calls' \in [1..Len(calls) -> Call]
    BY <1>1, <1>2, <2>1
  <2> QED
    BY <1>1, <2>1, <2>2
<1>4. Answered.at = "done" /\ Answered.kind = "none"
  BY DEF Answered
<1>5. Shape'
  <2>1. 0 \in 0..Len(containers)
    BY <1>0 DEF Shape
  <2>2. nameToId' \in [Names -> 0..Len(containers)]
    BY <1>1, <2>1
  <2> QED
    BY <1>0, <1>1, <2>2 DEF Shape, Ids
<1>6. CallsInv'
  BY <1>1, <1>2, <1>3 DEF CallsInv
<1>7. RegistryInv'
  <2>1. NamesAgree'
    BY <1>1 DEF NamesAgree
  <2>2. Unnamed'
    BY <1>3, <1>4 DEF Unnamed, Launches
  <2> QED
    BY <2>1, <2>2 DEF RegistryInv
<1>8. ReloadInv' /\ JobInv' /\ Waits'
  BY <1>1 DEF ReloadInv, JobInv, Waits
<1>9. Listed'
  <2> SUFFICES ASSUME NEW i \in Ids, Runs(i, containers, children), ~late',
                      containers[i].name \notin raced \cup slow \cup torn
               PROVE  FALSE
    BY <1>1 DEF Listed, Ids
  <2>1. ~late
    BY <1>1
  <2>2. i \in processes
    BY <1>0, <2>1 DEF Listed
  <2>3. PICK c \in DOMAIN calls : Closes(calls[c])
    BY <1>0, <1>1, <2>1, <2>2 DEF Closings
  <2> QED
    BY <1>1, <2>3 DEF AllStopped, Closes
<1>12. Family'
  BY <1>0, <1>1, <1>3, FamilyKept
<1>13. Tended'
  <2> SUFFICES ASSUME NEW i \in Ids, containers[i].name \notin torn
               PROVE  Sole(i)' /\ Attended(i)'
    BY <1>1 DEF Tended, Ids
  <2>1. Sole(i) /\ Attended(i)
    BY <1>0 DEF Tended
  <2>2. \A d \in DOMAIN calls' : Aside(d, i)
    BY <1>3, <1>4 DEF Aside, AwaitedAt, Restarts, Stopping
  <2>3. \A k \in DOMAIN children' : KidSame(k)
    BY <1>1 DEF KidSame, Kids
  <2> QED
    BY <1>1, <2>1, <2>2, <2>3, TendedAt
<1>10. Gone'
  BY <1>3, <1>4 DEF Gone, Leaves
<1>11. Closings'
  BY <1>1, <1>3, <1>4 DEF Closings, Closes, Pending
<1> QED
  BY <1>5, <1>6, <1>7, <1>8, <1>9, <1>10, <1>11, <1>12, <1>13 DEF OrchestratorInv, ChildInv
----------------------------------------------------------------------------
LEMMA LengthIs ==
    ASSUME NEW S, NEW s \in Seq(S), NEW n \in Nat, DOMAIN s = 1..n
    PROVE  Len(s) = n
<1>1. Len(s) \in Nat /\ 1..Len(s) = 1..n
  OBVIOUS
<1>2. /\ Len(s) > 0 => Len(s) \in 1..Len(s)
      /\ n > 0 => n \in 1..n
  BY <1>1
<1> QED
  BY <1>1, <1>2

LEMMA InitInv ==
    ASSUME Init
    PROVE  OrchestratorInv
<1>1. Started \in Seq(Names) /\ IsInjective(Started) /\ Scheduled \subseteq Names /\ MaxSetbacks \in Nat
  BY OrchestratorAssumption
<1>2. /\ containers = [i \in DOMAIN Started |->
                        [name |-> Started[i], stopping |-> FALSE, child |-> i, backoffs |-> 0]]
      /\ children = [i \in DOMAIN Started |-> [of |-> i, state |-> "live", waiters |-> {}]]
      /\ processes = DOMAIN Started /\ jobs = Range(Started) \cap Scheduled
      /\ nameToId = [n \in Names |-> IF n \in Range(Started) THEN CHOOSE i \in DOMAIN Started : Started[i] = n
                                     ELSE 0]
      /\ reloading = {} /\ calls = <<>> /\ phase = "up" /\ setbacks = 0
      /\ raced = {} /\ slow = {} /\ torn = {} /\ stray = {} /\ late = FALSE
  BY DEF Init
<1>3. PICK n \in Nat : DOMAIN Started = 1..n /\ Started \in [1..n -> Names]
  BY <1>1
<1>4. ASSUME NEW i \in 1..n
      PROVE  /\ containers[i] \in Container /\ containers[i].name = Started[i]
             /\ containers[i].stopping = FALSE /\ containers[i].child = i /\ containers[i].backoffs = 0
             /\ nameToId[Started[i]] = i /\ Started[i] \in Names
  <2>1. Started[i] \in Names /\ Started[i] \in Range(Started)
    BY <1>3 DEF Range
  <2>2. containers[i] = [name |-> Started[i], stopping |-> FALSE, child |-> i, backoffs |-> 0]
    BY <1>2, <1>3
  <2>3. nameToId[Started[i]] = CHOOSE j \in DOMAIN Started : Started[j] = Started[i]
    BY <1>2, <2>1
  <2>4. nameToId[Started[i]] \in DOMAIN Started /\ Started[nameToId[Started[i]]] = Started[i]
    BY <1>3, <2>3
  <2>5. nameToId[Started[i]] = i
    BY <1>1, <1>3, <2>4 DEF IsInjective
  <2> QED
    BY <2>1, <2>2, <2>5 DEF Container
<1>16. /\ processes = 1..n /\ jobs \subseteq Range(Started) /\ jobs \subseteq Names
       /\ reloading = {} /\ phase = "up" /\ setbacks = 0
       /\ raced = {} /\ slow = {} /\ torn = {} /\ stray = {} /\ late = FALSE
  <2>1. processes = DOMAIN Started /\ jobs = Range(Started) \cap Scheduled
    BY <1>2
  <2> QED
    BY <1>1, <1>2, <1>3, <2>1
<1>5. containers \in Seq(Container) /\ DOMAIN containers = 1..n
  <2>1. containers \in [1..n -> Container]
    BY <1>2, <1>3, <1>4
  <2> QED
    BY <2>1
<1>6. ASSUME NEW m \in Names
      PROVE  \/ nameToId[m] = 0 /\ m \notin Range(Started)
             \/ nameToId[m] \in 1..n /\ Started[nameToId[m]] = m
  <2>1. CASE m \in Range(Started)
    <3>1. PICK i \in 1..n : Started[i] = m
      BY <1>3, <2>1 DEF Range
    <3> QED
      BY <1>4, <3>1
  <2>2. CASE m \notin Range(Started)
    BY <1>2, <2>2
  <2> QED
    BY <2>1, <2>2
<1>7. Shape
  <2>1. Len(containers) = n
    BY <1>2, <1>3, <1>5, LengthIs
  <2>2. nameToId \in [Names -> 0..n]
    <3>1. nameToId = [m \in Names |-> nameToId[m]]
      BY <1>2
    <3>2. \A m \in Names : nameToId[m] \in 0..n
      BY <1>6
    <3> QED
      BY <3>1, <3>2
  <2>3. setbacks \in 0..MaxSetbacks
    BY <1>1, <1>16
  <2>4. late \in BOOLEAN
    BY <1>16, Zenon
  <2>5. processes \subseteq Ids /\ reloading \subseteq Ids
    BY <1>16, <1>5 DEF Ids
  <2> QED
    BY <1>16, <1>5, <2>1, <2>2, <2>3, <2>4, <2>5 DEF Shape
<1>8. DOMAIN calls = {} /\ calls \in Seq(Call)
  BY <1>2
<1>9. CallsInv
  BY <1>8 DEF CallsInv
<1>10. RegistryInv
  <2>1. NamesAgree
    BY <1>16, <1>4, <1>6 DEF NamesAgree
  <2> QED
    BY <1>8, <2>1 DEF RegistryInv, Unnamed
<1>11. ReloadInv
  BY <1>2, <1>8 DEF ReloadInv
<1>12. JobInv
  <2>1. \A m \in jobs : m \in Names /\ nameToId[m] # 0
    <3>1. \A m \in jobs : m \in Names /\ m \in Range(Started)
      BY <1>16
    <3>2. \A m \in 1..n : m # 0
      OBVIOUS
    <3> QED
      BY <1>6, <3>1, <3>2, Zenon
  <2> QED
    BY <1>8, <2>1 DEF JobInv
<1>17. /\ Kids = 1..n
       /\ \A k \in Kids : children[k] = [of |-> k, state |-> "live", waiters |-> {}]
  BY <1>2, <1>3 DEF Kids
<1>20. ASSUME NEW k \in Kids
       PROVE  children[k].of = k /\ children[k].state = "live" /\ children[k].waiters = {}
  <2>1. children[k] = [of |-> k, state |-> "live", waiters |-> {}]
    BY <1>17
  <2>2. PICK w : w = {}
    OBVIOUS
  <2>3. children[k] = [of |-> k, state |-> "live", waiters |-> w]
    BY <2>1, <2>2
  <2>4. children[k].of = k /\ children[k].state = "live" /\ children[k].waiters = w
    BY <2>3
  <2> QED
    BY <2>2, <2>4
<1>18. Family
  <2>1. IsFiniteSet(Kids) /\ Kids \subseteq Nat \ {0}
    BY <1>17, FS_Interval
  <2>2. ASSUME NEW k \in Kids
        PROVE  children[k] \in Child
    <3>1. k \in Ids /\ children[k] = [of |-> k, state |-> "live", waiters |-> {}]
      BY <1>5, <1>17 DEF Ids
    <3>2. [of |-> k, state |-> "live", waiters |-> {}]
          \in [of : Ids, state : {"launching", "live", "killed"}, waiters : SUBSET DOMAIN calls]
      BY <3>1
    <3> QED
      BY <3>1, <3>2, Zenon DEF Child
  <2>3. children \in [Kids -> Child]
    BY <1>2, <2>2 DEF Kids
  <2>4. \A i \in Ids : ChildOf(i) = i /\ i \in Kids /\ children[i].of = i
    <3> SUFFICES ASSUME NEW i \in 1..n
                 PROVE  containers[i].child = i /\ i \in Kids /\ children[i].of = i
      BY <1>5 DEF ChildOf, Ids
    <3>1. i \in Kids /\ children[i] = [of |-> i, state |-> "live", waiters |-> {}]
      BY <1>17
    <3>2. containers[i].child = i
      BY <1>4
    <3> QED
      BY <3>1, <3>2
  <2> QED
    BY <2>1, <2>3, <2>4 DEF Family
<1>19. Tended /\ Waits
  <2>1. \A i \in Ids : Sole(i)
    <3> SUFFICES ASSUME NEW i \in 1..n
                 PROVE  Sole(i)
      BY <1>5 DEF Ids
    <3>1. \A k \in Kids : children[k].of = k /\ ~Asked(k)
      BY <1>20 DEF Asked
    <3>2. containers[i].child = i /\ containers[i].stopping = FALSE /\ containers[i].backoffs = 0
      BY <1>4
    <3> QED
      BY <3>1, <3>2 DEF Sole, ChildOf
  <2>2. \A i \in Ids : Attended(i)
    BY <1>8 DEF Attended
  <2> QED
    <3>1. \A k \in Kids : children[k].waiters = {}
      BY <1>20
    <3> QED
      BY <2>1, <2>2, <3>1 DEF Tended, Waits
<1>13. Listed
  BY <1>5, <1>16 DEF Listed, Ids
<1>14. Gone
  BY <1>8 DEF Gone
<1>15. Closings
  BY <1>2, <1>8 DEF Closings
<1> QED
  BY <1>7, <1>9, <1>10, <1>11, <1>12, <1>13, <1>14, <1>15, <1>18, <1>19 DEF OrchestratorInv, ChildInv

LEMMA NextInv ==
    ASSUME OrchestratorInv, [Next]_vars
    PROVE  OrchestratorInv'
<1>1. CASE Requests
  BY <1>1, UpKeeps, RestoreKeeps, ReconcileKeeps, OnTargetsKeeps DEF Requests
<1>2. CASE Timers
  BY <1>2, KillTimerKeeps, ReadyTimesOutKeeps, ReloadEndsKeeps DEF Timers
<1>3. CASE Children
  BY <1>3, ExitsKeeps, BackoffEndsKeeps, PrimaryReadyKeeps DEF Children
<1>4. CASE Closing
  BY <1>4, ClosingKeeps
<1>5. CASE StopsAll
  BY <1>5, StopsAllKeeps
<1>6. CASE DaemonExits
  BY <1>6, DaemonExitsKeeps
<1>7. CASE \E c \in DOMAIN calls : Runnable(c)
  BY <1>7, StopsTargetKeeps, ReloadsTargetKeeps, StartsKeep, DownedKeeps, DeletedKeeps, RestartedKeeps,
     AnswersKeep DEF Runnable
<1>8. CASE UNCHANGED vars
  <2>1. /\ UNCHANGED <<containers, children, processes, nameToId, reloading, jobs, calls, phase, setbacks>>
        /\ UNCHANGED <<raced, slow, torn, stray, late>>
    BY <1>8 DEF vars, registry, history
  <2>2. Shape' /\ CallsInv' /\ RegistryInv'
    BY <2>1 DEF OrchestratorInv, Shape, Ids, CallsInv, RegistryInv, NamesAgree, Unnamed
  <2>3. ReloadInv' /\ JobInv'
    BY <2>1 DEF OrchestratorInv, ReloadInv, JobInv, Strange
  <2>4. ChildInv'
    <3>1. Family' /\ Tended' /\ Waits'
      BY <2>1, ChildrenKept DEF CallsGrow
    <3>2. Listed' /\ Gone' /\ Closings'
      BY <2>1 DEF OrchestratorInv, ChildInv, Listed, Gone, Closings, Ids, Pending, Runs
    <3> QED
      BY <3>1, <3>2 DEF ChildInv
  <2> QED
    BY <2>2, <2>3, <2>4 DEF OrchestratorInv
<1> QED
  BY <1>1, <1>2, <1>3, <1>4, <1>5, <1>6, <1>7, <1>8 DEF Next

\* Whatever is asked of it in whatever order, and whatever stops, exits, times out or closes
\* meanwhile, the registry and the requests under way fit together.
THEOREM OrchestratorInvariant == Spec => []OrchestratorInv
<1>1. Init => OrchestratorInv
  BY InitInv
<1>2. OrchestratorInv /\ [Next]_vars => OrchestratorInv'
  BY NextInv
<1> QED
  BY <1>1, <1>2, PTL DEF Spec

\* The types of the requests are part of what is known of each of them.
LEMMA TypesHold ==
    ASSUME OrchestratorInv
    PROVE  TypeOK
<1>1. Shape /\ calls \in Seq(Call)
  BY DEF OrchestratorInv, CallsInv
<1>2. ASSUME NEW c \in DOMAIN calls, calls[c].at \notin {"go", "done"}
      PROVE  calls[c].todo # <<>> /\ Head1(c).id \in Ids
  <2>1. CallInv(calls[c], containers) /\ calls[c] \in Call
    BY <1>1 DEF OrchestratorInv, CallsInv
  <2>2. calls[c].todo # <<>> /\ calls[c].todo[1].id # 0
    BY <1>2, <2>1 DEF CallInv, PlaceInv
  <2>3. Head1(c) = calls[c].todo[1] /\ 1 \in DOMAIN calls[c].todo
    BY <1>1, <2>2, HeadOfCall
  <2>4. StepInv(calls[c], calls[c].todo[1], containers)
    BY <2>1, <2>3 DEF CallInv
  <2> QED
    BY <2>2, <2>3, <2>4 DEF StepInv, Ids
<1>3. Family
  BY DEF OrchestratorInv, ChildInv
<1>4. containers \in Seq([name : Names, stopping : BOOLEAN, child : {None, Dead} \cup Kids, backoffs : Nat])
  <2>1. Len(containers) \in Nat /\ Ids = 1..Len(containers) /\ containers \in [Ids -> Container]
    BY <1>1 DEF Shape, Ids
  <2>2. ASSUME NEW i \in Ids
        PROVE  containers[i] \in [name : Names, stopping : BOOLEAN, child : {None, Dead} \cup Kids, backoffs : Nat]
    <3>1. containers[i] \in Container /\ containers[i].child \in {None, Dead} \cup Kids
      BY <1>3, <2>1 DEF Family, ChildOf
    <3> QED
      BY <3>1 DEF Container
  <2> PICK S : S = [name : Names, stopping : BOOLEAN, child : {None, Dead} \cup Kids, backoffs : Nat]
    OBVIOUS
  <2> PICK n \in Nat : n = Len(containers)
    BY <2>1
  <2>3. containers \in [1..n -> S]
    BY <2>1, <2>2
  <2>4. containers \in Seq(S)
    BY ONLY n \in Nat, <2>3
  <2> QED
    BY <2>4, Zenon
<1>5. IsFiniteSet(Kids) /\ Kids \subseteq Nat \ {0} /\ children \in [Kids -> Child]
  BY <1>3 DEF Family
<1> QED
  BY <1>1, <1>2, <1>4, <1>5 DEF TypeOK, Shape, Child

\* The requests that reload a process are the one that marked it.
LEMMA ReloadsAreOne ==
    ASSUME OrchestratorInv
    PROVE  OneReload
<1> SUFFICES ASSUME phase # "down", NEW i \in Ids,
                    NEW reloads, reloads = {c \in DOMAIN calls :
                        calls[c].at \in Waiting \cup {"stopped"} /\ Head1(c).op = "reload" /\ Head1(c).id = i}
             PROVE  Cardinality(reloads) = IF i \in reloading THEN 1 ELSE 0
  BY DEF OneReload
<1>1. \A c \in DOMAIN calls : calls[c].at \in Waiting \cup {"stopped"} => Head1(c) = calls[c].todo[1]
  <2>1. calls \in Seq(Call) /\ \A c \in DOMAIN calls : PlaceInv(calls[c])
    BY DEF OrchestratorInv, CallsInv, CallInv
  <2>2. \A c \in DOMAIN calls : calls[c].at \in Waiting \cup {"stopped"} => calls[c].todo # <<>>
    BY <2>1 DEF PlaceInv, Waiting
  <2> QED
    BY <2>1, <2>2, HeadOfCall
<1>2. reloads = {c \in DOMAIN calls : Reloads(calls[c]) /\ Reloaded(calls[c]) = i}
  BY <1>1 DEF Reloads, Reloaded
<1>3. CASE i \in reloading
  <2>1. PICK c \in DOMAIN calls : Reloads(calls[c]) /\ Reloaded(calls[c]) = i
    BY <1>3 DEF OrchestratorInv, ReloadInv
  <2>2. \A d \in reloads : d = c
    BY <1>2, <2>1 DEF OrchestratorInv, ReloadInv
  <2>3. reloads = {c}
    BY <1>2, <2>1, <2>2
  <2> QED
    BY <1>3, <2>3, FS_Singleton
<1>4. CASE i \notin reloading
  <2>1. reloads = {}
    BY <1>2, <1>4 DEF OrchestratorInv, ReloadInv
  <2> QED
    BY <1>4, <2>1, FS_EmptySet
<1> QED
  BY <1>3, <1>4

\* The two maps of the orchestrator agree and reloads never overlap (Orchestrator.ts:31-44,
\* GracefulManager.ts:7-36), for any number of processes and of requests at a time.
THEOREM Agreement == Spec => []MapsAgree
<1>1. OrchestratorInv => MapsAgree
  BY TypesHold, ReloadsAreOne DEF MapsAgree, OrchestratorInv, RegistryInv
<1> QED
  BY <1>1, OrchestratorInvariant, PTL

\* A child that runs and is not listed is one whose name raced, whose primary was too slow, which
\* a request started beside the shutdown or whose restart did not await the exit of the last child
\* alone, and so is a second child of a name (Orchestrator.ts:31-63, 143-150, 220-240,
\* ManagedProcess.ts:181-185, 306-355, 924-1004).
THEOREM Custody == Spec => []NoOrphan
<1>1. ASSUME OrchestratorInv
      PROVE  NoOrphan
  <2>1. /\ Family /\ Tended /\ Listed /\ NamesAgree
    BY <1>1 DEF OrchestratorInv, ChildInv, RegistryInv
  <2>2. ASSUME NEW k \in Living, containers[children[k].of].name \notin raced \cup slow \cup torn, ~late
        PROVE  /\ children[k].of \in processes /\ ChildOf(children[k].of) = k
               /\ nameToId[containers[children[k].of].name] = children[k].of
    <3>1. k \in Kids /\ children[k].state # "killed" /\ children[k].of \in Ids
      BY <2>1, KidIsLive DEF Living
    <3>2. ChildOf(children[k].of) = k
      BY <2>1, <2>2, <3>1 DEF Tended, Sole
    <3>3. Runs(children[k].of, containers, children)
      BY <3>1 DEF Runs, Kids
    <3>4. children[k].of \in processes
      BY <2>1, <2>2, <3>1, <3>3 DEF Listed
    <3> QED
      BY <2>1, <2>2, <3>2, <3>4 DEF NamesAgree
  <2>3. ASSUME NEW k \in Living, NEW l \in Living, ~late,
               containers[children[k].of].name \notin raced \cup slow \cup torn,
               containers[children[l].of].name = containers[children[k].of].name
        PROVE  k = l
    <3>1. /\ ChildOf(children[k].of) = k /\ ChildOf(children[l].of) = l
          /\ nameToId[containers[children[k].of].name] = children[k].of
          /\ nameToId[containers[children[l].of].name] = children[l].of
      BY <2>2, <2>3
    <3> QED
      BY <2>3, <3>1
  <2> QED
    BY <2>2, <2>3 DEF NoOrphan
<1> QED
  BY <1>1, OrchestratorInvariant, PTL

\* When no request is under way, a job left for a process that is gone is one of a name that
\* raced, started too slowly or is astray (startDaemon.ts:265).
THEOREM Tidiness == Spec => []JobsFollow
<1>1. OrchestratorInv => JobsFollow
  BY DEF OrchestratorInv, JobInv, JobsFollow, Quiet, Pending, Deletes, Strange
<1> QED
  BY <1>1, OrchestratorInvariant, PTL
=============================================================================
