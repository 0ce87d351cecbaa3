---------------------------- MODULE ClusterProofs ----------------------------
(***************************************************************************)
(* What holds of the primary, and of the daemon together with it, for      *)
(* every number of workers, retries, commands, crashes and timeouts.       *)
(***************************************************************************)
EXTENDS ManagedCluster, FiniteSetTheorems, SequenceTheorems, WellFoundedInduction, TLAPS

Result == [slot : Slot, ok : BOOLEAN]

ReloadState == [pc : {"waiting", "backoff", "settling", "stopping"}, queue : SUBSET Nat,
                attempt : 0..Retries, old : Nat, slot : Slot, new : Nat, results : Seq(Result)]

RestartState == [pc : {"waiting", "settling", "stopping"}, slot : Slot, old : Nat, new : Nat]

IsRecord(p) ==
    DOMAIN p = {"workers", "freeSlots", "isShuttingDown", "isReloading", "candidates", "reload",
                "restarts", "stopping", "exited", "out"}

\* The types of the record.
Shape(p) ==
    /\ IsRecord(p)
    /\ p.workers \in Seq(Worker)
    /\ p.freeSlots \subseteq Slot
    /\ p.isShuttingDown \in BOOLEAN /\ p.isReloading \in BOOLEAN /\ p.exited \in BOOLEAN
    /\ p.candidates \subseteq Ids(p)
    /\ p.reload \in ReloadState \cup {NoReload}
    /\ p.restarts \subseteq RestartState
    /\ p.stopping \subseteq Ids(p)

\* A worker that nothing has told to go.
Safe(p, w) == w \in Mapped(p) /\ ~p.workers[w].left /\ ~p.workers[w].killed

\* A replacement is a later fork in the slot of what it replaces; once the wait for it
\* is over it is ready, or has died since, and at last the old worker has been told to go.
Replaces(p, r) ==
    /\ r.old \in Ids(p) /\ r.new \in Ids(p) /\ r.old < r.new
    /\ p.workers[r.old].slot = r.slot /\ p.workers[r.new].slot = r.slot
    /\ r.pc = "settling" => p.workers[r.new].ready \/ p.workers[r.new].life = "gone"
    /\ r.pc = "stopping" => ~Safe(p, r.old)

\* No two replacements share the new worker, and reload() runs with its flag set.
Linked(p) ==
    /\ \A r \in p.restarts : Replaces(p, r)
    /\ \A r, q \in p.restarts : r.new = q.new => r = q
    /\ p.reload # NoReload =>
         /\ p.isReloading
         /\ Replaces(p, p.reload)
         /\ p.reload.queue \subseteq Ids(p)
         /\ \A r \in p.restarts : r.new # p.reload.new

Accounted(p) == p.freeSlots = {s \in Slot : InSlot(p, s) = {}}

Good(p) == Shape(p) /\ Linked(p) /\ Accounted(p)

\* The workers of a slot that nothing has told to go and that are not on trial; with
\* ready = TRUE, those of them that serve.
Firm(p, s, ready) ==
    {w \in InSlot(p, s) \ OnTrial(p) : Safe(p, w) /\ (ready => p.workers[w].ready)}

\* A replacement that was itself told to go, or has died, may still make its old worker
\* go: there is a firm worker younger than both.
Backed(p, s, ready) ==
    \A n \in OnTrial(p) :
        p.workers[n].slot = s /\ ~Safe(p, n) => \E c \in Firm(p, s, ready) : n < c

\* What a turn from p to q must do to slot s.
Keeps(p, q, s, ready) ==
    Backed(p, s, ready) =>
        /\ Backed(q, s, ready)
        /\ Firm(p, s, ready) # {} => Firm(q, s, ready) # {}

Fine(p, q) ==
    /\ Good(q)
    /\ q.isShuttingDown = p.isShuttingDown
    /\ \A s \in Slot, ready \in BOOLEAN : Keeps(p, q, s, ready)

\* At most worker w changes, in its slot.
ChangesOnly(p, q, w) ==
    /\ Ids(q) = Ids(p)
    /\ \A u \in Ids(p) : u # w => q.workers[u] = p.workers[u]
    /\ \A u \in Ids(p) : q.workers[u].slot = p.workers[u].slot

AlikeBut(p, q) ==
    /\ q.freeSlots = p.freeSlots /\ q.isShuttingDown = p.isShuttingDown
    /\ q.isReloading = p.isReloading /\ q.candidates = p.candidates /\ q.reload = p.reload
    /\ q.restarts = p.restarts /\ q.stopping = p.stopping /\ q.exited = p.exited

Alike(p, q) == q.workers = p.workers /\ AlikeBut(p, q)
----------------------------------------------------------------------------
(* Operators of the model. *)

LEMMA LeastElement ==
    ASSUME NEW S, S \subseteq Nat, S # {}
    PROVE  \E w \in S : \A v \in S : w <= v
<1> DEFINE D == {0..n : n \in S}
<1>1. \A n \in Nat : 0..n \in FiniteSubsetsOf(Nat)
  BY FS_Interval DEF FiniteSubsetsOf
<1>2. D \subseteq FiniteSubsetsOf(Nat) /\ D # {}
  BY <1>1
<1>3. PICK T \in D : \A U \in D : ~(<<U, T>> \in StrictSubsetOrdering(Nat))
  BY <1>2, FS_StrictSubsetOrderingWellFounded, WFMin
<1>4. PICK w \in S : T = 0..w
  OBVIOUS
<1>5. ASSUME NEW v \in S, v < w PROVE FALSE
  <2>1. 0..v \in D /\ 0..v \subseteq 0..w /\ w \in 0..w /\ w \notin 0..v /\ 0..w \subseteq Nat
    BY <1>5
  <2>2. <<0..v, T>> \in StrictSubsetOrdering(Nat)
    BY <2>1, <1>4 DEF StrictSubsetOrdering
  <2> QED
    BY <2>1, <2>2, <1>3
<1> QED
  BY <1>5

LEMMA FirstIsLeast ==
    ASSUME NEW S, S \subseteq Nat, S # {}
    PROVE  First(S) \in S
BY LeastElement DEF First

LEMMA WorkerTypes ==
    ASSUME NEW p, Shape(p), NEW w \in Ids(p)
    PROVE  w \in Nat /\ p.workers[w] \in Worker /\ p.workers[w].slot \in Slot
<1>1. w \in Nat /\ p.workers[w] \in Worker
  BY DEF Shape, Ids
<1> QED
  BY <1>1 DEF Worker

LEMMA SendFields ==
    ASSUME NEW p, IsRecord(p), NEW ms
    PROVE  IsRecord(SendAll(p, ms)) /\ Alike(p, SendAll(p, ms))
BY DEF IsRecord, SendAll, Alike, AlikeBut

LEMMA KillFields ==
    ASSUME NEW p, Shape(p), NEW w \in Ids(p)
    PROVE  LET q == Kill(p, w)
           IN /\ Shape(q) /\ AlikeBut(p, q) /\ ChangesOnly(p, q, w)
              /\ q.workers[w].life = p.workers[w].life
              /\ q.workers[w].ready = p.workers[w].ready
              /\ ~Safe(q, w)
<1> DEFINE q == Kill(p, w)
           v == [p.workers[w] EXCEPT !.killed = TRUE]
<1>0. p.workers[w] \in Worker /\ p.workers \in Seq(Worker) /\ w \in DOMAIN p.workers
  BY DEF Shape, Ids
<1>1. CASE w \in Mapped(p)
  <2>1. /\ v \in Worker /\ v.slot = p.workers[w].slot /\ v.life = p.workers[w].life
        /\ v.ready = p.workers[w].ready /\ v.killed
    BY <1>0 DEF Worker
  <2>2. AlikeBut(p, q) /\ q.workers = [p.workers EXCEPT ![w] = v] /\ IsRecord(q)
    BY <1>1 DEF Kill, Shape, IsRecord, AlikeBut
  <2>0. q.workers = [p.workers EXCEPT ![w] = v]
    BY <2>2
  <2> HIDE DEF q, v
  <2>3. /\ q.workers \in Seq(Worker) /\ q.workers[w] = v /\ Ids(q) = Ids(p)
        /\ \A u \in Ids(p) : u # w => q.workers[u] = p.workers[u]
    BY <1>0, <2>0, <2>1 DEF Ids
  <2>4. Shape(q)
    BY <2>2, <2>3 DEF Shape, AlikeBut
  <2>5. ChangesOnly(p, q, w)
    BY <2>1, <2>3 DEF ChangesOnly
  <2> QED
    BY <2>1, <2>2, <2>3, <2>4, <2>5 DEF Safe, q
<1>2. CASE w \notin Mapped(p)
  BY <1>2 DEF Kill, AlikeBut, ChangesOnly, Safe
<1> QED
  BY <1>1, <1>2

LEMMA LeaveFields ==
    ASSUME NEW p, Shape(p), NEW w \in Ids(p)
    PROVE  LET q == Leave(p, w)
           IN /\ Shape(q) /\ AlikeBut(p, q) /\ ChangesOnly(p, q, w)
              /\ q.workers[w] \in {p.workers[w], [p.workers[w] EXCEPT !.left = TRUE]}
              /\ ~Safe(q, w)
<1> DEFINE q == Leave(p, w)
           v == [p.workers[w] EXCEPT !.left = TRUE]
<1>0. p.workers[w] \in Worker /\ p.workers \in Seq(Worker) /\ w \in DOMAIN p.workers
  BY DEF Shape, Ids
<1>1. CASE w \in Mapped(p)
  <2>1. /\ v \in Worker /\ v.slot = p.workers[w].slot /\ v.life = p.workers[w].life
        /\ v.ready = p.workers[w].ready /\ v.left
    BY <1>0 DEF Worker
  <2>2. AlikeBut(p, q) /\ q.workers = [p.workers EXCEPT ![w] = v] /\ IsRecord(q)
    BY <1>1 DEF Leave, Shape, IsRecord, AlikeBut
  <2>0. q.workers = [p.workers EXCEPT ![w] = v]
    BY <2>2
  <2> HIDE DEF q, v
  <2>3. /\ q.workers \in Seq(Worker) /\ q.workers[w] = v /\ Ids(q) = Ids(p)
        /\ \A u \in Ids(p) : u # w => q.workers[u] = p.workers[u]
    BY <1>0, <2>0, <2>1 DEF Ids
  <2>4. Shape(q)
    BY <2>2, <2>3 DEF Shape, AlikeBut
  <2>5. ChangesOnly(p, q, w)
    BY <2>1, <2>3 DEF ChangesOnly
  <2> QED
    BY <2>1, <2>2, <2>3, <2>4, <2>5 DEF Safe, q, v
<1>2. CASE w \notin Mapped(p)
  BY <1>2 DEF Leave, AlikeBut, ChangesOnly, Safe
<1> QED
  BY <1>1, <1>2

LEMMA SpawnFields ==
    ASSUME NEW p, Shape(p), NEW s \in Slot
    PROVE  LET q == SpawnCandidate(p, s)
           IN /\ Shape(q)
              /\ q.workers = Append(p.workers, Unready(s))
              /\ q.freeSlots = p.freeSlots \ {s}
              /\ q.candidates = p.candidates \cup {Len(p.workers) + 1}
              /\ q.isShuttingDown = p.isShuttingDown /\ q.isReloading = p.isReloading
              /\ q.reload = p.reload /\ q.restarts = p.restarts
              /\ q.stopping = p.stopping /\ q.exited = p.exited
<1> DEFINE q == SpawnCandidate(p, s)
<1>1. Unready(s) \in Worker
  BY DEF Unready, Worker
<1>2. Len(Append(p.workers, Unready(s))) = Len(p.workers) + 1
  BY <1>1 DEF Shape
<1>3. /\ q.workers = Append(p.workers, Unready(s))
      /\ q.freeSlots = p.freeSlots \ {s}
      /\ q.candidates = p.candidates \cup {Len(p.workers) + 1}
  BY <1>2 DEF Shape, IsRecord, Spawn, SpawnCandidate, Newest
<1>4. IsRecord(q)
  BY <1>1 DEF Shape, IsRecord, Spawn, SpawnCandidate, Newest, Ids
<1>5. /\ q.isShuttingDown = p.isShuttingDown
      /\ q.isReloading = p.isReloading /\ q.reload = p.reload
      /\ q.restarts = p.restarts /\ q.stopping = p.stopping /\ q.exited = p.exited
  BY DEF Shape, IsRecord, Spawn, SpawnCandidate, Newest
<1>6. q.workers \in Seq(Worker) /\ Ids(q) = Ids(p) \cup {Len(p.workers) + 1}
  BY <1>1, <1>3 DEF Shape, Ids
<1> QED
  BY <1>3, <1>4, <1>5, <1>6 DEF Shape
----------------------------------------------------------------------------
(* Steps that keep a record good. *)

LEMMA OnTrialMembers ==
    ASSUME NEW p
    PROVE  \A n : n \in OnTrial(p) <=>
              \/ p.reload.pc \in {"waiting", "settling"} /\ n = p.reload.new
              \/ \E r \in p.restarts : r.pc \in {"waiting", "settling"} /\ n = r.new
BY DEF OnTrial

LEMMA TrialsAreIds ==
    ASSUME NEW p, Good(p)
    PROVE  OnTrial(p) \subseteq Ids(p)
BY DEF Good, Shape, Linked, Replaces, OnTrial, NoReload

LEMMA FineIsTransitive ==
    ASSUME NEW p, NEW q, NEW r, Fine(p, q), Fine(q, r)
    PROVE  Fine(p, r)
BY DEF Fine, Keeps

LEMMA MoreFirm ==
    ASSUME NEW p, NEW q, NEW s, NEW ready,
           Firm(p, s, ready) \subseteq Firm(q, s, ready),
           \A n \in OnTrial(q) :
               q.workers[n].slot = s /\ ~Safe(q, n) =>
                   n \in OnTrial(p) /\ p.workers[n].slot = s /\ ~Safe(p, n)
    PROVE  Keeps(p, q, s, ready)
BY DEF Keeps, Backed

\* Neither the workers nor the replacements change.
LEMMA QuietIsFine ==
    ASSUME NEW p, Good(p), NEW q, Shape(q),
           q.workers = p.workers, q.freeSlots = p.freeSlots,
           q.reload = p.reload, q.restarts = p.restarts, q.isShuttingDown = p.isShuttingDown,
           q.isReloading = p.isReloading
    PROVE  Fine(p, q)
<1>1. Good(q)
  BY DEF Good, Linked, Accounted, Replaces, Ids, InSlot, Mapped, Safe
<1>2. OnTrial(q) = OnTrial(p) /\ \A s, ready : Firm(q, s, ready) = Firm(p, s, ready)
  BY DEF OnTrial, Firm, InSlot, Mapped, Ids, Safe
<1>3. \A n : Safe(q, n) <=> Safe(p, n)
  BY DEF Safe, Mapped, Ids
<1> QED
  BY <1>1, <1>2, <1>3, MoreFirm DEF Fine

\* One worker's flags change: it keeps its slot and does not come or go.
LEMMA FlagsAreGood ==
    ASSUME NEW p, Good(p), NEW w \in Ids(p), NEW q, Shape(q), ChangesOnly(p, q, w),
           q.workers[w].life = "gone" <=> p.workers[w].life = "gone",
           p.workers[w].ready => q.workers[w].ready, Safe(q, w) => Safe(p, w)
    PROVE  /\ q.freeSlots = p.freeSlots => Accounted(q)
           /\ \A r : Replaces(p, r) => Replaces(q, r)
           /\ /\ q.freeSlots = p.freeSlots /\ q.reload = p.reload /\ q.restarts = p.restarts
              /\ q.isReloading = p.isReloading
              => Good(q) /\ OnTrial(q) = OnTrial(p)
<1>1. /\ Ids(q) = Ids(p)
      /\ \A u \in Ids(p) : /\ q.workers[u].slot = p.workers[u].slot
                           /\ q.workers[u].life = "gone" <=> p.workers[u].life = "gone"
                           /\ p.workers[u].ready => q.workers[u].ready
                           /\ Safe(q, u) => Safe(p, u)
  BY DEF ChangesOnly, Safe, Mapped
<1>2. \A r : Replaces(p, r) => Replaces(q, r)
  BY <1>1 DEF Replaces
<1>3. q.freeSlots = p.freeSlots => Accounted(q)
  BY <1>1 DEF Good, Accounted, InSlot, Mapped
<1> QED
  BY <1>1, <1>2, <1>3 DEF Good, Linked, OnTrial

\* A worker boots or starts to serve.
LEMMA StartingIsFine ==
    ASSUME NEW p, Good(p), NEW w \in Mapped(p), NEW q, Shape(q), ChangesOnly(p, q, w),
           q.workers[w].life # "gone", p.workers[w].ready => q.workers[w].ready,
           q.workers[w].left = p.workers[w].left, q.workers[w].killed = p.workers[w].killed,
           q.freeSlots = p.freeSlots, q.reload = p.reload, q.restarts = p.restarts,
           q.isShuttingDown = p.isShuttingDown, q.isReloading = p.isReloading
    PROVE  Fine(p, q)
<1>0. w \in Ids(p) /\ p.workers[w].life # "gone" /\ (Safe(q, w) => Safe(p, w))
  BY DEF Mapped, Safe
<1>1. Good(q) /\ OnTrial(q) = OnTrial(p)
  BY <1>0, FlagsAreGood
<1>3. \A u : Safe(q, u) <=> Safe(p, u)
  BY <1>0 DEF Safe, Mapped, ChangesOnly
<1>4. \A s, ready : Firm(p, s, ready) \subseteq Firm(q, s, ready)
  BY <1>0, <1>1, <1>3 DEF Firm, InSlot, Mapped, ChangesOnly
<1> QED
  BY <1>1, <1>3, <1>4, TrialsAreIds, MoreFirm DEF Fine, ChangesOnly

\* A worker on trial is killed, and is on trial no longer.
LEMMA DroppingIsFine ==
    ASSUME NEW p, Good(p), NEW w \in OnTrial(p), NEW q, Good(q), ChangesOnly(p, q, w),
           ~Safe(q, w), OnTrial(q) = OnTrial(p) \ {w},
           q.isShuttingDown = p.isShuttingDown
    PROVE  Fine(p, q)
<1>2. \A u \in Ids(p) : u # w => (Safe(q, u) <=> Safe(p, u))
  BY DEF Safe, Mapped, ChangesOnly
<1>3. \A s, ready : Firm(p, s, ready) \subseteq Firm(q, s, ready)
  BY <1>2 DEF Firm, InSlot, Mapped, ChangesOnly
<1> QED
  BY <1>2, <1>3, TrialsAreIds, MoreFirm DEF Fine, ChangesOnly

\* A worker that was told to go is killed, or exits, or nothing happens to it.
LEMMA UnsafeIsFine ==
    ASSUME NEW p, Good(p), NEW w \in Ids(p), NEW q, Good(q), ChangesOnly(p, q, w),
           Safe(p, w) => q.workers[w] = p.workers[w], Safe(q, w) => Safe(p, w),
           OnTrial(q) = OnTrial(p), q.isShuttingDown = p.isShuttingDown
    PROVE  Fine(p, q)
<1>2. \A u \in Ids(p) : Safe(q, u) <=> Safe(p, u)
  BY DEF Safe, Mapped, ChangesOnly
<1>3. \A s, ready : Firm(p, s, ready) \subseteq Firm(q, s, ready)
  BY <1>2 DEF Firm, InSlot, Mapped, ChangesOnly
<1> QED
  BY <1>2, <1>3, TrialsAreIds, MoreFirm DEF Fine, ChangesOnly

\* A replacement is promoted: its old worker is told to go.
LEMMA PromotingIsFine ==
    ASSUME NEW p, Good(p), NEW r, r \in p.restarts \/ (r = p.reload /\ r # NoReload),
           r.pc = "settling",
           NEW q, Good(q), ChangesOnly(p, q, r.old),
           q.workers[r.old] \in {p.workers[r.old], [p.workers[r.old] EXCEPT !.left = TRUE]},
           OnTrial(q) = OnTrial(p) \ {r.new},
           q.isShuttingDown = p.isShuttingDown
    PROVE  Fine(p, q)
<1>1. Replaces(p, r) /\ r.old \in Nat /\ r.new \in Nat
  BY DEF Good, Linked, Shape, ReloadState, RestartState
<1>2. /\ Ids(q) = Ids(p) /\ Ids(p) \subseteq Nat
      /\ \A u \in Ids(p) : u # r.old => q.workers[u] = p.workers[u]
      /\ \A u \in Ids(p) : q.workers[u].slot = p.workers[u].slot
      /\ \A u \in Ids(p) : Safe(q, u) => Safe(p, u)
      /\ \A u \in Ids(p) : u # r.old => (Safe(q, u) <=> Safe(p, u))
  <2>1. Ids(p) \subseteq Nat /\ \A u \in Ids(p) : p.workers[u] \in Worker
    BY DEF Ids, Good, Shape
  <2>3. r.old \in Ids(p)
    BY <1>1 DEF Replaces
  <2> QED
    BY <2>1, <2>3 DEF Safe, Mapped, Worker, ChangesOnly
<1>3. SUFFICES ASSUME NEW s \in Slot, NEW ready \in BOOLEAN, Backed(p, s, ready)
               PROVE  /\ Backed(q, s, ready)
                      /\ Firm(p, s, ready) # {} => Firm(q, s, ready) # {}
  BY DEF Fine, Keeps
<1>4. \A c \in Firm(p, s, ready) : c # r.old => c \in Firm(q, s, ready)
  BY <1>2 DEF Firm, InSlot, Mapped, Safe
<1>5. CASE s # r.slot
  <2>1. r.old \notin Firm(p, s, ready) /\ r.old \in Ids(p) /\ p.workers[r.old].slot # s
    BY <1>1, <1>5 DEF Replaces, Firm, InSlot
  <2>2. Firm(p, s, ready) \subseteq Firm(q, s, ready)
    BY <1>4, <2>1
  <2>3. \A n \in OnTrial(q) : q.workers[n].slot = s /\ ~Safe(q, n) =>
                                 n \in OnTrial(p) /\ p.workers[n].slot = s /\ ~Safe(p, n)
    BY <1>2, <2>1, TrialsAreIds
  <2> QED
    BY <1>3, <2>2, <2>3, MoreFirm DEF Keeps
<1>6. CASE s = r.slot
  <2>1. \E b \in Firm(q, s, ready) : r.old < b
    <3>1. CASE Safe(p, r.new)
      <4>1. r.new # r.old /\ Safe(q, r.new) /\ p.workers[r.new].ready
        BY <1>1, <1>2, <3>1 DEF Replaces, Safe, Mapped
      <4>2. r.new \in Firm(q, s, ready)
        BY <1>1, <1>2, <1>6, <4>1 DEF Replaces, Firm, InSlot, Safe
      <4> QED
        BY <1>1, <4>2 DEF Replaces
    <3>2. CASE ~Safe(p, r.new)
      <4>1. r.new \in OnTrial(p)
        BY DEF OnTrial
      <4>2. PICK c \in Firm(p, s, ready) : r.new < c
        BY <1>1, <1>3, <1>6, <3>2, <4>1 DEF Backed, Replaces
      <4>3. c \in Nat /\ r.old < c
        BY <1>1, <1>2, <4>2 DEF Replaces, Firm, InSlot, Mapped
      <4> QED
        BY <1>1, <1>4, <4>3
    <3> QED
      BY <3>1, <3>2
  <2>2. PICK b \in Firm(q, s, ready) : r.old < b
    BY <2>1
  <2>3. b \in Nat
    BY <1>2 DEF Firm, InSlot, Mapped
  <2>4. ASSUME NEW n \in OnTrial(q), q.workers[n].slot = s, ~Safe(q, n)
        PROVE  \E c \in Firm(q, s, ready) : n < c
    <3>1. n \in OnTrial(p) /\ n \in Ids(p) /\ n \in Nat /\ p.workers[n].slot = s
      BY <1>2, <2>4, TrialsAreIds
    <3>2. CASE n = r.old
      BY <2>2, <3>2
    <3>3. CASE n # r.old
      <4>1. PICK c \in Firm(p, s, ready) : n < c
        BY <1>2, <1>3, <2>4, <3>1, <3>3 DEF Backed
      <4>2. c \in Nat
        BY <1>2 DEF Firm, InSlot, Mapped
      <4> QED
        BY <1>1, <1>4, <2>2, <2>3, <3>1, <4>1, <4>2
    <3> QED
      BY <3>2, <3>3
  <2> QED
    BY <2>2, <2>4 DEF Backed
<1> QED
  BY <1>5, <1>6

\* A worker is forked: q is p with one more worker, which may be on trial.
LEMMA SpawningIsFine ==
    ASSUME NEW p, Good(p), NEW s \in Slot, NEW q, Good(q),
           q.workers = Append(p.workers, Unready(s)),
           OnTrial(q) \in {OnTrial(p), OnTrial(p) \cup {Len(p.workers) + 1}},
           q.isShuttingDown = p.isShuttingDown
    PROVE  Fine(p, q)
<1> DEFINE n == Len(p.workers) + 1
<1>0. Unready(s) \in Worker /\ p.workers \in Seq(Worker)
  BY DEF Good, Shape, Unready, Worker
<1>1. /\ Ids(q) = Ids(p) \cup {n} /\ n \notin Ids(p) /\ q.workers[n] = Unready(s)
      /\ \A u \in Ids(p) : q.workers[u] = p.workers[u]
  BY <1>0 DEF Ids
<1>2. /\ \A u \in Ids(p) : Safe(q, u) <=> Safe(p, u)
      /\ Safe(q, n)
  <2>1. \A u \in Ids(p) : Safe(q, u) <=> Safe(p, u)
    BY <1>1 DEF Safe, Mapped
  <2>2. n \in Mapped(q) /\ ~q.workers[n].left /\ ~q.workers[n].killed
    BY <1>1 DEF Mapped, Unready
  <2> QED
    BY <2>1, <2>2 DEF Safe
<1>3. \A t, ready : Firm(p, t, ready) \subseteq Firm(q, t, ready)
  BY <1>1, <1>2, TrialsAreIds DEF Firm, InSlot, Mapped
<1> QED
  BY <1>1, <1>2, <1>3, TrialsAreIds, MoreFirm DEF Fine

\* Forking keeps the account of slots, and whatever replacements there were.
LEMMA SpawningIsGood ==
    ASSUME NEW p, Good(p), NEW s \in Slot, NEW q,
           q.workers = Append(p.workers, Unready(s)), q.freeSlots = p.freeSlots \ {s}
    PROVE  /\ Accounted(q)
           /\ \A r : Replaces(p, r) => Replaces(q, r)
           /\ Ids(q) = Ids(p) \cup {Len(p.workers) + 1} /\ Ids(p) = 1..Len(p.workers)
           /\ q.workers[Len(p.workers) + 1] = Unready(s)
           /\ \A u \in Ids(p) : q.workers[u] = p.workers[u]
           /\ Len(p.workers) \in Nat
<1> DEFINE n == Len(p.workers) + 1
<1>0. Unready(s) \in Worker /\ p.workers \in Seq(Worker)
  BY DEF Good, Shape, Unready, Worker
<1>1. /\ Ids(q) = Ids(p) \cup {n} /\ n \notin Ids(p) /\ q.workers[n] = Unready(s)
      /\ \A u \in Ids(p) : q.workers[u] = p.workers[u]
      /\ Ids(p) = 1..Len(p.workers) /\ Len(p.workers) \in Nat
  BY <1>0 DEF Ids
<1>2. Mapped(q) = Mapped(p) \cup {n}
  BY <1>1 DEF Mapped, Unready
<1>3. InSlot(q, s) # {} /\ \A t : t # s => InSlot(q, t) = InSlot(p, t)
  BY <1>1, <1>2 DEF InSlot, Unready, Mapped
<1>4. Accounted(q)
  BY <1>3 DEF Good, Accounted
<1>5. \A u \in Ids(p) : Safe(q, u) => Safe(p, u)
  BY <1>1 DEF Safe, Mapped
<1> QED
  BY <1>1, <1>4, <1>5 DEF Replaces

\* reload() forks a candidate for r.old.
LEMMA AttemptIsFine ==
    ASSUME NEW p, Good(p), p.reload.pc \notin {"waiting", "settling"},
           NEW r \in [pc : {"waiting", "backoff"}, queue : SUBSET Ids(p), attempt : 0..Retries,
                      old : Ids(p), slot : Slot, new : Nat, results : Seq(Result)],
           p.workers[r.old].slot = r.slot, p.isReloading
    PROVE  Fine(p, Attempt(p, r))
<1> DEFINE n == Len(p.workers) + 1
           q == SpawnCandidate(p, r.slot)
           a == [r EXCEPT !.pc = "waiting", !.new = n]
           z == Attempt(p, r)
<1>0. r.slot \in Slot /\ Shape(p)
  BY DEF Good
<1>1. /\ Shape(q) /\ q.workers = Append(p.workers, Unready(r.slot))
      /\ q.freeSlots = p.freeSlots \ {r.slot}
      /\ q.isShuttingDown = p.isShuttingDown /\ q.restarts = p.restarts
      /\ q.isReloading = p.isReloading
  BY ONLY <1>0, SpawnFields
<1>2. /\ z.workers = q.workers /\ z.freeSlots = q.freeSlots /\ z.restarts = p.restarts
      /\ z.reload = a /\ z.isShuttingDown = p.isShuttingDown /\ z.isReloading
  <2>1. Newest(q) = n
    BY <1>1, SpawningIsGood DEF Newest, Good, Shape, Unready, Worker
  <2> QED
    BY <1>1, <2>1 DEF Shape, IsRecord, Attempt
<1>3. /\ Accounted(z) /\ \A t : Replaces(p, t) => Replaces(z, t)
      /\ Ids(z) = Ids(p) \cup {n} /\ Ids(p) = 1..Len(p.workers)
      /\ z.workers[n] = Unready(r.slot) /\ \A u \in Ids(p) : z.workers[u] = p.workers[u]
      /\ Len(p.workers) \in Nat
  BY <1>1, <1>2, SpawningIsGood
<1>4. a \in ReloadState /\ a.pc = "waiting" /\ a.new = n /\ a.old = r.old /\ a.slot = r.slot
      /\ a.queue = r.queue /\ a.queue \subseteq Ids(p)
  <2>1. r.queue \in SUBSET Nat /\ r.old \in Nat /\ n \in Nat
    BY <1>3
  <2> QED
    BY <2>1 DEF ReloadState
<1>5. Shape(z)
  BY <1>1, <1>2, <1>4 DEF Shape, IsRecord, Ids, Attempt
<1>6. Linked(z)
  <2>1. Replaces(z, a)
    BY <1>3, <1>4 DEF Replaces, Unready
  <2>2. \A t \in p.restarts : t.new # n
    BY <1>3 DEF Good, Linked, Replaces
  <2> QED
    BY <1>2, <1>3, <1>4, <2>1, <2>2 DEF Good, Linked
<1>7. OnTrial(z) = OnTrial(p) \cup {n}
  <2>1. z.reload.pc = "waiting" /\ z.reload.new = n /\ z.restarts = p.restarts
    BY <1>2, <1>4
  <2> HIDE DEF z, n
  <2> QED
    BY <2>1, OnTrialMembers
<1> QED
  BY <1>1, <1>2, <1>3, <1>5, <1>6, <1>7, SpawningIsFine DEF Good

----------------------------------------------------------------------------
(* The turns of reload(). *)

LEMMA SameTrialsIsFine ==
    ASSUME NEW p, Good(p), NEW q, Good(q), q.workers = p.workers,
           OnTrial(q) = OnTrial(p), q.isShuttingDown = p.isShuttingDown
    PROVE  Fine(p, q)
<1>1. \A s, ready : Firm(p, s, ready) \subseteq Firm(q, s, ready)
  BY DEF Firm, InSlot, Mapped, Ids, Safe
<1>2. \A u : Safe(q, u) <=> Safe(p, u)
  BY DEF Safe, Mapped, Ids
<1> QED
  BY <1>1, <1>2, MoreFirm DEF Fine

LEMMA FinishFields ==
    ASSUME NEW p, Shape(p), NEW results
    PROVE  LET z == Finish(p, results)
           IN /\ Shape(z) /\ z.workers = p.workers /\ z.freeSlots = p.freeSlots
              /\ z.restarts = p.restarts /\ z.reload = NoReload
              /\ z.isShuttingDown = p.isShuttingDown /\ ~z.isReloading
BY DEF Finish, Send, SendAll, Shape, IsRecord, Ids

LEMMA FinishIsGood ==
    ASSUME NEW p, Shape(p), Linked(p), Accounted(p), NEW results
    PROVE  /\ Good(Finish(p, results))
           /\ \A n : n \in OnTrial(Finish(p, results)) <=>
                    \E r \in p.restarts : r.pc \in {"waiting", "settling"} /\ n = r.new
<1> DEFINE z == Finish(p, results)
<1>1. /\ Shape(z) /\ z.workers = p.workers /\ z.freeSlots = p.freeSlots
      /\ z.restarts = p.restarts /\ z.reload = NoReload
  BY FinishFields
<1> HIDE DEF z
<1>2. Good(z)
  BY <1>1 DEF Good, Linked, Accounted, Replaces, Ids, InSlot, Mapped, Safe
<1>3. z.reload.pc = "idle"
  BY <1>1 DEF NoReload
<1>4. \A n : n \in OnTrial(z) <=> \E r \in p.restarts : r.pc \in {"waiting", "settling"} /\ n = r.new
  BY <1>1, <1>3, OnTrialMembers
<1> QED
  BY <1>2, <1>4 DEF z

LEMMA FinishIsFine ==
    ASSUME NEW p, Good(p), p.reload.pc \notin {"waiting", "settling"}, NEW results
    PROVE  Fine(p, Finish(p, results))
<1>1. OnTrial(Finish(p, results)) = OnTrial(p)
  <2>1. \A n : n \in OnTrial(Finish(p, results)) <=> n \in OnTrial(p)
    BY FinishIsGood, OnTrialMembers DEF Good
  <2> QED
    BY <2>1
<1> QED
  BY <1>1, FinishIsGood, FinishFields, SameTrialsIsFine DEF Good

LEMMA NextSlotIsFine ==
    ASSUME NEW p, Good(p), p.reload.pc \notin {"waiting", "settling"}, p.isReloading,
           NEW queue \in SUBSET Ids(p), NEW results \in Seq(Result)
    PROVE  Fine(p, NextSlot(p, queue, results))
<1>1. CASE queue = {} \/ p.isShuttingDown
  BY <1>1, FinishIsFine DEF NextSlot
<1>2. CASE queue # {} /\ ~p.isShuttingDown
  <2> DEFINE w == First(queue)
             r == [pc |-> "waiting", queue |-> queue \ {w}, attempt |-> 0, old |-> w,
                   slot |-> p.workers[w].slot, new |-> 0, results |-> results]
  <2>1. w \in queue
    <3>1. queue \subseteq Nat
      BY DEF Ids, Good, Shape
    <3> QED
      BY <1>2, <3>1, FirstIsLeast
  <2>2. w \in Ids(p) /\ p.workers[w].slot \in Slot
    BY <2>1, WorkerTypes DEF Good
  <2>3. NextSlot(p, queue, results) = Attempt(p, r)
    BY <1>2 DEF NextSlot
  <2>4. /\ r \in [pc : {"waiting", "backoff"}, queue : SUBSET Ids(p), attempt : 0..Retries,
                  old : Ids(p), slot : Slot, new : Nat, results : Seq(Result)]
        /\ p.workers[r.old].slot = r.slot
    BY <2>1, <2>2, PrimaryAssumption
  <2> HIDE DEF r
  <2>5. Fine(p, Attempt(p, r))
    BY <2>4, AttemptIsFine
  <2> QED
    BY <2>3, <2>5
<1> QED
  BY <1>1, <1>2

LEMMA ReplacedIsFine ==
    ASSUME NEW p, Good(p), p.reload.pc = "stopping"
    PROVE  Fine(p, Replaced(p))
<1> DEFINE r == p.reload
           q == SendAll(p, Announcement(r))
           results == Append(r.results, [slot |-> r.slot, ok |-> TRUE])
<1>1. r # NoReload /\ r \in ReloadState /\ p.isReloading
  BY DEF Good, Shape, NoReload, Linked
<1>2. results \in Seq(Result) /\ r.queue \in SUBSET Ids(p)
  BY <1>1 DEF ReloadState, Result, Good, Linked
<1>3. IsRecord(q) /\ Alike(p, q)
  BY SendFields DEF Good, Shape
<1> HIDE DEF q, results
<1>4. Fine(p, q)
  BY <1>3, QuietIsFine DEF Good, Shape, Alike, AlikeBut, Ids
<1>5. Fine(q, NextSlot(q, r.queue, results))
  BY <1>1, <1>2, <1>3, <1>4, NextSlotIsFine DEF Alike, AlikeBut, Fine, Ids
<1> QED
  BY <1>4, <1>5, FineIsTransitive DEF Replaced, q, results

\* waitForReady() rejected: the candidate is killed; try again, or give up.
LEMMA RejectedIsFine ==
    ASSUME NEW p, Good(p), p.reload.pc = "waiting"
    PROVE  Fine(p, Rejected(p))
<1> DEFINE r == p.reload
           q == Kill(p, r.new)
           b == [q EXCEPT !.reload.pc = "backoff", !.reload.attempt = @ + 1]
<1>1. r # NoReload /\ r \in ReloadState /\ r.new \in Ids(p) /\ r.new \in OnTrial(p)
      /\ \A t \in p.restarts : t.new # r.new
  BY OnTrialMembers DEF Good, Shape, NoReload, Linked, Replaces
<1>2. /\ Shape(q) /\ AlikeBut(p, q) /\ ChangesOnly(p, q, r.new) /\ ~Safe(q, r.new)
      /\ Accounted(q) /\ \A t : Replaces(p, t) => Replaces(q, t)
  <2>1. /\ Shape(q) /\ AlikeBut(p, q) /\ ChangesOnly(p, q, r.new) /\ ~Safe(q, r.new)
        /\ q.workers[r.new].life = p.workers[r.new].life
        /\ q.workers[r.new].ready = p.workers[r.new].ready
    BY <1>1, KillFields DEF Good
  <2> HIDE DEF q
  <2> QED
    BY <1>1, <2>1, FlagsAreGood DEF AlikeBut
<1>3. ASSUME NEW z, Good(z), z.workers = q.workers, z.isShuttingDown = p.isShuttingDown,
             z.restarts = p.restarts, z.reload.pc \in {"idle", "backoff"}
      PROVE  Fine(p, z)
  <2> HIDE DEF q
  <2>1. ChangesOnly(p, z, r.new) /\ ~Safe(z, r.new)
    BY <1>2, <1>3 DEF ChangesOnly, Safe, Mapped, Ids
  <2>2. \A n : n \in OnTrial(z) <=> n \in OnTrial(p) \ {r.new}
    BY <1>1, <1>3, OnTrialMembers
  <2> QED
    BY <1>1, <1>3, <2>1, <2>2, DroppingIsFine
<1>4. Linked(q)
  <2> HIDE DEF q
  <2> QED
    BY <1>2 DEF Good, Linked, AlikeBut, ChangesOnly
<1>5. ASSUME NEW results
      PROVE  Fine(p, Finish(q, results))
  <2> HIDE DEF q
  <2>1. Good(Finish(q, results))
    BY <1>2, <1>4, FinishIsGood
  <2> QED
    BY <1>2, <1>3, <2>1, FinishFields DEF AlikeBut, NoReload
<1>6. CASE AttemptsLeft(p) /\ ~p.isShuttingDown
  <2>1. Rejected(p) = b
    BY <1>6 DEF Rejected
  <2>2. q.reload = r /\ r.attempt \in 0..Retries /\ r.attempt + 1 \in 0..Retries
    BY <1>1, <1>2, <1>6, PrimaryAssumption DEF AlikeBut, AttemptsLeft, ReloadState
  <2> HIDE DEF q
  <2>3. /\ b.workers = q.workers /\ b.freeSlots = q.freeSlots /\ b.restarts = q.restarts
        /\ b.isShuttingDown = q.isShuttingDown /\ IsRecord(b)
        /\ b.candidates = q.candidates /\ b.stopping = q.stopping
        /\ b.isReloading = q.isReloading /\ b.exited = q.exited
        /\ b.reload = [r EXCEPT !.pc = "backoff", !.attempt = r.attempt + 1]
    BY <1>2, <2>2 DEF Shape, IsRecord
  <2> HIDE DEF b
  <2>4. /\ b.reload \in ReloadState /\ b.reload.pc = "backoff" /\ b.reload.new = r.new
        /\ b.reload.old = r.old /\ b.reload.slot = r.slot /\ b.reload.queue = r.queue
    BY <1>1, <2>2, <2>3 DEF ReloadState
  <2>5. Shape(b) /\ Accounted(b)
    BY <1>2, <2>3, <2>4 DEF Shape, Accounted, Ids, InSlot, Mapped
  <2>6. Linked(b)
    <3>1. q.reload # NoReload /\ q.restarts = p.restarts /\ Ids(b) = Ids(q)
      BY <1>1, <1>2, <2>2, <2>3 DEF AlikeBut, Ids
    <3>2. \A t : Replaces(q, t) => Replaces(b, t)
      BY <2>3, <3>1 DEF Replaces, Safe, Mapped
    <3>3. Replaces(b, b.reload)
      BY <1>4, <2>2, <2>3, <2>4, <3>1 DEF Linked, Replaces
    <3> QED
      BY <1>1, <1>4, <2>2, <2>3, <2>4, <3>1, <3>2, <3>3 DEF Linked
  <2> QED
    BY <1>2, <1>3, <2>1, <2>3, <2>4, <2>5, <2>6 DEF Good, AlikeBut
<1> QED
  BY <1>5, <1>6 DEF Rejected

\* The candidate is ready: the 50 ms begin.
LEMMA ReadyIsFine ==
    ASSUME NEW p, Good(p), p.reload.pc = "waiting", p.workers[p.reload.new].ready
    PROVE  Fine(p, [p EXCEPT !.reload.pc = "settling"])
<1> DEFINE r == p.reload
           a == [r EXCEPT !.pc = "settling"]
           q == [p EXCEPT !.reload.pc = "settling"]
<1>1. r # NoReload /\ r \in ReloadState
  BY DEF Good, Shape, NoReload
<1>2. /\ a \in ReloadState /\ a.pc = "settling" /\ a.new = r.new /\ a.old = r.old
      /\ a.slot = r.slot /\ a.queue = r.queue /\ a # NoReload
  BY <1>1 DEF ReloadState, NoReload
<1>3. /\ q.workers = p.workers /\ q.freeSlots = p.freeSlots /\ q.restarts = p.restarts
      /\ q.reload = a /\ q.isShuttingDown = p.isShuttingDown /\ q.isReloading = p.isReloading
      /\ IsRecord(q) /\ q.candidates = p.candidates /\ q.stopping = p.stopping /\ q.exited = p.exited
  BY DEF Good, Shape, IsRecord
<1> HIDE DEF a, q
<1>4. Shape(q) /\ Accounted(q)
  BY <1>2, <1>3 DEF Good, Shape, Accounted, Ids, InSlot, Mapped
<1>5. Linked(q)
  BY <1>1, <1>2, <1>3 DEF Good, Linked, Replaces, Ids, Safe, Mapped
<1>6. \A n : n \in OnTrial(q) <=> n \in OnTrial(p)
  BY <1>2, <1>3, OnTrialMembers
<1> QED
  <2>1. OnTrial(q) = OnTrial(p) /\ Good(q)
    BY <1>4, <1>5, <1>6 DEF Good
  <2>2. Fine(p, q)
    BY <1>3, <2>1, SameTrialsIsFine
  <2> QED
    BY <2>2 DEF q

\* It is promoted.
LEMMA ReloadPromotesIsFine ==
    ASSUME NEW p, Good(p), p.reload.pc = "settling"
    PROVE  Fine(p, Leave([p EXCEPT !.reload.pc = "stopping",
                                   !.candidates = @ \ {p.reload.new}], p.reload.old))
<1> DEFINE r == p.reload
           a == [r EXCEPT !.pc = "stopping"]
           m == [p EXCEPT !.reload.pc = "stopping", !.candidates = @ \ {p.reload.new}]
           q == Leave(m, r.old)
<1>1. /\ r # NoReload /\ r \in ReloadState /\ r.old \in Ids(p) /\ Replaces(p, r)
      /\ \A t \in p.restarts : t.new # r.new
  BY DEF Good, Shape, NoReload, Linked, Replaces
<1>2. /\ a \in ReloadState /\ a.pc = "stopping" /\ a.new = r.new /\ a.old = r.old
      /\ a.slot = r.slot /\ a.queue = r.queue /\ a # NoReload
  BY <1>1 DEF ReloadState, NoReload
<1>3. /\ m.workers = p.workers /\ m.freeSlots = p.freeSlots /\ m.restarts = p.restarts
      /\ m.reload = a /\ m.isShuttingDown = p.isShuttingDown /\ m.isReloading = p.isReloading
      /\ IsRecord(m) /\ m.candidates = p.candidates \ {r.new} /\ m.stopping = p.stopping
      /\ m.exited = p.exited
  BY DEF Good, Shape, IsRecord
<1> HIDE DEF a, m
<1>4. Shape(m) /\ Ids(m) = Ids(p) /\ Mapped(m) = Mapped(p)
  BY <1>2, <1>3 DEF Good, Shape, Ids, Mapped
<1>5. /\ Shape(q) /\ AlikeBut(m, q) /\ ChangesOnly(p, q, r.old)
      /\ q.workers[r.old] \in {p.workers[r.old], [p.workers[r.old] EXCEPT !.left = TRUE]}
      /\ ~Safe(q, r.old)
  <2>1. /\ Shape(q) /\ AlikeBut(m, q) /\ ChangesOnly(m, q, r.old)
        /\ q.workers[r.old] \in {m.workers[r.old], [m.workers[r.old] EXCEPT !.left = TRUE]}
        /\ ~Safe(q, r.old)
    BY <1>1, <1>4, LeaveFields
  <2> QED
    BY <1>3, <1>4, <2>1 DEF ChangesOnly
<1> HIDE DEF q
<1>6. /\ q.workers[r.old].life = p.workers[r.old].life
      /\ q.workers[r.old].ready = p.workers[r.old].ready
      /\ p.workers[r.old] \in Worker
  BY <1>1, <1>5, WorkerTypes DEF Good, Worker
<1>7. Accounted(q) /\ \A t : Replaces(p, t) => Replaces(q, t)
  BY <1>1, <1>3, <1>5, <1>6, FlagsAreGood DEF AlikeBut
<1>8. Linked(q)
  <2>1. Replaces(q, a)
    BY <1>1, <1>2, <1>5, <1>7 DEF Replaces, ChangesOnly
  <2> QED
    BY <1>1, <1>2, <1>3, <1>5, <1>7, <2>1 DEF Good, Linked, AlikeBut, ChangesOnly
<1>9. \A n : n \in OnTrial(q) <=> n \in OnTrial(p) \ {r.new}
  BY <1>1, <1>2, <1>3, <1>5, OnTrialMembers DEF AlikeBut
<1> QED
  <2>1. Good(q) /\ OnTrial(q) = OnTrial(p) \ {r.new} /\ q.isShuttingDown = p.isShuttingDown
    BY <1>3, <1>5, <1>7, <1>8, <1>9 DEF Good, AlikeBut
  <2>2. Fine(p, q)
    BY <1>1, <1>5, <2>1, PromotingIsFine
  <2> QED
    BY <2>2 DEF q, m

\* The old worker has not exited in time: it is killed, and the reload goes on.
LEMMA ReloadKillIsFine ==
    ASSUME NEW p, Good(p), p.reload.pc = "stopping"
    PROVE  Fine(p, Replaced(Kill(p, p.reload.old)))
<1> DEFINE r == p.reload
           q == Kill(p, r.old)
<1>1. r # NoReload /\ Replaces(p, r) /\ r.old \in Ids(p) /\ ~Safe(p, r.old)
  BY DEF Good, Shape, NoReload, Linked, Replaces
<1>2. /\ Shape(q) /\ AlikeBut(p, q) /\ ChangesOnly(p, q, r.old) /\ ~Safe(q, r.old)
      /\ q.workers[r.old].life = p.workers[r.old].life
      /\ q.workers[r.old].ready = p.workers[r.old].ready
  BY <1>1, KillFields DEF Good
<1> HIDE DEF q
<1>3. Good(q) /\ OnTrial(q) = OnTrial(p)
  BY <1>1, <1>2, FlagsAreGood DEF AlikeBut
<1>4. Fine(p, q)
  BY <1>1, <1>2, <1>3, UnsafeIsFine DEF AlikeBut
<1>5. Fine(q, Replaced(q))
  BY <1>2, <1>3, ReplacedIsFine DEF AlikeBut
<1> QED
  BY <1>4, <1>5, FineIsTransitive DEF q

----------------------------------------------------------------------------
(* The turns of restartWorker(). *)

\* The restarts R are over: nothing but their records and the channel changes.
LEMMA RestartsDoneIsFine ==
    ASSUME NEW p, Good(p), NEW R, \A r \in R : r \in p.restarts => r.pc = "stopping"
    PROVE  Fine(p, RestartsDone(p, R))
<1> DEFINE m == [p EXCEPT !.restarts = @ \ R]
           q == RestartsDone(p, R)
<1>1. /\ IsRecord(m) /\ m.restarts = p.restarts \ R /\ m.workers = p.workers
      /\ m.freeSlots = p.freeSlots /\ m.isShuttingDown = p.isShuttingDown
      /\ m.isReloading = p.isReloading /\ m.candidates = p.candidates /\ m.reload = p.reload
      /\ m.stopping = p.stopping /\ m.exited = p.exited
  BY DEF Good, Shape, IsRecord
<1> HIDE DEF m
<1>2. IsRecord(q) /\ Alike(m, q)
  BY <1>1, SendFields DEF RestartsDone, m
<1> HIDE DEF q
<1>3. Shape(q) /\ Accounted(q)
  BY <1>1, <1>2 DEF Good, Shape, Alike, AlikeBut, Accounted, Ids, InSlot, Mapped
<1>4. Linked(q)
  BY <1>1, <1>2 DEF Good, Linked, Alike, AlikeBut, Replaces, Ids, Safe, Mapped
<1>5. \A n : n \in OnTrial(q) <=> n \in OnTrial(p)
  BY <1>1, <1>2, OnTrialMembers DEF Alike, AlikeBut
<1>6. OnTrial(q) = OnTrial(p) /\ Good(q)
  BY <1>3, <1>4, <1>5 DEF Good
<1>7. Fine(p, q)
  BY <1>1, <1>2, <1>6, SameTrialsIsFine DEF Alike, AlikeBut
<1> QED
  BY <1>7 DEF q

LEMMA RestartKillIsFine ==
    ASSUME NEW p, Good(p), NEW r \in p.restarts, r.pc = "stopping"
    PROVE  Fine(p, RestartsDone(Kill(p, r.old), {r}))
<1> DEFINE q == Kill(p, r.old)
<1>1. Replaces(p, r) /\ r.old \in Ids(p) /\ ~Safe(p, r.old)
  BY DEF Good, Linked, Replaces
<1>2. /\ Shape(q) /\ AlikeBut(p, q) /\ ChangesOnly(p, q, r.old) /\ ~Safe(q, r.old)
      /\ q.workers[r.old].life = p.workers[r.old].life
      /\ q.workers[r.old].ready = p.workers[r.old].ready
  BY <1>1, KillFields DEF Good
<1> HIDE DEF q
<1>3. Good(q) /\ OnTrial(q) = OnTrial(p)
  BY <1>1, <1>2, FlagsAreGood DEF AlikeBut
<1>4. Fine(p, q)
  BY <1>1, <1>2, <1>3, UnsafeIsFine DEF AlikeBut
<1>5. Fine(q, RestartsDone(q, {r}))
  BY <1>3, RestartsDoneIsFine
<1> QED
  BY <1>4, <1>5, FineIsTransitive DEF q

\* The record of a restart moves to its next await.
LEMMA MovesFields ==
    ASSUME NEW p, Good(p), NEW r \in p.restarts, NEW pc \in {"settling", "stopping"}
    PROVE  LET a == [r EXCEPT !.pc = pc]
               q == RestartMoves(p, r, pc)
           IN /\ a \in RestartState /\ a.pc = pc /\ a.old = r.old /\ a.new = r.new
              /\ a.slot = r.slot
              /\ IsRecord(q) /\ q.restarts = (p.restarts \ {r}) \cup {a}
              /\ q.workers = p.workers /\ q.freeSlots = p.freeSlots /\ q.reload = p.reload
              /\ q.isShuttingDown = p.isShuttingDown /\ q.isReloading = p.isReloading
              /\ q.candidates = p.candidates /\ q.stopping = p.stopping /\ q.exited = p.exited
<1>1. r \in RestartState
  BY DEF Good, Shape
<1>2. [r EXCEPT !.pc = pc] \in RestartState
  BY <1>1 DEF RestartState
<1>3. /\ [r EXCEPT !.pc = pc].pc = pc /\ [r EXCEPT !.pc = pc].old = r.old
      /\ [r EXCEPT !.pc = pc].new = r.new /\ [r EXCEPT !.pc = pc].slot = r.slot
  BY <1>1 DEF RestartState
<1> QED
  BY <1>2, <1>3 DEF Good, Shape, IsRecord, RestartMoves

LEMMA RestartReadyIsFine ==
    ASSUME NEW p, Good(p), NEW r \in p.restarts, r.pc = "waiting", p.workers[r.new].ready
    PROVE  Fine(p, RestartMoves(p, r, "settling"))
<1> DEFINE a == [r EXCEPT !.pc = "settling"]
           q == RestartMoves(p, r, "settling")
<1>1. /\ a \in RestartState /\ a.pc = "settling" /\ a.old = r.old /\ a.new = r.new
      /\ a.slot = r.slot
      /\ IsRecord(q) /\ q.restarts = (p.restarts \ {r}) \cup {a}
      /\ q.workers = p.workers /\ q.freeSlots = p.freeSlots /\ q.reload = p.reload
      /\ q.isShuttingDown = p.isShuttingDown /\ q.isReloading = p.isReloading
      /\ q.candidates = p.candidates /\ q.stopping = p.stopping /\ q.exited = p.exited
  BY MovesFields
<1> HIDE DEF a, q
<1>2. Shape(q) /\ Accounted(q)
  BY <1>1 DEF Good, Shape, Accounted, Ids, InSlot, Mapped
<1>3. Linked(q)
  <2>1. \A t : Replaces(p, t) => Replaces(q, t)
    BY <1>1 DEF Replaces, Ids, Safe, Mapped
  <2>2. Replaces(q, a)
    BY <1>1, <2>1 DEF Good, Linked, Replaces
  <2> QED
    BY <1>1, <2>1, <2>2 DEF Good, Linked, Ids
<1>4. \A n : n \in OnTrial(q) <=> n \in OnTrial(p)
  BY <1>1, OnTrialMembers
<1>5. OnTrial(q) = OnTrial(p) /\ Good(q)
  BY <1>2, <1>3, <1>4 DEF Good
<1>6. Fine(p, q)
  BY <1>1, <1>5, SameTrialsIsFine
<1> QED
  BY <1>6 DEF q

LEMMA RestartPromotesIsFine ==
    ASSUME NEW p, Good(p), NEW r \in p.restarts, r.pc = "settling"
    PROVE  Fine(p, Leave([RestartMoves(p, r, "stopping") EXCEPT !.candidates = @ \ {r.new}], r.old))
<1> DEFINE a == [r EXCEPT !.pc = "stopping"]
           n == RestartMoves(p, r, "stopping")
           m == [n EXCEPT !.candidates = @ \ {r.new}]
           q == Leave(m, r.old)
<1>1. Replaces(p, r) /\ r.old \in Ids(p)
  BY DEF Good, Linked, Replaces
<1>2. /\ a \in RestartState /\ a.pc = "stopping" /\ a.old = r.old /\ a.new = r.new
      /\ a.slot = r.slot
      /\ IsRecord(n) /\ n.restarts = (p.restarts \ {r}) \cup {a}
      /\ n.workers = p.workers /\ n.freeSlots = p.freeSlots /\ n.reload = p.reload
      /\ n.isShuttingDown = p.isShuttingDown /\ n.isReloading = p.isReloading
      /\ n.candidates = p.candidates /\ n.stopping = p.stopping /\ n.exited = p.exited
  BY MovesFields
<1> HIDE DEF a, n
<1>3. /\ m.workers = p.workers /\ m.freeSlots = p.freeSlots /\ m.reload = p.reload
      /\ m.restarts = (p.restarts \ {r}) \cup {a}
      /\ m.isShuttingDown = p.isShuttingDown /\ m.isReloading = p.isReloading
      /\ IsRecord(m) /\ m.candidates = p.candidates \ {r.new} /\ m.stopping = p.stopping
      /\ m.exited = p.exited
  BY <1>2 DEF IsRecord
<1> HIDE DEF m
<1>4. Shape(m) /\ Ids(m) = Ids(p) /\ Mapped(m) = Mapped(p)
  BY <1>2, <1>3 DEF Good, Shape, Ids, Mapped
<1>5. /\ Shape(q) /\ AlikeBut(m, q) /\ ChangesOnly(p, q, r.old)
      /\ q.workers[r.old] \in {p.workers[r.old], [p.workers[r.old] EXCEPT !.left = TRUE]}
      /\ ~Safe(q, r.old)
  <2>1. /\ Shape(q) /\ AlikeBut(m, q) /\ ChangesOnly(m, q, r.old)
        /\ q.workers[r.old] \in {m.workers[r.old], [m.workers[r.old] EXCEPT !.left = TRUE]}
        /\ ~Safe(q, r.old)
    BY <1>1, <1>4, LeaveFields
  <2> QED
    BY <1>3, <1>4, <2>1 DEF ChangesOnly
<1> HIDE DEF q
<1>6. /\ q.workers[r.old].life = p.workers[r.old].life
      /\ q.workers[r.old].ready = p.workers[r.old].ready
      /\ p.workers[r.old] \in Worker
  BY <1>1, <1>5, WorkerTypes DEF Good, Worker
<1>7. Accounted(q) /\ \A t : Replaces(p, t) => Replaces(q, t)
  BY <1>1, <1>3, <1>5, <1>6, FlagsAreGood DEF AlikeBut
<1>8. Linked(q)
  <2>1. Replaces(q, a)
    BY <1>1, <1>2, <1>5, <1>7 DEF Replaces, ChangesOnly
  <2> QED
    BY <1>1, <1>2, <1>3, <1>5, <1>7, <2>1 DEF Good, Linked, AlikeBut, ChangesOnly
<1>9. \A u : u \in OnTrial(q) <=> u \in OnTrial(p) \ {r.new}
  BY <1>2, <1>3, <1>5, OnTrialMembers DEF AlikeBut, Good, Linked, Shape, NoReload
<1> QED
  <2>1. Good(q) /\ OnTrial(q) = OnTrial(p) \ {r.new} /\ q.isShuttingDown = p.isShuttingDown
    BY <1>3, <1>5, <1>7, <1>8, <1>9 DEF Good, AlikeBut
  <2>2. Fine(p, q)
    BY <1>1, <1>5, <2>1, PromotingIsFine
  <2> QED
    BY <2>2 DEF q, m, n

\* waitForReady() rejected.
LEMMA RestartRejectedIsFine ==
    ASSUME NEW p, Good(p), NEW r \in p.restarts, r.pc = "waiting"
    PROVE  Fine(p, RestartRejected(p, r))
<1> DEFINE k == Kill(p, r.new)
           m == [k EXCEPT !.restarts = @ \ {r}, !.candidates = @ \ {r.new}]
           q == RestartRejected(p, r)
<1>1. /\ Replaces(p, r) /\ r.new \in Ids(p) /\ r.new \in OnTrial(p)
      /\ \A t \in p.restarts : t # r => t.new # r.new
      /\ p.reload # NoReload => p.reload.new # r.new
  BY OnTrialMembers DEF Good, Linked, Replaces
<1>2. /\ Shape(k) /\ AlikeBut(p, k) /\ ChangesOnly(p, k, r.new) /\ ~Safe(k, r.new)
      /\ k.workers[r.new].life = p.workers[r.new].life
      /\ k.workers[r.new].ready = p.workers[r.new].ready
  BY <1>1, KillFields DEF Good
<1> HIDE DEF k
<1>3. Accounted(k) /\ \A t : Replaces(p, t) => Replaces(k, t)
  BY <1>1, <1>2, FlagsAreGood DEF AlikeBut
<1>4. /\ m.workers = k.workers /\ m.freeSlots = k.freeSlots /\ m.reload = k.reload
      /\ m.restarts = k.restarts \ {r} /\ m.isShuttingDown = k.isShuttingDown
      /\ m.isReloading = k.isReloading /\ IsRecord(m) /\ m.stopping = k.stopping
      /\ m.candidates = k.candidates \ {r.new} /\ m.exited = k.exited
  BY <1>2 DEF Shape, IsRecord
<1> HIDE DEF m
<1>5. IsRecord(q) /\ Alike(m, q)
  BY <1>4, SendFields DEF RestartRejected, Send, m, k
<1> HIDE DEF q
<1>6. /\ q.workers = k.workers /\ q.freeSlots = k.freeSlots /\ q.reload = p.reload
      /\ q.restarts = p.restarts \ {r} /\ q.isShuttingDown = p.isShuttingDown
      /\ q.isReloading = p.isReloading
  BY <1>2, <1>4, <1>5 DEF Alike, AlikeBut
<1>7. Shape(q) /\ Accounted(q)
  BY <1>2, <1>3, <1>4, <1>5 DEF Shape, Alike, AlikeBut, Accounted, Ids, InSlot, Mapped
<1>8. Linked(q)
  <2>1. \A t : Replaces(p, t) => Replaces(q, t)
    BY <1>3, <1>6 DEF Replaces, Ids, Safe, Mapped
  <2>2. Ids(q) = Ids(p)
    BY <1>2, <1>6 DEF ChangesOnly, Ids
  <2> QED
    BY <1>6, <2>1, <2>2 DEF Good, Linked
<1>9. \A n : n \in OnTrial(q) <=> n \in OnTrial(p) \ {r.new}
  <2>1. p.reload.pc \in {"waiting", "settling"} => p.reload # NoReload
    BY DEF NoReload
  <2> QED
    BY <1>1, <1>6, <2>1, OnTrialMembers
<1>10. ChangesOnly(p, q, r.new) /\ ~Safe(q, r.new)
  BY <1>2, <1>6 DEF ChangesOnly, Ids, Safe, Mapped
<1>11. Good(q) /\ OnTrial(q) = OnTrial(p) \ {r.new}
  BY <1>7, <1>8, <1>9 DEF Good
<1>12. Fine(p, q)
  BY <1>1, <1>6, <1>10, <1>11, DroppingIsFine
<1> QED
  BY <1>12 DEF q

LEMMA RestartWorkerIsFine ==
    ASSUME NEW p, Good(p), NEW s \in Slot
    PROVE  Fine(p, RestartWorker(p, s))
<1>1. CASE p.isShuttingDown \/ p.isReloading \/ InSlot(p, s) = {}
  BY <1>1, QuietIsFine DEF RestartWorker, Good
<1>2. CASE ~(p.isShuttingDown \/ p.isReloading \/ InSlot(p, s) = {})
  <2> DEFINE n == Len(p.workers) + 1
             w == First(InSlot(p, s))
             c == SpawnCandidate(p, s)
             a == [pc |-> "waiting", slot |-> s, old |-> w, new |-> n]
             q == RestartWorker(p, s)
  <2>1. w \in InSlot(p, s)
    <3>1. InSlot(p, s) \subseteq Nat
      BY WorkerTypes DEF Good, InSlot, Mapped
    <3> QED
      BY <1>2, <3>1, FirstIsLeast
  <2> HIDE DEF w
  <2>2. w \in Ids(p) /\ p.workers[w].slot = s
    BY <2>1 DEF InSlot, Mapped
  <2>3. /\ Shape(c) /\ c.workers = Append(p.workers, Unready(s))
        /\ c.freeSlots = p.freeSlots \ {s}
        /\ c.isShuttingDown = p.isShuttingDown /\ c.isReloading = p.isReloading
        /\ c.reload = p.reload /\ c.restarts = p.restarts
    BY SpawnFields DEF Good
  <2>4. Newest(c) = n /\ n \in Nat
    BY <2>3, SpawningIsGood DEF Newest, Good, Shape, Unready, Worker
  <2>5. q = [c EXCEPT !.restarts = @ \cup {a}]
    BY <1>2, <2>4 DEF RestartWorker, w
  <2> HIDE DEF c, a, n
  <2>6. /\ IsRecord(q) /\ q.restarts = p.restarts \cup {a} /\ q.workers = c.workers
        /\ q.freeSlots = c.freeSlots /\ q.reload = p.reload
        /\ q.isShuttingDown = p.isShuttingDown /\ q.isReloading = p.isReloading
        /\ q.candidates = c.candidates /\ q.stopping = c.stopping /\ q.exited = c.exited
    BY <2>3, <2>5 DEF Shape, IsRecord
  <2> HIDE DEF q
  <2>7. a \in RestartState /\ a.pc = "waiting" /\ a.slot = s /\ a.old = w /\ a.new = n
    BY <2>2, <2>4, WorkerTypes DEF RestartState, a, Good
  <2>8. /\ Accounted(q) /\ \A t : Replaces(p, t) => Replaces(q, t)
        /\ Ids(q) = Ids(p) \cup {n} /\ Ids(p) = 1..Len(p.workers)
        /\ q.workers[n] = Unready(s) /\ \A u \in Ids(p) : q.workers[u] = p.workers[u]
        /\ Len(p.workers) \in Nat
    BY <2>3, <2>6, SpawningIsGood DEF n
  <2>9. n \notin Ids(p) /\ w < n
    BY <2>2, <2>8 DEF n
  <2>10. Shape(q)
    BY <2>3, <2>6, <2>7 DEF Shape, Good, Ids
  <2>11. Linked(q)
    <3>1. Replaces(q, a)
      BY <2>2, <2>7, <2>8, <2>9 DEF Replaces, Unready
    <3>2. /\ \A t \in p.restarts : t.new # n
          /\ p.reload # NoReload => p.reload.new # n
      BY <2>9 DEF Good, Linked, Replaces
    <3> QED
      BY <2>6, <2>7, <2>8, <3>1, <3>2 DEF Good, Linked
  <2>12. \A u : u \in OnTrial(q) <=> u \in OnTrial(p) \cup {n}
    BY <2>6, <2>7, OnTrialMembers
  <2>13. Good(q) /\ OnTrial(q) = OnTrial(p) \cup {n}
    BY <2>8, <2>10, <2>11, <2>12 DEF Good
  <2>14. Fine(p, q)
    BY <2>3, <2>6, <2>13, SpawningIsFine DEF n
  <2> QED
    BY <2>14 DEF q
<1> QED
  BY <1>1, <1>2

----------------------------------------------------------------------------
(* Commands and exits. *)

LEMMA ReloadIsFine ==
    ASSUME NEW p, Good(p)
    PROVE  Fine(p, Reload(p))
<1>1. CASE p.isReloading
  BY <1>1, QuietIsFine DEF Reload, Good
<1>2. CASE ~p.isReloading
  <2> DEFINE q == [p EXCEPT !.isReloading = TRUE]
  <2>1. p.reload = NoReload
    BY <1>2 DEF Good, Linked
  <2>2. /\ Shape(q) /\ q.workers = p.workers /\ q.freeSlots = p.freeSlots
        /\ q.reload = NoReload /\ q.restarts = p.restarts
        /\ q.isShuttingDown = p.isShuttingDown /\ q.isReloading
    BY <2>1 DEF Good, Shape, IsRecord, Ids
  <2>3. Reload(p) = NextSlot(q, Mapped(p), <<>>)
    BY <1>2 DEF Reload
  <2> HIDE DEF q
  <2>4. Good(q)
    BY <2>1, <2>2 DEF Good, Linked, Accounted, Replaces, Ids, InSlot, Mapped, Safe
  <2>5. \A u : u \in OnTrial(q) <=> u \in OnTrial(p)
    BY <2>1, <2>2, OnTrialMembers
  <2>6. OnTrial(q) = OnTrial(p)
    BY <2>5
  <2>7. Fine(p, q)
    BY <2>2, <2>4, <2>6, SameTrialsIsFine
  <2>8. Mapped(p) \in SUBSET Ids(q) /\ <<>> \in Seq(Result)
    BY <2>2 DEF Mapped, Ids
  <2>9. q.reload.pc = "idle"
    BY <2>2 DEF NoReload
  <2>10. Fine(q, NextSlot(q, Mapped(p), <<>>))
    BY <2>2, <2>4, <2>8, <2>9, NextSlotIsFine
  <2> QED
    BY <2>3, <2>7, <2>10, FineIsTransitive
<1> QED
  BY <1>1, <1>2

\* The 'exit' handler up to the respawn: a worker leaves the map.
LEMMA GoneIsGood ==
    ASSUME NEW p, Good(p), NEW w \in Mapped(p), NEW q,
           IsRecord(q), q.workers = [p.workers EXCEPT ![w] = Gone(p.workers[w].slot)],
           q.freeSlots = IF \A u \in InSlot(p, p.workers[w].slot) : u = w
                         THEN p.freeSlots \cup {p.workers[w].slot} ELSE p.freeSlots,
           q.candidates = p.candidates \ {w},
           q.isShuttingDown = p.isShuttingDown, q.isReloading = p.isReloading,
           q.reload = p.reload, q.restarts = p.restarts, q.stopping = p.stopping,
           q.exited = p.exited
    PROVE  Good(q) /\ OnTrial(q) = OnTrial(p) /\ ChangesOnly(p, q, w) /\ ~Safe(q, w)
<1> DEFINE s == p.workers[w].slot
<1>1. w \in Ids(p) /\ p.workers[w] \in Worker /\ s \in Slot /\ p.workers[w].life # "gone"
  BY WorkerTypes DEF Mapped, Good
<1>2. Gone(s) \in Worker /\ Gone(s).slot = s /\ Gone(s).life = "gone"
  BY <1>1 DEF Gone, Unready, Worker
<1>3. /\ q.workers \in Seq(Worker) /\ q.workers[w] = Gone(s) /\ Ids(q) = Ids(p)
      /\ \A u \in Ids(p) : u # w => q.workers[u] = p.workers[u]
  BY <1>1, <1>2 DEF Ids, Good, Shape
<1>4. ChangesOnly(p, q, w) /\ ~Safe(q, w)
  BY <1>2, <1>3 DEF ChangesOnly, Safe, Mapped
<1>5. Mapped(q) = Mapped(p) \ {w}
  BY <1>2, <1>3 DEF Mapped
<1>6. /\ InSlot(q, s) = InSlot(p, s) \ {w} /\ w \in InSlot(p, s)
      /\ \A t : t # s => InSlot(q, t) = InSlot(p, t)
  BY <1>3, <1>5 DEF InSlot, Mapped
<1>7. Accounted(q)
  <2>1. \A t \in Slot : t # s => (t \in q.freeSlots <=> InSlot(q, t) = {})
    BY <1>6 DEF Good, Accounted
  <2>2. s \notin p.freeSlots
    BY <1>6 DEF Good, Accounted
  <2>3. s \in q.freeSlots <=> InSlot(q, s) = {}
    BY <1>6, <2>2
  <2>4. q.freeSlots \subseteq Slot
    BY <1>1 DEF Good, Shape
  <2> QED
    BY <1>1, <2>1, <2>3, <2>4 DEF Accounted
<1>8. Shape(q)
  BY <1>1, <1>3 DEF Good, Shape
<1>9. \A t : Replaces(p, t) => Replaces(q, t)
  BY <1>2, <1>3, <1>4 DEF Replaces, ChangesOnly, Safe, Mapped
<1>10. Good(q)
  BY <1>3, <1>7, <1>8, <1>9 DEF Good, Linked
<1> QED
  BY <1>4, <1>10 DEF OnTrial

\* The handler as a whole: the worker is unmapped and its slot freed, and then maybe filled.
ExitedBy(p, w, after) ==
    LET s == p.workers[w].slot
    IN /\ IsRecord(after) /\ after.candidates = p.candidates \ {w}
       /\ after.workers = [p.workers EXCEPT ![w] = Gone(s)]
       /\ after.freeSlots = IF \A u \in InSlot(p, s) : u = w THEN p.freeSlots \cup {s} ELSE p.freeSlots
       /\ after.isShuttingDown = p.isShuttingDown /\ after.isReloading = p.isReloading
       /\ after.reload = p.reload
       /\ after.restarts = p.restarts /\ after.stopping = p.stopping /\ after.exited = p.exited
       /\ HasParent => after.out = IF w \in p.candidates THEN p.out
                                  ELSE p.out \o <<[type |-> "exit", slot |-> s, pid |-> w]>>
       /\ Exited(p, w) = IF RespawnDue(after) THEN Spawn(after, s) ELSE after

LEMMA ExitedFields ==
    ASSUME NEW p, Good(p), NEW w \in Mapped(p)
    PROVE  \E after : ExitedBy(p, w, after)
<1> DEFINE s == p.workers[w].slot
           unmapped == [p EXCEPT !.workers[w] = Gone(s)]
           freed == [unmapped EXCEPT !.freeSlots = IF SlotIsFree(unmapped, s) THEN @ \cup {s} ELSE @]
           told == SendUnless(w \in p.candidates, freed, [type |-> "exit", slot |-> s, pid |-> w])
           after == [told EXCEPT !.candidates = @ \ {w}]
           q == Exited(p, w)
<1>0. w \in Ids(p) /\ p.workers[w] \in Worker /\ s \in Slot /\ p.workers[w].life # "gone"
  BY WorkerTypes DEF Mapped, Good
<1>1. /\ IsRecord(unmapped) /\ unmapped.workers = [p.workers EXCEPT ![w] = Gone(s)]
      /\ AlikeBut(p, unmapped) /\ unmapped.out = p.out
  BY DEF Good, Shape, IsRecord, AlikeBut
<1> HIDE DEF unmapped
<1>2. SlotIsFree(unmapped, s) <=> \A u \in InSlot(p, s) : u = w
  <2>1. Ids(unmapped) = Ids(p) /\ unmapped.workers[w].life = "gone"
    BY <1>0, <1>1 DEF Ids, Good, Shape, Gone, Unready
  <2>2. \A u \in Ids(p) : u # w => unmapped.workers[u] = p.workers[u]
    BY <1>1 DEF Ids, Good, Shape
  <2> QED
    BY <1>0, <2>1, <2>2 DEF SlotIsFree, InSlot, Mapped
<1>3. /\ IsRecord(freed) /\ freed.workers = unmapped.workers
      /\ freed.freeSlots = IF SlotIsFree(unmapped, s) THEN p.freeSlots \cup {s} ELSE p.freeSlots
      /\ freed.isShuttingDown = p.isShuttingDown /\ freed.isReloading = p.isReloading
      /\ freed.candidates = p.candidates /\ freed.reload = p.reload
      /\ freed.restarts = p.restarts /\ freed.stopping = p.stopping /\ freed.exited = p.exited
      /\ freed.out = p.out
  BY <1>1 DEF IsRecord, AlikeBut
<1> HIDE DEF freed
<1>4. IsRecord(told) /\ Alike(freed, told)
  BY <1>3, SendFields DEF SendUnless, Send, Alike, AlikeBut
<1>8. HasParent => told.out = IF w \in p.candidates THEN p.out
                              ELSE p.out \o <<[type |-> "exit", slot |-> s, pid |-> w]>>
  BY <1>3 DEF SendUnless, Send, SendAll, IsRecord
<1> HIDE DEF told
<1>5. /\ IsRecord(after) /\ after.candidates = p.candidates \ {w}
      /\ after.workers = [p.workers EXCEPT ![w] = Gone(s)]
      /\ after.freeSlots = IF \A u \in InSlot(p, s) : u = w THEN p.freeSlots \cup {s} ELSE p.freeSlots
      /\ after.isShuttingDown = p.isShuttingDown /\ after.isReloading = p.isReloading
      /\ after.reload = p.reload
      /\ after.restarts = p.restarts /\ after.stopping = p.stopping /\ after.exited = p.exited
  BY <1>1, <1>2, <1>3, <1>4 DEF IsRecord, Alike, AlikeBut
<1>6. q = IF RespawnDue(after) THEN Spawn(after, s) ELSE after
  BY DEF Exited, after, told, freed, unmapped
<1>9. after.out = told.out
  BY <1>4 DEF IsRecord
<1> HIDE DEF after, q, s
<1>7. ExitedBy(p, w, after)
  BY <1>5, <1>6, <1>8, <1>9 DEF q, s, ExitedBy
<1> QED
  BY <1>7

\* It is fine but for the slot of a worker that was safe, and
\* there too if the slot is filled at once.
LEMMA ExitedKeeps ==
    ASSUME NEW p, Good(p), NEW w \in Mapped(p)
    PROVE  LET q == Exited(p, w)
               s == p.workers[w].slot
           IN /\ Good(q) /\ q.isShuttingDown = p.isShuttingDown
              /\ q.isReloading = p.isReloading /\ q.restarts = p.restarts /\ q.stopping = p.stopping
              /\ \A t \in Slot, ready \in BOOLEAN :
                    (t = s => \/ ~Safe(p, w)
                              \/ ~ready /\ ~p.isShuttingDown /\ ~p.isReloading)
                    => Keeps(p, q, t, ready)
<1> DEFINE s == p.workers[w].slot
           q == Exited(p, w)
<1>0. w \in Ids(p) /\ p.workers[w] \in Worker /\ s \in Slot /\ p.workers[w].life # "gone"
  BY WorkerTypes DEF Mapped, Good
<1>4. PICK after : ExitedBy(p, w, after)
  BY ExitedFields
<1>5. /\ IsRecord(after) /\ after.candidates = p.candidates \ {w}
      /\ after.workers = [p.workers EXCEPT ![w] = Gone(s)]
      /\ after.freeSlots = IF \A u \in InSlot(p, s) : u = w THEN p.freeSlots \cup {s} ELSE p.freeSlots
      /\ after.isShuttingDown = p.isShuttingDown /\ after.isReloading = p.isReloading
      /\ after.reload = p.reload
      /\ after.restarts = p.restarts /\ after.stopping = p.stopping /\ after.exited = p.exited
  BY <1>4 DEF ExitedBy
<1>6. q = IF RespawnDue(after) THEN Spawn(after, s) ELSE after
  BY <1>4 DEF ExitedBy
<1> HIDE DEF q
<1>7. Good(after) /\ OnTrial(after) = OnTrial(p) /\ ChangesOnly(p, after, w) /\ ~Safe(after, w)
  BY <1>5, GoneIsGood
<1>8. ~Safe(p, w) => Fine(p, after)
  BY <1>0, <1>5, <1>7, UnsafeIsFine
<1>9. ASSUME NEW t \in Slot, NEW ready \in BOOLEAN, t # s
      PROVE  Keeps(p, after, t, ready)
  <2>1. \A u \in Ids(p) : u # w => (Safe(after, u) <=> Safe(p, u))
    BY <1>7 DEF ChangesOnly, Safe, Mapped
  <2>2. Firm(p, t, ready) \subseteq Firm(after, t, ready)
    BY <1>7, <1>9, <2>1 DEF Firm, InSlot, Mapped, ChangesOnly
  <2>3. \A n \in OnTrial(after) : after.workers[n].slot = t /\ ~Safe(after, n) =>
                                     n \in OnTrial(p) /\ p.workers[n].slot = t /\ ~Safe(p, n)
    BY <1>7, <1>9, <2>1, TrialsAreIds DEF ChangesOnly
  <2> QED
    BY <2>2, <2>3, MoreFirm
<1>10. CASE ~RespawnDue(after)
  <2>1. q = after
    BY <1>6, <1>10
  <2>2. p.isShuttingDown \/ p.isReloading
    BY <1>5, <1>10 DEF RespawnDue
  <2> QED
    BY <1>5, <1>7, <1>8, <1>9, <2>1, <2>2 DEF Fine, q
<1>11. CASE RespawnDue(after)
  <2> DEFINE n == Len(after.workers) + 1
  <2>1. q = Spawn(after, s)
    BY <1>6, <1>11
  <2>2. /\ IsRecord(q) /\ q.workers = Append(after.workers, Unready(s))
        /\ q.freeSlots = after.freeSlots \ {s} /\ q.candidates = after.candidates
        /\ q.isShuttingDown = after.isShuttingDown /\ q.isReloading = after.isReloading
        /\ q.reload = after.reload /\ q.restarts = after.restarts
        /\ q.stopping = after.stopping /\ q.exited = after.exited
    BY <1>5, <2>1 DEF Spawn, IsRecord
  <2>3. /\ Accounted(q) /\ \A r : Replaces(after, r) => Replaces(q, r)
        /\ Ids(q) = Ids(after) \cup {n} /\ Ids(after) = 1..Len(after.workers)
        /\ q.workers[n] = Unready(s) /\ \A u \in Ids(after) : q.workers[u] = after.workers[u]
        /\ Len(after.workers) \in Nat
    BY <1>0, <1>7, <2>2, SpawningIsGood
  <2>4. Unready(s) \in Worker /\ Unready(s).life = "forked" /\ Unready(s).slot = s
        /\ ~Unready(s).left /\ ~Unready(s).killed
    BY <1>0 DEF Unready, Worker
  <2>5. Good(q)
    <3>1. Shape(q)
      BY <1>0, <1>7, <2>2, <2>3, <2>4 DEF Good, Shape, Ids
    <3>2. Linked(q)
      BY <1>7, <2>2, <2>3 DEF Good, Linked
    <3> QED
      BY <2>3, <3>1, <3>2 DEF Good
  <2>6. \A u : u \in OnTrial(q) <=> u \in OnTrial(after)
    BY <2>2, OnTrialMembers
  <2>7. OnTrial(q) = OnTrial(after)
    BY <2>6
  <2>8. Fine(after, q)
    BY <1>0, <1>7, <2>2, <2>5, <2>7, SpawningIsFine
  <2>9. \A t \in Slot, ready \in BOOLEAN : Keeps(p, after, t, ready) => Keeps(p, q, t, ready)
    BY <2>8 DEF Fine, Keeps
  <2>10. Keeps(p, q, s, FALSE)
    <3>1. n \in Firm(q, s, FALSE)
      <4>1. n \in Ids(q) /\ n \notin OnTrial(q)
        BY <1>7, <2>3, <2>7, TrialsAreIds
      <4> QED
        BY <2>3, <2>4, <4>1 DEF Firm, InSlot, Mapped, Safe
    <3>2. \A u \in OnTrial(q) : u < n
      BY <1>7, <2>3, <2>7, TrialsAreIds
    <3> QED
      BY <3>1, <3>2 DEF Keeps, Backed
  <2> QED
    BY <1>5, <1>8, <1>9, <2>2, <2>5, <2>9, <2>10 DEF Fine, q
<1> QED
  BY <1>10, <1>11

LEMMA WakesAreFine ==
    ASSUME NEW p, Good(p), NEW w
    PROVE  /\ Fine(p, WakeReload(p, w))
           /\ Fine(p, WakeRestarts(p, w))
           /\ Fine(p, WakeShutdown(p, w))
<1>0. Fine(p, p)
  BY QuietIsFine DEF Good
<1>1. Fine(p, WakeReload(p, w))
  BY <1>0, ReplacedIsFine DEF WakeReload
<1>2. Fine(p, WakeRestarts(p, w))
  BY RestartsDoneIsFine DEF WakeRestarts
<1>3. Fine(p, WakeShutdown(p, w))
  <2> DEFINE q == WakeShutdown(p, w)
  <2>1. /\ IsRecord(q) /\ q.workers = p.workers /\ q.freeSlots = p.freeSlots
        /\ q.reload = p.reload /\ q.restarts = p.restarts /\ q.candidates = p.candidates
        /\ q.isShuttingDown = p.isShuttingDown /\ q.isReloading = p.isReloading
        /\ q.stopping = p.stopping \ {w} /\ q.exited \in BOOLEAN
    BY DEF WakeShutdown, Good, Shape, IsRecord
  <2> HIDE DEF q
  <2>2. Shape(q)
    BY <2>1 DEF Good, Shape, Ids
  <2>3. Fine(p, q)
    BY <2>1, <2>2, QuietIsFine
  <2> QED
    BY <2>3 DEF q
<1> QED
  BY <1>1, <1>2, <1>3

\* An exit and all that it wakes.
LEMMA ExitTurn ==
    ASSUME Good(primary), NEW w \in Ids(primary), primary.workers[w].life # "gone", Exit(w)
    PROVE  /\ Good(primary') /\ primary'.isShuttingDown = primary.isShuttingDown
           /\ \A t \in Slot, ready \in BOOLEAN :
                 (t = primary.workers[w].slot =>
                     \/ ~Safe(primary, w)
                     \/ ~ready /\ ~primary.isShuttingDown /\ ~primary.isReloading)
                 => Keeps(primary, primary', t, ready)
<1> DEFINE p == Exited(primary, w)
<1>0. w \in Mapped(primary)
  BY DEF Mapped
<1>1. /\ Good(p) /\ p.isShuttingDown = primary.isShuttingDown
      /\ \A t \in Slot, ready \in BOOLEAN :
            (t = primary.workers[w].slot =>
                \/ ~Safe(primary, w)
                \/ ~ready /\ ~primary.isShuttingDown /\ ~primary.isReloading)
            => Keeps(primary, p, t, ready)
  BY <1>0, ExitedKeeps
<1>2. \/ primary' = WakeShutdown(WakeRestarts(WakeReload(p, w), w), w)
      \/ primary' = WakeShutdown(WakeReload(WakeRestarts(p, w), w), w)
  BY DEF Exit, Turn
<1> HIDE DEF p
<1>3. CASE primary' = WakeShutdown(WakeRestarts(WakeReload(p, w), w), w)
  <2>1. Fine(p, WakeReload(p, w)) /\ Good(WakeReload(p, w))
    BY <1>1, WakesAreFine DEF Fine
  <2>2. Fine(p, WakeRestarts(WakeReload(p, w), w)) /\ Good(WakeRestarts(WakeReload(p, w), w))
    BY <2>1, WakesAreFine, FineIsTransitive DEF Fine
  <2>3. Fine(p, primary')
    BY <1>3, <2>2, WakesAreFine, FineIsTransitive
  <2> QED
    BY <1>1, <2>3 DEF Fine, Keeps
<1>4. CASE primary' = WakeShutdown(WakeReload(WakeRestarts(p, w), w), w)
  <2>1. Fine(p, WakeRestarts(p, w)) /\ Good(WakeRestarts(p, w))
    BY <1>1, WakesAreFine DEF Fine
  <2>2. Fine(p, WakeReload(WakeRestarts(p, w), w)) /\ Good(WakeReload(WakeRestarts(p, w), w))
    BY <2>1, WakesAreFine, FineIsTransitive DEF Fine
  <2>3. Fine(p, primary')
    BY <1>4, <2>2, WakesAreFine, FineIsTransitive
  <2> QED
    BY <1>1, <2>3 DEF Fine, Keeps
<1> QED
  BY <1>2, <1>3, <1>4

\* Everyone is told to go, and the map is what it was.
LEMMA ShutdownIsGood ==
    ASSUME NEW p, Good(p)
    PROVE  Good(Shutdown(p)) /\ Shutdown(p).isShuttingDown
<1>1. CASE p.isShuttingDown
  BY <1>1 DEF Shutdown
<1>2. CASE ~p.isShuttingDown
  <2> DEFINE W == [w \in Ids(p) |-> IF w \in Mapped(p) THEN [p.workers[w] EXCEPT !.left = TRUE]
                                                      ELSE p.workers[w]]
             q == Shutdown(p)
  <2>1. /\ IsRecord(q) /\ q.workers = W /\ q.freeSlots = p.freeSlots
        /\ q.reload = p.reload /\ q.restarts = p.restarts /\ q.candidates = p.candidates
        /\ q.isShuttingDown /\ q.isReloading = p.isReloading
        /\ q.stopping = Mapped(p) /\ q.exited \in BOOLEAN
    BY <1>2 DEF Shutdown, Good, Shape, IsRecord
  <2>2. \A w \in Ids(p) : /\ W[w] \in Worker /\ W[w].slot = p.workers[w].slot
                          /\ W[w].life = p.workers[w].life /\ W[w].ready = p.workers[w].ready
                          /\ W[w] \in {p.workers[w], [p.workers[w] EXCEPT !.left = TRUE]}
                          /\ W[w].killed = p.workers[w].killed
                          /\ p.workers[w].left => W[w].left
    <3>1. \A w \in Ids(p) : p.workers[w] \in Worker
      BY WorkerTypes DEF Good
    <3> QED
      BY <3>1 DEF Worker
  <2>3. W \in Seq(Worker) /\ DOMAIN W = Ids(p)
    <3>1. Ids(p) = 1..Len(p.workers) /\ Len(p.workers) \in Nat
      BY DEF Good, Shape, Ids
    <3>2. DOMAIN W = Ids(p) /\ W \in [Ids(p) -> Worker]
      BY <2>2
    <3> HIDE DEF W
    <3> QED
      BY <3>1, <3>2
  <2> HIDE DEF W, q
  <2>4. /\ Ids(q) = Ids(p) /\ Mapped(q) = Mapped(p)
        /\ \A w \in Ids(p) : /\ q.workers[w].slot = p.workers[w].slot
                             /\ q.workers[w].life = p.workers[w].life
                             /\ q.workers[w].ready = p.workers[w].ready
                             /\ Safe(q, w) => Safe(p, w)
    BY <2>1, <2>2, <2>3 DEF Ids, Mapped, Safe
  <2>5. Shape(q)
    BY <2>1, <2>3, <2>4 DEF Good, Shape, Mapped
  <2>6. Accounted(q)
    BY <2>1, <2>4 DEF Good, Accounted, InSlot, Mapped
  <2>7. Linked(q)
    <3>1. \A t : Replaces(p, t) => Replaces(q, t)
      BY <2>4 DEF Replaces
    <3> QED
      BY <2>1, <2>4, <3>1 DEF Good, Linked
  <2> QED
    BY <2>1, <2>5, <2>6, <2>7 DEF Good, q
<1> QED
  BY <1>1, <1>2

----------------------------------------------------------------------------
(* The inductive invariant. *)

\* Every slot has a firm worker unless one crashed in a reload; and as long as none of its
\* own crashed, what may make a ready worker go leaves a younger ready one behind.
PrimaryInv ==
    /\ Good(primary)
    /\ crashed \in [Slot -> Nat] /\ crashedInReload \in BOOLEAN /\ setbacks \in 0..MaxSetbacks
    /\ ~primary.isShuttingDown =>
          \A s \in Slot :
             /\ crashed[s] = 0 => Backed(primary, s, TRUE)
             /\ ~crashedInReload => Backed(primary, s, FALSE) /\ Firm(primary, s, FALSE) # {}

StaysServed ==
    ~primary'.isShuttingDown =>
       /\ ~primary.isShuttingDown
       /\ \A s \in Slot : Serving(primary, s) /\ crashed'[s] = 0 => Serving(primary', s)

LEMMA ServingIsFirm ==
    ASSUME NEW p, NEW s
    PROVE  Serving(p, s) <=> Firm(p, s, TRUE) # {}
BY DEF Serving, Firm, Safe, InSlot

LEMMA InitPrimaryInv == PrimaryInit => PrimaryInv
<1> SUFFICES ASSUME PrimaryInit PROVE PrimaryInv
  OBVIOUS
<1> DEFINE W == [w \in 1..WorkerCount |-> Unready(w - 1)]
<1>1. /\ primary.workers = W /\ primary.freeSlots = {} /\ ~primary.isShuttingDown
      /\ ~primary.isReloading /\ primary.candidates = {} /\ primary.reload = NoReload
      /\ primary.restarts = {} /\ primary.stopping = {} /\ ~primary.exited
      /\ primary.isReloading \in BOOLEAN /\ primary.isShuttingDown \in BOOLEAN
      /\ primary.exited \in BOOLEAN /\ IsRecord(primary)
  <2>1. primary = [workers |-> W, freeSlots |-> {}, isShuttingDown |-> FALSE,
                   isReloading |-> FALSE, candidates |-> {}, reload |-> NoReload,
                   restarts |-> {}, stopping |-> {}, exited |-> FALSE, out |-> <<>>]
    BY DEF PrimaryInit
  <2> HIDE DEF W
  <2> QED
    BY ONLY <2>1 DEF IsRecord
<1>2. WorkerCount \in Nat \ {0} /\ MaxSetbacks \in Nat
  BY PrimaryAssumption
<1>3. \A w \in 1..WorkerCount : W[w] \in Worker /\ W[w].slot = w - 1 /\ W[w].life = "forked"
                                /\ ~W[w].left /\ ~W[w].killed
  BY <1>2 DEF Unready, Worker, Slot
<1>4. W \in Seq(Worker) /\ Ids(primary) = 1..WorkerCount /\ Mapped(primary) = 1..WorkerCount
  <2>1. W \in Seq(Worker) /\ DOMAIN W = 1..WorkerCount
    <3>1. DOMAIN W = 1..WorkerCount /\ W = [w \in 1..WorkerCount |-> W[w]]
      OBVIOUS
    <3> HIDE DEF W
    <3> QED
      BY <1>2, <1>3, <3>1
  <2> HIDE DEF W
  <2> QED
    BY <1>1, <1>3, <2>1 DEF Ids, Mapped
<1>5. OnTrial(primary) = {}
  <2>1. \A n : n \notin OnTrial(primary)
    BY <1>1, OnTrialMembers DEF NoReload
  <2> QED
    BY <2>1
<1> HIDE DEF W
<1>6. \A s \in Slot : s + 1 \in InSlot(primary, s) /\ Safe(primary, s + 1)
  BY <1>1, <1>2, <1>3, <1>4 DEF InSlot, Safe, Slot
<1>7. Good(primary)
  BY <1>1, <1>4, <1>6 DEF Good, Shape, Linked, Accounted
<1>8. \A s \in Slot : s + 1 \in Firm(primary, s, FALSE)
  BY <1>5, <1>6 DEF Firm
<1>9. crashed \in [Slot -> Nat] /\ crashedInReload \in BOOLEAN /\ setbacks \in 0..MaxSetbacks
  <2>1. crashed \in [Slot -> Nat]
    BY DEF PrimaryInit
  <2>2. crashedInReload \in BOOLEAN /\ setbacks = 0
    BY DEF PrimaryInit
  <2> QED
    BY <1>2, <2>1, <2>2
<1> QED
  BY <1>5, <1>7, <1>8, <1>9 DEF PrimaryInv, Backed

LEMMA PrimaryTypes == PrimaryInv => PrimaryTypeOK
<1> SUFFICES ASSUME PrimaryInv PROVE PrimaryTypeOK
  OBVIOUS
<1>1. primary.reload \in ReloadState \cup {NoReload}
  BY DEF PrimaryInv, Good, Shape
<1>2. /\ primary.reload.pc \in {"idle", "waiting", "backoff", "settling", "stopping"}
      /\ primary.reload.pc # "idle" => primary.reload.attempt \in 0..Retries
  BY <1>1 DEF ReloadState, NoReload
<1> QED
  BY <1>2 DEF PrimaryInv, Good, Shape, PrimaryTypeOK

\* A fine turn in which nobody crashed.
LEMMA FineTurn ==
    ASSUME PrimaryInv, Fine(primary, primary'), UNCHANGED <<crashed, crashedInReload>>,
           setbacks' \in 0..MaxSetbacks
    PROVE  PrimaryInv' /\ StaysServed
<1>1. Good(primary') /\ primary'.isShuttingDown = primary.isShuttingDown
  BY DEF Fine
<1>2. \A s \in Slot : Keeps(primary, primary', s, TRUE) /\ Keeps(primary, primary', s, FALSE)
  BY DEF Fine
<1> QED
  BY <1>1, <1>2, ServingIsFirm DEF PrimaryInv, StaysServed, Keeps

LEMMA SetbackStep ==
    ASSUME PrimaryInv, NEW p, NEW w, Setback(p, w)
    PROVE  setbacks' \in 0..MaxSetbacks /\ UNCHANGED <<crashed, crashedInReload>>
<1>1. setbacks \in 0..MaxSetbacks /\ MaxSetbacks \in Nat
  BY PrimaryAssumption DEF PrimaryInv
<1> QED
  BY <1>1 DEF Setback

LEMMA WorkerTurn ==
    ASSUME PrimaryInv, WorkerStep
    PROVE  PrimaryInv' /\ StaysServed
<1>0. Good(primary) /\ Shape(primary) /\ setbacks \in 0..MaxSetbacks
  BY DEF PrimaryInv, Good
<1>1. ASSUME NEW w \in Ids(primary), NEW q, NEW m, NEW hidden,
             primary.workers[w].life # "gone", IsRecord(q), AlikeBut(primary, q),
             q.workers = [primary.workers EXCEPT ![w].life = "online"]
                \/ q.workers = [primary.workers EXCEPT ![w].ready = TRUE]
      PROVE  Fine(primary, Send(q, m)) /\ Fine(primary, SendUnless(hidden, q, m))
  <2>1. primary.workers \in Seq(Worker) /\ primary.workers[w] \in Worker
    BY <1>0, <1>1, WorkerTypes DEF Shape
  <2>2. PICK v \in Worker : /\ q.workers = [primary.workers EXCEPT ![w] = v]
                            /\ v.slot = primary.workers[w].slot /\ v.life # "gone"
                            /\ v.left = primary.workers[w].left
                            /\ v.killed = primary.workers[w].killed
                            /\ primary.workers[w].ready => v.ready
    <3>1. CASE q.workers = [primary.workers EXCEPT ![w].life = "online"]
      <4>1. [primary.workers[w] EXCEPT !.life = "online"] \in Worker
        BY <2>1 DEF Worker
      <4> QED
        BY <1>1, <2>1, <3>1, <4>1 DEF Worker
    <3>2. CASE q.workers = [primary.workers EXCEPT ![w].ready = TRUE]
      <4>1. [primary.workers[w] EXCEPT !.ready = TRUE] \in Worker
        BY <2>1 DEF Worker
      <4> QED
        BY <1>1, <2>1, <3>2, <4>1 DEF Worker
    <3> QED
      BY <1>1, <3>1, <3>2
  <2>3. /\ q.workers \in Seq(Worker) /\ Ids(q) = Ids(primary) /\ q.workers[w] = v
        /\ \A u \in Ids(primary) : u # w => q.workers[u] = primary.workers[u]
    BY <1>1, <2>1, <2>2 DEF Ids
  <2>4. ChangesOnly(primary, q, w)
    BY <2>2, <2>3 DEF ChangesOnly
  <2>5. Shape(q)
    BY <1>0, <1>1, <2>3 DEF Shape, AlikeBut
  <2>6. Fine(primary, q)
    BY <1>0, <1>1, <2>2, <2>3, <2>4, <2>5, StartingIsFine DEF AlikeBut, Mapped
  <2>7. ASSUME NEW ms PROVE Fine(primary, SendAll(q, ms))
    <3>1. IsRecord(SendAll(q, ms)) /\ Alike(q, SendAll(q, ms))
      BY <1>1, SendFields
    <3>2. Shape(SendAll(q, ms))
      BY <2>5, <3>1 DEF Shape, Alike, AlikeBut, Ids
    <3>3. Fine(q, SendAll(q, ms))
      BY <2>6, <3>1, <3>2, QuietIsFine DEF Alike, AlikeBut, Fine
    <3> QED
      BY <2>6, <3>3, FineIsTransitive
  <2> QED
    BY <2>6, <2>7 DEF Send, SendUnless
<1>2. ASSUME NEW w \in Ids(primary), Online(w)
      PROVE  Fine(primary, primary')
  <2> DEFINE q == [primary EXCEPT !.workers[w].life = "online"]
  <2>1. /\ IsRecord(q) /\ AlikeBut(primary, q)
        /\ q.workers = [primary.workers EXCEPT ![w].life = "online"]
    BY <1>0 DEF Shape, IsRecord, AlikeBut
  <2>2. /\ primary.workers[w].life # "gone"
        /\ \E hidden, m : primary' = SendUnless(hidden, q, m)
    BY <1>2 DEF Online, Turn
  <2> HIDE DEF q
  <2>3. PICK hidden, m : primary' = SendUnless(hidden, q, m)
    BY <2>2
  <2>4. Fine(primary, SendUnless(hidden, q, m))
    BY <1>1, <2>1, <2>2
  <2> QED
    BY <2>3, <2>4
<1>3. ASSUME NEW w \in Ids(primary), Listening(w) \/ SignalsReady(w)
      PROVE  Fine(primary, primary')
  <2> DEFINE q == [primary EXCEPT !.workers[w].ready = TRUE]
  <2>1. /\ IsRecord(q) /\ AlikeBut(primary, q)
        /\ q.workers = [primary.workers EXCEPT ![w].ready = TRUE]
    BY <1>0 DEF Shape, IsRecord, AlikeBut
  <2>2. /\ primary.workers[w].life # "gone"
        /\ \E hidden, m : primary' = SendUnless(hidden, q, m) \/ primary' = Send(q, m)
    BY <1>3 DEF Listening, SignalsReady, BecomesReady, Turn
  <2> HIDE DEF q
  <2>3. PICK hidden, m : primary' = SendUnless(hidden, q, m) \/ primary' = Send(q, m)
    BY <2>2
  <2>4. Fine(primary, SendUnless(hidden, q, m)) /\ Fine(primary, Send(q, m))
    BY <1>1, <2>1, <2>2
  <2> QED
    BY <2>3, <2>4
<1>4. ASSUME NEW w \in Ids(primary), Terminates(w)
      PROVE  PrimaryInv' /\ StaysServed
  <2>1. ~Safe(primary, w) /\ UNCHANGED history
    BY <1>4 DEF Terminates, Safe, ByTheBook
  <2>2. /\ Good(primary') /\ primary'.isShuttingDown = primary.isShuttingDown
        /\ \A t \in Slot, ready \in BOOLEAN : Keeps(primary, primary', t, ready)
    BY <1>0, <1>4, <2>1, ExitTurn DEF Terminates
  <2> QED
    BY <1>0, <2>1, <2>2, FineTurn DEF Fine, history
<1>5. ASSUME NEW w \in Ids(primary), Crash(w)
      PROVE  PrimaryInv' /\ StaysServed
  <2> DEFINE s == primary.workers[w].slot
  <2>1. s \in Slot
    BY <1>0, WorkerTypes
  <2>2. /\ crashed' = [crashed EXCEPT ![s] = @ + 1] /\ setbacks' = setbacks
        /\ crashedInReload' = (crashedInReload \/ primary.isReloading)
        /\ primary.workers[w].life # "gone" /\ Exit(w)
    BY <1>5 DEF Crash
  <2> HIDE DEF s
  <2>3. /\ Good(primary') /\ primary'.isShuttingDown = primary.isShuttingDown
        /\ \A t \in Slot, ready \in BOOLEAN :
              (t = s => ~ready /\ ~primary.isShuttingDown /\ ~primary.isReloading)
              => Keeps(primary, primary', t, ready)
    BY <1>0, <2>2, ExitTurn DEF s
  <2>4. crashed \in [Slot -> Nat] /\ crashedInReload \in BOOLEAN /\ primary.isReloading \in BOOLEAN
    BY <1>0 DEF PrimaryInv, Shape
  <2>5. /\ crashed' \in [Slot -> Nat] /\ crashedInReload' \in BOOLEAN
        /\ \A t \in Slot : crashed'[t] = 0 => t # s /\ crashed[t] = 0
        /\ ~crashedInReload' => ~crashedInReload /\ ~primary.isReloading
    BY <2>1, <2>2, <2>4
  <2>6. ASSUME NEW t \in Slot, ~primary.isShuttingDown, crashed'[t] = 0
        PROVE  Keeps(primary, primary', t, TRUE) /\ Backed(primary, t, TRUE)
    BY <2>3, <2>5, <2>6 DEF PrimaryInv
  <2>7. ASSUME NEW t \in Slot, ~primary.isShuttingDown, ~crashedInReload'
        PROVE  /\ Keeps(primary, primary', t, FALSE)
               /\ Backed(primary, t, FALSE) /\ Firm(primary, t, FALSE) # {}
    BY <2>3, <2>5, <2>7 DEF PrimaryInv
  <2>8. PrimaryInv'
    BY <1>0, <2>2, <2>3, <2>5, <2>6, <2>7 DEF PrimaryInv, Keeps
  <2>9. StaysServed
    BY <2>3, <2>6, ServingIsFirm DEF StaysServed, Keeps
  <2> QED
    BY <2>8, <2>9
<1> QED
  BY <1>0, <1>2, <1>3, <1>4, <1>5, FineTurn
  DEF WorkerStep, WorkerBoots, WorkerStarts, WorkerStops, WorkerCrashes, Online, Listening,
      SignalsReady, ByTheBook, history

LEMMA ReloadTurn ==
    ASSUME PrimaryInv, ReloadStep
    PROVE  PrimaryInv' /\ StaysServed
<1>0. Good(primary) /\ setbacks \in 0..MaxSetbacks
  BY DEF PrimaryInv
<1>1. ASSUME ReloadReady PROVE Fine(primary, primary')
  BY <1>0, <1>1, ReadyIsFine DEF ReloadReady, Turn, NewIsReady
<1>2. ASSUME ReloadRejected PROVE Fine(primary, primary')
  BY <1>0, <1>2, RejectedIsFine DEF ReloadRejected, Turn
<1>3. ASSUME ReloadBackoffEnds PROVE Fine(primary, primary')
  <2> DEFINE r == primary.reload
  <2>1. r.pc = "backoff" /\ r # NoReload /\ primary' = Attempt(primary, r)
    BY <1>3 DEF ReloadBackoffEnds, Turn, NoReload
  <2>2. r \in ReloadState /\ Replaces(primary, r) /\ r.queue \subseteq Ids(primary)
        /\ primary.isReloading
    BY <1>0, <2>1 DEF Good, Shape, Linked
  <2>3. /\ r \in [pc : {"waiting", "backoff"}, queue : SUBSET Ids(primary), attempt : 0..Retries,
                  old : Ids(primary), slot : Slot, new : Nat, results : Seq(Result)]
        /\ primary.workers[r.old].slot = r.slot
    BY <2>1, <2>2 DEF ReloadState, Replaces
  <2> HIDE DEF r
  <2>4. primary.reload.pc = "backoff"
    BY <2>1 DEF r
  <2> QED
    BY <1>0, <2>1, <2>2, <2>3, <2>4, AttemptIsFine
<1>4. ASSUME ReloadPromotes PROVE Fine(primary, primary')
  BY <1>0, <1>4, ReloadPromotesIsFine DEF ReloadPromotes, Turn
<1>5. ASSUME ReloadKillTimeout PROVE Fine(primary, primary')
  BY <1>0, <1>5, ReloadKillIsFine DEF ReloadKillTimeout, Turn
<1>6. Fine(primary, primary')
  BY <1>1, <1>2, <1>3, <1>4, <1>5 DEF ReloadStep
<1>7. setbacks' \in 0..MaxSetbacks /\ UNCHANGED <<crashed, crashedInReload>>
  BY <1>0, SetbackStep
  DEF ReloadStep, ReloadReady, ReloadRejected, ReloadBackoffEnds, ReloadPromotes,
      ReloadKillTimeout, ByTheBook, history
<1> QED
  BY <1>6, <1>7, FineTurn

LEMMA RestartTurn ==
    ASSUME PrimaryInv, RestartStep
    PROVE  PrimaryInv' /\ StaysServed
<1>0. Good(primary) /\ setbacks \in 0..MaxSetbacks
  BY DEF PrimaryInv
<1>1. PICK r \in primary.restarts :
         RestartReady(r) \/ RestartFails(r) \/ RestartPromotes(r) \/ RestartKillTimeout(r)
  BY DEF RestartStep
<1>2. CASE RestartReady(r)
  BY <1>0, <1>2, RestartReadyIsFine, FineTurn
  DEF RestartReady, Turn, NewIsReady, ByTheBook, history
<1>3. CASE RestartFails(r)
  <2>1. Fine(primary, primary')
    BY <1>0, <1>3, RestartRejectedIsFine DEF RestartFails, Turn
  <2> QED
    BY <1>3, <2>1, SetbackStep, FineTurn DEF RestartFails
<1>4. CASE RestartPromotes(r)
  BY <1>0, <1>4, RestartPromotesIsFine, FineTurn DEF RestartPromotes, Turn, ByTheBook, history
<1>5. CASE RestartKillTimeout(r)
  <2>1. Fine(primary, primary')
    BY <1>0, <1>5, RestartKillIsFine DEF RestartKillTimeout, Turn
  <2> QED
    BY <1>5, <2>1, SetbackStep, FineTurn DEF RestartKillTimeout
<1> QED
  BY <1>1, <1>2, <1>3, <1>4, <1>5

LEMMA ShutdownTurn ==
    ASSUME PrimaryInv, TakesShutdown \/ ShutdownKillTimeout
    PROVE  PrimaryInv' /\ StaysServed
<1>0. /\ Good(primary) /\ setbacks \in 0..MaxSetbacks /\ MaxSetbacks \in Nat
      /\ crashed \in [Slot -> Nat] /\ crashedInReload \in BOOLEAN
  BY PrimaryAssumption DEF PrimaryInv
<1>1. CASE TakesShutdown
  <2>1. primary' = Shutdown(primary) /\ UNCHANGED history
    BY <1>1 DEF TakesShutdown, Turn, ByTheBook
  <2>2. Good(primary') /\ primary'.isShuttingDown
    BY <1>0, <2>1, ShutdownIsGood
  <2> QED
    BY <1>0, <2>1, <2>2 DEF PrimaryInv, StaysServed, history
<1>2. CASE ShutdownKillTimeout
  <2> DEFINE q == [primary EXCEPT !.stopping = {}, !.exited = TRUE]
  <2>1. /\ primary' = q /\ setbacks' \in 0..MaxSetbacks
        /\ UNCHANGED <<crashed, crashedInReload>>
    BY <1>0, <1>2 DEF ShutdownKillTimeout, Turn
  <2>2. /\ Shape(q) /\ q.workers = primary.workers /\ q.freeSlots = primary.freeSlots
        /\ q.reload = primary.reload /\ q.restarts = primary.restarts
        /\ q.isShuttingDown = primary.isShuttingDown /\ q.isReloading = primary.isReloading
    BY <1>0 DEF Good, Shape, IsRecord, Ids
  <2> HIDE DEF q
  <2>3. Fine(primary, q)
    BY <1>0, <2>2, QuietIsFine
  <2> QED
    BY <2>1, <2>3, FineTurn
<1> QED
  BY <1>1, <1>2

LEMMA NextPrimaryInv == PrimaryInv /\ [PrimaryNext]_primaryVars => PrimaryInv' /\ StaysServed
<1> SUFFICES ASSUME PrimaryInv, [PrimaryNext]_primaryVars PROVE PrimaryInv' /\ StaysServed
  OBVIOUS
<1>0. Good(primary) /\ setbacks \in 0..MaxSetbacks
  BY DEF PrimaryInv
<1>1. CASE PrimaryStep
  BY <1>1, WorkerTurn, ReloadTurn, RestartTurn, ShutdownTurn DEF PrimaryStep
<1>2. CASE TakesReload
  BY <1>0, <1>2, ReloadIsFine, FineTurn DEF TakesReload, Turn, ByTheBook, history
<1>3. ASSUME NEW s \in Slot, TakesRestart(s) PROVE PrimaryInv' /\ StaysServed
  BY <1>0, <1>3, RestartWorkerIsFine, FineTurn DEF TakesRestart, Turn, ByTheBook, history
<1>4. CASE TakesShutdown
  BY <1>4, ShutdownTurn
<1>5. CASE UNCHANGED primaryVars
  <2>1. /\ primary' = primary /\ crashed' = crashed /\ crashedInReload' = crashedInReload
        /\ setbacks' = setbacks
    BY <1>5 DEF primaryVars, history
  <2>2. Fine(primary, primary)
    BY <1>0, QuietIsFine DEF Good
  <2> QED
    BY <1>0, <2>1, <2>2, FineTurn
<1> QED
  BY <1>1, <1>2, <1>3, <1>4, <1>5 DEF PrimaryNext

----------------------------------------------------------------------------
(* One worker in each slot. *)

\* The one worker of a slot, which nothing has told to go.
Alone(p, s) == \E w : InSlot(p, s) = {w} /\ Safe(p, w)

\* A reload has the old and the new worker of one slot in hand, and every other slot has one
\* worker; what it has still to replace is in other slots.
Orderly(p) ==
    /\ p.restarts = {}
    /\ p.reload = NoReload => ~p.isReloading /\ \A s \in Slot : Alone(p, s)
    /\ p.reload # NoReload =>
         LET r == p.reload
         IN /\ r.pc \in {"waiting", "settling", "stopping"}
            /\ \A s \in Slot : s # r.slot => Alone(p, s)
            /\ InSlot(p, r.slot) = {r.old, r.new}
            /\ Safe(p, r.new)
            /\ r.pc # "stopping" => Safe(p, r.old)
            /\ \A w \in r.queue : w \in Mapped(p) /\ p.workers[w].slot # r.slot

Undisturbed ==
    ~primary.isShuttingDown /\ setbacks = 0 /\ ~crashedInReload /\ memoryRestarts = 0

OrderInv == memoryRestarts \in Nat /\ (Undisturbed => Orderly(primary))

\* The workers come, go and leave as before.
SameCrew(p, q) ==
    /\ Ids(q) = Ids(p)
    /\ \A u \in Ids(p) :
          /\ q.workers[u].slot = p.workers[u].slot
          /\ q.workers[u].life = "gone" <=> p.workers[u].life = "gone"
          /\ Safe(p, u) => Safe(q, u)

LEMMA SameCrewOrder ==
    ASSUME NEW p, NEW q, Orderly(p), SameCrew(p, q), q.restarts = p.restarts,
           q.reload = p.reload, q.isReloading = p.isReloading
    PROVE  Orderly(q)
<1>1. Mapped(q) = Mapped(p) /\ \A s : InSlot(q, s) = InSlot(p, s)
  BY DEF SameCrew, Mapped, InSlot
<1>2. \A u : Safe(p, u) => Safe(q, u)
  BY DEF SameCrew, Safe, Mapped
<1>3. \A s : Alone(p, s) => Alone(q, s)
  BY <1>1, <1>2 DEF Alone
<1> QED
  BY <1>1, <1>2, <1>3 DEF Orderly, SameCrew, Mapped

\* reload() turns to the next slot, or ends.
LEMMA NextSlotOrder ==
    ASSUME NEW p, Good(p), p.restarts = {}, p.isReloading, \A s \in Slot : Alone(p, s),
           NEW queue \in SUBSET Mapped(p), NEW results
    PROVE  Orderly(NextSlot(p, queue, results))
<1>1. CASE queue = {} \/ p.isShuttingDown
  <2> DEFINE z == Finish(p, results)
  <2>1. z.workers = p.workers /\ z.restarts = {} /\ z.reload = NoReload /\ ~z.isReloading
    BY FinishFields DEF Good
  <2>2. NextSlot(p, queue, results) = z
    BY <1>1 DEF NextSlot
  <2> HIDE DEF z
  <2>3. \A s \in Slot : Alone(z, s)
    BY <2>1 DEF Alone, InSlot, Mapped, Ids, Safe
  <2> QED
    BY <2>1, <2>2, <2>3 DEF Orderly
<1>2. CASE queue # {} /\ ~p.isShuttingDown
  <2> DEFINE w == First(queue)
             t == p.workers[w].slot
             r == [pc |-> "waiting", queue |-> queue \ {w}, attempt |-> 0, old |-> w,
                   slot |-> t, new |-> 0, results |-> results]
             n == Len(p.workers) + 1
             q == SpawnCandidate(p, t)
             z == Attempt(p, r)
  <2>1. w \in queue
    <3>1. queue \subseteq Nat
      BY DEF Mapped, Ids, Good, Shape
    <3> QED
      BY <1>2, <3>1, FirstIsLeast
  <2>2. w \in Ids(p) /\ w \in Mapped(p) /\ t \in Slot
    BY <2>1, WorkerTypes DEF Good, Mapped
  <2>3. NextSlot(p, queue, results) = z
    BY <1>2 DEF NextSlot
  <2>4. /\ Shape(q) /\ q.workers = Append(p.workers, Unready(t)) /\ q.freeSlots = p.freeSlots \ {t}
        /\ q.restarts = {}
    BY <2>2, SpawnFields DEF Good
  <2>5. /\ Ids(q) = Ids(p) \cup {n} /\ Ids(p) = 1..Len(p.workers) /\ Len(p.workers) \in Nat
        /\ q.workers[n] = Unready(t) /\ \A u \in Ids(p) : q.workers[u] = p.workers[u]
    BY <2>2, <2>4, SpawningIsGood, SMTT(20)
  <2>6. Newest(q) = n
    BY <2>2, <2>4, SpawningIsGood, SMTT(40) DEF Newest, Good, Shape, Unready, Worker
  <2>7. /\ z.workers = q.workers /\ z.restarts = {}
        /\ z.reload = [pc |-> "waiting", queue |-> queue \ {w}, attempt |-> 0, old |-> w,
                       slot |-> t, new |-> n, results |-> results]
    BY <2>4, <2>6 DEF Shape, IsRecord, Attempt
  <2> HIDE DEF z, q, r
  <2>8. /\ Ids(z) = Ids(p) \cup {n} /\ n \notin Ids(p) /\ z.workers[n] = Unready(t)
        /\ \A u \in Ids(p) : z.workers[u] = p.workers[u]
    BY <2>5, <2>7 DEF Ids
  <2> HIDE DEF n
  <2>9. Unready(t).slot = t /\ Unready(t).life = "forked" /\ ~Unready(t).left /\ ~Unready(t).killed
    BY DEF Unready
  <2>10. /\ Mapped(z) = Mapped(p) \cup {n} /\ Safe(z, n)
         /\ \A u \in Ids(p) : Safe(p, u) => Safe(z, u)
    BY <2>8, <2>9 DEF Mapped, Safe
  <2>11. InSlot(z, t) = InSlot(p, t) \cup {n} /\ \A s : s # t => InSlot(z, s) = InSlot(p, s)
    BY <2>8, <2>9, <2>10 DEF InSlot, Mapped
  <2>12. InSlot(p, t) = {w} /\ Safe(p, w)
    BY <2>2 DEF Alone, InSlot
  <2>13. \A s \in Slot : s # t => Alone(z, s)
    <3>1. \A u : Safe(p, u) => Safe(z, u)
      BY <2>10 DEF Safe, Mapped
    <3> QED
      BY <2>11, <3>1 DEF Alone
  <2>14. \A u \in queue \ {w} : u \in Mapped(z) /\ z.workers[u].slot # t
    <3>1. \A u \in queue \ {w} : u \in Mapped(p) /\ p.workers[u].slot # t
      BY <2>12 DEF InSlot
    <3> QED
      BY <2>8, <2>10, <3>1 DEF Mapped
  <2>15. z.reload # NoReload
    BY <2>7 DEF NoReload
  <2> HIDE DEF w, t
  <2>16. InSlot(z, t) = {w, n} /\ Safe(z, w)
    BY <2>2, <2>10, <2>11, <2>12
  <2> QED
    BY <2>3, <2>7, <2>10, <2>13, <2>14, <2>15, <2>16 DEF Orderly
<1> QED
  BY <1>1, <1>2

\* A worker of an orderly primary that was told to go is the old one of the reload.
LEMMA UnsafeIsOld ==
    ASSUME NEW p, Shape(p), Orderly(p), NEW w \in Mapped(p), ~Safe(p, w)
    PROVE  p.reload # NoReload /\ p.reload.pc = "stopping" /\ w = p.reload.old
<1>1. w \in InSlot(p, p.workers[w].slot) /\ p.workers[w].slot \in Slot
  BY WorkerTypes DEF InSlot, Mapped
<1>2. ~Alone(p, p.workers[w].slot)
  BY <1>1 DEF Alone
<1>3. p.reload # NoReload /\ p.workers[w].slot = p.reload.slot
  BY <1>1, <1>2 DEF Orderly
<1>4. w \in {p.reload.old, p.reload.new} /\ w # p.reload.new
  BY <1>1, <1>3 DEF Orderly
<1>5. p.reload.pc = "stopping"
  BY <1>3, <1>4 DEF Orderly
<1> QED
  BY <1>3, <1>4, <1>5

\* An exit: of the old worker, or, while no reload runs, of any.
LEMMA ExitOrder ==
    ASSUME Good(primary), Orderly(primary), NEW w \in Mapped(primary), Exit(w), ~primary.isShuttingDown,
           \/ primary.reload = NoReload
           \/ primary.reload.pc = "stopping" /\ w = primary.reload.old
    PROVE  Orderly(primary')
<1> DEFINE s == primary.workers[w].slot
           p == Exited(primary, w)
           a == WakeReload(p, w)
           b == WakeRestarts(a, w)
<1>1. primary' = WakeShutdown(b, w) /\ primary.restarts = {}
  BY DEF Exit, Turn, Orderly
<1>0. PICK after : ExitedBy(primary, w, after)
  BY ExitedFields
<1>2. /\ IsRecord(after) /\ after.workers = [primary.workers EXCEPT ![w] = Gone(s)]
      /\ after.isShuttingDown = primary.isShuttingDown /\ after.isReloading = primary.isReloading
      /\ after.reload = primary.reload /\ after.restarts = primary.restarts
      /\ p = IF RespawnDue(after) THEN Spawn(after, s) ELSE after
  BY <1>0 DEF ExitedBy
<1>3. Good(p) /\ p.isReloading = primary.isReloading /\ p.restarts = {}
  BY <1>1, ExitedKeeps
<1> HIDE DEF p
<1>4. /\ w \in Ids(primary) /\ s \in Slot /\ primary.workers \in Seq(Worker)
      /\ Gone(s) \in Worker /\ Gone(s).life = "gone" /\ Gone(s).slot = s
  BY WorkerTypes DEF Mapped, Good, Shape, Gone, Unready, Worker
<1> HIDE DEF s
<1>5. /\ Ids(after) = Ids(primary) /\ after.workers[w] = Gone(s) /\ after.workers \in Seq(Worker)
      /\ \A u \in Ids(primary) : u # w => after.workers[u] = primary.workers[u]
  BY <1>2, <1>4 DEF Ids
<1>6. Mapped(after) = Mapped(primary) \ {w}
  BY <1>4, <1>5 DEF Mapped
<1>7. /\ InSlot(after, s) = InSlot(primary, s) \ {w} /\ w \in InSlot(primary, s)
      /\ \A t : t # s => InSlot(after, t) = InSlot(primary, t)
      /\ \A u : u # w => (Safe(primary, u) => Safe(after, u))
  <2>1. \A u \in Mapped(primary) : u \in Ids(primary)
    BY DEF Mapped
  <2>2. primary.workers[w].slot = s
    BY DEF s
  <2> QED
    BY <1>4, <1>5, <1>6, <2>1, <2>2 DEF InSlot, Safe
<1>8. \A t \in Slot : t # s /\ Alone(primary, t) => Alone(after, t)
  BY <1>7 DEF Alone, InSlot
<1>9. Orderly(a) /\ a.restarts = {} /\ Shape(a)
  <2>1. CASE primary.reload = NoReload
    <3> DEFINE n == Len(after.workers) + 1
    <3>1. ~primary.isReloading /\ \A t \in Slot : Alone(primary, t)
      BY <2>1 DEF Orderly
    <3>2. p = Spawn(after, s)
      BY <1>2, <3>1 DEF RespawnDue
    <3>3. p.workers = Append(after.workers, Unready(s)) /\ p.reload = NoReload
      BY <1>2, <2>1, <3>2 DEF Spawn, IsRecord
    <3>4. /\ Ids(p) = Ids(after) \cup {n} /\ n \notin Ids(after) /\ p.workers[n] = Unready(s)
          /\ \A u \in Ids(after) : p.workers[u] = after.workers[u]
      BY <1>5, <3>3 DEF Ids
    <3>5. Unready(s).slot = s /\ Unready(s).life # "gone" /\ ~Unready(s).left /\ ~Unready(s).killed
      BY DEF Unready
    <3> HIDE DEF n
    <3>6. /\ Mapped(p) = Mapped(after) \cup {n} /\ Safe(p, n)
          /\ \A u : Safe(after, u) => Safe(p, u)
      BY <3>4, <3>5 DEF Mapped, Safe
    <3>7. InSlot(p, s) = InSlot(after, s) \cup {n} /\ \A t : t # s => InSlot(p, t) = InSlot(after, t)
      BY <3>4, <3>5, <3>6 DEF InSlot, Mapped
    <3>8. InSlot(p, s) = {n}
      <4>1. InSlot(primary, s) = {w}
        BY <1>4, <1>7, <3>1 DEF Alone
      <4> QED
        BY <1>7, <3>7, <4>1
    <3>9. \A t \in Slot : Alone(p, t)
      <4>1. \A t \in Slot : t # s => Alone(after, t)
        BY <1>8, <3>1
      <4>2. \A t \in Slot : t # s => Alone(p, t)
        BY <3>6, <3>7, <4>1 DEF Alone
      <4> QED
        BY <3>6, <3>8, <4>2 DEF Alone
    <3>10. Orderly(p)
      BY <1>3, <3>1, <3>3, <3>9 DEF Orderly
    <3>11. a = p
      BY <3>3 DEF WakeReload, NoReload
    <3> QED
      BY <1>3, <3>10, <3>11 DEF Good
  <2>2. CASE primary.reload # NoReload
    <3> DEFINE r == primary.reload
               q == SendAll(p, Announcement(r))
               results == Append(r.results, [slot |-> r.slot, ok |-> TRUE])
    <3>1. /\ r.pc = "stopping" /\ w = r.old /\ primary.isReloading /\ r.old # r.new
          /\ r.slot = s /\ r.queue \subseteq Ids(primary) /\ r \in ReloadState
      <4>1. /\ r \in ReloadState /\ primary.isReloading /\ Replaces(primary, r)
            /\ r.queue \subseteq Ids(primary)
        BY <2>2 DEF Good, Linked, Shape
      <4>2. r.pc = "stopping" /\ w = r.old
        BY <2>2
      <4>3. r.old \in Nat /\ r.new \in Nat /\ r.old < r.new /\ r.slot = s
        BY <4>1, <4>2 DEF ReloadState, Replaces, s
      <4> QED
        BY <4>1, <4>2, <4>3
    <3>2. p = after
      BY <1>2, <3>1 DEF RespawnDue
    <3>3. \A t \in Slot : Alone(p, t)
      <4>1. InSlot(primary, s) = {r.old, r.new} /\ Safe(primary, r.new)
            /\ \A t \in Slot : t # s => Alone(primary, t)
        BY <2>2, <3>1 DEF Orderly
      <4>2. InSlot(p, s) = {r.new} /\ Safe(p, r.new)
        BY <1>7, <3>1, <3>2, <4>1
      <4> QED
        BY <1>8, <3>2, <4>1, <4>2 DEF Alone
    <3>4. r.queue \subseteq Mapped(p)
      BY <1>6, <2>2, <3>1, <3>2 DEF Orderly, s
    <3>5. a = NextSlot(q, r.queue, results)
      BY <1>2, <3>1, <3>2 DEF WakeReload, Replaced
    <3>6. IsRecord(q) /\ Alike(p, q)
      BY <1>3, SendFields DEF Good, Shape
    <3> HIDE DEF q, results, r, a
    <3>7. Good(q)
      <4>1. Fine(p, q)
        BY <1>3, <3>6, QuietIsFine DEF Good, Shape, Alike, AlikeBut, Ids
      <4> QED
        BY <4>1 DEF Fine
    <3>8. /\ q.restarts = {} /\ q.isReloading /\ r.queue \in SUBSET Mapped(q)
          /\ \A t \in Slot : Alone(q, t)
      BY <1>3, <3>1, <3>3, <3>4, <3>6 DEF Alike, AlikeBut, Alone, Mapped, InSlot, Ids, Safe
    <3>9. Orderly(a)
      BY <3>5, <3>7, <3>8, NextSlotOrder
    <3>10. Shape(a)
      BY <1>3, WakesAreFine DEF Fine, Good, a
    <3> QED
      BY <3>9, <3>10 DEF Orderly
  <2> QED
    BY <2>1, <2>2
<1>10. /\ IsRecord(b) /\ b.workers = a.workers /\ b.reload = a.reload /\ b.restarts = {}
       /\ b.isReloading = a.isReloading
  <2> HIDE DEF a
  <2> DEFINE c == [a EXCEPT !.restarts = @ \ {}]
  <2>1. b = SendAll(c, Announcements({}))
    <3>1. {r \in a.restarts : r.pc = "stopping" /\ r.old = w} = {}
      BY <1>9
    <3> QED
      BY <3>1 DEF WakeRestarts, RestartsDone
  <2>2. /\ IsRecord(c) /\ c.workers = a.workers /\ c.reload = a.reload /\ c.restarts = {}
        /\ c.isReloading = a.isReloading
    BY <1>9 DEF Shape, IsRecord
  <2> HIDE DEF c
  <2> QED
    BY <2>1, <2>2, SendFields DEF Alike, AlikeBut
<1> HIDE DEF a, b
<1>11. /\ primary'.workers = b.workers /\ primary'.reload = b.reload /\ primary'.restarts = b.restarts
       /\ primary'.isReloading = b.isReloading
  BY <1>1, <1>10 DEF WakeShutdown, IsRecord
<1>12. SameCrew(a, primary')
  BY <1>10, <1>11 DEF SameCrew, Ids, Safe, Mapped
<1> QED
  BY <1>9, <1>10, <1>11, <1>12, SameCrewOrder

\* A worker boots or starts to serve: the crew is the same.
LEMMA StartingOrder ==
    ASSUME Good(primary), Orderly(primary), NEW w \in Ids(primary),
           Online(w) \/ Listening(w) \/ SignalsReady(w)
    PROVE  Orderly(primary')
<1>0. Shape(primary) /\ primary.workers \in Seq(Worker) /\ primary.workers[w] \in Worker
  BY WorkerTypes DEF Good, Shape
<1>1. ASSUME NEW q, NEW m, NEW hidden, primary.workers[w].life # "gone",
             IsRecord(q), AlikeBut(primary, q), primary' = SendUnless(hidden, q, m),
             q.workers = [primary.workers EXCEPT ![w].life = "online"]
                \/ q.workers = [primary.workers EXCEPT ![w].ready = TRUE]
      PROVE  Orderly(primary')
  <2>1. PICK v \in Worker : /\ q.workers = [primary.workers EXCEPT ![w] = v]
                            /\ v.slot = primary.workers[w].slot /\ v.life # "gone"
                            /\ v.left = primary.workers[w].left
                            /\ v.killed = primary.workers[w].killed
    <3>1. CASE q.workers = [primary.workers EXCEPT ![w].life = "online"]
      <4>1. [primary.workers[w] EXCEPT !.life = "online"] \in Worker
        BY <1>0 DEF Worker
      <4> QED
        BY <1>0, <1>1, <3>1, <4>1 DEF Worker
    <3>2. CASE q.workers = [primary.workers EXCEPT ![w].ready = TRUE]
      <4>1. [primary.workers[w] EXCEPT !.ready = TRUE] \in Worker
        BY <1>0 DEF Worker
      <4> QED
        BY <1>0, <1>1, <3>2, <4>1 DEF Worker
    <3> QED
      BY <1>1, <3>1, <3>2
  <2>2. /\ Ids(q) = Ids(primary) /\ q.workers[w] = v
        /\ \A u \in Ids(primary) : u # w => q.workers[u] = primary.workers[u]
    BY <1>0, <1>1, <2>1 DEF Ids
  <2>3. Alike(q, primary')
    BY <1>1, SendFields DEF SendUnless, Send, Alike, AlikeBut
  <2>4. SameCrew(primary, primary')
    BY <1>1, <2>1, <2>2, <2>3 DEF SameCrew, Alike, Ids, Safe, Mapped
  <2> QED
    BY <1>1, <2>3, <2>4, SameCrewOrder DEF Alike, AlikeBut
<1>2. CASE Online(w)
  <2> DEFINE q == [primary EXCEPT !.workers[w].life = "online"]
  <2>1. /\ IsRecord(q) /\ AlikeBut(primary, q)
        /\ q.workers = [primary.workers EXCEPT ![w].life = "online"]
    BY <1>0 DEF Shape, IsRecord, AlikeBut
  <2>2. /\ primary.workers[w].life # "gone"
        /\ \E hidden, m : primary' = SendUnless(hidden, q, m)
    BY <1>2 DEF Online, Turn
  <2> HIDE DEF q
  <2> QED
    BY <1>1, <2>1, <2>2
<1>3. CASE Listening(w) \/ SignalsReady(w)
  <2> DEFINE q == [primary EXCEPT !.workers[w].ready = TRUE]
  <2>1. /\ IsRecord(q) /\ AlikeBut(primary, q)
        /\ q.workers = [primary.workers EXCEPT ![w].ready = TRUE]
    BY <1>0 DEF Shape, IsRecord, AlikeBut
  <2>2. /\ primary.workers[w].life # "gone"
        /\ \E hidden, m : primary' = SendUnless(hidden, q, m) \/ primary' = Send(q, m)
    BY <1>3 DEF Listening, SignalsReady, BecomesReady, Turn
  <2> HIDE DEF q
  <2>3. \E hidden, m : primary' = SendUnless(hidden, q, m)
    BY <2>2 DEF SendUnless
  <2> QED
    BY <1>1, <2>1, <2>2, <2>3
<1> QED
  BY <1>2, <1>3

\* The new worker is ready, and later promoted: the old one is told to go.
LEMMA ReadyOrder ==
    ASSUME Good(primary), Orderly(primary), ReloadReady
    PROVE  Orderly(primary')
<1> DEFINE r == primary.reload
           a == [r EXCEPT !.pc = "settling"]
<1>1. r # NoReload /\ r \in ReloadState /\ r.pc = "waiting"
  BY DEF ReloadReady, Good, Shape, NoReload
<1>2. /\ a.pc = "settling" /\ a.new = r.new /\ a.old = r.old /\ a.slot = r.slot
      /\ a.queue = r.queue /\ a # NoReload
  BY <1>1 DEF ReloadState, NoReload
<1>3. /\ primary'.workers = primary.workers /\ primary'.restarts = primary.restarts
      /\ primary'.reload = a
  BY DEF ReloadReady, Turn, Good, Shape, IsRecord
<1> HIDE DEF a
<1>4. /\ Mapped(primary') = Mapped(primary) /\ \A s : InSlot(primary', s) = InSlot(primary, s)
      /\ \A u : Safe(primary', u) <=> Safe(primary, u)
  BY <1>3 DEF Mapped, InSlot, Ids, Safe
<1>5. \A s : Alone(primary, s) => Alone(primary', s)
  BY <1>4 DEF Alone
<1> QED
  BY <1>1, <1>2, <1>3, <1>4, <1>5 DEF Orderly

LEMMA PromotionOrder ==
    ASSUME Good(primary), Orderly(primary), ReloadPromotes
    PROVE  Orderly(primary')
<1> DEFINE r == primary.reload
           a == [r EXCEPT !.pc = "stopping"]
           m == [primary EXCEPT !.reload.pc = "stopping",
                                !.candidates = @ \ {primary.reload.new}]
<1>1. /\ r # NoReload /\ r \in ReloadState /\ r.pc = "settling" /\ Replaces(primary, r)
      /\ r.old \in Ids(primary) /\ r.new \in Ids(primary) /\ r.old # r.new
  <2>1. r # NoReload /\ r \in ReloadState /\ r.pc = "settling" /\ Replaces(primary, r)
    BY DEF ReloadPromotes, Good, Shape, NoReload, Linked
  <2> QED
    BY <2>1 DEF Replaces, ReloadState
<1>2. /\ a \in ReloadState /\ a.pc = "stopping" /\ a.new = r.new /\ a.old = r.old
      /\ a.slot = r.slot /\ a.queue = r.queue /\ a # NoReload
  BY <1>1 DEF ReloadState, NoReload
<1>3. /\ m.workers = primary.workers /\ m.freeSlots = primary.freeSlots
      /\ m.restarts = primary.restarts /\ m.reload = a
      /\ m.isShuttingDown = primary.isShuttingDown /\ m.isReloading = primary.isReloading
      /\ IsRecord(m) /\ m.candidates = primary.candidates \ {r.new}
      /\ m.stopping = primary.stopping /\ m.exited = primary.exited
  BY DEF Good, Shape, IsRecord
<1>4. primary' = Leave(m, r.old)
  BY DEF ReloadPromotes, Turn
<1> HIDE DEF a, m
<1>5. Shape(m) /\ Ids(m) = Ids(primary)
  BY <1>2, <1>3 DEF Good, Shape, Ids
<1>6. /\ AlikeBut(m, primary') /\ ChangesOnly(m, primary', r.old)
      /\ primary'.workers[r.old] \in {m.workers[r.old], [m.workers[r.old] EXCEPT !.left = TRUE]}
  BY <1>1, <1>4, <1>5, LeaveFields
<1>7. primary'.workers[r.old].life = primary.workers[r.old].life
  BY <1>1, <1>3, <1>6, WorkerTypes DEF Good, Worker
<1>8. /\ Mapped(primary') = Mapped(primary) /\ \A s : InSlot(primary', s) = InSlot(primary, s)
      /\ \A u : u # r.old /\ Safe(primary, u) => Safe(primary', u)
      /\ \A u \in Ids(primary) : primary'.workers[u].slot = primary.workers[u].slot
  BY <1>3, <1>5, <1>6, <1>7 DEF ChangesOnly, Mapped, InSlot, Safe
<1>9. ASSUME NEW s \in Slot, s # r.slot, Alone(primary, s) PROVE Alone(primary', s)
  <2>1. r.old \notin InSlot(primary, s)
    BY <1>1, <1>9 DEF InSlot, Replaces
  <2> QED
    BY <1>8, <1>9, <2>1 DEF Alone
<1> HIDE DEF r
<1>10. /\ r.queue \subseteq Ids(primary) /\ primary'.restarts = {} /\ primary'.reload = a
       /\ primary.restarts = {}
  BY <1>1, <1>3, <1>6 DEF Orderly, AlikeBut, r, Mapped
<1>11. /\ \A s \in Slot : s # r.slot => Alone(primary, s)
       /\ InSlot(primary, r.slot) = {r.old, r.new} /\ Safe(primary, r.new)
       /\ \A w \in r.queue : w \in Mapped(primary) /\ primary.workers[w].slot # r.slot
  BY <1>1 DEF Orderly, r
<1>12. /\ \A s \in Slot : s # a.slot => Alone(primary', s)
       /\ InSlot(primary', a.slot) = {a.old, a.new} /\ Safe(primary', a.new)
       /\ \A w \in a.queue : w \in Mapped(primary') /\ primary'.workers[w].slot # a.slot
  BY <1>1, <1>2, <1>8, <1>9, <1>10, <1>11
<1> QED
  BY <1>2, <1>10, <1>12 DEF Orderly

\* reload() begins.
LEMMA ReloadOrder ==
    ASSUME Good(primary), Orderly(primary), TakesReload
    PROVE  Orderly(primary')
<1>1. primary' = Reload(primary)
  BY DEF TakesReload, Turn
<1>2. CASE primary.isReloading
  BY <1>1, <1>2 DEF Reload
<1>3. CASE ~primary.isReloading
  <2> DEFINE q == [primary EXCEPT !.isReloading = TRUE]
  <2>1. primary.reload = NoReload
    BY <1>3 DEF Good, Linked
  <2>2. /\ Shape(q) /\ q.workers = primary.workers /\ q.freeSlots = primary.freeSlots
        /\ q.reload = NoReload /\ q.restarts = primary.restarts /\ q.isReloading
    BY <2>1 DEF Good, Shape, IsRecord, Ids
  <2>3. primary' = NextSlot(q, Mapped(primary), <<>>)
    BY <1>1, <1>3 DEF Reload
  <2> HIDE DEF q
  <2>4. Good(q)
    BY <2>1, <2>2 DEF Good, Linked, Accounted, Replaces, Ids, InSlot, Mapped, Safe
  <2>5. /\ Mapped(primary) \in SUBSET Mapped(q)
        /\ \A s \in Slot : Alone(primary, s) => Alone(q, s)
    BY <2>2 DEF Mapped, Ids, Alone, InSlot, Safe
  <2>6. q.restarts = {} /\ \A s \in Slot : Alone(q, s)
    BY <2>1, <2>2, <2>5 DEF Orderly
  <2> QED
    BY <2>2, <2>3, <2>4, <2>5, <2>6, NextSlotOrder
<1> QED
  BY <1>2, <1>3

\* A wait for a worker that is there and times out is a setback.
LEMMA SetbackShows ==
    ASSUME setbacks \in 0..MaxSetbacks, NEW w \in Mapped(primary), Setback(primary, w)
    PROVE  setbacks' # 0
BY PrimaryAssumption DEF Setback

LEMMA OrderedReload ==
    ASSUME PrimaryInv, Orderly(primary), ReloadStep, setbacks' = 0
    PROVE  Orderly(primary')
<1>0. Good(primary) /\ setbacks \in 0..MaxSetbacks
  BY DEF PrimaryInv
<1>1. primary.reload # NoReload =>
        /\ primary.reload.pc \in {"waiting", "settling", "stopping"}
        /\ primary.reload.old \in Mapped(primary) /\ primary.reload.new \in Mapped(primary)
  BY DEF Orderly, InSlot
<1>2. ~ReloadBackoffEnds
  BY <1>1 DEF ReloadBackoffEnds, NoReload
<1>3. ~ReloadRejected
  BY <1>0, <1>1, SetbackShows DEF ReloadRejected, NoReload
<1>4. ~ReloadKillTimeout
  BY <1>0, <1>1, SetbackShows DEF ReloadKillTimeout, NoReload
<1> QED
  BY <1>0, <1>2, <1>3, <1>4, ReadyOrder, PromotionOrder DEF ReloadStep

LEMMA InitOrder == PrimaryInit => OrderInv
<1> SUFFICES ASSUME PrimaryInit PROVE OrderInv
  OBVIOUS
<1> DEFINE W == [w \in 1..WorkerCount |-> Unready(w - 1)]
<1>1. /\ primary.workers = W /\ ~primary.isReloading /\ primary.reload = NoReload
      /\ primary.restarts = {}
  BY DEF PrimaryInit
<1>2. \A w \in 1..WorkerCount : /\ W[w].slot = w - 1 /\ W[w].life = "forked"
                                /\ ~W[w].left /\ ~W[w].killed
  BY DEF Unready
<1>3. DOMAIN W = 1..WorkerCount
  OBVIOUS
<1> HIDE DEF W
<1>4. Ids(primary) = 1..WorkerCount /\ Mapped(primary) = 1..WorkerCount
  BY <1>1, <1>2, <1>3 DEF Ids, Mapped
<1>5. \A s \in Slot : InSlot(primary, s) = {s + 1} /\ Safe(primary, s + 1)
  BY <1>1, <1>2, <1>4, PrimaryAssumption DEF InSlot, Safe, Slot
<1>6. memoryRestarts = 0
  BY DEF PrimaryInit
<1> QED
  BY <1>1, <1>5, <1>6 DEF OrderInv, Orderly, Alone

\* What disturbs the order is never undone.
LEMMA DisturbanceLasts ==
    ASSUME PrimaryInv, memoryRestarts \in Nat, PrimaryNext
    PROVE  memoryRestarts' \in Nat /\ (Undisturbed' => Undisturbed)
<1>1. memoryRestarts' \in Nat /\ (memoryRestarts' = 0 => memoryRestarts = 0)
  BY DEF PrimaryNext, given, ReloadCommand, RestartCommand
<1>2. ~primary'.isShuttingDown => ~primary.isShuttingDown
  BY NextPrimaryInv DEF StaysServed
<1>3. setbacks \in 0..MaxSetbacks /\ MaxSetbacks \in Nat
  BY PrimaryAssumption DEF PrimaryInv
<1>4. \/ UNCHANGED history
      \/ \E w : Setback(primary, w)
      \/ \E w \in Ids(primary) : Crash(w)
      \/ ShutdownKillTimeout
  <2>1. WorkerStep => UNCHANGED history \/ \E w \in Ids(primary) : Crash(w)
    BY DEF WorkerStep, WorkerBoots, WorkerStarts, WorkerStops, WorkerCrashes, Online,
           Listening, SignalsReady, Terminates, ByTheBook
  <2>2. ReloadStep => UNCHANGED history \/ \E w : Setback(primary, w)
    BY DEF ReloadStep, ReloadReady, ReloadRejected, ReloadBackoffEnds, ReloadPromotes,
           ReloadKillTimeout, ByTheBook
  <2>3. RestartStep => UNCHANGED history \/ \E w : Setback(primary, w)
    BY DEF RestartStep, RestartReady, RestartFails, RestartPromotes, RestartKillTimeout,
           ByTheBook
  <2>4. PrimaryStep \/ UNCHANGED history
    BY DEF PrimaryNext, TakesReload, TakesRestart, TakesShutdown, ByTheBook
  <2> QED
    BY <2>1, <2>2, <2>3, <2>4 DEF PrimaryStep
<1>5. setbacks' = 0 => setbacks = 0
  BY <1>3, <1>4 DEF history, Setback, Crash, ShutdownKillTimeout
<1>6. crashedInReload => crashedInReload'
  BY <1>4, Zenon DEF history, Setback, Crash, ShutdownKillTimeout
<1> QED
  BY <1>1, <1>2, <1>5, <1>6 DEF Undisturbed

LEMMA OrderedWorker ==
    ASSUME PrimaryInv, Orderly(primary), ~primary.isShuttingDown, WorkerStep, ~crashedInReload'
    PROVE  Orderly(primary')
<1>0. Good(primary) /\ Shape(primary)
  BY DEF PrimaryInv, Good
<1>1. ASSUME NEW w \in Ids(primary), Terminates(w) PROVE Orderly(primary')
  <2>1. w \in Mapped(primary) /\ ~Safe(primary, w) /\ Exit(w)
    BY <1>1 DEF Terminates, Safe, Mapped
  <2>2. primary.reload.pc = "stopping" /\ w = primary.reload.old
    BY <1>0, <2>1, UnsafeIsOld
  <2> QED
    BY <1>0, <2>1, <2>2, ExitOrder
<1>2. ASSUME NEW w \in Ids(primary), Crash(w) PROVE Orderly(primary')
  <2>1. w \in Mapped(primary) /\ ~primary.isReloading /\ Exit(w)
    BY <1>2 DEF Crash, Mapped
  <2>2. primary.reload = NoReload
    BY <1>0, <2>1 DEF Good, Linked
  <2> QED
    BY <1>0, <2>1, <2>2, ExitOrder
<1> QED
  BY <1>0, <1>1, <1>2, StartingOrder
  DEF WorkerStep, WorkerBoots, WorkerStarts, WorkerStops, WorkerCrashes

LEMMA NextOrder == PrimaryInv /\ OrderInv /\ [PrimaryNext]_primaryVars => OrderInv'
<1> SUFFICES ASSUME PrimaryInv, OrderInv, [PrimaryNext]_primaryVars PROVE OrderInv'
  OBVIOUS
<1>1. CASE PrimaryNext
  <2>1. memoryRestarts' \in Nat /\ (Undisturbed' => Undisturbed)
    BY <1>1, DisturbanceLasts DEF OrderInv
  <2>2. SUFFICES ASSUME Undisturbed' PROVE Orderly(primary')
    BY <2>1 DEF OrderInv
  <2>3. /\ Orderly(primary) /\ ~primary.isShuttingDown /\ Good(primary)
        /\ setbacks' = 0 /\ ~crashedInReload' /\ memoryRestarts = 0 /\ memoryRestarts' = 0
        /\ ~primary'.isShuttingDown
    BY <2>1, <2>2 DEF OrderInv, Undisturbed, PrimaryInv
  <2>4. ~RestartStep
    BY <2>3 DEF RestartStep, Orderly
  <2>5. ~ShutdownKillTimeout /\ ~TakesShutdown
    <3>1. Shutdown(primary).isShuttingDown
      BY <2>3, ShutdownIsGood
    <3> QED
      BY <2>3, <3>1 DEF ShutdownKillTimeout, TakesShutdown, Turn
  <2>6. ~RestartCommand
    BY <2>3 DEF RestartCommand
  <2> QED
    BY <1>1, <2>3, <2>4, <2>5, <2>6, OrderedWorker, OrderedReload, ReloadOrder
    DEF PrimaryNext, PrimaryStep
<1>2. CASE UNCHANGED primaryVars
  <2>1. /\ primary' = primary /\ setbacks' = setbacks /\ crashedInReload' = crashedInReload
        /\ memoryRestarts' = memoryRestarts
    BY <1>2 DEF primaryVars, given, history
  <2> QED
    BY <2>1 DEF OrderInv, Undisturbed
<1> QED
  BY <1>1, <1>2

----------------------------------------------------------------------------
(* Theorems. *)

\* The invariant: the primary's record keeps its shape, each replacement is a later fork in the
\* slot of what it replaces, the free list accounts for every slot, and as long as no worker
\* of a slot crashed, a replacement told to go has a younger firm worker in its place.
THEOREM PrimaryInvariant == PrimarySpec => []PrimaryInv
BY InitPrimaryInv, NextPrimaryInv, PTL DEF PrimarySpec

\* Types: among them, no slot is attempted more often than the retries allow.
THEOREM PrimaryTypeCorrect == PrimarySpec => []PrimaryTypeOK
BY PrimaryInvariant, PrimaryTypes, PTL

\* The free list holds exactly the slots without a worker, through every overlap of old,
\* new and killed workers.
THEOREM SlotAccount == PrimarySpec => []SlotsAccounted
<1>1. PrimaryInv => SlotsAccounted
  BY DEF PrimaryInv, Good, Accounted, SlotsAccounted
<1> QED
  BY <1>1, PrimaryInvariant, PTL

\* No slot is ever without a worker before the shutdown, unless one crashed in a reload.
THEOREM SlotCoverage == PrimarySpec => []SlotsCovered
<1>1. PrimaryInv => SlotsCovered
  BY DEF PrimaryInv, SlotsCovered, Firm
<1> QED
  BY <1>1, PrimaryInvariant, PTL

\* Zero downtime: a slot whose workers never crash, once served, stays served until the
\* shutdown, through any number of reloads, failures and memory restarts that overlap.
THEOREM ZeroDowntime == PrimarySpec => NoDowntime
<1>1. PrimaryInv /\ [PrimaryNext]_primaryVars =>
        [~primary'.isShuttingDown =>
            \A s \in Slot : Serving(primary, s) /\ crashed'[s] = 0 => Serving(primary', s)]_primaryVars
  BY NextPrimaryInv DEF StaysServed
<1> QED
  BY <1>1, PrimaryInvariant, PTL DEF PrimarySpec, NoDowntime

\* Outside a reload each slot has exactly one worker, as long as no wait timed out, no worker
\* crashed in a reload and none was restarted for its memory: a reload, whatever exits and
\* messages come between its awaits, leaves neither an old worker behind nor a slot with two.
THEOREM OneWorkerEach == PrimarySpec => []OneEach
<1>1. PrimaryInv /\ OrderInv => OneEach
  <2> SUFFICES ASSUME PrimaryInv, OrderInv, Undisturbed, ~primary.isReloading, NEW s \in Slot
               PROVE  Cardinality(InSlot(primary, s)) = 1
    BY DEF OneEach, Undisturbed
  <2>1. Orderly(primary) /\ primary.reload = NoReload
    BY DEF OrderInv, PrimaryInv, Good, Linked
  <2>2. PICK w : InSlot(primary, s) = {w}
    BY <2>1 DEF Orderly, Alone
  <2> QED
    BY <2>2, FS_Singleton
<1> QED
  BY <1>1, PrimaryInvariant, InitOrder, NextOrder, PTL DEF PrimarySpec
----------------------------------------------------------------------------
(* The daemon's side: no false crash, no reload() left waiting.            *)

\* What the primary tells the daemon.
Message == [type : {"online", "exit"}, slot : Slot, pid : Nat]
             \cup [type : {"listening", "failed", "metrics"}, slot : Slot]
             \cup [type : {"complete"}, results : Seq(Result)]

\* What the daemon tells the primary.
CommandMsg == [type : {"reload", "shutdown"}] \cup [type : {"restart-worker"}, slot : Slot]

\* The pid on record for a slot, 0 if there is none.
Held(s) == IF clusterWorkers[s] = Absent THEN 0 ELSE clusterWorkers[s].pid

\* The daemon as the proofs see it: it counts exits against those who died unasked.
World == [held |-> [s \in Slot |-> Held(s)], waits |-> isReloading, excused |-> memoryRestarting,
          stops |-> isShuttingDown, counted |-> slotCrashes, died |-> crashed,
          asked |-> commands, reloads |-> reloads, restarts |-> memoryRestarts]

WorldOK(d) ==
    /\ d.held \in [Slot -> Nat] /\ d.waits \in BOOLEAN /\ d.excused \subseteq Slot
    /\ d.stops \in BOOLEAN /\ d.counted \in [Slot -> Nat] /\ d.died \in [Slot -> Nat]
    /\ d.asked \in Seq(CommandMsg) /\ d.reloads \in Nat /\ d.restarts \in Nat

\* The n-th message of out tells of a new worker of slot s, or of the exit of w.
OnlineAt(out, n, s) == out[n].type = "online" /\ out[n].slot = s
ExitAt(out, n, s, w) == out[n].type = "exit" /\ out[n].slot = s /\ out[n].pid = w

\* The answer to a reload is among the messages before the n-th.
Answered(out, n) == \E j \in DOMAIN out : j < n /\ out[j].type = "complete"

\* With h on record for slot s, w is when the messages before the n-th have been heard,
\* exits aside.
Tracked(out, h, n, s, w) ==
    \/ \E j \in DOMAIN out :
          /\ j < n /\ OnlineAt(out, j, s) /\ out[j].pid = w
          /\ \A k \in DOMAIN out : j < k /\ k < n => ~OnlineAt(out, k, s)
    \/ h = w /\ \A k \in DOMAIN out : k < n => ~OnlineAt(out, k, s)

\* The workers whose exits, on their way, count unless a memory restart excuses them.
Charged(out, h, waits, s) ==
    {w \in Nat \ {0} : \E n \in DOMAIN out :
        ExitAt(out, n, s, w) /\ Tracked(out, h, n, s, w) /\ (waits => Answered(out, n))}

FailedIn(out, s) == \E n \in DOMAIN out : out[n].type = "failed" /\ out[n].slot = s

\* A restart of a worker of slot s is asked for or under way, ...
Wanted(d, type) == {n \in DOMAIN d.asked : d.asked[n].type = type}
RestartOpen(p, d, s) ==
    \/ \E n \in Wanted(d, "restart-worker") : d.asked[n].slot = s
    \/ \E r \in p.restarts : r.slot = s

\* ... which will make one worker exit; the excuse for it, unless it is to be withdrawn.
Due(p, d, s) == IF RestartOpen(p, d, s) THEN 1 ELSE 0
Excuse(out, d, s) == IF s \in d.excused /\ ~FailedIn(out, s) THEN 1 ELSE 0

\* The exits counted, those that will be and one for a restart are covered by workers that
\* died unasked and the excuse.
Covered(p, d, s) ==
    /\ d.counted[s] <= d.died[s]
    /\ ~d.stops =>
          d.counted[s] + Cardinality(Charged(p.out, d.held[s], d.waits, s)) + Due(p, d, s)
             <= d.died[s] + Excuse(p.out, d, s)

End(p) == Len(p.out) + 1

\* At most one reload is ever asked for, and the daemon waits for its answer, ...
ReloadOnce(p, d) ==
    /\ d.reloads = 0 =>
          ~p.isReloading /\ ~d.waits /\ Wanted(d, "reload") = {} /\ ~Answered(p.out, End(p))
    /\ Wanted(d, "reload") # {} => d.waits /\ ~p.isReloading /\ ~Answered(p.out, End(p))
    /\ \A m, n \in Wanted(d, "reload") : m = n
    /\ p.isReloading => d.waits /\ ~Answered(p.out, End(p))

\* ... or at most one restart.
RestartOnce(p, d) ==
    /\ d.restarts = 0 => /\ p.restarts = {} /\ Wanted(d, "restart-worker") = {} /\ d.excused = {}
                         /\ \A s \in Slot : ~FailedIn(p.out, s)
    /\ Wanted(d, "restart-worker") # {} => p.restarts = {}
    /\ \A m, n \in Wanted(d, "restart-worker") : m = n
    /\ \A r, q \in p.restarts : r = q

Agreed(p, d) == p.isShuttingDown \/ Wanted(d, "shutdown") # {} => d.stops

\* A worker exits once; the workers told of were forked.
Exits(p, d) ==
    \A n \in DOMAIN p.out : p.out[n].type = "exit" =>
       /\ p.out[n].pid \in Ids(p) \ Mapped(p)
       /\ \A m \in DOMAIN p.out : p.out[m].type = "exit" /\ p.out[m].pid = p.out[n].pid => m = n

Onlines(p, d) ==
    /\ \A n \in DOMAIN p.out : p.out[n].type = "online" => p.out[n].pid \in Ids(p)
    /\ \A s \in Slot : d.held[s] \in Ids(p) \cup {0}

\* The daemon is told nothing of a candidate, ...
Secret(p, d, w) ==
    /\ \A n \in DOMAIN p.out : p.out[n].type = "online" => p.out[n].pid # w
    /\ \A s \in Slot : d.held[s] # w

\* ... which a replacement is till it is promoted; and it is killed when it is rejected.
Trial(p, r) ==
    /\ r.pc \in {"waiting", "settling"} => r.new \in p.candidates \/ r.new \notin Mapped(p)
    /\ r.pc = "stopping" => r.new \notin p.candidates
    /\ r.pc # "backoff" => ~p.workers[r.new].killed

Trials(p) ==
    /\ \A r \in p.restarts : Trial(p, r)
    /\ p.reload # NoReload => Trial(p, p.reload)

Secrets(p, d) == \A w \in p.candidates : Secret(p, d, w)

\* A worker that was killed is no longer on record by then, one that was told to go is
\* being waited for.
Doomed(p, d, w) ==
    LET v == p.workers[w]
    IN /\ v.killed => ~Tracked(p.out, d.held[v.slot], End(p), v.slot, w)
       /\ v.left /\ ~v.killed =>
             \/ p.reload.pc = "stopping" /\ p.reload.old = w
             \/ \E r \in p.restarts : r.pc = "stopping" /\ r.old = w

Tidy(p, d) ==
    /\ Good(p) /\ p.out \in Seq(Message) /\ WorldOK(d) /\ d.reloads + d.restarts <= 1
    /\ ReloadOnce(p, d) /\ RestartOnce(p, d) /\ Agreed(p, d)
    /\ Exits(p, d) /\ Onlines(p, d) /\ Secrets(p, d) /\ Trials(p)
    /\ ~d.stops => \A w \in Mapped(p) : Doomed(p, d, w)

Balanced(p, d) == \A s \in Slot : Covered(p, d, s)
----------------------------------------------------------------------------
(* What is appended to the messages, and what is taken from them. *)

LEMMA MessageTypes ==
    ASSUME NEW m \in Message
    PROVE  /\ m.type \in {"online", "exit", "listening", "failed", "metrics", "complete"}
           /\ m.type \in {"online", "exit"} => m.slot \in Slot /\ m.pid \in Nat
           /\ m.type # "complete" => m.slot \in Slot
           /\ m.type = "complete" => m.results \in Seq(Result)
BY DEF Message

LEMMA Concatenated ==
    ASSUME NEW S, NEW o \in Seq(S), NEW ms \in Seq(S), NEW z, z = o \o ms
    PROVE  /\ z \in Seq(S) /\ Len(z) = Len(o) + Len(ms)
           /\ DOMAIN o = 1..Len(o) /\ DOMAIN z = 1..Len(z) /\ DOMAIN ms = 1..Len(ms)
           /\ Len(o) \in Nat /\ Len(ms) \in Nat
           /\ \A n \in DOMAIN o : n \in DOMAIN z /\ z[n] = o[n]
           /\ \A n \in DOMAIN z : n > Len(o) => n - Len(o) \in DOMAIN ms /\ z[n] = ms[n - Len(o)]
<1>1. /\ z \in Seq(S) /\ Len(z) = Len(o) + Len(ms)
      /\ \A i \in 1..Len(o) + Len(ms) : z[i] = IF i <= Len(o) THEN o[i] ELSE ms[i - Len(o)]
  BY ConcatProperties
<1>2. /\ DOMAIN o = 1..Len(o) /\ DOMAIN z = 1..Len(z) /\ DOMAIN ms = 1..Len(ms)
      /\ Len(o) \in Nat /\ Len(ms) \in Nat
  BY <1>1
<1> QED
  BY <1>1, <1>2

\* What is told last says nothing of what was heard before.
LEMMA TrackedBefore ==
    ASSUME NEW o \in Seq(Message), NEW ms \in Seq(Message), NEW z, z = o \o ms,
           NEW n \in 1..Len(o) + 1, NEW h, NEW s, NEW w
    PROVE  /\ Tracked(z, h, n, s, w) <=> Tracked(o, h, n, s, w)
           /\ Answered(z, n) <=> Answered(o, n)
<1>1. /\ DOMAIN o = 1..Len(o) /\ DOMAIN z = 1..Len(z) /\ Len(z) >= Len(o) /\ Len(o) \in Nat
      /\ \A j \in DOMAIN o : j \in DOMAIN z /\ z[j] = o[j]
      /\ Len(z) \in Nat
  BY Concatenated
<1>2. \A j \in DOMAIN z : j < n => j \in DOMAIN o
  BY <1>1
<1>3. \A j \in DOMAIN o : OnlineAt(z, j, s) <=> OnlineAt(o, j, s)
  BY <1>1 DEF OnlineAt
<1>4. (\A k \in DOMAIN z : k < n => ~OnlineAt(z, k, s)) <=>
         (\A k \in DOMAIN o : k < n => ~OnlineAt(o, k, s))
  BY <1>1, <1>2, <1>3
<1>5. ASSUME NEW j \in DOMAIN o
      PROVE  (\A k \in DOMAIN z : j < k /\ k < n => ~OnlineAt(z, k, s)) <=>
                (\A k \in DOMAIN o : j < k /\ k < n => ~OnlineAt(o, k, s))
  BY <1>1, <1>2, <1>3
<1>6. Tracked(z, h, n, s, w) <=> Tracked(o, h, n, s, w)
  BY <1>1, <1>2, <1>3, <1>4, <1>5 DEF Tracked
<1>7. Answered(z, n) <=> Answered(o, n)
  BY <1>1, <1>2 DEF Answered
<1> QED
  BY <1>6, <1>7

LEMMA ChargedBefore ==
    ASSUME NEW o \in Seq(Message), NEW ms \in Seq(Message),
           \A k \in DOMAIN ms : ms[k].type # "exit"
    PROVE  \A h, waits, s : Charged(o \o ms, h, waits, s) = Charged(o, h, waits, s)
<1> SUFFICES ASSUME NEW h, NEW waits, NEW s, NEW z, z = o \o ms
             PROVE  Charged(z, h, waits, s) = Charged(o, h, waits, s)
  OBVIOUS
<1>1. /\ DOMAIN o = 1..Len(o) /\ Len(o) \in Nat /\ DOMAIN z = 1..Len(z) /\ Len(z) \in Nat
      /\ \A j \in DOMAIN o : j \in DOMAIN z /\ z[j] = o[j]
      /\ \A n \in DOMAIN z : n > Len(o) => n - Len(o) \in DOMAIN ms /\ z[n] = ms[n - Len(o)]
  BY Concatenated
<1>2. ASSUME NEW w \in Nat \ {0}, NEW n \in DOMAIN o
      PROVE  ExitAt(z, n, s, w) /\ Tracked(z, h, n, s, w) /\ (waits => Answered(z, n)) <=>
                ExitAt(o, n, s, w) /\ Tracked(o, h, n, s, w) /\ (waits => Answered(o, n))
  <2>1. n \in 1..Len(o) + 1
    BY <1>1
  <2>2. ExitAt(z, n, s, w) <=> ExitAt(o, n, s, w)
    BY <1>1 DEF ExitAt
  <2> QED
    BY <2>1, <2>2, TrackedBefore
<1>3. ASSUME NEW w, NEW n \in DOMAIN z, ExitAt(z, n, s, w)
      PROVE  n \in DOMAIN o
  <2>1. n > Len(o) => z[n].type # "exit"
    BY <1>1
  <2> QED
    BY <1>1, <1>3, <2>1 DEF ExitAt
<1>4. ASSUME NEW w \in Nat \ {0}
      PROVE  (\E n \in DOMAIN z :
                 ExitAt(z, n, s, w) /\ Tracked(z, h, n, s, w) /\ (waits => Answered(z, n))) <=>
             (\E n \in DOMAIN o :
                 ExitAt(o, n, s, w) /\ Tracked(o, h, n, s, w) /\ (waits => Answered(o, n)))
  BY <1>1, <1>2, <1>3
<1> QED
  BY <1>4 DEF Charged

LEMMA ExitAppended ==
    ASSUME NEW o \in Seq(Message), NEW m \in Message, m.type = "exit"
    PROVE  \A h, waits, s : \A w \in Charged(o \o <<m>>, h, waits, s) :
              \/ w \in Charged(o, h, waits, s)
              \/ /\ w = m.pid /\ s = m.slot /\ Tracked(o, h, Len(o) + 1, s, w)
                 /\ waits => Answered(o, Len(o) + 1)
<1> SUFFICES ASSUME NEW h, NEW waits, NEW s, NEW z, z = o \o <<m>>
             PROVE  \A w \in Charged(z, h, waits, s) :
                       \/ w \in Charged(o, h, waits, s)
                       \/ /\ w = m.pid /\ s = m.slot /\ Tracked(o, h, Len(o) + 1, s, w)
                          /\ waits => Answered(o, Len(o) + 1)
  OBVIOUS
<1> SUFFICES ASSUME NEW w \in Nat \ {0}, NEW n \in DOMAIN z,
                    ExitAt(z, n, s, w), Tracked(z, h, n, s, w), waits => Answered(z, n)
             PROVE  \/ w \in Charged(o, h, waits, s)
                    \/ /\ w = m.pid /\ s = m.slot /\ Tracked(o, h, Len(o) + 1, s, w)
                       /\ waits => Answered(o, Len(o) + 1)
  BY DEF Charged
<1>0. <<m>> \in Seq(Message) /\ Len(<<m>>) = 1 /\ <<m>>[1] = m /\ DOMAIN <<m>> = {1}
  OBVIOUS
<1>1. /\ DOMAIN o = 1..Len(o) /\ Len(o) \in Nat /\ DOMAIN z = 1..Len(z) /\ Len(z) = Len(o) + 1
      /\ \A j \in DOMAIN o : j \in DOMAIN z /\ z[j] = o[j]
      /\ \A j \in DOMAIN z : j > Len(o) => j - Len(o) \in DOMAIN <<m>> /\ z[j] = <<m>>[j - Len(o)]
  BY <1>0, Concatenated
<1>2. n \in 1..Len(o) + 1
  BY <1>1
<1>3. Tracked(o, h, n, s, w) /\ (waits => Answered(o, n))
  BY <1>0, <1>2, TrackedBefore
<1>4. CASE n \in DOMAIN o
  <2>1. ExitAt(o, n, s, w)
    BY <1>1, <1>4 DEF ExitAt
  <2> QED
    BY <1>3, <1>4, <2>1 DEF Charged
<1>5. CASE n \notin DOMAIN o
  <2>1. n = Len(o) + 1 /\ z[n] = m
    BY <1>0, <1>1, <1>2, <1>5
  <2> QED
    BY <1>3, <2>1 DEF ExitAt
<1> QED
  BY <1>4, <1>5

\* What is told last decides who is on record in the end.
LEMMA TrackedAfter ==
    ASSUME NEW o \in Seq(Message), NEW ms \in Seq(Message), NEW z, z = o \o ms,
           NEW h, NEW s, NEW w, NEW n, n = Len(z) + 1, Tracked(z, h, n, s, w)
    PROVE  \/ \E k \in DOMAIN ms : OnlineAt(ms, k, s) /\ ms[k].pid = w
           \/ /\ Tracked(o, h, Len(o) + 1, s, w)
              /\ \A k \in DOMAIN ms : ~OnlineAt(ms, k, s)
<1>1. /\ DOMAIN o = 1..Len(o) /\ Len(o) \in Nat /\ DOMAIN z = 1..Len(z) /\ Len(z) \in Nat
      /\ Len(z) = Len(o) + Len(ms) /\ DOMAIN ms = 1..Len(ms) /\ Len(ms) \in Nat
      /\ \A j \in DOMAIN o : j \in DOMAIN z /\ z[j] = o[j]
      /\ \A i \in DOMAIN z : i > Len(o) => i - Len(o) \in DOMAIN ms /\ z[i] = ms[i - Len(o)]
  BY Concatenated
<1>2. \A k \in DOMAIN ms : Len(o) + k \in DOMAIN z /\ Len(o) + k > Len(o) /\ z[Len(o) + k] = ms[k]
  <2>1. ASSUME NEW k \in DOMAIN ms
        PROVE  Len(o) + k \in DOMAIN z /\ Len(o) + k > Len(o) /\ (Len(o) + k) - Len(o) = k
    BY <1>1
  <2> QED
    BY <1>1, <2>1
<1>3. \A i \in DOMAIN o : OnlineAt(z, i, s) <=> OnlineAt(o, i, s)
  BY <1>1 DEF OnlineAt
<1>4. \A k \in DOMAIN ms : OnlineAt(z, Len(o) + k, s) <=> OnlineAt(ms, k, s)
  BY <1>2 DEF OnlineAt
<1>5. CASE \E j \in DOMAIN z :
              /\ j < Len(z) + 1 /\ OnlineAt(z, j, s) /\ z[j].pid = w
              /\ \A k \in DOMAIN z : j < k /\ k < Len(z) + 1 => ~OnlineAt(z, k, s)
  <2>1. PICK j \in DOMAIN z :
              /\ OnlineAt(z, j, s) /\ z[j].pid = w
              /\ \A k \in DOMAIN z : j < k => ~OnlineAt(z, k, s)
    BY <1>1, <1>5
  <2>2. CASE j > Len(o)
    <3>1. j - Len(o) \in DOMAIN ms /\ z[j] = ms[j - Len(o)]
      BY <1>1, <2>2
    <3> QED
      BY <2>1, <3>1 DEF OnlineAt
  <2>3. CASE ~(j > Len(o))
    <3>1. j \in DOMAIN o /\ \A k \in DOMAIN ms : j < Len(o) + k
      BY <1>1, <2>3
    <3>2. \A k \in DOMAIN ms : ~OnlineAt(ms, k, s)
      BY <1>2, <1>4, <2>1, <3>1
    <3>3. /\ j < Len(o) + 1 /\ OnlineAt(o, j, s) /\ o[j].pid = w
          /\ \A k \in DOMAIN o : j < k /\ k < Len(o) + 1 => ~OnlineAt(o, k, s)
      BY <1>1, <1>3, <2>1, <3>1
    <3> QED
      BY <3>1, <3>2, <3>3 DEF Tracked
  <2> QED
    BY <2>2, <2>3
<1>6. CASE h = w /\ \A k \in DOMAIN z : k < Len(z) + 1 => ~OnlineAt(z, k, s)
  <2>1. \A k \in DOMAIN z : ~OnlineAt(z, k, s)
    BY <1>1, <1>6
  <2>2. \A k \in DOMAIN o : ~OnlineAt(o, k, s)
    BY <1>1, <1>3, <2>1
  <2>3. \A k \in DOMAIN ms : ~OnlineAt(ms, k, s)
    BY <1>2, <1>4, <2>1
  <2> QED
    BY <1>6, <2>2, <2>3 DEF Tracked
<1> QED
  BY <1>5, <1>6 DEF Tracked

LEMMA ToldAfter ==
    ASSUME NEW o \in Seq(Message), NEW ms \in Seq(Message), NEW z, z = o \o ms
    PROVE  /\ Answered(z, Len(z) + 1) <=>
                 Answered(o, Len(o) + 1) \/ \E k \in DOMAIN ms : ms[k].type = "complete"
           /\ \A s : FailedIn(z, s) <=> FailedIn(o, s) \/ FailedIn(ms, s)
<1>1. /\ DOMAIN o = 1..Len(o) /\ Len(o) \in Nat /\ DOMAIN z = 1..Len(z) /\ Len(z) \in Nat
      /\ Len(z) = Len(o) + Len(ms) /\ DOMAIN ms = 1..Len(ms) /\ Len(ms) \in Nat
      /\ \A j \in DOMAIN o : j \in DOMAIN z /\ z[j] = o[j]
      /\ \A n \in DOMAIN z : n > Len(o) => n - Len(o) \in DOMAIN ms /\ z[n] = ms[n - Len(o)]
  BY Concatenated
<1>2. \A k \in DOMAIN ms : Len(o) + k \in DOMAIN z /\ z[Len(o) + k] = ms[k]
  <2>1. ASSUME NEW k \in DOMAIN ms
        PROVE  Len(o) + k \in DOMAIN z /\ Len(o) + k > Len(o) /\ (Len(o) + k) - Len(o) = k
    BY <1>1
  <2> QED
    BY <1>1, <2>1
<1>3. \A n \in DOMAIN z : n \in DOMAIN o \/ \E k \in DOMAIN ms : z[n] = ms[k]
  BY <1>1
<1>4. /\ \A n \in DOMAIN z : n < Len(z) + 1
      /\ \A n \in DOMAIN o : n < Len(o) + 1
  BY <1>1
<1>5. Answered(z, Len(z) + 1) <=>
                 Answered(o, Len(o) + 1) \/ \E k \in DOMAIN ms : ms[k].type = "complete"
  <2>1. CASE Answered(z, Len(z) + 1)
    <3>1. PICK n \in DOMAIN z : z[n].type = "complete"
      BY <2>1 DEF Answered
    <3>2. CASE n \in DOMAIN o
      <4>1. o[n].type = "complete" /\ n < Len(o) + 1
        BY <1>1, <1>4, <3>1, <3>2
      <4> QED
        BY <2>1, <3>2, <4>1 DEF Answered
    <3>3. CASE n \notin DOMAIN o
      BY <1>3, <2>1, <3>1, <3>3
    <3> QED
      BY <3>2, <3>3
  <2>2. ASSUME Answered(o, Len(o) + 1) PROVE Answered(z, Len(z) + 1)
    BY <1>1, <1>4, <2>2 DEF Answered
  <2>3. ASSUME NEW k \in DOMAIN ms, ms[k].type = "complete" PROVE Answered(z, Len(z) + 1)
    BY <1>2, <1>4, <2>3 DEF Answered
  <2> QED
    BY <2>1, <2>2, <2>3
<1>6. ASSUME NEW s
      PROVE  FailedIn(z, s) <=> FailedIn(o, s) \/ FailedIn(ms, s)
  <2>1. \A n \in DOMAIN o : n \in DOMAIN z /\ z[n] = o[n]
    BY <1>1
  <2>2. ASSUME NEW n \in DOMAIN z, z[n].type = "failed", z[n].slot = s
        PROVE  FailedIn(o, s) \/ FailedIn(ms, s)
    <3>1. CASE n \in DOMAIN o
      BY ONLY <2>1, <2>2, <3>1 DEF FailedIn
    <3>2. CASE n \notin DOMAIN o
      <4>1. PICK k \in DOMAIN ms : z[n] = ms[k]
        BY <1>3, <2>2, <3>2
      <4> QED
        BY ONLY <2>2, <4>1 DEF FailedIn
    <3> QED
      BY ONLY <3>1, <3>2
  <2>3. ASSUME NEW n \in DOMAIN o, o[n].type = "failed", o[n].slot = s
        PROVE  FailedIn(z, s)
    BY ONLY <2>1, <2>3 DEF FailedIn
  <2>4. ASSUME NEW k \in DOMAIN ms, ms[k].type = "failed", ms[k].slot = s
        PROVE  FailedIn(z, s)
    <3>1. PICK n \in DOMAIN z : z[n] = ms[k]
      BY <1>2, <2>4
    <3> QED
      BY ONLY <2>4, <3>1 DEF FailedIn
  <2> QED
    BY ONLY <2>2, <2>3, <2>4 DEF FailedIn
<1> QED
  BY <1>5, <1>6

LEMMA TailOf ==
    ASSUME NEW S, NEW o \in Seq(S), o # <<>>, NEW t, t = Tail(o)
    PROVE  /\ t \in Seq(S) /\ Len(t) \in Nat /\ Len(o) = Len(t) + 1
           /\ DOMAIN o = 1..Len(o) /\ DOMAIN t = 1..Len(t) /\ Head(o) = o[1] /\ Head(o) \in S
           /\ 1 \in DOMAIN o /\ \A n \in DOMAIN t : n + 1 \in DOMAIN o /\ t[n] = o[n + 1]
           /\ \A n \in DOMAIN o : n = 1 \/ (n - 1 \in DOMAIN t /\ t[n - 1] = o[n])
<1>1. /\ t \in Seq(S) /\ Len(t) = Len(o) - 1 /\ Len(o) \in Nat \ {0}
      /\ Head(o) = o[1] /\ Head(o) \in S /\ \A n \in 1..Len(t) : t[n] = o[n + 1]
  BY HeadTailProperties, EmptySeq
<1>2. DOMAIN o = 1..Len(o) /\ DOMAIN t = 1..Len(t) /\ Len(t) \in Nat
  BY <1>1
<1>3. ASSUME NEW n \in DOMAIN o, n # 1
      PROVE  n - 1 \in DOMAIN t /\ t[n - 1] = o[n]
  <2>1. n - 1 \in 1..Len(t) /\ (n - 1) + 1 = n
    BY <1>1, <1>2, <1>3
  <2> QED
    BY <1>1, <1>2, <2>1
<1> QED
  BY <1>1, <1>2, <1>3

\* The messages that remain mean no more once the first has been heard.
LEMMA TrackedTail ==
    ASSUME NEW o \in Seq(Message), o # <<>>, NEW t, t = Tail(o), NEW m, m = Head(o),
           NEW h, NEW now, NEW s, NEW w, w # 0, NEW n \in 1..Len(o), Tracked(t, now, n, s, w),
           now \in {IF m.type = "online" /\ m.slot = s THEN m.pid ELSE h, 0}
    PROVE  Tracked(o, h, n + 1, s, w)
<1>1. /\ Len(t) \in Nat /\ Len(o) = Len(t) + 1
      /\ DOMAIN o = 1..Len(o) /\ DOMAIN t = 1..Len(t) /\ o[1] = m
      /\ 1 \in DOMAIN o /\ \A k \in DOMAIN t : k + 1 \in DOMAIN o /\ t[k] = o[k + 1]
      /\ \A k \in DOMAIN o : k = 1 \/ (k - 1 \in DOMAIN t /\ t[k - 1] = o[k])
  BY TailOf
<1>2. ASSUME NEW k \in DOMAIN o, k # 1
      PROVE  k - 1 \in DOMAIN t /\ (OnlineAt(o, k, s) <=> OnlineAt(t, k - 1, s))
  BY <1>1, <1>2 DEF OnlineAt
<1>3. n \in Nat /\ \A k \in DOMAIN o : k \in Nat
  BY <1>1
<1>4. CASE \E j \in DOMAIN t :
              /\ j < n /\ OnlineAt(t, j, s) /\ t[j].pid = w
              /\ \A k \in DOMAIN t : j < k /\ k < n => ~OnlineAt(t, k, s)
  <2>1. PICK j \in DOMAIN t :
              /\ j < n /\ OnlineAt(t, j, s) /\ t[j].pid = w
              /\ \A k \in DOMAIN t : j < k /\ k < n => ~OnlineAt(t, k, s)
    BY <1>4
  <2>2. j \in Nat /\ j + 1 \in DOMAIN o /\ j + 1 < n + 1 /\ OnlineAt(o, j + 1, s) /\ o[j + 1].pid = w
    BY <1>1, <1>3, <2>1 DEF OnlineAt
  <2>3. ASSUME NEW k \in DOMAIN o, j + 1 < k, k < n + 1
        PROVE  ~OnlineAt(o, k, s)
    <3>1. k # 1 /\ j < k - 1 /\ k - 1 < n
      BY <1>1, <1>3, <2>3, <2>2
    <3> QED
      BY <1>2, <2>1, <3>1
  <2> QED
    BY <2>2, <2>3 DEF Tracked
<1>5. CASE now = w /\ \A k \in DOMAIN t : k < n => ~OnlineAt(t, k, s)
  <2>1. ASSUME NEW k \in DOMAIN o, k # 1, k < n + 1
        PROVE  ~OnlineAt(o, k, s)
    <3>1. k - 1 < n
      BY <1>3, <2>1
    <3> QED
      BY <1>2, <1>5, <2>1, <3>1
  <2>2. CASE m.type = "online" /\ m.slot = s
    <3>1. OnlineAt(o, 1, s) /\ o[1].pid = w /\ 1 < n + 1
      BY <1>1, <1>3, <1>5, <2>2 DEF OnlineAt
    <3>2. \A k \in DOMAIN o : 1 < k /\ k < n + 1 => ~OnlineAt(o, k, s)
      BY <1>3, <2>1
    <3> QED
      BY <1>1, <3>1, <3>2 DEF Tracked
  <2>3. CASE ~(m.type = "online" /\ m.slot = s)
    <3>1. h = w /\ ~OnlineAt(o, 1, s)
      BY <1>1, <1>5, <2>3 DEF OnlineAt
    <3>2. \A k \in DOMAIN o : k < n + 1 => ~OnlineAt(o, k, s)
      BY <2>1, <3>1
    <3> QED
      BY <3>1, <3>2 DEF Tracked
  <2> QED
    BY <2>2, <2>3
<1> QED
  BY <1>4, <1>5 DEF Tracked

LEMMA AnsweredTail ==
    ASSUME NEW o \in Seq(Message), o # <<>>, NEW t, t = Tail(o), NEW m, m = Head(o),
           NEW n \in Nat, n > 0
    PROVE  Answered(o, n + 1) <=> m.type = "complete" \/ Answered(t, n)
<1>1. /\ Len(t) \in Nat /\ Len(o) = Len(t) + 1
      /\ DOMAIN o = 1..Len(o) /\ DOMAIN t = 1..Len(t) /\ o[1] = m
      /\ 1 \in DOMAIN o /\ \A k \in DOMAIN t : k + 1 \in DOMAIN o /\ t[k] = o[k + 1]
      /\ \A k \in DOMAIN o : k = 1 \/ (k - 1 \in DOMAIN t /\ t[k - 1] = o[k])
  BY TailOf
<1>2. ASSUME NEW k \in DOMAIN o, k < n + 1, o[k].type = "complete"
      PROVE  m.type = "complete" \/ Answered(t, n)
  <2>1. k # 1 => k - 1 \in DOMAIN t /\ k - 1 < n /\ t[k - 1].type = "complete"
    BY <1>1, <1>2
  <2> QED
    BY <1>1, <1>2, <2>1 DEF Answered
<1>3. ASSUME NEW k \in DOMAIN t, k < n, t[k].type = "complete"
      PROVE  Answered(o, n + 1)
  <2>1. k + 1 \in DOMAIN o /\ k + 1 < n + 1 /\ o[k + 1].type = "complete"
    BY <1>1, <1>3
  <2> QED
    BY <2>1 DEF Answered
<1>4. m.type = "complete" => Answered(o, n + 1)
  <2>1. 1 < n + 1
    OBVIOUS
  <2> QED
    BY <1>1, <2>1 DEF Answered
<1> QED
  BY <1>2, <1>3, <1>4 DEF Answered

LEMMA ChargedTail ==
    ASSUME NEW o \in Seq(Message), o # <<>>, NEW t, t = Tail(o), NEW m, m = Head(o),
           NEW h, NEW now, NEW s, NEW waits, NEW waiting,
           m.type # "complete" /\ waits => waiting,
           now \in {IF m.type = "online" /\ m.slot = s THEN m.pid ELSE h, 0}
    PROVE  \A w \in Charged(t, now, waiting, s) :
              /\ w \in Charged(o, h, waits, s)
              /\ \E n \in DOMAIN o : n > 1 /\ ExitAt(o, n, s, w)
<1> SUFFICES ASSUME NEW w \in Nat \ {0}, NEW n \in DOMAIN t, ExitAt(t, n, s, w),
                    Tracked(t, now, n, s, w), waiting => Answered(t, n)
             PROVE  /\ w \in Charged(o, h, waits, s)
                    /\ \E k \in DOMAIN o : k > 1 /\ ExitAt(o, k, s, w)
  BY DEF Charged
<1>1. /\ Len(t) \in Nat /\ Len(o) = Len(t) + 1 /\ DOMAIN t = 1..Len(t)
      /\ n + 1 \in DOMAIN o /\ t[n] = o[n + 1]
  BY TailOf
<1>2. n \in 1..Len(o) /\ n \in Nat /\ n > 0 /\ n + 1 > 1
  BY <1>1
<1>3. Tracked(o, h, n + 1, s, w)
  BY <1>2, TrackedTail
<1>4. waits => Answered(o, n + 1)
  BY <1>2, AnsweredTail
<1>5. ExitAt(o, n + 1, s, w)
  BY <1>1 DEF ExitAt
<1> QED
  BY <1>1, <1>2, <1>3, <1>4, <1>5 DEF Charged

LEMMA FailedTail ==
    ASSUME NEW o \in Seq(Message), o # <<>>, NEW s
    PROVE  FailedIn(o, s) <=>
              FailedIn(Tail(o), s) \/ (Head(o).type = "failed" /\ Head(o).slot = s)
<1> DEFINE t == Tail(o)
           m == Head(o)
<1>0. t = Tail(o) /\ m = Head(o)
  OBVIOUS
<1> HIDE DEF t, m
<1>1. /\ 1 \in DOMAIN o /\ \A k \in DOMAIN t : k + 1 \in DOMAIN o /\ t[k] = o[k + 1]
      /\ \A k \in DOMAIN o : k = 1 \/ (k - 1 \in DOMAIN t /\ t[k - 1] = o[k])
      /\ o[1] = m
  BY <1>0, TailOf
<1>2. ASSUME NEW k \in DOMAIN o, o[k].type = "failed", o[k].slot = s
      PROVE  FailedIn(t, s) \/ (m.type = "failed" /\ m.slot = s)
  <2>1. CASE k = 1
    BY ONLY <1>1, <1>2, <2>1
  <2>2. CASE k # 1
    <3>1. k - 1 \in DOMAIN t /\ t[k - 1] = o[k]
      BY <1>1, <2>2
    <3> QED
      BY ONLY <1>2, <3>1 DEF FailedIn
  <2> QED
    BY ONLY <2>1, <2>2
<1>3. ASSUME NEW k \in DOMAIN t, t[k].type = "failed", t[k].slot = s
      PROVE  FailedIn(o, s)
  <2>1. k + 1 \in DOMAIN o /\ t[k] = o[k + 1]
    BY <1>1
  <2> QED
    BY ONLY <1>3, <2>1 DEF FailedIn
<1>4. m.type = "failed" /\ m.slot = s => FailedIn(o, s)
  BY <1>1 DEF FailedIn
<1> QED
  BY ONLY <1>0, <1>2, <1>3, <1>4 DEF FailedIn
----------------------------------------------------------------------------
(* The messages of restarts that are done. *)

\* No two of the restarts in R share the new worker, and R is finite.
Distinct(R) == IsFiniteSet(R) /\ \A r, q \in R : r.new = q.new => r = q

\* A finite set of restarts can be told in the order in which they began.
LEMMA OrderExists ==
    ASSUME NEW R, R \subseteq RestartState, Distinct(R)
    PROVE  \E f \in [1..Cardinality(R) -> R] :
              \A i, j \in DOMAIN f : i < j => f[i].new < f[j].new
<1> DEFINE N == Cardinality(R)
           before(r) == {q \in R : q.new < r.new}
           rank == [r \in R |-> Cardinality(before(r)) + 1]
<1>0. IsFiniteSet(R) /\ N \in Nat /\ \A r \in R : r.new \in Nat
  BY FS_CardinalityType DEF Distinct, RestartState
<1>1. \A r \in R : IsFiniteSet(before(r)) /\ Cardinality(before(r)) \in Nat
  <2>1. ASSUME NEW r \in R
        PROVE  IsFiniteSet(before(r))
    <3>1. before(r) \in SUBSET R
      OBVIOUS
    <3> QED
      BY <1>0, <3>1, FS_Subset
  <2> QED
    BY <2>1, FS_CardinalityType
<1>2. ASSUME NEW r \in R, NEW q \in R, r.new < q.new
      PROVE  rank[r] < rank[q]
  <2>1. r \notin before(r) /\ before(r) \cup {r} \in SUBSET before(q)
    BY <1>0, <1>2
  <2>2. Cardinality(before(r) \cup {r}) = Cardinality(before(r)) + 1
    BY <1>1, <2>1, FS_AddElement
  <2>3. Cardinality(before(r) \cup {r}) <= Cardinality(before(q))
    BY <1>1, <2>1, FS_Subset
  <2> HIDE DEF before
  <2> QED
    BY <1>1, <2>2, <2>3
<1>3. ASSUME NEW r \in R
      PROVE  rank[r] \in 1..N
  <2>1. r \notin before(r) /\ before(r) \cup {r} \in SUBSET R
    BY <1>0
  <2>2. Cardinality(before(r) \cup {r}) = Cardinality(before(r)) + 1
    BY <1>1, <2>1, FS_AddElement
  <2>3. Cardinality(before(r) \cup {r}) <= N
    BY <1>0, <2>1, FS_Subset
  <2> HIDE DEF before, N
  <2> QED
    BY <1>0, <1>1, <2>2, <2>3
<1>4. ASSUME NEW r \in R, NEW q \in R, r # q
      PROVE  rank[r] # rank[q]
  <2>1. r.new < q.new \/ q.new < r.new
    BY <1>0, <1>4 DEF Distinct
  <2>2. rank[r] \in Nat /\ rank[q] \in Nat
    BY <1>0, <1>3
  <2> HIDE DEF rank
  <2> QED
    BY <1>2, <2>1, <2>2
<1>5. rank \in [R -> 1..N]
  BY <1>3
<1> HIDE DEF rank
<1>6. rank \in Injection(R, 1..N)
  BY <1>4, <1>5 DEF Injection, IsInjective
<1>7. IsFiniteSet(1..N) /\ Cardinality(1..N) = N
  BY <1>0, FS_Interval
<1>8. rank \in Surjection(R, 1..N)
  BY <1>6, <1>7, FS_Injection
<1> DEFINE f == [n \in 1..N |-> CHOOSE r \in R : rank[r] = n]
<1>9. \A n \in 1..N : f[n] \in R /\ rank[f[n]] = n
  BY <1>8 DEF Surjection
<1>10. f \in [1..N -> R] /\ DOMAIN f = 1..N
  BY <1>9
<1> HIDE DEF f
<1>11. ASSUME NEW i \in 1..N, NEW j \in 1..N, i < j
       PROVE  f[i].new < f[j].new
  <2>1. f[i] \in R /\ f[j] \in R /\ rank[f[i]] = i /\ rank[f[j]] = j
    BY <1>9
  <2>2. f[i] # f[j] /\ ~(f[j].new < f[i].new)
    BY <1>0, <1>2, <1>11, <2>1
  <2>3. f[i].new # f[j].new
    BY <2>1, <2>2 DEF Distinct
  <2> QED
    BY <1>0, <2>1, <2>2, <2>3
<1> QED
  BY <1>10, <1>11

LEMMA AnnouncementTypes ==
    ASSUME NEW r, r.slot \in Slot, r.new \in Nat
    PROVE  /\ Announcement(r) \in Seq(Message) /\ Len(Announcement(r)) = 2
           /\ DOMAIN Announcement(r) = {1, 2}
           /\ Announcement(r)[1] = [type |-> "online", slot |-> r.slot, pid |-> r.new]
           /\ Announcement(r)[2] = [type |-> "listening", slot |-> r.slot]
           /\ Announcement(r)[1] \in Message /\ Announcement(r)[2] \in Message
<1> DEFINE a == [type |-> "online", slot |-> r.slot, pid |-> r.new]
           b == [type |-> "listening", slot |-> r.slot]
<1>1. a \in Message /\ b \in Message
  BY DEF Message
<1>2. Announcement(r) = <<a, b>>
  BY DEF Announcement
<1> HIDE DEF a, b
<1>3. <<a, b>> \in Seq(Message) /\ Len(<<a, b>>) = 2 /\ DOMAIN <<a, b>> = {1, 2}
  BY <1>1
<1> QED
  BY <1>1, <1>2, <1>3 DEF a, b

LEMMA AnnouncementsTypes ==
    ASSUME NEW R, R \subseteq RestartState, Distinct(R)
    PROVE  /\ Announcements(R) \in Seq(Message)
           /\ \A n \in DOMAIN Announcements(R) :
                 \/ Announcements(R)[n].type = "listening"
                 \/ /\ Announcements(R)[n].type = "online"
                    /\ \E r \in R : Announcements(R)[n].slot = r.slot /\ Announcements(R)[n].pid = r.new
<1> DEFINE N == Cardinality(R)
           Ordered(f) == \A i, j \in DOMAIN f : i < j => f[i].new < f[j].new
           order == CHOOSE f \in [1..N -> R] : Ordered(f)
           told(n) == Announcement(order[(n + 1) \div 2])[2 - (n % 2)]
<1>1. N \in Nat
  BY FS_CardinalityType DEF Distinct
<1>2. order \in [1..N -> R]
  <2>1. \E f \in [1..N -> R] : Ordered(f)
    BY OrderExists
  <2> HIDE DEF Ordered
  <2> QED
    BY <2>1
<1>3. Announcements(R) = [n \in 1..2 * N |-> told(n)]
  BY DEF Announcements
<1> HIDE DEF N, order
<1>4. ASSUME NEW n \in 1..2 * N
      PROVE  /\ told(n) \in Message
             /\ \/ told(n).type = "listening"
                \/ /\ told(n).type = "online"
                   /\ \E r \in R : told(n).slot = r.slot /\ told(n).pid = r.new
  <2> DEFINE i == (n + 1) \div 2
             k == 2 - (n % 2)
  <2>1. i \in 1..N /\ k \in {1, 2}
    BY <1>1
  <2>2. PICK r \in R : r = order[i]
    BY <1>2, <2>1
  <2>3. r.slot \in Slot /\ r.new \in Nat
    BY DEF RestartState
  <2>4. told(n) = Announcement(r)[k]
    BY <2>2
  <2> HIDE DEF told, i, k
  <2>5. CASE k = 1
    <3>1. told(n) = [type |-> "online", slot |-> r.slot, pid |-> r.new] /\ told(n) \in Message
      <4>1. /\ Announcement(r)[1] = [type |-> "online", slot |-> r.slot, pid |-> r.new]
            /\ Announcement(r)[1] \in Message
        BY <2>3, AnnouncementTypes
      <4> QED
        BY ONLY <2>4, <2>5, <4>1
    <3> QED
      BY <3>1
  <2>6. CASE k = 2
    <3>1. told(n) = [type |-> "listening", slot |-> r.slot] /\ told(n) \in Message
      <4>1. /\ Announcement(r)[2] = [type |-> "listening", slot |-> r.slot]
            /\ Announcement(r)[2] \in Message
        BY <2>3, AnnouncementTypes
      <4> QED
        BY ONLY <2>4, <2>6, <4>1
    <3> QED
      BY <3>1
  <2> QED
    BY <2>1, <2>5, <2>6
<1> HIDE DEF told
<1>5. 2 * N \in Nat
  BY <1>1
<1>6. Announcements(R) \in Seq(Message) /\ DOMAIN Announcements(R) = 1..2 * N
      /\ \A n \in 1..2 * N : Announcements(R)[n] = told(n)
  BY <1>3, <1>4, <1>5
<1> QED
  BY <1>4, <1>6

LEMMA NothingAnnounced == Announcements({}) = <<>>
<1>1. Cardinality({}) = 0 /\ 1..2 * 0 = {}
  BY FS_EmptySet
<1> QED
  BY <1>1 DEF Announcements

LEMMA OneAnnounced ==
    ASSUME NEW r \in RestartState
    PROVE  Announcements({r}) = Announcement(r)
<1> DEFINE Ordered(f) == \A i, j \in DOMAIN f : i < j => f[i].new < f[j].new
           N == Cardinality({r})
           order == CHOOSE f \in [1..N -> {r}] : Ordered(f)
           told(n) == Announcement(order[(n + 1) \div 2])[2 - (n % 2)]
<1>1. N = 1
  BY FS_Singleton
<1>2. Distinct({r})
  BY FS_Singleton DEF Distinct
<1>3. order \in [1..N -> {r}]
  <2>1. \E f \in [1..N -> {r}] : Ordered(f)
    BY <1>2, OrderExists
  <2> HIDE DEF Ordered
  <2> QED
    BY <2>1
<1>4. Announcements({r}) = [n \in 1..2 * N |-> told(n)]
  BY DEF Announcements
<1> HIDE DEF order, N
<1>5. told(1) = Announcement(r)[1] /\ told(2) = Announcement(r)[2]
  <2>1. (1 + 1) \div 2 = 1 /\ (2 + 1) \div 2 = 1 /\ 2 - (1 % 2) = 1 /\ 2 - (2 % 2) = 2
    OBVIOUS
  <2>2. order[1] = r
    BY <1>1, <1>3
  <2> QED
    BY <2>1, <2>2
<1> HIDE DEF told
<1>6. r.slot \in Slot /\ r.new \in Nat
  BY DEF RestartState
<1>7. Announcement(r) \in Seq(Message) /\ Len(Announcement(r)) = 2
  BY <1>6, AnnouncementTypes
<1> QED
  BY <1>1, <1>4, <1>5, <1>7

\* The restarts of the primary are such a set.
LEMMA RestartsDistinct ==
    ASSUME NEW p, Good(p), NEW R, R \subseteq p.restarts
    PROVE  R \subseteq RestartState /\ Distinct(R)
<1>1. /\ p.restarts \subseteq RestartState /\ \A r \in p.restarts : r.new \in Ids(p)
      /\ \A r, q \in p.restarts : r.new = q.new => r = q
  BY DEF Good, Shape, Linked, Replaces
<1>2. Ids(p) = 1..Len(p.workers) /\ Len(p.workers) \in Nat
  BY DEF Good, Shape, Ids
<1> DEFINE f == [r \in R |-> r.new]
<1>3. f \in Injection(R, Ids(p))
  BY <1>1 DEF Injection, IsInjective
<1>4. IsFiniteSet(Ids(p))
  BY <1>2, FS_Interval
<1>5. IsFiniteSet(R)
  BY <1>3, <1>4, FS_Injection
<1> QED
  BY <1>1, <1>5 DEF Distinct
----------------------------------------------------------------------------
(* Turns in which no worker exits. *)

LEMMA IdsAreNumbers ==
    ASSUME NEW p, Good(p)
    PROVE  /\ Ids(p) = 1..Len(p.workers) /\ Len(p.workers) \in Nat /\ Ids(p) \subseteq Nat \ {0}
           /\ \A w \in Ids(p) : p.workers[w] \in Worker /\ p.workers[w].slot \in Slot
           /\ Mapped(p) \subseteq Ids(p) /\ p.candidates \subseteq Ids(p)
<1>1. p.workers \in Seq(Worker) /\ p.candidates \subseteq Ids(p)
  BY DEF Good, Shape
<1>2. Ids(p) = 1..Len(p.workers) /\ Len(p.workers) \in Nat
  BY <1>1 DEF Ids
<1>3. \A w \in Ids(p) : p.workers[w] \in Worker /\ p.workers[w].slot \in Slot
  BY WorkerTypes DEF Good, Ids
<1> QED
  BY <1>1, <1>2, <1>3 DEF Mapped

LEMMA SecretIsUntracked ==
    ASSUME NEW p, NEW d, NEW w, Secret(p, d, w), NEW s \in Slot, NEW n
    PROVE  ~Tracked(p.out, d.held[s], n, s, w)
BY DEF Secret, Tracked, OnlineAt

LEMMA UnforkedIsSecret ==
    ASSUME NEW p, Good(p), NEW d, Onlines(p, d), NEW w \in Nat \ {0}, w \notin Ids(p)
    PROVE  Secret(p, d, w)
BY DEF Secret, Onlines

\* From p to q the primary says ms, no worker exits, and a worker that is killed is no
\* longer on record, or never was.
Moves(p, d, q, ms, stops) ==
    /\ ms \in Seq(Message) /\ q.out = p.out \o ms
    /\ Ids(p) \subseteq Ids(q)
    /\ \A u \in Ids(p) : /\ q.workers[u].slot = p.workers[u].slot
                         /\ u \in Mapped(q) => u \in Mapped(p)
    /\ \A k \in DOMAIN ms : ms[k].type # "exit"
    /\ \A k \in DOMAIN ms : ms[k].type = "online" => ms[k].pid \in Ids(q) \ q.candidates
    /\ q.candidates \subseteq p.candidates \cup (Ids(q) \ Ids(p))
    /\ ~stops => \A u \in Mapped(q) :
          LET v == q.workers[u]
          IN /\ v.killed =>
                  /\ u \in Ids(p)
                  /\ \A k \in DOMAIN ms : ms[k].type = "online" => ms[k].pid # u
                  /\ \/ p.workers[u].killed
                     \/ Secret(p, d, u)
                     \/ \E k \in DOMAIN ms : OnlineAt(ms, k, v.slot)
             /\ v.left /\ ~v.killed =>
                  \/ q.reload.pc = "stopping" /\ q.reload.old = u
                  \/ \E r \in q.restarts : r.pc = "stopping" /\ r.old = u

LEMMA MovesTidy ==
    ASSUME NEW p, NEW d, Tidy(p, d), NEW q, Good(q), NEW e, WorldOK(e), NEW ms,
           Moves(p, d, q, ms, e.stops),
           e.held = d.held, d.stops => e.stops, e.reloads + e.restarts <= 1,
           ReloadOnce(q, e), RestartOnce(q, e), Agreed(q, e), Trials(q)
    PROVE  /\ Tidy(q, e)
           /\ \A waits, s : Charged(q.out, d.held[s], waits, s) = Charged(p.out, d.held[s], waits, s)
<1>0. /\ Good(p) /\ p.out \in Seq(Message) /\ WorldOK(d)
      /\ Exits(p, d) /\ Onlines(p, d) /\ Secrets(p, d)
      /\ ~d.stops => \A w \in Mapped(p) : Doomed(p, d, w)
  BY DEF Tidy
<1>1. /\ ms \in Seq(Message) /\ q.out = p.out \o ms
      /\ Ids(p) \subseteq Ids(q)
      /\ \A u \in Ids(p) : /\ q.workers[u].slot = p.workers[u].slot
                           /\ u \in Mapped(q) => u \in Mapped(p)
      /\ \A k \in DOMAIN ms : ms[k].type # "exit"
      /\ \A k \in DOMAIN ms : ms[k].type = "online" => ms[k].pid \in Ids(q) \ q.candidates
      /\ q.candidates \subseteq p.candidates \cup (Ids(q) \ Ids(p))
  BY DEF Moves
<1> DEFINE o == p.out
           z == q.out
<1>2. /\ z \in Seq(Message) /\ DOMAIN o = 1..Len(o) /\ DOMAIN z = 1..Len(z)
      /\ Len(o) \in Nat /\ Len(z) \in Nat
      /\ \A n \in DOMAIN o : n \in DOMAIN z /\ z[n] = o[n]
      /\ \A n \in DOMAIN z : n \in DOMAIN o \/ \E k \in DOMAIN ms : z[n] = ms[k]
  <2>1. /\ z \in Seq(Message) /\ DOMAIN o = 1..Len(o) /\ DOMAIN z = 1..Len(z)
        /\ Len(o) \in Nat /\ Len(z) \in Nat
        /\ \A n \in DOMAIN o : n \in DOMAIN z /\ z[n] = o[n]
        /\ \A n \in DOMAIN z : n > Len(o) => n - Len(o) \in DOMAIN ms /\ z[n] = ms[n - Len(o)]
    BY <1>0, <1>1, Concatenated
  <2>2. \A n \in DOMAIN z : n \in DOMAIN o \/ \E k \in DOMAIN ms : z[n] = ms[k]
    BY <2>1
  <2> QED
    BY <2>1, <2>2
<1>3. Exits(q, e)
  <2>1. \A n \in DOMAIN z : z[n].type = "exit" => n \in DOMAIN o /\ o[n].type = "exit" /\ z[n] = o[n]
    BY <1>1, <1>2
  <2>2. \A n \in DOMAIN o : o[n].type = "exit" => o[n].pid \in Ids(q) \ Mapped(q)
    BY <1>0, <1>1 DEF Exits
  <2> QED
    BY <1>0, <1>2, <2>1, <2>2 DEF Exits
<1>4. Onlines(q, e)
  BY <1>0, <1>1, <1>2 DEF Onlines
<1>5. ASSUME NEW u, Secret(p, d, u), \A k \in DOMAIN ms : ms[k].type = "online" => ms[k].pid # u
      PROVE  Secret(q, e, u)
  BY <1>2, <1>5 DEF Secret
<1>6. Secrets(q, e)
  <2> SUFFICES ASSUME NEW u \in q.candidates PROVE Secret(q, e, u)
    BY DEF Secrets
  <2>1. Secret(p, d, u)
    <3>1. CASE u \in p.candidates
      BY <1>0, <3>1 DEF Secrets
    <3>2. CASE u \notin p.candidates
      <4>1. u \in Nat \ {0} /\ u \notin Ids(p)
        BY <1>1, <3>2, IdsAreNumbers
      <4> QED
        BY <1>0, <4>1, UnforkedIsSecret
    <3> QED
      BY <3>1, <3>2
  <2> QED
    BY <1>1, <1>5, <2>1
<1>7. ASSUME ~e.stops, NEW u \in Mapped(q)
      PROVE  Doomed(q, e, u)
  <2> DEFINE v == q.workers[u]
             s == v.slot
  <2>1. /\ v.killed =>
             /\ u \in Ids(p)
             /\ \A k \in DOMAIN ms : ms[k].type = "online" => ms[k].pid # u
             /\ \/ p.workers[u].killed
                \/ Secret(p, d, u)
                \/ \E k \in DOMAIN ms : OnlineAt(ms, k, s)
        /\ v.left /\ ~v.killed =>
             \/ q.reload.pc = "stopping" /\ q.reload.old = u
             \/ \E r \in q.restarts : r.pc = "stopping" /\ r.old = u
    BY <1>7 DEF Moves
  <2>2. ASSUME v.killed, Tracked(z, e.held[s], Len(z) + 1, s, u)
        PROVE  FALSE
    <3>1. /\ u \in Ids(p) /\ u \in Mapped(p) /\ p.workers[u].slot = s /\ s \in Slot
          /\ \A k \in DOMAIN ms : ms[k].type = "online" => ms[k].pid # u
      BY <1>0, <1>1, <1>7, <2>1, <2>2, IdsAreNumbers
    <3>2. /\ Tracked(o, d.held[s], Len(o) + 1, s, u)
          /\ \A k \in DOMAIN ms : ~OnlineAt(ms, k, s)
      <4>1. \/ \E k \in DOMAIN ms : OnlineAt(ms, k, s) /\ ms[k].pid = u
            \/ /\ Tracked(o, d.held[s], Len(o) + 1, s, u)
               /\ \A k \in DOMAIN ms : ~OnlineAt(ms, k, s)
        <5>1. PICK h : h = d.held[s]
          OBVIOUS
        <5>2. Tracked(z, h, Len(z) + 1, s, u)
          BY <2>2, <5>1
        <5>3. o \in Seq(Message) /\ ms \in Seq(Message) /\ z = o \o ms
          BY <1>0, <1>1
        <5> HIDE DEF v, s, o, z
        <5> QED
          BY ONLY <5>1, <5>2, <5>3, TrackedAfter, ZenonT(60)
      <4> QED
        BY <3>1, <4>1 DEF OnlineAt
    <3>3. CASE p.workers[u].killed
      BY <1>0, <1>7, <3>1, <3>2, <3>3 DEF Doomed, End
    <3>4. CASE Secret(p, d, u)
      BY <3>1, <3>2, <3>4, SecretIsUntracked
    <3> QED
      BY <2>1, <2>2, <3>2, <3>3, <3>4
  <2> QED
    BY <2>1, <2>2 DEF Doomed, End
<1>8. ASSUME NEW waits, NEW s
      PROVE  Charged(q.out, d.held[s], waits, s) = Charged(p.out, d.held[s], waits, s)
  <2>1. o \in Seq(Message) /\ ms \in Seq(Message) /\ z = o \o ms
    BY <1>0, <1>1
  <2>2. \A k \in DOMAIN ms : ms[k].type # "exit"
    BY <1>1
  <2>3. \A h, f, t : Charged(o \o ms, h, f, t) = Charged(o, h, f, t)
    BY ONLY <2>1, <2>2, ChargedBefore, SMT
  <2> QED
    BY ONLY <2>1, <2>3
<1> QED
  BY <1>2, <1>3, <1>4, <1>6, <1>7, <1>8 DEF Tidy

LEMMA ChargedAreFew ==
    ASSUME NEW p, NEW d, Tidy(p, d), NEW h, NEW waits, NEW s
    PROVE  LET C == Charged(p.out, h, waits, s)
           IN /\ IsFiniteSet(C) /\ Cardinality(C) \in Nat
              /\ C \subseteq Ids(p) \ Mapped(p)
<1> DEFINE C == Charged(p.out, h, waits, s)
<1>1. C \subseteq Ids(p) \ Mapped(p)
  BY DEF Charged, Tidy, Exits, ExitAt
<1>2. IsFiniteSet(Ids(p))
  <2>1. Ids(p) = 1..Len(p.workers) /\ Len(p.workers) \in Nat
    BY IdsAreNumbers DEF Tidy
  <2> QED
    BY <2>1, FS_Interval
<1>3. IsFiniteSet(C)
  BY <1>1, <1>2, FS_Subset
<1> QED
  BY <1>1, <1>3, FS_CardinalityType

\* A turn keeps the books if what it opens and spends is covered.
LEMMA BalanceMoves ==
    ASSUME NEW p, NEW d, Tidy(p, d), Balanced(p, d), NEW q, NEW e, Tidy(q, e),
           \A s \in Slot : Charged(q.out, e.held[s], e.waits, s)
                              \subseteq Charged(p.out, d.held[s], d.waits, s),
           e.counted = d.counted, d.stops => e.stops,
           \A s \in Slot : e.counted[s] <= e.died[s],
           \A s \in Slot : ~e.stops =>
              Due(q, e, s) + Excuse(p.out, d, s) + d.died[s]
                 <= Due(p, d, s) + Excuse(q.out, e, s) + e.died[s]
    PROVE  Balanced(q, e)
<1> SUFFICES ASSUME NEW s \in Slot PROVE Covered(q, e, s)
  BY DEF Balanced
<1> DEFINE C == Charged(p.out, d.held[s], d.waits, s)
           D == Charged(q.out, e.held[s], e.waits, s)
           a == Due(p, d, s)
           b == Due(q, e, s)
           x == Excuse(p.out, d, s)
           y == Excuse(q.out, e, s)
<1>1. IsFiniteSet(C) /\ Cardinality(C) \in Nat /\ Cardinality(D) \in Nat
  BY ChargedAreFew
<1>2. Cardinality(D) <= Cardinality(C)
  <2>1. D \in SUBSET C
    OBVIOUS
  <2> QED
    BY <1>1, <2>1, FS_Subset
<1>3. a \in {0, 1} /\ b \in {0, 1} /\ x \in {0, 1} /\ y \in {0, 1}
  BY DEF Due, Excuse
<1>4. /\ d.counted[s] \in Nat /\ d.died[s] \in Nat /\ e.died[s] \in Nat
      /\ e.counted[s] = d.counted[s] /\ e.counted[s] <= e.died[s]
  BY DEF Tidy, WorldOK
<1>5. ~d.stops => d.counted[s] + Cardinality(C) + a <= d.died[s] + x
  BY DEF Balanced, Covered
<1>6. ~e.stops => ~d.stops /\ b + x + d.died[s] <= a + y + e.died[s]
  OBVIOUS
<1> HIDE DEF C, D, a, b, x, y
<1>7. ~e.stops => e.counted[s] + Cardinality(D) + b <= e.died[s] + y
  BY <1>1, <1>2, <1>3, <1>4, <1>5, <1>6
<1> QED
  BY <1>4, <1>7 DEF Covered, C, D, a, b, x, y

\* At most one command is given: a reload excludes restarts.
LEMMA OneAtATime ==
    ASSUME NEW p, NEW d, Tidy(p, d)
    PROVE  /\ Good(p) /\ WorldOK(d)
           /\ p.isReloading => /\ d.waits /\ ~Answered(p.out, End(p))
                               /\ Wanted(d, "reload") = {} /\ d.reloads # 0
           /\ d.waits => d.reloads # 0
           /\ d.reloads # 0 =>
                /\ p.restarts = {} /\ Wanted(d, "restart-worker") = {} /\ d.excused = {}
                /\ \A s \in Slot : ~FailedIn(p.out, s)
           /\ p.restarts # {} => /\ Wanted(d, "restart-worker") = {} /\ d.restarts # 0
                                 /\ ~p.isReloading /\ p.reload = NoReload
           /\ \A r \in p.restarts : p.restarts = {r}
<1>1. /\ Good(p) /\ WorldOK(d) /\ d.reloads + d.restarts <= 1
      /\ ReloadOnce(p, d) /\ RestartOnce(p, d)
  BY DEF Tidy
<1>2. d.reloads \in Nat /\ d.restarts \in Nat
  BY <1>1 DEF WorldOK
<1>3. d.reloads # 0 => d.restarts = 0
  BY <1>1, <1>2
<1>4. p.reload # NoReload => p.isReloading
  BY <1>1 DEF Good, Linked
<1>5. p.isReloading => /\ d.waits /\ ~Answered(p.out, End(p))
                       /\ Wanted(d, "reload") = {} /\ d.reloads # 0
  BY <1>1 DEF ReloadOnce
<1>6. d.waits => d.reloads # 0
  BY <1>1 DEF ReloadOnce
<1>7. d.reloads # 0 =>
        /\ p.restarts = {} /\ Wanted(d, "restart-worker") = {} /\ d.excused = {}
        /\ \A s \in Slot : ~FailedIn(p.out, s)
  BY <1>1, <1>3 DEF RestartOnce
<1>8. p.restarts # {} => Wanted(d, "restart-worker") = {} /\ d.restarts # 0
  BY <1>1 DEF RestartOnce
<1>9. \A r \in p.restarts : p.restarts = {r}
  BY <1>1 DEF RestartOnce
<1> QED
  BY <1>1, <1>4, <1>5, <1>6, <1>7, <1>8, <1>9

\* A turn of the primary, no command taken: a reload ends when it is answered, a restart
\* is the same one or is over, and its failure is told as it ends.
Continues(p, q, ms) ==
    /\ q.isShuttingDown = p.isShuttingDown
    /\ \/ q.isReloading = p.isReloading /\ \A k \in DOMAIN ms : ms[k].type # "complete"
       \/ p.isReloading /\ ~q.isReloading
    /\ \A r, t \in q.restarts : r = t
    /\ \A r \in q.restarts : \E t \in p.restarts : t.slot = r.slot
    /\ \A k \in DOMAIN ms : ms[k].type = "failed" =>
          q.restarts = {} /\ \E t \in p.restarts : t.slot = ms[k].slot

LEMMA ContinuesOnce ==
    ASSUME NEW p, NEW d, Tidy(p, d), NEW q, NEW ms \in Seq(Message), q.out = p.out \o ms,
           Continues(p, q, ms)
    PROVE  /\ ReloadOnce(q, d) /\ RestartOnce(q, d) /\ Agreed(q, d)
           /\ \A s \in Slot :
                 Due(q, d, s) + Excuse(p.out, d, s) <= Due(p, d, s) + Excuse(q.out, d, s)
<1>1. /\ WorldOK(d) /\ ReloadOnce(p, d) /\ RestartOnce(p, d) /\ Agreed(p, d)
      /\ p.out \in Seq(Message)
  BY DEF Tidy
<1>2. /\ Answered(q.out, End(q)) <=>
                 Answered(p.out, End(p)) \/ \E k \in DOMAIN ms : ms[k].type = "complete"
      /\ \A s : FailedIn(q.out, s) <=> FailedIn(p.out, s) \/ FailedIn(ms, s)
  BY <1>1, ToldAfter DEF End
<1>3. p.isReloading => d.waits /\ d.reloads # 0 /\ Wanted(d, "reload") = {}
  BY OneAtATime
<1>4. ReloadOnce(q, d)
  <2>1. CASE q.isReloading = p.isReloading /\ \A k \in DOMAIN ms : ms[k].type # "complete"
    <3>1. Answered(q.out, End(q)) <=> Answered(p.out, End(p))
      BY <1>2, <2>1
    <3> QED
      BY <1>1, <2>1, <3>1 DEF ReloadOnce
  <2>2. CASE p.isReloading /\ ~q.isReloading
    BY <1>1, <1>3, <2>2 DEF ReloadOnce
  <2> QED
    BY <2>1, <2>2 DEF Continues
<1>5. /\ \A r, t \in q.restarts : r = t
      /\ \A r \in q.restarts : \E t \in p.restarts : t.slot = r.slot
      /\ \A s : FailedIn(ms, s) => q.restarts = {} /\ \E t \in p.restarts : t.slot = s
  BY DEF Continues, FailedIn
<1>6. RestartOnce(q, d)
  BY <1>1, <1>2, <1>5 DEF RestartOnce
<1>7. Agreed(q, d)
  BY <1>1 DEF Agreed, Continues
<1>8. ASSUME NEW s \in Slot
      PROVE  Due(q, d, s) + Excuse(p.out, d, s) <= Due(p, d, s) + Excuse(q.out, d, s)
  <2>1. RestartOpen(q, d, s) => RestartOpen(p, d, s)
    BY <1>5 DEF RestartOpen
  <2>2. CASE FailedIn(ms, s)
    <3>1. q.restarts = {} /\ RestartOpen(p, d, s)
      BY <1>5, <2>2 DEF RestartOpen
    <3>2. Wanted(d, "restart-worker") = {}
      BY <1>5, <2>2, OneAtATime
    <3>3. ~RestartOpen(q, d, s)
      BY <3>1, <3>2 DEF RestartOpen
    <3>4. Due(q, d, s) = 0 /\ Due(p, d, s) = 1
      BY <3>1, <3>3 DEF Due
    <3>5. Excuse(p.out, d, s) \in {0, 1} /\ Excuse(q.out, d, s) \in {0, 1}
      BY DEF Excuse
    <3> QED
      BY <3>4, <3>5
  <2>3. CASE ~FailedIn(ms, s)
    <3>1. Excuse(q.out, d, s) = Excuse(p.out, d, s) /\ Excuse(p.out, d, s) \in {0, 1}
      BY <1>2, <2>3 DEF Excuse
    <3>2. /\ Due(q, d, s) = 0 \/ Due(p, d, s) = 1
          /\ Due(q, d, s) \in {0, 1} /\ Due(p, d, s) \in {0, 1}
      BY <2>1 DEF Due
    <3> QED
      BY <3>1, <3>2
  <2> QED
    BY <2>2, <2>3
<1> QED
  BY <1>4, <1>6, <1>7, <1>8

LEMMA TurnKeeps ==
    ASSUME NEW p, NEW d, Tidy(p, d), Balanced(p, d), NEW q, Good(q), NEW ms,
           Moves(p, d, q, ms, d.stops), Continues(p, q, ms), Trials(q)
    PROVE  Tidy(q, d) /\ Balanced(q, d)
<1>1. WorldOK(d) /\ d.reloads + d.restarts <= 1 /\ ms \in Seq(Message) /\ q.out = p.out \o ms
  BY DEF Tidy, Moves
<1>2. /\ ReloadOnce(q, d) /\ RestartOnce(q, d) /\ Agreed(q, d)
      /\ \A s \in Slot :
            Due(q, d, s) + Excuse(p.out, d, s) <= Due(p, d, s) + Excuse(q.out, d, s)
  BY <1>1, ContinuesOnce
<1>3. /\ Tidy(q, d)
      /\ \A waits, s : Charged(q.out, d.held[s], waits, s) = Charged(p.out, d.held[s], waits, s)
  <2>1. /\ Moves(p, d, q, ms, d.stops) /\ Tidy(p, d) /\ Good(q) /\ WorldOK(d) /\ Trials(q)
        /\ d.held = d.held /\ (d.stops => d.stops) /\ d.reloads + d.restarts <= 1
        /\ ReloadOnce(q, d) /\ RestartOnce(q, d) /\ Agreed(q, d)
    BY <1>1, <1>2
  <2> QED
    BY ONLY <2>1, MovesTidy, SMTT(30)
<1>4. \A s \in Slot : d.counted[s] <= d.died[s] /\ d.died[s] \in Nat
  BY <1>1 DEF Balanced, Covered, WorldOK
<1>5. \A s \in Slot : Due(q, d, s) + Excuse(p.out, d, s) + d.died[s]
                         <= Due(p, d, s) + Excuse(q.out, d, s) + d.died[s]
  <2>1. \A s \in Slot : /\ Due(q, d, s) \in {0, 1} /\ Due(p, d, s) \in {0, 1}
                        /\ Excuse(p.out, d, s) \in {0, 1} /\ Excuse(q.out, d, s) \in {0, 1}
    BY DEF Due, Excuse
  <2> QED
    BY <1>2, <1>4, <2>1
<1>6. \A s \in Slot : Charged(q.out, d.held[s], d.waits, s)
                          \subseteq Charged(p.out, d.held[s], d.waits, s)
  BY <1>3
<1>7. Balanced(q, d)
  BY <1>3, <1>4, <1>5, <1>6, BalanceMoves
<1> QED
  BY <1>3, <1>7
----------------------------------------------------------------------------
(* The turns of the primary, one by one. *)

LEMMA SaysFields ==
    ASSUME HasParent, NEW p, IsRecord(p), NEW ms
    PROVE  LET q == SendAll(p, ms)
           IN IsRecord(q) /\ Alike(p, q) /\ q.out = p.out \o ms
BY SendFields DEF SendAll, IsRecord

LEMMA KillMore ==
    ASSUME NEW p, Shape(p), NEW w \in Ids(p)
    PROVE  LET q == Kill(p, w)
           IN /\ Shape(q) /\ AlikeBut(p, q) /\ ChangesOnly(p, q, w) /\ q.out = p.out
              /\ Mapped(q) = Mapped(p)
              /\ w \in Mapped(p) => q.workers[w].killed
<1> DEFINE q == Kill(p, w)
           v == [p.workers[w] EXCEPT !.killed = TRUE]
<1>1. Shape(q) /\ AlikeBut(p, q) /\ ChangesOnly(p, q, w) /\ q.workers[w].life = p.workers[w].life
  BY KillFields
<1>2. Mapped(q) = Mapped(p)
  <2>1. Ids(q) = Ids(p) /\ \A u \in Ids(p) : q.workers[u].life = p.workers[u].life
    BY <1>1 DEF ChangesOnly
  <2> HIDE DEF q
  <2> QED
    BY <2>1 DEF Mapped
<1>3. q.out = p.out
  BY DEF Kill, Shape, IsRecord
<1>4. ASSUME w \in Mapped(p) PROVE q.workers[w].killed
  <2>1. p.workers[w] \in Worker /\ w \in DOMAIN p.workers
    BY WorkerTypes DEF Ids
  <2>2. v.killed
    BY <2>1 DEF Worker
  <2>3. q.workers = [p.workers EXCEPT ![w] = v]
    BY <1>4 DEF Kill, Shape, IsRecord
  <2>4. q.workers[w] = v
    BY <2>1, <2>3
  <2> QED
    BY <2>2, <2>4
<1> QED
  BY <1>1, <1>2, <1>3, <1>4

LEMMA LeaveMore ==
    ASSUME NEW p, Shape(p), NEW w \in Ids(p)
    PROVE  LET q == Leave(p, w)
           IN /\ Shape(q) /\ AlikeBut(p, q) /\ ChangesOnly(p, q, w) /\ q.out = p.out
              /\ Mapped(q) = Mapped(p)
              /\ q.workers[w].killed = p.workers[w].killed
<1> DEFINE q == Leave(p, w)
           v == [p.workers[w] EXCEPT !.left = TRUE]
<1>1. /\ Shape(q) /\ AlikeBut(p, q) /\ ChangesOnly(p, q, w)
      /\ q.workers[w] \in {p.workers[w], v}
  BY LeaveFields
<1>2. q.out = p.out
  BY DEF Leave, Shape, IsRecord
<1>3. v.killed = p.workers[w].killed /\ v.life = p.workers[w].life
  BY WorkerTypes DEF Worker
<1>4. q.workers[w].killed = p.workers[w].killed /\ q.workers[w].life = p.workers[w].life
  BY <1>1, <1>3
<1>5. Mapped(q) = Mapped(p)
  <2>1. Ids(q) = Ids(p) /\ \A u \in Ids(p) : q.workers[u].life = p.workers[u].life
    BY <1>1, <1>4 DEF ChangesOnly
  <2> HIDE DEF q
  <2> QED
    BY <2>1 DEF Mapped
<1> QED
  BY <1>1, <1>2, <1>4, <1>5

LEMMA SpawnMore ==
    ASSUME NEW p, Shape(p), NEW s \in Slot
    PROVE  LET q == SpawnCandidate(p, s)
               n == Len(p.workers) + 1
           IN /\ Shape(q) /\ q.out = p.out /\ n \in Nat \ {0} /\ n \notin Ids(p)
              /\ Ids(q) = Ids(p) \cup {n} /\ Mapped(q) = Mapped(p) \cup {n}
              /\ \A u \in Ids(p) : q.workers[u] = p.workers[u]
              /\ q.workers[n] = Unready(s)
              /\ ~q.workers[n].killed /\ ~q.workers[n].left
              /\ q.candidates = p.candidates \cup {n}
              /\ q.isShuttingDown = p.isShuttingDown /\ q.isReloading = p.isReloading
              /\ q.reload = p.reload /\ q.restarts = p.restarts
<1> DEFINE q == SpawnCandidate(p, s)
           n == Len(p.workers) + 1
<1>1. /\ Shape(q) /\ q.workers = Append(p.workers, Unready(s))
      /\ q.candidates = p.candidates \cup {n}
      /\ q.isShuttingDown = p.isShuttingDown /\ q.isReloading = p.isReloading
      /\ q.reload = p.reload /\ q.restarts = p.restarts
  BY SpawnFields
<1>2. q.out = p.out
  BY DEF SpawnCandidate, Spawn, Shape, IsRecord
<1>3. p.workers \in Seq(Worker) /\ Unready(s) \in Worker
  BY DEF Shape, Unready, Worker
<1> HIDE DEF q
<1>4. /\ n \in Nat \ {0} /\ n \notin Ids(p) /\ Ids(q) = Ids(p) \cup {n}
      /\ \A u \in Ids(p) : q.workers[u] = p.workers[u]
      /\ q.workers[n] = Unready(s)
  BY <1>1, <1>3 DEF Ids
<1>5. /\ Unready(s).life = "forked" /\ ~Unready(s).killed /\ ~Unready(s).left
  BY DEF Unready
<1>6. Mapped(q) = Mapped(p) \cup {n}
  BY <1>4, <1>5 DEF Mapped
<1> QED
  BY <1>1, <1>2, <1>4, <1>5, <1>6 DEF q

\* What an attempt at a replacement and the end of a reload do.
Attempts(p, z) ==
    \E n \in Nat \ {0}, s \in Slot :
        /\ n \notin Ids(p) /\ Ids(z) = Ids(p) \cup {n} /\ Mapped(z) = Mapped(p) \cup {n}
        /\ \A u \in Ids(p) : z.workers[u] = p.workers[u]
        /\ ~z.workers[n].killed /\ ~z.workers[n].left
        /\ z.candidates = p.candidates \cup {n} /\ z.restarts = p.restarts
        /\ z.isShuttingDown = p.isShuttingDown /\ z.isReloading = p.isReloading
        /\ z.out = p.out /\ z.reload.pc = "waiting" /\ z.reload.new = n

Finishes(p, z) ==
    /\ z.workers = p.workers /\ z.candidates = {} /\ z.restarts = p.restarts
    /\ z.reload = NoReload /\ z.isShuttingDown = p.isShuttingDown /\ ~z.isReloading
    /\ \E m \in Message : m.type = "complete" /\ z.out = p.out \o <<m>>

LEMMA FinishMore ==
    ASSUME HasParent, NEW p, Shape(p), NEW results \in Seq(Result)
    PROVE  Shape(Finish(p, results)) /\ Finishes(p, Finish(p, results))
<1> DEFINE z == Finish(p, results)
           m == [type |-> "complete", results |-> results]
<1>1. /\ Shape(z) /\ z.workers = p.workers /\ z.restarts = p.restarts /\ z.reload = NoReload
      /\ z.isShuttingDown = p.isShuttingDown /\ ~z.isReloading
  BY FinishFields
<1>2. z.candidates = {} /\ z.out = p.out \o <<m>>
  BY DEF Finish, Send, SendAll, Shape, IsRecord
<1>3. m \in Message /\ m.type = "complete"
  BY DEF Message
<1> HIDE DEF z, m
<1>4. Finishes(p, z)
  BY <1>1, <1>2, <1>3 DEF Finishes
<1> QED
  BY <1>1, <1>4 DEF z

LEMMA AttemptMore ==
    ASSUME NEW p, Shape(p),
           NEW r \in [pc : {"waiting", "backoff"}, queue : SUBSET Nat, attempt : 0..Retries,
                      old : Nat, slot : Slot, new : Nat, results : Seq(Result)]
    PROVE  Attempts(p, Attempt(p, r))
<1> DEFINE q == SpawnCandidate(p, r.slot)
           n == Len(p.workers) + 1
           a == [r EXCEPT !.pc = "waiting", !.new = n]
           z == Attempt(p, r)
<1>1. r.slot \in Slot
  OBVIOUS
<1>2. /\ Shape(q) /\ q.out = p.out /\ n \in Nat \ {0} /\ n \notin Ids(p)
      /\ Ids(q) = Ids(p) \cup {n} /\ Mapped(q) = Mapped(p) \cup {n}
      /\ \A u \in Ids(p) : q.workers[u] = p.workers[u]
      /\ ~q.workers[n].killed /\ ~q.workers[n].left
      /\ q.candidates = p.candidates \cup {n}
      /\ q.isShuttingDown = p.isShuttingDown /\ q.isReloading = p.isReloading
      /\ q.reload = p.reload /\ q.restarts = p.restarts
  BY <1>1, SpawnMore
<1>3. q.workers = Append(p.workers, Unready(r.slot)) /\ Newest(q) = n
  <2>1. q.workers = Append(p.workers, Unready(r.slot))
    BY <1>1, SpawnFields
  <2>2. p.workers \in Seq(Worker) /\ Unready(r.slot) \in Worker
    BY <1>1 DEF Shape, Unready, Worker
  <2> QED
    BY <2>1, <2>2 DEF Newest
<1>4. a.pc = "waiting" /\ a.new = n
  OBVIOUS
<1>5. z = [q EXCEPT !.reload = a]
  BY <1>3 DEF Attempt
<1> HIDE DEF q, a, z, n
<1>6. /\ z.workers = q.workers /\ z.candidates = q.candidates /\ z.restarts = q.restarts
      /\ z.isShuttingDown = q.isShuttingDown /\ z.isReloading = q.isReloading
      /\ z.out = q.out /\ z.reload = a
  BY <1>2, <1>5 DEF Shape, IsRecord
<1>7. Ids(z) = Ids(q) /\ Mapped(z) = Mapped(q)
  BY <1>6 DEF Ids, Mapped
<1>8. Attempts(p, z)
  BY <1>1, <1>2, <1>4, <1>6, <1>7 DEF Attempts
<1> QED
  BY <1>8 DEF z

LEMMA NextSlotMore ==
    ASSUME HasParent, NEW p, Good(p), NEW queue \in SUBSET Ids(p), NEW results \in Seq(Result)
    PROVE  Attempts(p, NextSlot(p, queue, results)) \/ Finishes(p, NextSlot(p, queue, results))
<1>1. CASE queue = {} \/ p.isShuttingDown
  <2>1. NextSlot(p, queue, results) = Finish(p, results)
    BY <1>1 DEF NextSlot
  <2> QED
    BY <2>1, FinishMore DEF Good
<1>2. CASE ~(queue = {} \/ p.isShuttingDown)
  <2> DEFINE w == First(queue)
             r == [pc |-> "waiting", queue |-> queue \ {w}, attempt |-> 0, old |-> w,
                   slot |-> p.workers[w].slot, new |-> 0, results |-> results]
  <2>1. queue \subseteq Nat /\ w \in Ids(p) /\ w \in Nat /\ p.workers[w].slot \in Slot
    BY <1>2, FirstIsLeast, WorkerTypes DEF Good
  <2>2. NextSlot(p, queue, results) = Attempt(p, r)
    BY <1>2 DEF NextSlot
  <2>3. 0 \in 0..Retries
    BY PrimaryAssumption
  <2>4. r \in [pc : {"waiting", "backoff"}, queue : SUBSET Nat, attempt : 0..Retries,
               old : Nat, slot : Slot, new : Nat, results : Seq(Result)]
    BY <2>1, <2>3
  <2> HIDE DEF r
  <2> QED
    BY <2>2, <2>4, AttemptMore DEF Good
<1> QED
  BY <1>1, <1>2

LEMMA NothingSaid ==
    ASSUME NEW p, NEW d, Tidy(p, d)
    PROVE  <<>> \in Seq(Message) /\ DOMAIN <<>> = {} /\ p.out = p.out \o <<>>
BY DEF Tidy

LEMMA OneSaid ==
    ASSUME NEW m \in Message
    PROVE  <<m>> \in Seq(Message) /\ DOMAIN <<m>> = {1} /\ <<m>>[1] = m
OBVIOUS

\* A reload goes on to the next attempt or ends, its last old worker being on its way.
LEMMA GoesOn ==
    ASSUME NEW p, NEW d, Tidy(p, d), Balanced(p, d), p.isReloading, NEW z, Good(z),
           Attempts(p, z) \/ Finishes(p, z),
           ~d.stops => \A u \in Mapped(p) : p.workers[u].left /\ ~p.workers[u].killed
                          => ~(p.reload.pc = "stopping" /\ p.reload.old = u)
    PROVE  Tidy(z, d) /\ Balanced(z, d)
<1>1. /\ Good(p) /\ p.restarts = {} /\ (~d.stops => \A u \in Mapped(p) : Doomed(p, d, u))
      /\ p.out \in Seq(Message)
  BY OneAtATime DEF Tidy
<1>2. ~d.stops => \A u \in Mapped(p) : ~(p.workers[u].left /\ ~p.workers[u].killed)
  BY <1>1 DEF Doomed
<1>3. CASE Attempts(p, z)
  <2>1. PICK n \in Nat \ {0}, s \in Slot :
          /\ n \notin Ids(p) /\ Ids(z) = Ids(p) \cup {n} /\ Mapped(z) = Mapped(p) \cup {n}
          /\ \A u \in Ids(p) : z.workers[u] = p.workers[u]
          /\ ~z.workers[n].killed /\ ~z.workers[n].left
          /\ z.candidates = p.candidates \cup {n} /\ z.restarts = p.restarts
          /\ z.isShuttingDown = p.isShuttingDown /\ z.isReloading = p.isReloading
          /\ z.out = p.out /\ z.reload.pc = "waiting" /\ z.reload.new = n
    BY <1>3 DEF Attempts
  <2>2. <<>> \in Seq(Message) /\ DOMAIN <<>> = {} /\ z.out = p.out \o <<>>
    BY <2>1, NothingSaid
  <2>3. Mapped(p) \subseteq Ids(p)
    BY DEF Mapped
  <2>4. Moves(p, d, z, <<>>, d.stops)
    BY <1>2, <2>1, <2>2, <2>3 DEF Moves
  <2>5. Continues(p, z, <<>>)
    BY <1>1, <2>1, <2>2 DEF Continues
  <2>6. Trials(z)
    BY <1>1, <2>1 DEF Trials, Trial
  <2> QED
    BY <2>4, <2>5, <2>6, TurnKeeps
<1>4. CASE Finishes(p, z)
  <2>1. /\ z.workers = p.workers /\ z.candidates = {} /\ z.restarts = p.restarts
        /\ z.reload = NoReload /\ z.isShuttingDown = p.isShuttingDown /\ ~z.isReloading
    BY <1>4 DEF Finishes
  <2>2. PICK m \in Message : m.type = "complete" /\ z.out = p.out \o <<m>>
    BY <1>4 DEF Finishes
  <2>3. <<m>> \in Seq(Message) /\ DOMAIN <<m>> = {1} /\ <<m>>[1] = m
    BY OneSaid
  <2>4. Ids(z) = Ids(p) /\ Mapped(z) = Mapped(p) /\ Mapped(p) \subseteq Ids(p)
    BY <2>1 DEF Ids, Mapped
  <2>5. Moves(p, d, z, <<m>>, d.stops)
    BY <1>2, <2>1, <2>2, <2>3, <2>4 DEF Moves
  <2>6. Continues(p, z, <<m>>)
    BY <1>1, <2>1, <2>2, <2>3 DEF Continues
  <2>7. Trials(z)
    BY <1>1, <2>1 DEF Trials
  <2> QED
    BY <2>5, <2>6, <2>7, TurnKeeps
<1> QED
  BY <1>3, <1>4

\* The event of a worker that is not gone, told or hidden.
LEMMA StartKeeps ==
    ASSUME NEW p, NEW d, Tidy(p, d), Balanced(p, d), NEW w \in Ids(p), ~p.workers[w].killed,
           NEW q, Good(q), AlikeBut(p, q), Ids(q) = Ids(p), Mapped(q) = Mapped(p),
           \A u \in Ids(p) : /\ q.workers[u].slot = p.workers[u].slot
                             /\ q.workers[u].left = p.workers[u].left
                             /\ q.workers[u].killed = p.workers[u].killed,
           \/ q.out = p.out
           \/ \E m \in Message : /\ q.out = p.out \o <<m>>
                                 /\ \/ m.type \in {"listening", "metrics"}
                                    \/ m.type = "online" /\ m.pid = w /\ w \notin p.candidates
    PROVE  Tidy(q, d) /\ Balanced(q, d)
<1>1. /\ Good(p) /\ (~d.stops => \A u \in Mapped(p) : Doomed(p, d, u))
      /\ p.out \in Seq(Message) /\ Trials(p)
      /\ \A r, t \in p.restarts : r = t
  BY DEF Tidy, RestartOnce
<1>2. /\ q.isReloading = p.isReloading /\ q.candidates = p.candidates /\ q.reload = p.reload
      /\ q.restarts = p.restarts /\ q.isShuttingDown = p.isShuttingDown
  BY DEF AlikeBut
<1>3. Mapped(p) \subseteq Ids(p)
  BY DEF Mapped
<1>4. Trials(q)
  <2>1. \A r : r.new \in Ids(p) /\ Trial(p, r) => Trial(q, r)
    BY <1>2 DEF Trial
  <2>2. /\ \A r \in p.restarts : r.new \in Ids(p)
        /\ p.reload # NoReload => p.reload.new \in Ids(p)
    BY <1>1 DEF Good, Linked, Replaces
  <2> QED
    BY <1>1, <1>2, <2>1, <2>2 DEF Trials
<1>5. ~d.stops => \A u \in Mapped(q) :
        LET v == q.workers[u]
        IN /\ v.killed => u \in Ids(p) /\ u # w /\ p.workers[u].killed
           /\ v.left /\ ~v.killed =>
                \/ q.reload.pc = "stopping" /\ q.reload.old = u
                \/ \E r \in q.restarts : r.pc = "stopping" /\ r.old = u
  BY <1>1, <1>2, <1>3 DEF Doomed
<1>6. ASSUME NEW ms \in Seq(Message), q.out = p.out \o ms,
             \A k \in DOMAIN ms : \/ ms[k].type \in {"listening", "metrics"}
                                  \/ ms[k].type = "online" /\ ms[k].pid = w /\ w \notin p.candidates
      PROVE  Tidy(q, d) /\ Balanced(q, d)
  <2>1. /\ \A k \in DOMAIN ms : ms[k].type \notin {"exit", "complete", "failed"}
        /\ \A k \in DOMAIN ms : ms[k].type = "online" => ms[k].pid = w /\ w \notin p.candidates
    BY <1>6
  <2>2. Moves(p, d, q, ms, d.stops)
    BY <1>2, <1>3, <1>5, <1>6, <2>1 DEF Moves
  <2>3. Continues(p, q, ms)
    BY <1>1, <1>2, <2>1 DEF Continues
  <2> QED
    BY <1>4, <2>2, <2>3, TurnKeeps
<1>7. CASE q.out = p.out
  BY <1>6, <1>7, NothingSaid
<1>8. ASSUME NEW m \in Message, q.out = p.out \o <<m>>,
             \/ m.type \in {"listening", "metrics"}
             \/ m.type = "online" /\ m.pid = w /\ w \notin p.candidates
      PROVE  Tidy(q, d) /\ Balanced(q, d)
  <2>1. <<m>> \in Seq(Message) /\ DOMAIN <<m>> = {1} /\ <<m>>[1] = m
    BY OneSaid
  <2> DEFINE ms == <<m>>
  <2> HIDE DEF ms
  <2>2. ms \in Seq(Message) /\ q.out = p.out \o ms
    BY <1>8, <2>1 DEF ms
  <2>3. \A k \in DOMAIN ms : \/ ms[k].type \in {"listening", "metrics"}
                             \/ ms[k].type = "online" /\ ms[k].pid = w /\ w \notin p.candidates
    BY <1>8, <2>1 DEF ms
  <2> QED
    BY <1>6, <2>2, <2>3
<1> QED
  BY <1>7, <1>8

\* The candidate is ready: the 50 ms begin.
LEMMA ReloadReadyKeeps ==
    ASSUME NEW p, NEW d, Tidy(p, d), Balanced(p, d), p.reload.pc = "waiting",
           p.workers[p.reload.new].ready
    PROVE  LET q == [p EXCEPT !.reload.pc = "settling"] IN Tidy(q, d) /\ Balanced(q, d)
<1> DEFINE r == p.reload
           a == [r EXCEPT !.pc = "settling"]
           q == [p EXCEPT !.reload.pc = "settling"]
<1>1. /\ Good(p) /\ (~d.stops => \A u \in Mapped(p) : Doomed(p, d, u)) /\ Trials(p)
      /\ p.out \in Seq(Message)
  BY DEF Tidy
<1>2. r # NoReload /\ r \in ReloadState /\ p.isReloading
  BY <1>1 DEF Good, Shape, NoReload, Linked
<1>3. p.restarts = {}
  BY <1>2, OneAtATime
<1>4. a.pc = "settling" /\ a.new = r.new /\ a # NoReload
  BY <1>2 DEF ReloadState, NoReload
<1>5. /\ q.workers = p.workers /\ q.restarts = p.restarts /\ q.out = p.out
      /\ q.reload = a /\ q.isShuttingDown = p.isShuttingDown /\ q.isReloading = p.isReloading
      /\ q.candidates = p.candidates
  BY <1>1 DEF Good, Shape, IsRecord
<1>6. Good(q)
  BY <1>1, ReadyIsFine DEF Fine
<1> HIDE DEF a, q
<1>7. Ids(q) = Ids(p) /\ Mapped(q) = Mapped(p) /\ Mapped(p) \subseteq Ids(p)
  BY <1>5 DEF Ids, Mapped
<1>8. <<>> \in Seq(Message) /\ DOMAIN <<>> = {} /\ q.out = p.out \o <<>>
  BY <1>5, NothingSaid
<1>9. ~d.stops => \A u \in Mapped(p) : ~(p.workers[u].left /\ ~p.workers[u].killed)
  BY <1>1, <1>3 DEF Doomed
<1>10. Moves(p, d, q, <<>>, d.stops)
  BY <1>5, <1>7, <1>8, <1>9 DEF Moves
<1>11. Continues(p, q, <<>>)
  BY <1>3, <1>5, <1>8 DEF Continues
<1>12. Trials(q)
  BY <1>1, <1>2, <1>3, <1>4, <1>5, <1>7 DEF Trials, Trial
<1> QED
  BY <1>6, <1>10, <1>11, <1>12, TurnKeeps DEF q

\* It is not: it is killed, and the reload tries again or gives up.
LEMMA RejectedKeeps ==
    ASSUME HasParent, NEW p, NEW d, Tidy(p, d), Balanced(p, d), p.reload.pc = "waiting"
    PROVE  Tidy(Rejected(p), d) /\ Balanced(Rejected(p), d)
<1> DEFINE r == p.reload
           k == Kill(p, r.new)
           b == [k EXCEPT !.reload.pc = "backoff", !.reload.attempt = @ + 1]
           q == Rejected(p)
<1>1. /\ Good(p) /\ (~d.stops => \A u \in Mapped(p) : Doomed(p, d, u)) /\ Trials(p)
      /\ Secrets(p, d) /\ p.out \in Seq(Message)
  BY DEF Tidy
<1>2. /\ r # NoReload /\ r \in ReloadState /\ p.isReloading /\ r.new \in Ids(p)
      /\ r.slot \in Slot /\ r.results \in Seq(Result)
  BY <1>1 DEF Good, Shape, NoReload, Linked, Replaces, ReloadState
<1>3. p.restarts = {}
  BY <1>2, OneAtATime
<1>4. r.new \in p.candidates \/ r.new \notin Mapped(p)
  BY <1>1, <1>2 DEF Trials, Trial
<1>5. Good(q)
  BY <1>1, RejectedIsFine DEF Fine
<1>6. /\ Shape(k) /\ AlikeBut(p, k) /\ ChangesOnly(p, k, r.new) /\ k.out = p.out
      /\ Mapped(k) = Mapped(p)
  BY <1>1, <1>2, KillMore DEF Good
<1>7. ~d.stops => \A u \in Mapped(p) : ~(p.workers[u].left /\ ~p.workers[u].killed)
  BY <1>1, <1>3 DEF Doomed
<1>8. ~d.stops => \A u \in Mapped(p) :
         /\ ~(k.workers[u].left /\ ~k.workers[u].killed)
         /\ k.workers[u].killed => p.workers[u].killed \/ Secret(p, d, u)
  <2>1. ASSUME NEW u \in Mapped(p), u = r.new
        PROVE  k.workers[u].killed /\ Secret(p, d, u)
    BY <1>1, <1>2, <1>4, <2>1, KillMore DEF Good, Secrets
  <2>2. ASSUME NEW u \in Mapped(p), u # r.new
        PROVE  k.workers[u] = p.workers[u]
    BY <1>6, <2>2 DEF ChangesOnly, Mapped
  <2> QED
    BY <1>7, <2>1, <2>2
<1> HIDE DEF k, q
<1>9. ASSUME NEW ms \in Seq(Message), q.out = p.out \o ms, q.workers = k.workers,
             q.candidates \subseteq p.candidates, q.restarts = {},
             q.isShuttingDown = p.isShuttingDown, q.reload.pc \in {"idle", "backoff"},
             q.reload # NoReload => q.reload.pc = "backoff",
             \A n \in DOMAIN ms : ms[n].type = "complete",
             q.isReloading => ms = <<>>
      PROVE  Tidy(q, d) /\ Balanced(q, d)
  <2>1. /\ Ids(q) = Ids(p) /\ Mapped(q) = Mapped(p) /\ Mapped(p) \subseteq Ids(p)
        /\ \A u \in Ids(p) : q.workers[u].slot = p.workers[u].slot
    BY <1>6, <1>9 DEF Ids, Mapped, ChangesOnly
  <2>2. \A n \in DOMAIN ms : ms[n].type \notin {"exit", "online", "failed"}
    BY <1>9
  <2>3. Moves(p, d, q, ms, d.stops)
    BY <1>8, <1>9, <2>1, <2>2 DEF Moves
  <2>4. Continues(p, q, ms)
    <3>1. \/ q.isReloading = p.isReloading /\ \A n \in DOMAIN ms : ms[n].type # "complete"
          \/ p.isReloading /\ ~q.isReloading
      <4>1. q.isReloading \in BOOLEAN /\ p.isReloading = TRUE
        BY <1>1, <1>2, <1>5 DEF Good, Shape
      <4>2. q.isReloading => \A n \in DOMAIN ms : ms[n].type # "complete"
        BY <1>9
      <4> QED
        BY <4>1, <4>2
    <3> QED
      BY <1>9, <2>2, <3>1 DEF Continues
  <2>5. Trials(q)
    BY <1>9 DEF Trials, Trial
  <2> QED
    BY <1>5, <2>3, <2>4, <2>5, TurnKeeps
<1>10. ASSUME Finishes(k, q)
       PROVE  Tidy(q, d) /\ Balanced(q, d)
  <2>1. /\ q.workers = k.workers /\ q.candidates = {} /\ q.restarts = {}
        /\ q.reload = NoReload /\ q.isShuttingDown = p.isShuttingDown /\ ~q.isReloading
    BY <1>3, <1>6, <1>10 DEF Finishes, AlikeBut
  <2>2. PICK m \in Message : m.type = "complete" /\ q.out = p.out \o <<m>>
    BY <1>6, <1>10 DEF Finishes
  <2>3. <<m>> \in Seq(Message) /\ DOMAIN <<m>> = {1} /\ <<m>>[1] = m
    BY OneSaid
  <2>4. q.reload.pc = "idle"
    BY <2>1 DEF NoReload
  <2> DEFINE ms == <<m>>
  <2>5. ms \in Seq(Message) /\ q.out = p.out \o ms /\ \A n \in DOMAIN ms : ms[n].type = "complete"
    BY <2>2, <2>3
  <2> HIDE DEF ms
  <2> QED
    BY <1>9, <2>1, <2>4, <2>5
<1>11. ASSUME AttemptsLeft(p) /\ ~p.isShuttingDown
       PROVE  Tidy(q, d) /\ Balanced(q, d)
  <2>1. q = b
    BY <1>11 DEF Rejected, q, k
  <2>2. k.reload = r
    BY <1>6 DEF AlikeBut
  <2>3. /\ b.workers = k.workers /\ b.restarts = k.restarts /\ b.out = k.out
        /\ b.isShuttingDown = k.isShuttingDown /\ b.candidates = k.candidates
        /\ b.isReloading = k.isReloading
        /\ b.reload = [r EXCEPT !.pc = "backoff", !.attempt = r.attempt + 1]
    BY <1>6, <2>2 DEF Shape, IsRecord
  <2> HIDE DEF b
  <2>4. b.reload.pc = "backoff"
    BY <1>2, <2>3 DEF ReloadState
  <2>5. <<>> \in Seq(Message) /\ DOMAIN <<>> = {} /\ q.out = p.out \o <<>>
    BY <1>6, <2>1, <2>3, NothingSaid
  <2>6. /\ q.workers = k.workers /\ q.candidates \subseteq p.candidates /\ q.restarts = {}
        /\ q.isShuttingDown = p.isShuttingDown /\ q.reload.pc = "backoff"
    BY <1>3, <1>6, <2>1, <2>3, <2>4 DEF AlikeBut
  <2> DEFINE ms == <<>>
  <2>7. /\ ms \in Seq(Message) /\ q.out = p.out \o ms /\ ms = <<>>
        /\ \A n \in DOMAIN ms : ms[n].type = "complete"
    BY <2>5
  <2> HIDE DEF ms
  <2> QED
    BY <1>9, <2>6, <2>7
<1>12. ASSUME ~(AttemptsLeft(p) /\ ~p.isShuttingDown)
       PROVE  Tidy(q, d) /\ Balanced(q, d)
  <2>1. Append(r.results, [slot |-> r.slot, ok |-> FALSE]) \in Seq(Result)
    BY <1>2 DEF Result
  <2>2. \E results \in Seq(Result) : q = Finish(k, results)
    BY <1>2, <1>12, <2>1 DEF Rejected, q, k
  <2>3. PICK results \in Seq(Result) : q = Finish(k, results)
    BY <2>2
  <2>4. Finishes(k, Finish(k, results))
    BY <1>6, FinishMore
  <2>5. Finishes(k, q)
    BY <2>3, <2>4
  <2> QED
    BY <1>10, <2>5
<1> QED
  BY <1>11, <1>12 DEF q

LEMMA BackoffKeeps ==
    ASSUME HasParent, NEW p, NEW d, Tidy(p, d), Balanced(p, d), p.reload.pc = "backoff"
    PROVE  Tidy(Attempt(p, p.reload), d) /\ Balanced(Attempt(p, p.reload), d)
<1> DEFINE r == p.reload
<1>1. Good(p)
  BY DEF Tidy
<1>2. /\ r # NoReload /\ r \in ReloadState /\ p.isReloading /\ Replaces(p, r)
      /\ r.queue \subseteq Ids(p)
  BY <1>1 DEF Good, Shape, NoReload, Linked
<1>3. /\ r \in [pc : {"waiting", "backoff"}, queue : SUBSET Nat, attempt : 0..Retries,
                old : Nat, slot : Slot, new : Nat, results : Seq(Result)]
      /\ r \in [pc : {"waiting", "backoff"}, queue : SUBSET Ids(p), attempt : 0..Retries,
                old : Ids(p), slot : Slot, new : Nat, results : Seq(Result)]
  BY <1>2 DEF ReloadState, Replaces
<1>4. p.workers[r.old].slot = r.slot
  BY <1>2 DEF Replaces
<1> HIDE DEF r
<1>5. Attempts(p, Attempt(p, r))
  BY <1>1, <1>3, AttemptMore DEF Good
<1>6. Good(Attempt(p, r))
  <2>1. p.reload.pc \notin {"waiting", "settling"}
    OBVIOUS
  <2>2. Fine(p, Attempt(p, r))
    BY <1>1, <1>2, <1>3, <1>4, <2>1, AttemptIsFine
  <2> QED
    BY <2>2 DEF Fine
<1>7. Tidy(Attempt(p, r), d) /\ Balanced(Attempt(p, r), d)
  BY <1>2, <1>5, <1>6, GoesOn
<1> QED
  BY <1>7 DEF r

\* The candidate is promoted.
LEMMA ReloadPromotesKeeps ==
    ASSUME NEW p, NEW d, Tidy(p, d), Balanced(p, d), p.reload.pc = "settling"
    PROVE  LET q == Leave([p EXCEPT !.reload.pc = "stopping",
                                    !.candidates = @ \ {p.reload.new}], p.reload.old)
           IN Tidy(q, d) /\ Balanced(q, d)
<1> DEFINE r == p.reload
           a == [r EXCEPT !.pc = "stopping"]
           m == [p EXCEPT !.reload.pc = "stopping", !.candidates = @ \ {p.reload.new}]
           q == Leave(m, r.old)
<1>1. /\ Good(p) /\ (~d.stops => \A u \in Mapped(p) : Doomed(p, d, u)) /\ Trials(p)
      /\ p.out \in Seq(Message)
  BY DEF Tidy
<1>2. /\ r # NoReload /\ r \in ReloadState /\ p.isReloading
      /\ r.old \in Ids(p) /\ r.new \in Ids(p) /\ r.old # r.new
  BY <1>1 DEF Good, Shape, NoReload, Linked, Replaces, ReloadState
<1>3. p.restarts = {}
  BY <1>2, OneAtATime
<1>4. a.pc = "stopping" /\ a.new = r.new /\ a.old = r.old /\ a # NoReload /\ a \in ReloadState
  BY <1>2 DEF ReloadState, NoReload
<1>5. /\ m.workers = p.workers /\ m.restarts = p.restarts /\ m.out = p.out
      /\ m.reload = a /\ m.isShuttingDown = p.isShuttingDown /\ m.isReloading = p.isReloading
      /\ m.candidates = p.candidates \ {r.new} /\ IsRecord(m) /\ m.freeSlots = p.freeSlots
      /\ m.stopping = p.stopping /\ m.exited = p.exited
  BY <1>1 DEF Good, Shape, IsRecord
<1>6. Good(q)
  BY <1>1, ReloadPromotesIsFine DEF Fine
<1> HIDE DEF a, m
<1>7. Shape(m) /\ Ids(m) = Ids(p) /\ Mapped(m) = Mapped(p) /\ Mapped(p) \subseteq Ids(p)
  BY <1>1, <1>4, <1>5 DEF Good, Shape, Ids, Mapped
<1>8. /\ AlikeBut(m, q) /\ ChangesOnly(m, q, r.old) /\ q.out = m.out
      /\ Mapped(q) = Mapped(m) /\ q.workers[r.old].killed = m.workers[r.old].killed
  BY <1>2, <1>7, LeaveMore
<1> HIDE DEF q
<1>9. /\ q.restarts = {} /\ q.out = p.out /\ q.reload = a /\ q.isShuttingDown = p.isShuttingDown
      /\ q.isReloading = p.isReloading /\ q.candidates = p.candidates \ {r.new}
      /\ Ids(q) = Ids(p) /\ Mapped(q) = Mapped(p)
      /\ \A u \in Ids(p) : u # r.old => q.workers[u] = p.workers[u]
      /\ \A u \in Ids(p) : q.workers[u].slot = p.workers[u].slot
      /\ q.workers[r.old].killed = p.workers[r.old].killed
  BY <1>3, <1>5, <1>7, <1>8 DEF AlikeBut, ChangesOnly
<1>10. <<>> \in Seq(Message) /\ DOMAIN <<>> = {} /\ q.out = p.out \o <<>>
  BY <1>9, NothingSaid
<1>11. ~d.stops => \A u \in Mapped(p) : ~(p.workers[u].left /\ ~p.workers[u].killed)
  BY <1>1, <1>3 DEF Doomed
<1>12. Moves(p, d, q, <<>>, d.stops)
  BY <1>4, <1>7, <1>9, <1>10, <1>11 DEF Moves
<1>13. Continues(p, q, <<>>)
  BY <1>3, <1>9, <1>10 DEF Continues
<1>14. Trials(q)
  BY <1>1, <1>2, <1>3, <1>4, <1>9 DEF Trials, Trial
<1> QED
  BY <1>6, <1>12, <1>13, <1>14, TurnKeeps DEF q, m

\* The old worker is gone, or killed just now (k is p but for that): the new one is
\* announced and the reload goes on.
LEMMA ReplacedKeeps ==
    ASSUME HasParent, NEW p, NEW d, Tidy(p, d), Balanced(p, d), p.reload.pc = "stopping",
           NEW k, Good(k), AlikeBut(p, k), ChangesOnly(p, k, p.reload.old), k.out = p.out,
           Mapped(k) = Mapped(p), p.reload.old \in Mapped(p) => k.workers[p.reload.old].killed
    PROVE  Tidy(Replaced(k), d) /\ Balanced(Replaced(k), d)
<1> DEFINE r == p.reload
           ms == Announcement(r)
           m == SendAll(k, ms)
           results == Append(r.results, [slot |-> r.slot, ok |-> TRUE])
<1>1. /\ Good(p) /\ (~d.stops => \A u \in Mapped(p) : Doomed(p, d, u)) /\ Trials(p)
      /\ p.out \in Seq(Message)
  BY DEF Tidy
<1>2. /\ r # NoReload /\ r \in ReloadState /\ p.isReloading
      /\ r.old \in Ids(p) /\ r.new \in Ids(p) /\ r.old # r.new /\ r.slot \in Slot /\ r.new \in Nat
      /\ p.workers[r.old].slot = r.slot /\ r.queue \subseteq Ids(p) /\ r.results \in Seq(Result)
  BY <1>1 DEF Good, Shape, NoReload, Linked, Replaces, ReloadState
<1>3. p.restarts = {}
  BY <1>2, OneAtATime
<1>4. r.new \notin p.candidates /\ ~p.workers[r.new].killed
  BY <1>1, <1>2 DEF Trials, Trial
<1>5. /\ IsRecord(m) /\ Alike(k, m) /\ m.out = k.out \o ms
  BY SaysFields DEF Good, Shape
<1>6. /\ ms \in Seq(Message) /\ DOMAIN ms = {1, 2}
      /\ ms[1] = [type |-> "online", slot |-> r.slot, pid |-> r.new]
      /\ ms[2] = [type |-> "listening", slot |-> r.slot]
  BY <1>2, AnnouncementTypes
<1> HIDE DEF ms, m, results
<1>7. /\ m.restarts = {} /\ m.reload = r /\ m.isShuttingDown = p.isShuttingDown
      /\ m.isReloading = p.isReloading /\ m.candidates = p.candidates /\ m.out = p.out \o ms
      /\ m.workers = k.workers /\ m.freeSlots = k.freeSlots
  BY <1>3, <1>5 DEF Alike, AlikeBut
<1>8. /\ Ids(m) = Ids(p) /\ Mapped(m) = Mapped(p) /\ Mapped(p) \subseteq Ids(p)
      /\ \A u \in Ids(p) : u # r.old => m.workers[u] = p.workers[u]
      /\ \A u \in Ids(p) : m.workers[u].slot = p.workers[u].slot
      /\ r.old \in Mapped(p) => m.workers[r.old].killed
  BY <1>7 DEF ChangesOnly, Ids, Mapped
<1>9. Good(m)
  <2>1. Shape(m)
    BY <1>5 DEF Good, Shape, Alike, AlikeBut, Ids
  <2> QED
    BY <1>5, <2>1, QuietIsFine DEF Alike, AlikeBut, Fine
<1>10. /\ \A n \in DOMAIN ms : ms[n].type \in {"online", "listening"}
       /\ \A n \in DOMAIN ms : ms[n].type = "online" => ms[n].pid = r.new
       /\ OnlineAt(ms, 1, r.slot) /\ 1 \in DOMAIN ms
  BY <1>6 DEF OnlineAt
<1>11. ~d.stops => \A u \in Mapped(p) : ~(m.workers[u].left /\ ~m.workers[u].killed)
  BY <1>1, <1>3, <1>8 DEF Doomed
<1>12. Tidy(m, d) /\ Balanced(m, d)
  <2>1. ASSUME ~d.stops, NEW u \in Mapped(m), m.workers[u].killed
        PROVE  /\ u \in Ids(p) /\ u # r.new
               /\ p.workers[u].killed \/ \E n \in DOMAIN ms : OnlineAt(ms, n, m.workers[u].slot)
    <3>1. u \in Ids(p) /\ u # r.new
      BY <1>2, <1>4, <1>8, <2>1
    <3>2. CASE u = r.old
      BY <1>2, <1>8, <1>10, <3>1, <3>2
    <3>3. CASE u # r.old
      BY <1>8, <2>1, <3>1, <3>3
    <3> QED
      BY <3>1, <3>2, <3>3
  <2>2. Moves(p, d, m, ms, d.stops)
    <3>1. \A n \in DOMAIN ms : ms[n].type # "exit"
      BY <1>10
    <3> QED
      BY <1>2, <1>4, <1>6, <1>7, <1>8, <1>10, <1>11, <2>1, <3>1 DEF Moves
  <2>3. Continues(p, m, ms)
    <3>1. \A n \in DOMAIN ms : ms[n].type # "complete" /\ ms[n].type # "failed"
      BY <1>10
    <3> QED
      BY <1>7, <3>1 DEF Continues
  <2>4. Trials(m)
    BY <1>1, <1>2, <1>4, <1>7, <1>8 DEF Trials, Trial
  <2> QED
    BY <1>9, <2>2, <2>3, <2>4, TurnKeeps
<1>13. results \in Seq(Result) /\ r.queue \in SUBSET Ids(m)
  BY <1>2, <1>8 DEF Result, results
<1>14. /\ Good(NextSlot(m, r.queue, results))
       /\ \/ Attempts(m, NextSlot(m, r.queue, results))
          \/ Finishes(m, NextSlot(m, r.queue, results))
  <2>1. m.reload.pc \notin {"waiting", "settling"} /\ m.isReloading
    BY <1>2, <1>7
  <2>2. Fine(m, NextSlot(m, r.queue, results))
    BY <1>9, <1>13, <2>1, NextSlotIsFine
  <2> QED
    BY <1>9, <1>13, <2>2, NextSlotMore DEF Fine
<1>15. Replaced(k) = NextSlot(m, r.queue, results)
  BY DEF Replaced, AlikeBut, m, ms, results
<1>16. m.isReloading /\ (~d.stops => \A u \in Mapped(m) : ~(m.workers[u].left /\ ~m.workers[u].killed))
  BY <1>2, <1>7, <1>8, <1>11
<1> QED
  BY <1>12, <1>14, <1>15, <1>16, GoesOn
----------------------------------------------------------------------------
(* The turns of a restart. *)

\* The only restart there is, and no reload.
LEMMA TheRestart ==
    ASSUME NEW p, NEW d, Tidy(p, d), NEW r \in p.restarts
    PROVE  /\ Good(p) /\ (~d.stops => \A u \in Mapped(p) : Doomed(p, d, u)) /\ Trial(p, r)
           /\ Secrets(p, d) /\ p.out \in Seq(Message)
           /\ p.restarts = {r} /\ r \in RestartState /\ p.reload = NoReload /\ ~p.isReloading
           /\ p.reload.pc = "idle" /\ Shape(p) /\ IsRecord(p)
           /\ r.old \in Ids(p) /\ r.new \in Ids(p) /\ r.old # r.new /\ r.old \in Nat
           /\ r.slot \in Slot /\ r.new \in Nat /\ p.workers[r.old].slot = r.slot
<1>1. /\ Good(p) /\ (~d.stops => \A u \in Mapped(p) : Doomed(p, d, u)) /\ Trials(p)
      /\ Secrets(p, d) /\ p.out \in Seq(Message)
  BY DEF Tidy
<1>2. p.restarts = {r} /\ p.reload = NoReload /\ ~p.isReloading
  BY OneAtATime
<1>3. /\ r \in RestartState /\ r.old \in Ids(p) /\ r.new \in Ids(p) /\ r.old < r.new
      /\ p.workers[r.old].slot = r.slot /\ Shape(p) /\ IsRecord(p)
  BY <1>1 DEF Good, Shape, Linked, Replaces
<1>4. r.slot \in Slot /\ r.new \in Nat /\ r.old \in Nat /\ r.old # r.new
  BY <1>3 DEF RestartState
<1>5. p.reload.pc = "idle" /\ Trial(p, r)
  BY <1>1, <1>2 DEF NoReload, Trials
<1> QED
  BY <1>1, <1>2, <1>3, <1>4, <1>5

\* The restart r is left in its next state, or is over.
RestartMovesOn(p, q, r, ms) ==
    /\ ms \in Seq(Message) /\ q.out = p.out \o ms
    /\ Ids(q) = Ids(p) /\ Mapped(q) = Mapped(p) /\ q.candidates \subseteq p.candidates
    /\ \A u \in Ids(p) : q.workers[u].slot = p.workers[u].slot
    /\ \A u \in Mapped(p) :
          /\ q.workers[u].killed =>
               \/ p.workers[u].killed /\ u # r.new
               \/ u = r.new /\ u \in p.candidates /\ \A n \in DOMAIN ms : ms[n].type # "online"
               \/ u = r.old /\ \E n \in DOMAIN ms : OnlineAt(ms, n, r.slot)
          /\ q.workers[u].left /\ ~q.workers[u].killed =>
               \/ p.workers[u].left /\ ~p.workers[u].killed /\ (u # r.old \/ r.pc # "stopping")
               \/ u = r.old /\ \E a \in q.restarts : a.pc = "stopping" /\ a.old = u
    /\ q.reload = p.reload /\ q.isReloading = p.isReloading
    /\ q.isShuttingDown = p.isShuttingDown
    /\ \/ q.restarts = {}
       \/ \E a : q.restarts = {a} /\ a.slot = r.slot /\ Trial(q, a)
    /\ \A n \in DOMAIN ms :
          \/ ms[n].type = "online" /\ ms[n].pid = r.new /\ r.new \notin q.candidates
          \/ ms[n].type = "listening"
          \/ ms[n].type = "failed" /\ ms[n].slot = r.slot /\ q.restarts = {}

LEMMA RestartGoesOn ==
    ASSUME NEW p, NEW d, Tidy(p, d), Balanced(p, d), NEW r \in p.restarts, NEW q, Good(q),
           NEW ms, RestartMovesOn(p, q, r, ms)
    PROVE  Tidy(q, d) /\ Balanced(q, d)
<1>1. /\ (~d.stops => \A u \in Mapped(p) : Doomed(p, d, u)) /\ Secrets(p, d)
      /\ p.restarts = {r} /\ p.reload = NoReload /\ p.reload.pc = "idle"
      /\ r.old \in Ids(p) /\ r.new \in Ids(p) /\ r.old # r.new /\ p.workers[r.old].slot = r.slot
  BY TheRestart
<1>2. /\ \A n \in DOMAIN ms : ms[n].type \notin {"exit", "complete"}
      /\ \A n \in DOMAIN ms : ms[n].type = "online" => ms[n].pid = r.new /\ r.new \notin q.candidates
      /\ \A n \in DOMAIN ms : ms[n].type = "failed" => ms[n].slot = r.slot /\ q.restarts = {}
  BY DEF RestartMovesOn
<1>3. Mapped(p) \subseteq Ids(p)
  BY DEF Mapped
<1>4. ~d.stops => \A u \in Mapped(p) : p.workers[u].left /\ ~p.workers[u].killed
                     => u = r.old /\ r.pc = "stopping"
  BY <1>1 DEF Doomed
<1>5. ASSUME ~d.stops, NEW u \in Mapped(q)
      PROVE  /\ q.workers[u].killed =>
                  /\ u \in Ids(p)
                  /\ \A n \in DOMAIN ms : ms[n].type = "online" => ms[n].pid # u
                  /\ \/ p.workers[u].killed
                     \/ Secret(p, d, u)
                     \/ \E n \in DOMAIN ms : OnlineAt(ms, n, q.workers[u].slot)
             /\ q.workers[u].left /\ ~q.workers[u].killed =>
                  \E a \in q.restarts : a.pc = "stopping" /\ a.old = u
  <2>1. u \in Mapped(p) /\ u \in Ids(p) /\ q.workers[u].slot = p.workers[u].slot
    BY <1>3 DEF RestartMovesOn
  <2>2. q.workers[u].left /\ ~q.workers[u].killed =>
            \E a \in q.restarts : a.pc = "stopping" /\ a.old = u
    BY <1>4, <1>5, <2>1 DEF RestartMovesOn
  <2>3. ASSUME q.workers[u].killed
        PROVE  /\ \A n \in DOMAIN ms : ms[n].type = "online" => ms[n].pid # u
               /\ \/ p.workers[u].killed
                  \/ Secret(p, d, u)
                  \/ \E n \in DOMAIN ms : OnlineAt(ms, n, q.workers[u].slot)
    <3>1. CASE p.workers[u].killed /\ u # r.new
      BY <1>2, <3>1
    <3>2. CASE u = r.new /\ u \in p.candidates /\ \A n \in DOMAIN ms : ms[n].type # "online"
      BY <1>1, <3>2 DEF Secrets
    <3>3. CASE u = r.old /\ \E n \in DOMAIN ms : OnlineAt(ms, n, r.slot)
      BY <1>1, <1>2, <2>1, <3>3
    <3> QED
      BY <2>1, <2>3, <3>1, <3>2, <3>3 DEF RestartMovesOn
  <2> QED
    BY <2>1, <2>2, <2>3
<1>6. Moves(p, d, q, ms, d.stops)
  <2>1. /\ ms \in Seq(Message) /\ q.out = p.out \o ms /\ q.reload = p.reload
        /\ Ids(q) = Ids(p) /\ Mapped(q) = Mapped(p) /\ q.candidates \subseteq p.candidates
        /\ \A u \in Ids(p) : q.workers[u].slot = p.workers[u].slot
    BY DEF RestartMovesOn
  <2> QED
    BY <1>1, <1>2, <1>3, <1>5, <2>1 DEF Moves
<1>7. Continues(p, q, ms)
  <2>1. /\ q.isReloading = p.isReloading /\ q.isShuttingDown = p.isShuttingDown
        /\ \/ q.restarts = {}
           \/ \E a : q.restarts = {a} /\ a.slot = r.slot
    BY DEF RestartMovesOn
  <2> QED
    BY <1>1, <1>2, <2>1 DEF Continues
<1>8. Trials(q)
  BY <1>1 DEF Trials, RestartMovesOn
<1> QED
  BY <1>6, <1>7, <1>8, TurnKeeps

LEMMA RestartReadyKeeps ==
    ASSUME NEW p, NEW d, Tidy(p, d), Balanced(p, d), NEW r \in p.restarts, r.pc = "waiting",
           p.workers[r.new].ready
    PROVE  LET q == RestartMoves(p, r, "settling") IN Tidy(q, d) /\ Balanced(q, d)
<1> DEFINE a == [r EXCEPT !.pc = "settling"]
           q == RestartMoves(p, r, "settling")
<1>1. /\ Good(p) /\ p.restarts = {r} /\ Trial(p, r) /\ IsRecord(p)
  BY TheRestart
<1>2. /\ a \in RestartState /\ a.pc = "settling" /\ a.old = r.old /\ a.new = r.new
      /\ a.slot = r.slot
      /\ IsRecord(q) /\ q.restarts = (p.restarts \ {r}) \cup {a}
      /\ q.workers = p.workers /\ q.freeSlots = p.freeSlots /\ q.reload = p.reload
      /\ q.isShuttingDown = p.isShuttingDown /\ q.isReloading = p.isReloading
      /\ q.candidates = p.candidates /\ q.stopping = p.stopping /\ q.exited = p.exited
  BY <1>1, MovesFields
<1>3. q.out = p.out
  BY <1>1 DEF RestartMoves, IsRecord
<1>4. Good(q)
  BY <1>1, RestartReadyIsFine DEF Fine
<1> HIDE DEF a, q
<1>5. q.restarts = {a} /\ Ids(q) = Ids(p) /\ Mapped(q) = Mapped(p)
  BY <1>1, <1>2 DEF Ids, Mapped
<1>6. Trial(q, a)
  BY <1>1, <1>2, <1>5 DEF Trial
<1>7. \A u \in Mapped(p) :
         /\ p.workers[u].killed => u # r.new
         /\ p.workers[u].left /\ ~p.workers[u].killed /\ ~d.stops => FALSE
  BY <1>1, TheRestart DEF Trial, Doomed
<1>8. <<>> \in Seq(Message) /\ DOMAIN <<>> = {} /\ q.out = p.out \o <<>>
  BY <1>3, NothingSaid
<1>9. Moves(p, d, q, <<>>, d.stops)
  BY <1>2, <1>5, <1>7, <1>8 DEF Moves, Mapped
<1>10. Continues(p, q, <<>>)
  BY <1>1, <1>2, <1>5, <1>8 DEF Continues
<1>11. Trials(q)
  BY <1>1, <1>2, <1>5, <1>6, TheRestart DEF Trials
<1> QED
  BY <1>4, <1>9, <1>10, <1>11, TurnKeeps DEF q

LEMMA RestartRejectedKeeps ==
    ASSUME HasParent, NEW p, NEW d, Tidy(p, d), Balanced(p, d), NEW r \in p.restarts,
           r.pc = "waiting"
    PROVE  Tidy(RestartRejected(p, r), d) /\ Balanced(RestartRejected(p, r), d)
<1> DEFINE k == Kill(p, r.new)
           b == [k EXCEPT !.restarts = @ \ {r}, !.candidates = @ \ {r.new}]
           m == [type |-> "failed", slot |-> r.slot]
           q == RestartRejected(p, r)
<1>1. /\ Good(p) /\ Shape(p) /\ Trial(p, r) /\ p.restarts = {r} /\ r.new \in Ids(p) /\ r.old # r.new
      /\ r.slot \in Slot
  BY TheRestart
<1>2. /\ Shape(k) /\ AlikeBut(p, k) /\ ChangesOnly(p, k, r.new) /\ k.out = p.out
      /\ Mapped(k) = Mapped(p)
  BY <1>1, KillMore
<1>3. Good(q)
  BY <1>1, RestartRejectedIsFine DEF Fine
<1>4. q = SendAll(b, <<m>>)
  BY DEF RestartRejected, Send
<1> HIDE DEF k, q
<1>5. /\ IsRecord(b) /\ b.workers = k.workers /\ b.restarts = k.restarts \ {r}
      /\ b.candidates = k.candidates \ {r.new} /\ b.reload = k.reload /\ b.out = k.out
      /\ b.isShuttingDown = k.isShuttingDown /\ b.isReloading = k.isReloading
  BY <1>2 DEF Shape, IsRecord
<1> HIDE DEF b
<1>6. Alike(b, q) /\ q.out = b.out \o <<m>>
  BY <1>4, <1>5, SaysFields
<1>7. m \in Message /\ m.type = "failed" /\ m.slot = r.slot
  BY <1>1 DEF Message
<1> HIDE DEF m
<1>8. <<m>> \in Seq(Message) /\ DOMAIN <<m>> = {1} /\ <<m>>[1] = m
  BY <1>7, OneSaid
<1>9. /\ q.restarts = {} /\ q.candidates = p.candidates \ {r.new} /\ q.reload = p.reload
      /\ q.isShuttingDown = p.isShuttingDown /\ q.isReloading = p.isReloading
      /\ q.out = p.out \o <<m>> /\ q.workers = k.workers
  BY <1>1, <1>2, <1>5, <1>6 DEF Alike, AlikeBut
<1>10. /\ Ids(q) = Ids(p) /\ Mapped(q) = Mapped(p) /\ Mapped(p) \subseteq Ids(p)
       /\ \A u \in Ids(p) : q.workers[u].slot = p.workers[u].slot
       /\ \A u \in Ids(p) : u # r.new => q.workers[u] = p.workers[u]
       /\ r.new \in Mapped(p) => q.workers[r.new].killed /\ r.new \in p.candidates
  <2>1. r.new \in Mapped(p) => k.workers[r.new].killed
    BY <1>1, KillMore DEF k
  <2> QED
    BY <1>1, <1>2, <1>9, <2>1 DEF Ids, Mapped, ChangesOnly, Trial
<1>11. \A n \in DOMAIN <<m>> : <<m>>[n].type = "failed" /\ <<m>>[n].slot = r.slot
  BY <1>7, <1>8
<1>12. ASSUME NEW u \in Mapped(p)
       PROVE  /\ q.workers[u].killed =>
                   \/ p.workers[u].killed /\ u # r.new
                   \/ u = r.new /\ u \in p.candidates
              /\ q.workers[u].left /\ ~q.workers[u].killed =>
                   p.workers[u].left /\ ~p.workers[u].killed
  BY <1>10
<1> DEFINE ms == <<m>>
<1>13. ms \in Seq(Message) /\ q.out = p.out \o ms
       /\ \A n \in DOMAIN ms : ms[n].type = "failed" /\ ms[n].slot = r.slot
  BY <1>8, <1>9, <1>11
<1> HIDE DEF ms
<1>14. q.candidates \subseteq p.candidates /\ r.pc # "stopping"
       /\ \A n \in DOMAIN ms : ms[n].type # "online"
  BY <1>9, <1>13
<1>15. RestartMovesOn(p, q, r, ms)
  BY <1>9, <1>10, <1>12, <1>13, <1>14 DEF RestartMovesOn
<1>16. Tidy(q, d) /\ Balanced(q, d)
  BY <1>3, <1>15, RestartGoesOn
<1> QED
  BY <1>16 DEF q

LEMMA RestartPromotesKeeps ==
    ASSUME NEW p, NEW d, Tidy(p, d), Balanced(p, d), NEW r \in p.restarts, r.pc = "settling"
    PROVE  LET q == Leave([RestartMoves(p, r, "stopping") EXCEPT !.candidates = @ \ {r.new}], r.old)
           IN Tidy(q, d) /\ Balanced(q, d)
<1> DEFINE a == [r EXCEPT !.pc = "stopping"]
           b == RestartMoves(p, r, "stopping")
           m == [b EXCEPT !.candidates = @ \ {r.new}]
           q == Leave(m, r.old)
<1>1. /\ Good(p) /\ Shape(p) /\ p.restarts = {r} /\ Trial(p, r) /\ IsRecord(p)
      /\ r.old \in Ids(p) /\ r.new \in Ids(p) /\ r.old # r.new
  BY TheRestart
<1>2. /\ a \in RestartState /\ a.pc = "stopping" /\ a.old = r.old /\ a.new = r.new
      /\ a.slot = r.slot
      /\ IsRecord(b) /\ b.restarts = (p.restarts \ {r}) \cup {a}
      /\ b.workers = p.workers /\ b.freeSlots = p.freeSlots /\ b.reload = p.reload
      /\ b.isShuttingDown = p.isShuttingDown /\ b.isReloading = p.isReloading
      /\ b.candidates = p.candidates /\ b.stopping = p.stopping /\ b.exited = p.exited
  BY <1>1, MovesFields
<1>3. b.out = p.out
  BY <1>1 DEF RestartMoves, IsRecord
<1>4. Good(q)
  BY <1>1, RestartPromotesIsFine DEF Fine
<1> HIDE DEF a, b
<1>5. /\ m.workers = p.workers /\ m.restarts = {a} /\ m.out = p.out /\ m.reload = p.reload
      /\ m.isShuttingDown = p.isShuttingDown /\ m.isReloading = p.isReloading
      /\ m.candidates = p.candidates \ {r.new} /\ IsRecord(m) /\ m.freeSlots = p.freeSlots
      /\ m.stopping = p.stopping /\ m.exited = p.exited
  BY <1>1, <1>2, <1>3 DEF IsRecord
<1> HIDE DEF m
<1>6. Shape(m) /\ Ids(m) = Ids(p) /\ Mapped(m) = Mapped(p) /\ Mapped(p) \subseteq Ids(p)
  BY <1>1, <1>2, <1>5 DEF Shape, Ids, Mapped
<1>7. /\ AlikeBut(m, q) /\ ChangesOnly(m, q, r.old) /\ q.out = m.out
      /\ Mapped(q) = Mapped(m) /\ q.workers[r.old].killed = m.workers[r.old].killed
  BY <1>1, <1>6, LeaveMore
<1> HIDE DEF q
<1>8. /\ q.restarts = {a} /\ q.out = p.out /\ q.reload = p.reload
      /\ q.isShuttingDown = p.isShuttingDown
      /\ q.isReloading = p.isReloading /\ q.candidates = p.candidates \ {r.new}
      /\ Ids(q) = Ids(p) /\ Mapped(q) = Mapped(p)
      /\ \A u \in Ids(p) : u # r.old => q.workers[u] = p.workers[u]
      /\ \A u \in Ids(p) : q.workers[u].slot = p.workers[u].slot
      /\ q.workers[r.old].killed = p.workers[r.old].killed
  BY <1>5, <1>6, <1>7 DEF AlikeBut, ChangesOnly
<1>9. ~p.workers[r.new].killed
  BY <1>1 DEF Trial
<1>10. Trial(q, a)
  BY <1>1, <1>2, <1>8, <1>9 DEF Trial
<1>11. ASSUME NEW u \in Mapped(p)
       PROVE  /\ q.workers[u].killed => p.workers[u].killed /\ u # r.new
              /\ q.workers[u].left /\ ~q.workers[u].killed =>
                   \/ p.workers[u].left /\ ~p.workers[u].killed /\ u # r.old
                   \/ u = r.old /\ \E t \in q.restarts : t.pc = "stopping" /\ t.old = u
  BY <1>1, <1>2, <1>6, <1>8, <1>9
<1> DEFINE ms == <<>>
<1>12. ms \in Seq(Message) /\ q.out = p.out \o ms /\ DOMAIN ms = {}
  BY <1>8, NothingSaid
<1> HIDE DEF ms
<1>13. /\ \E t : q.restarts = {t} /\ t.slot = r.slot /\ Trial(q, t)
       /\ q.candidates \subseteq p.candidates
  BY <1>2, <1>8, <1>10
<1>14. RestartMovesOn(p, q, r, ms)
  BY <1>8, <1>11, <1>12, <1>13 DEF RestartMovesOn
<1>15. Tidy(q, d) /\ Balanced(q, d)
  BY <1>4, <1>14, RestartGoesOn
<1> QED
  BY <1>15 DEF q, m, b

\* The restart whose old worker has gone, or was killed just now, is over.
LEMMA RestartDoneKeeps ==
    ASSUME HasParent, NEW p, NEW d, Tidy(p, d), Balanced(p, d), NEW r \in p.restarts,
           r.pc = "stopping",
           NEW k, Good(k), AlikeBut(p, k), ChangesOnly(p, k, r.old), k.out = p.out,
           Mapped(k) = Mapped(p), r.old \in Mapped(p) => k.workers[r.old].killed
    PROVE  /\ Tidy(RestartsDone(k, {r}), d) /\ Balanced(RestartsDone(k, {r}), d)
           /\ RestartsDone(k, {r}).restarts = {} /\ RestartsDone(k, {r}).reload = NoReload
           /\ RestartsDone(k, {r}).out = p.out \o Announcement(r)
<1> DEFINE b == [k EXCEPT !.restarts = @ \ {r}]
           ms == Announcement(r)
           q == RestartsDone(k, {r})
<1>1. /\ Good(p) /\ Shape(p) /\ Trial(p, r) /\ p.restarts = {r} /\ r \in RestartState
      /\ r.old \in Ids(p) /\ r.new \in Ids(p) /\ r.old # r.new
      /\ r.slot \in Slot /\ r.new \in Nat /\ p.workers[r.old].slot = r.slot
  BY TheRestart
<1>2. Good(q)
  BY RestartsDoneIsFine DEF Fine
<1>3. q = SendAll(b, ms)
  BY <1>1, OneAnnounced DEF RestartsDone
<1>4. /\ ms \in Seq(Message) /\ DOMAIN ms = {1, 2}
      /\ ms[1] = [type |-> "online", slot |-> r.slot, pid |-> r.new]
      /\ ms[2] = [type |-> "listening", slot |-> r.slot]
  BY <1>1, AnnouncementTypes
<1> HIDE DEF ms, q
<1>5. /\ IsRecord(b) /\ b.workers = k.workers /\ b.restarts = k.restarts \ {r}
      /\ b.candidates = k.candidates /\ b.reload = k.reload /\ b.out = k.out
      /\ b.isShuttingDown = k.isShuttingDown /\ b.isReloading = k.isReloading
  BY DEF Good, Shape, IsRecord
<1> HIDE DEF b
<1>6. Alike(b, q) /\ q.out = b.out \o ms
  BY <1>3, <1>5, SaysFields
<1>7. /\ q.restarts = {} /\ q.candidates = p.candidates /\ q.reload = p.reload
      /\ q.isShuttingDown = p.isShuttingDown /\ q.isReloading = p.isReloading
      /\ q.out = p.out \o ms /\ q.workers = k.workers
  BY <1>1, <1>5, <1>6 DEF Alike, AlikeBut
<1>8. /\ Ids(q) = Ids(p) /\ Mapped(q) = Mapped(p) /\ Mapped(p) \subseteq Ids(p)
      /\ \A u \in Ids(p) : q.workers[u].slot = p.workers[u].slot
      /\ \A u \in Ids(p) : u # r.old => q.workers[u] = p.workers[u]
      /\ r.old \in Mapped(p) => q.workers[r.old].killed
  BY <1>7 DEF Ids, Mapped, ChangesOnly
<1>9. r.new \notin p.candidates /\ ~p.workers[r.new].killed
  BY <1>1 DEF Trial
<1>10. /\ \A n \in DOMAIN ms : \/ ms[n].type = "online" /\ ms[n].pid = r.new
                               \/ ms[n].type = "listening"
       /\ \E n \in DOMAIN ms : OnlineAt(ms, n, r.slot)
  BY <1>4 DEF OnlineAt
<1>11. ASSUME NEW u \in Mapped(p)
       PROVE  /\ q.workers[u].killed =>
                   \/ p.workers[u].killed /\ u # r.new
                   \/ u = r.old /\ \E n \in DOMAIN ms : OnlineAt(ms, n, r.slot)
              /\ q.workers[u].left /\ ~q.workers[u].killed =>
                   p.workers[u].left /\ ~p.workers[u].killed /\ u # r.old
  BY <1>1, <1>8, <1>9, <1>10
<1>12. RestartMovesOn(p, q, r, ms)
  BY <1>4, <1>7, <1>8, <1>9, <1>10, <1>11 DEF RestartMovesOn
<1>13. Tidy(q, d) /\ Balanced(q, d)
  BY <1>2, <1>12, RestartGoesOn
<1> QED
  BY <1>7, <1>13, TheRestart DEF q, ms
----------------------------------------------------------------------------
(* A worker exits, and wakes who awaited it. *)

\* Nothing that matters here changes.
LEMMA StillKeeps ==
    ASSUME NEW p, NEW d, Tidy(p, d), Balanced(p, d), NEW q, Good(q),
           q.workers = p.workers, q.candidates = p.candidates, q.reload = p.reload,
           q.restarts = p.restarts, q.isShuttingDown = p.isShuttingDown,
           q.isReloading = p.isReloading, q.out = p.out
    PROVE  Tidy(q, d) /\ Balanced(q, d)
<1>1. /\ p.out \in Seq(Message) /\ Trials(p) /\ (~d.stops => \A u \in Mapped(p) : Doomed(p, d, u))
      /\ \A r, t \in p.restarts : r = t
  BY DEF Tidy, RestartOnce
<1>2. Ids(q) = Ids(p) /\ Mapped(q) = Mapped(p) /\ Mapped(p) \subseteq Ids(p)
  BY DEF Ids, Mapped
<1> DEFINE ms == <<>>
<1>3. ms \in Seq(Message) /\ q.out = p.out \o ms /\ DOMAIN ms = {}
  BY NothingSaid
<1> HIDE DEF ms
<1>4. Moves(p, d, q, ms, d.stops)
  BY <1>1, <1>2, <1>3 DEF Moves, Doomed
<1>5. Continues(p, q, ms)
  BY <1>1, <1>3 DEF Continues
<1>6. Trials(q)
  BY <1>1, <1>2 DEF Trials, Trial
<1> QED
  BY <1>4, <1>5, <1>6, TurnKeeps

\* w has gone.
LEMMA WakeReloadKeeps ==
    ASSUME HasParent, NEW p, NEW d, Tidy(p, d), Balanced(p, d), NEW w, w \notin Mapped(p)
    PROVE  Tidy(WakeReload(p, w), d) /\ Balanced(WakeReload(p, w), d)
<1>1. CASE p.reload.pc = "stopping" /\ p.reload.old = w
  <2>1. Good(p) /\ AlikeBut(p, p) /\ ChangesOnly(p, p, w)
    BY DEF Tidy, AlikeBut, ChangesOnly
  <2>2. Tidy(Replaced(p), d) /\ Balanced(Replaced(p), d)
    BY <1>1, <2>1, ReplacedKeeps
  <2> QED
    BY <1>1, <2>2 DEF WakeReload
<1>2. CASE ~(p.reload.pc = "stopping" /\ p.reload.old = w)
  BY <1>2 DEF WakeReload
<1> QED
  BY <1>1, <1>2

LEMMA NothingDone ==
    ASSUME HasParent, NEW p, Good(p)
    PROVE  LET q == RestartsDone(p, {})
           IN Alike(p, q) /\ q.out = p.out \o <<>> /\ Good(q)
<1> DEFINE m == [p EXCEPT !.restarts = @ \ {}]
           q == RestartsDone(p, {})
<1>1. IsRecord(m) /\ Alike(p, m) /\ m.out = p.out
  BY DEF Good, Shape, IsRecord, Alike, AlikeBut
<1>2. q = SendAll(m, <<>>)
  BY NothingAnnounced DEF RestartsDone
<1> HIDE DEF m
<1>3. Alike(m, q) /\ q.out = m.out \o <<>>
  BY <1>1, <1>2, SaysFields
<1>4. Good(q)
  BY RestartsDoneIsFine DEF Fine
<1> HIDE DEF q
<1>5. Alike(p, q) /\ q.out = p.out \o <<>>
  BY <1>1, <1>3 DEF Alike, AlikeBut
<1> QED
  BY <1>4, <1>5 DEF q

LEMMA WakeRestartsKeeps ==
    ASSUME HasParent, NEW p, NEW d, Tidy(p, d), Balanced(p, d), NEW w,
           w \notin Mapped(p) \/ p.restarts = {}
    PROVE  /\ Tidy(WakeRestarts(p, w), d) /\ Balanced(WakeRestarts(p, w), d)
           /\ p.restarts # {} => WakeRestarts(p, w).reload = NoReload
<1> DEFINE R == {r \in p.restarts : r.pc = "stopping" /\ r.old = w}
           q == WakeRestarts(p, w)
<1>0. Good(p) /\ AlikeBut(p, p) /\ p.out \in Seq(Message)
  BY DEF Tidy, AlikeBut
<1>1. q = RestartsDone(p, R)
  BY DEF WakeRestarts
<1>2. CASE R = {}
  <2>1. Alike(p, q) /\ q.out = p.out \o <<>> /\ Good(q)
    BY <1>0, <1>1, <1>2, NothingDone
  <2> HIDE DEF q
  <2>2. q.out = p.out
    BY <2>1, NothingSaid
  <2>3. Tidy(q, d) /\ Balanced(q, d)
    BY <2>1, <2>2, StillKeeps DEF Alike, AlikeBut
  <2>4. p.restarts # {} => q.reload = NoReload
    BY <2>1, OneAtATime DEF Alike, AlikeBut
  <2> QED
    BY <2>3, <2>4 DEF q
<1>3. CASE R # {}
  <2>1. PICK r \in p.restarts : r.pc = "stopping" /\ r.old = w
    BY <1>3
  <2>2. p.restarts = {r} /\ R = {r}
    BY <2>1, TheRestart
  <2>3. ChangesOnly(p, p, r.old) /\ r.old \notin Mapped(p)
    BY <2>1 DEF ChangesOnly
  <2>4. /\ Tidy(RestartsDone(p, {r}), d) /\ Balanced(RestartsDone(p, {r}), d)
        /\ RestartsDone(p, {r}).reload = NoReload
    BY <1>0, <2>1, <2>3, RestartDoneKeeps
  <2> QED
    BY <1>1, <2>2, <2>4
<1> QED
  BY <1>2, <1>3

\* What the exit of w does, and says: nothing if w was a candidate.
ExitSaid(p, w) ==
    IF w \in p.candidates THEN <<>>
    ELSE <<[type |-> "exit", slot |-> p.workers[w].slot, pid |-> w]>>

Departs(p, q, w) ==
    /\ q.out = p.out \o ExitSaid(p, w)
    /\ Ids(p) \subseteq Ids(q) /\ q.candidates = p.candidates \ {w}
    /\ w \notin Mapped(q) /\ Mapped(q) \cap Ids(p) \subseteq Mapped(p)
    /\ q.workers[w].slot = p.workers[w].slot /\ ~q.workers[w].killed
    /\ \A u \in Ids(p) : u # w => q.workers[u] = p.workers[u]
    /\ \A u \in Ids(q) \ Ids(p) : ~q.workers[u].left /\ ~q.workers[u].killed
    /\ q.isShuttingDown = p.isShuttingDown /\ q.isReloading = p.isReloading
    /\ q.reload = p.reload /\ q.restarts = p.restarts

LEMMA ExitedMore ==
    ASSUME HasParent, NEW p, Good(p), p.out \in Seq(Message), NEW w \in Mapped(p)
    PROVE  Good(Exited(p, w)) /\ Departs(p, Exited(p, w), w)
<1> DEFINE s == p.workers[w].slot
           q == Exited(p, w)
<1>1. Good(q)
  BY ExitedKeeps
<1>2. w \in Ids(p) /\ s \in Slot /\ p.workers \in Seq(Worker)
  BY IdsAreNumbers DEF Good, Shape
<1>3. PICK after : ExitedBy(p, w, after)
  BY ExitedFields
<1>4. /\ IsRecord(after) /\ after.candidates = p.candidates \ {w}
      /\ after.workers = [p.workers EXCEPT ![w] = Gone(s)]
      /\ after.isShuttingDown = p.isShuttingDown /\ after.isReloading = p.isReloading
      /\ after.reload = p.reload /\ after.restarts = p.restarts
  BY <1>3 DEF ExitedBy
<1>5. after.out = p.out \o ExitSaid(p, w)
  <2>1. after.out = IF w \in p.candidates THEN p.out
                    ELSE p.out \o <<[type |-> "exit", slot |-> s, pid |-> w]>>
    BY <1>3 DEF ExitedBy
  <2>2. p.out \o <<>> = p.out
    OBVIOUS
  <2> QED
    BY <2>1, <2>2 DEF ExitSaid
<1>6. q = IF RespawnDue(after) THEN Spawn(after, s) ELSE after
  BY <1>3 DEF ExitedBy
<1>7. Gone(s) \in Worker /\ Gone(s).slot = s /\ Gone(s).life = "gone" /\ ~Gone(s).killed
  BY <1>2 DEF Gone, Unready, Worker
<1> HIDE DEF q
<1>8. /\ Ids(after) = Ids(p) /\ after.workers \in Seq(Worker)
      /\ after.workers[w] = Gone(s) /\ \A u \in Ids(p) : u # w => after.workers[u] = p.workers[u]
  BY <1>2, <1>4, <1>7 DEF Ids
<1>9. CASE ~RespawnDue(after)
  <2>1. q = after
    BY <1>6, <1>9
  <2>2. w \notin Mapped(q) /\ Mapped(q) \cap Ids(p) \subseteq Mapped(p)
    BY <1>7, <1>8, <2>1 DEF Mapped
  <2> QED
    BY <1>1, <1>4, <1>5, <1>7, <1>8, <2>1, <2>2 DEF Departs, q
<1>10. CASE RespawnDue(after)
  <2> DEFINE n == Len(after.workers) + 1
  <2>1. /\ q.workers = Append(after.workers, Unready(s)) /\ q.candidates = after.candidates
        /\ q.isShuttingDown = after.isShuttingDown /\ q.isReloading = after.isReloading
        /\ q.reload = after.reload /\ q.restarts = after.restarts /\ q.out = after.out
    BY <1>4, <1>6, <1>10 DEF Spawn, IsRecord
  <2>2. /\ Ids(q) = Ids(p) \cup {n} /\ n \notin Ids(p)
        /\ q.workers[n] = Unready(s) /\ \A u \in Ids(p) : q.workers[u] = after.workers[u]
    BY <1>8, <2>1 DEF Ids
  <2>3. ~Unready(s).left /\ ~Unready(s).killed
    BY DEF Unready
  <2>4. w \notin Mapped(q) /\ Mapped(q) \cap Ids(p) \subseteq Mapped(p)
    BY <1>2, <1>7, <1>8, <2>2 DEF Mapped
  <2> QED
    BY <1>1, <1>2, <1>4, <1>5, <1>7, <1>8, <2>1, <2>2, <2>3, <2>4 DEF Departs, q
<1> QED
  BY <1>9, <1>10

\* The exit is in order, and may have to be counted.
LEMMA DepartureTidy ==
    ASSUME NEW p, NEW d, Tidy(p, d), NEW w \in Mapped(p), NEW q, Good(q), Departs(p, q, w)
    PROVE  /\ Tidy(q, d)
           /\ \A s \in Slot :
                 Due(q, d, s) + Excuse(p.out, d, s) <= Due(p, d, s) + Excuse(q.out, d, s)
           /\ \A s \in Slot : Excuse(q.out, d, s) = Excuse(p.out, d, s)
           /\ \A s \in Slot : Due(q, d, s) = Due(p, d, s)
           /\ \A s : \A u \in Charged(q.out, d.held[s], d.waits, s) :
                 \/ u \in Charged(p.out, d.held[s], d.waits, s)
                 \/ /\ u = w /\ s = p.workers[w].slot
                    /\ Tracked(p.out, d.held[s], End(p), s, w)
                    /\ d.waits => Answered(p.out, End(p))
<1> DEFINE m == [type |-> "exit", slot |-> p.workers[w].slot, pid |-> w]
           ms == ExitSaid(p, w)
           o == p.out
           z == q.out
<1>1. /\ Good(p) /\ o \in Seq(Message) /\ WorldOK(d) /\ d.reloads + d.restarts <= 1
      /\ ReloadOnce(p, d) /\ RestartOnce(p, d) /\ Agreed(p, d)
      /\ Exits(p, d) /\ Onlines(p, d) /\ Secrets(p, d) /\ Trials(p)
      /\ (~d.stops => \A u \in Mapped(p) : Doomed(p, d, u))
  BY DEF Tidy
<1>2. /\ w \in Ids(p) /\ w \in Nat \ {0} /\ p.workers[w].slot \in Slot
  BY <1>1, IdsAreNumbers
<1>3. m \in Message /\ m.type = "exit" /\ m.pid = w /\ m.slot = p.workers[w].slot
  BY <1>2 DEF Message
<1>4. ms = <<>> \/ ms = <<m>>
  BY DEF ExitSaid
<1> HIDE DEF m
<1>5. /\ ms \in Seq(Message)
      /\ \A k \in DOMAIN ms : ms[k] = m
  <2>1. CASE ms = <<>>
    BY <2>1
  <2>2. CASE ms = <<m>>
    <3>1. <<m>> \in Seq(Message) /\ DOMAIN <<m>> = {1} /\ <<m>>[1] = m
      BY <1>3, OneSaid
    <3> QED
      BY <2>2, <3>1
  <2> QED
    BY <1>4, <2>1, <2>2
<1>6. /\ z = o \o ms
      /\ Ids(p) \subseteq Ids(q) /\ q.candidates = p.candidates \ {w}
      /\ w \notin Mapped(q) /\ Mapped(q) \cap Ids(p) \subseteq Mapped(p)
      /\ q.workers[w].slot = p.workers[w].slot /\ ~q.workers[w].killed
      /\ \A u \in Ids(p) : u # w => q.workers[u] = p.workers[u]
      /\ \A u \in Ids(q) \ Ids(p) : ~q.workers[u].left /\ ~q.workers[u].killed
      /\ q.isShuttingDown = p.isShuttingDown /\ q.isReloading = p.isReloading
      /\ q.reload = p.reload /\ q.restarts = p.restarts
  BY DEF Departs
<1>7. \A k \in DOMAIN ms : ms[k].type \notin {"online", "failed", "complete"}
  BY <1>3, <1>5
<1>8. Continues(p, q, ms)
  BY <1>1, <1>6, <1>7 DEF Continues, RestartOnce
<1>9. /\ ReloadOnce(q, d) /\ RestartOnce(q, d) /\ Agreed(q, d)
      /\ \A s \in Slot :
            Due(q, d, s) + Excuse(p.out, d, s) <= Due(p, d, s) + Excuse(q.out, d, s)
  BY <1>5, <1>6, <1>8, ContinuesOnce
<1> HIDE DEF ms
<1>10. /\ z \in Seq(Message) /\ DOMAIN o = 1..Len(o) /\ DOMAIN z = 1..Len(z)
       /\ Len(o) \in Nat /\ Len(z) \in Nat /\ Len(z) = Len(o) + Len(ms)
       /\ \A n \in DOMAIN o : n \in DOMAIN z /\ z[n] = o[n]
       /\ \A n \in DOMAIN z : n \in DOMAIN o \/ (z[n] = m /\ n = Len(o) + 1)
  <2>1. /\ z \in Seq(Message) /\ DOMAIN o = 1..Len(o) /\ DOMAIN z = 1..Len(z)
        /\ Len(o) \in Nat /\ Len(z) \in Nat /\ Len(z) = Len(o) + Len(ms)
        /\ \A n \in DOMAIN o : n \in DOMAIN z /\ z[n] = o[n]
        /\ \A n \in DOMAIN z : n > Len(o) => n - Len(o) \in DOMAIN ms /\ z[n] = ms[n - Len(o)]
    BY <1>1, <1>5, <1>6, Concatenated
  <2>2. Len(ms) \in {0, 1}
    BY <1>4 DEF ms
  <2>3. \A n \in DOMAIN z : n > Len(o) => n = Len(o) + 1
    BY <2>1, <2>2
  <2>4. \A n \in DOMAIN z : n \notin DOMAIN o => n > Len(o)
    BY <2>1
  <2> QED
    BY <1>5, <2>1, <2>3, <2>4
<1>11. Exits(q, d)
  <2>1. \A n \in DOMAIN o : o[n].type = "exit" =>
           o[n].pid \in Ids(q) \ Mapped(q) /\ o[n].pid # w
    BY <1>1, <1>6 DEF Exits
  <2>2. \A n \in DOMAIN z : z[n].type = "exit" => z[n].pid \in Ids(q) \ Mapped(q)
    BY <1>2, <1>3, <1>6, <1>10, <2>1
  <2>3. ASSUME NEW k \in DOMAIN z, NEW n \in DOMAIN z, z[k].type = "exit", z[n].type = "exit",
               z[k].pid = z[n].pid
        PROVE  k = n
    <3>1. CASE k \in DOMAIN o /\ n \in DOMAIN o
      BY <1>1, <1>10, <2>3, <3>1 DEF Exits
    <3>2. CASE ~(k \in DOMAIN o /\ n \in DOMAIN o)
      BY <1>3, <1>10, <2>1, <2>3, <3>2
    <3> QED
      BY <3>1, <3>2
  <2> QED
    BY <2>2, <2>3 DEF Exits
<1>12. \A n \in DOMAIN z : z[n].type = "online" => n \in DOMAIN o /\ z[n] = o[n]
  BY <1>3, <1>10
<1>13. Onlines(q, d) /\ Secrets(q, d)
  BY <1>1, <1>6, <1>12 DEF Onlines, Secrets, Secret
<1>14. Trials(q)
  <2>1. \A r : r.new \in Ids(p) /\ Trial(p, r) => Trial(q, r)
    BY <1>6 DEF Trial
  <2>2. /\ \A r \in p.restarts : r.new \in Ids(p)
        /\ p.reload # NoReload => p.reload.new \in Ids(p)
    BY <1>1 DEF Good, Linked, Replaces
  <2> QED
    BY <1>1, <1>6, <2>1, <2>2 DEF Trials
<1>15. ASSUME ~d.stops, NEW u \in Mapped(q)
       PROVE  Doomed(q, d, u)
  <2>1. CASE u \in Ids(p)
    <3>1. u \in Mapped(p) /\ u # w /\ q.workers[u] = p.workers[u] /\ Doomed(p, d, u)
      BY <1>1, <1>6, <1>15, <2>1
    <3> DEFINE s == p.workers[u].slot
               h == d.held[s]
    <3>2. ASSUME Tracked(z, h, Len(z) + 1, s, u)
          PROVE  Tracked(o, h, Len(o) + 1, s, u)
      <4> HIDE DEF h, s, o, z
      <4>1. \/ \E k \in DOMAIN ms : OnlineAt(ms, k, s) /\ ms[k].pid = u
            \/ Tracked(o, h, Len(o) + 1, s, u)
        BY <1>1, <1>5, <1>6, <3>2, TrackedAfter, ZenonT(30)
      <4> QED
        BY <1>7, <4>1 DEF OnlineAt, ms
    <3> QED
      BY <1>6, <3>1, <3>2 DEF Doomed, End
  <2>2. CASE u \notin Ids(p)
    BY <1>6, <1>15, <2>2 DEF Doomed, Mapped
  <2> QED
    BY <2>1, <2>2
<1>16. Tidy(q, d)
  BY <1>1, <1>9, <1>10, <1>11, <1>13, <1>14, <1>15 DEF Tidy
<1>17. \A s : FailedIn(z, s) <=> FailedIn(o, s)
  BY <1>3, <1>10 DEF FailedIn
<1>18. \A s \in Slot : Excuse(q.out, d, s) = Excuse(p.out, d, s) /\ Due(q, d, s) = Due(p, d, s)
  BY <1>6, <1>17 DEF Excuse, Due, RestartOpen
<1>19. ASSUME NEW s, NEW u \in Charged(z, d.held[s], d.waits, s)
       PROVE  \/ u \in Charged(o, d.held[s], d.waits, s)
              \/ /\ u = w /\ s = p.workers[w].slot
                 /\ Tracked(o, d.held[s], Len(o) + 1, s, w)
                 /\ d.waits => Answered(o, Len(o) + 1)
  <2>1. CASE ms = <<>>
    <3>1. z = o
      BY <1>1, <1>6, <2>1
    <3> QED
      BY <1>19, <3>1
  <2>2. CASE ms = <<m>>
    <3>1. z = o \o <<m>>
      BY <1>6, <2>2
    <3> DEFINE h == d.held[s]
    <3> HIDE DEF h, o, z
    <3>2. \A v \in Charged(z, h, d.waits, s) :
              \/ v \in Charged(o, h, d.waits, s)
              \/ /\ v = m.pid /\ s = m.slot /\ Tracked(o, h, Len(o) + 1, s, v)
                 /\ d.waits => Answered(o, Len(o) + 1)
      <4>1. o \in Seq(Message)
        BY <1>1 DEF o
      <4>2. \A e, f, t : \A v \in Charged(o \o <<m>>, e, f, t) :
              \/ v \in Charged(o, e, f, t)
              \/ /\ v = m.pid /\ t = m.slot /\ Tracked(o, e, Len(o) + 1, t, v)
                 /\ f => Answered(o, Len(o) + 1)
        BY ONLY <1>3, <4>1, ExitAppended
      <4> QED
        BY ONLY <3>1, <4>2
    <3> QED
      BY <1>3, <1>19, <3>2 DEF h
  <2> QED
    BY <1>4, <2>1, <2>2 DEF ms
<1> QED
  BY <1>9, <1>16, <1>18, <1>19 DEF End

\* e is d after one more worker of slot s has died unasked.
Struck(d, e, s) ==
    /\ WorldOK(e) /\ e.held = d.held /\ e.waits = d.waits /\ e.excused = d.excused
    /\ e.stops = d.stops /\ e.counted = d.counted /\ e.asked = d.asked
    /\ e.reloads = d.reloads /\ e.restarts = d.restarts
    /\ e.died = [d.died EXCEPT ![s] = @ + 1]

LEMMA StruckSame ==
    ASSUME NEW d, NEW e, NEW t, Struck(d, e, t)
    PROVE  /\ \A p : Tidy(p, d) => Tidy(p, e)
           /\ \A p : Tidy(p, e) /\ WorldOK(d) => Tidy(p, d)
           /\ \A p, s : Due(p, e, s) = Due(p, d, s)
           /\ \A out, s : Excuse(out, e, s) = Excuse(out, d, s)
<1>1. /\ WorldOK(e) /\ e.held = d.held /\ e.waits = d.waits /\ e.excused = d.excused
      /\ e.stops = d.stops /\ e.asked = d.asked
      /\ e.reloads = d.reloads /\ e.restarts = d.restarts
  BY DEF Struck
<1>2. \A type : Wanted(e, type) = Wanted(d, type)
  BY <1>1 DEF Wanted
<1>3. \A p, s : RestartOpen(p, e, s) <=> RestartOpen(p, d, s)
  BY <1>1, <1>2 DEF RestartOpen
<1>4. ASSUME NEW p, Tidy(p, d) PROVE Tidy(p, e)
  <2>1. ReloadOnce(p, e) /\ RestartOnce(p, e) /\ Agreed(p, e)
    BY <1>1, <1>2, <1>4 DEF Tidy, ReloadOnce, RestartOnce, Agreed
  <2>2. Exits(p, e) /\ Onlines(p, e) /\ Secrets(p, e)
    BY <1>1, <1>4 DEF Tidy, Exits, Onlines, Secrets, Secret
  <2>3. ~e.stops => \A w \in Mapped(p) : Doomed(p, e, w)
    BY <1>1, <1>4 DEF Tidy, Doomed
  <2> QED
    BY <1>1, <1>4, <2>1, <2>2, <2>3 DEF Tidy
<1>5. ASSUME NEW p, Tidy(p, e), WorldOK(d) PROVE Tidy(p, d)
  <2>1. ReloadOnce(p, d) /\ RestartOnce(p, d) /\ Agreed(p, d)
    BY <1>1, <1>2, <1>5 DEF Tidy, ReloadOnce, RestartOnce, Agreed
  <2>2. Exits(p, d) /\ Onlines(p, d) /\ Secrets(p, d)
    BY <1>1, <1>5 DEF Tidy, Exits, Onlines, Secrets, Secret
  <2>3. ~d.stops => \A w \in Mapped(p) : Doomed(p, d, w)
    BY <1>1, <1>5 DEF Tidy, Doomed
  <2> QED
    BY <1>1, <1>5, <2>1, <2>2, <2>3 DEF Tidy
<1> QED
  BY <1>1, <1>3, <1>4, <1>5 DEF Due, Excuse

\* One that died unasked may be counted.
LEMMA DepartureCounted ==
    ASSUME NEW p, NEW d, Tidy(p, d), Balanced(p, d), NEW w \in Mapped(p), NEW q, Good(q),
           Departs(p, q, w), NEW e, Struck(d, e, p.workers[w].slot)
    PROVE  Tidy(q, e) /\ Balanced(q, e)
<1>1. /\ Tidy(q, d)
      /\ \A s \in Slot : Excuse(q.out, d, s) = Excuse(p.out, d, s)
      /\ \A s \in Slot : Due(q, d, s) = Due(p, d, s)
      /\ \A s : \A u \in Charged(q.out, d.held[s], d.waits, s) :
            \/ u \in Charged(p.out, d.held[s], d.waits, s)
            \/ u = w /\ s = p.workers[w].slot
  BY DepartureTidy
<1>2. Tidy(q, e)
  BY <1>1, StruckSame
<1> SUFFICES ASSUME NEW s \in Slot PROVE Covered(q, e, s)
  BY <1>2 DEF Balanced
<1> DEFINE C == Charged(p.out, d.held[s], d.waits, s)
           D == Charged(q.out, d.held[s], d.waits, s)
           x == Excuse(p.out, d, s)
           a == Due(p, d, s)
           n == d.counted[s]
           died == d.died[s]
<1>3. /\ e.held = d.held /\ e.waits = d.waits /\ e.stops = d.stops /\ e.counted = d.counted
      /\ e.died[s] = IF s = p.workers[w].slot THEN died + 1 ELSE died
      /\ died \in Nat /\ n \in Nat
  BY DEF Struck, Tidy, WorldOK
<1>4. /\ IsFiniteSet(C) /\ Cardinality(C) \in Nat /\ IsFiniteSet(D) /\ Cardinality(D) \in Nat
  BY <1>1, ChargedAreFew
<1>5. Cardinality(D) <= Cardinality(C) + (IF s = p.workers[w].slot THEN 1 ELSE 0)
  <2>1. CASE s = p.workers[w].slot
    <3>1. D \in SUBSET (C \cup {w})
      BY <1>1
    <3> HIDE DEF C, D
    <3>2. IsFiniteSet(C \cup {w}) /\ Cardinality(C \cup {w}) <= Cardinality(C) + 1
      <4>1. /\ IsFiniteSet(C \cup {w})
            /\ Cardinality(C \cup {w}) \in {Cardinality(C), Cardinality(C) + 1}
        BY <1>4, FS_AddElement, Zenon
      <4> QED
        BY <1>4, <4>1
    <3>3. Cardinality(D) <= Cardinality(C \cup {w}) /\ Cardinality(C \cup {w}) \in Nat
      BY <3>1, <3>2, FS_Subset, FS_CardinalityType
    <3> QED
      BY <1>4, <2>1, <3>2, <3>3
  <2>2. CASE s # p.workers[w].slot
    <3>1. D \in SUBSET C
      BY <1>1, <2>2
    <3>2. Cardinality(D) <= Cardinality(C)
      BY <1>4, <3>1, FS_Subset
    <3> HIDE DEF C, D
    <3> QED
      BY <1>4, <2>2, <3>2
  <2> QED
    BY <2>1, <2>2
<1>6. a \in {0, 1} /\ x \in {0, 1}
  BY DEF Due, Excuse
<1>7. n <= died /\ (~d.stops => n + Cardinality(C) + a <= died + x)
  BY DEF Balanced, Covered
<1>8. Due(q, e, s) = a /\ Excuse(q.out, e, s) = x
  BY <1>1, StruckSame
<1>9. e.counted[s] = n /\ Charged(q.out, e.held[s], e.waits, s) = D
  BY <1>3
<1> HIDE DEF C, D, a, x, n, died
<1>10. e.counted[s] <= e.died[s]
  BY <1>3, <1>7, <1>9
<1>11. ~e.stops => e.counted[s] + Cardinality(D) + a <= e.died[s] + x
  BY <1>3, <1>4, <1>5, <1>6, <1>7, <1>9
<1> QED
  BY <1>8, <1>9, <1>10, <1>11 DEF Covered

\* That of a worker killed, or awaited by reload(), is not.
LEMMA DepartureUncounted ==
    ASSUME NEW p, NEW d, Tidy(p, d), Balanced(p, d), NEW w \in Mapped(p), NEW q, Good(q),
           Departs(p, q, w), p.workers[w].left \/ p.workers[w].killed,
           d.stops \/ ~\E r \in p.restarts : r.pc = "stopping" /\ r.old = w
    PROVE  Tidy(q, d) /\ Balanced(q, d)
<1>1. /\ Tidy(q, d)
      /\ \A s \in Slot : Excuse(q.out, d, s) = Excuse(p.out, d, s) /\ Due(q, d, s) = Due(p, d, s)
      /\ \A s : \A u \in Charged(q.out, d.held[s], d.waits, s) :
            \/ u \in Charged(p.out, d.held[s], d.waits, s)
            \/ /\ u = w /\ s = p.workers[w].slot
               /\ Tracked(p.out, d.held[s], End(p), s, w)
               /\ d.waits => Answered(p.out, End(p))
  BY DepartureTidy
<1>2. CASE d.stops
  BY <1>1, <1>2 DEF Balanced, Covered
<1>3. CASE ~d.stops
  <2>1. Doomed(p, d, w) /\ Good(p)
    BY <1>3 DEF Tidy
  <2>2. p.reload.pc = "stopping" => d.waits /\ ~Answered(p.out, End(p))
    <3>1. p.reload.pc = "stopping" => p.isReloading
      BY <2>1 DEF Good, Linked, NoReload
    <3> QED
      BY <3>1, OneAtATime
  <2>3. \A s \in Slot : Charged(q.out, d.held[s], d.waits, s)
                           \subseteq Charged(p.out, d.held[s], d.waits, s)
    BY <1>1, <1>3, <2>1, <2>2 DEF Doomed
  <2>4. \A s \in Slot : d.counted[s] <= d.died[s] /\ d.died[s] \in Nat
    BY DEF Balanced, Covered, Tidy, WorldOK
  <2>5. \A s \in Slot : Due(q, d, s) + Excuse(p.out, d, s) + d.died[s]
                           <= Due(p, d, s) + Excuse(q.out, d, s) + d.died[s]
    <3>1. \A s \in Slot : Due(p, d, s) \in {0, 1} /\ Excuse(p.out, d, s) \in {0, 1}
      BY DEF Due, Excuse
    <3> QED
      BY <1>1, <2>4, <3>1
  <2> QED
    BY <1>1, <2>3, <2>4, <2>5, BalanceMoves
<1> QED
  BY <1>2, <1>3

LEMMA ShutdownWakes ==
    ASSUME NEW p, NEW d, Tidy(p, d), Balanced(p, d), NEW w
    PROVE  Tidy(WakeShutdown(p, w), d) /\ Balanced(WakeShutdown(p, w), d)
<1> DEFINE q == WakeShutdown(p, w)
<1>1. Good(p)
  BY DEF Tidy
<1>2. Good(q)
  BY <1>1, WakesAreFine DEF Fine
<1>3. /\ q.workers = p.workers /\ q.candidates = p.candidates /\ q.reload = p.reload
      /\ q.restarts = p.restarts /\ q.isShuttingDown = p.isShuttingDown
      /\ q.isReloading = p.isReloading /\ q.out = p.out
  BY <1>1 DEF WakeShutdown, Good, Shape, IsRecord
<1> HIDE DEF q
<1>4. Tidy(q, d) /\ Balanced(q, d)
  BY <1>2, <1>3, StillKeeps
<1> QED
  BY <1>4 DEF q

\* p has just handled the exit of w, which wakes the coroutines in some order.
Woken(p, w) ==
    {WakeShutdown(IF reloadFirst THEN WakeRestarts(WakeReload(p, w), w)
                                 ELSE WakeReload(WakeRestarts(p, w), w), w) :
        reloadFirst \in IF p.restarts = {} THEN {TRUE} ELSE BOOLEAN}

LEMMA WakesKeep ==
    ASSUME HasParent, NEW p, NEW d, Tidy(p, d), Balanced(p, d), NEW w, w \notin Mapped(p),
           NEW q \in Woken(p, w)
    PROVE  Tidy(q, d) /\ Balanced(q, d)
<1> SUFFICES ASSUME NEW z, q = WakeShutdown(z, w),
                    \/ z = WakeRestarts(WakeReload(p, w), w)
                    \/ z = WakeReload(WakeRestarts(p, w), w) /\ p.restarts # {}
             PROVE  Tidy(z, d) /\ Balanced(z, d)
  <2>1. \E z : /\ q = WakeShutdown(z, w)
               /\ \/ z = WakeRestarts(WakeReload(p, w), w)
                  \/ z = WakeReload(WakeRestarts(p, w), w) /\ p.restarts # {}
    BY DEF Woken
  <2> QED
    BY <2>1, ShutdownWakes
<1>1. CASE p.restarts = {}
  <2> DEFINE y == WakeReload(p, w)
  <2>1. z = WakeRestarts(y, w)
    BY <1>1
  <2>2. Tidy(y, d) /\ Balanced(y, d)
    BY WakeReloadKeeps
  <2>3. w \notin Mapped(y) \/ y.restarts = {}
    <3>1. CASE p.reload = NoReload
      <4>1. y = p
        BY <3>1 DEF WakeReload, NoReload
      <4> QED
        BY <4>1
    <3>2. CASE p.reload # NoReload
      <4>1. p.isReloading
        BY <3>2 DEF Tidy, Good, Linked
      <4>2. d.reloads # 0
        BY <4>1, OneAtATime
      <4> HIDE DEF y
      <4> QED
        BY <2>2, <4>2, OneAtATime
    <3> QED
      BY <3>1, <3>2
  <2> HIDE DEF y
  <2> QED
    BY <2>1, <2>2, <2>3, WakeRestartsKeeps
<1>2. CASE p.restarts # {}
  <2> DEFINE y == WakeRestarts(p, w)
  <2>1. p.reload = NoReload /\ p.reload.pc = "idle"
    BY <1>2, OneAtATime DEF NoReload
  <2>2. WakeReload(p, w) = p
    BY <2>1 DEF WakeReload
  <2>3. Tidy(y, d) /\ Balanced(y, d) /\ y.reload = NoReload
    BY <1>2, WakeRestartsKeeps
  <2>4. WakeReload(y, w) = y
    BY <2>3 DEF WakeReload, NoReload
  <2> QED
    BY <2>2, <2>3, <2>4
<1> QED
  BY <1>1, <1>2

\* A worker told to go or killed exits: not counted.
LEMMA TerminationKeeps ==
    ASSUME HasParent, NEW p, NEW d, Tidy(p, d), Balanced(p, d), NEW w \in Mapped(p),
           p.workers[w].left \/ p.workers[w].killed,
           NEW q \in Woken(Exited(p, w), w)
    PROVE  Tidy(q, d) /\ Balanced(q, d)
<1> DEFINE g == Exited(p, w)
<1>1. Good(p) /\ p.out \in Seq(Message) /\ WorldOK(d)
  BY DEF Tidy
<1>2. Good(g) /\ Departs(p, g, w)
  BY <1>1, ExitedMore
<1> HIDE DEF g
<1>3. w \notin Mapped(g) /\ g.restarts = p.restarts /\ g.reload = p.reload
  BY <1>2 DEF Departs
<1>4. CASE d.stops \/ ~\E r \in p.restarts : r.pc = "stopping" /\ r.old = w
  <2>1. Tidy(g, d) /\ Balanced(g, d)
    BY <1>2, <1>4, DepartureUncounted
  <2> QED
    BY <1>3, <2>1, WakesKeep DEF g
<1>5. CASE ~d.stops /\ \E r \in p.restarts : r.pc = "stopping" /\ r.old = w
  <2>1. PICK r \in p.restarts : r.pc = "stopping" /\ r.old = w
    BY <1>5
  <2>2. /\ p.restarts = {r} /\ p.reload = NoReload /\ p.workers[w].slot = r.slot
        /\ r.slot \in Slot /\ r.new \in Nat /\ Wanted(d, "restart-worker") = {}
    BY <2>1, TheRestart, OneAtATime
  <2> DEFINE e == [d EXCEPT !.died = [d.died EXCEPT ![r.slot] = @ + 1]]
             z == RestartsDone(g, {r})
  <2>3. Struck(d, e, r.slot)
    BY <1>1, <2>2 DEF Struck, WorldOK
  <2>4. Tidy(g, d) /\ Tidy(g, e) /\ Balanced(g, e)
    BY <1>2, <2>2, <2>3, DepartureTidy, DepartureCounted
  <2>5. /\ AlikeBut(g, g) /\ ChangesOnly(g, g, r.old)
        /\ r.old \notin Mapped(g) /\ r \in g.restarts
    BY <1>3, <2>1 DEF AlikeBut, ChangesOnly
  <2> HIDE DEF e, z
  <2>6. /\ Tidy(z, e) /\ Balanced(z, e) /\ z.restarts = {} /\ z.reload = NoReload
        /\ z.out = g.out \o Announcement(r)
    BY <1>2, <2>1, <2>4, <2>5, RestartDoneKeeps DEF z
  <2>7. Tidy(z, d)
    BY <1>1, <2>3, <2>6, StruckSame
  <2>8. Balanced(z, d)
    <3>1. /\ d.held = e.held /\ d.waits = e.waits /\ d.counted = e.counted /\ d.stops = e.stops
          /\ \A s \in Slot : e.died[s] = IF s = r.slot THEN d.died[s] + 1 ELSE d.died[s]
          /\ \A s \in Slot : d.died[s] \in Nat
      BY <1>1, <2>3 DEF Struck, WorldOK
    <3>0. /\ Announcement(r) \in Seq(Message)
          /\ \A k \in DOMAIN Announcement(r) : Announcement(r)[k].type \in {"online", "listening"}
      <4> DEFINE ms == Announcement(r)
      <4>1. /\ ms \in Seq(Message) /\ DOMAIN ms = {1, 2}
            /\ ms[1] = [type |-> "online", slot |-> r.slot, pid |-> r.new]
            /\ ms[2] = [type |-> "listening", slot |-> r.slot]
        BY <2>2, AnnouncementTypes
      <4> HIDE DEF ms
      <4>2. \A k \in DOMAIN ms : ms[k].type \in {"online", "listening"}
        BY <4>1
      <4> QED
        BY <4>1, <4>2 DEF ms
    <3>2. \A s \in Slot : Charged(z.out, d.held[s], d.waits, s)
                             \subseteq Charged(g.out, e.held[s], e.waits, s)
      <4> DEFINE o == g.out
                 ms == Announcement(r)
      <4>1. o \in Seq(Message)
        BY <2>4 DEF Tidy
      <4>2. ms \in Seq(Message) /\ \A k \in DOMAIN ms : ms[k].type # "exit"
        BY <3>0
      <4> HIDE DEF o, ms
      <4>3. \A h, f, t : Charged(o \o ms, h, f, t) = Charged(o, h, f, t)
        BY ONLY <4>1, <4>2, ChargedBefore
      <4> QED
        BY <2>6, <3>1, <4>3 DEF o, ms
    <3>3. \A s \in Slot : d.counted[s] <= d.died[s]
      BY DEF Balanced, Covered
    <3>4. \A s \in Slot : Excuse(z.out, d, s) = Excuse(g.out, e, s)
      <4>1. \A s : ~FailedIn(Announcement(r), s)
        BY <3>0 DEF FailedIn
      <4>2. \A s : FailedIn(z.out, s) <=> FailedIn(g.out, s)
        <5>1. g.out \in Seq(Message) /\ Announcement(r) \in Seq(Message)
          BY <2>4, <2>6, <3>0 DEF Tidy
        <5>2. \A s : FailedIn(g.out \o Announcement(r), s)
                       <=> FailedIn(g.out, s) \/ FailedIn(Announcement(r), s)
          BY ONLY <5>1, ToldAfter, ZenonT(60)
        <5> QED
          BY ONLY <2>6, <4>1, <5>2
      <4> QED
        BY <2>3, <4>2 DEF Excuse, Struck
    <3>5. \A s \in Slot : /\ Due(z, d, s) = 0 /\ Due(g, e, s) = IF s = r.slot THEN 1 ELSE 0
      <4>1. Wanted(e, "restart-worker") = {}
        BY <2>2, <2>3 DEF Struck, Wanted
      <4> QED
        BY <1>3, <2>2, <2>6, <4>1 DEF Due, RestartOpen
    <3>6. \A s \in Slot : Excuse(g.out, e, s) \in {0, 1}
      BY DEF Excuse
    <3>7. \A s \in Slot : Due(z, d, s) + Excuse(g.out, e, s) + e.died[s]
                             <= Due(g, e, s) + Excuse(z.out, d, s) + d.died[s]
      BY <3>1, <3>4, <3>5, <3>6
    <3> QED
      BY <2>4, <2>7, <3>1, <3>2, <3>3, <3>7, BalanceMoves
  <2>9. WakeReload(g, w) = g /\ WakeRestarts(g, w) = z /\ WakeReload(z, w) = z
    <3>1. {x \in g.restarts : x.pc = "stopping" /\ x.old = w} = {r}
      BY <1>3, <2>1, <2>2
    <3>2. WakeRestarts(g, w) = z
      BY <3>1 DEF WakeRestarts, z
    <3> QED
      BY <1>3, <2>2, <2>6, <3>2 DEF WakeReload, NoReload
  <2>10. q = WakeShutdown(z, w)
    BY <2>9 DEF Woken, g
  <2> QED
    BY <2>7, <2>8, <2>10, ShutdownWakes
<1> QED
  BY <1>4, <1>5

\* One that nobody told to go exits, and the history knows.
LEMMA CrashKeeps ==
    ASSUME HasParent, NEW p, NEW d, Tidy(p, d), Balanced(p, d), NEW w \in Mapped(p),
           NEW q \in Woken(Exited(p, w), w), NEW e, Struck(d, e, p.workers[w].slot)
    PROVE  Tidy(q, e) /\ Balanced(q, e)
<1> DEFINE g == Exited(p, w)
<1>1. Good(p) /\ p.out \in Seq(Message)
  BY DEF Tidy
<1>2. Good(g) /\ Departs(p, g, w)
  BY <1>1, ExitedMore
<1> HIDE DEF g
<1>3. w \notin Mapped(g)
  BY <1>2 DEF Departs
<1>4. Tidy(g, e) /\ Balanced(g, e)
  BY <1>2, DepartureCounted
<1> QED
  BY <1>3, <1>4, WakesKeep DEF g
----------------------------------------------------------------------------
(* The primary takes a command. *)

Taken(d, e, c) ==
    /\ WorldOK(e) /\ e.held = d.held /\ e.waits = d.waits /\ e.excused = d.excused
    /\ e.stops = d.stops /\ e.counted = d.counted /\ e.died = d.died
    /\ e.reloads = d.reloads /\ e.restarts = d.restarts
    /\ d.asked # <<>> /\ e.asked = Tail(d.asked) /\ c = Head(d.asked)

LEMMA AskedTail ==
    ASSUME NEW d, WorldOK(d), NEW e, NEW c, Taken(d, e, c)
    PROVE  /\ c \in CommandMsg /\ Wanted(d, c.type) # {}
           /\ c.type = "restart-worker" =>
                 c.slot \in Slot /\ \E n \in Wanted(d, c.type) : d.asked[n].slot = c.slot
           /\ \A type : \A n \in Wanted(e, type) :
                 n + 1 \in Wanted(d, type) /\ d.asked[n + 1] = e.asked[n]
           /\ (\A m, n \in Wanted(d, c.type) : m = n) => Wanted(e, c.type) = {}
           /\ \A type : (\A m, n \in Wanted(d, type) : m = n) => \A m, n \in Wanted(e, type) : m = n
<1> DEFINE o == d.asked
           t == e.asked
<1>1. /\ o \in Seq(CommandMsg) /\ o # <<>> /\ t = Tail(o) /\ c = Head(o)
  BY DEF WorldOK, Taken
<1>2. /\ Len(t) \in Nat /\ Len(o) = Len(t) + 1
      /\ DOMAIN o = 1..Len(o) /\ DOMAIN t = 1..Len(t) /\ o[1] = c /\ c \in CommandMsg
      /\ 1 \in DOMAIN o /\ \A n \in DOMAIN t : n + 1 \in DOMAIN o /\ t[n] = o[n + 1]
  BY <1>1, TailOf
<1>3. \A n \in DOMAIN t : n \in Nat /\ n > 0
  BY <1>2
<1> HIDE DEF o, t
<1>4. 1 \in Wanted(d, c.type)
  BY <1>2 DEF Wanted, o
<1>5. \A type : \A n \in Wanted(e, type) :
                 n \in DOMAIN t /\ n + 1 \in Wanted(d, type) /\ d.asked[n + 1] = e.asked[n]
  BY <1>2 DEF Wanted, o, t
<1>6. c.type = "restart-worker" =>
         c.slot \in Slot /\ \E n \in Wanted(d, c.type) : d.asked[n].slot = c.slot
  BY <1>2, <1>4 DEF CommandMsg, o
<1>7. ASSUME \A m, n \in Wanted(d, c.type) : m = n
      PROVE  Wanted(e, c.type) = {}
  <2> SUFFICES ASSUME NEW n \in Wanted(e, c.type) PROVE FALSE
    OBVIOUS
  <2>1. n + 1 = 1 /\ n \in Nat /\ n > 0
    BY <1>3, <1>4, <1>5, <1>7
  <2> QED
    BY <2>1
<1>8. ASSUME NEW type, \A m, n \in Wanted(d, type) : m = n,
             NEW m \in Wanted(e, type), NEW n \in Wanted(e, type)
      PROVE  m = n
  <2>1. m + 1 = n + 1 /\ m \in Nat /\ n \in Nat
    BY <1>3, <1>5, <1>8
  <2> QED
    BY <2>1
<1> QED
  BY <1>2, <1>4, <1>5, <1>6, <1>7, <1>8

\* As if it were ignored.
LEMMA TakenKeeps ==
    ASSUME NEW p, NEW d, Tidy(p, d), Balanced(p, d), NEW e, NEW c, Taken(d, e, c)
    PROVE  /\ Tidy(p, e) /\ Balanced(p, e)
           /\ c.type = "reload" => /\ Wanted(e, "reload") = {} /\ d.waits /\ ~p.isReloading
                                   /\ ~Answered(p.out, End(p)) /\ d.reloads # 0
           /\ c.type = "restart-worker" =>
                 /\ c.slot \in Slot /\ Wanted(e, "restart-worker") = {} /\ p.restarts = {}
                 /\ d.restarts # 0 /\ Due(p, d, c.slot) = 1
           /\ c.type = "shutdown" => d.stops
<1>1. /\ WorldOK(d) /\ ReloadOnce(p, d) /\ RestartOnce(p, d) /\ Agreed(p, d)
  BY DEF Tidy
<1>2. /\ WorldOK(e) /\ e.held = d.held /\ e.waits = d.waits /\ e.excused = d.excused
      /\ e.stops = d.stops /\ e.counted = d.counted /\ e.died = d.died
      /\ e.reloads = d.reloads /\ e.restarts = d.restarts
  BY DEF Taken
<1>3. /\ Wanted(d, c.type) # {}
      /\ c.type = "restart-worker" =>
            c.slot \in Slot /\ \E n \in Wanted(d, c.type) : d.asked[n].slot = c.slot
      /\ \A type : \A n \in Wanted(e, type) :
                 n + 1 \in Wanted(d, type) /\ d.asked[n + 1] = e.asked[n]
      /\ (\A m, n \in Wanted(d, c.type) : m = n) => Wanted(e, c.type) = {}
      /\ \A type : (\A m, n \in Wanted(d, type) : m = n) => \A m, n \in Wanted(e, type) : m = n
  BY <1>1, AskedTail
<1>4. \A type : Wanted(d, type) = {} => Wanted(e, type) = {}
  BY <1>3
<1>5. ReloadOnce(p, e) /\ RestartOnce(p, e) /\ Agreed(p, e)
  BY <1>1, <1>2, <1>3, <1>4 DEF ReloadOnce, RestartOnce, Agreed
<1>6. /\ Exits(p, e) /\ Onlines(p, e) /\ Secrets(p, e)
      /\ ~e.stops => \A w \in Mapped(p) : Doomed(p, e, w)
  BY <1>2 DEF Tidy, Exits, Onlines, Secrets, Secret, Doomed
<1>7. Tidy(p, e)
  BY <1>2, <1>5, <1>6 DEF Tidy
<1>8. Balanced(p, e)
  <2>1. \A s \in Slot : RestartOpen(p, e, s) => RestartOpen(p, d, s)
    BY <1>3 DEF RestartOpen
  <2>2. \A s \in Slot : d.died[s] \in Nat /\ d.counted[s] <= d.died[s]
    BY <1>1 DEF WorldOK, Balanced, Covered
  <2>3. ASSUME NEW s \in Slot
        PROVE  Due(p, e, s) + Excuse(p.out, d, s) + d.died[s]
                  <= Due(p, d, s) + Excuse(p.out, e, s) + e.died[s]
    <3>1. /\ Due(p, e, s) \in {0, 1} /\ Due(p, d, s) \in {0, 1} /\ Excuse(p.out, d, s) \in {0, 1}
          /\ Due(p, e, s) = 0 \/ Due(p, d, s) = 1
      BY <2>1 DEF Due, Excuse
    <3>2. Excuse(p.out, e, s) = Excuse(p.out, d, s) /\ e.died[s] = d.died[s] /\ d.died[s] \in Nat
      BY <1>2, <2>2 DEF Excuse
    <3> QED
      BY <3>1, <3>2
  <2>4. \A s \in Slot : Charged(p.out, e.held[s], e.waits, s)
                           \subseteq Charged(p.out, d.held[s], d.waits, s)
    BY <1>2
  <2> QED
    BY <1>2, <1>7, <2>2, <2>3, <2>4, BalanceMoves
<1>9. c.type = "reload" => /\ Wanted(e, "reload") = {} /\ d.waits /\ ~p.isReloading
                           /\ ~Answered(p.out, End(p)) /\ d.reloads # 0
  BY <1>1, <1>3, OneAtATime DEF ReloadOnce
<1>10. c.type = "restart-worker" =>
         /\ c.slot \in Slot /\ Wanted(e, "restart-worker") = {} /\ p.restarts = {}
         /\ d.restarts # 0 /\ Due(p, d, c.slot) = 1
  BY <1>1, <1>3 DEF RestartOnce, Due, RestartOpen
<1>11. c.type = "shutdown" => d.stops
  BY <1>1, <1>3 DEF Agreed
<1> QED
  BY <1>7, <1>8, <1>9, <1>10, <1>11

LEMMA TakesReloadKeeps ==
    ASSUME HasParent, NEW p, NEW d, Tidy(p, d), Balanced(p, d), NEW e, NEW c, Taken(d, e, c),
           c.type = "reload"
    PROVE  Tidy(Reload(p), e) /\ Balanced(Reload(p), e)
<1> DEFINE m == [p EXCEPT !.isReloading = TRUE]
           z == NextSlot(m, Mapped(p), <<>>)
<1>1. /\ Tidy(p, e) /\ Balanced(p, e) /\ Wanted(e, "reload") = {} /\ e.waits /\ ~p.isReloading
      /\ ~Answered(p.out, End(p)) /\ e.reloads # 0
  BY TakenKeeps DEF Taken
<1>2. /\ Good(p) /\ Trials(p) /\ WorldOK(e) /\ e.reloads + e.restarts <= 1 /\ p.reload = NoReload
      /\ (~e.stops => \A u \in Mapped(p) : Doomed(p, e, u)) /\ p.restarts = {}
      /\ ReloadOnce(p, e) /\ RestartOnce(p, e) /\ Agreed(p, e)
  BY <1>1, OneAtATime DEF Tidy, Good, Linked
<1>3. Reload(p) = z
  BY <1>1 DEF Reload
<1>4. Good(z)
  BY <1>2, <1>3, ReloadIsFine DEF Fine
<1>5. /\ IsRecord(m) /\ m.workers = p.workers /\ m.restarts = p.restarts /\ m.out = p.out
      /\ m.reload = p.reload /\ m.isShuttingDown = p.isShuttingDown /\ m.isReloading = TRUE
      /\ m.candidates = p.candidates /\ m.freeSlots = p.freeSlots /\ m.stopping = p.stopping
      /\ m.exited = p.exited
  BY <1>2 DEF Good, Shape, IsRecord
<1> HIDE DEF m
<1>6. Good(m) /\ Ids(m) = Ids(p) /\ Mapped(m) = Mapped(p) /\ Mapped(p) \subseteq Ids(p)
  <2>1. Ids(m) = Ids(p) /\ Mapped(m) = Mapped(p) /\ Mapped(p) \subseteq Ids(p)
    BY <1>5 DEF Mapped, Ids
  <2>2. Shape(m)
    BY <1>2, <1>5, <2>1 DEF Good, Shape
  <2>3. Linked(m)
    BY <1>2, <1>5 DEF Linked
  <2>4. Accounted(m)
    BY <1>2, <1>5, <2>1 DEF Good, Accounted, InSlot
  <2> QED
    BY <2>1, <2>2, <2>3, <2>4 DEF Good
<1>7. Tidy(m, e) /\ Balanced(m, e)
  <2> DEFINE ms == <<>>
  <2>1. ms \in Seq(Message) /\ m.out = p.out \o ms /\ DOMAIN ms = {}
    BY <1>1, <1>5, NothingSaid
  <2> HIDE DEF ms
  <2>2. Moves(p, e, m, ms, e.stops)
    BY <1>2, <1>5, <1>6, <2>1 DEF Moves, Doomed
  <2>3. ReloadOnce(m, e) /\ RestartOnce(m, e) /\ Agreed(m, e)
    BY <1>1, <1>2, <1>5 DEF ReloadOnce, RestartOnce, Agreed, End
  <2>4. Trials(m)
    BY <1>2, <1>5 DEF Trials
  <2>5. Tidy(m, e)
    BY <1>1, <1>2, <1>6, <2>2, <2>3, <2>4, MovesTidy
  <2>6. Balanced(m, e)
    BY <1>1, <1>5 DEF Balanced, Covered, Due, RestartOpen
  <2> QED
    BY <2>5, <2>6
<1>8. Attempts(m, z) \/ Finishes(m, z)
  <2>1. Mapped(p) \in SUBSET Ids(m) /\ <<>> \in Seq(Result)
    BY <1>6
  <2> QED
    BY <1>6, <2>1, NextSlotMore
<1>9. m.isReloading /\ ~(m.reload.pc = "stopping")
  BY <1>2, <1>5 DEF NoReload
<1> HIDE DEF z
<1>10. Tidy(z, e) /\ Balanced(z, e)
  BY <1>4, <1>7, <1>8, <1>9, GoesOn
<1> QED
  BY <1>3, <1>10

LEMMA TakesShutdownKeeps ==
    ASSUME NEW p, NEW d, Tidy(p, d), Balanced(p, d), NEW e, NEW c, Taken(d, e, c),
           c.type = "shutdown"
    PROVE  Tidy(Shutdown(p), e) /\ Balanced(Shutdown(p), e)
<1> DEFINE q == Shutdown(p)
           W == [w \in Ids(p) |-> IF w \in Mapped(p) THEN [p.workers[w] EXCEPT !.left = TRUE]
                                                     ELSE p.workers[w]]
<1>1. Tidy(p, e) /\ Balanced(p, e) /\ e.stops
  BY TakenKeeps DEF Taken
<1>2. CASE p.isShuttingDown
  BY <1>1, <1>2 DEF Shutdown
<1>3. CASE ~p.isShuttingDown
  <2>1. /\ Good(p) /\ Trials(p) /\ WorldOK(e) /\ e.reloads + e.restarts <= 1
        /\ ReloadOnce(p, e) /\ RestartOnce(p, e) /\ Agreed(p, e)
    BY <1>1 DEF Tidy
  <2>2. Good(q)
    BY <2>1, ShutdownIsGood
  <2>3. /\ q.workers = W /\ q.candidates = p.candidates /\ q.reload = p.reload
        /\ q.restarts = p.restarts /\ q.isReloading = p.isReloading /\ q.out = p.out
    BY <1>3, <2>1 DEF Shutdown, Good, Shape, IsRecord
  <2>4. \A w \in Ids(p) : /\ W[w].slot = p.workers[w].slot /\ W[w].life = p.workers[w].life
                          /\ W[w].killed = p.workers[w].killed
    <3>1. \A w \in Ids(p) : p.workers[w] \in Worker
      BY <2>1, IdsAreNumbers
    <3> QED
      BY <3>1 DEF Worker
  <2> HIDE DEF q
  <2>5. DOMAIN q.workers = Ids(p) /\ Ids(q) = Ids(p)
    BY <2>3 DEF Ids
  <2> HIDE DEF W
  <2>6. Mapped(q) = Mapped(p) /\ Mapped(p) \subseteq Ids(p)
    BY <2>3, <2>4, <2>5 DEF Mapped
  <2> DEFINE ms == <<>>
  <2>7. ms \in Seq(Message) /\ q.out = p.out \o ms /\ DOMAIN ms = {}
    BY <1>1, <2>3, NothingSaid
  <2> HIDE DEF ms
  <2>8. Moves(p, e, q, ms, e.stops)
    BY <1>1, <2>3, <2>4, <2>5, <2>6, <2>7 DEF Moves
  <2>9. ReloadOnce(q, e) /\ RestartOnce(q, e) /\ Agreed(q, e)
    BY <1>1, <2>1, <2>3 DEF ReloadOnce, RestartOnce, Agreed, End
  <2>10. Trials(q)
    <3>1. \A r : r.new \in Ids(p) /\ Trial(p, r) => Trial(q, r)
      BY <2>3, <2>4, <2>6 DEF Trial
    <3>2. /\ \A r \in p.restarts : r.new \in Ids(p)
          /\ p.reload # NoReload => p.reload.new \in Ids(p)
      BY <2>1 DEF Good, Linked, Replaces
    <3> QED
      BY <2>1, <2>3, <3>1, <3>2 DEF Trials
  <2>11. Tidy(q, e)
    BY <1>1, <2>1, <2>2, <2>8, <2>9, <2>10, MovesTidy
  <2>12. Balanced(q, e)
    BY <1>1 DEF Balanced, Covered
  <2> QED
    BY <2>11, <2>12 DEF q
<1> QED
  BY <1>2, <1>3

LEMMA TakesRestartKeeps ==
    ASSUME NEW p, NEW d, Tidy(p, d), Balanced(p, d), NEW e, NEW c, Taken(d, e, c),
           c.type = "restart-worker"
    PROVE  Tidy(RestartWorker(p, c.slot), e) /\ Balanced(RestartWorker(p, c.slot), e)
<1> DEFINE s == c.slot
           q == RestartWorker(p, s)
           b == SpawnCandidate(p, s)
           r == [pc |-> "waiting", slot |-> s, old |-> First(InSlot(p, s)), new |-> Newest(b)]
           n == Len(p.workers) + 1
<1>1. /\ Tidy(p, e) /\ Balanced(p, e) /\ s \in Slot /\ Wanted(e, "restart-worker") = {}
      /\ p.restarts = {} /\ e.restarts # 0 /\ Due(p, d, s) = 1
  BY TakenKeeps DEF Taken
<1>2. CASE p.isShuttingDown \/ p.isReloading \/ InSlot(p, s) = {}
  BY <1>1, <1>2 DEF RestartWorker
<1>3. CASE ~(p.isShuttingDown \/ p.isReloading \/ InSlot(p, s) = {})
  <2>1. /\ Good(p) /\ Shape(p) /\ Trials(p) /\ WorldOK(e) /\ e.reloads + e.restarts <= 1
        /\ ReloadOnce(p, e) /\ RestartOnce(p, e) /\ Agreed(p, e) /\ p.reload = NoReload
        /\ (~e.stops => \A u \in Mapped(p) : Doomed(p, e, u))
    BY <1>1, <1>3 DEF Tidy, Good, Linked
  <2>2. Good(q)
    BY <1>1, <2>1, RestartWorkerIsFine DEF Fine
  <2>3. /\ Shape(b) /\ b.out = p.out /\ n \in Nat \ {0} /\ n \notin Ids(p)
        /\ Ids(b) = Ids(p) \cup {n} /\ Mapped(b) = Mapped(p) \cup {n}
        /\ \A u \in Ids(p) : b.workers[u] = p.workers[u]
        /\ ~b.workers[n].killed /\ ~b.workers[n].left
        /\ b.candidates = p.candidates \cup {n}
        /\ b.isShuttingDown = p.isShuttingDown /\ b.isReloading = p.isReloading
        /\ b.reload = p.reload /\ b.restarts = p.restarts
    BY <1>1, <2>1, SpawnMore
  <2>4. Newest(b) = n
    <3>1. b.workers = Append(p.workers, Unready(s))
      BY <1>1, <2>1, SpawnFields
    <3>2. p.workers \in Seq(Worker) /\ Unready(s) \in Worker
      BY <1>1, <2>1 DEF Shape, Unready, Worker
    <3> QED
      BY <3>1, <3>2 DEF Newest
  <2>5. q = [b EXCEPT !.restarts = @ \cup {r}]
    BY <1>3 DEF RestartWorker
  <2>6. r.new = n /\ r.pc = "waiting" /\ r.slot = s
    BY <2>4
  <2> HIDE DEF b, r, q, n
  <2>7. /\ q.workers = b.workers /\ q.restarts = {r} /\ q.out = p.out /\ q.reload = p.reload
        /\ q.isShuttingDown = p.isShuttingDown /\ q.isReloading = p.isReloading
        /\ q.candidates = p.candidates \cup {n}
    BY <1>1, <2>3, <2>5 DEF Shape, IsRecord
  <2>8. Ids(q) = Ids(p) \cup {n} /\ Mapped(q) = Mapped(p) \cup {n} /\ Mapped(p) \subseteq Ids(p)
    BY <2>3, <2>7 DEF Ids, Mapped
  <2> DEFINE ms == <<>>
  <2>9. ms \in Seq(Message) /\ q.out = p.out \o ms /\ DOMAIN ms = {}
    BY <1>1, <2>7, NothingSaid
  <2> HIDE DEF ms
  <2>10. ~e.stops => \A u \in Mapped(p) : ~(p.workers[u].left /\ ~p.workers[u].killed)
    BY <1>1, <2>1 DEF Doomed, NoReload
  <2>11. Moves(p, e, q, ms, e.stops)
    BY <2>3, <2>7, <2>8, <2>9, <2>10 DEF Moves
  <2>12. ReloadOnce(q, e) /\ RestartOnce(q, e) /\ Agreed(q, e)
    BY <1>1, <2>1, <2>7 DEF ReloadOnce, RestartOnce, Agreed, End
  <2>13. Trials(q)
    BY <2>1, <2>3, <2>6, <2>7 DEF Trials, Trial
  <2>14. Tidy(q, e)
    BY <1>1, <2>1, <2>2, <2>11, <2>12, <2>13, MovesTidy
  <2>15. /\ e.held = d.held /\ e.waits = d.waits /\ e.excused = d.excused
         /\ e.stops = d.stops /\ e.counted = d.counted /\ e.died = d.died
    BY DEF Taken
  <2>16. \A t \in Slot : d.died[t] \in Nat /\ d.counted[t] <= d.died[t]
    BY DEF Tidy, WorldOK, Balanced, Covered
  <2>17. ASSUME NEW t \in Slot
         PROVE  Due(q, e, t) + Excuse(p.out, d, t) + d.died[t]
                   <= Due(p, d, t) + Excuse(q.out, e, t) + e.died[t]
    <3>1. /\ Due(q, e, t) = IF t = s THEN 1 ELSE 0
      BY <1>1, <2>6, <2>7 DEF Due, RestartOpen
    <3>2. Due(p, d, t) \in {0, 1} /\ Due(p, d, s) = 1
      BY <1>1 DEF Due
    <3>3. Excuse(q.out, e, t) = Excuse(p.out, d, t) /\ Excuse(p.out, d, t) \in {0, 1}
      BY <2>7, <2>15 DEF Excuse
    <3>4. e.died[t] = d.died[t] /\ d.died[t] \in Nat
      BY <2>15, <2>16
    <3> HIDE DEF s
    <3> QED
      BY <3>1, <3>2, <3>3, <3>4
  <2>18. \A t \in Slot : Charged(q.out, e.held[t], e.waits, t)
                            \subseteq Charged(p.out, d.held[t], d.waits, t)
    BY <2>7, <2>15
  <2>19. Balanced(q, e)
    BY <2>14, <2>15, <2>16, <2>17, <2>18, BalanceMoves
  <2> QED
    BY <2>14, <2>19 DEF q
<1> QED
  BY <1>2, <1>3
----------------------------------------------------------------------------
(* The daemon handles a message. *)

\* Its world is now e, and p.out has lost its first message m.
Hears(p, q, d, e, m) ==
    /\ p.out # <<>> /\ m = Head(p.out) /\ q.out = Tail(p.out)
    /\ q.workers = p.workers /\ q.candidates = p.candidates /\ q.reload = p.reload
    /\ q.restarts = p.restarts /\ q.isShuttingDown = p.isShuttingDown
    /\ q.isReloading = p.isReloading
    /\ WorldOK(e) /\ e.stops = d.stops /\ e.asked = d.asked /\ e.died = d.died
    /\ e.reloads = d.reloads /\ e.restarts = d.restarts
    /\ \A s \in Slot :
          e.held[s] \in {IF m.type = "online" /\ m.slot = s THEN m.pid ELSE d.held[s], 0}
    /\ IF m.type = "complete" THEN ~e.waits ELSE e.waits = d.waits
    /\ e.excused \subseteq d.excused

LEMMA HeardTidy ==
    ASSUME NEW p, NEW d, Tidy(p, d), NEW q, Good(q), NEW e, NEW m, Hears(p, q, d, e, m)
    PROVE  /\ Tidy(q, e) /\ m \in Message
           /\ \A s \in Slot : Due(q, e, s) = Due(p, d, s)
           /\ \A s \in Slot :
                 FailedIn(p.out, s) <=> FailedIn(q.out, s) \/ (m.type = "failed" /\ m.slot = s)
           /\ \A s \in Slot : \A u \in Charged(q.out, e.held[s], e.waits, s) :
                 /\ u \in Charged(p.out, d.held[s], d.waits, s)
                 /\ m.type = "exit" => u # m.pid
<1> DEFINE o == p.out
           t == q.out
<1>1. /\ Good(p) /\ o \in Seq(Message) /\ WorldOK(d) /\ d.reloads + d.restarts <= 1
      /\ ReloadOnce(p, d) /\ RestartOnce(p, d) /\ Agreed(p, d)
      /\ Exits(p, d) /\ Onlines(p, d) /\ Secrets(p, d) /\ Trials(p)
      /\ (~d.stops => \A u \in Mapped(p) : Doomed(p, d, u))
  BY DEF Tidy
<1>2. /\ o # <<>> /\ m = Head(o) /\ t = Tail(o)
      /\ q.workers = p.workers /\ q.candidates = p.candidates /\ q.reload = p.reload
      /\ q.restarts = p.restarts /\ q.isShuttingDown = p.isShuttingDown
      /\ q.isReloading = p.isReloading
      /\ WorldOK(e) /\ e.stops = d.stops /\ e.asked = d.asked /\ e.died = d.died
      /\ e.reloads = d.reloads /\ e.restarts = d.restarts
      /\ \A s \in Slot :
            e.held[s] \in {IF m.type = "online" /\ m.slot = s THEN m.pid ELSE d.held[s], 0}
      /\ IF m.type = "complete" THEN ~e.waits ELSE e.waits = d.waits
      /\ e.excused \subseteq d.excused
  BY DEF Hears
<1>3. /\ t \in Seq(Message) /\ Len(t) \in Nat /\ Len(o) = Len(t) + 1
      /\ DOMAIN o = 1..Len(o) /\ DOMAIN t = 1..Len(t) /\ o[1] = m /\ m \in Message
      /\ 1 \in DOMAIN o /\ \A n \in DOMAIN t : n + 1 \in DOMAIN o /\ t[n] = o[n + 1]
      /\ \A n \in DOMAIN o : n = 1 \/ (n - 1 \in DOMAIN t /\ t[n - 1] = o[n])
  BY <1>1, <1>2, TailOf
<1> HIDE DEF o, t
<1>4. \A n \in DOMAIN t : n + 1 \in DOMAIN o /\ t[n] = o[n + 1] /\ n \in Nat
  BY <1>3
<1>5. Ids(q) = Ids(p) /\ Mapped(q) = Mapped(p)
  BY <1>2 DEF Ids, Mapped
<1>6. Exits(q, e)
  <2>1. \A n \in DOMAIN t : t[n].type = "exit" => t[n].pid \in Ids(q) \ Mapped(q)
    BY <1>1, <1>4, <1>5 DEF Exits, o
  <2>2. ASSUME NEW k \in DOMAIN t, NEW n \in DOMAIN t, t[k].type = "exit", t[n].type = "exit",
               t[k].pid = t[n].pid
        PROVE  k = n
    <3>1. k + 1 = n + 1
      BY <1>1, <1>4, <2>2 DEF Exits, o
    <3> QED
      BY <1>4, <3>1
  <2> QED
    BY <2>1, <2>2 DEF Exits, t
<1>7. Onlines(q, e)
  <2>1. m.type = "online" => m.pid \in Ids(p)
    BY <1>1, <1>3 DEF Onlines, o
  <2>2. \A s \in Slot : e.held[s] \in Ids(p) \cup {0}
    BY <1>1, <1>2, <2>1 DEF Onlines
  <2> QED
    BY <1>1, <1>4, <1>5, <2>2 DEF Onlines, o, t
<1>8. Secrets(q, e)
  <2> SUFFICES ASSUME NEW w \in p.candidates PROVE Secret(q, e, w)
    BY <1>2 DEF Secrets
  <2>1. Secret(p, d, w) /\ w # 0
    BY <1>1, IdsAreNumbers DEF Secrets
  <2>2. m.type = "online" => m.pid # w
    BY <1>3, <2>1 DEF Secret, o
  <2>3. \A s \in Slot : e.held[s] # w
    BY <1>2, <2>1, <2>2 DEF Secret
  <2> QED
    BY <1>4, <2>1, <2>3 DEF Secret, o, t
<1>9. Trials(q)
  BY <1>1, <1>2, <1>5 DEF Trials, Trial
<1>10. ASSUME ~e.stops, NEW u \in Mapped(q)
       PROVE  Doomed(q, e, u)
  <2>1. /\ u \in Mapped(p) /\ q.workers[u] = p.workers[u] /\ Doomed(p, d, u)
        /\ u # 0 /\ p.workers[u].slot \in Slot
    BY <1>1, <1>2, <1>5, <1>10, IdsAreNumbers
  <2> DEFINE s == p.workers[u].slot
             h == d.held[s]
             now == e.held[s]
             n == Len(t) + 1
  <2>2. n \in 1..Len(o)
    BY <1>3
  <2>3. now \in {IF m.type = "online" /\ m.slot = s THEN m.pid ELSE h, 0}
    BY <1>2, <2>1
  <2> HIDE DEF h, now
  <2>4. Tracked(t, now, n, s, u) => Tracked(o, h, n + 1, s, u)
    <3> HIDE DEF s, n
    <3> QED
      BY <1>1, <1>2, <2>1, <2>2, <2>3, TrackedTail, ZenonT(60) DEF o
  <2>5. Tracked(t, now, Len(t) + 1, s, u) => Tracked(o, h, Len(o) + 1, s, u)
    BY <1>3, <2>4
  <2> QED
    BY <1>2, <2>1, <2>5 DEF Doomed, End, o, t, h, now
<1>11. /\ m.type # "complete" => (Answered(o, Len(o) + 1) <=> Answered(t, Len(t) + 1))
       /\ Answered(t, Len(t) + 1) => Answered(o, Len(o) + 1)
       /\ m.type = "complete" => Answered(o, Len(o) + 1)
  <2>1. Len(t) + 1 \in Nat /\ Len(t) + 1 > 0 /\ Len(o) + 1 = (Len(t) + 1) + 1
    BY <1>3
  <2> DEFINE n == Len(t) + 1
  <2>2. o \in Seq(Message) /\ o # <<>> /\ n \in Nat /\ n > 0
    BY <1>1, <1>2, <2>1 DEF o
  <2>3. t = Tail(o) /\ m = Head(o)
    BY <1>2
  <2> HIDE DEF n
  <2>4. Answered(o, n + 1) <=> Head(o).type = "complete" \/ Answered(Tail(o), n)
    BY ONLY <2>2, AnsweredTail
  <2>5. Answered(o, n + 1) <=> m.type = "complete" \/ Answered(t, n)
    BY ONLY <2>3, <2>4
  <2> QED
    BY ONLY <2>1, <2>5 DEF n
<1>12. \A type : Wanted(e, type) = Wanted(d, type)
  BY <1>2 DEF Wanted
<1>13. ReloadOnce(q, e)
  BY <1>1, <1>2, <1>11, <1>12 DEF ReloadOnce, End, o, t
<1>14. \A s : FailedIn(o, s) <=> FailedIn(t, s) \/ (m.type = "failed" /\ m.slot = s)
  <2>1. o \in Seq(Message) /\ o # <<>> /\ t = Tail(o) /\ m = Head(o)
    BY <1>1, <1>2 DEF o, t
  <2>2. ASSUME NEW s
        PROVE  FailedIn(o, s) <=>
                 FailedIn(Tail(o), s) \/ (Head(o).type = "failed" /\ Head(o).slot = s)
    BY ONLY <2>1, FailedTail
  <2> QED
    BY ONLY <2>1, <2>2
<1>15. RestartOnce(q, e)
  BY <1>1, <1>2, <1>12, <1>14 DEF RestartOnce, o, t
<1>16. Agreed(q, e)
  BY <1>1, <1>2, <1>12 DEF Agreed
<1>17. Tidy(q, e)
  BY <1>1, <1>2, <1>3, <1>6, <1>7, <1>8, <1>9, <1>10, <1>13, <1>15, <1>16 DEF Tidy, t
<1>18. \A s \in Slot : Due(q, e, s) = Due(p, d, s)
  BY <1>2, <1>12 DEF Due, RestartOpen
<1>19. ASSUME NEW s \in Slot, NEW u \in Charged(t, e.held[s], e.waits, s)
       PROVE  u \in Charged(o, d.held[s], d.waits, s) /\ (m.type = "exit" => u # m.pid)
  <2> DEFINE h == d.held[s]
             now == e.held[s]
             waits == d.waits
             waiting == e.waits
  <2>1. /\ m.type # "complete" /\ waits => waiting
        /\ now \in {IF m.type = "online" /\ m.slot = s THEN m.pid ELSE h, 0}
        /\ u \in Charged(t, now, waiting, s)
    BY <1>2, <1>19
  <2> HIDE DEF h, now, waits, waiting
  <2>2. u \in Charged(o, h, waits, s) /\ \E n \in DOMAIN o : n > 1 /\ ExitAt(o, n, s, u)
    <3>1. o \in Seq(Message) /\ o # <<>> /\ t = Tail(o) /\ m = Head(o)
      BY <1>1, <1>2 DEF o, t
    <3>2. Head(o).type # "complete" /\ waits => waiting
      BY ONLY <2>1, <3>1
    <3>3. now \in {IF Head(o).type = "online" /\ Head(o).slot = s THEN Head(o).pid ELSE h, 0}
      BY ONLY <2>1, <3>1
    <3>4. o \in Seq(Message) /\ o # <<>>
      BY ONLY <3>1
    <3>5. \A w \in Charged(Tail(o), now, waiting, s) :
             /\ w \in Charged(o, h, waits, s)
             /\ \E n \in DOMAIN o : n > 1 /\ ExitAt(o, n, s, w)
      BY ONLY <3>2, <3>3, <3>4, ChargedTail
    <3>6. u \in Charged(Tail(o), now, waiting, s)
      BY ONLY <2>1, <3>1
    <3> QED
      BY ONLY <3>5, <3>6
  <2>3. m.type = "exit" => u # m.pid
    <3>1. PICK n \in DOMAIN o : n > 1 /\ o[n].type = "exit" /\ o[n].pid = u
      BY <2>2 DEF ExitAt
    <3>2. n # 1
      BY <3>1
    <3> QED
      BY <1>1, <1>3, <3>1, <3>2 DEF Exits, o
  <2> QED
    BY <2>2, <2>3 DEF h, waits
<1> QED
  BY <1>3, <1>14, <1>17, <1>18, <1>19 DEF o, t

\* A message that is not the exit of the worker on record.
LEMMA HeardOther ==
    ASSUME NEW p, NEW d, Tidy(p, d), Balanced(p, d), NEW q, Good(q), NEW e, NEW m,
           Hears(p, q, d, e, m), e.counted = d.counted,
           e.excused = IF m.type = "failed" THEN d.excused \ {m.slot} ELSE d.excused
    PROVE  Tidy(q, e) /\ Balanced(q, e)
<1>1. /\ Tidy(q, e)
      /\ \A s \in Slot : Due(q, e, s) = Due(p, d, s)
      /\ \A s \in Slot :
            FailedIn(p.out, s) <=> FailedIn(q.out, s) \/ (m.type = "failed" /\ m.slot = s)
      /\ \A s \in Slot : Charged(q.out, e.held[s], e.waits, s)
                            \subseteq Charged(p.out, d.held[s], d.waits, s)
  BY HeardTidy
<1>2. \A s \in Slot : d.died[s] \in Nat /\ d.counted[s] <= d.died[s]
  BY DEF Tidy, WorldOK, Balanced, Covered
<1>3. e.died = d.died /\ e.stops = d.stops
  BY DEF Hears
<1>4. ASSUME NEW s \in Slot
      PROVE  Excuse(q.out, e, s) = Excuse(p.out, d, s)
  BY <1>1 DEF Excuse
<1>5. \A s \in Slot : Due(p, d, s) \in {0, 1} /\ Excuse(p.out, d, s) \in {0, 1}
  BY DEF Due, Excuse
<1>6. \A s \in Slot : Due(q, e, s) + Excuse(p.out, d, s) + d.died[s]
                         <= Due(p, d, s) + Excuse(q.out, e, s) + e.died[s]
  BY <1>1, <1>2, <1>3, <1>4, <1>5
<1> QED
  BY <1>1, <1>2, <1>3, <1>6, BalanceMoves

\* The exit of the worker on record: one less to count, or to excuse.
LEMMA HeardExit ==
    ASSUME NEW p, NEW d, Tidy(p, d), Balanced(p, d), NEW q, Good(q), NEW e, NEW m,
           Hears(p, q, d, e, m), m.type = "exit", d.held[m.slot] = m.pid,
           e.counted = [d.counted EXCEPT
                          ![m.slot] = IF d.stops \/ d.waits \/ m.slot \in d.excused
                                      THEN @ ELSE @ + 1],
           e.excused = d.excused \ {m.slot}
    PROVE  Tidy(q, e) /\ Balanced(q, e)
<1>1. /\ Tidy(q, e) /\ m \in Message
      /\ \A s \in Slot : Due(q, e, s) = Due(p, d, s)
      /\ \A s \in Slot : FailedIn(p.out, s) <=> FailedIn(q.out, s)
      /\ \A s \in Slot : \A u \in Charged(q.out, e.held[s], e.waits, s) :
            u \in Charged(p.out, d.held[s], d.waits, s) /\ u # m.pid
  BY HeardTidy
<1>2. /\ p.out \in Seq(Message) /\ WorldOK(d) /\ Exits(p, d) /\ Good(p)
  BY DEF Tidy
<1>3. /\ p.out # <<>> /\ m = Head(p.out) /\ e.stops = d.stops /\ e.died = d.died /\ e.waits = d.waits
  BY DEF Hears
<1>4. 1 \in DOMAIN p.out /\ p.out[1] = m /\ DOMAIN p.out \subseteq Nat \ {0}
  BY <1>2, <1>3, TailOf
<1>5. m.slot \in Slot /\ m.pid \in Nat \ {0}
  BY <1>1, <1>2, <1>4, MessageTypes, IdsAreNumbers DEF Exits
<1> SUFFICES ASSUME NEW s \in Slot PROVE Covered(q, e, s)
  BY <1>1 DEF Balanced
<1> DEFINE C == Charged(p.out, d.held[s], d.waits, s)
           D == Charged(q.out, e.held[s], e.waits, s)
           x == Excuse(p.out, d, s)
           y == Excuse(q.out, e, s)
           a == Due(p, d, s)
           n == d.counted[s]
           died == d.died[s]
           cleared == d.stops \/ d.waits \/ s \in d.excused
<1>6. /\ n \in Nat /\ died \in Nat /\ e.died[s] = died /\ d.stops \in BOOLEAN /\ d.waits \in BOOLEAN
      /\ e.counted[s] = IF s = m.slot /\ ~cleared THEN n + 1 ELSE n
  BY <1>2, <1>3, <1>5 DEF WorldOK
<1>7. n <= died /\ (~d.stops => n + Cardinality(C) + a <= died + x)
  BY DEF Balanced, Covered
<1>8. a \in {0, 1} /\ x \in {0, 1} /\ y \in {0, 1} /\ Due(q, e, s) = a
  BY <1>1 DEF Due, Excuse
<1>9. IsFiniteSet(C) /\ Cardinality(C) \in Nat /\ Cardinality(D) \in Nat
  BY <1>1, ChargedAreFew
<1>10. D \subseteq C \ {m.pid}
  BY <1>1
<1>11. CASE s # m.slot
  <2>1. y = x
    BY <1>1, <1>11 DEF Excuse
  <2>2. Cardinality(D) <= Cardinality(C)
    <3>1. D \in SUBSET C
      BY <1>10
    <3> QED
      BY <1>9, <3>1, FS_Subset
  <2> HIDE DEF C, D, x, y, a, n, died, cleared
  <2>3. e.counted[s] <= e.died[s]
    BY <1>6, <1>7, <1>11
  <2>4. ~e.stops => e.counted[s] + Cardinality(D) + a <= e.died[s] + y
    BY <1>3, <1>6, <1>7, <1>8, <1>9, <1>11, <2>1, <2>2
  <2> QED
    BY <1>8, <2>3, <2>4 DEF Covered, D, y, a
<1>12. CASE s = m.slot
  <2>1. y = 0
    BY <1>12 DEF Excuse
  <2>2. d.stops => cleared
    OBVIOUS
  <2>3. CASE d.stops
    <3> HIDE DEF C, D, x, y, a, n, died, cleared
    <3> QED
      BY <1>3, <1>6, <1>7, <2>2, <2>3 DEF Covered
  <2>4. CASE ~d.stops /\ d.waits
    <3>1. s \notin d.excused
      BY <2>4, OneAtATime
    <3>2. x = 0 /\ cleared
      BY <2>4, <3>1 DEF Excuse
    <3>3. Cardinality(D) <= Cardinality(C)
      <4>1. D \in SUBSET C
        BY <1>10
      <4> QED
        BY <1>9, <4>1, FS_Subset
    <3> HIDE DEF C, D, x, y, a, n, died, cleared
    <3>4. e.counted[s] + Cardinality(D) + a <= e.died[s] + y /\ e.counted[s] <= e.died[s]
      BY <1>6, <1>7, <1>8, <1>9, <2>1, <2>4, <3>2, <3>3
    <3> QED
      BY <1>8, <3>4 DEF Covered, D, y, a
  <2>5. CASE ~d.stops /\ ~d.waits
    <3>1. m.pid \in C
      <4>1. ExitAt(p.out, 1, s, m.pid)
        BY <1>4, <1>12 DEF ExitAt
      <4>2. \A k \in DOMAIN p.out : ~(k < 1)
        BY <1>4
      <4>3. Tracked(p.out, d.held[s], 1, s, m.pid)
        BY <1>12, <4>2 DEF Tracked
      <4> QED
        BY <1>4, <1>5, <2>5, <4>1, <4>3 DEF Charged
    <3>2. Cardinality(D) <= Cardinality(C) - 1
      <4>1. D \in SUBSET (C \ {m.pid})
        BY <1>10
      <4> HIDE DEF C, D
      <4>2. /\ IsFiniteSet(C \ {m.pid})
            /\ Cardinality(C \ {m.pid}) = Cardinality(C) - 1
        BY <1>9, <3>1, FS_RemoveElement
      <4>3. Cardinality(D) <= Cardinality(C \ {m.pid})
        BY <4>1, <4>2, FS_Subset
      <4> QED
        BY <4>2, <4>3
    <3>3. cleared <=> s \in d.excused
      BY <2>5
    <3>4. s \notin d.excused => x = 0
      BY DEF Excuse
    <3> HIDE DEF C, D, x, y, a, n, died, cleared
    <3>5. CASE cleared
      <4>1. e.counted[s] + Cardinality(D) + a <= e.died[s] + y /\ e.counted[s] <= e.died[s]
        BY <1>6, <1>7, <1>8, <1>9, <2>1, <2>5, <3>2, <3>5
      <4> QED
        BY <1>8, <4>1 DEF Covered, D, y, a
    <3>6. CASE ~cleared
      <4>1. x = 0 /\ e.counted[s] = n + 1
        BY <1>6, <1>12, <3>3, <3>4, <3>6
      <4>2. e.counted[s] + Cardinality(D) + a <= e.died[s] + y /\ e.counted[s] <= e.died[s]
        BY <1>6, <1>7, <1>8, <1>9, <2>1, <2>5, <3>2, <4>1
      <4> QED
        BY <1>8, <4>2 DEF Covered, D, y, a
    <3> QED
      BY <3>5, <3>6
  <2> QED
    BY <1>6, <2>3, <2>4, <2>5
<1> QED
  BY <1>11, <1>12
----------------------------------------------------------------------------
(* What the daemon does by itself.                                         *)

\* What a record that is dropped does to what is tracked.
LEMMA TrackedLess ==
    ASSUME NEW out, NEW h, NEW now \in {h, 0}, NEW n, NEW s, NEW w, w # 0, Tracked(out, now, n, s, w)
    PROVE  Tracked(out, h, n, s, w)
BY DEF Tracked

\* The daemon knows no more of the workers than it did, and holds no command.
LEMMA ForgettingKeeps ==
    ASSUME NEW p, NEW d, Tidy(p, d), Balanced(p, d), NEW e, WorldOK(e),
           \A s \in Slot : e.held[s] \in {d.held[s], 0},
           e.waits = d.waits, e.excused = d.excused, e.stops = d.stops, e.counted = d.counted,
           e.died = d.died, e.asked = d.asked, e.reloads = d.reloads, e.restarts = d.restarts
    PROVE  Tidy(p, e) /\ Balanced(p, e)
<1>1. Good(p) /\ 0 \notin Ids(p) /\ p.candidates \subseteq Ids(p) /\ Mapped(p) \subseteq Ids(p)
  BY IdsAreNumbers DEF Tidy
<1>2. \A w \in Ids(p) : p.workers[w].slot \in Slot
  BY <1>1, IdsAreNumbers
<1>3. /\ Wanted(e, "reload") = Wanted(d, "reload")
      /\ Wanted(e, "restart-worker") = Wanted(d, "restart-worker")
      /\ Wanted(e, "shutdown") = Wanted(d, "shutdown")
  BY DEF Wanted
<1>4. ReloadOnce(p, e) /\ RestartOnce(p, e) /\ Agreed(p, e)
  BY <1>3 DEF Tidy, ReloadOnce, RestartOnce, Agreed
<1>5. Exits(p, e) /\ Onlines(p, e)
  BY DEF Tidy, Exits, Onlines
<1>6. Secrets(p, e)
  BY <1>1 DEF Tidy, Secrets, Secret
<1>7. ~e.stops => \A w \in Mapped(p) : Doomed(p, e, w)
  <2> SUFFICES ASSUME ~e.stops, NEW w \in Mapped(p) PROVE Doomed(p, e, w)
    OBVIOUS
  <2>1. Doomed(p, d, w) /\ w # 0 /\ p.workers[w].slot \in Slot
    BY <1>1, <1>2 DEF Tidy
  <2>2. ASSUME Tracked(p.out, e.held[p.workers[w].slot], End(p), p.workers[w].slot, w)
        PROVE  Tracked(p.out, d.held[p.workers[w].slot], End(p), p.workers[w].slot, w)
    BY <2>1, <2>2, TrackedLess
  <2> QED
    BY <2>1, <2>2 DEF Doomed
<1>8. Tidy(p, e)
  BY <1>4, <1>5, <1>6, <1>7 DEF Tidy
<1>9. \A s \in Slot : Charged(p.out, e.held[s], e.waits, s)
                          \subseteq Charged(p.out, d.held[s], d.waits, s)
  <2> SUFFICES ASSUME NEW s \in Slot, NEW w \in Nat \ {0}, NEW n \in DOMAIN p.out,
                      ExitAt(p.out, n, s, w), Tracked(p.out, e.held[s], n, s, w),
                      e.waits => Answered(p.out, n)
               PROVE  w \in Charged(p.out, d.held[s], d.waits, s)
    BY DEF Charged
  <2>1. Tracked(p.out, d.held[s], n, s, w)
    BY TrackedLess
  <2> QED
    BY <2>1 DEF Charged
<1>10. \A s \in Slot : Due(p, e, s) = Due(p, d, s) /\ Excuse(p.out, e, s) = Excuse(p.out, d, s)
  BY <1>3 DEF Due, RestartOpen, Excuse
<1>11. \A s \in Slot : e.counted[s] <= e.died[s]
  BY DEF Balanced, Covered
<1>12. \A s \in Slot : /\ Due(p, d, s) \in {0, 1} /\ Excuse(p.out, d, s) \in {0, 1}
                       /\ d.died[s] \in Nat
  BY DEF Due, Excuse, Tidy, WorldOK
<1>13. \A s \in Slot : ~e.stops =>
              Due(p, e, s) + Excuse(p.out, d, s) + d.died[s]
                 <= Due(p, d, s) + Excuse(p.out, e, s) + e.died[s]
  BY <1>10, <1>12
<1>14. d.stops => e.stops
  OBVIOUS
<1>15. Balanced(p, e)
  BY <1>8, <1>9, <1>11, <1>13, <1>14, BalanceMoves
<1> QED
  BY <1>8, <1>15

\* A command is given, at the end of the queue.
Asks(d, e, c) ==
    /\ WorldOK(e) /\ e.held = d.held /\ e.counted = d.counted /\ e.died = d.died
    /\ c \in CommandMsg /\ e.asked = Append(d.asked, c)

LEMMA AskedLast ==
    ASSUME NEW d, WorldOK(d), NEW e, NEW c, Asks(d, e, c)
    PROVE  /\ Len(d.asked) + 1 \notin DOMAIN d.asked /\ e.asked[Len(d.asked) + 1] = c
           /\ \A n \in DOMAIN d.asked : e.asked[n] = d.asked[n]
           /\ \A type : Wanted(e, type) = IF c.type = type
                                          THEN Wanted(d, type) \cup {Len(d.asked) + 1}
                                          ELSE Wanted(d, type)
<1>1. /\ d.asked \in Seq(CommandMsg) /\ c \in CommandMsg /\ e.asked = Append(d.asked, c)
  BY DEF Asks, WorldOK
<1>2. /\ Len(d.asked) \in Nat /\ DOMAIN d.asked = 1..Len(d.asked)
      /\ DOMAIN e.asked = 1..Len(d.asked) + 1
      /\ e.asked[Len(d.asked) + 1] = c
      /\ \A n \in 1..Len(d.asked) : e.asked[n] = d.asked[n]
  BY <1>1
<1>3. DOMAIN e.asked = DOMAIN d.asked \cup {Len(d.asked) + 1} /\ Len(d.asked) + 1 \notin DOMAIN d.asked
  BY <1>2
<1> QED
  BY <1>2, <1>3 DEF Wanted

\* What a command leaves alone.
LEMMA AskingTidy ==
    ASSUME NEW p, NEW d, Tidy(p, d), NEW e, NEW c, Asks(d, e, c), d.stops => e.stops,
           e.reloads + e.restarts <= 1, ReloadOnce(p, e), RestartOnce(p, e), Agreed(p, e)
    PROVE  Tidy(p, e)
<1>1. Exits(p, e) /\ Onlines(p, e) /\ Secrets(p, e)
  BY DEF Tidy, Asks, Exits, Onlines, Secrets, Secret
<1>2. ~e.stops => \A w \in Mapped(p) : Doomed(p, e, w)
  BY DEF Tidy, Asks, Doomed
<1> QED
  BY <1>1, <1>2 DEF Tidy, Asks

LEMMA AskingReloadKeeps ==
    ASSUME NEW p, NEW d, Tidy(p, d), Balanced(p, d), NEW e, NEW c, Asks(d, e, c),
           c.type = "reload", e.waits, e.excused = d.excused, e.stops = d.stops,
           e.reloads = d.reloads + 1, e.restarts = d.restarts, e.reloads + e.restarts <= 1
    PROVE  Tidy(p, e) /\ Balanced(p, e)
<1>0. WorldOK(d) /\ WorldOK(e) /\ ReloadOnce(p, d) /\ RestartOnce(p, d) /\ Agreed(p, d)
  BY DEF Tidy, Asks
<1>1. d.reloads = 0 /\ d.restarts = 0 /\ e.reloads # 0 /\ e.restarts = 0
  BY <1>0 DEF WorldOK
<1>2. /\ \A n \in DOMAIN d.asked : e.asked[n] = d.asked[n]
      /\ Wanted(e, "reload") = Wanted(d, "reload") \cup {Len(d.asked) + 1}
      /\ Wanted(e, "restart-worker") = Wanted(d, "restart-worker")
      /\ Wanted(e, "shutdown") = Wanted(d, "shutdown")
  BY <1>0, AskedLast
<1>3. /\ ~p.isReloading /\ Wanted(d, "reload") = {} /\ ~Answered(p.out, End(p))
      /\ p.restarts = {} /\ Wanted(d, "restart-worker") = {} /\ d.excused = {}
  BY <1>0, <1>1 DEF ReloadOnce, RestartOnce
<1>4. ReloadOnce(p, e) /\ RestartOnce(p, e) /\ Agreed(p, e)
  <2>1. ReloadOnce(p, e)
    BY <1>1, <1>2, <1>3 DEF ReloadOnce
  <2>2. RestartOnce(p, e)
    BY <1>0, <1>1, <1>2 DEF RestartOnce
  <2>3. Agreed(p, e)
    BY <1>0, <1>2 DEF Agreed
  <2> QED
    BY <2>1, <2>2, <2>3
<1>5. d.stops => e.stops
  OBVIOUS
<1>6. Tidy(p, e)
  BY <1>4, <1>5, AskingTidy
<1>7. \A s \in Slot : Charged(p.out, e.held[s], e.waits, s)
                          \subseteq Charged(p.out, d.held[s], d.waits, s)
  BY DEF Charged, Asks
<1>8. \A s \in Slot : /\ Due(p, e, s) = 0 /\ Due(p, d, s) = 0
                      /\ Excuse(p.out, e, s) = 0 /\ Excuse(p.out, d, s) = 0
  BY <1>2, <1>3 DEF Due, RestartOpen, Excuse
<1>9. \A s \in Slot : e.counted[s] <= e.died[s] /\ e.died[s] = d.died[s] /\ d.died[s] \in Nat
  BY <1>0 DEF Balanced, Covered, Asks, WorldOK
<1>10. \A s \in Slot : ~e.stops =>
              Due(p, e, s) + Excuse(p.out, d, s) + d.died[s]
                 <= Due(p, d, s) + Excuse(p.out, e, s) + e.died[s]
  BY <1>8, <1>9
<1>11. e.counted = d.counted /\ \A s \in Slot : e.counted[s] <= e.died[s]
  BY <1>9 DEF Asks
<1>12. Balanced(p, e)
  BY <1>5, <1>6, <1>7, <1>10, <1>11, BalanceMoves
<1> QED
  BY <1>6, <1>12

\* A memory restart is asked for together with the excuse for the exit it will cause.
LEMMA AskingRestartKeeps ==
    ASSUME NEW p, NEW d, Tidy(p, d), Balanced(p, d), NEW e, NEW c, Asks(d, e, c),
           c.type = "restart-worker", e.waits = d.waits, e.excused = d.excused \cup {c.slot},
           e.stops = d.stops, e.reloads = d.reloads, e.restarts = d.restarts + 1,
           e.reloads + e.restarts <= 1
    PROVE  Tidy(p, e) /\ Balanced(p, e)
<1>0. WorldOK(d) /\ WorldOK(e) /\ ReloadOnce(p, d) /\ RestartOnce(p, d) /\ Agreed(p, d)
  BY DEF Tidy, Asks
<1>1. d.reloads = 0 /\ d.restarts = 0 /\ e.reloads = 0 /\ e.restarts # 0
  BY <1>0 DEF WorldOK
<1>2. /\ \A n \in DOMAIN d.asked : e.asked[n] = d.asked[n]
      /\ e.asked[Len(d.asked) + 1] = c
      /\ Wanted(e, "reload") = Wanted(d, "reload")
      /\ Wanted(e, "restart-worker") = Wanted(d, "restart-worker") \cup {Len(d.asked) + 1}
      /\ Wanted(e, "shutdown") = Wanted(d, "shutdown")
  BY <1>0, AskedLast
<1>3. /\ p.restarts = {} /\ Wanted(d, "restart-worker") = {} /\ d.excused = {}
      /\ \A s \in Slot : ~FailedIn(p.out, s)
  BY <1>0, <1>1 DEF RestartOnce
<1>4. ReloadOnce(p, e) /\ RestartOnce(p, e) /\ Agreed(p, e)
  <2>1. ReloadOnce(p, e)
    BY <1>0, <1>1, <1>2 DEF ReloadOnce
  <2>2. RestartOnce(p, e)
    BY <1>1, <1>2, <1>3 DEF RestartOnce
  <2>3. Agreed(p, e)
    BY <1>0, <1>2 DEF Agreed
  <2> QED
    BY <2>1, <2>2, <2>3
<1>5. d.stops => e.stops
  OBVIOUS
<1>6. Tidy(p, e)
  BY <1>4, <1>5, AskingTidy
<1>7. \A s \in Slot : Charged(p.out, e.held[s], e.waits, s)
                          \subseteq Charged(p.out, d.held[s], d.waits, s)
  BY DEF Charged, Asks
<1>8. \A s \in Slot : /\ Due(p, e, s) = IF s = c.slot THEN 1 ELSE 0
                      /\ Due(p, d, s) = 0 /\ Excuse(p.out, d, s) = 0
                      /\ Excuse(p.out, e, s) = IF s = c.slot THEN 1 ELSE 0
  <2>1. Wanted(e, "restart-worker") = {Len(d.asked) + 1}
    BY <1>2, <1>3
  <2>2. \A s \in Slot : RestartOpen(p, e, s) <=> s = c.slot
    BY <1>2, <1>3, <2>1 DEF RestartOpen
  <2>3. \A s \in Slot : ~RestartOpen(p, d, s)
    BY <1>3 DEF RestartOpen
  <2> QED
    BY <1>3, <2>2, <2>3 DEF Due, Excuse
<1>9. \A s \in Slot : e.counted[s] <= e.died[s] /\ e.died[s] = d.died[s] /\ d.died[s] \in Nat
  BY <1>0 DEF Balanced, Covered, Asks, WorldOK
<1>10. \A s \in Slot : ~e.stops =>
              Due(p, e, s) + Excuse(p.out, d, s) + d.died[s]
                 <= Due(p, d, s) + Excuse(p.out, e, s) + e.died[s]
  BY <1>8, <1>9
<1>11. e.counted = d.counted /\ \A s \in Slot : e.counted[s] <= e.died[s]
  BY <1>9 DEF Asks
<1>12. Balanced(p, e)
  BY <1>5, <1>6, <1>7, <1>10, <1>11, BalanceMoves
<1> QED
  BY <1>6, <1>12

LEMMA AskingStopKeeps ==
    ASSUME NEW p, NEW d, Tidy(p, d), Balanced(p, d), NEW e, NEW c, Asks(d, e, c),
           c.type = "shutdown", e.waits = d.waits, e.excused = d.excused, e.stops,
           e.reloads = d.reloads, e.restarts = d.restarts
    PROVE  Tidy(p, e) /\ Balanced(p, e)
<1>0. WorldOK(d) /\ WorldOK(e) /\ ReloadOnce(p, d) /\ RestartOnce(p, d)
  BY DEF Tidy, Asks
<1>2. /\ \A n \in DOMAIN d.asked : e.asked[n] = d.asked[n]
      /\ Wanted(e, "reload") = Wanted(d, "reload")
      /\ Wanted(e, "restart-worker") = Wanted(d, "restart-worker")
  BY <1>0, AskedLast
<1>4. ReloadOnce(p, e) /\ RestartOnce(p, e) /\ Agreed(p, e)
  <2>1. ReloadOnce(p, e)
    BY <1>0, <1>2 DEF ReloadOnce
  <2>2. RestartOnce(p, e)
    BY <1>0, <1>2 DEF RestartOnce
  <2>3. Agreed(p, e)
    BY DEF Agreed
  <2> QED
    BY <2>1, <2>2, <2>3
<1>5. e.reloads + e.restarts <= 1
  BY DEF Tidy
<1>6. Tidy(p, e)
  BY <1>4, <1>5, AskingTidy
<1>7. \A s \in Slot : e.counted[s] <= e.died[s]
  BY DEF Balanced, Covered, Asks
<1> QED
  BY <1>6, <1>7 DEF Balanced, Covered
----------------------------------------------------------------------------
(* The actions.                                                            *)

\* The ledger of the daemon and the primary as they stand.
Kept == Tidy(primary, World) /\ Balanced(primary, World)

LEMMA WorldFields ==
    /\ World.held = [s \in Slot |-> Held(s)] /\ World.waits = isReloading
    /\ World.excused = memoryRestarting /\ World.stops = isShuttingDown
    /\ World.counted = slotCrashes /\ World.died = crashed /\ World.asked = commands
    /\ World.reloads = reloads /\ World.restarts = memoryRestarts
BY DEF World

LEMMA WorldFieldsNext ==
    /\ World'.held = [s \in Slot |-> Held(s)'] /\ World'.waits = isReloading'
    /\ World'.excused = memoryRestarting' /\ World'.stops = isShuttingDown'
    /\ World'.counted = slotCrashes' /\ World'.died = crashed' /\ World'.asked = commands'
    /\ World'.reloads = reloads' /\ World'.restarts = memoryRestarts'
BY DEF World

LEMMA WorldStill ==
    ASSUME UNCHANGED local, crashed' = crashed
    PROVE  World' = World
<1>1. /\ clusterWorkers' = clusterWorkers /\ isReloading' = isReloading
      /\ memoryRestarting' = memoryRestarting /\ isShuttingDown' = isShuttingDown
      /\ slotCrashes' = slotCrashes /\ commands' = commands
      /\ reloads' = reloads /\ memoryRestarts' = memoryRestarts
  BY DEF local, given, mirror, modes
<1>2. \A s \in Slot : Held(s)' = Held(s)
  BY <1>1 DEF Held
<1>3. [s \in Slot |-> Held(s)'] = [s \in Slot |-> Held(s)]
  BY <1>2
<1> QED
  BY <1>1, <1>3 DEF World

\* A worker comes online or gets ready: q is what it changes, of which it may tell.
LEMMA WorkerBegins ==
    ASSUME HasParent, NEW p, NEW d, Tidy(p, d), Balanced(p, d), NEW w \in Ids(p),
           ~p.workers[w].killed, p.workers[w].life # "gone", NEW q, IsRecord(q),
           AlikeBut(p, q), q.out = p.out,
           \/ q.workers = [p.workers EXCEPT ![w].life = "online"]
           \/ q.workers = [p.workers EXCEPT ![w].ready = TRUE],
           NEW z, Good(z), NEW m \in Message,
           \/ m.type = "listening"
           \/ m.type = "online" /\ m.pid = w /\ (z = q \/ w \notin p.candidates),
           z = q \/ z = Send(q, m)
    PROVE  Tidy(z, d) /\ Balanced(z, d)
<1>0. Good(p) /\ p.workers \in Seq(Worker) /\ p.workers[w] \in Worker /\ p.out \in Seq(Message)
  BY WorkerTypes DEF Tidy, Good, Shape
<1>1. PICK v \in Worker : /\ q.workers = [p.workers EXCEPT ![w] = v]
                          /\ v.slot = p.workers[w].slot /\ v.life # "gone"
                          /\ v.left = p.workers[w].left /\ v.killed = p.workers[w].killed
  <2>1. CASE q.workers = [p.workers EXCEPT ![w].life = "online"]
    <3>1. [p.workers[w] EXCEPT !.life = "online"] \in Worker
      BY <1>0 DEF Worker
    <3> QED
      BY <1>0, <2>1, <3>1 DEF Worker
  <2>2. CASE q.workers = [p.workers EXCEPT ![w].ready = TRUE]
    <3>1. [p.workers[w] EXCEPT !.ready = TRUE] \in Worker
      BY <1>0 DEF Worker
    <3> QED
      BY <1>0, <2>2, <3>1 DEF Worker
  <2> QED
    BY <2>1, <2>2
<1>2. /\ Ids(q) = Ids(p) /\ q.workers[w] = v
      /\ \A u \in Ids(p) : u # w => q.workers[u] = p.workers[u]
  BY <1>0, <1>1 DEF Ids
<1>3. /\ Mapped(q) = Mapped(p)
      /\ \A u \in Ids(p) : /\ q.workers[u].slot = p.workers[u].slot
                           /\ q.workers[u].left = p.workers[u].left
                           /\ q.workers[u].killed = p.workers[u].killed
  BY <1>1, <1>2 DEF Mapped
<1>4. /\ z.workers = q.workers /\ AlikeBut(p, z)
      /\ z.out = p.out \/ z.out = p.out \o <<m>>
      /\ z # q => z.out = p.out \o <<m>>
  <2>1. LET a == SendAll(q, <<m>>) IN Alike(q, a) /\ a.out = q.out \o <<m>>
    BY SaysFields
  <2> QED
    BY <2>1 DEF Send, Alike, AlikeBut
<1>5. /\ Ids(z) = Ids(p) /\ Mapped(z) = Mapped(p)
      /\ \A u \in Ids(p) : /\ z.workers[u].slot = p.workers[u].slot
                           /\ z.workers[u].left = p.workers[u].left
                           /\ z.workers[u].killed = p.workers[u].killed
  BY <1>2, <1>3, <1>4 DEF Ids, Mapped
<1>6. \/ z.out = p.out
      \/ \E l \in Message : /\ z.out = p.out \o <<l>>
                            /\ \/ l.type \in {"listening", "metrics"}
                               \/ l.type = "online" /\ l.pid = w /\ w \notin p.candidates
  <2>1. CASE z = q
    BY <2>1
  <2>2. CASE z # q
    BY <1>4, <2>2
  <2> QED
    BY <2>1, <2>2
<1>7. AlikeBut(p, z)
  BY <1>4
<1>8. Ids(z) = Ids(p)
  BY <1>5
<1>9. Mapped(z) = Mapped(p)
  BY <1>5
<1>10. \A u \in Ids(p) : /\ z.workers[u].slot = p.workers[u].slot
                         /\ z.workers[u].left = p.workers[u].left
                         /\ z.workers[u].killed = p.workers[u].killed
  BY <1>5
<1> QED
  BY <1>6, <1>7, <1>8, <1>9, <1>10, StartKeeps

\* The messages of a start.
LEMMA StartMessages ==
    ASSUME NEW s \in Slot, NEW w \in Nat
    PROVE  /\ [type |-> "online", slot |-> s, pid |-> w] \in Message
           /\ [type |-> "listening", slot |-> s] \in Message
           /\ [type |-> "metrics", slot |-> s] \in Message
BY DEF Message

LEMMA StartSteps ==
    ASSUME HasParent, PrimaryInv, Kept, WorkerBoots \/ WorkerStarts, UNCHANGED local
    PROVE  Kept'
<1>0. /\ Tidy(primary, World) /\ Balanced(primary, World) /\ Good(primary) /\ Shape(primary)
      /\ IsRecord(primary)
  BY DEF Kept, PrimaryInv, Good, Shape
<1>1. Good(primary')
  BY WorkerTurn DEF WorkerStep, PrimaryInv
<1>2. crashed' = crashed
  BY DEF WorkerBoots, WorkerStarts, Online, Listening, SignalsReady, ByTheBook, history
<1>3. World' = World
  BY <1>2, WorldStill
<1>4. ASSUME NEW w \in Ids(primary), Online(w)
      PROVE  Tidy(primary', World) /\ Balanced(primary', World)
  <2> DEFINE q == [primary EXCEPT !.workers[w].life = "online"]
             m == [type |-> "online", slot |-> primary.workers[w].slot, pid |-> w]
  <2>1. IsRecord(q) /\ AlikeBut(primary, q) /\ q.out = primary.out
    BY <1>0 DEF IsRecord, AlikeBut
  <2>2. \/ q.workers = [primary.workers EXCEPT ![w].life = "online"]
        \/ q.workers = [primary.workers EXCEPT ![w].ready = TRUE]
    BY <1>0 DEF IsRecord
  <2>3. ~primary.workers[w].killed
    BY <1>4 DEF Online
  <2>4. primary.workers[w].life # "gone"
    BY <1>4 DEF Online
  <2>5. primary' = SendUnless(w \in primary.candidates, q, m)
    BY <1>4 DEF Online, Turn
  <2>6. m \in Message
    BY <1>0, IdsAreNumbers, StartMessages
  <2>7. m.type = "online" /\ m.pid = w
    OBVIOUS
  <2> HIDE DEF q, m
  <2>8. \/ m.type = "listening"
        \/ m.type = "online" /\ m.pid = w /\ (primary' = q \/ w \notin primary.candidates)
    BY <2>5, <2>7 DEF SendUnless
  <2>9. primary' = q \/ primary' = Send(q, m)
    BY <2>5 DEF SendUnless
  <2>10. IsRecord(q)
    BY <2>1
  <2>11. AlikeBut(primary, q)
    BY <2>1
  <2>12. q.out = primary.out
    BY <2>1
  <2>13. Tidy(primary, World) /\ Balanced(primary, World)
    BY <1>0
  <2> QED
    BY ONLY HasParent, <1>1, <2>2, <2>3, <2>4, <2>6, <2>8, <2>9, <2>10, <2>11, <2>12, <2>13, <1>4,
       WorkerBegins
<1>5. ASSUME NEW w \in Ids(primary), Listening(w) \/ SignalsReady(w)
      PROVE  Tidy(primary', World) /\ Balanced(primary', World)
  <2> DEFINE q == [primary EXCEPT !.workers[w].ready = TRUE]
             m == [type |-> "listening", slot |-> primary.workers[w].slot]
  <2>1. IsRecord(q) /\ AlikeBut(primary, q) /\ q.out = primary.out
    BY <1>0 DEF IsRecord, AlikeBut
  <2>2. \/ q.workers = [primary.workers EXCEPT ![w].life = "online"]
        \/ q.workers = [primary.workers EXCEPT ![w].ready = TRUE]
    BY <1>0 DEF IsRecord
  <2>3. ~primary.workers[w].killed
    BY <1>5 DEF Listening, SignalsReady, BecomesReady
  <2>4. primary.workers[w].life # "gone"
    BY <1>5 DEF Listening, SignalsReady, BecomesReady
  <2>5. primary' = SendUnless(w \in primary.candidates, q, m) \/ primary' = Send(q, m)
    BY <1>5 DEF Listening, SignalsReady, Turn
  <2>6. m \in Message
    BY <1>0, IdsAreNumbers, StartMessages
  <2>7. m.type = "listening"
    OBVIOUS
  <2> HIDE DEF q, m
  <2>8. \/ m.type = "listening"
        \/ m.type = "online" /\ m.pid = w /\ (primary' = q \/ w \notin primary.candidates)
    BY <2>7
  <2>9. primary' = q \/ primary' = Send(q, m)
    BY <2>5 DEF SendUnless
  <2>10. IsRecord(q)
    BY <2>1
  <2>11. AlikeBut(primary, q)
    BY <2>1
  <2>12. q.out = primary.out
    BY <2>1
  <2>13. Tidy(primary, World) /\ Balanced(primary, World)
    BY <1>0
  <2> QED
    BY ONLY HasParent, <1>1, <2>2, <2>3, <2>4, <2>6, <2>8, <2>9, <2>10, <2>11, <2>12, <2>13, <1>5,
       WorkerBegins
<1>6. Tidy(primary', World) /\ Balanced(primary', World)
  BY <1>4, <1>5 DEF WorkerBoots, WorkerStarts
<1> QED
  BY <1>3, <1>6 DEF Kept

LEMMA ExitIsWoken ==
    ASSUME PrimaryInv, NEW w \in Mapped(primary), Exit(w)
    PROVE  primary' \in Woken(Exited(primary, w), w)
<1>1. Exited(primary, w).restarts = primary.restarts
  BY ExitedKeeps DEF PrimaryInv
<1> DEFINE p == Exited(primary, w)
<1>2. PICK reloadFirst \in IF primary.restarts = {} THEN {TRUE} ELSE BOOLEAN :
         primary' = WakeShutdown(IF reloadFirst THEN WakeRestarts(WakeReload(p, w), w)
                                                ELSE WakeReload(WakeRestarts(p, w), w), w)
  BY DEF Exit, Turn
<1>3. p.restarts = primary.restarts
  BY <1>1
<1> HIDE DEF p
<1>4. primary' \in Woken(p, w)
  BY <1>2, <1>3 DEF Woken
<1> QED
  BY <1>4 DEF p

LEMMA ExitSteps ==
    ASSUME HasParent, PrimaryInv, Kept, WorkerStops \/ WorkerCrashes, UNCHANGED local
    PROVE  Kept'
<1>0. /\ Tidy(primary, World) /\ Balanced(primary, World) /\ Good(primary)
  BY DEF Kept, PrimaryInv
<1>1. ASSUME NEW w \in Ids(primary), Terminates(w) PROVE Kept'
  <2>1. w \in Mapped(primary) /\ Exit(w) /\ (primary.workers[w].left \/ primary.workers[w].killed)
    BY <1>1 DEF Terminates, Mapped
  <2>2. World' = World
    BY <1>1, WorldStill DEF Terminates, ByTheBook, history
  <2>3. primary' \in Woken(Exited(primary, w), w)
    BY <2>1, ExitIsWoken
  <2>4. Tidy(primary', World) /\ Balanced(primary', World)
    BY <1>0, <2>1, <2>3, TerminationKeeps
  <2> QED
    BY <2>2, <2>4 DEF Kept
<1>2. ASSUME NEW w \in Ids(primary), Crash(w) PROVE Kept'
  <2> DEFINE s == primary.workers[w].slot
  <2>1. w \in Mapped(primary) /\ Exit(w) /\ crashed' = [crashed EXCEPT ![s] = @ + 1]
    BY <1>2 DEF Crash, Mapped
  <2>2. s \in Slot /\ crashed \in [Slot -> Nat]
    BY <1>0, IdsAreNumbers DEF PrimaryInv
  <2>3. primary' \in Woken(Exited(primary, w), w)
    BY <2>1, ExitIsWoken
  <2> DEFINE d == World
             e == World'
  <2>4. /\ e.held = d.held /\ e.waits = d.waits /\ e.excused = d.excused
        /\ e.stops = d.stops /\ e.counted = d.counted /\ e.asked = d.asked
        /\ e.reloads = d.reloads /\ e.restarts = d.restarts
    <3>1. /\ clusterWorkers' = clusterWorkers /\ isReloading' = isReloading
          /\ memoryRestarting' = memoryRestarting /\ isShuttingDown' = isShuttingDown
          /\ slotCrashes' = slotCrashes /\ commands' = commands
          /\ reloads' = reloads /\ memoryRestarts' = memoryRestarts
      BY DEF local, given, mirror, modes
    <3>2. [t \in Slot |-> Held(t)'] = [t \in Slot |-> Held(t)]
      BY <3>1 DEF Held
    <3> QED
      BY <3>1, <3>2, WorldFields, WorldFieldsNext
  <2>5. d.died = crashed /\ e.died = [crashed EXCEPT ![s] = @ + 1]
    BY <2>1, WorldFields, WorldFieldsNext
  <2>6. WorldOK(d)
    BY <1>0 DEF Tidy
  <2> HIDE DEF d, e
  <2>7. Struck(d, e, s)
    BY <2>2, <2>4, <2>5, <2>6, SMTT(20) DEF Struck, WorldOK
  <2> QED
    BY <1>0, <2>1, <2>3, <2>7, CrashKeeps DEF Kept, d, e
<1> QED
  BY <1>1, <1>2 DEF WorkerStops, WorkerCrashes

LEMMA ReloadSteps ==
    ASSUME HasParent, PrimaryInv, Kept, ReloadStep, UNCHANGED local
    PROVE  Kept'
<1> DEFINE p == primary
           d == World
<1>0. /\ Tidy(p, d) /\ Balanced(p, d) /\ Good(p)
  BY DEF Kept, PrimaryInv
<1>1. crashed' = crashed
  BY DEF ReloadStep, ReloadReady, ReloadRejected, ReloadBackoffEnds, ReloadPromotes,
         ReloadKillTimeout, ByTheBook, history, Setback
<1>2. World' = d
  BY <1>1, WorldStill
<1> HIDE DEF d
<1>3. CASE ReloadReady
  <2>1. primary.reload.pc = "waiting" /\ primary.workers[primary.reload.new].ready
    BY <1>3 DEF ReloadReady, NewIsReady
  <2>2. primary' = [p EXCEPT !.reload.pc = "settling"]
    BY <1>3 DEF ReloadReady, Turn
  <2> QED
    BY <1>0, <1>2, <2>1, <2>2, ReloadReadyKeeps DEF Kept
<1>4. CASE ReloadRejected
  BY <1>0, <1>2, <1>4, RejectedKeeps DEF Kept, ReloadRejected, Turn
<1>5. CASE ReloadBackoffEnds
  BY <1>0, <1>2, <1>5, BackoffKeeps DEF Kept, ReloadBackoffEnds, Turn
<1>6. CASE ReloadPromotes
  <2>1. primary.reload.pc = "settling"
    BY <1>6 DEF ReloadPromotes
  <2>2. primary' = Leave([p EXCEPT !.reload.pc = "stopping",
                                   !.candidates = @ \ {p.reload.new}], p.reload.old)
    BY <1>6 DEF ReloadPromotes, Turn
  <2> QED
    BY <1>0, <1>2, <2>1, <2>2, ReloadPromotesKeeps DEF Kept
<1>7. CASE ReloadKillTimeout
  <2>1. p.reload.pc = "stopping" /\ primary' = Replaced(Kill(p, p.reload.old))
    BY <1>7 DEF ReloadKillTimeout, Turn
  <2>2. Shape(p) /\ p.reload.old \in Ids(p)
    BY <1>0, <2>1 DEF Good, Linked, Replaces, NoReload
  <2> DEFINE k == Kill(p, p.reload.old)
  <2>3. /\ Shape(k) /\ AlikeBut(p, k) /\ ChangesOnly(p, k, p.reload.old) /\ k.out = p.out
        /\ Mapped(k) = Mapped(p)
        /\ p.reload.old \in Mapped(p) => k.workers[p.reload.old].killed
    BY <2>2, KillMore
  <2>4. /\ k.workers[p.reload.old].life = p.workers[p.reload.old].life
        /\ k.workers[p.reload.old].ready = p.workers[p.reload.old].ready
        /\ ~Safe(k, p.reload.old)
    BY <2>2, KillFields
  <2>5. primary' = Replaced(k)
    BY <2>1
  <2> HIDE DEF k
  <2>6. Good(k)
    BY <1>0, <2>2, <2>3, <2>4, FlagsAreGood DEF AlikeBut
  <2>7. AlikeBut(p, k)
    BY <2>3
  <2>8. ChangesOnly(p, k, p.reload.old)
    BY <2>3
  <2>9. k.out = p.out
    BY <2>3
  <2>10. Mapped(k) = Mapped(p)
    BY <2>3
  <2>11. p.reload.old \in Mapped(p) => k.workers[p.reload.old].killed
    BY <2>3
  <2>12. Tidy(Replaced(k), d) /\ Balanced(Replaced(k), d)
    BY <1>0, <2>1, <2>6, <2>7, <2>8, <2>9, <2>10, <2>11, ReplacedKeeps
  <2> QED
    BY <1>2, <2>5, <2>12 DEF Kept
<1> QED
  BY <1>3, <1>4, <1>5, <1>6, <1>7 DEF ReloadStep

LEMMA RestartSteps ==
    ASSUME HasParent, PrimaryInv, Kept, RestartStep, UNCHANGED local
    PROVE  Kept'
<1> DEFINE p == primary
           d == World
<1>0. /\ Tidy(p, d) /\ Balanced(p, d) /\ Good(p)
  BY DEF Kept, PrimaryInv
<1>1. crashed' = crashed
  BY DEF RestartStep, RestartReady, RestartFails, RestartPromotes, RestartKillTimeout,
         ByTheBook, history, Setback
<1>2. World' = d
  BY <1>1, WorldStill
<1> HIDE DEF d
<1>3. ASSUME NEW r \in p.restarts, RestartReady(r) PROVE Kept'
  <2>1. r.pc = "waiting" /\ primary.workers[r.new].ready
    BY <1>3 DEF RestartReady, NewIsReady
  <2>2. primary' = RestartMoves(p, r, "settling")
    BY <1>3 DEF RestartReady, Turn
  <2> QED
    BY <1>0, <1>2, <1>3, <2>1, <2>2, RestartReadyKeeps DEF Kept
<1>4. ASSUME NEW r \in p.restarts, RestartFails(r) PROVE Kept'
  BY <1>0, <1>2, <1>4, RestartRejectedKeeps DEF Kept, RestartFails, Turn
<1>5. ASSUME NEW r \in p.restarts, RestartPromotes(r) PROVE Kept'
  <2>1. r.pc = "settling"
    BY <1>5 DEF RestartPromotes
  <2>2. primary' = Leave([RestartMoves(p, r, "stopping") EXCEPT !.candidates = @ \ {r.new}], r.old)
    BY <1>5 DEF RestartPromotes, Turn
  <2> QED
    BY <1>0, <1>2, <1>5, <2>1, <2>2, RestartPromotesKeeps DEF Kept
<1>6. ASSUME NEW r \in p.restarts, RestartKillTimeout(r) PROVE Kept'
  <2>1. r.pc = "stopping" /\ primary' = RestartsDone(Kill(p, r.old), {r})
    BY <1>6 DEF RestartKillTimeout, Turn
  <2>2. Shape(p) /\ r.old \in Ids(p) /\ Replaces(p, r)
    BY <1>0, <1>6 DEF Good, Linked, Replaces
  <2> DEFINE k == Kill(p, r.old)
  <2>3. /\ Shape(k) /\ AlikeBut(p, k) /\ ChangesOnly(p, k, r.old) /\ k.out = p.out
        /\ Mapped(k) = Mapped(p)
        /\ r.old \in Mapped(p) => k.workers[r.old].killed
    BY <2>2, KillMore
  <2>4. /\ k.workers[r.old].life = p.workers[r.old].life
        /\ k.workers[r.old].ready = p.workers[r.old].ready
        /\ ~Safe(k, r.old)
    BY <2>2, KillFields
  <2>5. primary' = RestartsDone(k, {r})
    BY <2>1
  <2> HIDE DEF k
  <2>6. Good(k)
    BY <1>0, <2>2, <2>3, <2>4, FlagsAreGood DEF AlikeBut
  <2>7. AlikeBut(p, k)
    BY <2>3
  <2>8. ChangesOnly(p, k, r.old)
    BY <2>3
  <2>9. k.out = p.out
    BY <2>3
  <2>10. Mapped(k) = Mapped(p)
    BY <2>3
  <2>11. r.old \in Mapped(p) => k.workers[r.old].killed
    BY <2>3
  <2>12. Tidy(RestartsDone(k, {r}), d) /\ Balanced(RestartsDone(k, {r}), d)
    BY <1>0, <1>6, <2>1, <2>6, <2>7, <2>8, <2>9, <2>10, <2>11, RestartDoneKeeps
  <2> QED
    BY <1>2, <2>5, <2>12 DEF Kept
<1> QED
  BY <1>3, <1>4, <1>5, <1>6 DEF RestartStep

LEMMA KillTimeoutStep ==
    ASSUME PrimaryInv, Kept, ShutdownKillTimeout, UNCHANGED local
    PROVE  Kept'
<1>0. Tidy(primary, World) /\ Balanced(primary, World) /\ Good(primary)
  BY DEF Kept, PrimaryInv
<1>1. Good(primary')
  BY ShutdownTurn DEF PrimaryInv
<1>2. World' = World
  BY WorldStill DEF ShutdownKillTimeout
<1> DEFINE q == [primary EXCEPT !.stopping = {}, !.exited = TRUE]
<1>3. primary' = q
  BY DEF ShutdownKillTimeout, Turn
<1>4. /\ q.workers = primary.workers /\ q.candidates = primary.candidates
      /\ q.reload = primary.reload /\ q.restarts = primary.restarts
      /\ q.isShuttingDown = primary.isShuttingDown /\ q.isReloading = primary.isReloading
      /\ q.out = primary.out
  BY <1>0 DEF Good, Shape, IsRecord
<1> HIDE DEF q
<1>5. Tidy(q, World) /\ Balanced(q, World)
  BY <1>0, <1>1, <1>3, <1>4, StillKeeps
<1> QED
  BY <1>2, <1>3, <1>5 DEF Kept

LEMMA PrimarySteps ==
    ASSUME HasParent, PrimaryInv, Kept, PrimaryStep, UNCHANGED local
    PROVE  PrimaryInv' /\ Kept'
<1>1. CASE WorkerStep
  BY <1>1, WorkerTurn, StartSteps, ExitSteps DEF WorkerStep
<1>2. CASE ReloadStep
  BY <1>2, ReloadTurn, ReloadSteps
<1>3. CASE RestartStep
  BY <1>3, RestartTurn, RestartSteps
<1>4. CASE ShutdownKillTimeout
  BY <1>4, ShutdownTurn, KillTimeoutStep
<1> QED
  BY <1>1, <1>2, <1>3, <1>4 DEF PrimaryStep

\* The primary takes the first of the commands.
LEMMA CommandSteps ==
    ASSUME HasParent, PrimaryInv, Kept, TakeCommand
    PROVE  PrimaryInv' /\ Kept'
<1> DEFINE p == primary
           d == World
           e == World'
           c == Head(commands)
<1>0. /\ Tidy(p, d) /\ Balanced(p, d) /\ Good(p)
  BY DEF Kept, PrimaryInv
<1>1. /\ commands # <<>> /\ commands' = Tail(commands)
      /\ UNCHANGED <<given, mirror, modes>>
      /\ \/ c.type = "reload" /\ TakesReload
         \/ c.type = "restart-worker" /\ TakesRestart(c.slot)
         \/ c.type = "shutdown" /\ TakesShutdown
  BY DEF TakeCommand
<1>2. crashed' = crashed /\ crashedInReload' = crashedInReload /\ setbacks' = setbacks
  BY <1>1 DEF TakesReload, TakesRestart, TakesShutdown, ByTheBook, history
<1>3. /\ e.held = d.held /\ e.waits = d.waits /\ e.excused = d.excused
      /\ e.stops = d.stops /\ e.counted = d.counted /\ e.died = d.died
      /\ e.reloads = d.reloads /\ e.restarts = d.restarts
      /\ d.asked = commands /\ e.asked = commands'
  <2>1. /\ clusterWorkers' = clusterWorkers /\ isReloading' = isReloading
        /\ memoryRestarting' = memoryRestarting /\ isShuttingDown' = isShuttingDown
        /\ slotCrashes' = slotCrashes
        /\ reloads' = reloads /\ memoryRestarts' = memoryRestarts
    BY <1>1 DEF given, mirror, modes
  <2>2. [t \in Slot |-> Held(t)'] = [t \in Slot |-> Held(t)]
    BY <2>1 DEF Held
  <2> QED
    BY <1>2, <2>1, <2>2, WorldFields, WorldFieldsNext
<1>4. WorldOK(d)
  BY <1>0 DEF Tidy
<1> HIDE DEF d, e
<1>5. commands' \in Seq(CommandMsg)
  BY <1>1, <1>3, <1>4, HeadTailProperties DEF WorldOK
<1>6. Taken(d, e, c)
  BY <1>1, <1>3, <1>4, <1>5 DEF Taken, WorldOK
<1>7. c.type = "restart-worker" => c.slot \in Slot
  BY <1>4, <1>6, AskedTail
<1> HIDE DEF c
<1>8. CASE c.type = "reload" /\ TakesReload
  <2>1. primary' = Reload(p)
    BY <1>8 DEF TakesReload, Turn
  <2>2. Fine(primary, primary')
    BY <1>0, <2>1, ReloadIsFine
  <2>3. PrimaryInv'
    BY <1>2, <2>2, FineTurn DEF PrimaryInv
  <2>4. Tidy(Reload(p), e) /\ Balanced(Reload(p), e)
    BY <1>0, <1>6, <1>8, TakesReloadKeeps
  <2> QED
    BY <2>1, <2>3, <2>4 DEF Kept, e
<1>9. CASE c.type = "restart-worker" /\ TakesRestart(c.slot)
  <2>1. primary' = RestartWorker(p, c.slot)
    BY <1>9 DEF TakesRestart, Turn
  <2>2. Fine(primary, primary')
    BY <1>0, <1>7, <1>9, <2>1, RestartWorkerIsFine
  <2>3. PrimaryInv'
    BY <1>2, <2>2, FineTurn DEF PrimaryInv
  <2>4. Tidy(RestartWorker(p, c.slot), e) /\ Balanced(RestartWorker(p, c.slot), e)
    BY <1>0, <1>6, <1>9, TakesRestartKeeps
  <2> QED
    BY <2>1, <2>3, <2>4 DEF Kept, e
<1>10. CASE c.type = "shutdown" /\ TakesShutdown
  <2>1. primary' = Shutdown(p)
    BY <1>10 DEF TakesShutdown, Turn
  <2>2. PrimaryInv'
    BY <1>10, ShutdownTurn
  <2>3. Tidy(Shutdown(p), e) /\ Balanced(Shutdown(p), e)
    BY <1>0, <1>6, <1>10, TakesShutdownKeeps
  <2> QED
    BY <2>1, <2>2, <2>3 DEF Kept, e
<1> QED
  BY <1>1, <1>8, <1>9, <1>10
----------------------------------------------------------------------------
(* The daemon's records.                                                   *)

RecordsOK == clusterWorkers \in [Slot -> Record \cup {Absent}]

LEMMA HeldTypes ==
    ASSUME RecordsOK, NEW s \in Slot
    PROVE  /\ Held(s) \in Nat
           /\ Known(s) \in Record /\ Known(s).pid = Held(s)
<1>1. CASE clusterWorkers[s] = Absent
  BY <1>1 DEF Held, Known, Record
<1>2. CASE clusterWorkers[s] # Absent
  <2>1. clusterWorkers[s] \in Record
    BY <1>2 DEF RecordsOK
  <2> QED
    BY <1>2, <2>1 DEF Held, Known, Record
<1> QED
  BY <1>1, <1>2

\* One record is made, changed or dropped.
LEMMA RecordSet ==
    ASSUME RecordsOK, NEW t \in Slot, NEW r \in Record \cup {Absent},
           clusterWorkers' = [clusterWorkers EXCEPT ![t] = r]
    PROVE  /\ RecordsOK'
           /\ \A s \in Slot : s # t => Held(s)' = Held(s)
           /\ Held(t)' = IF r = Absent THEN 0 ELSE r.pid
<1>1. RecordsOK'
  BY DEF RecordsOK
<1>2. clusterWorkers'[t] = r /\ \A s \in Slot : s # t => clusterWorkers'[s] = clusterWorkers[s]
  BY DEF RecordsOK
<1> QED
  BY <1>1, <1>2 DEF Held

\* Each record keeps its pid or is dropped.
LEMMA RecordsKept ==
    ASSUME RecordsOK, NEW f \in [Slot -> Record \cup {Absent}], clusterWorkers' = f,
           \A s \in Slot : f[s] # Absent => clusterWorkers[s] # Absent
                                             /\ f[s].pid = clusterWorkers[s].pid
    PROVE  RecordsOK' /\ \A s \in Slot : Held(s)' \in {Held(s), 0}
BY DEF RecordsOK, Held

LEMMA HeldWorld ==
    ASSUME RecordsOK'
    PROVE  World'.held \in [Slot -> Nat] /\ \A s \in Slot : World'.held[s] = Held(s)'
<1>1. \A s \in Slot : Held(s)' \in Nat
  <2>1. \A s \in Slot : clusterWorkers'[s] \in Record \cup {Absent}
    BY DEF RecordsOK
  <2> QED
    BY <2>1 DEF Held, Record
<1> QED
  BY <1>1, WorldFieldsNext

\* The primary's record without the message that was heard.
LEMMA HeardFields ==
    ASSUME NEW p, Good(p), NEW q, q = [p EXCEPT !.out = Tail(@)]
    PROVE  /\ Good(q) /\ Fine(p, q) /\ Alike(p, q) /\ q.out = Tail(p.out)
<1>1. IsRecord(q) /\ Alike(p, q) /\ q.out = Tail(p.out)
  BY DEF Good, Shape, IsRecord, Alike, AlikeBut
<1>2. Shape(q)
  BY <1>1 DEF Good, Shape, Alike, AlikeBut, Ids
<1>3. Fine(p, q)
  BY <1>1, <1>2, QuietIsFine DEF Alike, AlikeBut
<1> QED
  BY <1>1, <1>3 DEF Fine

\* What hearing a message does, whatever it is, when the daemon's records are known.
LEMMA HearingWorld ==
    ASSUME NEW m, PrimaryInv, Kept, Deliver, m = Head(primary.out), RecordsOK',
           slotCrashes' \in [Slot -> Nat],
           memoryRestarting' \subseteq memoryRestarting, isShuttingDown' = isShuttingDown,
           isReloading' \in BOOLEAN,
           \A s \in Slot :
              Held(s)' \in {IF m.type = "online" /\ m.slot = s THEN m.pid ELSE Held(s), 0},
           IF m.type = "complete" THEN ~isReloading' ELSE isReloading' = isReloading
    PROVE  Hears(primary, primary', World, World', m)
<1> DEFINE p == primary
           q == primary'
           d == World
           e == World'
<1>0. Good(p) /\ WorldOK(d)
  BY DEF PrimaryInv, Kept, Tidy
<1>1. /\ p.out # <<>> /\ q = [p EXCEPT !.out = Tail(@)]
      /\ UNCHANGED given /\ UNCHANGED history /\ commands' = commands
  BY DEF Deliver
<1>2. Alike(p, q) /\ q.out = Tail(p.out)
  BY <1>0, <1>1, HeardFields
<1>3. /\ e.held \in [Slot -> Nat] /\ e.waits = isReloading' /\ e.excused = memoryRestarting'
      /\ e.stops = isShuttingDown' /\ e.counted = slotCrashes' /\ e.died = crashed
      /\ e.asked = commands /\ e.reloads = reloads /\ e.restarts = memoryRestarts
      /\ \A s \in Slot : e.held[s] = Held(s)'
  BY <1>1, HeldWorld, WorldFieldsNext DEF given, history
<1>4. /\ d.waits = isReloading /\ d.excused = memoryRestarting /\ d.stops = isShuttingDown
      /\ d.counted = slotCrashes /\ d.died = crashed /\ d.asked = commands /\ d.reloads = reloads
      /\ d.restarts = memoryRestarts
      /\ \A s \in Slot : d.held[s] = Held(s)
  BY WorldFields
<1> HIDE DEF p, q, d, e
<1>5. WorldOK(e)
  BY <1>0, <1>3, <1>4 DEF WorldOK
<1>6. \A s \in Slot :
          e.held[s] \in {IF m.type = "online" /\ m.slot = s THEN m.pid ELSE d.held[s], 0}
  BY <1>3, <1>4
<1>7. IF m.type = "complete" THEN ~e.waits ELSE e.waits = d.waits
  BY <1>3, <1>4
<1>8. m = Head(p.out)
  BY DEF p
<1>9. Hears(p, q, d, e, m)
  BY <1>1, <1>2, <1>3, <1>4, <1>5, <1>6, <1>7, <1>8 DEF Hears, Alike, AlikeBut
<1> QED
  BY <1>9 DEF p, q, d, e

\* The daemon handles a message.
\* What hearing message m does to the records, ...
Hearing(m) ==
    \/ m.type = "online" /\ HearsOnline(m)
    \/ m.type = "listening" /\ HearsListening(m)
    \/ m.type = "exit" /\ HearsExit(m)
    \/ m.type = "metrics" /\ HearsMetrics(m)
    \/ m.type = "complete" /\ HearsComplete(m)
    \/ m.type = "failed" /\ HearsFailed(m)

LEMMA HeardRecords ==
    ASSUME RecordsOK, NEW m \in Message, Hearing(m)
    PROVE  /\ RecordsOK'
           /\ \A s \in Slot :
                 Held(s)' \in {IF m.type = "online" /\ m.slot = s THEN m.pid ELSE Held(s), 0}
<1>1. /\ m.type \in {"online", "exit"} => m.slot \in Slot /\ m.pid \in Nat
      /\ m.type # "complete" => m.slot \in Slot
  BY MessageTypes
<1>2. CASE m.type = "online" /\ HearsOnline(m)
  <2> DEFINE r == [Known(m.slot) EXCEPT !.pid = m.pid, !.ready = FALSE, !.errored = FALSE]
  <2>1. clusterWorkers' = [clusterWorkers EXCEPT ![m.slot] = r]
    BY <1>2 DEF HearsOnline
  <2>2. r \in Record /\ r.pid = m.pid
    BY <1>1, <1>2, HeldTypes DEF Record
  <2> HIDE DEF r
  <2>3. /\ RecordsOK' /\ \A s \in Slot : s # m.slot => Held(s)' = Held(s)
        /\ Held(m.slot)' \in {m.pid, 0}
    BY <1>1, <1>2, <2>1, <2>2, RecordSet
  <2> QED
    BY <1>2, <2>3
<1>3. CASE m.type = "listening" /\ HearsListening(m)
  <2> DEFINE r == [Known(m.slot) EXCEPT !.ready = TRUE, !.errored = FALSE]
  <2>1. clusterWorkers' = [clusterWorkers EXCEPT ![m.slot] = r]
    BY <1>3 DEF HearsListening
  <2>2. r \in Record /\ r.pid = Held(m.slot)
    BY <1>1, <1>3, HeldTypes DEF Record
  <2> HIDE DEF r
  <2>3. /\ RecordsOK' /\ \A s \in Slot : s # m.slot => Held(s)' = Held(s)
        /\ Held(m.slot)' \in {Held(m.slot), 0}
    BY <1>1, <1>3, <2>1, <2>2, RecordSet
  <2> QED
    BY <1>3, <2>3
<1>4. CASE m.type = "metrics" /\ HearsMetrics(m)
  <2>1. RecordsOK' /\ \A s \in Slot : Held(s)' \in {Held(s), 0}
    <3>1. CASE clusterWorkers[m.slot] # Absent /\ clusterWorkers[m.slot].errored
      <4> DEFINE r == [clusterWorkers[m.slot] EXCEPT !.errored = FALSE, !.ready = TRUE]
      <4>1. clusterWorkers[m.slot] \in Record
        BY <1>1, <1>4, <3>1 DEF RecordsOK
      <4>2. clusterWorkers' = [clusterWorkers EXCEPT ![m.slot] = r]
        BY <1>1, <1>4, <3>1 DEF HearsMetrics, RecordsOK
      <4>3. r \in Record /\ r.pid = Held(m.slot)
        BY <3>1, <4>1 DEF Record, Held
      <4> HIDE DEF r
      <4>4. /\ RecordsOK' /\ \A s \in Slot : s # m.slot => Held(s)' = Held(s)
            /\ Held(m.slot)' \in {Held(m.slot), 0}
        BY <1>1, <1>4, <4>2, <4>3, RecordSet
      <4> QED
        BY <4>4
    <3>2. CASE ~(clusterWorkers[m.slot] # Absent /\ clusterWorkers[m.slot].errored)
      <4>1. clusterWorkers' = clusterWorkers
        BY <1>4, <3>2 DEF HearsMetrics
      <4> QED
        BY <4>1 DEF RecordsOK, Held
    <3> QED
      BY <3>1, <3>2
  <2> QED
    BY <1>4, <2>1
<1>5. CASE m.type = "failed" /\ HearsFailed(m)
  BY <1>5 DEF HearsFailed, mirror, RecordsOK, Held
<1>6. CASE m.type = "complete" /\ HearsComplete(m)
  <2> DEFINE f == [s \in Slot |-> IF clusterWorkers[s] = Absent THEN Absent
                         ELSE [clusterWorkers[s] EXCEPT
                                 !.stale = ~AllSucceeded(m) /\ (@ \/ s \in MarkedStale(m))]]
  <2>1. clusterWorkers' = f
    BY <1>6 DEF HearsComplete
  <2>2. ASSUME NEW s \in Slot
        PROVE  /\ f[s] \in Record \cup {Absent}
               /\ f[s] # Absent => clusterWorkers[s] # Absent /\ f[s].pid = clusterWorkers[s].pid
    <3>1. CASE clusterWorkers[s] = Absent
      BY <3>1
    <3>2. CASE clusterWorkers[s] # Absent
      <4> DEFINE stale == ~AllSucceeded(m) /\ (clusterWorkers[s].stale \/ s \in MarkedStale(m))
      <4>1. clusterWorkers[s] \in Record /\ stale \in BOOLEAN
        BY <3>2 DEF RecordsOK
      <4>2. f[s] = [clusterWorkers[s] EXCEPT !.stale = stale]
        BY <3>2
      <4> HIDE DEF stale, f
      <4> QED
        BY <3>2, <4>1, <4>2 DEF Record
    <3> QED
      BY <3>1, <3>2
  <2>3. f \in [Slot -> Record \cup {Absent}]
    BY <2>2
  <2> HIDE DEF f
  <2>4. RecordsOK' /\ \A s \in Slot : Held(s)' \in {Held(s), 0}
    BY <2>1, <2>2, <2>3, RecordsKept
  <2> QED
    BY <1>6, <2>4
<1>7. CASE m.type = "exit" /\ HearsExit(m)
  <2>1. CASE ~Tracks(m.slot, m.pid)
    <3>1. clusterWorkers' = clusterWorkers
      BY <1>7, <2>1 DEF HearsExit
    <3> QED
      BY <1>7, <3>1 DEF RecordsOK, Held
  <2>2. CASE Tracks(m.slot, m.pid)
    <3>1. clusterWorkers' = [clusterWorkers EXCEPT ![m.slot] = Absent]
      BY <1>7, <2>2 DEF HearsExit
    <3>2. /\ RecordsOK' /\ \A s \in Slot : s # m.slot => Held(s)' = Held(s)
          /\ Held(m.slot)' = 0
      BY <1>1, <1>7, <3>1, RecordSet
    <3> QED
      BY <1>7, <3>2
  <2> QED
    BY <2>1, <2>2
<1> QED
  BY <1>2, <1>3, <1>4, <1>5, <1>6, <1>7 DEF Hearing

\* ... and to everything else.
Tally(m) ==
    IF m.type = "exit" /\ Tracks(m.slot, m.pid)
    THEN /\ slotCrashes' = [slotCrashes EXCEPT
                              ![m.slot] = IF Deliberate(m.slot) THEN @ ELSE @ + 1]
         /\ memoryRestarting' = memoryRestarting \ {m.slot}
    ELSE /\ slotCrashes' = slotCrashes
         /\ memoryRestarting' = IF m.type = "failed" THEN memoryRestarting \ {m.slot}
                                                     ELSE memoryRestarting

LEMMA HeardModes ==
    ASSUME NEW m, Hearing(m)
    PROVE  /\ isShuttingDown' = isShuttingDown /\ gaveUp' = gaveUp
           /\ IF m.type = "complete" THEN isReloading' = FALSE ELSE isReloading' = isReloading
           /\ Tally(m)
BY DEF Hearing, HearsOnline, HearsListening, HearsExit, HearsMetrics, HearsComplete, HearsFailed,
       EndsReload, Tally, mirror, modes

LEMMA HeadHeard ==
    ASSUME PrimaryInv, primary.out \in Seq(Message), Deliver
    PROVE  /\ PrimaryInv'
           /\ primary.out # <<>> /\ primary'.out = Tail(primary.out) /\ Alike(primary, primary')
           /\ commands' = commands
           /\ \E m \in Message : m = Head(primary.out) /\ Hearing(m)
<1>1. Good(primary)
  BY DEF PrimaryInv
<1>2. /\ primary.out # <<>> /\ primary' = [primary EXCEPT !.out = Tail(@)]
      /\ UNCHANGED history /\ commands' = commands /\ Hearing(Head(primary.out))
  BY DEF Deliver, Hearing
<1>3. /\ Fine(primary, primary') /\ Alike(primary, primary')
      /\ primary'.out = Tail(primary.out)
  BY <1>1, <1>2, HeardFields
<1>4. PrimaryInv'
  BY <1>2, <1>3, FineTurn DEF history, PrimaryInv
<1>5. Head(primary.out) \in Message
  BY <1>2, TailOf
<1> QED
  BY <1>2, <1>3, <1>4, <1>5

LEMMA DeliverStep ==
    ASSUME PrimaryInv, RecordsOK, Kept, Deliver
    PROVE  PrimaryInv' /\ RecordsOK' /\ Kept'
<1>0. /\ Good(primary) /\ WorldOK(World) /\ primary.out \in Seq(Message)
      /\ Tidy(primary, World) /\ Balanced(primary, World)
  BY DEF PrimaryInv, Kept, Tidy
<1>1. PICK m \in Message : m = Head(primary.out) /\ Hearing(m)
  BY <1>0, HeadHeard
<1>2. PrimaryInv' /\ Good(primary')
  BY <1>0, HeadHeard DEF PrimaryInv
<1>3. /\ RecordsOK'
      /\ \A s \in Slot :
            Held(s)' \in {IF m.type = "online" /\ m.slot = s THEN m.pid ELSE Held(s), 0}
  BY <1>1, HeardRecords
<1>4. /\ isShuttingDown' = isShuttingDown /\ Tally(m)
      /\ IF m.type = "complete" THEN isReloading' = FALSE ELSE isReloading' = isReloading
  BY <1>1, HeardModes
<1>5. m.type \in {"online", "exit"} => m.slot \in Slot /\ m.pid \in Nat
  BY MessageTypes
<1>6. /\ slotCrashes \in [Slot -> Nat] /\ isReloading \in BOOLEAN /\ memoryRestarting \subseteq Slot
  BY <1>0, WorldFields DEF WorldOK
<1>7. isReloading' \in BOOLEAN /\ memoryRestarting' \subseteq memoryRestarting
      /\ IF m.type = "complete" THEN ~isReloading' ELSE isReloading' = isReloading
  BY <1>4, <1>6 DEF Tally
<1>8. slotCrashes' \in [Slot -> Nat]
  BY <1>4, <1>5, <1>6 DEF Tally
<1>9. Hears(primary, primary', World, World', m)
  BY <1>1, <1>3, <1>4, <1>7, <1>8, HearingWorld
<1>10. CASE ~(m.type = "exit" /\ Tracks(m.slot, m.pid))
  <2>1. World'.counted = World.counted
    BY <1>4, <1>10, WorldFields, WorldFieldsNext DEF Tally
  <2>2. World'.excused = IF m.type = "failed" THEN World.excused \ {m.slot} ELSE World.excused
    BY <1>4, <1>10, WorldFields, WorldFieldsNext DEF Tally
  <2>3. Tidy(primary', World') /\ Balanced(primary', World')
    BY <1>0, <1>2, <1>9, <2>1, <2>2, HeardOther
  <2> QED
    BY <1>2, <1>3, <2>3 DEF Kept
<1>11. CASE m.type = "exit" /\ Tracks(m.slot, m.pid)
  <2>1. Held(m.slot) = m.pid
    BY <1>11 DEF Tracks, Held
  <2> DEFINE d == World
             e == World'
  <2>2. /\ d.held[m.slot] = m.pid /\ e.excused = d.excused \ {m.slot}
        /\ e.counted = [d.counted EXCEPT
                        ![m.slot] = IF d.stops \/ d.waits \/ m.slot \in d.excused
                                    THEN @ ELSE @ + 1]
    BY <1>4, <1>5, <1>11, <2>1, WorldFields, WorldFieldsNext DEF Deliberate, Tally
  <2>3. Tidy(primary, d) /\ Balanced(primary, d) /\ Good(primary')
    BY <1>0, <1>2
  <2>4. Hears(primary, primary', d, e, m) /\ m.type = "exit"
    BY <1>9, <1>11
  <2> HIDE DEF d, e
  <2>5. Tidy(primary', e) /\ Balanced(primary', e)
    BY ONLY <2>2, <2>3, <2>4, HeardExit
  <2> QED
    BY <1>2, <1>3, <2>5 DEF Kept, e
<1> QED
  BY <1>10, <1>11

\* The daemon's commands and timers leave the primary alone.
LEMMA PrimaryStays ==
    ASSUME PrimaryInv, primary' = primary, crashed' = crashed,
           crashedInReload' = crashedInReload, setbacks' \in 0..MaxSetbacks
    PROVE  PrimaryInv'
BY DEF PrimaryInv

\* Records are dropped or change in what does not matter here.
LEMMA RecordStep ==
    ASSUME PrimaryInv, RecordsOK, Kept, RecordsOK', \A s \in Slot : Held(s)' \in {Held(s), 0},
           UNCHANGED <<primary, given, history, commands, slotCrashes, modes>>
    PROVE  PrimaryInv' /\ Kept'
<1> DEFINE d == World
           e == World'
<1>1. /\ primary' = primary /\ crashed' = crashed /\ crashedInReload' = crashedInReload
      /\ setbacks' = setbacks /\ reloads' = reloads /\ memoryRestarts' = memoryRestarts
      /\ commands' = commands /\ slotCrashes' = slotCrashes /\ isShuttingDown' = isShuttingDown
      /\ isReloading' = isReloading /\ memoryRestarting' = memoryRestarting
  BY DEF given, history, modes
<1>2. PrimaryInv'
  BY <1>1, PrimaryStays DEF PrimaryInv
<1>3. /\ e.waits = d.waits /\ e.excused = d.excused /\ e.stops = d.stops
      /\ e.counted = d.counted /\ e.died = d.died /\ e.asked = d.asked
      /\ e.reloads = d.reloads /\ e.restarts = d.restarts
  BY <1>1, WorldFields, WorldFieldsNext
<1>4. e.held \in [Slot -> Nat] /\ \A s \in Slot : e.held[s] = Held(s)'
  BY HeldWorld
<1>5. \A s \in Slot : d.held[s] = Held(s)
  BY WorldFields
<1>6. Tidy(primary, d) /\ Balanced(primary, d) /\ WorldOK(d)
  BY DEF Kept, Tidy
<1> HIDE DEF d, e
<1>7. WorldOK(e)
  BY <1>3, <1>4, <1>6 DEF WorldOK
<1>8. \A s \in Slot : e.held[s] \in {d.held[s], 0}
  BY <1>4, <1>5
<1>9. Tidy(primary, e) /\ Balanced(primary, e)
  BY <1>3, <1>6, <1>7, <1>8, ForgettingKeeps
<1> QED
  BY <1>1, <1>2, <1>9 DEF Kept, e

LEMMA PrimaryExitStep ==
    ASSUME PrimaryInv, RecordsOK, Kept, PrimaryExit
    PROVE  PrimaryInv' /\ RecordsOK' /\ Kept'
<1>1. /\ clusterWorkers' = [s \in Slot |-> Absent]
      /\ UNCHANGED <<primary, given, history, commands, slotCrashes, modes>>
  BY DEF PrimaryExit
<1>2. RecordsOK' /\ \A s \in Slot : Held(s)' \in {Held(s), 0}
  BY <1>1 DEF RecordsOK, Held
<1> QED
  BY <1>1, <1>2, RecordStep

LEMMA LaunchTimeoutStep ==
    ASSUME PrimaryInv, RecordsOK, Kept, NEW t \in Slot, LaunchTimeout(t)
    PROVE  PrimaryInv' /\ RecordsOK' /\ Kept'
<1>1. UNCHANGED <<primary, given, history, commands, slotCrashes, modes>>
  BY DEF LaunchTimeout
<1>2. RecordsOK' /\ \A s \in Slot : Held(s)' \in {Held(s), 0}
  <2>1. CASE clusterWorkers[t] # Absent /\ ~clusterWorkers[t].ready
    <3> DEFINE r == [clusterWorkers[t] EXCEPT !.errored = TRUE]
    <3>1. clusterWorkers[t] \in Record
      BY <2>1 DEF RecordsOK
    <3>2. clusterWorkers' = [clusterWorkers EXCEPT ![t] = r]
      BY <2>1 DEF LaunchTimeout, RecordsOK
    <3>3. r \in Record /\ r.pid = Held(t)
      BY <2>1, <3>1 DEF Record, Held
    <3> HIDE DEF r
    <3> QED
      BY <3>2, <3>3, RecordSet
  <2>2. CASE ~(clusterWorkers[t] # Absent /\ ~clusterWorkers[t].ready)
    <3>1. clusterWorkers' = clusterWorkers
      BY <2>2 DEF LaunchTimeout
    <3> QED
      BY <3>1 DEF RecordsOK, Held
  <2> QED
    BY <2>1, <2>2
<1> QED
  BY <1>1, <1>2, RecordStep

\* A worker's metrics say nothing of the ledger.
LEMMA SendMetricsStep ==
    ASSUME HasParent, PrimaryInv, RecordsOK, Kept, NEW w \in Mapped(primary), SendMetrics(w)
    PROVE  PrimaryInv' /\ RecordsOK' /\ Kept'
<1> DEFINE p == primary
           d == World
           m == [type |-> "metrics", slot |-> primary.workers[w].slot]
           q == Send(p, m)
<1>1. /\ primary' = q /\ UNCHANGED history /\ UNCHANGED <<given, commands, mirror, modes>>
      /\ ~p.workers[w].killed
  BY DEF SendMetrics
<1>2. /\ Good(p) /\ Tidy(p, d) /\ Balanced(p, d) /\ Shape(p) /\ IsRecord(p) /\ w \in Ids(p)
  BY DEF PrimaryInv, Kept, Good, Shape, Mapped
<1>3. World' = d /\ RecordsOK'
  BY <1>1, WorldStill DEF local, history, mirror, RecordsOK
<1>4. m \in Message /\ m.type = "metrics"
  BY <1>2, IdsAreNumbers, StartMessages
<1> HIDE DEF d, m
<1>5. IsRecord(q) /\ Alike(p, q) /\ q.out = p.out \o <<m>>
  BY <1>2, SaysFields DEF Send
<1> HIDE DEF q
<1>6. Shape(q)
  BY <1>2, <1>5 DEF Shape, Alike, AlikeBut, Ids
<1>7. Fine(p, q) /\ Good(q)
  BY <1>2, <1>5, <1>6, QuietIsFine DEF Fine, Alike, AlikeBut
<1>8. PrimaryInv'
  BY <1>1, <1>7, FineTurn DEF history, PrimaryInv
<1>9. AlikeBut(p, q)
  BY <1>5 DEF Alike
<1>10. Ids(q) = Ids(p)
  BY <1>5 DEF Alike, Ids
<1>11. Mapped(q) = Mapped(p)
  BY <1>5 DEF Alike, Ids, Mapped
<1>12. \A u \in Ids(p) : /\ q.workers[u].slot = p.workers[u].slot
                         /\ q.workers[u].left = p.workers[u].left
                         /\ q.workers[u].killed = p.workers[u].killed
  BY <1>5 DEF Alike
<1>13. \/ q.out = p.out
       \/ \E l \in Message : /\ q.out = p.out \o <<l>>
                             /\ \/ l.type \in {"listening", "metrics"}
                                \/ l.type = "online" /\ l.pid = w /\ w \notin p.candidates
  BY <1>4, <1>5
<1>14. Tidy(q, d) /\ Balanced(q, d)
  BY <1>1, <1>2, <1>7, <1>9, <1>10, <1>11, <1>12, <1>13, StartKeeps
<1> QED
  BY <1>1, <1>3, <1>8, <1>14 DEF Kept

\* What a command changes of the world.
LEMMA CommandWorld ==
    ASSUME NEW c, PrimaryInv, RecordsOK, Kept, Command(c), c \in CommandMsg,
           UNCHANGED <<primary, history, clusterWorkers, slotCrashes>>,
           isReloading' \in BOOLEAN, memoryRestarting' \subseteq Slot, isShuttingDown' \in BOOLEAN,
           reloads' \in Nat, memoryRestarts' \in Nat
    PROVE  PrimaryInv' /\ RecordsOK' /\ Asks(World, World', c)
<1> DEFINE d == World
           e == World'
<1>1. /\ primary' = primary /\ crashed' = crashed /\ crashedInReload' = crashedInReload
      /\ setbacks' = setbacks /\ clusterWorkers' = clusterWorkers /\ slotCrashes' = slotCrashes
      /\ commands' = Append(commands, c)
  BY DEF history, Command
<1>2. PrimaryInv'
  BY <1>1, PrimaryStays DEF PrimaryInv
<1>3. RecordsOK' /\ \A s \in Slot : Held(s)' = Held(s)
  BY <1>1 DEF RecordsOK, Held
<1>4. e.held = d.held
  <2>1. [s \in Slot |-> Held(s)'] = [s \in Slot |-> Held(s)]
    BY <1>3
  <2> QED
    BY <2>1, WorldFields, WorldFieldsNext
<1>5. /\ e.counted = d.counted /\ e.died = d.died /\ d.asked = commands
      /\ e.asked = Append(commands, c) /\ e.waits = isReloading'
      /\ e.excused = memoryRestarting' /\ e.stops = isShuttingDown'
      /\ e.reloads = reloads' /\ e.restarts = memoryRestarts'
  BY <1>1, WorldFields, WorldFieldsNext
<1>6. WorldOK(d)
  BY DEF Kept, Tidy
<1> HIDE DEF d, e
<1>7. Append(commands, c) \in Seq(CommandMsg)
  BY <1>5, <1>6 DEF WorldOK
<1>8. Asks(d, e, c)
  BY <1>4, <1>5, <1>6, <1>7 DEF Asks, WorldOK
<1> QED
  BY <1>2, <1>3, <1>8 DEF d, e

LEMMA SendReloadStep ==
    ASSUME PrimaryInv, RecordsOK, Kept, SendReload, reloads' + memoryRestarts' <= 1
    PROVE  PrimaryInv' /\ RecordsOK' /\ Kept'
<1> DEFINE c == [type |-> "reload"]
<1>0. Tidy(primary, World) /\ Balanced(primary, World) /\ WorldOK(World)
  BY DEF Kept, Tidy
<1>1. /\ reloads' = reloads + 1 /\ memoryRestarts' = memoryRestarts /\ isReloading' = TRUE
      /\ Command(c) /\ UNCHANGED <<primary, history, clusterWorkers, slotCrashes>>
      /\ isShuttingDown' = isShuttingDown /\ memoryRestarting' = memoryRestarting
  BY DEF SendReload, ReloadCommand, mirror
<1>2. /\ reloads \in Nat /\ memoryRestarts \in Nat /\ isShuttingDown \in BOOLEAN
      /\ memoryRestarting \subseteq Slot
  BY <1>0, WorldFields DEF WorldOK
<1>3. c \in CommandMsg /\ c.type = "reload"
  BY DEF CommandMsg
<1> HIDE DEF c
<1>4. PrimaryInv' /\ RecordsOK' /\ Asks(World, World', c)
  BY <1>1, <1>2, <1>3, CommandWorld
<1>5. /\ World'.waits /\ World'.excused = World.excused /\ World'.stops = World.stops
      /\ World'.reloads = World.reloads + 1 /\ World'.restarts = World.restarts
      /\ World'.reloads + World'.restarts <= 1
  BY <1>1, WorldFields, WorldFieldsNext
<1>6. Tidy(primary, World') /\ Balanced(primary, World')
  BY <1>0, <1>3, <1>4, <1>5, AskingReloadKeeps
<1> QED
  BY <1>1, <1>4, <1>6 DEF Kept

LEMMA SendRestartStep ==
    ASSUME PrimaryInv, RecordsOK, Kept, NEW s \in Slot, SendRestart(s),
           reloads' + memoryRestarts' <= 1
    PROVE  PrimaryInv' /\ RecordsOK' /\ Kept'
<1> DEFINE c == [type |-> "restart-worker", slot |-> s]
<1>0. Tidy(primary, World) /\ Balanced(primary, World) /\ WorldOK(World)
  BY DEF Kept, Tidy
<1>1. /\ reloads' = reloads /\ memoryRestarts' = memoryRestarts + 1
      /\ isReloading' = isReloading
      /\ Command(c) /\ UNCHANGED <<primary, history, clusterWorkers, slotCrashes>>
      /\ isShuttingDown' = isShuttingDown /\ memoryRestarting' = memoryRestarting \cup {s}
  BY DEF SendRestart, RestartCommand, mirror
<1>2. /\ reloads \in Nat /\ memoryRestarts \in Nat /\ isShuttingDown \in BOOLEAN
      /\ memoryRestarting \subseteq Slot /\ isReloading \in BOOLEAN
  BY <1>0, WorldFields DEF WorldOK
<1>3. c \in CommandMsg /\ c.type = "restart-worker" /\ c.slot = s
  BY DEF CommandMsg
<1> HIDE DEF c
<1>4. PrimaryInv' /\ RecordsOK' /\ Asks(World, World', c)
  BY <1>1, <1>2, <1>3, CommandWorld
<1>5. /\ World'.waits = World.waits /\ World'.excused = World.excused \cup {c.slot}
      /\ World'.stops = World.stops
      /\ World'.reloads = World.reloads /\ World'.restarts = World.restarts + 1
      /\ World'.reloads + World'.restarts <= 1
  BY <1>1, <1>3, WorldFields, WorldFieldsNext
<1>6. Tidy(primary, World') /\ Balanced(primary, World')
  BY <1>0, <1>3, <1>4, <1>5, AskingRestartKeeps
<1> QED
  BY <1>1, <1>4, <1>6 DEF Kept

LEMMA StopStep ==
    ASSUME PrimaryInv, RecordsOK, Kept, Stop
    PROVE  PrimaryInv' /\ RecordsOK' /\ Kept'
<1> DEFINE c == [type |-> "shutdown"]
<1>0. Tidy(primary, World) /\ Balanced(primary, World) /\ WorldOK(World)
  BY DEF Kept, Tidy
<1>1. /\ reloads' = reloads /\ memoryRestarts' = memoryRestarts /\ isReloading' = isReloading
      /\ Command(c) /\ UNCHANGED <<primary, history, clusterWorkers, slotCrashes>>
      /\ isShuttingDown' = TRUE /\ memoryRestarting' = memoryRestarting
  BY DEF Stop, given
<1>2. /\ reloads \in Nat /\ memoryRestarts \in Nat /\ isReloading \in BOOLEAN
      /\ memoryRestarting \subseteq Slot
  BY <1>0, WorldFields DEF WorldOK
<1>3. c \in CommandMsg /\ c.type = "shutdown"
  BY DEF CommandMsg
<1> HIDE DEF c
<1>4. PrimaryInv' /\ RecordsOK' /\ Asks(World, World', c)
  BY <1>1, <1>2, <1>3, CommandWorld
<1>5. /\ World'.waits = World.waits /\ World'.excused = World.excused /\ World'.stops
      /\ World'.reloads = World.reloads /\ World'.restarts = World.restarts
  BY <1>1, WorldFields, WorldFieldsNext
<1>6. Tidy(primary, World') /\ Balanced(primary, World')
  BY <1>0, <1>3, <1>4, <1>5, AskingStopKeeps
<1> QED
  BY <1>1, <1>4, <1>6 DEF Kept
----------------------------------------------------------------------------
(* What every turn tells the daemon, however many commands were given.     *)

\* The answer to a reload is on its way.
Told(p) == \E n \in DOMAIN p.out : p.out[n].type = "complete"

\* The messages keep their types, and no reload ends without one that says so.
Says(p, q) ==
    /\ q.out \in Seq(Message)
    /\ Told(p) => Told(q)
    /\ p.isReloading => q.isReloading \/ Told(q)

Sound(p) == Good(p) /\ p.out \in Seq(Message)

LEMMA SaysThen ==
    ASSUME NEW p, NEW q, NEW z, Says(p, q), Says(q, z)
    PROVE  Says(p, z)
BY DEF Says

LEMMA SaysNone ==
    ASSUME NEW p, p.out \in Seq(Message), NEW q, q.out = p.out, q.isReloading = p.isReloading
    PROVE  Says(p, q)
BY DEF Says, Told

LEMMA SaysSome ==
    ASSUME NEW p, p.out \in Seq(Message), NEW q, NEW ms \in Seq(Message), q.out = p.out \o ms,
           q.isReloading = p.isReloading \/ \E k \in DOMAIN ms : ms[k].type = "complete"
    PROVE  Says(p, q)
<1>1. /\ q.out \in Seq(Message) /\ Len(p.out) \in Nat /\ Len(ms) \in Nat
      /\ DOMAIN p.out = 1..Len(p.out) /\ DOMAIN q.out = 1..Len(q.out)
      /\ DOMAIN ms = 1..Len(ms) /\ Len(q.out) = Len(p.out) + Len(ms)
      /\ \A n \in DOMAIN p.out : n \in DOMAIN q.out /\ q.out[n] = p.out[n]
      /\ \A n \in DOMAIN q.out : n > Len(p.out) =>
            n - Len(p.out) \in DOMAIN ms /\ q.out[n] = ms[n - Len(p.out)]
  BY Concatenated
<1>2. Told(p) => Told(q)
  BY <1>1 DEF Told
<1>3. ASSUME NEW k \in DOMAIN ms, ms[k].type = "complete" PROVE Told(q)
  <2>1. /\ Len(p.out) + k \in DOMAIN q.out /\ Len(p.out) + k > Len(p.out)
        /\ (Len(p.out) + k) - Len(p.out) = k
    BY <1>1
  <2>2. q.out[Len(p.out) + k] = ms[k]
    BY <1>1, <2>1
  <2> QED
    BY <1>3, <2>1, <2>2 DEF Told
<1> QED
  BY <1>1, <1>2, <1>3 DEF Says

LEMMA SaysMessage ==
    ASSUME HasParent, NEW p, IsRecord(p), p.out \in Seq(Message), NEW m \in Message
    PROVE  Says(p, Send(p, m)) /\ Alike(p, Send(p, m)) /\ IsRecord(Send(p, m))
<1> DEFINE ms == <<m>>
           q == SendAll(p, ms)
<1>1. ms \in Seq(Message)
  OBVIOUS
<1>2. Send(p, m) = q
  BY DEF Send
<1> HIDE DEF ms
<1>3. IsRecord(q) /\ Alike(p, q) /\ q.out = p.out \o ms
  BY SaysFields
<1> HIDE DEF q
<1>4. Says(p, q)
  BY <1>1, <1>3, SaysSome DEF Alike, AlikeBut
<1> QED
  BY <1>2, <1>3, <1>4

LEMMA SaysSteps ==
    ASSUME NEW p, p.out \in Seq(Message), NEW q, Attempts(p, q) \/ Finishes(p, q)
    PROVE  Says(p, q)
<1>1. CASE Attempts(p, q)
  BY <1>1, SaysNone DEF Attempts
<1>2. CASE Finishes(p, q)
  <2>1. PICK m \in Message : m.type = "complete" /\ q.out = p.out \o <<m>>
    BY <1>2 DEF Finishes
  <2> DEFINE ms == <<m>>
  <2>2. ms \in Seq(Message) /\ q.out = p.out \o ms /\ 1 \in DOMAIN ms /\ ms[1].type = "complete"
    BY <2>1
  <2> HIDE DEF ms
  <2> QED
    BY <2>2, SaysSome
<1> QED
  BY <1>1, <1>2

LEMMA ReplacedSays ==
    ASSUME HasParent, NEW k, Sound(k), k.reload # NoReload
    PROVE  Says(k, Replaced(k))
<1> DEFINE r == k.reload
           ms == Announcement(r)
           m == SendAll(k, ms)
           results == Append(r.results, [slot |-> r.slot, ok |-> TRUE])
<1>1. /\ r \in ReloadState /\ Good(k) /\ k.out \in Seq(Message)
      /\ r.slot \in Slot /\ r.new \in Nat /\ r.queue \subseteq Ids(k) /\ r.results \in Seq(Result)
  BY DEF Sound, Good, Shape, NoReload, Linked, Replaces, ReloadState
<1>2. ms \in Seq(Message)
  BY <1>1, AnnouncementTypes
<1>3. results \in Seq(Result)
  BY <1>1 DEF Result
<1>4. Replaced(k) = NextSlot(m, r.queue, results)
  BY DEF Replaced
<1> HIDE DEF ms, results
<1>5. IsRecord(m) /\ Alike(k, m) /\ m.out = k.out \o ms
  BY <1>1, SaysFields DEF Good, Shape
<1> HIDE DEF m
<1>6. Says(k, m) /\ m.out \in Seq(Message)
  BY <1>1, <1>2, <1>5, SaysSome DEF Says, Alike, AlikeBut
<1>7. Good(m)
  <2>1. Shape(m)
    BY <1>1, <1>5 DEF Good, Shape, Alike, AlikeBut, Ids
  <2> QED
    BY <1>1, <1>5, <2>1, QuietIsFine DEF Alike, AlikeBut, Fine
<1>8. r.queue \in SUBSET Ids(m)
  BY <1>1, <1>5 DEF Alike, Ids
<1>9. Says(m, NextSlot(m, r.queue, results))
  BY <1>3, <1>6, <1>7, <1>8, NextSlotMore, SaysSteps
<1> QED
  BY <1>4, <1>6, <1>9, SaysThen

LEMMA RejectedSays ==
    ASSUME HasParent, NEW p, Sound(p), p.reload.pc = "waiting"
    PROVE  Says(p, Rejected(p))
<1> DEFINE r == p.reload
           k == Kill(p, r.new)
           b == [k EXCEPT !.reload.pc = "backoff", !.reload.attempt = @ + 1]
           q == Rejected(p)
<1>1. /\ r # NoReload /\ r \in ReloadState /\ r.new \in Ids(p) /\ Shape(p)
      /\ r.slot \in Slot /\ r.results \in Seq(Result) /\ p.out \in Seq(Message)
  BY DEF Sound, Good, Shape, NoReload, Linked, Replaces, ReloadState
<1>2. Shape(k) /\ AlikeBut(p, k) /\ k.out = p.out
  BY <1>1, KillMore
<1>3. Says(p, k) /\ k.out \in Seq(Message)
  BY <1>1, <1>2, SaysNone DEF AlikeBut
<1>4. \/ q = b
      \/ \E results \in Seq(Result) : q = Finish(k, results)
  <2>1. Append(r.results, [slot |-> r.slot, ok |-> FALSE]) \in Seq(Result)
    BY <1>1 DEF Result
  <2> QED
    BY <1>1, <2>1 DEF Rejected
<1> HIDE DEF k, q
<1>5. b.out = k.out /\ b.isReloading = k.isReloading
  BY <1>2 DEF Shape, IsRecord
<1> HIDE DEF b
<1>6. CASE q = b
  BY <1>3, <1>5, <1>6, SaysNone, SaysThen DEF q
<1>7. ASSUME NEW results \in Seq(Result), q = Finish(k, results)
      PROVE  Says(p, q)
  <2>1. Finishes(k, q)
    BY <1>2, <1>7, FinishMore
  <2> QED
    BY <1>3, <2>1, SaysSteps, SaysThen
<1> QED
  BY <1>4, <1>6, <1>7 DEF q

LEMMA RestartsDoneSays ==
    ASSUME HasParent, NEW p, Sound(p), NEW R, R \subseteq p.restarts
    PROVE  Says(p, RestartsDone(p, R))
<1> DEFINE m == [p EXCEPT !.restarts = @ \ R]
           ms == Announcements(R)
           q == SendAll(m, ms)
<1>1. Good(p) /\ p.out \in Seq(Message) /\ IsRecord(p)
  BY DEF Sound, Good, Shape
<1>2. ms \in Seq(Message)
  BY <1>1, RestartsDistinct, AnnouncementsTypes
<1>3. IsRecord(m) /\ m.out = p.out /\ m.isReloading = p.isReloading
  BY <1>1 DEF IsRecord
<1>4. RestartsDone(p, R) = q
  BY DEF RestartsDone
<1> HIDE DEF m, ms
<1>5. Alike(m, q) /\ q.out = m.out \o ms
  BY <1>3, SaysFields
<1> HIDE DEF q
<1>6. Says(p, q)
  BY <1>1, <1>2, <1>3, <1>5, SaysSome DEF Alike, AlikeBut
<1> QED
  BY <1>4, <1>6

LEMMA ExitedSays ==
    ASSUME HasParent, NEW p, Sound(p), NEW w \in Mapped(p)
    PROVE  Says(p, Exited(p, w)) /\ Sound(Exited(p, w))
<1> DEFINE q == Exited(p, w)
           ms == ExitSaid(p, w)
<1>1. Good(p) /\ p.out \in Seq(Message) /\ Good(q) /\ Departs(p, q, w)
  BY ExitedMore DEF Sound
<1>2. w \in Nat /\ p.workers[w].slot \in Slot
  BY <1>1, IdsAreNumbers
<1>3. ms \in Seq(Message)
  <2>1. [type |-> "exit", slot |-> p.workers[w].slot, pid |-> w] \in Message
    BY <1>2 DEF Message
  <2> QED
    BY <2>1 DEF ExitSaid
<1> HIDE DEF q, ms
<1>4. q.out = p.out \o ms /\ q.isReloading = p.isReloading
  BY <1>1 DEF Departs, ms
<1>5. Says(p, q)
  BY <1>1, <1>3, <1>4, SaysSome
<1> QED
  BY <1>1, <1>5 DEF q, Sound, Says

LEMMA WokenSays ==
    ASSUME HasParent, NEW p, Sound(p), NEW w, NEW q \in Woken(p, w)
    PROVE  Says(p, q)
<1>1. ASSUME NEW k, Sound(k)
      PROVE  /\ Says(k, WakeReload(k, w)) /\ Sound(WakeReload(k, w))
             /\ Says(k, WakeRestarts(k, w)) /\ Sound(WakeRestarts(k, w))
             /\ Says(k, WakeShutdown(k, w))
  <2>0. k.out \in Seq(Message) /\ Good(k) /\ IsRecord(k)
    BY <1>1 DEF Sound, Good, Shape
  <2>1. Good(WakeReload(k, w)) /\ Good(WakeRestarts(k, w))
    BY <2>0, WakesAreFine DEF Fine
  <2>2. Says(k, k)
    BY <2>0, SaysNone
  <2>3. Says(k, WakeReload(k, w))
    <3>1. CASE k.reload.pc = "stopping" /\ k.reload.old = w
      <4>1. k.reload # NoReload
        BY <3>1 DEF NoReload
      <4> QED
        BY <1>1, <3>1, <4>1, ReplacedSays DEF WakeReload
    <3>2. CASE ~(k.reload.pc = "stopping" /\ k.reload.old = w)
      BY <2>2, <3>2 DEF WakeReload
    <3> QED
      BY <3>1, <3>2
  <2>4. Says(k, WakeRestarts(k, w))
    BY <1>1, RestartsDoneSays DEF WakeRestarts
  <2>5. Says(k, WakeShutdown(k, w))
    <3> DEFINE z == WakeShutdown(k, w)
    <3>1. z.out = k.out /\ z.isReloading = k.isReloading
      BY <2>0 DEF WakeShutdown, IsRecord
    <3> HIDE DEF z
    <3>2. Says(k, z)
      BY <2>0, <3>1, SaysNone
    <3> QED
      BY <3>2 DEF z
  <2> QED
    BY <2>1, <2>3, <2>4, <2>5 DEF Sound, Says
<1>2. \/ q = WakeShutdown(WakeRestarts(WakeReload(p, w), w), w)
      \/ q = WakeShutdown(WakeReload(WakeRestarts(p, w), w), w)
  BY DEF Woken
<1>3. CASE q = WakeShutdown(WakeRestarts(WakeReload(p, w), w), w)
  <2>1. Says(p, WakeReload(p, w)) /\ Sound(WakeReload(p, w))
    BY <1>1
  <2>2. /\ Says(WakeReload(p, w), WakeRestarts(WakeReload(p, w), w))
        /\ Sound(WakeRestarts(WakeReload(p, w), w))
    BY <1>1, <2>1
  <2>3. Says(WakeRestarts(WakeReload(p, w), w), q)
    BY <1>1, <1>3, <2>2
  <2> QED
    BY <2>1, <2>2, <2>3, SaysThen
<1>4. CASE q = WakeShutdown(WakeReload(WakeRestarts(p, w), w), w)
  <2>1. Says(p, WakeRestarts(p, w)) /\ Sound(WakeRestarts(p, w))
    BY <1>1
  <2>2. /\ Says(WakeRestarts(p, w), WakeReload(WakeRestarts(p, w), w))
        /\ Sound(WakeReload(WakeRestarts(p, w), w))
    BY <1>1, <2>1
  <2>3. Says(WakeReload(WakeRestarts(p, w), w), q)
    BY <1>1, <1>4, <2>2
  <2> QED
    BY <2>1, <2>2, <2>3, SaysThen
<1> QED
  BY <1>2, <1>3, <1>4
----------------------------------------------------------------------------
(* No false crash. *)

\* The daemon has given one command of the two at most, and waits for what it asked.
Calm == ~gaveUp /\ reloads + memoryRestarts <= 1

CalmInv ==
    /\ reloads \in Nat /\ memoryRestarts \in Nat
    /\ Calm => PrimaryInv /\ RecordsOK /\ Kept

LEMMA InitKept == Init => PrimaryInv /\ RecordsOK /\ Kept
<1> SUFFICES ASSUME Init PROVE PrimaryInv /\ RecordsOK /\ Kept
  OBVIOUS
<1> DEFINE p == primary
           d == World
<1>1. /\ PrimaryInit /\ commands = <<>> /\ clusterWorkers = [s \in Slot |-> Absent]
      /\ slotCrashes = [s \in Slot |-> 0] /\ isShuttingDown = FALSE /\ isReloading = FALSE
      /\ memoryRestarting = {}
  BY DEF Init
<1>2. PrimaryInv /\ Good(p)
  BY <1>1, InitPrimaryInv DEF PrimaryInv
<1>3. /\ p.workers = [w \in 1..WorkerCount |-> Unready(w - 1)] /\ p.candidates = {}
      /\ p.reload = NoReload /\ p.restarts = {} /\ p.isShuttingDown = FALSE
      /\ p.isReloading = FALSE /\ p.out = <<>>
      /\ reloads = 0 /\ memoryRestarts = 0 /\ crashed = [s \in Slot |-> 0]
  BY <1>1 DEF PrimaryInit
<1>4. RecordsOK
  BY <1>1 DEF RecordsOK
<1>5. \A s \in Slot : Held(s) = 0
  BY <1>1 DEF Held
<1>6. /\ d.held = [s \in Slot |-> 0] /\ d.waits = FALSE /\ d.excused = {} /\ d.stops = FALSE
      /\ d.counted = [s \in Slot |-> 0] /\ d.died = [s \in Slot |-> 0] /\ d.asked = <<>>
      /\ d.reloads = 0 /\ d.restarts = 0
  BY <1>1, <1>3, <1>5, WorldFields
<1> HIDE DEF d
<1>7. WorldOK(d)
  <2>1. d.held \in [Slot -> Nat] /\ d.counted \in [Slot -> Nat] /\ d.died \in [Slot -> Nat]
    BY <1>6
  <2>2. d.asked \in Seq(CommandMsg)
    BY <1>6
  <2>3. d.waits \in BOOLEAN /\ d.stops \in BOOLEAN /\ d.excused \subseteq Slot
    BY <1>6
  <2>4. d.reloads \in Nat /\ d.restarts \in Nat
    BY <1>6
  <2> QED
    BY <2>1, <2>2, <2>3, <2>4 DEF WorldOK
<1>8. DOMAIN p.out = {} /\ p.out \in Seq(Message) /\ DOMAIN d.asked = {}
  BY <1>3, <1>6
<1>9. \A type : Wanted(d, type) = {}
  BY <1>8 DEF Wanted
<1>10. ~Answered(p.out, End(p)) /\ \A s : ~FailedIn(p.out, s)
  BY <1>8 DEF Answered, FailedIn
<1>11. ReloadOnce(p, d) /\ RestartOnce(p, d) /\ Agreed(p, d)
  BY <1>3, <1>6, <1>9, <1>10 DEF ReloadOnce, RestartOnce, Agreed
<1>12. Exits(p, d) /\ Onlines(p, d) /\ Secrets(p, d) /\ Trials(p)
  BY <1>3, <1>6, <1>8 DEF Exits, Onlines, Secrets, Trials
<1>13. ASSUME NEW w \in Mapped(p) PROVE Doomed(p, d, w)
  <2>1. w \in 1..WorkerCount /\ p.workers[w] = Unready(w - 1)
    BY <1>3 DEF Mapped, Ids
  <2> QED
    BY <2>1 DEF Doomed, Unready
<1>14. Tidy(p, d)
  BY <1>2, <1>6, <1>7, <1>8, <1>11, <1>12, <1>13 DEF Tidy
<1>15. ASSUME NEW s \in Slot PROVE Covered(p, d, s)
  <2>1. Charged(p.out, d.held[s], d.waits, s) = {}
    BY <1>8 DEF Charged
  <2>2. Cardinality(Charged(p.out, d.held[s], d.waits, s)) = 0
    BY <2>1, FS_EmptySet
  <2>3. Due(p, d, s) = 0 /\ Excuse(p.out, d, s) = 0
    BY <1>3, <1>6, <1>9 DEF Due, RestartOpen, Excuse
  <2>4. d.counted[s] = 0 /\ d.died[s] = 0
    BY <1>6
  <2> QED
    BY <2>2, <2>3, <2>4 DEF Covered
<1> QED
  BY <1>2, <1>4, <1>14, <1>15 DEF Kept, Balanced, d

LEMMA CalmNext ==
    ASSUME HasParent, CalmInv, [Next]_vars
    PROVE  CalmInv'
<1>0. reloads \in Nat /\ memoryRestarts \in Nat /\ (Calm => PrimaryInv /\ RecordsOK /\ Kept)
  BY DEF CalmInv
<1>1. CASE PrimaryStep /\ UNCHANGED local
  <2>1. reloads' = reloads /\ memoryRestarts' = memoryRestarts /\ gaveUp' = gaveUp
        /\ clusterWorkers' = clusterWorkers
    BY <1>1 DEF local, given, modes, mirror
  <2>2. RecordsOK => RecordsOK'
    BY <2>1 DEF RecordsOK
  <2> QED
    BY <1>0, <1>1, <2>1, <2>2, PrimarySteps DEF CalmInv, Calm
<1>2. CASE Deliver
  <2>1. reloads' = reloads /\ memoryRestarts' = memoryRestarts
    BY <1>2, ZenonT(30) DEF Deliver, given
  <2>2. gaveUp' = gaveUp
    BY <1>2, ZenonT(30) DEF Deliver, HearsOnline, HearsListening, HearsExit, HearsMetrics, HearsComplete,
                HearsFailed, EndsReload, modes
  <2> QED
    BY <1>0, <1>2, <2>1, <2>2, DeliverStep DEF CalmInv, Calm
<1>3. CASE PrimaryExit
  BY <1>0, <1>3, PrimaryExitStep DEF CalmInv, Calm, PrimaryExit, given, modes
<1>4. ASSUME NEW s \in Slot, LaunchTimeout(s) PROVE CalmInv'
  <2>1. reloads' = reloads /\ memoryRestarts' = memoryRestarts /\ gaveUp' = gaveUp
    BY <1>4 DEF LaunchTimeout, given, modes
  <2> QED
    BY <1>0, <1>4, <2>1, LaunchTimeoutStep DEF CalmInv, Calm
<1>5. ASSUME NEW w \in Mapped(primary), SendMetrics(w) PROVE CalmInv'
  <2>1. reloads' = reloads /\ memoryRestarts' = memoryRestarts /\ gaveUp' = gaveUp
    BY <1>5 DEF SendMetrics, given, modes
  <2> QED
    BY <1>0, <1>5, <2>1, SendMetricsStep DEF CalmInv, Calm
<1>6. CASE SendReload
  <2>1. reloads' = reloads + 1 /\ memoryRestarts' = memoryRestarts /\ gaveUp' = gaveUp
    BY <1>6 DEF SendReload, ReloadCommand
  <2>2. reloads' \in Nat /\ (reloads' + memoryRestarts' <= 1 => reloads + memoryRestarts <= 1)
    BY <1>0, <2>1
  <2> QED
    BY <1>0, <1>6, <2>1, <2>2, SendReloadStep DEF CalmInv, Calm
<1>7. CASE ReloadTimeout
  <2>1. gaveUp' = TRUE /\ reloads' = reloads /\ memoryRestarts' = memoryRestarts
    BY <1>7 DEF ReloadTimeout, given
  <2> QED
    BY <1>0, <2>1 DEF CalmInv, Calm
<1>8. CASE Stop
  <2>1. reloads' = reloads /\ memoryRestarts' = memoryRestarts /\ gaveUp' = gaveUp
    BY <1>8 DEF Stop, given
  <2> QED
    BY <1>0, <1>8, <2>1, StopStep DEF CalmInv, Calm
<1>9. ASSUME NEW s \in Slot, SendRestart(s) PROVE CalmInv'
  <2>1. reloads' = reloads /\ memoryRestarts' = memoryRestarts + 1 /\ gaveUp' = gaveUp
    BY <1>9 DEF SendRestart, RestartCommand
  <2>2. memoryRestarts' \in Nat
        /\ (reloads' + memoryRestarts' <= 1 => reloads + memoryRestarts <= 1)
    BY <1>0, <2>1
  <2> QED
    BY <1>0, <1>9, <2>1, <2>2, SendRestartStep DEF CalmInv, Calm
<1>10. CASE TakeCommand
  <2>1. reloads' = reloads /\ memoryRestarts' = memoryRestarts /\ gaveUp' = gaveUp
        /\ clusterWorkers' = clusterWorkers
    BY <1>10 DEF TakeCommand, given, modes, mirror
  <2>2. RecordsOK => RecordsOK'
    BY <2>1 DEF RecordsOK
  <2> QED
    BY <1>0, <1>10, <2>1, <2>2, CommandSteps DEF CalmInv, Calm
<1>11. CASE UNCHANGED vars
  <2>1. UNCHANGED <<primary, given, history, commands, mirror, modes>>
    BY <1>11 DEF vars
  <2>2. UNCHANGED local /\ crashed' = crashed /\ crashedInReload' = crashedInReload
        /\ setbacks' = setbacks /\ primary' = primary /\ gaveUp' = gaveUp
        /\ reloads' = reloads /\ memoryRestarts' = memoryRestarts
        /\ clusterWorkers' = clusterWorkers
    BY <2>1 DEF local, given, history, modes, mirror
  <2>3. World' = World
    BY <2>2, WorldStill
  <2>4. (PrimaryInv => PrimaryInv') /\ (RecordsOK => RecordsOK')
    BY <2>2 DEF PrimaryInv, RecordsOK
  <2> QED
    BY <1>0, <2>2, <2>3, <2>4 DEF CalmInv, Calm, Kept
<1> QED
  BY <1>1, <1>2, <1>3, <1>4, <1>5, <1>6, <1>7, <1>8, <1>9, <1>10, <1>11 DEF Next

LEMMA CalmIsTrue == CalmInv => NoFalseCrash
<1> SUFFICES ASSUME CalmInv, ~gaveUp, reloads + memoryRestarts <= 1, NEW s \in Slot
             PROVE  slotCrashes[s] <= crashed[s]
  BY DEF NoFalseCrash
<1>1. Balanced(primary, World)
  BY DEF CalmInv, Calm, Kept
<1>2. World.counted[s] <= World.died[s]
  BY <1>1 DEF Balanced, Covered
<1> QED
  BY <1>2, WorldFields

\* No slot is charged with more crashes than its workers had, whatever was reordered between
\* the two processes, for every number of workers, crashes and timeouts: an exit the daemon
\* asked for, in a reload, a memory restart or a shutdown, is not counted as a crash
\* (ManagedProcess.ts:478), as long as it waits for the reload it asked for.
THEOREM NoCrashInvented == ASSUME HasParent PROVE Spec => []NoFalseCrash
<1>1. Init => CalmInv
  <2>1. Init => reloads \in Nat /\ memoryRestarts \in Nat
    BY DEF Init, PrimaryInit
  <2> QED
    BY <2>1, InitKept DEF CalmInv
<1>2. CalmInv /\ [Next]_vars => CalmInv'
  BY CalmNext
<1> QED
  BY <1>1, <1>2, CalmIsTrue, PTL DEF Spec
----------------------------------------------------------------------------
(* No reload() left waiting. *)

LEMMA StartSays ==
    ASSUME HasParent, NEW p, Sound(p), NEW q, IsRecord(q), AlikeBut(p, q), q.out = p.out,
           NEW m \in Message
    PROVE  Says(p, q) /\ Says(p, Send(q, m))
<1>1. p.out \in Seq(Message)
  BY DEF Sound
<1>2. Says(p, q)
  BY <1>1, SaysNone DEF AlikeBut
<1>3. Says(q, Send(q, m))
  BY <1>1, SaysMessage
<1> QED
  BY <1>2, <1>3, SaysThen

LEMMA StartsSay ==
    ASSUME HasParent, Sound(primary), WorkerBoots \/ WorkerStarts
    PROVE  Says(primary, primary')
<1>1. Good(primary) /\ IsRecord(primary)
  BY DEF Sound, Good, Shape
<1>2. ASSUME NEW w \in Ids(primary), Online(w)
      PROVE  Says(primary, primary')
  <2> DEFINE q == [primary EXCEPT !.workers[w].life = "online"]
             m == [type |-> "online", slot |-> primary.workers[w].slot, pid |-> w]
  <2>1. IsRecord(q) /\ AlikeBut(primary, q) /\ q.out = primary.out
    BY <1>1 DEF IsRecord, AlikeBut
  <2>2. m \in Message
    BY <1>1, IdsAreNumbers, StartMessages
  <2>3. primary' = SendUnless(w \in primary.candidates, q, m)
    BY <1>2 DEF Online, Turn
  <2> HIDE DEF q, m
  <2>4. primary' = q \/ primary' = Send(q, m)
    BY <2>3 DEF SendUnless
  <2> QED
    BY <2>1, <2>2, <2>4, StartSays
<1>3. ASSUME NEW w \in Ids(primary), Listening(w) \/ SignalsReady(w)
      PROVE  Says(primary, primary')
  <2> DEFINE q == [primary EXCEPT !.workers[w].ready = TRUE]
             m == [type |-> "listening", slot |-> primary.workers[w].slot]
  <2>1. IsRecord(q) /\ AlikeBut(primary, q) /\ q.out = primary.out
    BY <1>1 DEF IsRecord, AlikeBut
  <2>2. m \in Message
    BY <1>1, IdsAreNumbers, StartMessages
  <2>3. primary' = SendUnless(w \in primary.candidates, q, m) \/ primary' = Send(q, m)
    BY <1>3 DEF Listening, SignalsReady, Turn
  <2> HIDE DEF q, m
  <2>4. primary' = q \/ primary' = Send(q, m)
    BY <2>3 DEF SendUnless
  <2> QED
    BY <2>1, <2>2, <2>4, StartSays
<1> QED
  BY <1>2, <1>3 DEF WorkerBoots, WorkerStarts

LEMMA ExitsSay ==
    ASSUME HasParent, PrimaryInv, Sound(primary), WorkerStops \/ WorkerCrashes
    PROVE  Says(primary, primary')
<1>1. PICK w \in Mapped(primary) : Exit(w)
  BY DEF WorkerStops, WorkerCrashes, Terminates, Crash, Mapped
<1>2. primary' \in Woken(Exited(primary, w), w)
  BY <1>1, ExitIsWoken
<1>3. Says(primary, Exited(primary, w)) /\ Sound(Exited(primary, w))
  BY ExitedSays
<1> QED
  BY <1>2, <1>3, WokenSays, SaysThen

\* A worker is killed, which nothing else depends on.
LEMMA KillSays ==
    ASSUME NEW p, Sound(p), NEW w \in Ids(p)
    PROVE  /\ Says(p, Kill(p, w)) /\ Sound(Kill(p, w)) /\ AlikeBut(p, Kill(p, w))
           /\ Kill(p, w).out = p.out /\ IsRecord(Kill(p, w))
<1> DEFINE k == Kill(p, w)
<1>1. Good(p) /\ Shape(p) /\ p.out \in Seq(Message)
  BY DEF Sound, Good
<1>2. /\ Shape(k) /\ AlikeBut(p, k) /\ ChangesOnly(p, k, w) /\ k.out = p.out
      /\ k.workers[w].life = p.workers[w].life /\ k.workers[w].ready = p.workers[w].ready
      /\ ~Safe(k, w)
  BY <1>1, KillMore, KillFields
<1> HIDE DEF k
<1>3. Good(k)
  BY <1>1, <1>2, FlagsAreGood DEF AlikeBut
<1>4. Says(p, k)
  BY <1>1, <1>2, SaysNone DEF AlikeBut
<1> QED
  BY <1>1, <1>2, <1>3, <1>4 DEF k, Sound, Shape

LEMMA ReloadsSay ==
    ASSUME HasParent, Sound(primary), ReloadStep
    PROVE  Says(primary, primary')
<1> DEFINE p == primary
           r == p.reload
<1>1. Good(p) /\ Shape(p) /\ IsRecord(p) /\ p.out \in Seq(Message)
  BY DEF Sound, Good, Shape
<1>2. r.pc # "idle" =>
         /\ r # NoReload /\ r \in ReloadState /\ p.isReloading /\ Replaces(p, r)
         /\ r.queue \subseteq Ids(p) /\ r.old \in Ids(p)
  BY <1>1 DEF Shape, NoReload, Good, Linked, Replaces
<1>3. CASE ReloadReady
  <2> DEFINE q == [p EXCEPT !.reload.pc = "settling"]
  <2>1. q.out = p.out /\ q.isReloading = p.isReloading
    BY <1>1 DEF IsRecord
  <2>2. primary' = q
    BY <1>3 DEF ReloadReady, Turn
  <2> HIDE DEF q
  <2> QED
    BY <1>1, <2>1, <2>2, SaysNone
<1>4. CASE ReloadRejected
  BY <1>4, RejectedSays DEF ReloadRejected, Turn
<1>5. CASE ReloadBackoffEnds
  <2>1. r.pc = "backoff" /\ primary' = Attempt(p, r)
    BY <1>5 DEF ReloadBackoffEnds, Turn
  <2>2. r \in [pc : {"waiting", "backoff"}, queue : SUBSET Nat, attempt : 0..Retries,
               old : Nat, slot : Slot, new : Nat, results : Seq(Result)]
    BY <1>2, <2>1 DEF ReloadState
  <2> HIDE DEF r
  <2>3. Attempts(p, Attempt(p, r))
    BY <1>1, <2>2, AttemptMore
  <2> QED
    BY <1>1, <2>1, <2>3, SaysSteps
<1>6. CASE ReloadPromotes
  <2> DEFINE m == [p EXCEPT !.reload.pc = "stopping", !.candidates = @ \ {p.reload.new}]
             q == Leave(m, r.old)
  <2>1. r.pc = "settling" /\ primary' = q
    BY <1>6 DEF ReloadPromotes, Turn
  <2>2. /\ m.workers = p.workers /\ m.restarts = p.restarts /\ m.out = p.out
        /\ m.reload = [r EXCEPT !.pc = "stopping"] /\ m.isShuttingDown = p.isShuttingDown
        /\ m.isReloading = p.isReloading /\ m.candidates = p.candidates \ {r.new}
        /\ IsRecord(m) /\ m.freeSlots = p.freeSlots /\ m.stopping = p.stopping
        /\ m.exited = p.exited
    BY <1>1 DEF IsRecord
  <2>3. [r EXCEPT !.pc = "stopping"] \in ReloadState /\ r.old \in Ids(p)
    BY <1>2, <2>1 DEF ReloadState
  <2> HIDE DEF m
  <2>4. Shape(m) /\ Ids(m) = Ids(p)
    BY <1>1, <2>2, <2>3 DEF Shape, Ids
  <2>5. AlikeBut(m, q) /\ q.out = m.out
    BY <2>3, <2>4, LeaveMore
  <2> HIDE DEF q
  <2> QED
    BY <1>1, <2>1, <2>2, <2>5, SaysNone DEF AlikeBut
<1>7. CASE ReloadKillTimeout
  <2> DEFINE k == Kill(p, r.old)
  <2>1. r.pc = "stopping" /\ primary' = Replaced(k)
    BY <1>7 DEF ReloadKillTimeout, Turn
  <2>2. Says(p, k) /\ Sound(k) /\ k.reload = r
    BY <1>2, <2>1, KillSays DEF AlikeBut
  <2> HIDE DEF k
  <2>3. Says(k, Replaced(k))
    BY <1>2, <2>1, <2>2, ReplacedSays
  <2> QED
    BY <2>1, <2>2, <2>3, SaysThen
<1> QED
  BY <1>3, <1>4, <1>5, <1>6, <1>7 DEF ReloadStep

LEMMA MovesShape ==
    ASSUME NEW p, Good(p), NEW r \in p.restarts, NEW pc \in {"settling", "stopping"}
    PROVE  LET q == RestartMoves(p, r, pc)
           IN /\ Shape(q) /\ Ids(q) = Ids(p) /\ q.out = p.out /\ q.isReloading = p.isReloading
              /\ r.old \in Ids(p) /\ r.new \in Ids(p) /\ r.slot \in Slot
<1> DEFINE a == [r EXCEPT !.pc = pc]
           q == RestartMoves(p, r, pc)
<1>1. r \in RestartState
  BY DEF Good, Shape
<1>2. r.old \in Ids(p) /\ r.new \in Ids(p)
  BY DEF Good, Linked, Replaces
<1>3. a \in RestartState /\ r.slot \in Slot
  BY <1>1 DEF RestartState
<1>4. q = [p EXCEPT !.restarts = (@ \ {r}) \cup {a}]
  BY DEF RestartMoves
<1> HIDE DEF a, q
<1>5. IsRecord(p)
  BY DEF Good, Shape
<1>6. /\ IsRecord(q) /\ q.restarts = (p.restarts \ {r}) \cup {a}
      /\ q.workers = p.workers /\ q.freeSlots = p.freeSlots /\ q.reload = p.reload
      /\ q.isShuttingDown = p.isShuttingDown /\ q.isReloading = p.isReloading
      /\ q.candidates = p.candidates /\ q.stopping = p.stopping /\ q.exited = p.exited
      /\ q.out = p.out
  BY <1>4, <1>5 DEF IsRecord
<1>7. Shape(q) /\ Ids(q) = Ids(p)
  BY <1>3, <1>6 DEF Good, Shape, Ids
<1> QED
  BY <1>2, <1>3, <1>6, <1>7 DEF q

LEMMA RestartsSay ==
    ASSUME HasParent, Sound(primary), RestartStep
    PROVE  Says(primary, primary')
<1> DEFINE p == primary
<1>1. Good(p) /\ Shape(p) /\ IsRecord(p) /\ p.out \in Seq(Message)
  BY DEF Sound, Good, Shape
<1>2. ASSUME NEW r \in p.restarts, NEW pc \in {"settling", "stopping"}
      PROVE  LET q == RestartMoves(p, r, pc)
             IN /\ Shape(q) /\ Ids(q) = Ids(p) /\ q.out = p.out /\ q.isReloading = p.isReloading
                /\ r.old \in Ids(p) /\ r.new \in Ids(p) /\ r.slot \in Slot
  BY <1>1, MovesShape
<1>3. ASSUME NEW r \in p.restarts, RestartReady(r) PROVE Says(p, primary')
  <2>1. primary' = RestartMoves(p, r, "settling")
    BY <1>3 DEF RestartReady, Turn
  <2> QED
    BY <1>1, <1>2, <1>3, <2>1, SaysNone
<1>4. ASSUME NEW r \in p.restarts, RestartFails(r) PROVE Says(p, primary')
  <2> DEFINE k == Kill(p, r.new)
             b == [k EXCEPT !.restarts = @ \ {r}, !.candidates = @ \ {r.new}]
             m == [type |-> "failed", slot |-> r.slot]
  <2>1. primary' = Send(b, m)
    BY <1>4 DEF RestartFails, Turn, RestartRejected
  <2>2. r.new \in Ids(p) /\ r.slot \in Slot
    BY <1>2, <1>4
  <2>3. AlikeBut(p, k) /\ k.out = p.out /\ IsRecord(k)
    BY <2>2, KillSays
  <2> HIDE DEF k
  <2>4. IsRecord(b) /\ b.out = k.out /\ b.isReloading = k.isReloading
    BY <2>3 DEF IsRecord
  <2>5. m \in Message
    BY <2>2 DEF Message
  <2> HIDE DEF b, m
  <2>6. Says(p, b)
    BY <1>1, <2>3, <2>4, SaysNone DEF AlikeBut
  <2>7. Says(b, Send(b, m))
    BY <1>1, <2>3, <2>4, <2>5, SaysMessage
  <2> QED
    BY <2>1, <2>6, <2>7, SaysThen
<1>5. ASSUME NEW r \in p.restarts, RestartPromotes(r) PROVE Says(p, primary')
  <2> DEFINE b == RestartMoves(p, r, "stopping")
             m == [b EXCEPT !.candidates = @ \ {r.new}]
             q == Leave(m, r.old)
  <2>1. primary' = q
    BY <1>5 DEF RestartPromotes, Turn
  <2>2. Shape(b) /\ Ids(b) = Ids(p) /\ b.out = p.out /\ b.isReloading = p.isReloading
        /\ r.old \in Ids(p)
    BY <1>2, <1>5
  <2> HIDE DEF b
  <2>3. /\ IsRecord(m) /\ m.workers = b.workers /\ m.restarts = b.restarts /\ m.out = b.out
        /\ m.reload = b.reload /\ m.isShuttingDown = b.isShuttingDown
        /\ m.isReloading = b.isReloading /\ m.candidates = b.candidates \ {r.new}
        /\ m.freeSlots = b.freeSlots /\ m.stopping = b.stopping /\ m.exited = b.exited
    BY <2>2 DEF Shape, IsRecord
  <2> HIDE DEF m
  <2>4. Shape(m) /\ Ids(m) = Ids(p)
    BY <2>2, <2>3 DEF Shape, Ids
  <2>5. AlikeBut(m, q) /\ q.out = m.out
    BY <2>2, <2>4, LeaveMore
  <2> HIDE DEF q
  <2> QED
    BY <1>1, <2>1, <2>2, <2>3, <2>5, SaysNone DEF AlikeBut
<1>6. ASSUME NEW r \in p.restarts, RestartKillTimeout(r) PROVE Says(p, primary')
  <2> DEFINE k == Kill(p, r.old)
  <2>1. primary' = RestartsDone(k, {r})
    BY <1>6 DEF RestartKillTimeout, Turn
  <2>2. Says(p, k) /\ Sound(k) /\ k.restarts = p.restarts
    BY <1>2, <1>6, KillSays DEF AlikeBut
  <2> HIDE DEF k
  <2>3. Says(k, RestartsDone(k, {r}))
    BY <1>6, <2>2, RestartsDoneSays
  <2> QED
    BY <2>1, <2>2, <2>3, SaysThen
<1> QED
  BY <1>3, <1>4, <1>5, <1>6 DEF RestartStep

LEMMA StepSays ==
    ASSUME HasParent, PrimaryInv, Sound(primary), PrimaryStep
    PROVE  Says(primary, primary')
<1>1. CASE ShutdownKillTimeout
  <2> DEFINE q == [primary EXCEPT !.stopping = {}, !.exited = TRUE]
  <2>1. primary.out \in Seq(Message) /\ IsRecord(primary)
    BY DEF Sound, Good, Shape
  <2>2. q.out = primary.out /\ q.isReloading = primary.isReloading
    BY <2>1 DEF IsRecord
  <2>3. primary' = q
    BY <1>1 DEF ShutdownKillTimeout, Turn
  <2> HIDE DEF q
  <2> QED
    BY <2>1, <2>2, <2>3, SaysNone
<1> QED
  BY <1>1, StartsSay, ExitsSay, ReloadsSay, RestartsSay DEF PrimaryStep, WorkerStep

\* A reload answers at once or is under way.
LEMMA ReloadSays ==
    ASSUME HasParent, NEW p, Sound(p)
    PROVE  Says(p, Reload(p)) /\ (Reload(p).isReloading \/ Told(Reload(p)))
<1>1. Good(p) /\ Shape(p) /\ IsRecord(p) /\ p.out \in Seq(Message)
  BY DEF Sound, Good, Shape
<1>2. CASE p.isReloading
  BY <1>1, <1>2, SaysNone DEF Reload
<1>3. CASE ~p.isReloading
  <2> DEFINE m == [p EXCEPT !.isReloading = TRUE]
             z == NextSlot(m, Mapped(p), <<>>)
  <2>1. Reload(p) = z
    BY <1>3 DEF Reload
  <2>2. /\ IsRecord(m) /\ m.workers = p.workers /\ m.restarts = p.restarts /\ m.out = p.out
        /\ m.reload = p.reload /\ m.isShuttingDown = p.isShuttingDown /\ m.isReloading = TRUE
        /\ m.candidates = p.candidates /\ m.freeSlots = p.freeSlots /\ m.stopping = p.stopping
        /\ m.exited = p.exited
    BY <1>1 DEF IsRecord
  <2> HIDE DEF m
  <2>3. Ids(m) = Ids(p) /\ Mapped(m) = Mapped(p) /\ Mapped(p) \subseteq Ids(p)
    BY <2>2 DEF Mapped, Ids
  <2>4. p.reload = NoReload
    BY <1>1, <1>3 DEF Good, Linked
  <2>5. Good(m)
    <3>1. Shape(m)
      BY <1>1, <2>2, <2>3 DEF Shape
    <3>2. Linked(m)
      BY <1>1, <2>2, <2>4 DEF Good, Linked, Replaces, Safe, Mapped, Ids
    <3>3. Accounted(m)
      BY <1>1, <2>2, <2>3 DEF Good, Accounted, InSlot
    <3> QED
      BY <3>1, <3>2, <3>3 DEF Good
  <2>6. Attempts(m, z) \/ Finishes(m, z)
    <3>1. Mapped(p) \in SUBSET Ids(m) /\ <<>> \in Seq(Result)
      BY <2>3
    <3> QED
      BY <2>5, <3>1, NextSlotMore
  <2> HIDE DEF z
  <2>7. Says(m, z)
    BY <1>1, <2>2, <2>6, SaysSteps
  <2>8. z.out \in Seq(Message) /\ (Told(p) => Told(z)) /\ (z.isReloading \/ Told(z))
    BY <2>2, <2>7 DEF Says, Told
  <2> QED
    BY <2>1, <2>8 DEF Says
<1> QED
  BY <1>2, <1>3

LEMMA RestartSays ==
    ASSUME NEW p, Sound(p), NEW s \in Slot
    PROVE  Says(p, RestartWorker(p, s))
<1> DEFINE q == SpawnCandidate(p, s)
           z == RestartWorker(p, s)
<1>1. Shape(p) /\ p.out \in Seq(Message)
  BY DEF Sound, Good
<1>2. Shape(q) /\ q.out = p.out /\ q.isReloading = p.isReloading
  BY <1>1, SpawnMore
<1>3. \/ z = p
      \/ z = [q EXCEPT !.restarts = @ \cup {[pc |-> "waiting", slot |-> s,
                                             old |-> First(InSlot(p, s)), new |-> Newest(q)]}]
  BY DEF RestartWorker
<1> HIDE DEF q, z
<1>4. z.out = p.out /\ z.isReloading = p.isReloading
  BY <1>2, <1>3 DEF Shape, IsRecord
<1> QED
  BY <1>1, <1>4, SaysNone DEF z

LEMMA ShutdownSays ==
    ASSUME NEW p, Sound(p)
    PROVE  Says(p, Shutdown(p))
<1>1. IsRecord(p) /\ p.out \in Seq(Message)
  BY DEF Sound, Good, Shape
<1> DEFINE z == Shutdown(p)
<1>2. z.out = p.out /\ z.isReloading = p.isReloading
  BY <1>1 DEF Shutdown, IsRecord
<1> HIDE DEF z
<1>3. Says(p, z)
  BY <1>1, <1>2, SaysNone
<1> QED
  BY <1>3 DEF z

\* A reload is among the commands.
ReloadAsked == \E n \in DOMAIN commands : commands[n].type = "reload"

\* The types of the daemon's side.
DaemonTyped ==
    /\ RecordsOK /\ slotCrashes \in [Slot -> Nat]
    /\ memoryRestarting \subseteq Slot /\ launchTimers \subseteq Slot
    /\ isShuttingDown \in BOOLEAN /\ isReloading \in BOOLEAN /\ gaveUp \in BOOLEAN

ManagedInv ==
    /\ PrimaryInv /\ primary.out \in Seq(Message) /\ commands \in Seq(CommandMsg)
    /\ DaemonTyped
    /\ ReloadAnswered

LEMMA AnsweredMeans ==
    ReloadAnswered <=>
      (isReloading => ReloadAsked \/ primary.isReloading \/ primary.exited \/ Told(primary))
BY DEF ReloadAnswered, ReloadAsked, Told

LEMMA AnsweredMeansNext ==
    ReloadAnswered' <=>
      (isReloading' => ReloadAsked' \/ primary'.isReloading \/ primary'.exited \/ Told(primary'))
BY DEF ReloadAnswered, ReloadAsked, Told

LEMMA CommandAdded ==
    ASSUME commands \in Seq(CommandMsg), NEW c \in CommandMsg, Command(c)
    PROVE  /\ commands' \in Seq(CommandMsg)
           /\ ReloadAsked => ReloadAsked'
           /\ c.type = "reload" => ReloadAsked'
<1>1. commands' = Append(commands, c)
  BY DEF Command
<1>2. /\ commands' \in Seq(CommandMsg) /\ Len(commands) \in Nat
      /\ DOMAIN commands = 1..Len(commands) /\ DOMAIN commands' = 1..Len(commands) + 1
      /\ commands'[Len(commands) + 1] = c
      /\ \A n \in DOMAIN commands : commands'[n] = commands[n]
  BY <1>1
<1>3. ASSUME ReloadAsked PROVE ReloadAsked'
  <2>1. PICK n \in DOMAIN commands : commands[n].type = "reload"
    BY <1>3 DEF ReloadAsked
  <2>2. n \in DOMAIN commands' /\ commands'[n].type = "reload"
    BY <1>2, <2>1
  <2> QED
    BY <2>2 DEF ReloadAsked
<1>4. ASSUME c.type = "reload" PROVE ReloadAsked'
  <2>1. Len(commands) + 1 \in DOMAIN commands' /\ commands'[Len(commands) + 1].type = "reload"
    BY <1>2, <1>4
  <2> QED
    BY <2>1 DEF ReloadAsked
<1> QED
  BY <1>2, <1>3, <1>4

LEMMA CommandTaken ==
    ASSUME commands \in Seq(CommandMsg), commands # <<>>, commands' = Tail(commands)
    PROVE  /\ commands' \in Seq(CommandMsg) /\ Head(commands) \in CommandMsg
           /\ ReloadAsked => ReloadAsked' \/ Head(commands).type = "reload"
<1>1. /\ commands' \in Seq(CommandMsg) /\ Head(commands) = commands[1]
      /\ Head(commands) \in CommandMsg
      /\ \A n \in DOMAIN commands :
            n = 1 \/ (n - 1 \in DOMAIN commands' /\ commands'[n - 1] = commands[n])
  BY TailOf
<1>2. ASSUME NEW n \in DOMAIN commands, commands[n].type = "reload", n # 1 PROVE ReloadAsked'
  <2>1. n - 1 \in DOMAIN commands' /\ commands'[n - 1] = commands[n]
    BY <1>1, <1>2
  <2>2. commands'[n - 1].type = "reload"
    BY <1>2, <2>1
  <2> QED
    BY <2>1, <2>2 DEF ReloadAsked
<1> QED
  BY <1>1, <1>2 DEF ReloadAsked

\* A turn of the primary.
LEMMA TurnAnswers ==
    ASSUME ReloadAnswered, Says(primary, primary'), ~primary.exited \/ primary'.exited,
           isReloading' = isReloading,
           ReloadAsked => ReloadAsked' \/ primary'.isReloading \/ Told(primary')
    PROVE  ReloadAnswered'
BY AnsweredMeans, AnsweredMeansNext DEF Says

LEMMA DaemonStays ==
    ASSUME DaemonTyped, UNCHANGED <<mirror, modes>>
    PROVE  DaemonTyped' /\ isReloading' = isReloading
BY DEF DaemonTyped, RecordsOK, mirror, modes

LEMMA StepManaged ==
    ASSUME HasParent, ManagedInv, PrimaryStep, UNCHANGED local
    PROVE  ManagedInv'
<1>1. PrimaryInv /\ Sound(primary) /\ commands \in Seq(CommandMsg) /\ DaemonTyped /\ ReloadAnswered
  BY DEF ManagedInv, PrimaryInv, Sound
<1>2. /\ commands' = commands /\ UNCHANGED <<mirror, modes>>
  BY DEF local
<1>3. PrimaryInv'
  BY <1>1, WorkerTurn, ReloadTurn, RestartTurn, ShutdownTurn DEF PrimaryStep
<1>4. Says(primary, primary')
  BY <1>1, StepSays, SMTT(20)
<1>5. ~primary.exited
  BY DEF PrimaryStep, WorkerStep, WorkerBoots, WorkerStarts, WorkerStops, WorkerCrashes, Online,
         Listening, SignalsReady, Terminates, Crash, Exit, ReloadStep, ReloadReady,
         ReloadRejected, ReloadBackoffEnds, ReloadPromotes, ReloadKillTimeout, RestartStep,
         RestartReady, RestartFails, RestartPromotes, RestartKillTimeout, ShutdownKillTimeout, Turn
<1>6. DaemonTyped' /\ isReloading' = isReloading
  BY <1>1, <1>2, DaemonStays
<1>7. ReloadAnswered'
  BY <1>1, <1>2, <1>4, <1>5, <1>6, TurnAnswers DEF ReloadAsked
<1> QED
  BY <1>1, <1>2, <1>3, <1>4, <1>6, <1>7 DEF ManagedInv, Says

LEMMA CommandManaged ==
    ASSUME HasParent, ManagedInv, TakeCommand
    PROVE  ManagedInv'
<1>1. /\ PrimaryInv /\ Good(primary) /\ Sound(primary) /\ commands \in Seq(CommandMsg)
      /\ DaemonTyped /\ ReloadAnswered /\ setbacks \in 0..MaxSetbacks
  BY DEF ManagedInv, PrimaryInv, Sound
<1>2. PICK c : c = Head(commands)
  OBVIOUS
<1>3. /\ commands # <<>> /\ commands' = Tail(commands)
      /\ UNCHANGED <<mirror, modes>>
      /\ \/ c.type = "reload" /\ TakesReload
         \/ c.type = "restart-worker" /\ TakesRestart(c.slot)
         \/ c.type = "shutdown" /\ TakesShutdown
  BY <1>2 DEF TakeCommand
<1>4. /\ commands' \in Seq(CommandMsg) /\ c \in CommandMsg
      /\ ReloadAsked => ReloadAsked' \/ c.type = "reload"
  BY <1>1, <1>2, <1>3, CommandTaken
<1>5. DaemonTyped' /\ isReloading' = isReloading
  BY <1>1, <1>3, DaemonStays
<1>6. /\ crashed' = crashed /\ crashedInReload' = crashedInReload /\ setbacks' = setbacks
      /\ ~primary.exited
  BY <1>3 DEF TakesReload, TakesRestart, TakesShutdown, ByTheBook, history, Turn
<1>7. CASE c.type = "reload" /\ TakesReload
  <2>1. primary' = Reload(primary)
    BY <1>7 DEF TakesReload, Turn
  <2>2. PrimaryInv'
    BY <1>1, <1>6, <2>1, ReloadIsFine, FineTurn
  <2>3. Says(primary, primary') /\ (primary'.isReloading \/ Told(primary'))
    BY <1>1, <2>1, ReloadSays
  <2>4. ReloadAnswered'
    BY <1>1, <1>5, <1>6, <2>3, TurnAnswers
  <2> QED
    BY <1>4, <1>5, <2>2, <2>3, <2>4 DEF ManagedInv, Says
<1>8. CASE c.type = "restart-worker" /\ TakesRestart(c.slot)
  <2>0. c.slot \in Slot
    BY <1>4, <1>8 DEF CommandMsg
  <2>1. primary' = RestartWorker(primary, c.slot)
    BY <1>8 DEF TakesRestart, Turn
  <2>2. PrimaryInv'
    BY <1>1, <1>6, <2>0, <2>1, RestartWorkerIsFine, FineTurn
  <2>3. Says(primary, primary')
    BY <1>1, <2>0, <2>1, RestartSays
  <2>4. ReloadAnswered'
    BY <1>1, <1>4, <1>5, <1>6, <1>8, <2>3, TurnAnswers
  <2> QED
    BY <1>4, <1>5, <2>2, <2>3, <2>4 DEF ManagedInv, Says
<1>9. CASE c.type = "shutdown" /\ TakesShutdown
  <2>1. primary' = Shutdown(primary)
    BY <1>9 DEF TakesShutdown, Turn
  <2>2. PrimaryInv'
    BY <1>1, <1>9, ShutdownTurn
  <2>3. Says(primary, primary')
    BY <1>1, <2>1, ShutdownSays
  <2>4. ReloadAnswered'
    BY <1>1, <1>4, <1>5, <1>6, <1>9, <2>3, TurnAnswers
  <2> QED
    BY <1>4, <1>5, <2>2, <2>3, <2>4 DEF ManagedInv, Says
<1> QED
  BY <1>3, <1>7, <1>8, <1>9

LEMMA DeliverManaged ==
    ASSUME ManagedInv, Deliver
    PROVE  ManagedInv'
<1>1. /\ PrimaryInv /\ primary.out \in Seq(Message) /\ commands \in Seq(CommandMsg)
      /\ DaemonTyped /\ ReloadAnswered
  BY DEF ManagedInv
<1>2. /\ PrimaryInv'
      /\ primary.out # <<>> /\ primary'.out = Tail(primary.out) /\ Alike(primary, primary')
      /\ commands' = commands
  BY <1>1, HeadHeard
<1>3. PICK m \in Message : m = Head(primary.out) /\ Hearing(m)
  BY <1>1, HeadHeard
<1>4. RecordsOK'
  BY <1>1, <1>3, HeardRecords DEF DaemonTyped
<1>5. /\ isShuttingDown' = isShuttingDown /\ gaveUp' = gaveUp /\ Tally(m)
      /\ IF m.type = "complete" THEN isReloading' = FALSE ELSE isReloading' = isReloading
  BY <1>3, HeardModes
<1>6. m.type \in {"online", "exit", "listening", "metrics", "failed"} => m.slot \in Slot
  BY MessageTypes
<1>7. launchTimers' \subseteq Slot
  BY <1>1, <1>3, <1>6 DEF Hearing, HearsOnline, HearsListening, HearsExit, HearsMetrics,
                          HearsComplete, HearsFailed, mirror, DaemonTyped
<1>8. slotCrashes' \in [Slot -> Nat] /\ memoryRestarting' \subseteq Slot
  BY <1>1, <1>5, <1>6 DEF Tally, DaemonTyped
<1>9. isReloading' \in BOOLEAN
  BY <1>1, <1>5 DEF DaemonTyped
<1>10. DaemonTyped'
  BY <1>1, <1>4, <1>5, <1>7, <1>8, <1>9 DEF DaemonTyped
<1>11. /\ primary'.out \in Seq(Message)
       /\ \A n \in DOMAIN primary.out :
             n = 1 \/ (n - 1 \in DOMAIN primary'.out /\ primary'.out[n - 1] = primary.out[n])
       /\ Head(primary.out) = primary.out[1]
  BY <1>1, <1>2, TailOf
<1>12. Told(primary) => Told(primary') \/ m.type = "complete"
  <2> SUFFICES ASSUME NEW n \in DOMAIN primary.out, primary.out[n].type = "complete",
                      m.type # "complete"
               PROVE  Told(primary')
    BY DEF Told
  <2>1. n # 1
    BY <1>3, <1>11
  <2>2. n - 1 \in DOMAIN primary'.out /\ primary'.out[n - 1] = primary.out[n]
    BY <1>11, <2>1
  <2>3. primary'.out[n - 1].type = "complete"
    BY <2>2
  <2> QED
    BY <2>2, <2>3 DEF Told
<1>13. ReloadAnswered'
  <2>1. primary'.isReloading = primary.isReloading /\ primary'.exited = primary.exited
    BY <1>2 DEF Alike, AlikeBut
  <2>2. ReloadAsked' <=> ReloadAsked
    BY <1>2 DEF ReloadAsked
  <2> QED
    BY <1>1, <1>5, <1>12, <2>1, <2>2, AnsweredMeans, AnsweredMeansNext
<1> QED
  BY <1>1, <1>2, <1>10, <1>11, <1>13 DEF ManagedInv

LEMMA MetricsManaged ==
    ASSUME HasParent, ManagedInv, NEW w \in Mapped(primary), SendMetrics(w)
    PROVE  ManagedInv'
<1> DEFINE p == primary
           m == [type |-> "metrics", slot |-> primary.workers[w].slot]
           q == Send(p, m)
<1>1. primary' = q /\ UNCHANGED history /\ commands' = commands /\ UNCHANGED <<mirror, modes>>
  BY DEF SendMetrics
<1>2. /\ PrimaryInv /\ Good(p) /\ Shape(p) /\ IsRecord(p) /\ w \in Ids(p) /\ p.out \in Seq(Message)
      /\ DaemonTyped /\ ReloadAnswered /\ commands \in Seq(CommandMsg)
  BY DEF ManagedInv, PrimaryInv, Good, Shape, Mapped
<1>3. m \in Message
  BY <1>2, IdsAreNumbers, StartMessages
<1> HIDE DEF m
<1>4. IsRecord(q) /\ Alike(p, q) /\ Says(p, q)
  BY <1>2, <1>3, SaysMessage
<1> HIDE DEF q
<1>5. Shape(q)
  BY <1>2, <1>4 DEF Shape, Alike, AlikeBut, Ids
<1>6. Fine(p, q)
  BY <1>2, <1>4, <1>5, QuietIsFine DEF Alike, AlikeBut
<1>7. PrimaryInv'
  BY <1>1, <1>2, <1>6, FineTurn DEF history, PrimaryInv
<1>8. DaemonTyped' /\ isReloading' = isReloading
  BY <1>1, <1>2, DaemonStays
<1>9. ReloadAnswered'
  BY <1>1, <1>2, <1>4, <1>8, TurnAnswers DEF ReloadAsked, Alike, AlikeBut
<1> QED
  BY <1>1, <1>2, <1>4, <1>7, <1>8, <1>9 DEF ManagedInv, Says

\* The daemon's own steps: the primary stays, a reload() that begins is asked for.
LEMMA DaemonManaged ==
    ASSUME ManagedInv, primary' = primary, crashed' = crashed, crashedInReload' = crashedInReload,
           setbacks' \in 0..MaxSetbacks, commands' \in Seq(CommandMsg), DaemonTyped',
           ReloadAsked => ReloadAsked', isReloading' => isReloading \/ ReloadAsked'
    PROVE  ManagedInv'
<1>1. PrimaryInv'
  BY PrimaryStays DEF ManagedInv
<1>2. ReloadAnswered'
  BY AnsweredMeans, AnsweredMeansNext DEF ManagedInv
<1> QED
  BY <1>1, <1>2 DEF ManagedInv

LEMMA NextManaged ==
    ASSUME HasParent, ManagedInv, [Next]_vars
    PROVE  ManagedInv'
<1>0. /\ commands \in Seq(CommandMsg) /\ DaemonTyped /\ RecordsOK /\ setbacks \in 0..MaxSetbacks
      /\ MaxSetbacks \in Nat
  BY PrimaryAssumption DEF ManagedInv, DaemonTyped, PrimaryInv
<1>1. ASSUME NEW c \in CommandMsg, Command(c), UNCHANGED <<primary, history>>, DaemonTyped',
             isReloading' => isReloading \/ c.type = "reload"
      PROVE  ManagedInv'
  <2>1. /\ commands' \in Seq(CommandMsg) /\ (ReloadAsked => ReloadAsked')
        /\ c.type = "reload" => ReloadAsked'
    BY <1>0, <1>1, CommandAdded
  <2> QED
    BY <1>0, <1>1, <2>1, DaemonManaged DEF history
<1>2. ASSUME UNCHANGED <<primary, history, commands>>, DaemonTyped', isReloading' => isReloading
      PROVE  ManagedInv'
  <2>1. ReloadAsked => ReloadAsked'
    BY <1>2 DEF ReloadAsked
  <2> QED
    BY <1>0, <1>2, <2>1, DaemonManaged DEF history
<1>3. CASE PrimaryStep /\ UNCHANGED local
  BY <1>3, StepManaged
<1>4. CASE Deliver
  BY <1>4, DeliverManaged
<1>5. CASE PrimaryExit
  <2>1. DaemonTyped' /\ isReloading' = isReloading
    BY <1>0, <1>5 DEF PrimaryExit, DaemonTyped, RecordsOK, modes
  <2> QED
    BY <1>2, <1>5, <2>1 DEF PrimaryExit
<1>6. ASSUME NEW s \in Slot, LaunchTimeout(s) PROVE ManagedInv'
  <2>1. RecordsOK'
    <3>1. CASE clusterWorkers[s] # Absent /\ ~clusterWorkers[s].ready
      <4> DEFINE r == [clusterWorkers[s] EXCEPT !.errored = TRUE]
      <4>1. r \in Record
        BY <1>0, <3>1 DEF RecordsOK, Record
      <4>2. clusterWorkers' = [clusterWorkers EXCEPT ![s] = r]
        BY <1>6, <3>1 DEF LaunchTimeout
      <4> HIDE DEF r
      <4> QED
        BY <1>0, <4>1, <4>2, RecordSet
    <3>2. CASE ~(clusterWorkers[s] # Absent /\ ~clusterWorkers[s].ready)
      <4>1. clusterWorkers' = clusterWorkers
        BY <1>6, <3>2 DEF LaunchTimeout
      <4> QED
        BY <1>0, <4>1 DEF RecordsOK
    <3> QED
      BY <3>1, <3>2
  <2>2. DaemonTyped' /\ isReloading' = isReloading
    BY <1>0, <1>6, <2>1 DEF LaunchTimeout, DaemonTyped, modes
  <2> QED
    BY <1>2, <1>6, <2>2 DEF LaunchTimeout
<1>7. ASSUME NEW w \in Mapped(primary), SendMetrics(w) PROVE ManagedInv'
  BY <1>7, MetricsManaged
<1>8. CASE SendReload
  <2> DEFINE c == [type |-> "reload"]
  <2>1. c \in CommandMsg /\ c.type = "reload"
    BY DEF CommandMsg
  <2>2. Command(c)
    BY <1>8 DEF SendReload
  <2> HIDE DEF c
  <2>3. DaemonTyped'
    BY <1>0, <1>8 DEF SendReload, DaemonTyped, RecordsOK, mirror
  <2> QED
    BY <1>1, <1>8, <2>1, <2>2, <2>3 DEF SendReload
<1>9. CASE ReloadTimeout
  <2>1. /\ primary' = primary /\ crashed' = crashed /\ crashedInReload' = crashedInReload
        /\ commands' = commands /\ isReloading' = FALSE
    BY <1>9 DEF ReloadTimeout
  <2>2. setbacks' \in 0..MaxSetbacks
    BY <1>0, <1>9 DEF ReloadTimeout
  <2>3. DaemonTyped'
    BY <1>0, <1>9 DEF ReloadTimeout, DaemonTyped, RecordsOK, mirror
  <2>4. ReloadAsked => ReloadAsked'
    BY <2>1 DEF ReloadAsked
  <2> QED
    BY <1>0, <2>1, <2>2, <2>3, <2>4, DaemonManaged
<1>10. CASE Stop
  <2> DEFINE c == [type |-> "shutdown"]
  <2>1. c \in CommandMsg
    BY DEF CommandMsg
  <2>2. Command(c)
    BY <1>10 DEF Stop
  <2> HIDE DEF c
  <2>3. DaemonTyped' /\ isReloading' = isReloading
    BY <1>0, <1>10 DEF Stop, DaemonTyped, RecordsOK
  <2> QED
    BY <1>1, <1>10, <2>1, <2>2, <2>3 DEF Stop
<1>11. ASSUME NEW s \in Slot, SendRestart(s) PROVE ManagedInv'
  <2> DEFINE c == [type |-> "restart-worker", slot |-> s]
  <2>1. c \in CommandMsg
    BY DEF CommandMsg
  <2>2. Command(c)
    BY <1>11 DEF SendRestart
  <2> HIDE DEF c
  <2>3. DaemonTyped' /\ isReloading' = isReloading
    BY <1>0, <1>11 DEF SendRestart, DaemonTyped, RecordsOK, mirror
  <2> QED
    BY <1>1, <1>11, <2>1, <2>2, <2>3 DEF SendRestart
<1>12. CASE TakeCommand
  BY <1>12, CommandManaged
<1>13. CASE UNCHANGED vars
  <2>1. UNCHANGED <<primary, history, commands, mirror, modes>>
    BY <1>13 DEF vars
  <2>2. DaemonTyped' /\ isReloading' = isReloading
    BY <1>0, <2>1, DaemonStays
  <2> QED
    BY <1>2, <2>1, <2>2
<1> QED
  BY <1>3, <1>4, <1>5, <1>6, <1>7, <1>8, <1>9, <1>10, <1>11, <1>12, <1>13 DEF Next

LEMMA InitManaged == Init => ManagedInv
<1> SUFFICES ASSUME Init PROVE ManagedInv
  OBVIOUS
<1>1. /\ PrimaryInit /\ commands = <<>> /\ clusterWorkers = [s \in Slot |-> Absent]
      /\ slotCrashes = [s \in Slot |-> 0] /\ isShuttingDown = FALSE /\ isReloading = FALSE
      /\ memoryRestarting = {} /\ launchTimers = {} /\ gaveUp = FALSE
  BY DEF Init
<1>2. primary.out = <<>>
  BY <1>1 DEF PrimaryInit
<1>3. PrimaryInv
  BY <1>1, InitPrimaryInv
<1>4. DaemonTyped
  BY <1>1 DEF DaemonTyped, RecordsOK
<1>5. ReloadAnswered
  BY <1>1 DEF ReloadAnswered
<1> QED
  BY <1>1, <1>2, <1>3, <1>4, <1>5 DEF ManagedInv

\* Whatever the two processes tell each other is of the type the other expects, and what the
\* primary promises on its own it keeps under the daemon's commands.
THEOREM ManagedInvariant == ASSUME HasParent PROVE Spec => []ManagedInv
BY InitManaged, NextManaged, PTL DEF Spec

\* The types of the daemon's side and of the primary's.
THEOREM ManagedTypes == ASSUME HasParent PROVE Spec => []TypeOK
<1>1. ManagedInv => TypeOK
  BY PrimaryTypes DEF ManagedInv, DaemonTyped, RecordsOK, TypeOK
<1> QED
  BY <1>1, ManagedInvariant, PTL

\* No reload() of the daemon waits for nothing, however many reloads, restarts and shutdowns
\* are given and however they overlap with crashes and timeouts: as long as it waits a
\* command, the primary's own reload or an answer is on its way, or the primary is gone
\* (ManagedProcess.ts: the reload:complete handler ends the wait).
THEOREM NoReloadForgotten == ASSUME HasParent PROVE Spec => []ReloadAnswered
<1>1. ManagedInv => ReloadAnswered
  BY DEF ManagedInv
<1> QED
  BY <1>1, ManagedInvariant, PTL
==============================================================================
