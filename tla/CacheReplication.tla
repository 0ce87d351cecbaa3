-------------------------- MODULE CacheReplication --------------------------
(***************************************************************************)
(* The cluster-mode cache: CacheClient in every worker, CachePrimary in    *)
(* the cluster primary, and the FIFO IPC channel between each worker and   *)
(* the primary.                                                            *)
(*                                                                         *)
(* A worker applies its own write at once and sends it up.  The primary    *)
(* handles the messages of all workers one at a time, applies each to its  *)
(* own store and sends the outcome down to every connected worker, the     *)
(* sender included.  An incr is applied by the primary only; the caller    *)
(* waits for the answer, and asks again with the same idempotency key when *)
(* an attempt times out.                                                   *)
(*                                                                         *)
(* A member of Worker is one worker process (one pid): a crashed worker is *)
(* replaced by another member.                                             *)
(***************************************************************************)
EXTENDS CacheData, Sequences, FiniteSets

CONSTANTS Worker,       \* worker processes, over the whole life of the cluster
          Initial,      \* those forked at start
          Call,         \* calls of incr
          Idem,         \* idempotency keys
          KeyOf,        \* the cache key an idempotency key is used with
          Written,      \* entries set() is called with
          Stamp,        \* values Date.now() is seen to return
          Restored,     \* stores the primary may have restored from disk
          MaxAttempts,  \* attempts per incr (options.maxAttempts)
          DedupMax,     \* capacity of the primary's IncrDedupCache
          MaxOps,       \* bound on client operations
          MaxCrashes    \* bound on worker processes that die

ASSUME ReplicationAssumption ==
    /\ Initial \subseteq Worker
    /\ KeyOf \in [Idem -> Key]
    /\ Written \subseteq Entry
    /\ Stamp \subseteq Nat \ {0}
    /\ Restored \subseteq Store
    /\ MaxAttempts \in Nat \ {0}
    /\ DedupMax \in Nat \ {0}
    /\ MaxOps \in Nat
    /\ MaxCrashes \in Nat

VARIABLES status,   \* of each worker: unborn, forked, online, dead or gone
          up,       \* messages from a worker to the primary
          down,     \* messages from the primary to a worker
          primary,  \* the primary's store
          primaryStamps,
          local,    \* each worker's store
          localStamps,
          dedup,    \* the primary's IncrDedupCache, oldest record first
          call,     \* the promise of each incr call
          requests, \* each client's nextRequestId
          ops,      \* client operations so far
          increments, \* history: values the increments of an idempotency key produced
          refused,    \* history: idempotency keys whose increment was refused
          forgotten,  \* history: idempotency keys whose record was dropped
          replayed    \* history: keys a replayed result was last sent for, per worker

vars == <<status, up, down, primary, primaryStamps, local, localStamps, dedup,
          call, requests, ops, increments, refused, forgotten, replayed>>

clients == <<call, requests>>
history == <<increments, refused, forgotten, replayed>>
----------------------------------------------------------------------------
(* Messages and types. *)

Failed  == Absent
Counter == [val : Nat, tags : SUBSET Tag]
Outcome == Counter \cup {Failed}   \* of an incr: the entry it left, or an error

KeyMsg   == [type : {"set"}, key : Key, entry : Entry]
            \cup [type : {"delete"}, key : Key]
            \cup [type : {"clear"}]
StampMsg == [type : {"stamp"}, tag : Tag, at : Stamp]

UpMsg == KeyMsg \cup StampMsg
         \cup [type : {"invalidate"}, tag : Tag]
         \cup [type : {"incr"}, idem : Idem, pid : Worker, req : Nat]

DownMsg == KeyMsg \cup StampMsg
           \cup [type : {"invalidate"}, tag : Tag, at : Stamp]
           \cup [type : {"snapshot"}, store : Store, stamps : Stamps]
           \cup [type : {"result"}, key : Key, outcome : Outcome, pid : Worker, req : Nat]

Idle == [st |-> "idle"]
CallState ==
    {Idle}
    \cup [st : {"waiting"}, by : Worker, idem : Idem, req : Nat, attempt : 1..MaxAttempts]
    \cup [st : {"resolved"}, idem : Idem, value : Nat]
    \cup [st : {"rejected", "exhausted", "lost"}, idem : Idem]

\* The types: what a message, a store, a record of the dedup cache or a promise can hold,
\* an attempt within the attempts of a call included (CacheClient.ts:216-238).
TypeOK ==
    /\ status \in [Worker -> {"unborn", "forked", "online", "dead", "gone"}]
    /\ up \in [Worker -> Seq(UpMsg)]
    /\ down \in [Worker -> Seq(DownMsg)]
    /\ primary \in Store
    /\ primaryStamps \in Stamps
    /\ local \in [Worker -> Store]
    /\ localStamps \in [Worker -> Stamps]
    /\ dedup \in Seq([idem : Idem, outcome : Outcome])
    /\ call \in [Call -> CallState]
    /\ requests \in [Worker -> Nat]
    /\ ops \in Nat
    /\ increments \in [Idem -> Seq(Nat)]
    /\ refused \subseteq Idem
    /\ forgotten \subseteq Idem
    /\ replayed \in [Worker -> SUBSET Key]
----------------------------------------------------------------------------
Init ==
    /\ status = [w \in Worker |-> IF w \in Initial THEN "forked" ELSE "unborn"]
    /\ up = [w \in Worker |-> <<>>]
    /\ down = [w \in Worker |-> <<>>]
    /\ primary \in Restored
    /\ primaryStamps = EmptyStamps
    /\ local = [w \in Worker |-> EmptyStore]
    /\ localStamps = [w \in Worker |-> EmptyStamps]
    /\ dedup = <<>>
    /\ call = [c \in Call |-> Idle]
    /\ requests = [w \in Worker |-> 0]
    /\ ops = 0
    /\ increments = [i \in Idem |-> <<>>]
    /\ refused = {}
    /\ forgotten = {}
    /\ replayed = [w \in Worker |-> {}]

Running(w)   == status[w] \in {"forked", "online"}
Connected(w) == Running(w)      \* worker.isConnected()

----------------------------------------------------------------------------
(* The client, in a worker: CacheClient. *)

\* Every write is optimistic: the local store first, then one message up.
Write(w, store, stamps, msg) ==
    /\ Running(w)
    /\ ops < MaxOps
    /\ ops' = ops + 1
    /\ local' = [local EXCEPT ![w] = store]
    /\ localStamps' = [localStamps EXCEPT ![w] = stamps]
    /\ up' = [up EXCEPT ![w] = Append(@, msg)]
    /\ UNCHANGED <<status, down, primary, primaryStamps, dedup, clients, history>>

Set(w, k, e) ==
    Write(w, [local[w] EXCEPT ![k] = e], localStamps[w],
          [type |-> "set", key |-> k, entry |-> e])

Delete(w, k) ==
    Write(w, [local[w] EXCEPT ![k] = Absent], localStamps[w],
          [type |-> "delete", key |-> k])

Clear(w) ==
    Write(w, EmptyStore, EmptyStamps, [type |-> "clear"])

InvalidateTag(w, t, now) ==
    Write(w, Invalidated(local[w], t), [localStamps[w] EXCEPT ![t] = now],
          [type |-> "invalidate", tag |-> t])

UpdateTagTimestamp(w, t, now) ==
    Write(w, local[w], [localStamps[w] EXCEPT ![t] = now],
          [type |-> "stamp", tag |-> t, at |-> now])

\* sendIncrAttempt(): a fresh requestId, a pending promise, one message up.
Attempt(w, c, i, n) ==
    /\ requests' = [requests EXCEPT ![w] = @ + 1]
    /\ call' = [call EXCEPT ![c] = [st |-> "waiting", by |-> w, idem |-> i,
                                    req |-> requests[w] + 1, attempt |-> n]]
    /\ up' = [up EXCEPT ![w] = Append(@, [type |-> "incr", idem |-> i, pid |-> w,
                                          req |-> requests[w] + 1])]

Incr(w, c, i) ==
    /\ Running(w)
    /\ ops < MaxOps
    /\ ops' = ops + 1
    /\ call[c] = Idle
    /\ Attempt(w, c, i, 1)
    /\ UNCHANGED <<status, down, primary, primaryStamps, local, localStamps, dedup, history>>

AttemptsLeft(c) == call[c].attempt < MaxAttempts

\* The timer of an attempt: ask again with the same idempotency key ...
Retry(c) ==
    /\ call[c].st = "waiting"
    /\ AttemptsLeft(c)
    /\ Attempt(call[c].by, c, call[c].idem, call[c].attempt + 1)
    /\ UNCHANGED <<status, down, primary, primaryStamps, local, localStamps, dedup, ops, history>>

\* ... or give up.
Exhaust(c) ==
    /\ call[c].st = "waiting"
    /\ ~AttemptsLeft(c)
    /\ call' = [call EXCEPT ![c] = [st |-> "exhausted", idem |-> call[c].idem]]
    /\ UNCHANGED <<status, up, down, primary, primaryStamps, local, localStamps, dedup,
                   requests, ops, history>>
----------------------------------------------------------------------------
(* A worker handles the next message from the primary: handleMessage(). *)

StoreAfter(m, store) ==
    CASE m.type = "set"        -> [store EXCEPT ![m.key] = m.entry]
      [] m.type = "delete"     -> [store EXCEPT ![m.key] = Absent]
      [] m.type = "clear"      -> EmptyStore
      [] m.type = "invalidate" -> Invalidated(store, m.tag)
      [] m.type = "snapshot"   -> m.store
      [] m.type = "result" /\ m.outcome # Failed -> [store EXCEPT ![m.key] = m.outcome]
      [] OTHER                 -> store

StampsAfter(m, stamps) ==
    CASE m.type = "clear"                   -> EmptyStamps
      [] m.type \in {"invalidate", "stamp"} -> [stamps EXCEPT ![m.tag] = m.at]
      [] m.type = "snapshot"                -> m.stamps
      [] OTHER                              -> stamps

\* A result answers the call that waits under this pid and requestId, if one does.
AnswersAnyRequest(w, m, c) ==
    m.type = "result" /\ m.pid = w /\ call[c].st = "waiting" /\ call[c].by = w

Answers(w, m, c) ==
    /\ m.type = "result"
    /\ m.pid = w
    /\ call[c].st = "waiting" /\ call[c].by = w /\ call[c].req = m.req

Settled(c, outcome) ==
    IF outcome = Failed
    THEN [st |-> "rejected", idem |-> call[c].idem]
    ELSE [st |-> "resolved", idem |-> call[c].idem, value |-> outcome.val]

Receive(w) ==
    /\ Running(w)
    /\ down[w] # <<>>
    /\ LET m == Head(down[w])
       IN /\ down' = [down EXCEPT ![w] = Tail(@)]
          /\ local' = [local EXCEPT ![w] = StoreAfter(m, @)]
          /\ localStamps' = [localStamps EXCEPT ![w] = StampsAfter(m, @)]
          /\ call' = [c \in Call |-> IF Answers(w, m, c) THEN Settled(c, m.outcome)
                                                         ELSE call[c]]
    /\ UNCHANGED <<status, up, primary, primaryStamps, dedup, requests, ops, history>>
----------------------------------------------------------------------------
(* The primary, in the cluster wrapper: CachePrimary. *)

\* spawnWorker(): a new worker process, connected from the fork on.
Spawn(w) ==
    /\ status[w] = "unborn"
    /\ status' = [status EXCEPT ![w] = "forked"]
    /\ UNCHANGED <<up, down, primary, primaryStamps, local, localStamps, dedup, ops,
                   clients, history>>

\* sendSnapshot() sends nothing when there is nothing to send.
SnapshotDueForEntries == primary # EmptyStore
SnapshotDue == primary # EmptyStore \/ primaryStamps # EmptyStamps

\* The cluster's 'online' event: the first message of a new worker.
Online(w) ==
    /\ status[w] = "forked"
    /\ status' = [status EXCEPT ![w] = "online"]
    /\ IF SnapshotDue
       THEN /\ down' = [down EXCEPT ![w] = Append(@, [type |-> "snapshot", store |-> primary,
                                                     stamps |-> primaryStamps])]
            /\ replayed' = [replayed EXCEPT ![w] = {}]
       ELSE UNCHANGED <<down, replayed>>
    /\ UNCHANGED <<up, primary, primaryStamps, local, localStamps, dedup, ops, clients,
                   increments, refused, forgotten>>

\* The messages of a worker are handled until its 'exit' event; those of a dead
\* worker are what its pipe still held.
Takes(w, type) ==
    /\ status[w] \in {"online", "dead"}
    /\ up[w] # <<>>
    /\ Head(up[w]).type = type
    /\ up' = [up EXCEPT ![w] = Tail(@)]

\* To every connected worker, the sender included.
BroadcastToOthers(w, m) ==
    [v \in Worker |-> IF Connected(v) /\ v # w THEN Append(down[v], m) ELSE down[v]]
Broadcast(w, m) ==
    [v \in Worker |-> IF Connected(v) THEN Append(down[v], m) ELSE down[v]]

Reply(w, m) == IF Connected(w) THEN [down EXCEPT ![w] = Append(@, m)] ELSE down

\* Keys whose entry a broadcast fixes at every worker.
Fixes(m, k) == \/ m.type \in {"set", "delete"} /\ m.key = k
               \/ m.type = "result" /\ m.key = k /\ m.outcome # Failed
               \/ m.type \in {"clear", "snapshot"}

Repaired(m) == [v \in Worker |-> {k \in replayed[v] : ~Fixes(m, k)}]

\* Apply a write to the primary's store and send it to the workers.
Apply(w, m) ==
    /\ primary' = StoreAfter(m, primary)
    /\ primaryStamps' = StampsAfter(m, primaryStamps)
    /\ down' = Broadcast(w, m)
    /\ replayed' = Repaired(m)
    /\ UNCHANGED <<status, local, localStamps, dedup, clients, ops, increments, refused, forgotten>>

HandleWrite(w, type) == Takes(w, type) /\ Apply(w, Head(up[w]))

\* The primary takes its own timestamp for the tag and sends it along.
HandleInvalidate(w, now) ==
    /\ Takes(w, "invalidate")
    /\ Apply(w, [type |-> "invalidate", tag |-> Head(up[w]).tag, at |-> now])

Result(m, outcome) ==
    [type |-> "result", key |-> KeyOf[m.idem], outcome |-> outcome, pid |-> m.pid, req |-> m.req]

RecordSuccess(i, outcome) ==
    /\ dedup' = IF outcome = Failed THEN dedup
                ELSE Append(dedup, [idem |-> i, outcome |-> outcome])
    /\ UNCHANGED forgotten

\* IncrDedupCache.record(): at capacity the oldest record goes.
Record(i, outcome) ==
    LET full == Len(dedup) >= DedupMax
        rest == IF full THEN Tail(dedup) ELSE dedup
    IN /\ dedup' = Append(rest, [idem |-> i, outcome |-> outcome])
       /\ forgotten' = IF full THEN forgotten \cup {Head(dedup).idem} ELSE forgotten

\* A record older than the TTL goes (sweep(), or get() on the way).
DedupExpire ==
    /\ dedup # <<>>
    /\ dedup' = Tail(dedup)
    /\ forgotten' = forgotten \cup {Head(dedup).idem}
    /\ UNCHANGED <<status, up, down, primary, primaryStamps, local, localStamps, ops, clients,
                   increments, refused, replayed>>

Seen(i) == \E n \in DOMAIN dedup : dedup[n].idem = i

\* A repeated idempotency key: the recorded outcome, to the sender only.
HandleRepeat(w) ==
    /\ Takes(w, "incr")
    /\ LET m == Head(up[w])
       IN \E n \in DOMAIN dedup :
            /\ dedup[n].idem = m.idem
            /\ down' = Reply(w, Result(m, dedup[n].outcome))
            /\ replayed' = IF dedup[n].outcome = Failed THEN replayed
                           ELSE [replayed EXCEPT ![w] = @ \cup {KeyOf[m.idem]}]
    /\ UNCHANGED <<status, primary, primaryStamps, local, localStamps, dedup, ops, clients,
                   increments, refused, forgotten>>

\* An existing value incr refuses: the error is recorded, and sent to the sender only.
HandleRefused(w) ==
    /\ Takes(w, "incr")
    /\ LET m == Head(up[w])
       IN /\ ~Seen(m.idem)
          /\ ~Incrementable(primary[KeyOf[m.idem]])
          /\ Record(m.idem, Failed)
          /\ refused' = refused \cup {m.idem}
          /\ down' = Reply(w, Result(m, Failed))
    /\ UNCHANGED <<status, primary, primaryStamps, local, localStamps, ops, clients,
                   increments, replayed>>

\* A new increment: applied, recorded, and broadcast with the sender's pid and requestId.
HandleIncr(w) ==
    /\ Takes(w, "incr")
    /\ LET m == Head(up[w])
           k == KeyOf[m.idem]
           after == Incremented(primary[k])
       IN /\ ~Seen(m.idem)
          /\ Incrementable(primary[k])
          /\ primary' = [primary EXCEPT ![k] = after]
          /\ Record(m.idem, after)
          /\ increments' = [increments EXCEPT ![m.idem] = Append(@, after.val)]
          /\ down' = Broadcast(w, Result(m, after))
          /\ replayed' = Repaired(Result(m, after))
    /\ UNCHANGED <<status, primaryStamps, local, localStamps, ops, clients, refused>>
----------------------------------------------------------------------------
(* Environment: a worker process dies; its 'exit' event arrives later. *)

Lost(c) == [st |-> "lost", idem |-> call[c].idem]

Crash(w) ==
    /\ Running(w)
    /\ Cardinality({v \in Worker : status[v] \in {"dead", "gone"}}) < MaxCrashes
    /\ status' = [status EXCEPT ![w] = "dead"]
    /\ \E n \in 0..Len(up[w]) : up' = [up EXCEPT ![w] = SubSeq(@, 1, n)]
    /\ down' = [down EXCEPT ![w] = <<>>]
    /\ call' = [c \in Call |-> IF call[c].st = "waiting" /\ call[c].by = w THEN Lost(c)
                                                                         ELSE call[c]]
    /\ UNCHANGED <<primary, primaryStamps, local, localStamps, dedup, requests, ops, history>>

Exit(w) ==
    /\ status[w] = "dead"
    /\ status' = [status EXCEPT ![w] = "gone"]
    /\ up' = [up EXCEPT ![w] = <<>>]
    /\ UNCHANGED <<down, primary, primaryStamps, local, localStamps, dedup, ops, clients, history>>
----------------------------------------------------------------------------
ClientStep(w) ==
    \/ \E k \in Key : Delete(w, k) \/ \E e \in Written : Set(w, k, e)
    \/ Clear(w)
    \/ \E t \in Tag, now \in Stamp : InvalidateTag(w, t, now) \/ UpdateTagTimestamp(w, t, now)
    \/ \E c \in Call, i \in Idem : Incr(w, c, i)

PrimaryStep(w) ==
    \/ \E type \in {"set", "delete", "clear", "stamp"} : HandleWrite(w, type)
    \/ \E now \in Stamp : HandleInvalidate(w, now)
    \/ HandleRepeat(w)
    \/ HandleRefused(w)
    \/ HandleIncr(w)

Timer(c) == Retry(c) \/ Exhaust(c)

Next ==
    \/ \E w \in Worker : \/ ClientStep(w) \/ Receive(w)
                         \/ Spawn(w) \/ Online(w) \/ PrimaryStep(w)
                         \/ Crash(w) \/ Exit(w)
    \/ \E c \in Call : Timer(c)
    \/ DedupExpire

Spec == Init /\ [][Next]_vars

\* Both ends run an event loop: a message in a channel is handled, a timer fires (each
\* finitely often here, so that one weak fairness is enough for all).
Fairness ==
    WF_vars(\/ \E w \in Worker : Receive(w) \/ Online(w) \/ PrimaryStep(w)
            \/ \E c \in Call : Timer(c))

FairSpec == Spec /\ Fairness
----------------------------------------------------------------------------
(* Properties. *)

Drained(w) == status[w] = "online" /\ up[w] = <<>> /\ down[w] = <<>>

Agrees(w) ==
    /\ \A k \in Key \ replayed[w] : local[w][k] = primary[k]
    /\ localStamps[w] = primaryStamps

\* The parts of the argument, about a channel q: its n-th message is the last to fix
\* key k (or tag t), ...
LastFix(q, k, n) ==
    /\ n \in DOMAIN q /\ Fixes(q[n], k)
    /\ \A j \in DOMAIN q : Fixes(q[j], k) => j <= n

FixesStamp(m, t) == \/ m.type \in {"invalidate", "stamp"} /\ m.tag = t
                    \/ m.type \in {"clear", "snapshot"}

LastStamp(q, t, n) ==
    /\ n \in DOMAIN q /\ FixesStamp(q[n], t)
    /\ \A j \in DOMAIN q : FixesStamp(q[j], t) => j <= n

\* ... none does, ...
Untouched(q, k) == \A n \in DOMAIN q : ~Fixes(q[n], k)
UntouchedStamp(q, t) == \A n \in DOMAIN q : ~FixesStamp(q[n], t)

\* ... and an invalidation after the n-th drops a slot that carries its tag.
Dropped(q, n, slot) ==
    \E j \in DOMAIN q : j > n /\ q[j].type = "invalidate" /\ Tagged(slot, q[j].tag)

SlotAfter(q, n, slot) == IF Dropped(q, n, slot) THEN Absent ELSE slot

\* The worker's slot (mine) and the primary's (theirs) differ by what is in flight.
AccountedSlot(toWorker, toPrimary, st, mine, theirs, k) ==
    /\ \A n \in DOMAIN toWorker : LastFix(toWorker, k, n) =>
          theirs = SlotAfter(toWorker, n, StoreAfter(toWorker[n], EmptyStore)[k])
    /\ Untouched(toWorker, k) /\ Untouched(toPrimary, k) =>
          \/ theirs = SlotAfter(toWorker, 0, mine)
          \/ mine = Absent /\ st = "forked"
          \/ /\ mine = Absent
             /\ \E n \in DOMAIN toPrimary :
                    toPrimary[n].type = "invalidate" /\ Tagged(theirs, toPrimary[n].tag)

AccountedStamp(toWorker, toPrimary, st, mine, theirs, t) ==
    /\ \A n \in DOMAIN toWorker : LastStamp(toWorker, t, n) =>
          theirs = StampsAfter(toWorker[n], EmptyStamps)[t]
    /\ UntouchedStamp(toWorker, t) /\ UntouchedStamp(toPrimary, t) =>
          \/ theirs = mine
          \/ mine = 0 /\ st = "forked"

AccountedWorker(w) ==
    /\ \A k \in Key \ replayed[w] :
          AccountedSlot(down[w], up[w], status[w], local[w][k], primary[k], k)
    /\ \A t \in Tag :
          AccountedStamp(down[w], up[w], status[w], localStamps[w][t], primaryStamps[t], t)

\* At every moment the messages in flight account for every difference between a
\* worker's store and the primary's: the last message on its way down that fixes a
\* key leaves the primary's value, and where no message fixes it the two agree but
\* for tag invalidations still on their way.
Accounted == \A w \in Worker : Running(w) => AccountedWorker(w)

\* Once nothing is in flight between a worker and the primary, the worker's store
\* is the primary's, whatever the order in which optimistic writes, broadcasts of
\* other workers, tag invalidations and the snapshot of a new worker crossed; only
\* a key whose last message was the answer to a repeated incr may differ.
Converged == \A w \in Worker : Drained(w) => Agrees(w)

\* The same without the exception: cache/README.md says that every worker applies
\* the update and "all converge to the same state".
AllConverged == \A w \in Worker : Drained(w) => local[w] = primary

\* While the primary remembers an idempotency key, retries and repeated calls with
\* it were applied or refused once at most, whoever crashed and however many
\* attempts of it were in flight.
AtMostOnce ==
    \A i \in Idem \ forgotten :
        /\ Len(increments[i]) <= 1
        /\ i \in refused => increments[i] = <<>>

\* Every behaviour is one of the service: the primary's store changes atomically,
\* an increment is not repeated while remembered, and no caller is told a value
\* that an increment of its own idempotency key did not produce.
Service == INSTANCE CacheService WITH
    store <- primary,
    known <- {dedup[n].idem : n \in DOMAIN dedup},
    promise <- [c \in Call |->
                  IF call[c].st = "waiting" THEN [st |-> "waiting", idem |-> call[c].idem]
                                            ELSE call[c]]
ServiceSpec == Service!Spec

\* Writes and calls being finite, the event loops bring every worker that stays up
\* to the primary's state for good.
EventuallyConverged ==
    <>[](\A w \in Worker : status[w] \in {"forked", "online"} => Drained(w) /\ Agrees(w))
=============================================================================
