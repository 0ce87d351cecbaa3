----------------------- MODULE CacheReplicationProofs -----------------------
(***************************************************************************)
(* What holds of CacheReplication for any number of workers, keys, tags,   *)
(* calls and crashes.                                                      *)
(***************************************************************************)
EXTENDS CacheReplication, TLAPS

(* Messages: the type of a message decides its fields. *)

LEMMA UpTypes ==
    ASSUME NEW m \in UpMsg
    PROVE  /\ m.type \in {"set", "delete", "clear", "stamp", "invalidate", "incr"}
           /\ m.type = "set" => m.key \in Key /\ m.entry \in Entry
           /\ m.type = "delete" => m.key \in Key
           /\ m.type = "stamp" => m.tag \in Tag /\ m.at \in Stamp
           /\ m.type = "invalidate" => m.tag \in Tag
           /\ m.type = "incr" => m.idem \in Idem /\ m.pid \in Worker /\ m.req \in Nat
           /\ m.type \in {"set", "delete", "clear", "stamp"} => m \in DownMsg
BY DEF UpMsg, DownMsg, KeyMsg, StampMsg

LEMMA DownTypes ==
    ASSUME NEW m \in DownMsg
    PROVE  /\ m.type \in {"set", "delete", "clear", "stamp", "invalidate", "snapshot", "result"}
           /\ m.type = "set" => m.key \in Key /\ m.entry \in Entry
           /\ m.type = "delete" => m.key \in Key
           /\ m.type \in {"stamp", "invalidate"} => m.tag \in Tag /\ m.at \in Stamp
           /\ m.type = "snapshot" => m.store \in Store /\ m.stamps \in Stamps
           /\ m.type = "result" => m.key \in Key /\ m.outcome \in Outcome
                                   /\ m.pid \in Worker /\ m.req \in Nat
BY DEF DownMsg, KeyMsg, StampMsg

LEMMA EmptyTypes == EmptyStore \in Store /\ EmptyStamps \in Stamps
BY DEF EmptyStore, EmptyStamps, Store, Stamps, Slot

LEMMA InvalidatedType ==
    ASSUME NEW s \in Store, NEW t \in Tag
    PROVE  Invalidated(s, t) \in Store
BY DEF Invalidated, Store, Slot

LEMMA CounterSlot == Counter \subseteq Slot /\ Counter \subseteq Entry
BY DEF Counter, Entry, Slot, Value

\* An entry that can be incremented becomes a counter.
LEMMA IncrementedType ==
    ASSUME NEW slot \in Slot, Incrementable(slot)
    PROVE  Incremented(slot) \in Counter
<1>1. CASE slot = Absent
  BY <1>1 DEF Incremented, Counter
<1>2. CASE slot # Absent
  <2>1. slot \in Entry /\ slot.val \in Nat
    BY <1>2 DEF Incrementable, Slot
  <2>2. Incremented(slot) = [val |-> slot.val + 1, tags |-> slot.tags]
    BY <1>2, <2>1 DEF Incremented, Entry
  <2> QED
    BY <2>1, <2>2 DEF Counter, Entry
<1> QED
  BY <1>1, <1>2

\* Handling a message leaves a store and timestamps.
LEMMA AfterTypes ==
    ASSUME NEW m \in DownMsg, NEW s \in Store, NEW ts \in Stamps
    PROVE  StoreAfter(m, s) \in Store /\ StampsAfter(m, ts) \in Stamps
<1>1. StoreAfter(m, s) \in Store
  <2>1. CASE m.type = "set"
    BY <2>1, DownTypes DEF StoreAfter, Store, Slot
  <2>2. CASE m.type = "delete"
    BY <2>2, DownTypes DEF StoreAfter, Store, Slot
  <2>3. CASE m.type = "clear"
    BY <2>3, EmptyTypes DEF StoreAfter
  <2>4. CASE m.type = "invalidate"
    BY <2>4, DownTypes, InvalidatedType DEF StoreAfter
  <2>5. CASE m.type = "snapshot"
    BY <2>5, DownTypes DEF StoreAfter
  <2>6. CASE m.type = "result"
    <3>1. m.outcome \in Slot
      BY <2>6, DownTypes, CounterSlot DEF Outcome, Failed, Slot
    <3> QED
      BY <2>6, <3>1, DownTypes DEF StoreAfter, Store
  <2>7. CASE m.type = "stamp"
    BY <2>7 DEF StoreAfter
  <2> QED
    BY <2>1, <2>2, <2>3, <2>4, <2>5, <2>6, <2>7, DownTypes
<1>2. StampsAfter(m, ts) \in Stamps
  <2>1. CASE m.type = "clear"
    BY <2>1, EmptyTypes DEF StampsAfter
  <2>2. CASE m.type \in {"invalidate", "stamp"}
    BY <2>2, DownTypes, ReplicationAssumption DEF StampsAfter, Stamps
  <2>3. CASE m.type = "snapshot"
    BY <2>3, DownTypes DEF StampsAfter
  <2>4. CASE m.type \in {"set", "delete", "result"}
    BY <2>4 DEF StampsAfter
  <2> QED
    BY <2>1, <2>2, <2>3, <2>4, DownTypes
<1> QED
  BY <1>1, <1>2

(* Channels. *)

LEMMA AppendAll ==
    ASSUME NEW S, NEW q \in Seq(S), NEW e \in S
    PROVE  Append(q, e) \in Seq(S)
OBVIOUS

LEMMA TailType ==
    ASSUME NEW S, NEW q \in Seq(S), q # <<>>
    PROVE  Head(q) \in S /\ Tail(q) \in Seq(S)
OBVIOUS

LEMMA ElementType ==
    ASSUME NEW S, NEW q \in Seq(S), NEW n \in DOMAIN q
    PROVE  q[n] \in S
OBVIOUS

LEMMA PrefixType ==
    ASSUME NEW S, NEW q \in Seq(S), NEW n \in 0..Len(q)
    PROVE  SubSeq(q, 1, n) \in Seq(S)
OBVIOUS

LEMMA BroadcastType ==
    ASSUME TypeOK, NEW w \in Worker, NEW m \in DownMsg
    PROVE  Broadcast(w, m) \in [Worker -> Seq(DownMsg)]
BY AppendAll DEF Broadcast, TypeOK

LEMMA ReplyType ==
    ASSUME TypeOK, NEW w \in Worker, NEW m \in DownMsg
    PROVE  Reply(w, m) \in [Worker -> Seq(DownMsg)]
BY AppendAll DEF Reply, TypeOK

LEMMA ResultType ==
    ASSUME NEW m \in UpMsg, m.type = "incr", NEW o \in Outcome
    PROVE  Result(m, o) \in DownMsg
BY UpTypes, ReplicationAssumption DEF Result, DownMsg

LEMMA RepairedType ==
    ASSUME TypeOK, NEW m
    PROVE  Repaired(m) \in [Worker -> SUBSET Key]
BY DEF Repaired, TypeOK

----------------------------------------------------------------------------
(* Type correctness, one lemma per group of actions. *)

LEMMA InitTypeOK == Init => TypeOK
BY EmptyTypes, ReplicationAssumption DEF Init, TypeOK, CallState, Idle

LEMMA WriteTypeOK ==
    ASSUME TypeOK, NEW w \in Worker, NEW s \in Store, NEW ts \in Stamps, NEW m \in UpMsg,
           Write(w, s, ts, m)
    PROVE  TypeOK'
BY AppendAll DEF TypeOK, Write, clients, history

LEMMA AttemptType ==
    ASSUME TypeOK, NEW w \in Worker, NEW c \in Call, NEW i \in Idem, NEW n \in 1..MaxAttempts,
           Attempt(w, c, i, n)
    PROVE  /\ requests' \in [Worker -> Nat]
           /\ call' \in [Call -> CallState]
           /\ up' \in [Worker -> Seq(UpMsg)]
<1>1. requests[w] + 1 \in Nat
  BY DEF TypeOK
<1>2. [type |-> "incr", idem |-> i, pid |-> w, req |-> requests[w] + 1] \in UpMsg
  BY <1>1 DEF UpMsg
<1>3. [st |-> "waiting", by |-> w, idem |-> i, req |-> requests[w] + 1, attempt |-> n] \in CallState
  BY <1>1 DEF CallState
<1> QED
  BY <1>1, <1>2, <1>3, AppendAll DEF TypeOK, Attempt

LEMMA ClientTypeOK ==
    ASSUME TypeOK, NEW w \in Worker, ClientStep(w)
    PROVE  TypeOK'
<1> local[w] \in Store /\ localStamps[w] \in Stamps
  BY DEF TypeOK
<1>1. ASSUME NEW k \in Key, Delete(w, k)
      PROVE  TypeOK'
  <2>1. [local[w] EXCEPT ![k] = Absent] \in Store
    BY DEF Store, Slot
  <2>2. [type |-> "delete", key |-> k] \in UpMsg
    BY DEF UpMsg, KeyMsg
  <2> QED
    BY <1>1, <2>1, <2>2, WriteTypeOK DEF Delete
<1>2. ASSUME NEW k \in Key, NEW e \in Written, Set(w, k, e)
      PROVE  TypeOK'
  <2>1. e \in Entry
    BY ReplicationAssumption
  <2>2. [local[w] EXCEPT ![k] = e] \in Store
    BY <2>1 DEF Store, Slot
  <2>3. [type |-> "set", key |-> k, entry |-> e] \in UpMsg
    BY <2>1 DEF UpMsg, KeyMsg
  <2> QED
    BY <1>2, <2>2, <2>3, WriteTypeOK DEF Set
<1>3. CASE Clear(w)
  <2>1. [type |-> "clear"] \in UpMsg
    BY DEF UpMsg, KeyMsg
  <2> QED
    BY <1>3, <2>1, EmptyTypes, WriteTypeOK DEF Clear
<1>4. ASSUME NEW t \in Tag, NEW now \in Stamp, InvalidateTag(w, t, now)
      PROVE  TypeOK'
  <2>1. [localStamps[w] EXCEPT ![t] = now] \in Stamps
    BY ReplicationAssumption DEF Stamps
  <2>2. [type |-> "invalidate", tag |-> t] \in UpMsg
    BY DEF UpMsg
  <2> QED
    BY <1>4, <2>1, <2>2, InvalidatedType, WriteTypeOK DEF InvalidateTag
<1>5. ASSUME NEW t \in Tag, NEW now \in Stamp, UpdateTagTimestamp(w, t, now)
      PROVE  TypeOK'
  <2>1. [localStamps[w] EXCEPT ![t] = now] \in Stamps
    BY ReplicationAssumption DEF Stamps
  <2>2. [type |-> "stamp", tag |-> t, at |-> now] \in UpMsg
    BY DEF UpMsg, StampMsg
  <2> QED
    BY <1>5, <2>1, <2>2, WriteTypeOK DEF UpdateTagTimestamp
<1>6. ASSUME NEW c \in Call, NEW i \in Idem, Incr(w, c, i)
      PROVE  TypeOK'
  <2>1. 1 \in 1..MaxAttempts
    BY ReplicationAssumption
  <2> QED
    BY <1>6, <2>1, AttemptType DEF TypeOK, Incr, history
<1> QED
  BY <1>1, <1>2, <1>3, <1>4, <1>5, <1>6 DEF ClientStep

\* A waiting call has its caller, idempotency key and attempt.
LEMMA WaitingType ==
    ASSUME TypeOK, NEW c \in Call, call[c].st = "waiting"
    PROVE  call[c] \in [st : {"waiting"}, by : Worker, idem : Idem, req : Nat,
                         attempt : 1..MaxAttempts]
<1>1. call[c] \in CallState
  BY DEF TypeOK
<1>2. call[c] # Idle
  BY DEF Idle
<1> QED
  BY <1>1, <1>2 DEF CallState

LEMMA TimerTypeOK ==
    ASSUME TypeOK, NEW c \in Call, Timer(c)
    PROVE  TypeOK'
<1> SUFFICES ASSUME call[c].st = "waiting" PROVE TypeOK'
  BY DEF Timer, Retry, Exhaust
<1>1. /\ call[c].idem \in Idem /\ call[c].by \in Worker
      /\ call[c].attempt \in 1..MaxAttempts
  BY WaitingType
<1>2. CASE Retry(c)
  <2>1. call[c].attempt + 1 \in 1..MaxAttempts
    BY <1>1, <1>2, ReplicationAssumption DEF Retry, AttemptsLeft
  <2> QED
    BY <1>1, <1>2, <2>1, AttemptType DEF TypeOK, Retry, history
<1>3. CASE Exhaust(c)
  <2>1. [st |-> "exhausted", idem |-> call[c].idem] \in CallState
    BY <1>1 DEF CallState
  <2> QED
    BY <1>3, <2>1 DEF TypeOK, Exhaust, history
<1> QED
  BY <1>2, <1>3 DEF Timer

LEMMA ReceiveTypeOK ==
    ASSUME TypeOK, NEW w \in Worker, Receive(w)
    PROVE  TypeOK'
<1> DEFINE m == Head(down[w])
<1>1. m \in DownMsg /\ Tail(down[w]) \in Seq(DownMsg)
  BY TailType DEF TypeOK, Receive
<1>2. down' \in [Worker -> Seq(DownMsg)]
  BY <1>1 DEF TypeOK, Receive
<1>3. StoreAfter(m, local[w]) \in Store /\ StampsAfter(m, localStamps[w]) \in Stamps
  BY <1>1, AfterTypes DEF TypeOK
<1>4. local' \in [Worker -> Store] /\ localStamps' \in [Worker -> Stamps]
  BY <1>3 DEF TypeOK, Receive
<1>5. ASSUME NEW c \in Call, Answers(w, m, c)
      PROVE  Settled(c, m.outcome) \in CallState
  <2>1. call[c].idem \in Idem
    BY <1>5 DEF Answers, TypeOK, CallState, Idle
  <2>2. m.outcome = Failed \/ m.outcome.val \in Nat
    BY <1>1, <1>5, DownTypes DEF Answers, Outcome, Counter
  <2> QED
    BY <2>1, <2>2 DEF Settled, CallState
<1>6. call' \in [Call -> CallState]
  BY <1>5 DEF TypeOK, Receive
<1> QED
  BY <1>2, <1>4, <1>6 DEF TypeOK, Receive, history

LEMMA LifecycleTypeOK ==
    ASSUME TypeOK, NEW w \in Worker, Spawn(w) \/ Online(w) \/ Crash(w) \/ Exit(w)
    PROVE  TypeOK'
<1>1. CASE Spawn(w)
  BY <1>1 DEF TypeOK, Spawn, clients, history
<1>2. CASE Online(w)
  <2>1. [type |-> "snapshot", store |-> primary, stamps |-> primaryStamps] \in DownMsg
    BY DEF TypeOK, DownMsg
  <2>2. down' \in [Worker -> Seq(DownMsg)]
    <3>1. CASE SnapshotDue
      <4>1. Append(down[w], [type |-> "snapshot", store |-> primary, stamps |-> primaryStamps])
              \in Seq(DownMsg)
        BY <2>1, AppendAll DEF TypeOK
      <4> QED
        BY <1>2, <3>1, <4>1 DEF TypeOK, Online
    <3>2. CASE ~SnapshotDue
      BY <1>2, <3>2 DEF TypeOK, Online
    <3> QED
      BY <3>1, <3>2
  <2> QED
    BY <1>2, <2>2 DEF TypeOK, Online, clients, history
<1>3. CASE Crash(w)
  <2>1. up' \in [Worker -> Seq(UpMsg)]
    BY <1>3, PrefixType DEF TypeOK, Crash
  <2>2. \A c \in Call : call[c].st = "waiting" => Lost(c) \in CallState
    BY DEF TypeOK, CallState, Idle, Lost
  <2>3. call' \in [Call -> CallState]
    BY <1>3, <2>2 DEF TypeOK, Crash
  <2> QED
    BY <1>3, <2>1, <2>3 DEF TypeOK, Crash, history
<1>4. CASE Exit(w)
  BY <1>4 DEF TypeOK, Exit, clients, history
<1> QED
  BY <1>1, <1>2, <1>3, <1>4

LEMMA RecordType ==
    ASSUME TypeOK, NEW i \in Idem, NEW o \in Outcome, Record(i, o)
    PROVE  dedup' \in Seq([idem : Idem, outcome : Outcome]) /\ forgotten' \subseteq Idem
<1> DEFINE Rec == [idem : Idem, outcome : Outcome]
<1>1. dedup \in Seq(Rec) /\ [idem |-> i, outcome |-> o] \in Rec
  BY DEF TypeOK
<1>2. CASE Len(dedup) >= DedupMax
  <2>1. dedup # <<>>
    BY <1>1, <1>2, ReplicationAssumption
  <2>2. Head(dedup) \in Rec /\ Tail(dedup) \in Seq(Rec)
    BY <1>1, <2>1, TailType
  <2> QED
    BY <1>1, <1>2, <2>2, AppendAll DEF Record, TypeOK
<1>3. CASE ~(Len(dedup) >= DedupMax)
  BY <1>1, <1>3, AppendAll DEF Record, TypeOK
<1> QED
  BY <1>2, <1>3

LEMMA PrimaryTypeOK ==
    ASSUME TypeOK, NEW w \in Worker, PrimaryStep(w)
    PROVE  TypeOK'
<1> DEFINE m == Head(up[w])
<1>1. ASSUME NEW type, Takes(w, type)
      PROVE  m \in UpMsg /\ m.type = type /\ up' \in [Worker -> Seq(UpMsg)]
  BY <1>1, TailType DEF TypeOK, Takes
<1>2. ASSUME NEW d \in DownMsg, Apply(w, d), up' \in [Worker -> Seq(UpMsg)]
      PROVE  TypeOK'
  BY <1>2, AfterTypes, BroadcastType, RepairedType DEF TypeOK, Apply, clients
<1>3. ASSUME NEW type \in {"set", "delete", "clear", "stamp"}, HandleWrite(w, type)
      PROVE  TypeOK'
  BY <1>1, <1>2, <1>3, UpTypes DEF HandleWrite
<1>4. ASSUME NEW now \in Stamp, HandleInvalidate(w, now)
      PROVE  TypeOK'
  <2>1. m \in UpMsg /\ m.type = "invalidate" /\ up' \in [Worker -> Seq(UpMsg)]
    BY <1>1, <1>4 DEF HandleInvalidate
  <2>2. [type |-> "invalidate", tag |-> m.tag, at |-> now] \in DownMsg
    BY <2>1, UpTypes DEF DownMsg
  <2> QED
    BY <1>2, <1>4, <2>1, <2>2 DEF HandleInvalidate
<1>5. ASSUME Takes(w, "incr")
      PROVE  /\ m \in UpMsg /\ m.type = "incr" /\ m.idem \in Idem
             /\ KeyOf[m.idem] \in Key /\ up' \in [Worker -> Seq(UpMsg)]
  BY <1>1, <1>5, UpTypes, ReplicationAssumption
<1>6. CASE HandleRepeat(w)
  <2>1. PICK n \in DOMAIN dedup :
          /\ down' = Reply(w, Result(m, dedup[n].outcome))
          /\ replayed' = IF dedup[n].outcome = Failed THEN replayed
                         ELSE [replayed EXCEPT ![w] = @ \cup {KeyOf[m.idem]}]
    BY <1>6 DEF HandleRepeat
  <2>2. dedup[n].outcome \in Outcome
    <3>1. dedup \in Seq([idem : Idem, outcome : Outcome])
      BY DEF TypeOK
    <3>2. dedup[n] \in [idem : Idem, outcome : Outcome]
      BY <3>1, ElementType
    <3> QED
      BY <3>2
  <2>3. Takes(w, "incr")
    BY <1>6 DEF HandleRepeat
  <2>4. Result(m, dedup[n].outcome) \in DownMsg
    BY <1>5, <2>2, <2>3, ResultType
  <2>5. down' \in [Worker -> Seq(DownMsg)]
    BY <2>1, <2>4, ReplyType
  <2>6. replayed' \in [Worker -> SUBSET Key]
    BY <1>5, <2>1, <2>3 DEF TypeOK
  <2> QED
    BY <1>5, <1>6, <2>3, <2>5, <2>6 DEF TypeOK, HandleRepeat, clients
<1>7. CASE HandleRefused(w)
  <2>1. Takes(w, "incr") /\ Record(m.idem, Failed) /\ Failed \in Outcome
    BY <1>7 DEF HandleRefused, Outcome
  <2>2. Result(m, Failed) \in DownMsg
    BY <1>5, <2>1, ResultType
  <2>3. dedup' \in Seq([idem : Idem, outcome : Outcome]) /\ forgotten' \subseteq Idem
    BY <1>5, <2>1, RecordType
  <2>4. down' \in [Worker -> Seq(DownMsg)]
    BY <1>7, <2>2, ReplyType DEF HandleRefused
  <2>5. refused' \subseteq Idem
    BY <1>5, <1>7, <2>1 DEF TypeOK, HandleRefused
  <2> QED
    BY <1>5, <1>7, <2>1, <2>3, <2>4, <2>5 DEF TypeOK, HandleRefused, clients
<1>8. CASE HandleIncr(w)
  <2> DEFINE k == KeyOf[m.idem]
             after == Incremented(primary[k])
  <2>1. Takes(w, "incr") /\ Record(m.idem, after) /\ Incrementable(primary[k])
    BY <1>8 DEF HandleIncr
  <2>2. after \in Counter /\ after \in Outcome /\ after \in Slot /\ after.val \in Nat
    <3>1. primary[k] \in Slot
      BY <1>5, <2>1 DEF TypeOK, Store
    <3>2. after \in Counter
      BY <2>1, <3>1, IncrementedType
    <3> QED
      BY <3>2, CounterSlot DEF Outcome, Counter
  <2>3. Result(m, after) \in DownMsg
    BY <1>5, <2>1, <2>2, ResultType
  <2>4. dedup' \in Seq([idem : Idem, outcome : Outcome]) /\ forgotten' \subseteq Idem
    BY <1>5, <2>1, <2>2, RecordType
  <2>5. primary' \in Store
    BY <1>5, <1>8, <2>1, <2>2 DEF TypeOK, Store, HandleIncr
  <2>6. increments' \in [Idem -> Seq(Nat)]
    BY <1>5, <1>8, <2>1, <2>2, AppendAll DEF TypeOK, HandleIncr
  <2>7. down' \in [Worker -> Seq(DownMsg)] /\ replayed' \in [Worker -> SUBSET Key]
    BY <1>8, <2>3, BroadcastType, RepairedType DEF HandleIncr
  <2> QED
    BY <1>5, <1>8, <2>1, <2>4, <2>5, <2>6, <2>7 DEF TypeOK, HandleIncr, clients
<1> QED
  BY <1>3, <1>4, <1>6, <1>7, <1>8 DEF PrimaryStep

LEMMA ExpireTypeOK ==
    ASSUME TypeOK, DedupExpire
    PROVE  TypeOK'
<1> DEFINE Rec == [idem : Idem, outcome : Outcome]
<1>1. dedup \in Seq(Rec) /\ dedup # <<>>
  BY DEF TypeOK, DedupExpire
<1>2. Head(dedup) \in Rec /\ Tail(dedup) \in Seq(Rec)
  BY <1>1, TailType
<1> QED
  BY <1>2 DEF TypeOK, DedupExpire, clients

LEMMA StutterTypeOK == TypeOK /\ UNCHANGED vars => TypeOK'
BY DEF TypeOK, vars

LEMMA NextTypeOK == TypeOK /\ [Next]_vars => TypeOK'
BY ClientTypeOK, TimerTypeOK, ReceiveTypeOK, LifecycleTypeOK, PrimaryTypeOK, ExpireTypeOK,
   StutterTypeOK DEF Next

\* Every message, store and pending call keeps its type: no handler reads a field a
\* message of its type does not have (the switch of CachePrimary.handleMessage and
\* CacheClient.handleMessage on message types).
THEOREM TypeCorrect == Spec => []TypeOK
BY InitTypeOK, NextTypeOK, PTL DEF Spec
----------------------------------------------------------------------------
(* Why a worker whose channels are empty has the primary's store.          *)
(*                                                                         *)
(* Accounted is inductive (with the types, and the fact that a process     *)
(* that was never forked is empty).  It is a statement about one worker    *)
(* and one key at a time, AccountedSlot, over its two channels and the two *)
(* slots, and every step changes these in one of few ways: a message is    *)
(* appended to or taken from one of the channels.  The first lemmas are    *)
(* those ways; the last ones find them in the actions.                     *)

LEMMA AppendElements ==
    ASSUME NEW S, NEW q \in Seq(S), NEW e \in S
    PROVE  /\ DOMAIN Append(q, e) = (DOMAIN q) \cup {Len(q) + 1}
           /\ \A n \in DOMAIN q : n \in Nat /\ n <= Len(q) /\ Append(q, e)[n] = q[n]
           /\ Append(q, e)[Len(q) + 1] = e
           /\ Len(q) \in Nat
OBVIOUS

LEMMA TailElements ==
    ASSUME NEW S, NEW q \in Seq(S), q # <<>>
    PROVE  /\ \A n \in DOMAIN Tail(q) : n \in Nat /\ n + 1 \in DOMAIN q /\ Tail(q)[n] = q[n + 1]
           /\ \A n \in DOMAIN q : n \in Nat /\ (n = 1 \/ n - 1 \in DOMAIN Tail(q))
           /\ 1 \in DOMAIN q /\ q[1] = Head(q)
OBVIOUS

----------------------------------------------------------------------------
(* The last fix of a key, and what drops a slot, in a channel that grows or shrinks. *)

LEMMA LastFixAppend ==
    ASSUME NEW q \in Seq(DownMsg), NEW m \in DownMsg, NEW k \in Key,
           NEW n \in DOMAIN Append(q, m), LastFix(Append(q, m), k, n)
    PROVE  IF Fixes(m, k) THEN n = Len(q) + 1
                          ELSE n \in DOMAIN q /\ LastFix(q, k, n)
BY AppendElements DEF LastFix

LEMMA DroppedAppend ==
    ASSUME NEW q \in Seq(DownMsg), NEW m \in DownMsg, NEW n \in Nat, NEW slot \in Slot
    PROVE  /\ n <= Len(q) => (Dropped(Append(q, m), n, slot) <=>
                 Dropped(q, n, slot) \/ (m.type = "invalidate" /\ Tagged(slot, m.tag)))
           /\ ~Dropped(Append(q, m), Len(q) + 1, slot)
BY AppendElements DEF Dropped

LEMMA LastFixTail ==
    ASSUME NEW q \in Seq(DownMsg), q # <<>>, NEW k \in Key,
           NEW n \in DOMAIN Tail(q), LastFix(Tail(q), k, n)
    PROVE  LastFix(q, k, n + 1)
BY TailElements, SMTT(20) DEF LastFix

LEMMA DroppedTail ==
    ASSUME NEW q \in Seq(DownMsg), q # <<>>, NEW n \in Nat, NEW slot \in Slot
    PROVE  Dropped(Tail(q), n, slot) <=> Dropped(q, n + 1, slot)
<1>1. ASSUME NEW j \in DOMAIN Tail(q), j > n, Tail(q)[j].type = "invalidate",
             Tagged(slot, Tail(q)[j].tag)
      PROVE  Dropped(q, n + 1, slot)
  <2>1. j \in Nat /\ j + 1 \in DOMAIN q /\ Tail(q)[j] = q[j + 1]
    BY TailElements
  <2>2. j + 1 > n + 1
    BY <1>1, <2>1
  <2> QED
    BY <1>1, <2>1, <2>2 DEF Dropped
<1>2. ASSUME NEW j \in DOMAIN q, j > n + 1, q[j].type = "invalidate", Tagged(slot, q[j].tag)
      PROVE  Dropped(Tail(q), n, slot)
  <2>1. j \in Nat /\ (j = 1 \/ j - 1 \in DOMAIN Tail(q))
    BY TailElements
  <2>2. j - 1 \in DOMAIN Tail(q) /\ j - 1 > n /\ (j - 1) + 1 = j
    BY <1>2, <2>1
  <2>3. Tail(q)[j - 1] = q[j]
    BY <2>2, TailElements
  <2> QED
    BY <1>2, <2>2, <2>3 DEF Dropped
<1> QED
  BY <1>1, <1>2 DEF Dropped

LEMMA DroppedHead ==
    ASSUME NEW q \in Seq(DownMsg), q # <<>>, NEW slot \in Slot
    PROVE  Dropped(q, 0, slot) <=>
              \/ Head(q).type = "invalidate" /\ Tagged(slot, Head(q).tag)
              \/ Dropped(q, 1, slot)
<1>1. /\ 1 \in DOMAIN q /\ q[1] = Head(q)
      /\ \A n \in DOMAIN q : n \in Nat /\ (n > 0) /\ (n # 1 => n > 1)
  OBVIOUS
<1> QED
  BY <1>1 DEF Dropped

\* A message that fixes a key leaves the same slot whatever the store was, ...
LEMMA FixedSlot ==
    ASSUME NEW m \in DownMsg, NEW k \in Key, Fixes(m, k), NEW s \in Store
    PROVE  StoreAfter(m, s)[k] = StoreAfter(m, EmptyStore)[k]
BY DownTypes, EmptyTypes DEF Fixes, StoreAfter, Store

\* ... and one that does not leaves the slot, unless it invalidates it.
LEMMA KeptSlot ==
    ASSUME NEW m \in DownMsg, NEW k \in Key, ~Fixes(m, k), NEW s \in Store
    PROVE  StoreAfter(m, s)[k] =
             IF m.type = "invalidate" /\ Tagged(s[k], m.tag) THEN Absent ELSE s[k]
BY DownTypes DEF Fixes, StoreAfter, Store, Invalidated

----------------------------------------------------------------------------
(* One worker and one key: what each change of the channels does to AccountedSlot. *)

\* The primary sends a message that fixes the key, having applied it.
LEMMA SendFix ==
    ASSUME NEW q \in Seq(DownMsg), NEW u, NEW st, NEW mine, NEW k \in Key,
           NEW m \in DownMsg, Fixes(m, k)
    PROVE  AccountedSlot(Append(q, m), u, st, mine, StoreAfter(m, EmptyStore)[k], k)
<1> DEFINE slot == StoreAfter(m, EmptyStore)[k]
<1>1. slot \in Slot
  BY AfterTypes, EmptyTypes DEF Store
<1>2. ASSUME NEW n \in DOMAIN Append(q, m), LastFix(Append(q, m), k, n)
      PROVE  slot = SlotAfter(Append(q, m), n, StoreAfter(Append(q, m)[n], EmptyStore)[k])
  BY <1>1, <1>2, LastFixAppend, DroppedAppend, AppendElements DEF SlotAfter
<1>3. ~Untouched(Append(q, m), k)
  BY AppendElements DEF Untouched
<1> QED
  BY <1>2, <1>3 DEF AccountedSlot

\* The primary sends a message about something else.
LEMMA SendSkip ==
    ASSUME NEW q \in Seq(DownMsg), NEW u, NEW st, NEW mine \in Slot, NEW theirs, NEW k \in Key,
           AccountedSlot(q, u, st, mine, theirs, k),
           NEW m \in DownMsg, ~Fixes(m, k), m.type # "invalidate"
    PROVE  AccountedSlot(Append(q, m), u, st, mine, theirs, k)
<1>1. ASSUME NEW n \in DOMAIN Append(q, m), LastFix(Append(q, m), k, n)
      PROVE  theirs = SlotAfter(Append(q, m), n, StoreAfter(Append(q, m)[n], EmptyStore)[k])
  <2>1. n \in DOMAIN q /\ LastFix(q, k, n) /\ n \in Nat /\ n <= Len(q) /\ Append(q, m)[n] = q[n]
    BY <1>1, LastFixAppend, AppendElements
  <2>2. StoreAfter(q[n], EmptyStore)[k] \in Slot
    <3>1. q[n] \in DownMsg
      BY <2>1, ElementType
    <3>2. StoreAfter(q[n], EmptyStore) \in Store
      BY <3>1, AfterTypes, EmptyTypes
    <3> QED
      BY <3>2 DEF Store
  <2> QED
    BY <2>1, <2>2, DroppedAppend DEF AccountedSlot, SlotAfter
<1>2. Untouched(Append(q, m), k) => Untouched(q, k)
  BY AppendElements DEF Untouched
<1>3. SlotAfter(Append(q, m), 0, mine) = SlotAfter(q, 0, mine)
  BY DroppedAppend, AppendElements DEF SlotAfter
<1> QED
  BY <1>1, <1>2, <1>3 DEF AccountedSlot

\* The primary invalidates a tag, and says so.
LEMMA SendInvalidate ==
    ASSUME NEW q \in Seq(DownMsg), NEW u, NEW st, NEW mine \in Slot, NEW theirs, NEW k \in Key,
           AccountedSlot(q, u, st, mine, theirs, k),
           NEW m \in DownMsg, m.type = "invalidate"
    PROVE  AccountedSlot(Append(q, m), u, st, mine,
                         IF Tagged(theirs, m.tag) THEN Absent ELSE theirs, k)
<1> DEFINE after == IF Tagged(theirs, m.tag) THEN Absent ELSE theirs
<1>0. ~Fixes(m, k)
  BY DEF Fixes
<1>a. ASSUME NEW n \in Nat, n <= Len(q), NEW slot \in Slot, theirs = SlotAfter(q, n, slot)
      PROVE  after = SlotAfter(Append(q, m), n, slot)
  BY <1>a, DroppedAppend DEF SlotAfter, Tagged
<1>1. ASSUME NEW n \in DOMAIN Append(q, m), LastFix(Append(q, m), k, n)
      PROVE  after = SlotAfter(Append(q, m), n, StoreAfter(Append(q, m)[n], EmptyStore)[k])
  <2>1. n \in DOMAIN q /\ LastFix(q, k, n) /\ n \in Nat /\ n <= Len(q) /\ Append(q, m)[n] = q[n]
    BY <1>0, <1>1, LastFixAppend, AppendElements
  <2>2. StoreAfter(q[n], EmptyStore)[k] \in Slot
    <3>1. q[n] \in DownMsg
      BY <2>1, ElementType
    <3>2. StoreAfter(q[n], EmptyStore) \in Store
      BY <3>1, AfterTypes, EmptyTypes
    <3> QED
      BY <3>2 DEF Store
  <2>3. theirs = SlotAfter(q, n, StoreAfter(q[n], EmptyStore)[k])
    BY <2>1 DEF AccountedSlot
  <2> QED
    BY <1>a, <2>1, <2>2, <2>3
<1>2. ASSUME Untouched(Append(q, m), k), Untouched(u, k)
      PROVE  \/ after = SlotAfter(Append(q, m), 0, mine)
             \/ mine = Absent /\ st = "forked"
             \/ /\ mine = Absent
                /\ \E n \in DOMAIN u : u[n].type = "invalidate" /\ Tagged(after, u[n].tag)
  <2>1. Untouched(q, k)
    BY <1>2, AppendElements DEF Untouched
  <2>2. \/ theirs = SlotAfter(q, 0, mine)
        \/ mine = Absent /\ st = "forked"
        \/ /\ mine = Absent
           /\ \E n \in DOMAIN u : u[n].type = "invalidate" /\ Tagged(theirs, u[n].tag)
    BY <1>2, <2>1 DEF AccountedSlot
  <2>3. theirs = SlotAfter(q, 0, mine) => after = SlotAfter(Append(q, m), 0, mine)
    BY <1>a, AppendElements
  <2>4. mine = Absent => SlotAfter(Append(q, m), 0, mine) = Absent
    BY DEF SlotAfter
  <2> QED
    BY <2>2, <2>3, <2>4
<1> QED
  BY <1>1, <1>2 DEF AccountedSlot

\* The primary takes a message of the worker that no longer makes a difference.
LEMMA TakeMessage ==
    ASSUME NEW q, NEW u \in Seq(UpMsg), u # <<>>, NEW st, NEW mine, NEW theirs, NEW k \in Key,
           AccountedSlot(q, u, st, mine, theirs, k),
           ~Fixes(Head(u), k),
           Head(u).type = "invalidate" => ~Tagged(theirs, Head(u).tag)
    PROVE  AccountedSlot(q, Tail(u), st, mine, theirs, k)
<1>1. Untouched(Tail(u), k) => Untouched(u, k)
  <2> SUFFICES ASSUME Untouched(Tail(u), k), NEW n \in DOMAIN u
               PROVE  ~Fixes(u[n], k)
    BY DEF Untouched
  <2>1. CASE n = 1
    BY <2>1, TailElements
  <2>2. CASE n - 1 \in DOMAIN Tail(u)
    <3>1. n \in Nat /\ Tail(u)[n - 1] = u[(n - 1) + 1] /\ (n - 1) + 1 = n
      BY <2>2, TailElements
    <3> QED
      BY <2>2, <3>1 DEF Untouched
  <2> QED
    BY <2>1, <2>2, TailElements
<1>2. ASSUME NEW n \in DOMAIN u, u[n].type = "invalidate", Tagged(theirs, u[n].tag)
      PROVE  \E j \in DOMAIN Tail(u) :
                Tail(u)[j].type = "invalidate" /\ Tagged(theirs, Tail(u)[j].tag)
  <2>1. n # 1
    BY <1>2, TailElements
  <2>2. n - 1 \in DOMAIN Tail(u) /\ n \in Nat /\ (n - 1) + 1 = n
    BY <2>1, TailElements
  <2>3. Tail(u)[n - 1] = u[n]
    BY <2>2, TailElements
  <2> QED
    BY <1>2, <2>2, <2>3
<1> QED
  BY <1>1, <1>2 DEF AccountedSlot

\* The worker sends a message that fixes the key, having applied it.
LEMMA WriteFix ==
    ASSUME NEW q, NEW u \in Seq(UpMsg), NEW st, NEW mine, NEW theirs, NEW k \in Key,
           AccountedSlot(q, u, st, mine, theirs, k),
           NEW m \in UpMsg, Fixes(m, k), NEW after
    PROVE  AccountedSlot(q, Append(u, m), st, after, theirs, k)
<1>1. ~Untouched(Append(u, m), k)
  BY AppendElements DEF Untouched
<1> QED
  BY <1>1 DEF AccountedSlot

\* The worker sends a message about something else.
LEMMA WriteSkip ==
    ASSUME NEW q, NEW u \in Seq(UpMsg), NEW st, NEW mine, NEW theirs, NEW k \in Key,
           AccountedSlot(q, u, st, mine, theirs, k),
           NEW m \in UpMsg, ~Fixes(m, k)
    PROVE  AccountedSlot(q, Append(u, m), st, mine, theirs, k)
<1>1. Untouched(Append(u, m), k) => Untouched(u, k)
  BY AppendElements DEF Untouched
<1>2. ASSUME NEW n \in DOMAIN u, u[n].type = "invalidate", Tagged(theirs, u[n].tag)
      PROVE  \E j \in DOMAIN Append(u, m) :
                Append(u, m)[j].type = "invalidate" /\ Tagged(theirs, Append(u, m)[j].tag)
  BY <1>2, AppendElements
<1> QED
  BY <1>1, <1>2 DEF AccountedSlot

\* The worker invalidates a tag of its own, and says so.
LEMMA WriteInvalidate ==
    ASSUME NEW q \in Seq(DownMsg), NEW u \in Seq(UpMsg), NEW st, NEW mine \in Slot, NEW theirs,
           NEW k \in Key, AccountedSlot(q, u, st, mine, theirs, k),
           NEW m \in UpMsg, m.type = "invalidate"
    PROVE  AccountedSlot(q, Append(u, m), st,
                         IF Tagged(mine, m.tag) THEN Absent ELSE mine, theirs, k)
<1>1. ~Fixes(m, k)
  BY DEF Fixes
<1>2. AccountedSlot(q, Append(u, m), st, mine, theirs, k)
  BY <1>1, WriteSkip
<1>3. CASE ~Tagged(mine, m.tag)
  BY <1>2, <1>3
<1>4. CASE Tagged(mine, m.tag)
  <2>1. SlotAfter(q, 0, Absent) = Absent
    BY DEF SlotAfter
  <2>2. mine # Absent
    BY <1>4 DEF Tagged
  <2>3. ASSUME theirs = SlotAfter(q, 0, mine)
        PROVE  \/ theirs = SlotAfter(q, 0, Absent)
               \/ \E n \in DOMAIN Append(u, m) :
                    Append(u, m)[n].type = "invalidate" /\ Tagged(theirs, Append(u, m)[n].tag)
    BY <1>4, <2>1, <2>3, AppendElements DEF SlotAfter
  <2> QED
    BY <1>2, <1>4, <2>2, <2>3 DEF AccountedSlot
<1> QED
  BY <1>3, <1>4

\* The worker handles the next message of the primary.
LEMMA ReceiveMessage ==
    ASSUME NEW q \in Seq(DownMsg), q # <<>>, NEW u, NEW st, NEW s \in Store, NEW theirs,
           NEW k \in Key, AccountedSlot(q, u, st, s[k], theirs, k)
    PROVE  AccountedSlot(Tail(q), u, st, StoreAfter(Head(q), s)[k], theirs, k)
<1> DEFINE m == Head(q)
           after == StoreAfter(m, s)[k]
<1>0. m \in DownMsg /\ s[k] \in Slot /\ after \in Slot /\ 1 \in DOMAIN q /\ q[1] = m
  <2>1. m \in DownMsg /\ 1 \in DOMAIN q /\ q[1] = m
    BY TailType, TailElements
  <2>2. StoreAfter(m, s) \in Store
    BY <2>1, AfterTypes, EmptyTypes
  <2> QED
    BY <2>1, <2>2 DEF Store
<1>1. ASSUME NEW n \in DOMAIN Tail(q), LastFix(Tail(q), k, n)
      PROVE  theirs = SlotAfter(Tail(q), n, StoreAfter(Tail(q)[n], EmptyStore)[k])
  <2>1. n \in Nat /\ n + 1 \in DOMAIN q /\ Tail(q)[n] = q[n + 1] /\ LastFix(q, k, n + 1)
    BY <1>1, TailElements, LastFixTail
  <2>2. StoreAfter(q[n + 1], EmptyStore)[k] \in Slot
    <3> DEFINE p == n + 1
    <3>1. q[p] \in DownMsg
      BY <2>1, ElementType
    <3>2. StoreAfter(q[p], EmptyStore) \in Store
      BY <3>1, AfterTypes, EmptyTypes
    <3> QED
      BY <3>2 DEF Store
  <2>3. theirs = SlotAfter(q, n + 1, StoreAfter(q[n + 1], EmptyStore)[k])
    BY <2>1 DEF AccountedSlot
  <2> QED
    BY <2>1, <2>2, <2>3, DroppedTail DEF SlotAfter
<1>2. ASSUME Untouched(Tail(q), k), Untouched(u, k)
      PROVE  \/ theirs = SlotAfter(Tail(q), 0, after)
             \/ after = Absent /\ st = "forked"
             \/ /\ after = Absent
                /\ \E n \in DOMAIN u : u[n].type = "invalidate" /\ Tagged(theirs, u[n].tag)
  <2>0. \A n \in DOMAIN q : n # 1 => ~Fixes(q[n], k)
    <3> SUFFICES ASSUME NEW n \in DOMAIN q, n # 1 PROVE ~Fixes(q[n], k)
      OBVIOUS
    <3>1. n - 1 \in DOMAIN Tail(q) /\ n \in Nat /\ (n - 1) + 1 = n
      BY TailElements
    <3>2. Tail(q)[n - 1] = q[n]
      BY <3>1, TailElements
    <3> QED
      BY <1>2, <3>1, <3>2 DEF Untouched
  <2>1. CASE Fixes(m, k)
    <3>1. LastFix(q, k, 1)
      BY <1>0, <2>0, <2>1 DEF LastFix
    <3>2. theirs = SlotAfter(q, 1, after)
      BY <1>0, <2>1, <3>1, FixedSlot DEF AccountedSlot
    <3> QED
      BY <1>0, <3>2, DroppedTail DEF SlotAfter
  <2>2. CASE ~Fixes(m, k)
    <3>1. Untouched(q, k)
      BY <1>0, <2>0, <2>2 DEF Untouched
    <3>2. after = IF m.type = "invalidate" /\ Tagged(s[k], m.tag) THEN Absent ELSE s[k]
      BY <1>0, <2>2, KeptSlot
    <3>3. SlotAfter(Tail(q), 0, after) = SlotAfter(q, 0, s[k])
      BY <1>0, <3>2, DroppedTail, DroppedHead, SMTT(20) DEF SlotAfter, Dropped, Tagged
    <3>4. s[k] = Absent => after = Absent
      BY <3>2
    <3> QED
      BY <1>2, <3>1, <3>3, <3>4 DEF AccountedSlot
  <2> QED
    BY <2>1, <2>2
<1> QED
  BY <1>1, <1>2 DEF AccountedSlot

----------------------------------------------------------------------------
(* The same for the timestamp of a tag, which no message changes but those that fix it. *)

LEMMA FixedStamp ==
    ASSUME NEW m \in DownMsg, NEW t \in Tag, FixesStamp(m, t), NEW ts \in Stamps
    PROVE  StampsAfter(m, ts)[t] = StampsAfter(m, EmptyStamps)[t]
BY DownTypes, EmptyTypes DEF FixesStamp, StampsAfter, Stamps

LEMMA KeptStamp ==
    ASSUME NEW m \in DownMsg, NEW t \in Tag, ~FixesStamp(m, t), NEW ts \in Stamps
    PROVE  StampsAfter(m, ts)[t] = ts[t]
BY DownTypes DEF FixesStamp, StampsAfter, Stamps

LEMMA StampSendFix ==
    ASSUME NEW q \in Seq(DownMsg), NEW u, NEW st, NEW mine, NEW t \in Tag,
           NEW m \in DownMsg, FixesStamp(m, t)
    PROVE  AccountedStamp(Append(q, m), u, st, mine, StampsAfter(m, EmptyStamps)[t], t)
BY AppendElements DEF AccountedStamp, LastStamp, UntouchedStamp

LEMMA StampSendSkip ==
    ASSUME NEW q \in Seq(DownMsg), NEW u, NEW st, NEW mine, NEW theirs, NEW t \in Tag,
           AccountedStamp(q, u, st, mine, theirs, t),
           NEW m \in DownMsg, ~FixesStamp(m, t)
    PROVE  AccountedStamp(Append(q, m), u, st, mine, theirs, t)
BY AppendElements DEF AccountedStamp, LastStamp, UntouchedStamp

LEMMA StampTake ==
    ASSUME NEW q, NEW u \in Seq(UpMsg), u # <<>>, NEW st, NEW mine, NEW theirs, NEW t \in Tag,
           AccountedStamp(q, u, st, mine, theirs, t), ~FixesStamp(Head(u), t)
    PROVE  AccountedStamp(q, Tail(u), st, mine, theirs, t)
<1>1. ASSUME UntouchedStamp(Tail(u), t), NEW n \in DOMAIN u
      PROVE  ~FixesStamp(u[n], t)
  <2>1. n \in Nat /\ (n = 1 \/ n - 1 \in DOMAIN Tail(u)) /\ u[1] = Head(u)
    BY TailElements
  <2>2. n # 1 => n - 1 \in DOMAIN Tail(u) /\ Tail(u)[n - 1] = u[(n - 1) + 1] /\ (n - 1) + 1 = n
    BY <2>1, TailElements
  <2> QED
    BY <1>1, <2>1, <2>2 DEF UntouchedStamp
<1> QED
  BY <1>1 DEF AccountedStamp, UntouchedStamp

LEMMA StampWriteFix ==
    ASSUME NEW q, NEW u \in Seq(UpMsg), NEW st, NEW mine, NEW theirs, NEW t \in Tag,
           AccountedStamp(q, u, st, mine, theirs, t),
           NEW m \in UpMsg, FixesStamp(m, t), NEW after
    PROVE  AccountedStamp(q, Append(u, m), st, after, theirs, t)
BY AppendElements DEF AccountedStamp, UntouchedStamp

LEMMA StampWriteSkip ==
    ASSUME NEW q, NEW u \in Seq(UpMsg), NEW st, NEW mine, NEW theirs, NEW t \in Tag,
           AccountedStamp(q, u, st, mine, theirs, t),
           NEW m \in UpMsg, ~FixesStamp(m, t)
    PROVE  AccountedStamp(q, Append(u, m), st, mine, theirs, t)
BY AppendElements DEF AccountedStamp, UntouchedStamp

LEMMA StampReceive ==
    ASSUME NEW q \in Seq(DownMsg), q # <<>>, NEW u, NEW st, NEW ts \in Stamps, NEW theirs,
           NEW t \in Tag, AccountedStamp(q, u, st, ts[t], theirs, t)
    PROVE  AccountedStamp(Tail(q), u, st, StampsAfter(Head(q), ts)[t], theirs, t)
<1> DEFINE m == Head(q)
           after == StampsAfter(m, ts)[t]
<1>0. m \in DownMsg /\ 1 \in DOMAIN q /\ q[1] = m
  BY TailType, TailElements
<1>a. ASSUME NEW n \in DOMAIN q, n # 1
      PROVE  n \in Nat /\ n > 1 /\ n - 1 \in DOMAIN Tail(q) /\ Tail(q)[n - 1] = q[n]
  <2>1. n \in Nat /\ n > 1 /\ n - 1 \in DOMAIN Tail(q) /\ (n - 1) + 1 = n
    BY <1>a, TailElements, SMTT(20)
  <2> QED
    BY <2>1, TailElements
<1>1. ASSUME NEW n \in DOMAIN Tail(q), LastStamp(Tail(q), t, n)
      PROVE  theirs = StampsAfter(Tail(q)[n], EmptyStamps)[t]
  <2>1. n \in Nat /\ n + 1 \in DOMAIN q /\ Tail(q)[n] = q[n + 1]
    BY TailElements
  <2>2. ASSUME NEW j \in DOMAIN q, FixesStamp(q[j], t)
        PROVE  j <= n + 1
    <3>1. CASE j = 1
      BY <2>1, <3>1
    <3>2. CASE j # 1
      <4>1. j \in Nat /\ j - 1 \in DOMAIN Tail(q) /\ Tail(q)[j - 1] = q[j]
        BY <1>a, <3>2
      <4>2. j - 1 <= n
        BY <1>1, <2>2, <4>1 DEF LastStamp
      <4> QED
        BY <2>1, <4>1, <4>2
    <3> QED
      BY <3>1, <3>2
  <2>3. LastStamp(q, t, n + 1)
    BY <1>1, <2>1, <2>2 DEF LastStamp
  <2> QED
    BY <2>1, <2>3 DEF AccountedStamp
<1>2. ASSUME UntouchedStamp(Tail(q), t), UntouchedStamp(u, t)
      PROVE  theirs = after \/ (after = 0 /\ st = "forked")
  <2>1. ASSUME NEW n \in DOMAIN q, n # 1
        PROVE  ~FixesStamp(q[n], t)
    <3>1. n - 1 \in DOMAIN Tail(q) /\ Tail(q)[n - 1] = q[n]
      BY <1>a, <2>1
    <3> QED
      BY <1>2, <3>1 DEF UntouchedStamp
  <2>2. CASE FixesStamp(m, t)
    <3>1. \A n \in DOMAIN q : FixesStamp(q[n], t) => n <= 1
      BY <1>0, <2>1
    <3>2. theirs = StampsAfter(m, EmptyStamps)[t]
      BY <1>0, <2>2, <3>1 DEF AccountedStamp, LastStamp
    <3> QED
      BY <1>0, <2>2, <3>2, FixedStamp
  <2>3. CASE ~FixesStamp(m, t)
    <3>1. UntouchedStamp(q, t)
      BY <1>0, <2>1, <2>3 DEF UntouchedStamp
    <3>2. after = ts[t]
      BY <1>0, <2>3, KeptStamp
    <3> QED
      BY <1>2, <3>1, <3>2 DEF AccountedStamp
  <2> QED
    BY <2>2, <2>3
<1> QED
  BY <1>1, <1>2 DEF AccountedStamp

----------------------------------------------------------------------------
(* The invariant. *)

\* A process that was never forked has no messages and an empty cache.
Fresh ==
    \A w \in Worker : status[w] = "unborn" =>
        local[w] = EmptyStore /\ localStamps[w] = EmptyStamps /\ down[w] = <<>>

IInv == TypeOK /\ Fresh /\ Accounted

LEMMA ForkedIsAccounted ==
    ASSUME NEW u, NEW theirs, NEW k, NEW t
    PROVE  /\ AccountedSlot(<<>>, u, "forked", Absent, theirs, k)
           /\ AccountedStamp(<<>>, u, "forked", 0, theirs, t)
BY DEF AccountedSlot, AccountedStamp

LEMMA InitIInv == Init => IInv
<1> SUFFICES ASSUME Init PROVE IInv
  OBVIOUS
<1>1. TypeOK
  BY InitTypeOK
<1>2. Fresh
  BY DEF Init, Fresh
<1>3. ASSUME NEW w \in Worker, Running(w)
      PROVE  AccountedWorker(w)
  <2>1. status[w] = "forked" /\ down[w] = <<>>
    BY <1>3 DEF Init, Running
  <2>2. \A k \in Key : local[w][k] = Absent
    BY DEF Init, EmptyStore
  <2>3. \A t \in Tag : localStamps[w][t] = 0
    BY DEF Init, EmptyStamps
  <2> QED
    BY <2>1, <2>2, <2>3, ForkedIsAccounted DEF AccountedWorker
<1> QED
  BY <1>1, <1>2, <1>3 DEF IInv, Accounted

\* A step that leaves all a worker's part alone.
LEMMA Untouching ==
    ASSUME NEW w \in Worker, AccountedWorker(w), replayed' = replayed,
           primary' = primary, primaryStamps' = primaryStamps,
           down'[w] = down[w], up'[w] = up[w], status'[w] = status[w],
           local'[w] = local[w], localStamps'[w] = localStamps[w]
    PROVE  AccountedWorker(w)'
BY DEF AccountedWorker

\* The primary takes a message h of worker v, applies m on its account and sends m to all.
LEMMA Applied ==
    ASSUME TypeOK, NEW w \in Worker, Running(w), AccountedWorker(w),
           NEW v \in Worker, up[v] # <<>>, up' = [up EXCEPT ![v] = Tail(@)],
           NEW m \in DownMsg,
           \A k \in Key : Fixes(Head(up[v]), k) => Fixes(m, k),
           \A t \in Tag : FixesStamp(Head(up[v]), t) => FixesStamp(m, t),
           Head(up[v]).type = "invalidate" => m.type = "invalidate" /\ m.tag = Head(up[v]).tag,
           down' = Broadcast(v, m), primary' = StoreAfter(m, primary),
           primaryStamps' = StampsAfter(m, primaryStamps), replayed' = Repaired(m),
           UNCHANGED <<status, local, localStamps>>
    PROVE  AccountedWorker(w)'
<1> DEFINE h == Head(up[v])
<1>0. /\ down[w] \in Seq(DownMsg) /\ up[w] \in Seq(UpMsg)
      /\ primary \in Store /\ local[w] \in Store /\ primaryStamps \in Stamps
  BY DEF TypeOK
<1>1. down'[w] = Append(down[w], m)
  BY DEF Broadcast, Connected
<1>2. up'[w] = up[w] \/ (v = w /\ up[w] # <<>> /\ up'[w] = Tail(up[w]) /\ h = Head(up[w]))
  BY DEF TypeOK
<1>3. ASSUME NEW k \in Key \ replayed'[w]
      PROVE  AccountedSlot(down'[w], up'[w], status'[w], local'[w][k], primary'[k], k)
  <2>1. CASE Fixes(m, k)
    <3>1. primary'[k] = StoreAfter(m, EmptyStore)[k]
      BY <1>0, <2>1, FixedSlot
    <3>2. AccountedSlot(Append(down[w], m), up'[w], status'[w], local'[w][k],
                        StoreAfter(m, EmptyStore)[k], k)
      BY <1>0, <2>1, SendFix
    <3> QED
      BY <1>1, <3>1, <3>2
  <2>2. CASE ~Fixes(m, k)
    <3>1. k \notin replayed[w]
      BY <1>3, <2>2 DEF Repaired
    <3>2. AccountedSlot(down[w], up[w], status[w], local[w][k], primary[k], k)
      BY <3>1 DEF AccountedWorker
    <3>3. local[w][k] \in Slot
      BY <1>0 DEF Store
    <3>4. primary'[k] = IF m.type = "invalidate" /\ Tagged(primary[k], m.tag)
                        THEN Absent ELSE primary[k]
      BY <1>0, <2>2, KeptSlot
    <3>5. AccountedSlot(Append(down[w], m), up[w], status[w], local[w][k], primary'[k], k)
      <4>1. CASE m.type = "invalidate"
        BY <1>0, <3>2, <3>3, <3>4, <4>1, SendInvalidate
      <4>2. CASE m.type # "invalidate"
        BY <1>0, <2>2, <3>2, <3>3, <3>4, <4>2, SendSkip
      <4> QED
        BY <4>1, <4>2
    <3>6. CASE up'[w] = up[w]
      BY <1>1, <3>5, <3>6
    <3>7. CASE up[w] # <<>> /\ up'[w] = Tail(up[w]) /\ h = Head(up[w])
      <4>1. ~Fixes(Head(up[w]), k)
        BY <2>2, <3>7
      <4>2. Head(up[w]).type = "invalidate" => ~Tagged(primary'[k], Head(up[w]).tag)
        BY <3>4, <3>7 DEF Tagged
      <4>3. AccountedSlot(Append(down[w], m), Tail(up[w]), status[w], local[w][k], primary'[k], k)
        BY <1>0, <3>5, <3>7, <4>1, <4>2, TakeMessage
      <4> QED
        BY <1>1, <3>7, <4>3
    <3> QED
      BY <1>2, <3>6, <3>7
  <2> QED
    BY <2>1, <2>2
<1>4. ASSUME NEW t \in Tag
      PROVE  AccountedStamp(down'[w], up'[w], status'[w], localStamps'[w][t], primaryStamps'[t], t)
  <2>1. CASE FixesStamp(m, t)
    BY <1>0, <1>1, <2>1, FixedStamp, StampSendFix
  <2>2. CASE ~FixesStamp(m, t)
    <3>1. AccountedStamp(down[w], up[w], status[w], localStamps[w][t], primaryStamps[t], t)
      BY DEF AccountedWorker
    <3>2. primaryStamps'[t] = primaryStamps[t]
      BY <1>0, <2>2, KeptStamp
    <3>3. AccountedStamp(Append(down[w], m), up[w], status[w], localStamps[w][t],
                         primaryStamps[t], t)
      BY <1>0, <2>2, <3>1, StampSendSkip
    <3>4. CASE up'[w] = up[w]
      BY <1>1, <3>2, <3>3, <3>4
    <3>5. CASE up[w] # <<>> /\ up'[w] = Tail(up[w]) /\ h = Head(up[w])
      <4>1. ~FixesStamp(Head(up[w]), t)
        BY <2>2, <3>5
      <4>2. AccountedStamp(Append(down[w], m), Tail(up[w]), status[w], localStamps[w][t],
                           primaryStamps[t], t)
        BY <1>0, <3>3, <3>5, <4>1, StampTake
      <4> QED
        BY <1>1, <3>2, <3>5, <4>2
    <3> QED
      BY <1>2, <3>4, <3>5
  <2> QED
    BY <2>1, <2>2
<1> QED
  BY <1>3, <1>4 DEF AccountedWorker

\* The primary takes an incr h of worker v and answers v alone, its store unchanged.
LEMMA Replied ==
    ASSUME TypeOK, NEW w \in Worker, Running(w), AccountedWorker(w),
           NEW v \in Worker, up[v] # <<>>, up' = [up EXCEPT ![v] = Tail(@)],
           Head(up[v]).type = "incr",
           NEW m \in DownMsg, m.type = "result", down' = Reply(v, m),
           \/ m.outcome = Failed /\ replayed' = replayed
           \/ replayed' = [replayed EXCEPT ![v] = @ \cup {m.key}],
           UNCHANGED <<status, local, localStamps, primary, primaryStamps>>
    PROVE  AccountedWorker(w)'
<1>0. /\ down[w] \in Seq(DownMsg) /\ up[w] \in Seq(UpMsg) /\ local[w] \in Store
  BY DEF TypeOK
<1>1. CASE v # w
  <2>1. down'[w] = down[w] /\ up'[w] = up[w] /\ replayed'[w] = replayed[w]
    BY <1>1 DEF TypeOK, Reply
  <2> QED
    BY <2>1 DEF AccountedWorker
<1>2. CASE v = w
  <2>1. down'[w] = Append(down[w], m) /\ up'[w] = Tail(up[w]) /\ up[w] # <<>>
    BY <1>2 DEF TypeOK, Reply, Connected
  <2>2. ASSUME NEW k \in Key \ replayed'[w]
        PROVE  AccountedSlot(down'[w], up'[w], status'[w], local'[w][k], primary'[k], k)
    <3>1. k \notin replayed[w] /\ (m.outcome = Failed \/ m.key # k)
      BY <1>2, <2>2 DEF TypeOK
    <3>2. ~Fixes(m, k) /\ ~Fixes(Head(up[w]), k)
      BY <1>2, <3>1 DEF Fixes
    <3>3. local[w][k] \in Slot
      BY <1>0 DEF Store
    <3>4. AccountedSlot(down[w], up[w], status[w], local[w][k], primary[k], k)
      BY <3>1 DEF AccountedWorker
    <3>5. AccountedSlot(Append(down[w], m), up[w], status[w], local[w][k], primary[k], k)
      BY <1>0, <3>2, <3>3, <3>4, SendSkip
    <3>6. AccountedSlot(Append(down[w], m), Tail(up[w]), status[w], local[w][k], primary[k], k)
      BY <1>0, <1>2, <2>1, <3>2, <3>5, TakeMessage
    <3> QED
      BY <2>1, <3>6
  <2>3. ASSUME NEW t \in Tag
        PROVE  AccountedStamp(down'[w], up'[w], status'[w], localStamps'[w][t], primaryStamps'[t], t)
    <3>1. ~FixesStamp(m, t) /\ ~FixesStamp(Head(up[w]), t)
      BY <1>2 DEF FixesStamp
    <3>2. AccountedStamp(down[w], up[w], status[w], localStamps[w][t], primaryStamps[t], t)
      BY DEF AccountedWorker
    <3>3. AccountedStamp(Append(down[w], m), up[w], status[w], localStamps[w][t],
                         primaryStamps[t], t)
      BY <1>0, <3>1, <3>2, StampSendSkip
    <3>4. AccountedStamp(Append(down[w], m), Tail(up[w]), status[w], localStamps[w][t],
                         primaryStamps[t], t)
      BY <1>0, <2>1, <3>1, <3>3, StampTake
    <3> QED
      BY <2>1, <3>4
  <2> QED
    BY <2>2, <2>3 DEF AccountedWorker
<1> QED
  BY <1>1, <1>2

----------------------------------------------------------------------------
(* The actions, seen from any worker w. *)

\* A write message m announces what the write did to the slot of key k.
KeepsSlot(m, k, before, after) ==
    \/ Fixes(m, k)
    \/ m.type # "invalidate" /\ after[k] = before[k]
    \/ m.type = "invalidate" /\ after[k] = Invalidated(before, m.tag)[k]

\* A worker writes.
LEMMA WriteAccounted ==
    ASSUME TypeOK, NEW w \in Worker, Running(w), AccountedWorker(w),
           NEW v \in Worker, NEW s \in Store, NEW ts \in Stamps, NEW m \in UpMsg,
           Write(v, s, ts, m),
           \A k \in Key : KeepsSlot(m, k, local[v], s),
           \A t \in Tag : FixesStamp(m, t) \/ ts[t] = localStamps[v][t]
    PROVE  AccountedWorker(w)'
<1>0. /\ down[w] \in Seq(DownMsg) /\ up[w] \in Seq(UpMsg) /\ local[w] \in Store
  BY DEF TypeOK
<1>1. /\ down' = down /\ primary' = primary /\ primaryStamps' = primaryStamps
      /\ status' = status /\ replayed' = replayed
  BY DEF Write, history
<1>2. CASE v # w
  <2>1. up'[w] = up[w] /\ local'[w] = local[w] /\ localStamps'[w] = localStamps[w]
    BY <1>2 DEF TypeOK, Write
  <2> QED
    BY <1>1, <2>1, Untouching
<1>3. CASE v = w
  <2>1. up'[w] = Append(up[w], m) /\ local'[w] = s /\ localStamps'[w] = ts
    BY <1>3 DEF TypeOK, Write
  <2>2. ASSUME NEW k \in Key \ replayed[w]
        PROVE  AccountedSlot(down[w], Append(up[w], m), status[w], s[k], primary[k], k)
    <3>1. AccountedSlot(down[w], up[w], status[w], local[w][k], primary[k], k)
      BY DEF AccountedWorker
    <3>2. local[w][k] \in Slot
      BY <1>0 DEF Store
    <3>3. CASE Fixes(m, k)
      BY <1>0, <3>1, <3>3, WriteFix
    <3>4. CASE ~Fixes(m, k) /\ m.type # "invalidate"
      BY <1>0, <1>3, <3>1, <3>4, WriteSkip DEF KeepsSlot
    <3>5. CASE ~Fixes(m, k) /\ m.type = "invalidate"
      <4>1. s[k] = IF Tagged(local[w][k], m.tag) THEN Absent ELSE local[w][k]
        BY <1>3, <3>5 DEF Invalidated, KeepsSlot
      <4>2. AccountedSlot(down[w], Append(up[w], m), status[w],
                          IF Tagged(local[w][k], m.tag) THEN Absent ELSE local[w][k],
                          primary[k], k)
        BY <1>0, <3>1, <3>2, <3>5, WriteInvalidate
      <4> QED
        BY <4>1, <4>2
    <3> QED
      BY <3>3, <3>4, <3>5
  <2>3. ASSUME NEW t \in Tag
        PROVE  AccountedStamp(down[w], Append(up[w], m), status[w], ts[t], primaryStamps[t], t)
    <3>1. AccountedStamp(down[w], up[w], status[w], localStamps[w][t], primaryStamps[t], t)
      BY DEF AccountedWorker
    <3>2. CASE FixesStamp(m, t)
      BY <1>0, <3>1, <3>2, StampWriteFix
    <3>3. CASE ~FixesStamp(m, t)
      BY <1>0, <1>3, <3>1, <3>3, StampWriteSkip
    <3> QED
      BY <3>2, <3>3
  <2> QED
    BY <1>1, <2>1, <2>2, <2>3 DEF AccountedWorker
<1> QED
  BY <1>2, <1>3

\* A client asks for an increment, for the first time or again.
LEMMA AttemptAccounted ==
    ASSUME TypeOK, NEW w \in Worker, Running(w), AccountedWorker(w),
           NEW v \in Worker, NEW c \in Call, NEW i \in Idem, NEW n \in 1..MaxAttempts,
           Attempt(v, c, i, n),
           UNCHANGED <<status, down, primary, primaryStamps, local, localStamps, replayed>>
    PROVE  AccountedWorker(w)'
<1> DEFINE m == [type |-> "incr", idem |-> i, pid |-> v, req |-> requests[v] + 1]
<1>0. m \in UpMsg /\ up[w] \in Seq(UpMsg)
  BY DEF TypeOK, UpMsg
<1>1. CASE v # w
  BY <1>1, Untouching DEF TypeOK, Attempt
<1>2. CASE v = w
  <2>1. up'[w] = Append(up[w], m)
    BY <1>2 DEF TypeOK, Attempt
  <2>2. \A k \in Key : ~Fixes(m, k)
    BY DEF Fixes
  <2>3. \A t \in Tag : ~FixesStamp(m, t)
    BY DEF FixesStamp
  <2>4. \A k \in Key \ replayed[w] :
           AccountedSlot(down[w], Append(up[w], m), status[w], local[w][k], primary[k], k)
    BY <1>0, <2>2, WriteSkip DEF AccountedWorker
  <2>5. \A t \in Tag :
           AccountedStamp(down[w], Append(up[w], m), status[w], localStamps[w][t],
                          primaryStamps[t], t)
    BY <1>0, <2>3, StampWriteSkip DEF AccountedWorker
  <2> QED
    BY <2>1, <2>4, <2>5 DEF AccountedWorker
<1> QED
  BY <1>1, <1>2

LEMMA ClientAccounted ==
    ASSUME TypeOK, NEW w \in Worker, Running(w), AccountedWorker(w),
           NEW v \in Worker, ClientStep(v)
    PROVE  AccountedWorker(w)'
<1>0. local[v] \in Store /\ localStamps[v] \in Stamps
  BY DEF TypeOK
<1>1. ASSUME NEW k \in Key, Delete(v, k)
      PROVE  AccountedWorker(w)'
  <2> DEFINE m == [type |-> "delete", key |-> k]
             s == [local[v] EXCEPT ![k] = Absent]
  <2>1. s \in Store /\ m \in UpMsg /\ Write(v, s, localStamps[v], m)
    BY <1>0, <1>1 DEF Delete, Store, Slot, UpMsg, KeyMsg
  <2>2. m.type = "delete" /\ m.key = k /\ \A j \in Key \ {k} : s[j] = local[v][j]
    BY <1>0 DEF Store
  <2> HIDE DEF m, s
  <2>3. \A j \in Key : KeepsSlot(m, j, local[v], s)
    BY <2>2 DEF Fixes, KeepsSlot
  <2> QED
    BY <1>0, <2>1, <2>3, WriteAccounted
<1>2. ASSUME NEW k \in Key, NEW e \in Written, Set(v, k, e)
      PROVE  AccountedWorker(w)'
  <2> DEFINE m == [type |-> "set", key |-> k, entry |-> e]
             s == [local[v] EXCEPT ![k] = e]
  <2>1. e \in Entry
    BY ReplicationAssumption
  <2>2. s \in Store /\ m \in UpMsg /\ Write(v, s, localStamps[v], m)
    BY <1>0, <1>2, <2>1 DEF Set, Store, Slot, UpMsg, KeyMsg
  <2>3. m.type = "set" /\ m.key = k /\ \A j \in Key \ {k} : s[j] = local[v][j]
    BY <1>0 DEF Store
  <2> HIDE DEF m, s
  <2>4. \A j \in Key : KeepsSlot(m, j, local[v], s)
    BY <2>3 DEF Fixes, KeepsSlot
  <2> QED
    BY <1>0, <2>2, <2>4, WriteAccounted
<1>3. CASE Clear(v)
  <2> DEFINE m == [type |-> "clear"]
  <2>1. m \in UpMsg /\ Write(v, EmptyStore, EmptyStamps, m)
    BY <1>3 DEF Clear, UpMsg, KeyMsg
  <2>2. /\ \A k \in Key : KeepsSlot(m, k, local[v], EmptyStore)
        /\ \A t \in Tag : FixesStamp(m, t)
    BY DEF Fixes, FixesStamp, KeepsSlot
  <2> QED
    BY <2>1, <2>2, EmptyTypes, WriteAccounted
<1>4. ASSUME NEW t \in Tag, NEW now \in Stamp, InvalidateTag(v, t, now)
      PROVE  AccountedWorker(w)'
  <2> DEFINE m == [type |-> "invalidate", tag |-> t]
             ts == [localStamps[v] EXCEPT ![t] = now]
  <2>1. m \in UpMsg /\ ts \in Stamps /\ Write(v, Invalidated(local[v], t), ts, m)
    BY <1>0, <1>4, ReplicationAssumption DEF InvalidateTag, UpMsg, Stamps
  <2>2. \A j \in Tag : FixesStamp(m, j) \/ ts[j] = localStamps[v][j]
    BY <1>0 DEF FixesStamp, Stamps
  <2>3. Invalidated(local[v], t) \in Store
    BY <1>0, InvalidatedType
  <2>4. m.type = "invalidate" /\ m.tag = t
    OBVIOUS
  <2> HIDE DEF m, ts
  <2>5. \A k \in Key : KeepsSlot(m, k, local[v], Invalidated(local[v], t))
    BY <2>4 DEF KeepsSlot
  <2> QED
    BY <2>1, <2>2, <2>3, <2>5, WriteAccounted
<1>5. ASSUME NEW t \in Tag, NEW now \in Stamp, UpdateTagTimestamp(v, t, now)
      PROVE  AccountedWorker(w)'
  <2> DEFINE m == [type |-> "stamp", tag |-> t, at |-> now]
             ts == [localStamps[v] EXCEPT ![t] = now]
  <2>1. m \in UpMsg /\ ts \in Stamps /\ Write(v, local[v], ts, m)
    BY <1>0, <1>5, ReplicationAssumption DEF UpdateTagTimestamp, UpMsg, StampMsg, Stamps
  <2>2. \A j \in Tag : FixesStamp(m, j) \/ ts[j] = localStamps[v][j]
    BY <1>0 DEF FixesStamp, Stamps
  <2>3. m.type # "invalidate"
    OBVIOUS
  <2> HIDE DEF m, ts
  <2>4. \A k \in Key : KeepsSlot(m, k, local[v], local[v])
    BY <2>3 DEF KeepsSlot
  <2> QED
    BY <1>0, <2>1, <2>2, <2>4, WriteAccounted
<1>6. ASSUME NEW c \in Call, NEW i \in Idem, Incr(v, c, i)
      PROVE  AccountedWorker(w)'
  <2>1. 1 \in 1..MaxAttempts /\ Attempt(v, c, i, 1)
    BY <1>6, ReplicationAssumption DEF Incr
  <2>2. UNCHANGED <<status, down, primary, primaryStamps, local, localStamps, replayed>>
    BY <1>6 DEF Incr, history
  <2> QED
    BY <2>1, <2>2, AttemptAccounted
<1> QED
  BY <1>1, <1>2, <1>3, <1>4, <1>5, <1>6 DEF ClientStep

LEMMA TimerAccounted ==
    ASSUME TypeOK, NEW w \in Worker, Running(w), AccountedWorker(w), NEW c \in Call, Timer(c)
    PROVE  AccountedWorker(w)'
<1>1. CASE Retry(c)
  <2>1. /\ call[c].by \in Worker /\ call[c].idem \in Idem
        /\ call[c].attempt + 1 \in 1..MaxAttempts
    BY <1>1, WaitingType, ReplicationAssumption DEF Retry, AttemptsLeft
  <2>2. Attempt(call[c].by, c, call[c].idem, call[c].attempt + 1)
    BY <1>1 DEF Retry
  <2>3. UNCHANGED <<status, down, primary, primaryStamps, local, localStamps, replayed>>
    BY <1>1 DEF Retry, history
  <2> QED
    BY <2>1, <2>2, <2>3, AttemptAccounted
<1>2. CASE Exhaust(c)
  BY <1>2, Untouching DEF Exhaust, history
<1> QED
  BY <1>1, <1>2 DEF Timer

LEMMA ReceiveAccounted ==
    ASSUME TypeOK, NEW w \in Worker, Running(w), AccountedWorker(w),
           NEW v \in Worker, Receive(v)
    PROVE  AccountedWorker(w)'
<1>0. /\ down[w] \in Seq(DownMsg) /\ local[w] \in Store /\ localStamps[w] \in Stamps
  BY DEF TypeOK
<1>1. /\ up' = up /\ primary' = primary /\ primaryStamps' = primaryStamps
      /\ status' = status /\ replayed' = replayed
  BY DEF Receive, history
<1>2. CASE v # w
  <2>1. down'[w] = down[w] /\ local'[w] = local[w] /\ localStamps'[w] = localStamps[w]
    BY <1>2 DEF TypeOK, Receive
  <2> QED
    BY <1>1, <2>1, Untouching
<1>3. CASE v = w
  <2> DEFINE m == Head(down[w])
  <2>1. /\ down[w] # <<>> /\ down'[w] = Tail(down[w])
        /\ local'[w] = StoreAfter(m, local[w]) /\ localStamps'[w] = StampsAfter(m, localStamps[w])
    BY <1>3 DEF TypeOK, Receive
  <2>2. \A k \in Key \ replayed[w] :
           AccountedSlot(Tail(down[w]), up[w], status[w], StoreAfter(m, local[w])[k],
                         primary[k], k)
    BY <1>0, <2>1, ReceiveMessage DEF AccountedWorker
  <2>3. \A t \in Tag :
           AccountedStamp(Tail(down[w]), up[w], status[w], StampsAfter(m, localStamps[w])[t],
                          primaryStamps[t], t)
    BY <1>0, <2>1, StampReceive DEF AccountedWorker
  <2> QED
    BY <1>1, <2>1, <2>2, <2>3 DEF AccountedWorker
<1> QED
  BY <1>2, <1>3

\* Coming online with a snapshot, or without one because the primary is empty.
LEMMA OnlineAccounted ==
    ASSUME TypeOK, NEW w \in Worker, Running(w), AccountedWorker(w),
           NEW v \in Worker, Online(v)
    PROVE  AccountedWorker(w)'
<1>0. /\ down[w] \in Seq(DownMsg) /\ local[w] \in Store /\ primary \in Store
      /\ primaryStamps \in Stamps
  BY DEF TypeOK
<1>1. /\ up' = up /\ primary' = primary /\ primaryStamps' = primaryStamps
      /\ local' = local /\ localStamps' = localStamps
  BY DEF Online
<1>2. CASE v # w
  <2>1. status'[w] = status[w] /\ down'[w] = down[w] /\ replayed'[w] = replayed[w]
    BY <1>2 DEF TypeOK, Online
  <2> QED
    BY <1>1, <2>1 DEF AccountedWorker
<1>3. CASE v = w /\ SnapshotDue
  <2> DEFINE m == [type |-> "snapshot", store |-> primary, stamps |-> primaryStamps]
  <2>1. m \in DownMsg /\ down'[w] = Append(down[w], m)
    BY <1>0, <1>3 DEF TypeOK, Online, DownMsg
  <2>2. ASSUME NEW k \in Key
        PROVE  AccountedSlot(Append(down[w], m), up[w], status'[w], local[w][k], primary[k], k)
    <3>1. Fixes(m, k) /\ StoreAfter(m, EmptyStore) = primary
      BY DEF Fixes, StoreAfter
    <3> QED
      BY <1>0, <2>1, <3>1, SendFix
  <2>3. ASSUME NEW t \in Tag
        PROVE  AccountedStamp(Append(down[w], m), up[w], status'[w], localStamps[w][t],
                              primaryStamps[t], t)
    <3>1. FixesStamp(m, t) /\ StampsAfter(m, EmptyStamps) = primaryStamps
      BY DEF FixesStamp, StampsAfter
    <3> QED
      BY <1>0, <2>1, <3>1, StampSendFix
  <2> QED
    BY <1>1, <2>1, <2>2, <2>3 DEF AccountedWorker
<1>4. CASE v = w /\ ~SnapshotDue
  <2>1. /\ status[w] = "forked" /\ status'[w] = "online"
        /\ down' = down /\ replayed' = replayed
    BY <1>4 DEF TypeOK, Online
  <2>2. (\A k \in Key : primary[k] = Absent) /\ (\A t \in Tag : primaryStamps[t] = 0)
    BY <1>4 DEF SnapshotDue, EmptyStore, EmptyStamps
  <2>3. SlotAfter(down[w], 0, Absent) = Absent
    BY DEF SlotAfter
  <2>4. ASSUME NEW k \in Key \ replayed[w]
        PROVE  AccountedSlot(down[w], up[w], "online", local[w][k], primary[k], k)
    <3>1. AccountedSlot(down[w], up[w], "forked", local[w][k], primary[k], k)
      BY <2>1 DEF AccountedWorker
    <3> QED
      BY <2>2, <2>3, <3>1 DEF AccountedSlot
  <2>5. ASSUME NEW t \in Tag
        PROVE  AccountedStamp(down[w], up[w], "online", localStamps[w][t], primaryStamps[t], t)
    <3>1. AccountedStamp(down[w], up[w], "forked", localStamps[w][t], primaryStamps[t], t)
      BY <2>1 DEF AccountedWorker
    <3> QED
      BY <2>2, <3>1 DEF AccountedStamp
  <2> QED
    BY <1>1, <2>1, <2>4, <2>5 DEF AccountedWorker
<1> QED
  BY <1>2, <1>3, <1>4

\* The primary handles a message of v.
LEMMA PrimaryAccounted ==
    ASSUME TypeOK, NEW w \in Worker, Running(w), AccountedWorker(w),
           NEW v \in Worker, PrimaryStep(v)
    PROVE  AccountedWorker(w)'
<1> DEFINE h == Head(up[v])
<1>0. primary \in Store /\ primaryStamps \in Stamps
  BY DEF TypeOK
<1>1. ASSUME NEW type, Takes(v, type)
      PROVE  h \in UpMsg /\ h.type = type /\ up[v] # <<>> /\ up' = [up EXCEPT ![v] = Tail(@)]
  BY <1>1, TailType DEF TypeOK, Takes
<1>2. ASSUME NEW type \in {"set", "delete", "clear", "stamp"}, HandleWrite(v, type)
      PROVE  AccountedWorker(w)'
  <2>1. /\ h \in UpMsg /\ h.type = type /\ up[v] # <<>> /\ up' = [up EXCEPT ![v] = Tail(@)]
        /\ Apply(v, h)
    BY <1>1, <1>2 DEF HandleWrite
  <2>2. h \in DownMsg /\ h.type # "invalidate"
    BY <2>1, UpTypes
  <2> HIDE DEF h
  <2>3. /\ down' = Broadcast(v, h) /\ primary' = StoreAfter(h, primary)
        /\ primaryStamps' = StampsAfter(h, primaryStamps) /\ replayed' = Repaired(h)
        /\ UNCHANGED <<status, local, localStamps>>
    BY <2>1 DEF Apply
  <2> QED
    BY <2>1, <2>2, <2>3, Applied DEF h
<1>3. ASSUME NEW now \in Stamp, HandleInvalidate(v, now)
      PROVE  AccountedWorker(w)'
  <2> DEFINE m == [type |-> "invalidate", tag |-> h.tag, at |-> now]
  <2>1. /\ h \in UpMsg /\ h.type = "invalidate" /\ up[v] # <<>>
        /\ up' = [up EXCEPT ![v] = Tail(@)] /\ Apply(v, m)
    BY <1>1, <1>3 DEF HandleInvalidate
  <2>2. m \in DownMsg /\ m.type = "invalidate" /\ m.tag = h.tag
    BY <2>1, UpTypes DEF DownMsg
  <2>3. /\ \A k \in Key : ~Fixes(h, k)
        /\ \A t \in Tag : FixesStamp(h, t) => FixesStamp(m, t)
    BY <2>1 DEF Fixes, FixesStamp
  <2> HIDE DEF m
  <2>4. /\ down' = Broadcast(v, m) /\ primary' = StoreAfter(m, primary)
        /\ primaryStamps' = StampsAfter(m, primaryStamps) /\ replayed' = Repaired(m)
        /\ UNCHANGED <<status, local, localStamps>>
    BY <2>1 DEF Apply
  <2> QED
    BY <2>1, <2>2, <2>3, <2>4, Applied
<1>4. ASSUME Takes(v, "incr")
      PROVE  /\ h \in UpMsg /\ h.type = "incr" /\ h.idem \in Idem /\ KeyOf[h.idem] \in Key
             /\ up[v] # <<>> /\ up' = [up EXCEPT ![v] = Tail(@)]
             /\ \A k \in Key : ~Fixes(h, k)
             /\ \A t \in Tag : ~FixesStamp(h, t)
  <2>1. h \in UpMsg /\ h.type = "incr" /\ up[v] # <<>> /\ up' = [up EXCEPT ![v] = Tail(@)]
    BY <1>1, <1>4
  <2>2. (\A k \in Key : ~Fixes(h, k)) /\ (\A t \in Tag : ~FixesStamp(h, t))
    BY <2>1 DEF Fixes, FixesStamp
  <2> QED
    BY <2>1, <2>2, UpTypes, ReplicationAssumption
<1>5. CASE HandleRepeat(v)
  <2>1. Takes(v, "incr") /\ UNCHANGED <<status, local, localStamps, primary, primaryStamps>>
    BY <1>5 DEF HandleRepeat
  <2>2. PICK n \in DOMAIN dedup :
          /\ down' = Reply(v, Result(h, dedup[n].outcome))
          /\ replayed' = IF dedup[n].outcome = Failed THEN replayed
                         ELSE [replayed EXCEPT ![v] = @ \cup {KeyOf[h.idem]}]
    BY <1>5 DEF HandleRepeat
  <2> DEFINE m == Result(h, dedup[n].outcome)
  <2>3. dedup[n].outcome \in Outcome
    <3>1. dedup \in Seq([idem : Idem, outcome : Outcome])
      BY DEF TypeOK
    <3>2. dedup[n] \in [idem : Idem, outcome : Outcome]
      BY <3>1, ElementType
    <3> QED
      BY <3>2
  <2>4. m \in DownMsg /\ m.type = "result" /\ m.outcome = dedup[n].outcome /\ m.key = KeyOf[h.idem]
    <3>1. m \in DownMsg
      BY <1>4, <2>1, <2>3, ResultType
    <3> QED
      BY <3>1 DEF Result
  <2> HIDE DEF m, h
  <2>5. \/ m.outcome = Failed /\ replayed' = replayed
        \/ replayed' = [replayed EXCEPT ![v] = @ \cup {m.key}]
    BY <2>2, <2>4
  <2>6. down' = Reply(v, m)
    BY <2>2 DEF m
  <2> QED
    BY <1>4, <2>1, <2>4, <2>5, <2>6, Replied DEF h
<1>6. CASE HandleRefused(v)
  <2> DEFINE m == Result(h, Failed)
  <2>1. /\ Takes(v, "incr") /\ down' = Reply(v, m)
        /\ UNCHANGED <<status, local, localStamps, primary, primaryStamps, replayed>>
    BY <1>6 DEF HandleRefused
  <2>2. m \in DownMsg
    BY <1>4, <2>1, ResultType DEF Outcome
  <2>3. m.type = "result" /\ m.outcome = Failed
    BY DEF Result
  <2> HIDE DEF m, h
  <2> QED
    BY <1>4, <2>1, <2>2, <2>3, Replied DEF h
<1>7. CASE HandleIncr(v)
  <2> DEFINE after == Incremented(primary[KeyOf[h.idem]])
             m == Result(h, after)
  <2>1. /\ Takes(v, "incr") /\ Incrementable(primary[KeyOf[h.idem]])
        /\ primary' = [primary EXCEPT ![KeyOf[h.idem]] = after]
        /\ down' = Broadcast(v, m) /\ replayed' = Repaired(m)
        /\ UNCHANGED <<status, primaryStamps, local, localStamps>>
    BY <1>7 DEF HandleIncr
  <2>2. after \in Counter /\ after # Failed
    <3>1. primary[KeyOf[h.idem]] \in Slot
      BY <1>0, <1>4, <2>1 DEF Store
    <3>2. after \in Counter
      BY <2>1, <3>1, IncrementedType
    <3> QED
      BY <3>2, CounterSlot, DataAssumption DEF Failed
  <2>3. m \in DownMsg
    BY <1>4, <2>1, <2>2, ResultType DEF Outcome
  <2>4. m.type = "result" /\ m.outcome = after /\ m.key = KeyOf[h.idem]
    BY DEF Result
  <2> HIDE DEF m, after, h
  <2>5. primary' = StoreAfter(m, primary) /\ primaryStamps' = StampsAfter(m, primaryStamps)
    BY <2>1, <2>2, <2>4 DEF StoreAfter, StampsAfter
  <2>6. /\ h \in UpMsg /\ h.type = "incr"
        /\ up[v] # <<>> /\ up' = [up EXCEPT ![v] = Tail(@)]
        /\ \A k \in Key : ~Fixes(h, k)
        /\ \A t \in Tag : ~FixesStamp(h, t)
    BY <1>4, <2>1
  <2> QED
    BY <2>1, <2>3, <2>5, <2>6, Applied DEF h
<1> QED
  BY <1>2, <1>3, <1>5, <1>6, <1>7 DEF PrimaryStep

LEMMA LifecycleAccounted ==
    ASSUME TypeOK, Fresh, Accounted, NEW w \in Worker, Running(w)',
           NEW v \in Worker, Spawn(v) \/ Crash(v) \/ Exit(v)
    PROVE  AccountedWorker(w)'
<1>1. /\ primary' = primary /\ primaryStamps' = primaryStamps
      /\ local' = local /\ localStamps' = localStamps /\ replayed' = replayed
  BY DEF Spawn, Crash, Exit, history
<1>2. CASE v # w
  <2>1. status'[w] = status[w] /\ down'[w] = down[w] /\ up'[w] = up[w]
    BY <1>2 DEF TypeOK, Spawn, Crash, Exit
  <2>2. AccountedWorker(w)
    BY <2>1 DEF Running, Accounted
  <2> QED
    BY <1>1, <2>1, <2>2, Untouching
<1>3. CASE v = w
  <2>1. Spawn(w)
    BY <1>3 DEF TypeOK, Crash, Exit, Running
  <2>2. /\ status'[w] = "forked" /\ down'[w] = <<>>
        /\ local[w] = EmptyStore /\ localStamps[w] = EmptyStamps
    BY <2>1 DEF TypeOK, Spawn, Fresh
  <2>3. (\A k \in Key : local[w][k] = Absent) /\ (\A t \in Tag : localStamps[w][t] = 0)
    BY <2>2 DEF EmptyStore, EmptyStamps
  <2> QED
    BY <1>1, <2>2, <2>3, ForkedIsAccounted DEF AccountedWorker
<1> QED
  BY <1>2, <1>3

LEMMA NextAccounted ==
    ASSUME IInv, [Next]_vars, NEW w \in Worker, Running(w)'
    PROVE  AccountedWorker(w)'
<1>0. TypeOK /\ Fresh /\ Accounted
  BY DEF IInv
<1>1. ASSUME NEW v \in Worker, Spawn(v) \/ Crash(v) \/ Exit(v)
      PROVE  AccountedWorker(w)'
  BY <1>0, <1>1, LifecycleAccounted
<1>2. ASSUME NEW v \in Worker, ClientStep(v) \/ Receive(v) \/ Online(v) \/ PrimaryStep(v)
      PROVE  AccountedWorker(w)'
  <2>1. Running(w)
    <3>1. CASE Online(v)
      BY <1>0, <3>1 DEF TypeOK, Online, Running
    <3>2. CASE ClientStep(v) \/ Receive(v) \/ PrimaryStep(v)
      <4>1. status' = status
        BY <3>2 DEF ClientStep, Delete, Set, Clear, InvalidateTag, UpdateTagTimestamp, Incr,
             Write, Receive, PrimaryStep, HandleWrite, HandleInvalidate, HandleRepeat,
             HandleRefused, HandleIncr, Apply
      <4> QED
        BY <4>1 DEF Running
    <3> QED
      BY <1>2, <3>1, <3>2
  <2>2. AccountedWorker(w)
    BY <1>0, <2>1 DEF Accounted
  <2> QED
    BY <1>0, <1>2, <2>1, <2>2, ClientAccounted, ReceiveAccounted, OnlineAccounted,
       PrimaryAccounted
<1>3. ASSUME NEW c \in Call, Timer(c)
      PROVE  AccountedWorker(w)'
  <2>1. status' = status
    BY <1>3 DEF Timer, Retry, Exhaust
  <2> QED
    BY <1>0, <1>3, <2>1, TimerAccounted DEF Accounted, Running
<1>4. CASE DedupExpire \/ UNCHANGED vars
  <2>1. /\ down' = down /\ up' = up /\ status' = status /\ local' = local
        /\ localStamps' = localStamps /\ primary' = primary
        /\ primaryStamps' = primaryStamps /\ replayed' = replayed
    BY <1>4 DEF DedupExpire, vars, history
  <2> QED
    BY <1>0, <2>1, Untouching DEF Accounted, Running
<1> QED
  BY <1>1, <1>2, <1>3, <1>4 DEF Next

LEMMA NextFresh ==
    ASSUME IInv, [Next]_vars
    PROVE  Fresh'
<1>0. TypeOK /\ Fresh
  BY DEF IInv
<1> SUFFICES ASSUME NEW w \in Worker, status'[w] = "unborn"
             PROVE  local'[w] = EmptyStore /\ localStamps'[w] = EmptyStamps /\ down'[w] = <<>>
  BY DEF Fresh
<1>1. ASSUME NEW v \in Worker, Spawn(v) \/ Online(v) \/ Crash(v) \/ Exit(v)
      PROVE  /\ v # w /\ status[w] = "unborn" /\ down'[w] = down[w]
             /\ local' = local /\ localStamps' = localStamps
  BY <1>0, <1>1 DEF TypeOK, Spawn, Online, Crash, Exit
<1>2. ASSUME NEW v \in Worker, ClientStep(v)
      PROVE  /\ status[w] = "unborn" /\ down' = down
             /\ local'[w] = local[w] /\ localStamps'[w] = localStamps[w]
  <2>1. status' = status /\ down' = down /\ Running(v)
    BY <1>2 DEF ClientStep, Delete, Set, Clear, InvalidateTag, UpdateTagTimestamp, Incr, Write
  <2>2. v # w
    BY <2>1 DEF Running
  <2> QED
    BY <1>0, <1>2, <2>1, <2>2 DEF ClientStep, Delete, Set, Clear, InvalidateTag,
         UpdateTagTimestamp, Incr, Write, TypeOK
<1>3. ASSUME NEW v \in Worker, Receive(v)
      PROVE  /\ status[w] = "unborn" /\ down'[w] = down[w]
             /\ local'[w] = local[w] /\ localStamps'[w] = localStamps[w]
  BY <1>0, <1>3 DEF TypeOK, Receive, Running
<1>4. ASSUME NEW v \in Worker, PrimaryStep(v)
      PROVE  /\ status[w] = "unborn" /\ down'[w] = down[w]
             /\ local' = local /\ localStamps' = localStamps
  <2>1. status' = status /\ local' = local /\ localStamps' = localStamps
    BY <1>4 DEF PrimaryStep, HandleWrite, HandleInvalidate, HandleRepeat, HandleRefused,
         HandleIncr, Apply
  <2>2. ASSUME NEW m
        PROVE  Broadcast(v, m)[w] = down[w] /\ Reply(v, m)[w] = down[w]
    BY <1>0, <2>1 DEF TypeOK, Broadcast, Reply, Connected, Running
  <2>3. down'[w] = down[w]
    BY <1>4, <2>2 DEF PrimaryStep, HandleWrite, HandleInvalidate, HandleRepeat, HandleRefused,
         HandleIncr, Apply
  <2> QED
    BY <2>1, <2>3
<1>5. ASSUME NEW c \in Call, Timer(c)
      PROVE  /\ status[w] = "unborn" /\ down' = down
             /\ local' = local /\ localStamps' = localStamps
  BY <1>5 DEF Timer, Retry, Exhaust
<1>6. CASE DedupExpire \/ UNCHANGED vars
  BY <1>0, <1>6 DEF Fresh, DedupExpire, vars
<1> QED
  BY <1>0, <1>1, <1>2, <1>3, <1>4, <1>5, <1>6 DEF Next, Fresh

LEMMA NextIInv == IInv /\ [Next]_vars => IInv'
<1> SUFFICES ASSUME IInv, [Next]_vars PROVE IInv'
  OBVIOUS
<1>1. TypeOK'
  BY NextTypeOK DEF IInv
<1>2. Fresh'
  BY NextFresh
<1>3. Accounted'
  BY NextAccounted DEF Accounted
<1> QED
  BY <1>1, <1>2, <1>3 DEF IInv

\* The messages in flight account for every difference between a worker's store and the
\* primary's (CacheClient's optimistic writes against CachePrimary's broadcasts).
THEOREM MessagesAccount == Spec => []Accounted
<1>1. IInv => Accounted
  BY DEF IInv
<1> QED
  BY <1>1, InitIInv, NextIInv, PTL DEF Spec

LEMMA AccountedConverged ==
    ASSUME TypeOK, Accounted
    PROVE  Converged
<1> SUFFICES ASSUME NEW w \in Worker, Drained(w)
             PROVE  Agrees(w)
  BY DEF Converged
<1>1. AccountedWorker(w) /\ down[w] = <<>> /\ up[w] = <<>> /\ status[w] = "online"
  BY DEF Accounted, Drained, Running
<1>2. ASSUME NEW k \in Key \ replayed[w]
      PROVE  local[w][k] = primary[k]
  <2>1. AccountedSlot(<<>>, <<>>, "online", local[w][k], primary[k], k)
    BY <1>1, <1>2 DEF AccountedWorker
  <2>2. SlotAfter(<<>>, 0, local[w][k]) = local[w][k]
    BY DEF SlotAfter, Dropped
  <2>3. Untouched(<<>>, k)
    BY DEF Untouched
  <2> QED
    BY <2>1, <2>2, <2>3 DEF AccountedSlot
<1>3. ASSUME NEW t \in Tag
      PROVE  localStamps[w][t] = primaryStamps[t]
  <2>1. AccountedStamp(<<>>, <<>>, "online", localStamps[w][t], primaryStamps[t], t)
    BY <1>1 DEF AccountedWorker
  <2> QED
    BY <2>1 DEF AccountedStamp, UntouchedStamp
<1>4. localStamps[w] = primaryStamps
  BY <1>3 DEF TypeOK, Stamps
<1> QED
  BY <1>2, <1>4 DEF Agrees

\* A worker with nothing in flight has the primary's entries and tag timestamps, except for
\* a key whose last message was the answer to a repeated incr: the optimistic local writes
\* of CacheClient are overtaken by the primary's broadcasts in the primary's order.
THEOREM WorkersConverge == Spec => []Converged
<1>1. IInv => Converged
  BY AccountedConverged DEF IInv
<1> QED
  BY <1>1, InitIInv, NextIInv, PTL DEF Spec
----------------------------------------------------------------------------
(* What a caller of incr can count on: an idempotency key is applied or    *)
(* refused once at most while the primary remembers it, and the protocol   *)
(* of workers, messages, retries and crashes implements CacheService.      *)

Tried(i) == increments[i] # <<>> \/ i \in refused

\* What was applied or refused is on record, unless its record was dropped.
Recorded == \A i \in Idem \ forgotten : Tried(i) => Seen(i)

OnceInv == TypeOK /\ Recorded /\ AtMostOnce

\* record() adds a record, and what it drops is counted as forgotten.
LEMMA RecordKeeps ==
    ASSUME TypeOK, NEW i \in Idem, NEW o \in Outcome, Record(i, o)
    PROVE  /\ forgotten \subseteq forgotten'
           /\ Seen(i)'
           /\ \A j \in Idem \ forgotten' : Seen(j) => Seen(j)'
<1> DEFINE Rec == [idem : Idem, outcome : Outcome]
           new == [idem |-> i, outcome |-> o]
<1>1. dedup \in Seq(Rec) /\ new \in Rec
  BY DEF TypeOK
<1>2. CASE Len(dedup) >= DedupMax
  <2>1. dedup # <<>>
    BY <1>1, <1>2, ReplicationAssumption
  <2>2. Tail(dedup) \in Seq(Rec)
    BY <1>1, <2>1, TailType
  <2>3. dedup' = Append(Tail(dedup), new) /\ forgotten' = forgotten \cup {Head(dedup).idem}
    BY <1>2 DEF Record
  <2>4. Len(Tail(dedup)) + 1 \in DOMAIN dedup' /\ dedup'[Len(Tail(dedup)) + 1] = new
    BY <2>2, <2>3
  <2>5. ASSUME NEW j \in Idem \ forgotten', Seen(j)
        PROVE  Seen(j)'
    <3>1. PICK n \in DOMAIN dedup : dedup[n].idem = j
      BY <2>5 DEF Seen
    <3>2. n # 1
      BY <1>1, <2>1, <2>3, <2>5, <3>1
    <3>3. n - 1 \in DOMAIN dedup' /\ dedup'[n - 1] = dedup[n]
      BY <1>1, <2>1, <2>2, <2>3, <3>2
    <3> QED
      BY <3>1, <3>3 DEF Seen
  <2> QED
    BY <2>3, <2>4, <2>5 DEF Seen
<1>3. CASE ~(Len(dedup) >= DedupMax)
  <2>1. dedup' = Append(dedup, new) /\ forgotten' = forgotten
    BY <1>3 DEF Record
  <2>2. Len(dedup) + 1 \in DOMAIN dedup' /\ dedup'[Len(dedup) + 1] = new
    BY <1>1, <2>1
  <2>3. \A n \in DOMAIN dedup : n \in DOMAIN dedup' /\ dedup'[n] = dedup[n]
    BY <1>1, <2>1
  <2> QED
    BY <2>1, <2>2, <2>3 DEF Seen
<1> QED
  BY <1>2, <1>3

LEMMA InitOnce == Init => OnceInv
BY InitTypeOK DEF Init, OnceInv, Recorded, AtMostOnce, Tried

\* Only the primary's handling of an incr, and expiry, touch what the invariant is about.
LEMMA OtherStepOnce ==
    ASSUME OnceInv, UNCHANGED <<dedup, increments, refused, forgotten>>
    PROVE  Recorded' /\ AtMostOnce'
BY DEF OnceInv, Recorded, AtMostOnce, Tried, Seen

LEMMA ExpireOnce ==
    ASSUME OnceInv, DedupExpire
    PROVE  Recorded' /\ AtMostOnce'
<1>1. /\ dedup \in Seq([idem : Idem, outcome : Outcome]) /\ dedup # <<>>
      /\ dedup' = Tail(dedup) /\ forgotten' = forgotten \cup {Head(dedup).idem}
      /\ increments' = increments /\ refused' = refused
  BY DEF OnceInv, TypeOK, DedupExpire
<1>2. ASSUME NEW j \in Idem \ forgotten', Seen(j)
      PROVE  Seen(j)'
  <2>1. PICK n \in DOMAIN dedup : dedup[n].idem = j
    BY <1>2 DEF Seen
  <2>2. n # 1
    BY <1>1, <1>2, <2>1
  <2>3. n - 1 \in DOMAIN dedup' /\ dedup'[n - 1] = dedup[n]
    BY <1>1, <2>2
  <2> QED
    BY <2>1, <2>3 DEF Seen
<1> QED
  BY <1>1, <1>2 DEF OnceInv, Recorded, AtMostOnce, Tried

LEMMA IncrOnce ==
    ASSUME OnceInv, NEW w \in Worker, HandleIncr(w) \/ HandleRefused(w)
    PROVE  Recorded' /\ AtMostOnce'
<1>a. TypeOK /\ Recorded /\ AtMostOnce /\ Takes(w, "incr") /\ ~Seen(Head(up[w]).idem)
  BY DEF OnceInv, HandleIncr, HandleRefused
<1>b. Head(up[w]).idem \in Idem
  <2>1. Head(up[w]) \in UpMsg /\ Head(up[w]).type = "incr"
    BY <1>a, TailType DEF TypeOK, Takes
  <2> QED
    BY <2>1, UpTypes
<1> PICK i \in Idem : i = Head(up[w]).idem
  BY <1>b
<1> DEFINE slot == primary[KeyOf[i]]
<1>0. TypeOK /\ Recorded /\ AtMostOnce /\ ~Seen(i)
  BY <1>a
<1>1. KeyOf[i] \in Key
  BY ReplicationAssumption
<1>2. PICK o \in Outcome : Record(i, o)
  <2>1. CASE HandleIncr(w)
    <3>1. Record(i, Incremented(slot)) /\ Incrementable(slot)
      BY <2>1, Zenon DEF HandleIncr
    <3>2. slot \in Slot
      BY <1>0, <1>1 DEF TypeOK, Store
    <3>3. Incremented(slot) \in Outcome
      BY <3>1, <3>2, IncrementedType DEF Outcome
    <3> QED
      BY <3>1, <3>3
  <2>2. CASE HandleRefused(w)
    BY <2>2 DEF HandleRefused, Outcome
  <2> QED
    BY <2>1, <2>2
<1>3. /\ forgotten \subseteq forgotten' /\ Seen(i)'
      /\ \A j \in Idem \ forgotten' : Seen(j) => Seen(j)'
  BY <1>0, <1>1, <1>2, RecordKeeps
<1>4. i \notin forgotten => increments[i] = <<>> /\ i \notin refused
  BY <1>0, <1>1 DEF Recorded, Tried
<1>5. \A j \in Idem \ {i} : increments'[j] = increments[j] /\ (j \in refused' <=> j \in refused)
  BY <1>0 DEF TypeOK, HandleIncr, HandleRefused
<1>6. Recorded'
  BY <1>0, <1>3, <1>5 DEF Recorded, Tried
<1>7. i \notin forgotten => Len(increments'[i]) <= 1 /\ (i \in refused' => increments'[i] = <<>>)
  <2> SUFFICES ASSUME i \notin forgotten
               PROVE  Len(increments'[i]) <= 1 /\ (i \in refused' => increments'[i] = <<>>)
    OBVIOUS
  <2>1. CASE HandleIncr(w)
    <3>1. increments'[i] = Append(<<>>, Incremented(slot).val) /\ i \notin refused'
      BY <1>0, <1>1, <1>4, <2>1 DEF TypeOK, HandleIncr
    <3> QED
      BY <3>1
  <2>2. CASE HandleRefused(w)
    <3>1. increments'[i] = <<>>
      BY <1>0, <1>1, <1>4, <2>2 DEF HandleRefused
    <3> QED
      BY <3>1
  <2> QED
    BY <2>1, <2>2
<1>8. AtMostOnce'
  BY <1>0, <1>3, <1>5, <1>7 DEF AtMostOnce
<1> QED
  BY <1>6, <1>8

LEMMA NextOnce == OnceInv /\ [Next]_vars => OnceInv'
<1> SUFFICES ASSUME OnceInv, [Next]_vars PROVE Recorded' /\ AtMostOnce'
  BY NextTypeOK DEF OnceInv
<1>1. ASSUME NEW w \in Worker, HandleIncr(w) \/ HandleRefused(w)
      PROVE  Recorded' /\ AtMostOnce'
  BY <1>1, IncrOnce
<1>2. CASE DedupExpire
  BY <1>2, ExpireOnce
<1>3. ASSUME NEW w \in Worker,
             \/ ClientStep(w) \/ Receive(w) \/ Spawn(w) \/ Online(w) \/ Crash(w) \/ Exit(w)
             \/ \E type \in {"set", "delete", "clear", "stamp"} : HandleWrite(w, type)
             \/ \E now \in Stamp : HandleInvalidate(w, now)
             \/ HandleRepeat(w)
      PROVE  Recorded' /\ AtMostOnce'
  <2>1. UNCHANGED <<dedup, increments, refused, forgotten>>
    BY <1>3 DEF ClientStep, Delete, Set, Clear, InvalidateTag, UpdateTagTimestamp, Incr, Write,
         Receive, Spawn, Online, Crash, Exit, HandleWrite, HandleInvalidate, HandleRepeat, Apply,
         history
  <2> QED
    BY <2>1, OtherStepOnce
<1>4. ASSUME NEW c \in Call, Timer(c)
      PROVE  Recorded' /\ AtMostOnce'
  <2>1. UNCHANGED <<dedup, increments, refused, forgotten>>
    BY <1>4 DEF Timer, Retry, Exhaust, history
  <2> QED
    BY <2>1, OtherStepOnce
<1>5. CASE UNCHANGED vars
  <2>1. UNCHANGED <<dedup, increments, refused, forgotten>>
    BY <1>5 DEF vars
  <2> QED
    BY <2>1, OtherStepOnce
<1> QED
  BY <1>1, <1>2, <1>3, <1>4, <1>5 DEF Next, PrimaryStep

\* Whatever is lost, repeated or crashes, an idempotency key whose record the primary did
\* not drop was applied once at most, and never both applied and refused
\* (CachePrimary's incr against IncrDedupCache).
THEOREM IncrementedOnce == Spec => []AtMostOnce
<1>1. OnceInv => AtMostOnce
  BY DEF OnceInv
<1> QED
  BY <1>1, InitOnce, NextOnce, PTL DEF Spec
----------------------------------------------------------------------------
(* The protocol implements the service. *)

\* The outcome is one the service has for the idempotency key.
Granted(i, o) == IF o = Failed THEN i \in refused ELSE o.val \in Service!Produced(i)

Waits(c, w, r) == call[c].st = "waiting" /\ call[c].by = w /\ call[c].req = r

\* A request id is used for one attempt of one call, ...
RequestKnown(w, r) == r <= requests[w]
CallsApart ==
    \A c \in Call : call[c].st = "waiting" =>
        /\ RequestKnown(call[c].by, call[c].req)
        /\ \A d \in Call : Waits(d, call[c].by, call[c].req) => d = c

\* ... so that a question on its way is about the idempotency key of the call that
\* waits for its answer, if one still does, ...
Sendable(m) == m.type = "set" => m.entry \in Written
AskedFor(m) ==
    /\ Sendable(m)
    /\ m.type = "incr" => /\ RequestKnown(m.pid, m.req)
                          /\ \A c \in Call : Waits(c, m.pid, m.req) => call[c].idem = m.idem

\* ... and an answer on its way is true of it.
TrueFor(m) ==
    m.type = "result" =>
        /\ RequestKnown(m.pid, m.req)
        /\ \A c \in Call : Waits(c, m.pid, m.req) => Granted(call[c].idem, m.outcome)

Asked   == \A w \in Worker : \A n \in DOMAIN up[w] : AskedFor(up[w][n])
Told    == \A w \in Worker : \A n \in DOMAIN down[w] : TrueFor(down[w][n])
Records == \A n \in DOMAIN dedup : Granted(dedup[n].idem, dedup[n].outcome)

AnswersInv == TypeOK /\ Records /\ CallsApart /\ Asked /\ Told

LEMMA AppendOrigin ==
    ASSUME NEW S, NEW q \in Seq(S), NEW e \in S, NEW n \in DOMAIN Append(q, e)
    PROVE  \/ Append(q, e)[n] = e
           \/ \E k \in DOMAIN q : Append(q, e)[n] = q[k]
<1>1. CASE n = Len(q) + 1
  BY <1>1
<1>2. CASE n # Len(q) + 1
  <2>1. n \in DOMAIN q /\ Append(q, e)[n] = q[n]
    BY <1>2
  <2> QED
    BY <2>1
<1> QED
  BY <1>1, <1>2

\* An appended value joins those that were there.
LEMMA AppendGrows ==
    ASSUME NEW q \in Seq(Nat), NEW e \in Nat, NEW r, r = Append(q, e)
    PROVE  {q[n] : n \in DOMAIN q} \cup {e} \subseteq {r[n] : n \in DOMAIN r}
<1>1. \A n \in DOMAIN q : n \in DOMAIN r /\ r[n] = q[n]
  OBVIOUS
<1>2. Len(q) + 1 \in DOMAIN r /\ r[Len(q) + 1] = e
  OBVIOUS
<1> QED
  BY <1>1, <1>2

LEMMA TailOrigin ==
    ASSUME NEW S, NEW q \in Seq(S), q # <<>>, NEW n \in DOMAIN Tail(q)
    PROVE  \E k \in DOMAIN q : Tail(q)[n] = q[k]
<1>1. n + 1 \in DOMAIN q /\ Tail(q)[n] = q[n + 1]
  OBVIOUS
<1> QED
  BY <1>1

LEMMA PrefixElements ==
    ASSUME NEW S, NEW q \in Seq(S), NEW l \in 0..Len(q), NEW n \in DOMAIN SubSeq(q, 1, l)
    PROVE  \E k \in DOMAIN q : SubSeq(q, 1, l)[n] = q[k]
<1>1. n \in DOMAIN q /\ SubSeq(q, 1, l)[n] = q[n]
  OBVIOUS
<1> QED
  BY <1>1

\* A step that starts no attempt: calls only stop waiting, and the service only gains
\* values and refusals.
Settles == /\ requests' = requests
           /\ \A c \in Call : call'[c].st = "waiting" => call'[c] = call[c]
Gains == /\ refused \subseteq refused'
         /\ \A i \in Idem : Service!Produced(i) \subseteq Service!Produced(i)'

LEMMA GrantedKept ==
    ASSUME Gains, NEW i \in Idem, NEW o, Granted(i, o)
    PROVE  Granted(i, o)'
BY DEF Gains, Granted

LEMMA SettlingKeeps ==
    ASSUME TypeOK, Settles, Gains
    PROVE  /\ CallsApart => CallsApart'
           /\ \A m : AskedFor(m) => AskedFor(m)'
           /\ \A m : TrueFor(m) => TrueFor(m)'
<1>1. \A c \in Call : \A w, r : Waits(c, w, r)' => Waits(c, w, r) /\ call'[c] = call[c]
  BY DEF Settles, Waits
<1>2. \A c \in Call : call'[c].st = "waiting" => call'[c] = call[c]
  BY DEF Settles
<1>3. \A w, r : RequestKnown(w, r) => RequestKnown(w, r)'
  BY DEF Settles, RequestKnown
<1>4. CallsApart => CallsApart'
  BY <1>1, <1>2, <1>3 DEF CallsApart
<1>5. ASSUME NEW m, AskedFor(m)
      PROVE  AskedFor(m)'
  BY <1>1, <1>3, <1>5 DEF AskedFor
<1>6. ASSUME NEW m, TrueFor(m)
      PROVE  TrueFor(m)'
  <2> SUFFICES ASSUME m.type = "result", NEW c \in Call, Waits(c, m.pid, m.req)'
               PROVE  Granted(call[c].idem, m.outcome)' /\ RequestKnown(m.pid, m.req)'
    BY <1>3, <1>6 DEF TrueFor
  <2>1. Waits(c, m.pid, m.req) /\ call'[c] = call[c] /\ Granted(call[c].idem, m.outcome)
    BY <1>1, <1>6 DEF TrueFor
  <2>2. PICK i \in Idem : i = call[c].idem
    BY <2>1, WaitingType DEF Waits
  <2>3. Granted(i, m.outcome)'
    BY <2>1, <2>2, GrantedKept
  <2> QED
    BY <1>3, <1>6, <2>1, <2>2, <2>3 DEF TrueFor
<1> QED
  BY <1>4, <1>5, <1>6

\* An attempt has a request id no message and no other call has.
LEMMA AttemptAnswers ==
    ASSUME AnswersInv, NEW w \in Worker, NEW c \in Call, NEW i \in Idem, NEW a,
           Attempt(w, c, i, a), TypeOK', down' = down, dedup' = dedup,
           increments' = increments, refused' = refused
    PROVE  AnswersInv'
<1> PICK r : r = requests[w] + 1
  OBVIOUS
<1> DEFINE new == [type |-> "incr", idem |-> i, pid |-> w, req |-> r]
<1>0. TypeOK /\ Records /\ CallsApart /\ Asked /\ Told
  BY DEF AnswersInv
<1>1. /\ requests[w] \in Nat /\ requests'[w] = r
      /\ \A v \in Worker : requests[v] \in Nat /\ (v # w => requests'[v] = requests[v])
  BY <1>0 DEF TypeOK, Attempt
<1>2. \A v \in Worker, q \in Nat : RequestKnown(v, q) => RequestKnown(v, q)' /\ ~(v = w /\ q = r)
  BY <1>1 DEF RequestKnown
<1>3. /\ call'[c] = [st |-> "waiting", by |-> w, idem |-> i, req |-> r, attempt |-> a]
      /\ \A d \in Call : d # c => call'[d] = call[d]
  BY <1>0 DEF TypeOK, Attempt
<1>4. ASSUME NEW d \in Call, NEW v, NEW q, Waits(d, v, q)'
      PROVE  \/ d = c /\ v = w /\ q = r
             \/ d # c /\ Waits(d, v, q) /\ call'[d] = call[d]
  BY <1>3, <1>4 DEF Waits
<1>5. \A o : \A j : Granted(j, o) <=> Granted(j, o)'
  BY DEF Granted, Service!Produced
<1>6. Records'
  BY <1>0, <1>5 DEF Records
<1>7. \A d \in Call : call[d].st = "waiting" =>
          /\ call[d].by \in Worker /\ call[d].req \in Nat
          /\ RequestKnown(call[d].by, call[d].req)
  BY <1>0, WaitingType DEF CallsApart
<1>8. ASSUME NEW d \in Call, NEW v, NEW q, Waits(d, v, q)'
      PROVE  RequestKnown(v, q)'
  <2>1. CASE d = c /\ v = w /\ q = r
    BY <1>1, <2>1 DEF RequestKnown
  <2>2. CASE Waits(d, v, q)
    BY <1>2, <1>7, <2>2 DEF Waits
  <2> QED
    BY <1>4, <1>8, <2>1, <2>2
<1>9. ASSUME NEW d \in Call, NEW b \in Call, NEW v, NEW q, Waits(d, v, q)', Waits(b, v, q)'
      PROVE  b = d
  <2>1. CASE d = c /\ v = w /\ q = r
    BY <1>2, <1>4, <1>7, <1>9, <2>1 DEF Waits
  <2>2. CASE d # c /\ Waits(d, v, q)
    BY <1>0, <1>2, <1>4, <1>7, <1>9, <2>2 DEF Waits, CallsApart
  <2> QED
    BY <1>4, <1>9, <2>1, <2>2
<1>10. CallsApart'
  <2> SUFFICES ASSUME NEW d \in Call, call'[d].st = "waiting"
               PROVE  /\ RequestKnown(call[d].by, call[d].req)'
                      /\ \A b \in Call : Waits(b, call[d].by, call[d].req)' => b = d
    BY DEF CallsApart
  <2>1. PICK v, q : v = call'[d].by /\ q = call'[d].req
    OBVIOUS
  <2>2. Waits(d, v, q)'
    BY <2>1 DEF Waits
  <2>3. RequestKnown(v, q)' /\ \A b \in Call : Waits(b, v, q)' => b = d
    BY <1>8, <1>9, <2>2
  <2> QED
    BY <2>1, <2>3 DEF RequestKnown, Waits
<1>11. ASSUME NEW m \in UpMsg, AskedFor(m)
       PROVE  AskedFor(m)'
  <2> SUFFICES ASSUME m.type = "incr" PROVE AskedFor(m)'
    BY <1>11 DEF AskedFor
  <2>1. m.pid \in Worker /\ m.req \in Nat /\ RequestKnown(m.pid, m.req)
    BY <1>11, UpTypes DEF AskedFor
  <2>2. ASSUME NEW d \in Call, Waits(d, m.pid, m.req)'
        PROVE  call'[d].idem = m.idem
    BY <1>2, <1>4, <1>11, <2>1, <2>2 DEF AskedFor
  <2> QED
    BY <1>2, <1>11, <2>1, <2>2 DEF AskedFor
<1>12. ASSUME NEW m \in DownMsg, TrueFor(m)
       PROVE  TrueFor(m)'
  <2> SUFFICES ASSUME m.type = "result" PROVE TrueFor(m)'
    BY DEF TrueFor
  <2>1. m.pid \in Worker /\ m.req \in Nat /\ RequestKnown(m.pid, m.req)
    BY <1>12, DownTypes DEF TrueFor
  <2>2. ASSUME NEW d \in Call, Waits(d, m.pid, m.req)'
        PROVE  Granted(call[d].idem, m.outcome)' /\ call'[d] = call[d]
    BY <1>2, <1>4, <1>5, <1>12, <2>1, <2>2 DEF TrueFor
  <2>3. ASSUME NEW d \in Call, Waits(d, m.pid, m.req)'
        PROVE  Granted(call[d].idem, m.outcome)'
    <3>1. PICK j : j = call[d].idem
      OBVIOUS
    <3> QED
      BY <2>2, <2>3, <3>1
  <2> QED
    BY <1>2, <2>1, <2>2, <2>3 DEF TrueFor
<1>13. Told'
  <2> SUFFICES ASSUME NEW v \in Worker, NEW n \in DOMAIN down[v]
               PROVE  TrueFor(down[v][n])'
    BY DEF Told
  <2>1. PICK m \in DownMsg : m = down[v][n]
    BY <1>0, ElementType DEF TypeOK
  <2>a. TrueFor(m)' => TrueFor(down[v][n])'
    BY <2>1 DEF TrueFor, RequestKnown, Waits, Granted
  <2>2. TrueFor(m)'
    BY <1>0, <1>12, <2>1 DEF Told
  <2> QED
    BY <2>a, <2>2
<1>14. AskedFor(new)'
  <2>1. new.type = "incr" /\ new.pid = w /\ new.req = r /\ new.idem = i /\ Sendable(new)
    BY DEF Sendable
  <2>2. RequestKnown(w, r)'
    BY <1>1 DEF RequestKnown
  <2>3. \A d \in Call : Waits(d, w, r)' => call'[d].idem = i
    <3> SUFFICES ASSUME NEW d \in Call, Waits(d, w, r)' PROVE call'[d].idem = i
      OBVIOUS
    <3>1. Waits(c, w, r)'
      BY <1>3 DEF Waits
    <3>2. d = c
      BY <1>2, <1>4, <1>7 DEF Waits
    <3> QED
      BY <1>3, <3>2
  <2> QED
    BY <2>1, <2>2, <2>3 DEF AskedFor
<1>15. Asked'
  <2> SUFFICES ASSUME NEW v \in Worker, NEW n \in DOMAIN up'[v]
               PROVE  AskedFor(up[v][n])'
    BY DEF Asked
  <2>1. PICK m : m = up'[v][n]
    OBVIOUS
  <2>a. AskedFor(m)' => AskedFor(up[v][n])'
    BY <2>1 DEF AskedFor, RequestKnown, Waits
  <2>2. up[v] \in Seq(UpMsg) /\ new \in UpMsg
    BY <1>0, <1>1 DEF TypeOK, UpMsg
  <2>3. \/ m = new
        \/ \E k \in DOMAIN up[v] : m = up[v][k]
    <3>1. CASE v = w
      <4>1. up'[v] = Append(up[v], new)
        BY <1>0, <3>1 DEF TypeOK, Attempt
      <4> QED
        BY <2>1, <2>2, <4>1, AppendOrigin
    <3>2. CASE v # w
      <4>1. up'[v] = up[v]
        BY <1>0, <3>2 DEF TypeOK, Attempt
      <4> QED
        BY <2>1, <4>1
    <3> QED
      BY <3>1, <3>2
  <2>4. CASE m = new
    <3>1. AskedFor(m)'
      BY <1>14, <2>4
    <3> QED
      BY <2>a, <3>1
  <2>5. CASE m # new
    <3>1. PICK k \in DOMAIN up[v] : m = up[v][k]
      BY <2>3, <2>5
    <3>2. m \in UpMsg /\ AskedFor(m)
      BY <1>0, <2>2, <3>1, ElementType DEF Asked
    <3>3. AskedFor(m)'
      BY <1>11, <3>2
    <3> QED
      BY <2>a, <3>3
  <2> QED
    BY <2>4, <2>5
<1> QED
  BY <1>6, <1>10, <1>13, <1>15 DEF AnswersInv

\* Every other step sends up nothing but writes, and down nothing but what is true: what
\* is in a channel afterwards was there before, or is such a message.
UpAt(v) ==
    \A n \in DOMAIN up'[v] : \/ \E k \in DOMAIN up[v] : up'[v][n] = up[v][k]
                             \/ up'[v][n].type # "incr" /\ Sendable(up'[v][n])
DownAt(v, new) ==
    \A n \in DOMAIN down'[v] : \/ \E k \in DOMAIN down[v] : down'[v][n] = down[v][k]
                               \/ down'[v][n] = new
Sends(new) == \A v \in Worker : UpAt(v) /\ DownAt(v, new)

LEMMA StepAnswers ==
    ASSUME AnswersInv, TypeOK', Settles, Gains, Records', NEW new, TrueFor(new)', Sends(new)
    PROVE  AnswersInv'
<1>0. TypeOK /\ Records /\ CallsApart /\ Asked /\ Told
  BY DEF AnswersInv
<1>1. /\ CallsApart'
      /\ \A m : AskedFor(m) => AskedFor(m)'
      /\ \A m : TrueFor(m) => TrueFor(m)'
  BY <1>0, SettlingKeeps
<1>2. ASSUME NEW v \in Worker, NEW n \in DOMAIN up'[v]
      PROVE  AskedFor(up[v][n])'
  <2>1. PICK m : m = up'[v][n]
    OBVIOUS
  <2>2. AskedFor(m)' => AskedFor(up[v][n])'
    BY <2>1 DEF AskedFor, RequestKnown, Waits
  <2>3. CASE m.type # "incr" /\ Sendable(m)
    BY <2>2, <2>3 DEF AskedFor
  <2>4. CASE \E k \in DOMAIN up[v] : m = up[v][k]
    <3>1. AskedFor(m)
      BY <1>0, <2>4 DEF Asked
    <3> QED
      BY <1>1, <2>2, <3>1
  <2> QED
    BY <1>2, <2>1, <2>3, <2>4 DEF Sends, UpAt
<1>3. ASSUME NEW v \in Worker, NEW n \in DOMAIN down'[v]
      PROVE  TrueFor(down[v][n])'
  <2>1. PICK m : m = down'[v][n]
    OBVIOUS
  <2>2. TrueFor(m)' => TrueFor(down[v][n])'
    BY <2>1 DEF TrueFor, RequestKnown, Waits, Granted
  <2>3. CASE m = new
    BY <2>2, <2>3
  <2>4. CASE \E k \in DOMAIN down[v] : m = down[v][k]
    <3>1. TrueFor(m)
      BY <1>0, <2>4 DEF Told
    <3> QED
      BY <1>1, <2>2, <3>1
  <2> QED
    BY <1>3, <2>1, <2>3, <2>4 DEF Sends, DownAt
<1> QED
  BY <1>1, <1>2, <1>3 DEF AnswersInv, Asked, Told

LEMMA UpParts ==
    ASSUME TypeOK, NEW v \in Worker,
           \/ up'[v] = up[v]
           \/ up[v] # <<>> /\ up'[v] = Tail(up[v])
           \/ up'[v] = <<>>
           \/ \E n \in 0..Len(up[v]) : up'[v] = SubSeq(up[v], 1, n)
           \/ \E m \in UpMsg : m.type # "incr" /\ Sendable(m) /\ up'[v] = Append(up[v], m)
    PROVE  UpAt(v)
<1>1. up[v] \in Seq(UpMsg)
  BY DEF TypeOK
<1>2. CASE up'[v] = up[v]
  BY <1>2 DEF UpAt
<1>3. CASE up[v] # <<>> /\ up'[v] = Tail(up[v])
  BY <1>1, <1>3, TailOrigin DEF UpAt
<1>4. CASE up'[v] = <<>>
  BY <1>4 DEF UpAt
<1>5. ASSUME NEW l \in 0..Len(up[v]), up'[v] = SubSeq(up[v], 1, l)
      PROVE  UpAt(v)
  BY <1>1, <1>5, PrefixElements DEF UpAt
<1>6. ASSUME NEW m \in UpMsg, m.type # "incr", Sendable(m), up'[v] = Append(up[v], m)
      PROVE  UpAt(v)
  <2> SUFFICES ASSUME NEW n \in DOMAIN up'[v], up'[v][n] # m
               PROVE  \E k \in DOMAIN up[v] : up'[v][n] = up[v][k]
    BY <1>6 DEF UpAt
  <2> QED
    BY <1>1, <1>6, AppendOrigin
<1> QED
  BY <1>2, <1>3, <1>4, <1>5, <1>6

LEMMA DownParts ==
    ASSUME TypeOK, NEW v \in Worker, NEW new,
           \/ down'[v] = down[v]
           \/ down[v] # <<>> /\ down'[v] = Tail(down[v])
           \/ down'[v] = <<>>
           \/ new \in DownMsg /\ down'[v] = Append(down[v], new)
    PROVE  DownAt(v, new)
<1>1. down[v] \in Seq(DownMsg)
  BY DEF TypeOK
<1>2. CASE down'[v] = down[v]
  BY <1>2 DEF DownAt
<1>3. CASE down[v] # <<>> /\ down'[v] = Tail(down[v])
  BY <1>1, <1>3, TailOrigin DEF DownAt
<1>4. CASE down'[v] = <<>>
  BY <1>4 DEF DownAt
<1>5. CASE new \in DownMsg /\ down'[v] = Append(down[v], new)
  BY <1>1, <1>5, AppendOrigin DEF DownAt
<1> QED
  BY <1>2, <1>3, <1>4, <1>5

LEMMA SameGains == increments' = increments /\ refused' = refused => Gains
BY DEF Gains, Service!Produced

LEMMA SameRecords ==
    ASSUME TypeOK, Records, Gains, dedup' = dedup
    PROVE  Records'
<1> SUFFICES ASSUME NEW n \in DOMAIN dedup'
             PROVE  Granted(dedup[n].idem, dedup[n].outcome)'
  BY DEF Records
<1> PICK i, o : i = dedup[n].idem /\ o = dedup[n].outcome
  OBVIOUS
<1>1. i \in Idem
  <2>1. dedup \in Seq([idem : Idem, outcome : Outcome])
    BY DEF TypeOK
  <2>2. dedup[n] \in [idem : Idem, outcome : Outcome]
    BY <2>1, ElementType
  <2> QED
    BY <2>2
<1>2. Granted(i, o)'
  BY <1>1, GrantedKept DEF Records
<1> QED
  BY <1>1, <1>2 DEF Granted

LEMMA RecordGrants ==
    ASSUME TypeOK, Records, Gains, NEW i \in Idem, NEW o \in Outcome, Record(i, o), Granted(i, o)'
    PROVE  Records'
<1> SUFFICES ASSUME NEW n \in DOMAIN dedup'
             PROVE  Granted(dedup[n].idem, dedup[n].outcome)'
  BY DEF Records
<1> DEFINE Rec == [idem : Idem, outcome : Outcome]
<1>1. PICK r : r = dedup'[n]
  OBVIOUS
<1>2. PICK j, p : j = r.idem /\ p = r.outcome
  OBVIOUS
<1>3. Granted(j, p)' => Granted(dedup[n].idem, dedup[n].outcome)'
  BY <1>1, <1>2 DEF Granted
<1>4. dedup \in Seq(Rec) /\ [idem |-> i, outcome |-> o] \in Rec
  BY DEF TypeOK
<1>5. \/ r = [idem |-> i, outcome |-> o]
      \/ \E k \in DOMAIN dedup : r = dedup[k]
  <2>1. CASE Len(dedup) >= DedupMax
    <3>1. dedup # <<>>
      BY <1>4, <2>1, ReplicationAssumption
    <3>2. Tail(dedup) \in Seq(Rec) /\ dedup' = Append(Tail(dedup), [idem |-> i, outcome |-> o])
      BY <1>4, <2>1, <3>1, TailType DEF Record
    <3>3. \/ r = [idem |-> i, outcome |-> o]
          \/ \E k \in DOMAIN Tail(dedup) : r = Tail(dedup)[k]
      BY <1>1, <1>4, <3>2, AppendOrigin
    <3>4. ASSUME NEW k \in DOMAIN Tail(dedup)
          PROVE  \E l \in DOMAIN dedup : Tail(dedup)[k] = dedup[l]
      BY <1>4, <3>1, TailOrigin
    <3> QED
      BY <3>3, <3>4
  <2>2. CASE ~(Len(dedup) >= DedupMax)
    <3>1. dedup' = Append(dedup, [idem |-> i, outcome |-> o])
      BY <2>2 DEF Record
    <3> QED
      BY <1>1, <1>4, <3>1, AppendOrigin
  <2> QED
    BY <2>1, <2>2
<1>6. CASE r = [idem |-> i, outcome |-> o]
  BY <1>2, <1>3, <1>6
<1>7. CASE \E k \in DOMAIN dedup : r = dedup[k]
  <2>a. PICK k \in DOMAIN dedup : r = dedup[k]
    BY <1>7
  <2>b. dedup[k] \in Rec
    BY <1>4, ElementType
  <2>1. Granted(j, p) /\ j \in Idem
    BY <1>2, <2>a, <2>b DEF Records
  <2> QED
    BY <1>3, <2>1, GrantedKept
<1> QED
  BY <1>5, <1>6, <1>7

LEMMA InitAnswers == Init => AnswersInv
BY InitTypeOK DEF Init, AnswersInv, Records, CallsApart, Asked, Told, Idle

\* A message that is no result, for the steps that send none.
NoAnswer == [type |-> "clear"]
LEMMA NoAnswerTrue == TrueFor(NoAnswer)'
BY DEF TrueFor, NoAnswer

LEMMA WriteAnswers ==
    ASSUME AnswersInv, TypeOK', NEW w \in Worker, NEW s, NEW ts, NEW m \in UpMsg,
           m.type # "incr", Sendable(m), Write(w, s, ts, m)
    PROVE  AnswersInv'
<1>0. TypeOK /\ Records
  BY DEF AnswersInv
<1>1. Settles /\ Gains /\ Records'
  BY <1>0, SameGains, SameRecords DEF Write, clients, history, Settles
<1>2. ASSUME NEW v \in Worker
      PROVE  UpAt(v) /\ DownAt(v, NoAnswer)
  <2>1. up'[v] = up[v] \/ up'[v] = Append(up[v], m)
    BY <1>0 DEF Write, TypeOK
  <2>2. down'[v] = down[v]
    BY DEF Write
  <2> QED
    BY <1>0, <2>1, <2>2, UpParts, DownParts
<1> QED
  BY <1>1, <1>2, NoAnswerTrue, StepAnswers DEF Sends

LEMMA ClientAnswers ==
    ASSUME AnswersInv, TypeOK', NEW w \in Worker, ClientStep(w)
    PROVE  AnswersInv'
<1>1. ASSUME NEW k \in Key, Delete(w, k)
      PROVE  AnswersInv'
  <2>1. [type |-> "delete", key |-> k] \in UpMsg
    BY DEF UpMsg, KeyMsg
  <2> QED
    BY <1>1, <2>1, WriteAnswers DEF Sendable, Delete
<1>2. ASSUME NEW k \in Key, NEW e \in Written, Set(w, k, e)
      PROVE  AnswersInv'
  <2>1. [type |-> "set", key |-> k, entry |-> e] \in UpMsg
    BY ReplicationAssumption DEF UpMsg, KeyMsg
  <2> QED
    BY <1>2, <2>1, WriteAnswers DEF Sendable, Set
<1>3. CASE Clear(w)
  <2>1. [type |-> "clear"] \in UpMsg
    BY DEF UpMsg, KeyMsg
  <2> QED
    BY <1>3, <2>1, WriteAnswers DEF Sendable, Clear
<1>4. ASSUME NEW t \in Tag, NEW now \in Stamp, InvalidateTag(w, t, now)
      PROVE  AnswersInv'
  <2>1. [type |-> "invalidate", tag |-> t] \in UpMsg
    BY DEF UpMsg
  <2> QED
    BY <1>4, <2>1, WriteAnswers DEF Sendable, InvalidateTag
<1>5. ASSUME NEW t \in Tag, NEW now \in Stamp, UpdateTagTimestamp(w, t, now)
      PROVE  AnswersInv'
  <2>1. [type |-> "stamp", tag |-> t, at |-> now] \in UpMsg
    BY DEF UpMsg, StampMsg
  <2> QED
    BY <1>5, <2>1, WriteAnswers DEF Sendable, UpdateTagTimestamp
<1>6. ASSUME NEW c \in Call, NEW i \in Idem, Incr(w, c, i)
      PROVE  AnswersInv'
  BY <1>6, AttemptAnswers DEF Incr, history
<1> QED
  BY <1>1, <1>2, <1>3, <1>4, <1>5, <1>6 DEF ClientStep

LEMMA TimerAnswers ==
    ASSUME AnswersInv, TypeOK', NEW c \in Call, Timer(c)
    PROVE  AnswersInv'
<1>0. TypeOK /\ Records
  BY DEF AnswersInv
<1>1. CASE Retry(c)
  <2>1. call[c].by \in Worker /\ call[c].idem \in Idem
    BY <1>0, <1>1, WaitingType DEF Retry
  <2> QED
    BY <1>1, <2>1, AttemptAnswers DEF Retry, history
<1>2. CASE Exhaust(c)
  <2>1. Settles /\ Gains /\ Records'
    BY <1>0, <1>2, SameGains, SameRecords DEF Exhaust, history, Settles, TypeOK
  <2>2. \A v \in Worker : UpAt(v) /\ DownAt(v, NoAnswer)
    BY <1>0, <1>2, UpParts, DownParts DEF Exhaust
  <2> QED
    BY <2>1, <2>2, NoAnswerTrue, StepAnswers DEF Sends
<1> QED
  BY <1>1, <1>2 DEF Timer

LEMMA WorkerAnswers ==
    ASSUME AnswersInv, TypeOK', NEW w \in Worker,
           Receive(w) \/ Spawn(w) \/ Online(w) \/ Crash(w) \/ Exit(w)
    PROVE  AnswersInv'
<1>0. TypeOK /\ Records
  BY DEF AnswersInv
<1>1. CASE Receive(w)
  <2>1. Gains /\ Records'
    BY <1>0, <1>1, SameGains, SameRecords DEF Receive, history
  <2>2. Settles
    BY <1>1 DEF Receive, Settles, Settled
  <2>3. ASSUME NEW v \in Worker
        PROVE  UpAt(v) /\ DownAt(v, NoAnswer)
    <3>1. up'[v] = up[v]
      BY <1>1 DEF Receive
    <3>2. down'[v] = down[v] \/ (down[v] # <<>> /\ down'[v] = Tail(down[v]))
      BY <1>0, <1>1 DEF Receive, TypeOK
    <3> QED
      BY <1>0, <3>1, <3>2, UpParts, DownParts
  <2> QED
    BY <2>1, <2>2, <2>3, NoAnswerTrue, StepAnswers DEF Sends
<1>2. CASE Spawn(w)
  <2>1. Settles /\ Gains /\ Records'
    BY <1>0, <1>2, SameGains, SameRecords DEF Spawn, history, clients, Settles
  <2>2. \A v \in Worker : UpAt(v) /\ DownAt(v, NoAnswer)
    BY <1>0, <1>2, UpParts, DownParts DEF Spawn
  <2> QED
    BY <2>1, <2>2, NoAnswerTrue, StepAnswers DEF Sends
<1>3. CASE Online(w)
  <2> DEFINE new == [type |-> "snapshot", store |-> primary, stamps |-> primaryStamps]
  <2> PICK m : m = new
    OBVIOUS
  <2>1. Settles /\ Gains /\ Records'
    BY <1>0, <1>3, SameGains, SameRecords DEF Online, clients, Settles
  <2>2. TrueFor(m)' /\ m \in DownMsg
    BY <1>0 DEF TrueFor, TypeOK, DownMsg
  <2>3. ASSUME NEW v \in Worker
        PROVE  UpAt(v) /\ DownAt(v, m)
    <3>1. up'[v] = up[v]
      BY <1>3 DEF Online
    <3>2. down'[v] = down[v] \/ down'[v] = Append(down[v], m)
      BY <1>0, <1>3 DEF Online, TypeOK
    <3> QED
      BY <1>0, <2>2, <3>1, <3>2, UpParts, DownParts
  <2> QED
    BY <2>1, <2>2, <2>3, StepAnswers DEF Sends
<1>4. CASE Crash(w)
  <2>1. Gains /\ Records'
    BY <1>0, <1>4, SameGains, SameRecords DEF Crash, history
  <2>2. Settles
    BY <1>4 DEF Crash, Settles, Lost
  <2>3. ASSUME NEW v \in Worker
        PROVE  UpAt(v) /\ DownAt(v, NoAnswer)
    <3>1. up'[v] = up[v] \/ \E n \in 0..Len(up[v]) : up'[v] = SubSeq(up[v], 1, n)
      BY <1>0, <1>4 DEF Crash, TypeOK
    <3>2. down'[v] = down[v] \/ down'[v] = <<>>
      BY <1>0, <1>4 DEF Crash, TypeOK
    <3> QED
      BY <1>0, <3>1, <3>2, UpParts, DownParts
  <2> QED
    BY <2>1, <2>2, <2>3, NoAnswerTrue, StepAnswers DEF Sends
<1>5. CASE Exit(w)
  <2>1. Settles /\ Gains /\ Records'
    BY <1>0, <1>5, SameGains, SameRecords DEF Exit, history, clients, Settles
  <2>2. ASSUME NEW v \in Worker
        PROVE  UpAt(v) /\ DownAt(v, NoAnswer)
    <3>1. up'[v] = up[v] \/ up'[v] = <<>>
      BY <1>0, <1>5 DEF Exit, TypeOK
    <3>2. down'[v] = down[v]
      BY <1>5 DEF Exit
    <3> QED
      BY <1>0, <3>1, <3>2, UpParts, DownParts
  <2> QED
    BY <2>1, <2>2, NoAnswerTrue, StepAnswers DEF Sends
<1> QED
  BY <1>1, <1>2, <1>3, <1>4, <1>5

\* Taking an incr: its request, its idempotency key, and whom the answer is for.
LEMMA TakenIncr ==
    ASSUME AnswersInv, NEW w \in Worker, Takes(w, "incr")
    PROVE  /\ Head(up[w]) \in UpMsg /\ Head(up[w]).idem \in Idem /\ Head(up[w]).req \in Nat
           /\ Head(up[w]).pid \in Worker /\ KeyOf[Head(up[w]).idem] \in Key
           /\ Head(up[w]).type = "incr" /\ AskedFor(Head(up[w]))
           /\ \A v \in Worker : UpAt(v)
<1>1. TypeOK /\ Asked /\ up[w] \in Seq(UpMsg) /\ up[w] # <<>>
  BY DEF AnswersInv, TypeOK, Takes
<1>2. Head(up[w]) \in UpMsg /\ Head(up[w]).type = "incr"
  BY <1>1, TailType DEF Takes
<1>3. 1 \in DOMAIN up[w] /\ Head(up[w]) = up[w][1]
  BY <1>1
<1>4. AskedFor(Head(up[w]))
  BY <1>1, <1>3 DEF Asked
<1>5. ASSUME NEW v \in Worker
      PROVE  UpAt(v)
  <2>1. up'[v] = up[v] \/ (up[v] # <<>> /\ up'[v] = Tail(up[v]))
    BY <1>1 DEF Takes, TypeOK
  <2> QED
    BY <1>1, <2>1, UpParts
<1> QED
  BY <1>2, <1>4, <1>5, UpTypes, ReplicationAssumption

\* The outcome of an increment answers the call that waits for it.
LEMMA ResultTrue ==
    ASSUME NEW m, m.idem \in Idem, m.type = "incr", AskedFor(m)', NEW o, Granted(m.idem, o)'
    PROVE  TrueFor(Result(m, o))'
<1>1. /\ Result(m, o).pid = m.pid /\ Result(m, o).req = m.req /\ Result(m, o).outcome = o
      /\ Result(m, o).type = "result"
  BY DEF Result
<1>2. PICK res : res = Result(m, o)
  OBVIOUS
<1>3. ASSUME NEW c \in Call, Waits(c, m.pid, m.req)'
      PROVE  Granted(call[c].idem, o)'
  BY <1>3 DEF AskedFor, Granted
<1>4. RequestKnown(m.pid, m.req)'
  BY DEF AskedFor
<1>5. TrueFor(res)'
  BY <1>1, <1>2, <1>3, <1>4 DEF TrueFor
<1> QED
  BY <1>2, <1>5

LEMMA ApplyAnswers ==
    ASSUME AnswersInv, TypeOK', NEW w \in Worker, NEW type, Takes(w, type),
           NEW m \in DownMsg, m.type # "result", Apply(w, m)
    PROVE  AnswersInv'
<1>0. TypeOK /\ Records
  BY DEF AnswersInv
<1>1. Settles /\ Gains /\ Records'
  BY <1>0, SameGains, SameRecords DEF Apply, clients, Settles
<1>2. TrueFor(m)'
  BY DEF TrueFor
<1>3. ASSUME NEW v \in Worker
      PROVE  UpAt(v) /\ DownAt(v, m)
  <2>1. up'[v] = up[v] \/ (up[v] # <<>> /\ up'[v] = Tail(up[v]))
    BY <1>0 DEF Takes, TypeOK
  <2>2. down'[v] = down[v] \/ down'[v] = Append(down[v], m)
    BY DEF Apply, Broadcast
  <2> QED
    BY <1>0, <2>1, <2>2, UpParts, DownParts
<1> QED
  BY <1>1, <1>2, <1>3, StepAnswers DEF Sends

LEMMA RepeatAnswers ==
    ASSUME AnswersInv, TypeOK', NEW w \in Worker, HandleRepeat(w)
    PROVE  AnswersInv'
<1>0. TypeOK /\ Records
  BY DEF AnswersInv
<1> PICK m : m = Head(up[w])
  OBVIOUS
<1>1. /\ m \in UpMsg /\ m.idem \in Idem /\ m.type = "incr" /\ AskedFor(m)
      /\ \A v \in Worker : UpAt(v)
  BY TakenIncr DEF HandleRepeat
<1>2. PICK n \in DOMAIN dedup : dedup[n].idem = m.idem /\ down' = Reply(w, Result(m, dedup[n].outcome))
  BY DEF HandleRepeat
<1> PICK o : o = dedup[n].outcome
  OBVIOUS
<1>3. Granted(m.idem, o)
  BY <1>0, <1>2 DEF Records
<1>4. Settles /\ Gains /\ Records'
  BY <1>0, SameGains, SameRecords DEF HandleRepeat, clients, Settles
<1>5. AskedFor(m)' /\ Granted(m.idem, o)'
  BY <1>0, <1>1, <1>3, <1>4, SettlingKeeps, GrantedKept
<1>6. o \in Outcome
  <2>1. dedup \in Seq([idem : Idem, outcome : Outcome])
    BY <1>0 DEF TypeOK
  <2>2. dedup[n] \in [idem : Idem, outcome : Outcome]
    BY <2>1, ElementType
  <2> QED
    BY <2>2
<1> PICK new : new = Result(m, o)
  OBVIOUS
<1>7. TrueFor(new)' /\ new \in DownMsg
  BY <1>1, <1>5, <1>6, ResultTrue, ResultType
<1>8. ASSUME NEW v \in Worker
      PROVE  DownAt(v, new)
  <2>1. down'[v] = down[v] \/ down'[v] = Append(down[v], new)
    BY <1>0, <1>2 DEF Reply, TypeOK
  <2> QED
    BY <1>0, <1>7, <2>1, DownParts
<1> QED
  BY <1>1, <1>4, <1>7, <1>8, StepAnswers DEF Sends

LEMMA RefusedAnswers ==
    ASSUME AnswersInv, TypeOK', NEW w \in Worker, HandleRefused(w)
    PROVE  AnswersInv'
<1>0. TypeOK /\ Records
  BY DEF AnswersInv
<1> PICK m : m = Head(up[w])
  OBVIOUS
<1>1. /\ m \in UpMsg /\ m.idem \in Idem /\ m.type = "incr" /\ AskedFor(m)
      /\ \A v \in Worker : UpAt(v)
  BY TakenIncr DEF HandleRefused
<1>2. Record(m.idem, Failed) /\ refused' = refused \cup {m.idem} /\ down' = Reply(w, Result(m, Failed))
      /\ increments' = increments
  BY DEF HandleRefused
<1>3. Settles /\ Gains
  BY <1>2 DEF HandleRefused, clients, Settles, Gains, Service!Produced
<1>4. Granted(m.idem, Failed)'
  BY <1>2 DEF Granted, Failed
<1>5. Records' /\ AskedFor(m)'
  BY <1>0, <1>1, <1>2, <1>3, <1>4, RecordGrants, SettlingKeeps DEF Outcome
<1> PICK new : new = Result(m, Failed)
  OBVIOUS
<1>6. TrueFor(new)' /\ new \in DownMsg
  BY <1>1, <1>4, <1>5, ResultTrue, ResultType DEF Outcome
<1>7. ASSUME NEW v \in Worker
      PROVE  DownAt(v, new)
  <2>1. down'[v] = down[v] \/ down'[v] = Append(down[v], new)
    BY <1>0, <1>2 DEF Reply, TypeOK
  <2> QED
    BY <1>0, <1>6, <2>1, DownParts
<1> QED
  BY <1>1, <1>3, <1>5, <1>6, <1>7, StepAnswers DEF Sends

\* What the handler of a new increment does, for the idempotency key and the counter it leaves.
LEMMA IncrDoes ==
    ASSUME NEW w \in Worker, HandleIncr(w)
    PROVE  /\ Takes(w, "incr")
           /\ \E i, after :
                 /\ i = Head(up[w]).idem /\ ~Seen(i)
                 /\ Incrementable(primary[KeyOf[i]])
                 /\ after = Incremented(primary[KeyOf[i]])
                 /\ primary' = [primary EXCEPT ![KeyOf[i]] = after]
                 /\ Record(i, after)
                 /\ increments' = [increments EXCEPT ![i] = Append(@, after.val)]
                 /\ down' = Broadcast(w, Result(Head(up[w]), after))
           /\ UNCHANGED <<refused, call, requests>>
BY Zenon DEF HandleIncr, clients

LEMMA IncrAnswers ==
    ASSUME AnswersInv, TypeOK', NEW w \in Worker, HandleIncr(w)
    PROVE  AnswersInv'
<1>0. TypeOK /\ Records
  BY DEF AnswersInv
<1> PICK m : m = Head(up[w])
  OBVIOUS
<1>d. /\ Takes(w, "incr") /\ refused' = refused /\ call' = call /\ requests' = requests
      /\ \E i, after : /\ i = m.idem /\ Incrementable(primary[KeyOf[i]])
                       /\ after = Incremented(primary[KeyOf[i]]) /\ Record(i, after)
                       /\ increments' = [increments EXCEPT ![i] = Append(@, after.val)]
                       /\ down' = Broadcast(w, Result(m, after))
  BY IncrDoes, Zenon
<1>1. /\ m \in UpMsg /\ m.idem \in Idem /\ KeyOf[m.idem] \in Key /\ m.type = "incr" /\ AskedFor(m)
      /\ \A v \in Worker : UpAt(v)
  BY <1>d, TakenIncr, Zenon
<1>a. PICK i, after : /\ i = m.idem /\ Incrementable(primary[KeyOf[i]])
                      /\ after = Incremented(primary[KeyOf[i]]) /\ Record(i, after)
                      /\ increments' = [increments EXCEPT ![i] = Append(@, after.val)]
                      /\ down' = Broadcast(w, Result(m, after))
  BY <1>d, Zenon
<1>2. /\ i = m.idem /\ i \in Idem /\ Record(i, after)
      /\ increments' = [increments EXCEPT ![i] = Append(@, after.val)]
      /\ down' = Broadcast(w, Result(m, after))
  BY <1>1, <1>a, Zenon
<1>3. after \in Counter /\ after # Failed
  <2>1. primary[KeyOf[i]] \in Slot
    BY <1>0, <1>1, <1>2 DEF TypeOK, Store
  <2> QED
    BY <1>a, <2>1, IncrementedType, CounterSlot, DataAssumption, Zenon DEF Failed
<1>4. /\ increments[i] \in Seq(Nat) /\ after.val \in Nat
      /\ increments'[i] = Append(increments[i], after.val)
      /\ \A j \in Idem : j # i => increments'[j] = increments[j]
  BY <1>0, <1>2, <1>3 DEF TypeOK, Counter
<1>5. Service!Produced(i) \subseteq Service!Produced(i)' /\ after.val \in Service!Produced(i)'
  <2>1. {increments[i][n] : n \in DOMAIN increments[i]} \cup {after.val}
          \subseteq {increments'[i][n] : n \in DOMAIN increments'[i]}
    <3>0. PICK q, v, r : q = increments[i] /\ v = after.val /\ r = increments'[i]
      OBVIOUS
    <3>1. q \in Seq(Nat) /\ v \in Nat /\ r = Append(q, v)
      BY <1>4, <3>0
    <3>2. {q[n] : n \in DOMAIN q} \cup {v} \subseteq {r[n] : n \in DOMAIN r}
      BY ONLY <3>1, AppendGrows, SMTT(20)
    <3> QED
      BY ONLY <3>0, <3>2
  <2> QED
    BY <2>1 DEF Service!Produced
<1>6. Settles
  BY <1>d, Zenon DEF Settles
<1>7. Gains
  <2>1. ASSUME NEW j \in Idem
        PROVE  Service!Produced(j) \subseteq Service!Produced(j)'
    <3>1. CASE j = i
      BY <1>5, <3>1
    <3>2. CASE j # i
      BY <1>4, <3>2 DEF Service!Produced
    <3> QED
      BY <3>1, <3>2
  <2> QED
    BY <1>d, <2>1, Zenon DEF Gains
<1>8. Granted(i, after)'
  BY <1>3, <1>5 DEF Granted
<1>9. Records' /\ AskedFor(m)'
  BY <1>0, <1>1, <1>2, <1>3, <1>6, <1>7, <1>8, RecordGrants, SettlingKeeps DEF Outcome
<1> PICK new : new = Result(m, after)
  OBVIOUS
<1>10. TrueFor(new)' /\ new \in DownMsg
  BY <1>1, <1>2, <1>3, <1>8, <1>9, ResultTrue, ResultType DEF Outcome
<1>11. ASSUME NEW v \in Worker
       PROVE  DownAt(v, new)
  <2>1. down'[v] = down[v] \/ down'[v] = Append(down[v], new)
    BY <1>2 DEF Broadcast
  <2> QED
    BY <1>0, <1>10, <2>1, DownParts
<1> QED
  BY <1>1, <1>6, <1>7, <1>9, <1>10, <1>11, StepAnswers DEF Sends

LEMMA PrimaryAnswers ==
    ASSUME AnswersInv, TypeOK', NEW w \in Worker, PrimaryStep(w)
    PROVE  AnswersInv'
<1>0. TypeOK
  BY DEF AnswersInv
<1>1. ASSUME NEW type, Takes(w, type)
      PROVE  Head(up[w]) \in UpMsg /\ Head(up[w]).type = type
  BY <1>0, <1>1, TailType DEF TypeOK, Takes
<1>2. ASSUME NEW type \in {"set", "delete", "clear", "stamp"}, HandleWrite(w, type)
      PROVE  AnswersInv'
  <2>1. Head(up[w]) \in DownMsg /\ Head(up[w]).type # "result"
    BY <1>1, <1>2, UpTypes DEF HandleWrite
  <2> QED
    BY <1>2, <2>1, ApplyAnswers DEF HandleWrite
<1>3. ASSUME NEW now \in Stamp, HandleInvalidate(w, now)
      PROVE  AnswersInv'
  <2>1. Head(up[w]).tag \in Tag
    BY <1>1, <1>3, UpTypes DEF HandleInvalidate
  <2>2. [type |-> "invalidate", tag |-> Head(up[w]).tag, at |-> now] \in DownMsg
    BY <2>1 DEF DownMsg
  <2> QED
    BY <1>3, <2>2, ApplyAnswers DEF HandleInvalidate
<1> QED
  BY <1>2, <1>3, RepeatAnswers, RefusedAnswers, IncrAnswers DEF PrimaryStep

LEMMA ExpireAnswers ==
    ASSUME AnswersInv, TypeOK', DedupExpire
    PROVE  AnswersInv'
<1>0. TypeOK /\ Records
  BY DEF AnswersInv
<1>1. /\ dedup \in Seq([idem : Idem, outcome : Outcome]) /\ dedup # <<>> /\ dedup' = Tail(dedup)
      /\ increments' = increments /\ refused' = refused
  BY <1>0 DEF TypeOK, DedupExpire
<1>2. Settles /\ Gains
  BY <1>1, SameGains DEF DedupExpire, clients, Settles
<1>3. Records'
  <2> SUFFICES ASSUME NEW n \in DOMAIN dedup'
               PROVE  Granted(dedup[n].idem, dedup[n].outcome)'
    BY DEF Records
  <2> PICK i, o : i = dedup'[n].idem /\ o = dedup'[n].outcome
    OBVIOUS
  <2>1. PICK k \in DOMAIN dedup : dedup'[n] = dedup[k]
    BY <1>1, TailOrigin
  <2>2. dedup[k] \in [idem : Idem, outcome : Outcome]
    BY <1>1, ElementType
  <2>3. Granted(i, o) /\ i \in Idem
    BY <1>0, <2>1, <2>2 DEF Records
  <2>4. Granted(i, o)'
    BY <1>2, <2>3, GrantedKept
  <2> QED
    BY <2>4 DEF Granted
<1>4. \A v \in Worker : UpAt(v) /\ DownAt(v, NoAnswer)
  BY <1>0, UpParts, DownParts DEF DedupExpire
<1> QED
  BY <1>2, <1>3, <1>4, NoAnswerTrue, StepAnswers DEF Sends

LEMMA StutterAnswers ==
    ASSUME AnswersInv, TypeOK', UNCHANGED vars
    PROVE  AnswersInv'
<1>0. TypeOK /\ Records
  BY DEF AnswersInv
<1>1. Settles /\ Gains /\ Records'
  BY <1>0, SameGains, SameRecords DEF vars, Settles
<1>2. \A v \in Worker : UpAt(v) /\ DownAt(v, NoAnswer)
  BY <1>0, UpParts, DownParts DEF vars
<1> QED
  BY <1>1, <1>2, NoAnswerTrue, StepAnswers DEF Sends

LEMMA NextAnswers == AnswersInv /\ [Next]_vars => AnswersInv'
<1> SUFFICES ASSUME AnswersInv, [Next]_vars PROVE AnswersInv'
  OBVIOUS
<1>1. TypeOK'
  BY NextTypeOK DEF AnswersInv
<1> QED
  BY <1>1, ClientAnswers, TimerAnswers, WorkerAnswers, PrimaryAnswers, ExpireAnswers,
     StutterAnswers DEF Next

\* The service's view of a state.
Known == {dedup[n].idem : n \in DOMAIN dedup}
Promise == [c \in Call |-> IF call[c].st = "waiting"
                           THEN [st |-> "waiting", idem |-> call[c].idem]
                           ELSE call[c]]
Silent == UNCHANGED <<primary, increments, Known, refused, Promise>>
Serves == Service!Next \/ Silent

LEMMA SilentStep ==
    ASSUME primary' = primary, increments' = increments, dedup' = dedup, refused' = refused,
           call' = call
    PROVE  Serves
BY DEF Serves, Silent, Known, Promise

LEMMA TellServes ==
    ASSUME NEW c \in Call, Service!Tell(c)
    PROVE  Serves
BY DEF Serves, Service!Next

LEMMA ClientServes ==
    ASSUME TypeOK, NEW w \in Worker, ClientStep(w)
    PROVE  Serves
<1>1. CASE \E c \in Call, i \in Idem : Incr(w, c, i)
  <2>1. PICK c \in Call, i \in Idem : Incr(w, c, i)
    BY <1>1
  <2>2. /\ call[c] = [st |-> "idle"]
        /\ call' = [call EXCEPT ![c] = [st |-> "waiting", by |-> w, idem |-> i,
                                        req |-> requests[w] + 1, attempt |-> 1]]
        /\ UNCHANGED <<primary, increments, dedup, refused>>
    BY <2>1 DEF Incr, Attempt, Idle, history
  <2>a. ASSUME NEW d \in Call, d # c
        PROVE  Promise'[d] = Promise[d]
    BY <2>2, <2>a DEF Promise, TypeOK
  <2>b. Promise[c].st = "idle" /\ Promise'[c] = [st |-> "waiting", idem |-> i]
    BY <2>2 DEF Promise, TypeOK
  <2>3. /\ Promise[c].st = "idle"
        /\ Promise' = [Promise EXCEPT ![c] = [st |-> "waiting", idem |-> i]]
    BY <2>a, <2>b DEF Promise
  <2>4. Service!Ask(c, i)
    BY <2>2, <2>3 DEF Service!Ask, Promise
  <2> QED
    BY <2>4 DEF Serves, Service!Next
<1>2. CASE ~\E c \in Call, i \in Idem : Incr(w, c, i)
  <2>1. UNCHANGED <<primary, increments, dedup, refused, call>>
    BY <1>2 DEF ClientStep, Delete, Set, Clear, InvalidateTag, UpdateTagTimestamp, Write, clients,
         history
  <2> QED
    BY <2>1, SilentStep
<1> QED
  BY <1>1, <1>2

LEMMA TimerServes ==
    ASSUME TypeOK, NEW c \in Call, Timer(c)
    PROVE  Serves
<1>1. CASE Retry(c)
  <2>1. /\ call[c].st = "waiting" /\ UNCHANGED <<primary, increments, dedup, refused>>
        /\ call' = [call EXCEPT ![c] = [st |-> "waiting", by |-> call[c].by, idem |-> call[c].idem,
                                        req |-> requests[call[c].by] + 1,
                                        attempt |-> call[c].attempt + 1]]
    BY <1>1 DEF Retry, Attempt, history
  <2>2. ASSUME NEW d \in Call
        PROVE  Promise'[d] = Promise[d]
    <3>1. CASE d = c
      BY <2>1, <3>1 DEF Promise, TypeOK
    <3>2. CASE d # c
      BY <2>1, <3>2 DEF Promise, TypeOK
    <3> QED
      BY <3>1, <3>2
  <2>3. Promise' = Promise /\ Known' = Known
    BY <2>1, <2>2 DEF Promise, Known
  <2> QED
    BY <2>1, <2>3 DEF Serves, Silent
<1>2. CASE Exhaust(c)
  <2>1. /\ call[c].st = "waiting" /\ UNCHANGED <<primary, increments, dedup, refused>>
        /\ call' = [call EXCEPT ![c] = [st |-> "exhausted", idem |-> call[c].idem]]
    BY <1>2 DEF Exhaust, history
  <2>2. /\ Promise[c].st = "waiting"
        /\ Promise' = [Promise EXCEPT ![c] = [st |-> "exhausted", idem |-> Promise[c].idem]]
    BY <2>1 DEF Promise, TypeOK
  <2>3. Service!Tell(c)
    BY <2>1, <2>2 DEF Service!Tell, Promise
  <2> QED
    BY <2>3, TellServes
<1> QED
  BY <1>1, <1>2 DEF Timer

\* The answer a call waits for is one the service may give it.
LEMMA ReceiveServes ==
    ASSUME AnswersInv, NEW w \in Worker, Receive(w)
    PROVE  Serves
<1>0. TypeOK /\ CallsApart /\ Told /\ down[w] # <<>> /\ down[w] \in Seq(DownMsg)
  BY DEF AnswersInv, Receive, TypeOK
<1> PICK m : m = Head(down[w])
  OBVIOUS
<1>1. /\ call' = [c \in Call |-> IF Answers(w, m, c) THEN Settled(c, m.outcome) ELSE call[c]]
      /\ UNCHANGED <<primary, increments, dedup, refused>>
  BY DEF Receive, history
<1>2. m \in DownMsg /\ TrueFor(m)
  <2>1. 1 \in DOMAIN down[w] /\ m = down[w][1] /\ m \in DownMsg
    BY <1>0
  <2> QED
    BY <1>0, <2>1 DEF Told
<1>3. CASE \E c \in Call : Answers(w, m, c)
  <2>1. PICK c \in Call : Answers(w, m, c)
    BY <1>3
  <2>2. ASSUME NEW d \in Call, Answers(w, m, d)
        PROVE  d = c
    BY <1>0, <2>1, <2>2 DEF Answers, CallsApart, Waits
  <2>3. call' = [call EXCEPT ![c] = Settled(c, m.outcome)]
    BY <1>0, <1>1, <2>1, <2>2 DEF TypeOK
  <2>4. /\ call[c].st = "waiting" /\ Granted(call[c].idem, m.outcome)
        /\ Promise[c] = [st |-> "waiting", idem |-> call[c].idem]
    BY <1>2, <2>1 DEF Answers, TrueFor, Waits, Promise
  <2>5. Promise' = [Promise EXCEPT ![c] = Settled(c, m.outcome)]
    <3>1. Settled(c, m.outcome).st # "waiting"
      BY DEF Settled
    <3> QED
      BY <1>0, <2>3, <3>1 DEF Promise, TypeOK
  <2>6. CASE m.outcome = Failed
    <3>1. /\ call[c].idem \in refused
          /\ Promise' = [Promise EXCEPT ![c] = [st |-> "rejected", idem |-> Promise[c].idem]]
      BY <2>4, <2>5, <2>6 DEF Granted, Settled
    <3>2. Service!Tell(c)
      BY <1>1, <2>4, <3>1, SMTT(20) DEF Service!Tell, Promise
    <3> QED
      BY <3>2, TellServes
  <2>7. CASE m.outcome # Failed
    <3>1. /\ m.outcome.val \in Service!Produced(call[c].idem)
          /\ Promise' = [Promise EXCEPT ![c] = [st |-> "resolved", idem |-> Promise[c].idem,
                                                value |-> m.outcome.val]]
      BY <2>4, <2>5, <2>7 DEF Granted, Settled
    <3> PICK i, v : i = call[c].idem /\ v = m.outcome.val
      OBVIOUS
    <3>2. /\ Promise[c] = [st |-> "waiting", idem |-> i] /\ v \in Service!Produced(i)
          /\ Promise' = [Promise EXCEPT ![c] = [st |-> "resolved", idem |-> i, value |-> v]]
      BY <2>4, <3>1
    <3>3. /\ Promise[c].st = "waiting"
          /\ \E x \in Service!Produced(Promise[c].idem) :
                Promise' = [Promise EXCEPT ![c] = [st |-> "resolved", idem |-> Promise[c].idem,
                                                   value |-> x]]
      <4>1. Promise[c].st = "waiting" /\ Promise[c].idem = i
        BY <3>2
      <4>2. v \in Service!Produced(Promise[c].idem)
        BY <3>2, <4>1 DEF Service!Produced
      <4>3. Promise' = [Promise EXCEPT ![c] = [st |-> "resolved", idem |-> Promise[c].idem,
                                               value |-> v]]
        BY <3>2, <4>1
      <4> QED
        BY <4>1, <4>2, <4>3
    <3>4. UNCHANGED <<primary, increments, Known, refused>>
      BY <1>1 DEF Known
    <3>5. Service!Tell(c)
      BY ONLY <3>3, <3>4 DEF Service!Tell, Promise, Known
    <3> QED
      BY <3>5, TellServes
  <2> QED
    BY <2>6, <2>7
<1>4. CASE ~\E c \in Call : Answers(w, m, c)
  <2>1. call' = call
    BY <1>0, <1>1, <1>4 DEF TypeOK
  <2> QED
    BY <1>1, <2>1, SilentStep
<1> QED
  BY <1>3, <1>4

LEMMA LifecycleServes ==
    ASSUME TypeOK, NEW w \in Worker, Spawn(w) \/ Online(w) \/ Crash(w) \/ Exit(w)
    PROVE  Serves
<1>1. CASE Crash(w)
  <2> DEFINE gone == {c \in Call : call[c].st = "waiting" /\ call[c].by = w}
  <2>1. /\ UNCHANGED <<primary, increments, dedup, refused>>
        /\ call' = [c \in Call |-> IF c \in gone THEN [st |-> "lost", idem |-> call[c].idem]
                                                 ELSE call[c]]
    BY <1>1 DEF Crash, Lost, history
  <2>2. gone \in SUBSET {c \in Call : Promise[c].st = "waiting"}
    BY DEF Promise
  <2>3. Promise' = [c \in Call |-> IF c \in gone THEN [st |-> "lost", idem |-> Promise[c].idem]
                                                 ELSE Promise[c]]
    BY <2>1 DEF Promise
  <2>4. Service!Lose
    BY <2>1, <2>2, <2>3, ZenonT(60) DEF Service!Lose, Promise
  <2> QED
    BY <2>4 DEF Serves, Service!Next
<1>2. CASE Spawn(w) \/ Online(w) \/ Exit(w)
  <2>1. UNCHANGED <<primary, increments, dedup, refused, call>>
    BY <1>2 DEF Spawn, Online, Exit, clients, history
  <2> QED
    BY <2>1, SilentStep
<1> QED
  BY <1>1, <1>2

\* The primary's steps.
Stores(new) == primary' = new /\ UNCHANGED <<increments, dedup, refused, call>>

LEMMA StoresWrite ==
    ASSUME NEW new, Stores(new),
           \/ \E k \in Key, e \in Written \cup {Absent} : new = [primary EXCEPT ![k] = e]
           \/ new = EmptyStore
           \/ \E t \in Tag : new = Invalidated(primary, t)
    PROVE  Serves
<1>1. Service!WriteStore(new)
  BY DEF Service!WriteStore, Stores
<1>2. Service!Write
  BY <1>1 DEF Service!Write, EmptyStore, Service!EmptyStore, Invalidated, Service!Invalidated,
       Tagged, Service!Tagged
<1> QED
  BY <1>2 DEF Serves, Service!Next

LEMMA WriteServes ==
    ASSUME AnswersInv, NEW w \in Worker,
           \/ \E type \in {"set", "delete", "clear", "stamp"} : HandleWrite(w, type)
           \/ \E now \in Stamp : HandleInvalidate(w, now)
    PROVE  Serves
<1>0. TypeOK /\ Asked
  BY DEF AnswersInv
<1> PICK m : m = Head(up[w])
  OBVIOUS
<1>1. ASSUME NEW type, Takes(w, type)
      PROVE  m \in UpMsg /\ m.type = type /\ AskedFor(m)
  <2>1. up[w] \in Seq(UpMsg) /\ up[w] # <<>>
    BY <1>0, <1>1 DEF TypeOK, Takes
  <2>2. 1 \in DOMAIN up[w] /\ m = up[w][1] /\ m \in UpMsg
    BY <2>1
  <2> QED
    BY <1>0, <1>1, <2>2 DEF Asked, Takes
<1>2. ASSUME NEW d, Apply(w, d)
      PROVE  Stores(StoreAfter(d, primary))
  BY <1>2 DEF Apply, Stores, clients
<1>3. CASE HandleWrite(w, "set")
  <2>1. m.type = "set" /\ m.key \in Key /\ m.entry \in Written
    BY <1>1, <1>3, UpTypes DEF HandleWrite, AskedFor, Sendable
  <2>2. StoreAfter(m, primary) = [primary EXCEPT ![m.key] = m.entry]
    BY <2>1 DEF StoreAfter
  <2>3. Stores(StoreAfter(m, primary))
    BY <1>2, <1>3 DEF HandleWrite
  <2> QED
    BY <2>1, <2>2, <2>3, StoresWrite
<1>4. CASE HandleWrite(w, "delete")
  <2>1. m.type = "delete" /\ m.key \in Key
    BY <1>1, <1>4, UpTypes DEF HandleWrite
  <2>2. Stores([primary EXCEPT ![m.key] = Absent])
    BY <1>2, <1>4, <2>1 DEF HandleWrite, StoreAfter
  <2> QED
    BY <2>1, <2>2, StoresWrite
<1>5. CASE HandleWrite(w, "clear")
  <2>1. m.type = "clear"
    BY <1>1, <1>5 DEF HandleWrite
  <2>2. Stores(EmptyStore)
    BY <1>2, <1>5, <2>1 DEF HandleWrite, StoreAfter
  <2> QED
    BY <2>2, StoresWrite
<1>6. CASE HandleWrite(w, "stamp")
  <2>1. m.type = "stamp"
    BY <1>1, <1>6 DEF HandleWrite
  <2>2. Stores(primary)
    BY <1>2, <1>6, <2>1 DEF HandleWrite, StoreAfter
  <2> QED
    BY <2>2, SilentStep DEF Stores
<1>7. ASSUME NEW now \in Stamp, HandleInvalidate(w, now)
      PROVE  Serves
  <2>1. m.tag \in Tag
    BY <1>1, <1>7, UpTypes DEF HandleInvalidate
  <2>2. Stores(Invalidated(primary, m.tag))
    <3> PICK d : d = [type |-> "invalidate", tag |-> m.tag, at |-> now]
      OBVIOUS
    <3>1. Stores(StoreAfter(d, primary))
      BY <1>2, <1>7 DEF HandleInvalidate
    <3>2. d.type = "invalidate" /\ d.tag = m.tag
      OBVIOUS
    <3>3. StoreAfter(d, primary) = Invalidated(primary, m.tag)
      BY ONLY <3>2 DEF StoreAfter
    <3> QED
      BY <3>1, <3>3
  <2> QED
    BY <2>1, <2>2, StoresWrite
<1> QED
  BY <1>3, <1>4, <1>5, <1>6, <1>7

\* A record makes its key known, at the expense of others at most.
LEMMA RecordRemembers ==
    ASSUME TypeOK, NEW i \in Idem, NEW o \in Outcome, Record(i, o)
    PROVE  \E old \in SUBSET Known : Known' = (Known \ old) \cup {i}
<1> DEFINE Rec == [idem : Idem, outcome : Outcome]
           new == [idem |-> i, outcome |-> o]
<1>1. dedup \in Seq(Rec) /\ new \in Rec
  BY DEF TypeOK
<1>2. i \in Known' /\ Known' \subseteq Known \cup {i}
  <2>1. ASSUME NEW n \in DOMAIN dedup'
        PROVE  dedup'[n] = new \/ \E k \in DOMAIN dedup : dedup'[n] = dedup[k]
    <3>1. CASE Len(dedup) >= DedupMax
      <4>1. dedup # <<>>
        BY <1>1, <3>1, ReplicationAssumption
      <4>2. Tail(dedup) \in Seq(Rec) /\ dedup' = Append(Tail(dedup), new)
        BY <1>1, <3>1, <4>1, TailType DEF Record
      <4>3. dedup'[n] = new \/ \E k \in DOMAIN Tail(dedup) : dedup'[n] = Tail(dedup)[k]
        BY <1>1, <4>2, AppendOrigin
      <4>4. ASSUME NEW k \in DOMAIN Tail(dedup)
            PROVE  \E l \in DOMAIN dedup : Tail(dedup)[k] = dedup[l]
        BY <1>1, <4>1, TailOrigin
      <4> QED
        BY <4>3, <4>4
    <3>2. CASE ~(Len(dedup) >= DedupMax)
      <4>1. dedup' = Append(dedup, new)
        BY <3>2 DEF Record
      <4> QED
        BY <1>1, <4>1, AppendOrigin
    <3> QED
      BY <3>1, <3>2
  <2>2. Seen(i)'
    BY RecordKeeps
  <2>3. i \in Known'
    BY <2>2 DEF Seen, Known
  <2>4. Known' \subseteq Known \cup {i}
    BY <2>1 DEF Known
  <2> QED
    BY <2>3, <2>4
<1>3. PICK before, after : before = Known /\ after = Known'
  OBVIOUS
<1>4. after = (before \ (before \ after)) \cup {i}
  BY <1>2, <1>3
<1>5. \E old \in SUBSET before : after = (before \ old) \cup {i}
  BY <1>4
<1> QED
  BY <1>3, <1>5

LEMMA RefusedServes ==
    ASSUME TypeOK, NEW w \in Worker, NEW i \in Idem, i = Head(up[w]).idem, HandleRefused(w)
    PROVE  Serves
<1>1. /\ ~Seen(i) /\ ~Incrementable(primary[KeyOf[i]]) /\ Record(i, Failed)
      /\ refused' = refused \cup {i}
      /\ UNCHANGED <<primary, increments, call>>
  BY DEF HandleRefused, clients
<1>2. i \notin Known
  BY <1>1 DEF Seen, Known
<1>3. \E old \in SUBSET Known : Known' = (Known \ old) \cup {i}
  BY <1>1, RecordRemembers DEF Outcome
<1>4. Service!Remember(i)
  BY <1>3 DEF Service!Remember, Known
<1>5. Service!Refuse(i)
  BY <1>1, <1>2, <1>4 DEF Service!Refuse, Service!Incrementable, Incrementable, Known
<1> QED
  BY <1>5 DEF Serves, Service!Next

LEMMA IncrServes ==
    ASSUME AnswersInv, NEW w \in Worker, HandleIncr(w)
    PROVE  Serves
<1>d. /\ TypeOK /\ Takes(w, "incr") /\ refused' = refused /\ call' = call
      /\ \E i, after : /\ i = Head(up[w]).idem /\ ~Seen(i) /\ Incrementable(primary[KeyOf[i]])
                       /\ after = Incremented(primary[KeyOf[i]]) /\ Record(i, after)
                       /\ primary' = [primary EXCEPT ![KeyOf[i]] = after]
                       /\ increments' = [increments EXCEPT ![i] = Append(@, after.val)]
  BY IncrDoes, Zenon DEF AnswersInv
<1>a. PICK i, after : /\ i = Head(up[w]).idem /\ ~Seen(i) /\ Incrementable(primary[KeyOf[i]])
                      /\ after = Incremented(primary[KeyOf[i]]) /\ Record(i, after)
                      /\ primary' = [primary EXCEPT ![KeyOf[i]] = after]
                      /\ increments' = [increments EXCEPT ![i] = Append(@, after.val)]
  BY <1>d, Zenon
<1>1. /\ TypeOK /\ i \in Idem /\ ~Seen(i) /\ Record(i, after)
      /\ primary' = [primary EXCEPT ![KeyOf[i]] = after]
      /\ increments' = [increments EXCEPT ![i] = Append(@, after.val)]
      /\ refused' = refused /\ call' = call
  BY <1>a, <1>d, TakenIncr, Zenon
<1>2. i \notin Known
  BY <1>1 DEF Seen, Known
<1>3. after \in Outcome
  <2>1. primary[KeyOf[i]] \in Slot
    BY <1>1, ReplicationAssumption DEF TypeOK, Store
  <2> QED
    BY <1>a, <2>1, IncrementedType, Zenon DEF Outcome
<1>4. \E old \in SUBSET Known : Known' = (Known \ old) \cup {i}
  BY <1>1, <1>3, RecordRemembers
<1>5. Service!Remember(i)
  BY <1>4 DEF Service!Remember, Known
<1>6. after = Service!Incremented(primary[KeyOf[i]])
  BY <1>a, Zenon DEF Incremented, Service!Incremented
<1>7. Service!Increment(i)
  BY <1>1, <1>a, <1>2, <1>5, <1>6, Zenon DEF Service!Increment, Service!Incrementable, Incrementable, Known
<1> QED
  BY <1>1, <1>7 DEF Serves, Service!Next

LEMMA PrimaryServes ==
    ASSUME AnswersInv, NEW w \in Worker, PrimaryStep(w)
    PROVE  Serves
<1>0. TypeOK
  BY DEF AnswersInv
<1>1. CASE HandleRepeat(w)
  BY <1>1, SilentStep DEF HandleRepeat, clients
<1>2. CASE HandleRefused(w)
  BY <1>0, <1>2, TakenIncr, RefusedServes DEF HandleRefused
<1>3. CASE HandleIncr(w)
  BY <1>3, IncrServes
<1> QED
  BY <1>1, <1>2, <1>3, WriteServes DEF PrimaryStep

\* Dropping the oldest record forgets its key, unless a later record still holds it.
LEMMA ExpireServes ==
    ASSUME TypeOK, DedupExpire
    PROVE  Serves
<1>1. /\ dedup \in Seq([idem : Idem, outcome : Outcome]) /\ dedup # <<>> /\ dedup' = Tail(dedup)
      /\ UNCHANGED <<primary, increments, refused, call>>
  BY DEF TypeOK, DedupExpire, clients
<1>2. PICK i : i = Head(dedup).idem
  OBVIOUS
<1>3. i \in Idem
  <2>a. 1 \in DOMAIN dedup /\ Head(dedup) = dedup[1]
    BY <1>1
  <2>b. dedup[1] \in [idem : Idem, outcome : Outcome]
    BY <1>1, <2>a, ElementType
  <2>1. Head(dedup) \in [idem : Idem, outcome : Outcome]
    BY <2>a, <2>b
  <2> QED
    BY <1>2, <2>1
<1>4. Known' \subseteq Known
  BY <1>1, TailOrigin DEF Known
<1>5. Known \ {i} \subseteq Known'
  <2> SUFFICES ASSUME NEW n \in DOMAIN dedup, dedup[n].idem # i
               PROVE  \E k \in DOMAIN dedup' : dedup'[k].idem = dedup[n].idem
    BY DEF Known
  <2>1. n # 1
    BY <1>1, <1>2
  <2>2. n - 1 \in DOMAIN dedup' /\ dedup'[n - 1] = dedup[n]
    BY <1>1, <2>1
  <2> QED
    BY <2>2
<1>6. Promise' = Promise
  BY <1>1 DEF Promise
<1>7. CASE i \in Known'
  <2>1. Known' = Known
    BY <1>4, <1>5, <1>7
  <2> QED
    BY <1>1, <1>6, <2>1 DEF Serves, Silent
<1>8. CASE i \notin Known'
  <2>1. Known' = Known \ {i}
    BY <1>4, <1>5, <1>8
  <2>2. Service!Forget(i)
    BY <1>1, <1>6, <2>1 DEF Service!Forget, Known, Promise
  <2> QED
    BY <1>3, <2>2 DEF Serves, Service!Next
<1> QED
  BY <1>7, <1>8

LEMMA InitServes == Init => Service!Init
<1> SUFFICES ASSUME Init PROVE Service!Init
  OBVIOUS
<1>1. Known = {} /\ Promise = [c \in Call |-> [st |-> "idle"]]
  BY DEF Init, Known, Promise, Idle
<1> QED
  BY <1>1 DEF Init, Service!Init, Known, Promise

LEMMA NextServes == AnswersInv /\ [Next]_vars => [Service!Next]_(Service!svars)
<1> SUFFICES ASSUME AnswersInv, [Next]_vars PROVE Serves
  BY DEF Serves, Silent, Service!svars, Known, Promise
<1>0. TypeOK
  BY DEF AnswersInv
<1>1. CASE UNCHANGED vars
  BY <1>1, SilentStep DEF vars
<1> QED
  BY <1>0, <1>1, ClientServes, TimerServes, ReceiveServes, LifecycleServes, PrimaryServes,
     ExpireServes DEF Next

\* Whatever crashes, crosses, is retried or answered twice, the cluster is one store changed
\* atomically: an increment is not repeated while its key is remembered, and a caller is told
\* a value only if an increment of its own idempotency key produced it, and a refusal only if
\* one was made (CacheClient's pending promises against CachePrimary's handler of incr).
THEOREM Implements == Spec => ServiceSpec
<1>1. Spec => []AnswersInv
  BY InitAnswers, NextAnswers, PTL DEF Spec
<1> QED
  BY <1>1, InitServes, NextServes, PTL DEF Spec, ServiceSpec, Service!Spec
=============================================================================
