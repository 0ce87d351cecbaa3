---------------------------- MODULE CacheFileStore ----------------------------
(***************************************************************************)
(* CacheFileStore: a CacheStore in memory whose evicted entries are        *)
(* written to files, with an index of them that is itself saved to a file, *)
(* through exits and restarts of the process.                              *)
(*                                                                         *)
(* Calls are synchronous; what they start on the disk is under way in jobs *)
(* and goes on in any order: a write (its directory, then its file), the   *)
(* unlink of a file, a read, the load of the index; saves of the index are *)
(* chained.  Two jobs alike are one.                                       *)
(*                                                                         *)
(* The store is that of a fork, which flushes it when it exits, or that of *)
(* a cluster's primary.  The latter is a plain CacheStore, saved to one    *)
(* file (CachePersistence), until a worker's configuration, which is the   *)
(* first thing it sends, asks for the disk; it is persisted only when the  *)
(* daemon is killed, while the workers go on.                              *)
(***************************************************************************)
EXTENDS CacheStore

CONSTANTS Values,       \* what may be set: a size, whether it expires, tags
          CounterSizes, \* sizes a counter may have
          MaxWrites,    \* bound on writes
          MaxCalls,     \* bound on all calls together, and the ends of the process
          MaxBusy,      \* calls come while at most so much is under way on the disk
          MaxClock      \* bound on the clock

ASSUME FileStoreAssumption ==
    /\ Values \subseteq [size : Sizes, ttl : BOOLEAN, tags : SUBSET Tags]
    /\ CounterSizes \subseteq Sizes
    /\ MaxWrites \in Nat /\ MaxCalls \in Nat /\ MaxBusy \in Nat /\ MaxClock \in Nat

VARIABLES memory,       \* the CacheStore
          diskIndex,    \* metadata of the entries on disk
          diskTagIndex,
          stamps,       \* when each tag was last invalidated
          indexDirty,
          files,        \* the entries' files
          indexFile,    \* the index file, with the stamps it holds
          jobs,         \* what is under way on the disk
          saves,        \* saves of the index in the chain
          saving,       \* what the first of them is writing
          cluster,      \* is the store a primary's?
          plain,        \* does it do without the disk?
          persisting,   \* persist(): "no", "writing" the entries, "saving" the index
          snapshot,     \* what CachePersistence has saved
          clock, writes, count,
          current,      \* history: the last entry set for each key, unless it was removed
          raced,        \* history: keys changed or evicted while the disk was busy with them
          drifted       \* history: set() evicted the entry it was replacing

disk == <<diskIndex, diskTagIndex, indexDirty>>
persisted == <<files, indexFile>>
chain == <<saves, saving>>
owner == <<cluster, plain, persisting, snapshot>>
history == <<current, raced, drifted>>
vars == <<memory, disk, stamps, persisted, jobs, chain, owner, clock, writes, count, history>>

Job(op, key, at, entry) == [op |-> op, key |-> key, at |-> at, entry |-> entry]
BusyWith(k) == persisting # "no" \/ \E j \in jobs : j.key = k \/ j.op = "load"

NoStamps == [t \in Tags |-> 0]
NoIndex == [entries |-> [k \in Keys |-> None], stamps |-> NoStamps]

Init ==
    /\ memory = EmptyMemory
    /\ diskIndex = [k \in Keys |-> None] /\ diskTagIndex = [t \in Tags |-> {}]
    /\ stamps = NoStamps
    /\ indexDirty = FALSE
    /\ files = [k \in Keys |-> None] /\ indexFile = NoIndex
    /\ jobs = {} /\ saves = 0 /\ saving = None
    /\ cluster \in BOOLEAN /\ plain \in {FALSE, cluster}
    /\ persisting = "no" /\ snapshot = None
    /\ clock = 1 /\ writes = 0 /\ count = 0
    /\ current = [k \in Keys |-> None] /\ raced = {} /\ drifted = FALSE
----------------------------------------------------------------------------
(* The disk, as calls and jobs change it. *)

\* persistIndex() of an index just made dirty: one more save in the chain.
PersistUnlessSaving == indexDirty' = FALSE /\ saves' = IF saving # None THEN saves ELSE saves + 1
Persist == indexDirty' = FALSE /\ saves' = saves + 1

\* removeDiskMeta()
ForgetMeta(S) ==
    /\ diskIndex' = [k \in Keys |-> IF k \in S THEN None ELSE diskIndex[k]]
    /\ diskTagIndex' = Untagged(diskTagIndex, S)

OnDisk(S) == {k \in S : diskIndex[k] # None}
NoFile(S) == {k \in OnDisk(S) : files[k] = None}
Unlinks(S) == {Job("unlink", k, "file", None) : k \in OnDisk(S) \ NoFile(S)}

\* Evicted entries as they were; an expired or deleted one is not written.
Spills(m, S) == IF plain THEN {} ELSE {Job("write", k, "dir", m.entries[k]) : k \in S}

\* What is evicted from a plain store is gone.
Forgotten(cur, evicted) == [k \in Keys |-> IF plain /\ k \in evicted THEN None ELSE cur[k]]

\* deleteFromDisk() of those in the index, up to its await, or where there is no file to its
\* end.
DropsFromDisk(S, started) ==
    /\ ForgetMeta(OnDisk(S))
    /\ saves' = saves + Cardinality(NoFile(S))
    /\ indexDirty' = (Unlinks(S) # {} \/ (NoFile(S) = {} /\ indexDirty))
    /\ jobs' = jobs \cup started \cup Unlinks(S)

MayCall == Cardinality(jobs) + saves <= MaxBusy /\ writes + count < MaxCalls
Writes == MayCall /\ writes < MaxWrites /\ writes' = writes + 1
Counts == MayCall /\ count' = count + 1 /\ UNCHANGED writes
Still == UNCHANGED <<persisted, saving, owner, clock>>

Races(S) == raced' = raced \cup {k \in S : BusyWith(k)} /\ UNCHANGED drifted

\* An eviction may meet work on the evicted key, or be of the very entry being replaced.
RacesEvicting(k, evicted) ==
    /\ raced' = raced \cup {j \in {k} \cup evicted : BusyWith(j)} \cup ({k} \cap evicted)
    /\ drifted' = (drifted \/ k \in evicted)
----------------------------------------------------------------------------
(* Calls. *)

\* set(), applySet(): a write is known by its number.
NewEntry(v) ==
    [write |-> writes + 1, size |-> v.size, tags |-> v.tags, lastAccessedAt |-> clock,
     expiresAt |-> IF v.ttl THEN clock ELSE None]

DropsOldKeeps(k) == {}
DropsOld(k) == {k}

Set(k, v) ==
    /\ Writes
    /\ LET e == NewEntry(v)
       IN /\ \E r \in SetResults(memory, k, e) :
                /\ memory' = r.memory
                /\ DropsFromDisk(DropsOld(k), Spills(memory, r.evicted))
                /\ RacesEvicting(k, r.evicted)
                /\ current' = [Forgotten(current, r.evicted) EXCEPT ![k] = e]
    /\ UNCHANGED <<stamps, count>> /\ Still

\* incr(): an entry that is only on disk counts as none.
Incr(k, size) ==
    /\ Writes
    /\ LET there == k \in Present(memory) /\ ~Expired(memory.entries[k], clock)
           base == IF k \in Present(memory) /\ ~there THEN Without(memory, {k}) ELSE memory
           e == NewEntry([size |-> size, ttl |-> FALSE, tags |-> {}])
           results == IF there THEN IncrResults(memory, k, size, writes + 1, clock)
                      ELSE {[memory |-> r.memory, evicted |-> r.evicted, entry |-> e] :
                                r \in SetResults(base, k, e)}
       IN \E r \in results :
             /\ memory' = r.memory
             /\ current' = Forgotten([current EXCEPT ![k] = r.entry], r.evicted)
             /\ DropsFromDisk(IF k \in Present(memory) THEN {} ELSE {k},
                              Spills([base EXCEPT !.entries[k] = r.entry], r.evicted))
             /\ Races({k} \cup r.evicted)
    /\ UNCHANGED <<stamps, count>> /\ Still

\* delete(), applyDelete()
Delete(k) ==
    /\ Counts
    /\ memory' = Without(memory, {k} \cap Present(memory))
    /\ DropsFromDisk({k}, {})
    /\ current' = [current EXCEPT ![k] = None]
    /\ Races({k})
    /\ UNCHANGED stamps /\ Still

\* get(), has(): an expired entry goes, from the disk only by has().
Look(k) ==
    /\ Counts
    /\ \/ /\ k \in Present(memory)
          /\ memory' = IF Expired(memory.entries[k], clock) THEN Without(memory, {k})
                       ELSE Touched(memory, k, clock)
          /\ UNCHANGED <<disk, jobs, saves>>
       \/ /\ k \notin Present(memory) /\ k \in OnDisk({k}) /\ Expired(diskIndex[k], clock)
          /\ DropsFromDisk({k}, {})
          /\ UNCHANGED memory
    /\ UNCHANGED <<stamps, history>> /\ Still

InvalidateTag(t) ==
    /\ Counts
    /\ memory' = Without(memory, TaggedKeys(memory, t))
    /\ stamps' = [stamps EXCEPT ![t] = clock]
    /\ DropsFromDisk(diskTagIndex[t], {})
    /\ LET gone == {k \in Keys : current[k] # None /\ t \in current[k].tags}
       IN current' = [k \in Keys |-> IF k \in gone THEN None ELSE current[k]] /\ Races(gone)
    /\ Still

Clear ==
    /\ Counts
    /\ memory' = EmptyMemory
    /\ stamps' = NoStamps
    /\ ForgetMeta(Keys)
    /\ jobs' = jobs \cup Unlinks(Keys)
    /\ indexDirty' = FALSE
    /\ saves' = IF plain THEN saves ELSE saves + Cardinality(NoFile(Keys)) + 1
    /\ current' = [k \in Keys |-> None]
    /\ Races(Keys)
    /\ Still

\* getAsync() of an entry that is not in memory.
StartRead(k) ==
    /\ Counts
    /\ k \in Present(memory) => Expired(memory.entries[k], clock)
    /\ memory' = Without(memory, {k} \cap Present(memory))
    /\ ~\E j \in jobs : j.op = "load"
    /\ diskIndex[k] # None
    /\ jobs' = jobs \cup {Job("read", k, "file", None)}
    /\ UNCHANGED <<disk, saves, stamps, history>> /\ Still

\* The sweeps of memory and disk.
SweepMemory ==
    LET S == {k \in Present(memory) : Expired(memory.entries[k], clock)}
    IN /\ S # {}
       /\ memory' = Without(memory, S)
       /\ DropsFromDisk(S, {})
       /\ UNCHANGED <<stamps, writes, count, history>> /\ Still

SweepDisk(k) ==
    /\ k \in OnDisk({k}) /\ Expired(diskIndex[k], clock)
    /\ DropsFromDisk({k}, {})
    /\ UNCHANGED <<memory, stamps, writes, count, history>> /\ Still
----------------------------------------------------------------------------
(* Jobs. *)

Goes(j, op, at) == j \in jobs /\ j.op = op /\ j.at = at
Leaves(j) == jobs' = jobs \ {j}
NoCall == UNCHANGED <<owner, clock, writes, count>>

OnFile(e, now) == [write |-> e.write, size |-> e.size, tags |-> e.tags, expiresAt |-> e.expiresAt,
                   timestamp |-> now]

\* writeToDisk(): the time is taken when the directory is there.
WriteGoesOn(j) ==
    /\ Goes(j, "write", "dir")
    /\ jobs' = (jobs \ {j}) \cup {[j EXCEPT !.at = "file", !.entry = OnFile(j.entry, clock)]}
    /\ UNCHANGED <<memory, disk, stamps, persisted, chain, history>> /\ NoCall

\* Another write of this key uses the same temporary file: one of the two may fail.
WriteEnds(j) ==
    /\ Goes(j, "write", "file")
    /\ Leaves(j)
    /\ \/ /\ files' = [files EXCEPT ![j.key] = j.entry]
          /\ diskIndex' = [diskIndex EXCEPT ![j.key] = j.entry]
          /\ diskTagIndex' = Retagged(diskTagIndex, j.key, j.entry.tags)
          /\ Persist
       \/ /\ \E i \in jobs \ {j} : i.op = "write" /\ i.key = j.key
          /\ UNCHANGED <<files, disk, saves>>
    /\ UNCHANGED <<memory, stamps, indexFile, saving, history>> /\ NoCall

UnlinkEnds(j) ==
    /\ Goes(j, "unlink", "file")
    /\ Leaves(j)
    /\ files' = [files EXCEPT ![j.key] = None]
    /\ UNCHANGED <<diskIndex, diskTagIndex>> /\ Persist
    /\ UNCHANGED <<memory, stamps, indexFile, saving, history>> /\ NoCall

ReadGoesOn(j) ==
    /\ Goes(j, "read", "file")
    /\ jobs' = (jobs \ {j}) \cup {[j EXCEPT !.at = "done", !.entry = files[j.key]]}
    /\ UNCHANGED <<memory, disk, stamps, persisted, chain, history>> /\ NoCall

TagExpiration(tags) == Max({0} \cup {stamps[t] : t \in tags})

StaleEqual(e) == TagExpiration(e.tags) >= e.timestamp
Stale(e) == TagExpiration(e.tags) > e.timestamp

\* Back in memory, the entry counts as set now; the index forgets it, the file stays.
Promoted(e) == [write |-> e.write, size |-> e.size, tags |-> e.tags, lastAccessedAt |-> clock,
                expiresAt |-> e.expiresAt]

ReadEnds(j) ==
    /\ Goes(j, "read", "done")
    /\ LET k == j.key
           e == j.entry
       IN IF e = None
          THEN /\ Leaves(j) /\ ForgetMeta({k}) /\ indexDirty' = (indexDirty \/ diskIndex[k] # None)
               /\ UNCHANGED <<memory, saves, raced, drifted>>
          ELSE IF Expired(e, clock) \/ Stale(e)
          THEN /\ ForgetMeta({k})
               /\ indexDirty' = (Unlinks({k}) # {} \/ (NoFile({k}) = {} /\ indexDirty))
               /\ saves' = saves + Cardinality(NoFile({k}))
               /\ jobs' = (jobs \ {j}) \cup Unlinks({k})
               /\ UNCHANGED <<memory, raced, drifted>>
          ELSE \E r \in SetResults(memory, k, Promoted(e)) :
               /\ memory' = r.memory
               /\ jobs' = (jobs \ {j}) \cup Spills(memory, r.evicted)
               /\ ForgetMeta({k}) /\ indexDirty' = (indexDirty \/ diskIndex[k] # None)
               /\ RacesEvicting(k, r.evicted)
               /\ UNCHANGED saves
    /\ UNCHANGED <<stamps, persisted, saving, current>> /\ NoCall

SaveGoesOn ==
    /\ saves > 0 /\ saving = None
    /\ saving' = [entries |-> diskIndex, stamps |-> stamps]
    /\ UNCHANGED <<memory, disk, stamps, persisted, jobs, saves, history>> /\ NoCall

\* What changed meanwhile is saved again.
SaveEnds ==
    /\ saving # None
    /\ indexFile' = saving
    /\ saving' = None
    /\ saves' = IF indexDirty THEN saves ELSE saves - 1
    /\ indexDirty' = FALSE
    /\ UNCHANGED <<memory, diskIndex, diskTagIndex, stamps, files, jobs, history>> /\ NoCall

\* loadIndex(): what it read replaces the index as it is by then.
LoadGoesOn(j) ==
    /\ Goes(j, "load", "file")
    /\ jobs' = (jobs \ {j}) \cup {[j EXCEPT !.at = "done", !.entry = indexFile]}
    /\ UNCHANGED <<memory, disk, stamps, persisted, chain, history>> /\ NoCall

LoadEnds(j) ==
    /\ Goes(j, "load", "done")
    /\ Leaves(j)
    /\ diskIndex' = [k \in Keys |-> IF j.entry.entries[k] = None THEN None
                                    ELSE IF Expired(j.entry.entries[k], clock) THEN None
                                    ELSE j.entry.entries[k]]
    /\ diskTagIndex' = [t \in Tags |-> {k \in Keys : diskIndex'[k] # None /\ t \in diskIndex'[k].tags}]
    /\ stamps' = [t \in Tags |-> IF j.entry.stamps[t] # 0 THEN j.entry.stamps[t] ELSE stamps[t]]
    /\ UNCHANGED <<memory, indexDirty, persisted, chain, history>> /\ NoCall
----------------------------------------------------------------------------
(* The process ends and starts again. *)

Live == {k \in Present(memory) : ~Expired(memory.entries[k], clock)}

\* A store is made anew: a fork's, or the primary's of an app configured with or without the
\* disk, with what CachePersistence has for it.  A primary's own index is loaded only when the
\* first configuration comes, before which nothing is asked of the store.
Reset(e) == [e EXCEPT !.lastAccessedAt = clock]
Loaded(saved) ==
    LET lives(e) == e # None /\ (e.expiresAt = None \/ e.expiresAt > clock)
        there == {k \in Keys : lives(saved.entries[k])}
        entries == [k \in Keys |-> IF k \in there THEN Reset(saved.entries[k]) ELSE None]
    IN [entries |-> entries,
        totalBytes |-> MapThenSumSet(LAMBDA k : entries[k].size, there),
        tagIndex |-> [t \in Tags |-> {k \in there : t \in entries[k].tags}]]

Anew(saved) ==
    /\ snapshot' = saved
    /\ plain' \in {FALSE, cluster}
    /\ memory' = IF saved = None THEN EmptyMemory ELSE Loaded(saved)
    /\ stamps' = IF saved = None THEN NoStamps ELSE saved.stamps
    /\ diskIndex' = [k \in Keys |-> None] /\ diskTagIndex' = [t \in Tags |-> {}]
    /\ indexDirty' = FALSE /\ saves' = 0 /\ saving' = None
    /\ jobs' = IF plain' THEN {} ELSE {Job("load", None, "file", None)}
    /\ persisting' = "no"
    /\ UNCHANGED <<cluster, clock, drifted>>

\* What is on disk for keys the next store does not ask for there is out of date later.
Overlooked == IF plain' THEN {k \in Keys : indexFile'.entries[k] # None} ELSE {}

\* flushSync(), when a fork exits: an empty memory is not worth an index.
FlushedIndex ==
    [k \in Keys |-> IF k \in Live THEN OnFile(memory.entries[k], clock) ELSE diskIndex[k]]

Restart ==
    /\ ~cluster /\ Counts
    /\ files' = [k \in Keys |-> IF k \in Live THEN OnFile(memory.entries[k], clock) ELSE files[k]]
    /\ indexFile' = IF Live # {} THEN [entries |-> FlushedIndex, stamps |-> stamps] ELSE indexFile
    /\ Anew(snapshot)
    /\ raced' = raced \cup {k \in Keys : BusyWith(k)}
                      \cup (IF Live = {} THEN {k \in Keys : indexFile.entries[k] # diskIndex[k]} ELSE {})
    /\ UNCHANGED current

\* persist() of a primary: flush() writes what is in memory (the writes, one after the other
\* in the code, start together here), and saves the index; then the workers are told to stop.
Persists ==
    /\ cluster /\ ~plain /\ persisting = "no" /\ Counts
    /\ persisting' = "writing"
    /\ jobs' = jobs \cup Spills(memory, Live)
    /\ Races(IF \E j \in jobs : j.op = "load" THEN Keys ELSE Live)
    /\ UNCHANGED <<memory, disk, stamps, persisted, chain, cluster, plain, snapshot, clock, current>>

Flushed ==
    /\ persisting = "writing" /\ ~\E j \in jobs : j.op = "write"
    /\ persisting' = "saving"
    /\ Persist
    /\ UNCHANGED <<memory, diskIndex, diskTagIndex, stamps, persisted, saving, jobs, cluster, plain,
                   snapshot, clock, writes, count, history>>

\* clear()
PersistEnds ==
    /\ persisting = "saving" /\ saves = 0
    /\ UNCHANGED persisted /\ Anew(None)
    /\ raced' = raced \cup Overlooked \cup {k \in Keys : \E j \in jobs : j.key = k \/ j.op = "load"}
    /\ UNCHANGED <<writes, count, current>>

\* persist() of a plain store: save(), by way of a temporary file.  An entry in its last
\* millisecond is not loaded.
PersistsPlain ==
    /\ cluster /\ plain /\ Counts
    /\ UNCHANGED persisted
    /\ Anew([entries |-> [k \in Keys |-> IF k \in Live THEN memory.entries[k] ELSE None],
             stamps |-> stamps])
    /\ raced' = raced \cup Overlooked
    /\ current' = [k \in Keys |-> IF k \in Present(memory) \ Present(memory') THEN None ELSE current[k]]

\* The process ends without: what is in memory is lost, what is under way on the disk, and
\* what CachePersistence holds is as old as it is.
Dies ==
    /\ Counts
    /\ UNCHANGED persisted /\ Anew(snapshot)
    /\ current' = [k \in Keys |-> IF k \in Present(memory) THEN None ELSE current[k]]
    /\ raced' = raced \cup Overlooked
                      \cup {k \in Keys : \/ BusyWith(k)
                                         \/ ~plain /\ indexFile.entries[k] # diskIndex[k]
                                         \/ snapshot # None /\ snapshot.entries[k] # None}

Tick ==
    /\ clock < MaxClock /\ clock' = clock + 1
    /\ UNCHANGED <<memory, disk, stamps, persisted, jobs, chain, owner, writes, count, history>>

Calls ==
    \/ \E k \in Keys, v \in Values : Set(k, v)
    \/ \E k \in Keys, size \in CounterSizes : Incr(k, size)
    \/ \E k \in Keys : Delete(k) \/ Look(k) \/ StartRead(k) \/ SweepDisk(k)
    \/ \E t \in Tags : InvalidateTag(t)
    \/ Clear \/ SweepMemory

Jobs ==
    \/ \E j \in jobs :
          \/ WriteGoesOn(j) \/ WriteEnds(j) \/ UnlinkEnds(j)
          \/ ReadGoesOn(j) \/ ReadEnds(j) \/ LoadGoesOn(j) \/ LoadEnds(j)
    \/ SaveGoesOn \/ SaveEnds

Ends == Restart \/ Persists \/ Flushed \/ PersistEnds \/ PersistsPlain \/ Dies

Next == Calls \/ Jobs \/ Ends \/ Tick
Spec == Init /\ [][Next]_vars
----------------------------------------------------------------------------
(* Properties. *)

\* The latest entry of k, as it is in e.
IsCurrent(k, e) == current[k] # None /\ e.write = current[k].write

\* A read never finds a value that was overwritten, deleted or invalidated, in memory or, by
\* way of evictions, promotions and restarts, on disk (CacheFileStore.ts:108-127, 155-168).
\* Excepted are keys changed while the disk was busy with them, and a set() that evicts the
\* entry it replaces.
NoStaleRead ==
    \A k \in Keys \ raced :
        /\ k \in Present(memory) => IsCurrent(k, memory.entries[k])
        /\ \A j \in jobs : j.op = "write" /\ j.key = k => IsCurrent(k, j.entry)
        /\ LET f == files[k]
           IN k \notin Present(memory) /\ diskIndex[k] # None /\ f # None =>
                  Expired(f, clock) \/ Stale(f) \/ IsCurrent(k, f)

OnDiskNow(k) ==
    /\ diskIndex[k] # None /\ files[k] # None
    /\ IsCurrent(k, files[k]) /\ ~Stale(files[k])

ComesBack(k) ==
    \E j \in jobs : j.op = "load" /\ indexFile.entries[k] # None /\ IsCurrent(k, files[k])

\* An entry is never lost between the tiers: until it expires or is removed it is in memory,
\* on its way to disk, or indexed there (CacheClient.ts:83: "all entries ... survive
\* restarts"), with the same exceptions.
NothingLost ==
    \A k \in Keys \ raced : current[k] # None /\ ~Expired(current[k], clock) =>
        \/ k \in Present(memory)
        \/ \E j \in jobs : j.op = "write" /\ j.key = k
        \/ OnDiskNow(k) \/ ComesBack(k)

\* The indexes by tag, which invalidation goes by, say what the entries say
\* (CacheStore.ts:327-358, CacheFileStore.ts:439-452, 485-499).
TagsExact ==
    \A t \in Tags, k \in Keys :
        /\ k \in memory.tagIndex[t] <=> k \in Present(memory) /\ t \in memory.entries[k].tags
        /\ k \notin raced => (k \in diskTagIndex[t] <=> diskIndex[k] # None /\ t \in diskIndex[k].tags)

\* The limits of README.md:177-178 hold of what is really there, a single entry too large for
\* them excepted, unless set() ever counted an entry out twice (CacheStore.ts:68, 320).
WithinLimits ==
    /\ Cardinality(Present(memory)) <= MaxEntries
    /\ ~drifted => /\ memory.totalBytes = Bytes(memory, Present(memory))
                   /\ memory.totalBytes <= MaxMemorySize \/ Cardinality(Present(memory)) = 1

\* When no save is due, the index file is the index: what a restart will find.  Only the
\* promotion of an entry leaves a change unsaved (CacheFileStore.ts:138).
IndexSaved ==
    ~indexDirty /\ saves = 0 /\ ~(\E j \in jobs : j.op = "load") =>
        \A k \in Keys \ raced :
            \/ indexFile.entries[k] = diskIndex[k]
            \/ diskIndex[k] = None /\ Expired(indexFile.entries[k], clock)

\* What the store keeps about its entries is what looking at them would tell: the indexes by
\* tag, the total of bytes, the saved index (CacheStore.ts:299-358, CacheFileStore.ts:512-542).
Bookkeeping == TagsExact /\ WithinLimits /\ IndexSaved
=============================================================================
