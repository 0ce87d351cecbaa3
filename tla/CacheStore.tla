------------------------------ MODULE CacheStore ------------------------------
(***************************************************************************)
(* CacheStore: the entries a process keeps in memory, with the bytes and   *)
(* the tags it counts, as operators from store to store.  An operation     *)
(* that evicts has several results where entries are equally old (the code *)
(* takes the one first inserted); each names the entries it evicted.       *)
(***************************************************************************)
EXTENDS Integers, FiniteSets, FiniteSetsExt

CONSTANTS Keys, Tags,
          Sizes,          \* sizes in bytes of a value
          MaxEntries,     \* config.maxEntries
          MaxMemorySize,  \* config.maxMemorySize
          None            \* "no entry"

ASSUME StoreAssumption ==
    /\ Sizes \subseteq Nat \ {0}
    /\ MaxEntries \in Nat \ {0} /\ MaxMemorySize \in Nat

\* Of a value only its size counts, and which write it is from.
EmptyMemory == [entries |-> [k \in Keys |-> None], totalBytes |-> 0, tagIndex |-> [t \in Tags |-> {}]]

Present(m) == {k \in Keys : m.entries[k] # None}
Bytes(m, S) == MapThenSumSet(LAMBDA k : m.entries[k].size, S)

Expired(e, now) == e.expiresAt # None /\ e.expiresAt < now

Untagged(index, S) == [t \in Tags |-> index[t] \ S]
Retagged(index, k, tags) == [t \in Tags |-> IF t \in tags THEN index[t] \cup {k} ELSE index[t]]

\* delete(), removeEntry()
Without(m, S) ==
    [entries |-> [k \in Keys |-> IF k \in S THEN None ELSE m.entries[k]],
     totalBytes |-> m.totalBytes - Bytes(m, S),
     tagIndex |-> Untagged(m.tagIndex, S)]

Touched(m, k, now) == [m EXCEPT !.entries[k].lastAccessedAt = now]

\* invalidateTag() goes by the index.
TaggedKeys(m, t) == m.tagIndex[t] \cap Present(m)
----------------------------------------------------------------------------
(* Eviction: the oldest go, one by one, until the limits are kept. *)

OverLimit(m, pendingEntries, pendingBytes) ==
    \/ Cardinality(Present(m)) + pendingEntries > MaxEntries
    \/ m.totalBytes + pendingBytes > MaxMemorySize

OldestFirst(m, S) ==
    \A k \in S, j \in Present(m) \ S : m.entries[k].lastAccessedAt <= m.entries[j].lastAccessedAt

Evictions(m, over(_)) ==
    {S \in SUBSET Present(m) :
        /\ OldestFirst(m, S)
        /\ over(Without(m, S)) => S = Present(m)
        /\ S # {} => \E last \in S : OldestFirst(m, S \ {last}) /\ over(Without(m, S \ {last}))}

\* set(): the old entry's bytes and tags go first, but the entry itself stays where eviction
\* may find it.
Overwritten(m, k) ==
    IF k \in Present(m) THEN [m EXCEPT !.totalBytes = @ - m.entries[k].size,
                                       !.tagIndex = Untagged(@, {k})]
    ELSE m

Put(m, k, e) ==
    [entries |-> [m.entries EXCEPT ![k] = e],
     totalBytes |-> m.totalBytes + e.size,
     tagIndex |-> Retagged(m.tagIndex, k, e.tags)]

PendingEntries(m, k) == IF k \in Present(m) THEN 0 ELSE 1

SetResults(m, k, e) ==
    LET base == Overwritten(m, k)
        over(n) == OverLimit(n, PendingEntries(m, k), e.size)
    IN {[memory |-> Put(Without(base, S), k, e), evicted |-> S] : S \in Evictions(base, over)}

Overgrown(m) == m.totalBytes > MaxMemorySize

\* incr() of an entry that is there: its tags and expiry stay.
IncrResults(m, k, size, write, now) ==
    LET e == [m.entries[k] EXCEPT !.size = size, !.write = write, !.lastAccessedAt = now]
        grown == [m EXCEPT !.entries[k] = e, !.totalBytes = @ + size - m.entries[k].size]
    IN {[memory |-> Without(grown, S), evicted |-> S, entry |-> e] : S \in Evictions(grown, Overgrown)}
=============================================================================
