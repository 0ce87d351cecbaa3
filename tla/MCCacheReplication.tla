------------------------ MODULE MCCacheReplication ------------------------
(* A worker that is there from the start, one that joins later; one key, one tag;
   the primary restores a value that cannot be incremented. *)
EXTENDS CacheReplication

CONSTANTS w1, w2, k1, t1, c1, c2, i1, i2

MCInitial  == {w1}
MCKeyOf    == [i \in Idem |-> k1]
MCWritten  == {[val |-> 0, tags |-> {t1}]}
MCRestored == {[k \in Key |-> [val |-> Text, tags |-> {t1}]]}
=============================================================================
