--------------------------- MODULE MCCacheFileStore ---------------------------
EXTENDS CacheFileStore, TLC

CONSTANTS k1, k2, t

\* A small tagged entry and a large one that expires.
MCValues == {[size |-> 1, ttl |-> FALSE, tags |-> {t}], [size |-> 2, ttl |-> TRUE, tags |-> {}]}
KeySymmetry == Permutations(Keys)
=============================================================================
