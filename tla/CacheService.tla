---------------------------- MODULE CacheService ----------------------------
(***************************************************************************)
(* What the shared cache promises, without workers, messages or retries:   *)
(* one store, changed atomically.  An increment takes effect at most once  *)
(* for each idempotency key while the key is remembered, and a caller that *)
(* is told a value is told one that an increment of its own key produced.  *)
(***************************************************************************)
EXTENDS CacheData, Sequences

CONSTANTS Call, Idem, KeyOf, Written, Restored

VARIABLES store,      \* the cache
          increments, \* the values produced for each idempotency key, in order
          known,      \* idempotency keys that will not be applied again
          refused,    \* keys whose increment was ever refused
          promise     \* what each caller was told

svars == <<store, increments, known, refused, promise>>

Init ==
    /\ store \in Restored
    /\ increments = [i \in Idem |-> <<>>]
    /\ known = {}
    /\ refused = {}
    /\ promise = [c \in Call |-> [st |-> "idle"]]

WriteStore(new) ==
    /\ store' = new
    /\ UNCHANGED <<increments, known, refused, promise>>

Write ==
    \/ \E k \in Key, e \in Written \cup {Absent} : WriteStore([store EXCEPT ![k] = e])
    \/ WriteStore(EmptyStore)
    \/ \E t \in Tag : WriteStore(Invalidated(store, t))

\* Remember a key, perhaps at the expense of others.
Remember(i) == \E old \in SUBSET known : known' = (known \ old) \cup {i}

Increment(i) ==
    LET after == Incremented(store[KeyOf[i]])
    IN /\ i \notin known
       /\ Incrementable(store[KeyOf[i]])
       /\ store' = [store EXCEPT ![KeyOf[i]] = after]
       /\ increments' = [increments EXCEPT ![i] = Append(@, after.val)]
       /\ Remember(i)
       /\ UNCHANGED <<refused, promise>>

Refuse(i) ==
    /\ i \notin known
    /\ ~Incrementable(store[KeyOf[i]])
    /\ Remember(i)
    /\ refused' = refused \cup {i}
    /\ UNCHANGED <<store, increments, promise>>

Forget(i) ==
    /\ known' = known \ {i}
    /\ UNCHANGED <<store, increments, refused, promise>>

Ask(c, i) ==
    /\ promise[c].st = "idle"
    /\ promise' = [promise EXCEPT ![c] = [st |-> "waiting", idem |-> i]]
    /\ UNCHANGED <<store, increments, known, refused>>

Produced(i) == {increments[i][n] : n \in DOMAIN increments[i]}

\* A caller learns a value of its own key, or that it was refused, or nothing at all.
Tell(c) ==
    /\ promise[c].st = "waiting"
    /\ LET i == promise[c].idem
       IN \/ \E v \in Produced(i) :
                promise' = [promise EXCEPT ![c] = [st |-> "resolved", idem |-> i, value |-> v]]
          \/ /\ i \in refused
             /\ promise' = [promise EXCEPT ![c] = [st |-> "rejected", idem |-> i]]
          \/ promise' = [promise EXCEPT ![c] = [st |-> "exhausted", idem |-> i]]
    /\ UNCHANGED <<store, increments, known, refused>>

\* The worker processes of some callers die.
Lose ==
    /\ \E gone \in SUBSET {c \in Call : promise[c].st = "waiting"} :
          promise' = [c \in Call |-> IF c \in gone
                                     THEN [st |-> "lost", idem |-> promise[c].idem]
                                     ELSE promise[c]]
    /\ UNCHANGED <<store, increments, known, refused>>

Next ==
    \/ Write
    \/ \E i \in Idem : Increment(i) \/ Refuse(i) \/ Forget(i)
    \/ \E c \in Call : \E i \in Idem : Ask(c, i)
    \/ \E c \in Call : Tell(c)
    \/ Lose

Spec == Init /\ [][Next]_svars
=============================================================================
