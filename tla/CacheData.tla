----------------------------- MODULE CacheData -----------------------------
(***************************************************************************)
(* The data of @orkify/cache as its replication protocol sees it.  A cache *)
(* maps a key to an entry, or to nothing; an entry is a value with a set   *)
(* of tags.  A value is an integer or something incr refuses (Text).  Byte *)
(* sizes, LRU eviction and expiry are left out: no message reports them.   *)
(***************************************************************************)
EXTENDS Naturals

CONSTANTS Key,      \* cache keys
          Tag,      \* tags
          Absent,   \* "no entry under this key"
          Text      \* a value that is not a number

Value == Nat \cup {Text}
Entry == [val : Value, tags : SUBSET Tag]

ASSUME DataAssumption == Text \notin Nat /\ Absent \notin Entry

Slot  == Entry \cup {Absent}
Store == [Key -> Slot]
Stamps == [Tag -> Nat]      \* 0: the tag was never invalidated

\* CacheStore.clear()
EmptyStore  == [k \in Key |-> Absent]
EmptyStamps == [t \in Tag |-> 0]

Tagged(slot, t) == slot # Absent /\ t \in slot.tags

\* CacheStore.invalidateTag(): every entry that carries the tag is dropped.
Invalidated(store, t) ==
    [k \in Key |-> IF Tagged(store[k], t) THEN Absent ELSE store[k]]

\* CacheStore.incr(): refuses an existing value that is not an integer, ...
Incrementable(slot) == slot # Absent => slot.val \in Nat

\* ... starts a missing key at delta, and otherwise keeps the entry's tags.
Incremented(slot) ==
    IF slot = Absent THEN [val |-> 1, tags |-> {}]
                     ELSE [slot EXCEPT !.val = @ + 1]
=============================================================================
