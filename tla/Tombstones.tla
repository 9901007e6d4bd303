----------------------------- MODULE Tombstones -----------------------------
(***************************************************************************)
(* The store of ended sessions (daemon/tombstone.rs) as operators on its   *)
(* two fields: entries, a map from session id to tombstone, and order, the *)
(* ids as they were inserted, oldest first.  Two structures that every     *)
(* operation must keep in step.  TombstoneStore.tla is its state machine;  *)
(* SessionManager.tla shares the store between requests and the cleaner.   *)
(*                                                                         *)
(* A tombstone is a record with at least the fields id, name and endedAt   *)
(* (ended_at_monotonic, read before the store's lock is taken, so it may   *)
(* lie before the time of the insertion).                                  *)
(***************************************************************************)
EXTENDS SequenceParts, Functions

CONSTANTS
    NoTombstone,          \* what a lookup that finds nothing answers
    TombstoneTTL          \* TOMBSTONE_TTL, in ticks of the clock

Store(entries, order, capacity) ==
    [entries |-> entries, order |-> order, capacity |-> capacity]

EmptyStore(capacity) == Store(<<>>, <<>>, capacity)

Forget(entries, ids) == [id \in DOMAIN entries \ ids |-> entries[id]]

Fresh(tombstone, now) == now - tombstone.endedAt < TombstoneTTL

\* The insertions whose tombstone is there and not too old.
Current(store, now) ==
    {i \in DOMAIN store.order : /\ store.order[i] \in DOMAIN store.entries
                                /\ Fresh(store.entries[store.order[i]], now)}

\* A fault: the purge leaves the expired ids in the insertion order.
PurgeEntriesOnly(store, now) ==
    LET expired == DOMAIN store.order \ Current(store, now)
    IN  Store(Forget(store.entries, {store.order[i] : i \in expired}),
              store.order, store.capacity)

PurgeExpired(store, now) ==
    LET kept == Current(store, now)
    IN  Store(Forget(store.entries, {store.order[i] : i \in DOMAIN store.order \ kept}),
              Selected(store.order, kept), store.capacity)

\* The ids of the k oldest insertions.
Oldest(store, k) == {store.order[i] : i \in 1..k}

\* How many ids the eviction loop pops: the fewest that bring the entries
\* below the capacity, or the whole order when even that does not.
Evicted(store) ==
    LET room(k) == \/ Cardinality(DOMAIN store.entries \ Oldest(store, k)) < store.capacity
                   \/ k = Len(store.order)
    IN  CHOOSE k \in 0..Len(store.order) : room(k) /\ \A n \in 0..(k - 1) : ~room(n)

\* A fault: eviction takes the newest insertion.
MakeRoomNewest(store) ==
    IF \/ store.capacity = 0
       \/ Cardinality(DOMAIN store.entries) < store.capacity THEN store
    ELSE LET last == Len(store.order)
         IN  Store(Forget(store.entries, {store.order[last]}),
                   SubSeq(store.order, 1, last - 1), store.capacity)

MakeRoom(store) ==
    IF store.capacity = 0 THEN store
    ELSE LET k == Evicted(store)
         IN  Store(Forget(store.entries, Oldest(store, k)),
                   Skip(store.order, k), store.capacity)

\* An older tombstone of the same id gives way.
Replace(store, id) ==
    IF id \in DOMAIN store.entries
    THEN Store(Forget(store.entries, {id}),
               Selected(store.order, {i \in DOMAIN store.order : store.order[i] # id}),
               store.capacity)
    ELSE store

\* push_back and insert; a store with no capacity keeps nothing.
Put(store, tombstone) ==
    IF store.capacity = 0 THEN store
    ELSE Store([id \in DOMAIN store.entries \cup {tombstone.id} |->
                  IF id = tombstone.id THEN tombstone ELSE store.entries[id]],
               Append(store.order, tombstone.id), store.capacity)

\* TombstoneStore::insert.
Insert(store, tombstone, now) ==
    Put(MakeRoom(Replace(PurgeExpired(store, now), tombstone.id)), tombstone)

\* get and newest_by_name answer from the purged store.
Get(store, id) ==
    IF id \in DOMAIN store.entries THEN store.entries[id] ELSE NoTombstone

NewestByName(store, name) ==
    LET at == {i \in DOMAIN store.order :
                 /\ store.order[i] \in DOMAIN store.entries
                 /\ store.entries[store.order[i]].name = name}
    IN  IF at = {} THEN NoTombstone
        ELSE store.entries[store.order[CHOOSE i \in at : \A j \in at : j <= i]]
=============================================================================
