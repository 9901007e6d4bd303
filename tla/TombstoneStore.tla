--------------------------- MODULE TombstoneStore ---------------------------
(***************************************************************************)
(* One TombstoneStore over time: tombstones arrive, possibly some time     *)
(* after their session ended and out of that order; lookups and the        *)
(* cleaner's periodic purge interleave with the passing of time.           *)
(***************************************************************************)
EXTENDS Tombstones

CONSTANTS
    Ids,         \* session ids
    Names,       \* session names
    Capacities,  \* capacities a store may be created with
    MaxTime      \* bound: last tick of the clock

ASSUME TombstoneStoreAssumption ==
    /\ Capacities \subseteq Nat /\ MaxTime \in Nat
    /\ Ids # {} /\ Names # {}

VARIABLES
    store,       \* the TombstoneStore
    now,         \* the monotonic clock
    answer       \* what the last lookup answered

vars == <<store, now, answer>>

TombstoneRecord == [id : Ids, name : Names, endedAt : 0..MaxTime]

Init ==
    /\ \E c \in Capacities : store = EmptyStore(c)
    /\ now = 0
    /\ answer = NoTombstone

InsertTombstone(t) ==
    /\ t.endedAt <= now
    /\ store' = Insert(store, t, now)
    /\ UNCHANGED <<now, answer>>

GetById(id) ==
    /\ store' = PurgeExpired(store, now)
    /\ answer' = Get(store', id)
    /\ UNCHANGED now

GetNewestByName(name) ==
    /\ store' = PurgeExpired(store, now)
    /\ answer' = NewestByName(store', name)
    /\ UNCHANGED now

Purge ==
    /\ store' = PurgeExpired(store, now)
    /\ UNCHANGED <<now, answer>>

Tick == now < MaxTime /\ now' = now + 1 /\ UNCHANGED <<store, answer>>

Next ==
    \/ \E t \in TombstoneRecord : InsertTombstone(t)
    \/ \E id \in Ids : GetById(id)
    \/ \E name \in Names : GetNewestByName(name)
    \/ Purge
    \/ Tick

Spec == Init /\ [][Next]_vars
-----------------------------------------------------------------------------
\* Every field has its type, and no stored session ended in the future: an end
\* beyond now would keep its tombstone past the TTL.
TypeOK ==
    /\ store.order \in Seq(Ids)
    /\ DOMAIN store.entries \subseteq Ids
    /\ \A id \in DOMAIN store.entries :
          store.entries[id] \in [id : Ids, name : Names, endedAt : 0..now]
    /\ store.capacity \in Capacities
    /\ now \in 0..MaxTime
    /\ answer \in TombstoneRecord \cup {NoTombstone}

\* The map and the insertion order always hold the same ids, each once, filed
\* under its own id, and never more of them than the capacity: an id in only
\* one of the two would leak memory or never expire.  Every field has its type.
Coherent ==
    /\ TypeOK
    /\ Range(store.order) = DOMAIN store.entries
    /\ IsInjective(store.order)
    /\ \A id \in DOMAIN store.entries : store.entries[id].id = id
    /\ Cardinality(DOMAIN store.entries) <= store.capacity

\* The store keeps its promise: what EvidenceShelf says about order, expiry,
\* eviction and answers is what the map and the insertion order do.
Shelf == INSTANCE EvidenceShelf
            WITH shelf <- [i \in DOMAIN store.order |-> store.entries[store.order[i]]],
                 capacity <- store.capacity,
                 Tombstones <- TombstoneRecord,
                 Nothing <- NoTombstone,
                 TTL <- TombstoneTTL

ImplementsShelf == Shelf!ShelfSpec
=============================================================================
