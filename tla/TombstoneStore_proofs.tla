------------------------ MODULE TombstoneStore_proofs ------------------------
(***************************************************************************)
(* For every capacity, time-to-live, set of ids and set of names: the map  *)
(* and the insertion order stay in step, and the store implements the      *)
(* shelf of EvidenceShelf.  Each operation of the store is first shown to  *)
(* be one on the shelf (OnShelf); the steps then follow one by one.        *)
(***************************************************************************)
EXTENDS TombstoneStore, SequenceParts_proofs

\* The tombstones that may be stored at time t.
Ended(end) == [id : Ids, name : Names, endedAt : 0..end]

\* The map and the insertion order hold the same ids, each once, filed under
\* its own id.
Filed(st, end) ==
    /\ st.order \in Seq(Ids) /\ IsInjective(st.order)
    /\ Range(st.order) = DOMAIN st.entries
    /\ \A id \in DOMAIN st.entries : st.entries[id] \in Ended(end) /\ st.entries[id].id = id

\* What the store shows: its tombstones in the order of their insertion.
OnShelf(st) == [i \in DOMAIN st.order |-> st.entries[st.order[i]]]

LEMMA FiledIsCounted ==
    ASSUME NEW st, NEW end, Filed(st, end)
    PROVE  /\ IsFiniteSet(DOMAIN st.entries)
           /\ Cardinality(DOMAIN st.entries) = Len(st.order) /\ Len(st.order) \in Nat
BY DistinctAreCounted DEF Filed

LEMMA ShelfTyped ==
    ASSUME NEW st, NEW end, Filed(st, end)
    PROVE  /\ OnShelf(st) \in Seq(Ended(end)) /\ DOMAIN OnShelf(st) = DOMAIN st.order
           /\ Len(OnShelf(st)) = Len(st.order) /\ Len(st.order) \in Nat
           /\ DOMAIN st.order = 1..Len(st.order)
           /\ \A i \in DOMAIN st.order : /\ st.order[i] \in Ids /\ st.order[i] \in DOMAIN st.entries
                                        /\ OnShelf(st)[i] = st.entries[st.order[i]]
                                        /\ OnShelf(st)[i].id = st.order[i]
<1>1. /\ Len(st.order) \in Nat /\ DOMAIN st.order = 1..Len(st.order)
      /\ \A i \in DOMAIN st.order : st.order[i] \in Ids /\ st.order[i] \in DOMAIN st.entries
  BY LenProperties, ElementOfSeq DEF Filed, Range
<1>2. \A i \in DOMAIN st.order :
         st.entries[st.order[i]] \in Ended(end) /\ st.entries[st.order[i]].id = st.order[i]
  BY <1>1 DEF Filed
<1>3. OnShelf(st) \in [1..Len(st.order) -> Ended(end)]
  BY <1>1, <1>2 DEF OnShelf
<1>4. OnShelf(st) \in Seq(Ended(end)) /\ Len(OnShelf(st)) = Len(st.order)
  BY <1>1, <1>3, SeqDef, LenProperties
<1> QED
  BY <1>1, <1>2, <1>4 DEF OnShelf
-----------------------------------------------------------------------------
(* The operations of the store, as operations on the shelf.                 *)

\* Retaining some insertions and forgetting the ids of the others.
Retaining(st, some) ==
    Store(Forget(st.entries, {st.order[i] : i \in DOMAIN st.order \ some}),
          Selected(st.order, some), st.capacity)

LEMMA RetainingFiles ==
    ASSUME NEW st, NEW end, Filed(st, end), NEW some \in SUBSET DOMAIN st.order
    PROVE  /\ Filed(Retaining(st, some), end) /\ Retaining(st, some).capacity = st.capacity
           /\ OnShelf(Retaining(st, some)) = Selected(OnShelf(st), some)
           /\ DOMAIN Retaining(st, some).entries =
                DOMAIN st.entries \ {st.order[i] : i \in DOMAIN st.order \ some}
<1> DEFINE gone == {st.order[i] : i \in DOMAIN st.order \ some}
           r == Retaining(st, some)
<1>1. /\ r.order = Selected(st.order, some) /\ r.capacity = st.capacity
      /\ DOMAIN r.entries = DOMAIN st.entries \ gone
      /\ \A id \in DOMAIN r.entries : r.entries[id] = st.entries[id]
  BY DEF Retaining, Store, Forget
<1> HIDE DEF r
<1>2. /\ r.order \in Seq(Ids) /\ IsInjective(r.order)
      /\ Range(r.order) = {st.order[i] : i \in some}
  <2>1. st.order \in Seq(Ids) /\ IsInjective(st.order)
    BY DEF Filed
  <2>2. /\ Selected(st.order, some) \in Seq(Ids) /\ IsInjective(Selected(st.order, some))
        /\ Range(Selected(st.order, some)) = {st.order[i] : i \in some}
    BY <2>1, SelectedProperties
  <2> QED
    BY <1>1, <2>2
<1>4. Range(r.order) = DOMAIN r.entries
  <2>1. \A i \in some, j \in DOMAIN st.order \ some : st.order[i] # st.order[j]
    BY DEF Filed, IsInjective
  <2>2. DOMAIN st.entries = {st.order[i] : i \in DOMAIN st.order}
    BY DEF Filed, Range
  <2> QED
    BY <1>1, <1>2, <2>1, <2>2
<1>5. Filed(r, end)
  BY <1>1, <1>2, <1>4 DEF Filed
<1>6. \A pop \in DOMAIN r.order : r.entries[r.order[pop]] = st.entries[r.order[pop]]
  BY <1>1, <1>4 DEF Range
<1>7. OnShelf(r) = [pop \in DOMAIN r.order |-> st.entries[r.order[pop]]]
  BY <1>6 DEF OnShelf
<1>8. Selected(OnShelf(st), some) = [pop \in DOMAIN r.order |-> st.entries[r.order[pop]]]
  <2>1. st.order \in Seq(Ids)
    BY DEF Filed
  <2>2. Selected([i \in DOMAIN st.order |-> st.entries[st.order[i]]], some) =
          [pop \in DOMAIN Selected(st.order, some) |-> st.entries[Selected(st.order, some)[pop]]]
    BY SMTT(30), <2>1, SelectedOfLookup
  <2> QED
    BY <1>1, <2>2 DEF OnShelf
<1> QED
  BY <1>1, <1>5, <1>7, <1>8 DEF r

LEMMA PurgeFiles ==
    ASSUME NEW st, NEW end, NEW clock, Filed(st, end)
    PROVE  /\ Filed(PurgeExpired(st, clock), end)
           /\ PurgeExpired(st, clock).capacity = st.capacity
           /\ OnShelf(PurgeExpired(st, clock)) = Selected(OnShelf(st), Current(st, clock))
           /\ DOMAIN PurgeExpired(st, clock).entries \subseteq DOMAIN st.entries
<1> DEFINE kept == Current(st, clock)
<1>1. kept \in SUBSET DOMAIN st.order
  BY DEF Current
<1>2. PurgeExpired(st, clock) = Retaining(st, kept)
  BY DEF PurgeExpired, Retaining
<1> HIDE DEF kept
<1>3. /\ Filed(Retaining(st, kept), end) /\ Retaining(st, kept).capacity = st.capacity
      /\ OnShelf(Retaining(st, kept)) = Selected(OnShelf(st), kept)
      /\ DOMAIN Retaining(st, kept).entries \subseteq DOMAIN st.entries
  BY <1>1, RetainingFiles
<1> QED
  BY <1>2, <1>3 DEF kept

LEMMA ReplaceFiles ==
    ASSUME NEW st, NEW end, Filed(st, end), NEW id
    PROVE  /\ Filed(Replace(st, id), end) /\ Replace(st, id).capacity = st.capacity
           /\ OnShelf(Replace(st, id)) =
                Selected(OnShelf(st), {i \in DOMAIN st.order : st.order[i] # id})
           /\ DOMAIN Replace(st, id).entries = DOMAIN st.entries \ {id}
<1> DEFINE others == {i \in DOMAIN st.order : st.order[i] # id}
<1>1. CASE id \in DOMAIN st.entries
  <2>1. {id} = {st.order[i] : i \in DOMAIN st.order \ others}
    BY <1>1 DEF Filed, Range
  <2>2. Replace(st, id) = Retaining(st, others)
    BY <1>1, <2>1 DEF Replace, Retaining
  <2>3. others \in SUBSET DOMAIN st.order
    OBVIOUS
  <2> HIDE DEF others
  <2>4. /\ Filed(Retaining(st, others), end) /\ Retaining(st, others).capacity = st.capacity
        /\ OnShelf(Retaining(st, others)) = Selected(OnShelf(st), others)
        /\ DOMAIN Retaining(st, others).entries = DOMAIN st.entries \ {id}
    BY <2>1, <2>3, RetainingFiles
  <2> QED
    BY <2>2, <2>4 DEF others
<1>2. CASE id \notin DOMAIN st.entries
  <2>1. Replace(st, id) = st
    BY <1>2 DEF Replace
  <2>2. others = DOMAIN st.order
    BY <1>2 DEF Filed, Range
  <2>3. Selected(OnShelf(st), others) = OnShelf(st)
    BY <2>2, ShelfTyped DEF Selected
  <2> QED
    BY <1>2, <2>1, <2>3
<1> QED
  BY <1>1, <1>2

\* Popping the oldest insertions.
Evicting(st, pop) ==
    Store(Forget(st.entries, Oldest(st, pop)), Skip(st.order, pop), st.capacity)

LEMMA EvictingFiles ==
    ASSUME NEW st, NEW end, Filed(st, end), NEW pop \in 0..Len(st.order)
    PROVE  /\ Filed(Evicting(st, pop), end) /\ Evicting(st, pop).capacity = st.capacity
           /\ OnShelf(Evicting(st, pop)) = Skip(OnShelf(st), pop)
           /\ DOMAIN Evicting(st, pop).entries = DOMAIN st.entries \ Oldest(st, pop)
           /\ Len(Evicting(st, pop).order) = Len(st.order) - pop
<1> DEFINE r == Evicting(st, pop)
<1>1. /\ r.order = Skip(st.order, pop) /\ r.capacity = st.capacity
      /\ DOMAIN r.entries = DOMAIN st.entries \ Oldest(st, pop)
      /\ \A id \in DOMAIN r.entries : r.entries[id] = st.entries[id]
  BY DEF Evicting, Store, Forget
<1> DEFINE size == Len(st.order)
<1>2. size \in Nat /\ DOMAIN st.order = 1..size /\ pop \in Nat /\ pop <= size /\ st.order \in Seq(Ids)
  BY ShelfTyped DEF Filed
<1>3. /\ r.order \in Seq(Ids) /\ Len(r.order) = size - pop
      /\ \A i \in 1..(size - pop) : r.order[i] = st.order[pop + i]
  <2>1. pop \in 0..Len(st.order) /\ st.order \in Seq(Ids)
    BY <1>2
  <2>2. /\ Skip(st.order, pop) \in Seq(Ids) /\ Len(Skip(st.order, pop)) = Len(st.order) - pop
        /\ \A i \in 1..(Len(st.order) - pop) : Skip(st.order, pop)[i] = st.order[pop + i]
    BY <2>1, SkipProperties
  <2> QED
    BY <1>1, <2>2
<1>4. DOMAIN r.order = 1..(size - pop) /\ \A i \in 1..(size - pop) : pop + i \in DOMAIN st.order
  BY <1>2, <1>3, LenProperties
<1> HIDE DEF size, r
<1>5. IsInjective(r.order)
  <2> SUFFICES ASSUME NEW i \in 1..(size - pop), NEW j \in 1..(size - pop), r.order[i] = r.order[j]
               PROVE  i = j
    BY <1>4 DEF IsInjective
  <2>1. st.order[pop + i] = st.order[pop + j] /\ pop + i \in DOMAIN st.order /\ pop + j \in DOMAIN st.order
    BY <1>3, <1>4
  <2>2. pop + i = pop + j
    BY <2>1 DEF Filed, IsInjective
  <2> QED
    BY <1>2, <2>2
<1>6. Range(r.order) = DOMAIN r.entries
  <2>1. DOMAIN r.entries = {st.order[i] : i \in 1..size} \ {st.order[i] : i \in 1..pop}
    BY <1>1, <1>2 DEF Filed, Range, Oldest
  <2>2. \A i \in 1..(size - pop) : r.order[i] \in DOMAIN r.entries
    <3> SUFFICES ASSUME NEW i \in 1..(size - pop), NEW j \in 1..pop, st.order[pop + i] = st.order[j]
                 PROVE  FALSE
      BY <1>2, <1>3, <1>4, <2>1
    <3>1. j \in DOMAIN st.order /\ pop + i \in DOMAIN st.order
      BY <1>2, <1>4
    <3>2. pop + i = j
      BY <3>1 DEF Filed, IsInjective
    <3> QED
      BY <1>2, <3>2
  <2>3. \A x \in DOMAIN r.entries : \E i \in 1..(size - pop) : r.order[i] = x
    <3> SUFFICES ASSUME NEW j \in 1..size, j \notin 1..pop
                 PROVE  \E i \in 1..(size - pop) : r.order[i] = st.order[j]
      BY <2>1
    <3>1. j - pop \in 1..(size - pop) /\ pop + (j - pop) = j
      BY <1>2
    <3> QED
      BY <1>3, <3>1
  <2>4. Range(r.order) = {r.order[i] : i \in 1..(size - pop)}
    BY <1>4 DEF Range
  <2> QED
    BY <2>2, <2>3, <2>4
<1>7. Filed(r, end)
  BY <1>1, <1>3, <1>5, <1>6 DEF Filed
<1>8. OnShelf(r) = Skip(OnShelf(st), pop)
  <2>1. /\ OnShelf(st) \in Seq(Ended(end)) /\ Len(OnShelf(st)) = size
        /\ OnShelf(r) \in Seq(Ended(end)) /\ Len(OnShelf(r)) = size - pop
    BY <1>3, <1>7, ShelfTyped DEF size
  <2> DEFINE shown == OnShelf(st)
  <2>2. /\ Skip(shown, pop) \in Seq(Ended(end)) /\ Len(Skip(shown, pop)) = size - pop
        /\ \A i \in 1..(size - pop) : Skip(shown, pop)[i] = shown[pop + i]
    <3>1. shown \in Seq(Ended(end)) /\ pop \in 0..Len(shown) /\ Len(shown) = size
      BY <1>2, <2>1
    <3> HIDE DEF shown
    <3>2. /\ Skip(shown, pop) \in Seq(Ended(end)) /\ Len(Skip(shown, pop)) = Len(shown) - pop
          /\ \A i \in 1..(Len(shown) - pop) : Skip(shown, pop)[i] = shown[pop + i]
      BY <3>1, SkipProperties
    <3> QED
      BY <3>1, <3>2
  <2>3. \A i \in 1..(size - pop) : OnShelf(r)[i] = OnShelf(st)[pop + i]
    <3> SUFFICES ASSUME NEW i \in 1..(size - pop) PROVE OnShelf(r)[i] = OnShelf(st)[pop + i]
      OBVIOUS
    <3>1. OnShelf(r)[i] = r.entries[r.order[i]] /\ r.order[i] \in DOMAIN r.entries
      BY <1>4, <1>7, ShelfTyped
    <3>2. OnShelf(st)[pop + i] = st.entries[st.order[pop + i]]
      BY <1>4, ShelfTyped
    <3> QED
      BY <1>1, <1>3, <3>1, <3>2
  <2> QED
    BY <2>1, <2>2, <2>3, SeqEqual
<1> QED
  BY <1>1, <1>3, <1>7, <1>8 DEF size, r

LEMMA EvictedIs ==
    ASSUME NEW st, NEW end, Filed(st, end),
           st.capacity \in Nat \ {0}, Len(st.order) <= st.capacity
    PROVE  /\ Evicted(st) = IF Len(st.order) < st.capacity THEN 0 ELSE 1
           /\ Evicted(st) \in 0..Len(st.order)
<1> DEFINE room(pop) == \/ Cardinality(DOMAIN st.entries \ Oldest(st, pop)) < st.capacity
                        \/ pop = Len(st.order)
           many == IF Len(st.order) < st.capacity THEN 0 ELSE 1
<1>1. Len(st.order) \in Nat
  BY FiledIsCounted
<1>2. \A pop \in 0..Len(st.order) :
        Cardinality(DOMAIN st.entries \ Oldest(st, pop)) = Len(st.order) - pop
  <2> SUFFICES ASSUME NEW pop \in 0..Len(st.order)
               PROVE  Cardinality(DOMAIN st.entries \ Oldest(st, pop)) = Len(st.order) - pop
    OBVIOUS
  <2> DEFINE r == Evicting(st, pop)
  <2>1. /\ Filed(r, end) /\ DOMAIN r.entries = DOMAIN st.entries \ Oldest(st, pop)
        /\ Len(r.order) = Len(st.order) - pop
    BY EvictingFiles
  <2> HIDE DEF r
  <2>2. Cardinality(DOMAIN r.entries) = Len(r.order)
    BY <2>1, FiledIsCounted
  <2> QED
    BY <2>1, <2>2
<1>3. \A pop \in 0..Len(st.order) :
        room(pop) <=> Len(st.order) - pop < st.capacity \/ pop = Len(st.order)
  BY <1>2
<1>4. Evicted(st) = CHOOSE pop \in 0..Len(st.order) :
                      room(pop) /\ \A few \in 0..(pop - 1) : ~room(few)
  BY DEF Evicted
<1> HIDE DEF room
<1>5. many \in 0..Len(st.order) /\ room(many) /\ \A few \in 0..(many - 1) : ~room(few)
  BY <1>1, <1>3
<1>6. \A pop \in 0..Len(st.order) :
        room(pop) /\ (\A few \in 0..(pop - 1) : ~room(few)) => pop = many
  <2> SUFFICES ASSUME NEW pop \in 0..Len(st.order), room(pop),
                      \A few \in 0..(pop - 1) : ~room(few)
               PROVE  pop = many
    OBVIOUS
  <2>1. ~(many < pop)
    <3> SUFFICES ASSUME many < pop PROVE FALSE
      OBVIOUS
    <3>1. many \in 0..(pop - 1)
      BY <1>1, <1>5
    <3> QED
      BY <1>5, <3>1
  <2>2. ~(pop < many)
    <3> SUFFICES ASSUME pop < many PROVE FALSE
      OBVIOUS
    <3>1. pop \in 0..(many - 1)
      BY <1>1
    <3> QED
      BY <1>5, <3>1
  <2> QED
    BY <1>1, <2>1, <2>2
<1>7. Evicted(st) = many
  BY <1>4, <1>5, <1>6
<1> QED
  BY <1>5, <1>7

LEMMA RoomIsMade ==
    ASSUME NEW a \in Nat, NEW c \in Nat \ {0}, a <= c
    PROVE  a - (IF a < c THEN 0 ELSE 1) < c
OBVIOUS

\* Making room: the oldest goes when the store is full.
LEMMA MakeRoomFiles ==
    ASSUME NEW st, NEW end, Filed(st, end),
           st.capacity \in Nat \ {0}, Len(st.order) <= st.capacity
    PROVE  /\ Filed(MakeRoom(st), end) /\ MakeRoom(st).capacity = st.capacity
           /\ OnShelf(MakeRoom(st)) =
                Skip(OnShelf(st), IF Len(st.order) < st.capacity THEN 0 ELSE 1)
           /\ DOMAIN MakeRoom(st).entries \subseteq DOMAIN st.entries
           /\ Len(MakeRoom(st).order) < st.capacity
<1> DEFINE pops == Evicted(st)
<1>1. MakeRoom(st) = Evicting(st, pops)
  BY DEF MakeRoom, Evicting
<1>2. /\ pops = IF Len(st.order) < st.capacity THEN 0 ELSE 1
      /\ pops \in 0..Len(st.order) /\ Len(st.order) \in Nat
  BY EvictedIs, FiledIsCounted
<1> HIDE DEF pops
<1>3. /\ Filed(Evicting(st, pops), end) /\ Evicting(st, pops).capacity = st.capacity
      /\ OnShelf(Evicting(st, pops)) = Skip(OnShelf(st), pops)
      /\ DOMAIN Evicting(st, pops).entries = DOMAIN st.entries \ Oldest(st, pops)
      /\ Len(Evicting(st, pops).order) = Len(st.order) - pops
  BY <1>2, EvictingFiles
<1>4. Len(st.order) - pops < st.capacity
  BY <1>2, RoomIsMade
<1>5. Filed(MakeRoom(st), end) /\ MakeRoom(st).capacity = st.capacity
  BY <1>1, <1>3
<1>6. OnShelf(MakeRoom(st)) = Skip(OnShelf(st), pops)
  BY <1>1, <1>3
<1>7. DOMAIN MakeRoom(st).entries \subseteq DOMAIN st.entries
  BY <1>1, <1>3
<1>8. Len(MakeRoom(st).order) < st.capacity
  BY <1>1, <1>3, <1>4
<1> QED
  BY <1>2, <1>5, <1>6, <1>7, <1>8

\* Filing a tombstone of a session that has none.
LEMMA PutFiles ==
    ASSUME NEW st, NEW end, Filed(st, end), NEW tomb \in Ended(end),
           tomb.id \notin DOMAIN st.entries, st.capacity # 0
    PROVE  /\ Filed(Put(st, tomb), end) /\ Put(st, tomb).capacity = st.capacity
           /\ OnShelf(Put(st, tomb)) = Append(OnShelf(st), tomb)
           /\ Len(Put(st, tomb).order) = Len(st.order) + 1
<1> DEFINE r == Put(st, tomb)
<1>1. /\ r.order = Append(st.order, tomb.id) /\ r.capacity = st.capacity
      /\ DOMAIN r.entries = DOMAIN st.entries \cup {tomb.id}
      /\ \A id \in DOMAIN r.entries :
            r.entries[id] = IF id = tomb.id THEN tomb ELSE st.entries[id]
  BY DEF Put, Store
<1> DEFINE size == Len(st.order)
<1>2. /\ size \in Nat /\ DOMAIN st.order = 1..size /\ st.order \in Seq(Ids) /\ tomb.id \in Ids
      /\ \A i \in 1..size : st.order[i] \in DOMAIN st.entries
      /\ DOMAIN st.entries = {st.order[i] : i \in 1..size}
  BY ShelfTyped DEF Filed, Ended, Range
<1>3. /\ r.order \in Seq(Ids) /\ Len(r.order) = size + 1
      /\ \A i \in 1..size : r.order[i] = st.order[i]
      /\ r.order[size + 1] = tomb.id
  BY <1>1, <1>2, AppendProperties
<1>4. /\ DOMAIN r.order = 1..(size + 1)
      /\ \A i \in 1..(size + 1) : i \in 1..size \/ i = size + 1
  BY <1>2, <1>3, LenProperties
<1> HIDE DEF size, r
<1>5. IsInjective(r.order)
  <2> SUFFICES ASSUME NEW i \in 1..(size + 1), NEW j \in 1..(size + 1), r.order[i] = r.order[j]
               PROVE  i = j
    BY <1>4 DEF IsInjective
  <2>1. \A a \in 1..size : r.order[a] # tomb.id
    BY <1>2, <1>3
  <2>2. CASE i \in 1..size /\ j \in 1..size
    <3>1. st.order[i] = st.order[j]
      BY <1>3, <2>2
    <3> QED
      BY <1>2, <2>2, <3>1 DEF Filed, IsInjective
  <2> QED
    BY <1>3, <1>4, <2>1, <2>2
<1>6. Range(r.order) = DOMAIN r.entries
  <2>1. Range(r.order) = {r.order[i] : i \in 1..(size + 1)}
    BY <1>4 DEF Range
  <2>2. size + 1 \in 1..(size + 1) /\ \A i \in 1..size : i \in 1..(size + 1)
    BY <1>2
  <2> QED
    BY <1>1, <1>2, <1>3, <1>4, <2>1, <2>2
<1>7. \A id \in DOMAIN r.entries : r.entries[id] \in Ended(end) /\ r.entries[id].id = id
  BY <1>1 DEF Filed
<1>8. Filed(r, end)
  BY <1>3, <1>5, <1>6, <1>7 DEF Filed
<1>9. OnShelf(r) = Append(OnShelf(st), tomb)
  <2> DEFINE shown == OnShelf(st)
             more == Append(shown, tomb)
  <2>1. /\ shown \in Seq(Ended(end)) /\ Len(shown) = size
        /\ OnShelf(r) \in Seq(Ended(end)) /\ Len(OnShelf(r)) = size + 1
    BY <1>3, <1>8, ShelfTyped DEF size
  <2> HIDE DEF shown
  <2>2. /\ more \in Seq(Ended(end)) /\ Len(more) = size + 1
        /\ \A i \in 1..size : more[i] = shown[i]
        /\ more[size + 1] = tomb
    BY <2>1, AppendProperties
  <2>3. \A i \in 1..size : OnShelf(r)[i] = shown[i]
    <3> SUFFICES ASSUME NEW i \in 1..size PROVE OnShelf(r)[i] = shown[i]
      OBVIOUS
    <3>1. /\ OnShelf(r)[i] = r.entries[r.order[i]] /\ r.order[i] = st.order[i]
          /\ r.order[i] \in DOMAIN r.entries
      BY <1>2, <1>3, <1>4, <1>8, ShelfTyped
    <3>2. shown[i] = st.entries[st.order[i]]
      BY <1>2, ShelfTyped DEF shown
    <3>3. st.order[i] # tomb.id
      BY <1>2
    <3> QED
      BY <1>1, <3>1, <3>2, <3>3
  <2>4. OnShelf(r)[size + 1] = tomb
    <3>1. size + 1 \in DOMAIN r.order
      BY <1>2, <1>4
    <3>2. OnShelf(r)[size + 1] = r.entries[r.order[size + 1]] /\ r.order[size + 1] \in DOMAIN r.entries
      BY <1>8, <3>1, ShelfTyped
    <3> QED
      BY <1>1, <1>3, <3>2
  <2> HIDE DEF more
  <2>5. \A i \in 1..(size + 1) : OnShelf(r)[i] = more[i]
    BY <1>4, <2>2, <2>3, <2>4
  <2> QED
    BY <2>1, <2>2, <2>5, SeqEqual DEF shown, more
<1> QED
  BY <1>1, <1>3, <1>8, <1>9 DEF size, r

\* A cut that leaves something of the old leaves all of the new.
LEMMA SkipOfAppend ==
    ASSUME NEW S, NEW q \in Seq(S), NEW x \in S, NEW few \in 0..Len(q)
    PROVE  Skip(Append(q, x), few) = Append(Skip(q, few), x)
<1> DEFINE more == Append(q, x)
           rest == Skip(q, few)
           size == Len(q)
<1>0. few \in Nat /\ few <= size /\ size \in Nat
  BY LenProperties
<1>1. /\ more \in Seq(S) /\ Len(more) = size + 1 /\ size \in Nat
      /\ \A i \in 1..size : more[i] = q[i]
      /\ more[size + 1] = x
  BY AppendProperties, LenProperties
<1>2. /\ rest \in Seq(S) /\ Len(rest) = size - few
      /\ \A i \in 1..(size - few) : rest[i] = q[few + i]
  BY SkipProperties
<1> HIDE DEF more, rest
<1>3. few \in 0..Len(more)
  BY <1>0, <1>1
<1>4. /\ Skip(more, few) \in Seq(S) /\ Len(Skip(more, few)) = Len(more) - few
      /\ \A i \in 1..(Len(more) - few) : Skip(more, few)[i] = more[few + i]
  BY <1>1, <1>3, SkipProperties
<1>5. /\ Append(rest, x) \in Seq(S) /\ Len(Append(rest, x)) = Len(rest) + 1
      /\ \A i \in 1..Len(rest) : Append(rest, x)[i] = rest[i]
      /\ Append(rest, x)[Len(rest) + 1] = x
  BY <1>2, AppendProperties
<1>6. \A i \in 1..(size + 1 - few) : Skip(more, few)[i] = Append(rest, x)[i]
  <2> SUFFICES ASSUME NEW i \in 1..(size + 1 - few)
               PROVE  Skip(more, few)[i] = Append(rest, x)[i]
    OBVIOUS
  <2>0. Skip(more, few)[i] = more[few + i]
    BY <1>1, <1>4
  <2>1. CASE i \in 1..(size - few)
    <3>1. few + i \in 1..size
      BY <1>1, <2>1
    <3> QED
      BY <1>1, <1>2, <1>5, <2>0, <2>1, <3>1
  <2>2. CASE i = size - few + 1
    <3>1. few + i = size + 1
      BY <1>1, <2>2
    <3> QED
      BY <1>1, <1>2, <1>5, <2>0, <2>2, <3>1
  <2>3. i \in 1..(size - few) \/ i = size - few + 1
    BY <1>0, <1>1
  <2> QED
    BY <2>1, <2>2, <2>3
<1>7. Len(Skip(more, few)) = size + 1 - few /\ Len(Append(rest, x)) = size + 1 - few
  BY <1>1, <1>2, <1>4, <1>5
<1> QED
  BY <1>4, <1>5, <1>6, <1>7, SeqEqual DEF more, rest

\* The part of a purged and replaced store that Insert works on.
Cleared(st, id, clock) == Replace(PurgeExpired(st, clock), id)

LEMMA ClearedFiles ==
    ASSUME NEW st, NEW clock, Filed(st, clock), NEW id
    PROVE  /\ Filed(Cleared(st, id, clock), clock)
           /\ Cleared(st, id, clock).capacity = st.capacity
           /\ id \notin DOMAIN Cleared(st, id, clock).entries
           /\ Len(Cleared(st, id, clock).order) <= Len(st.order)
<1> DEFINE p == PurgeExpired(st, clock)
           r == Replace(p, id)
<1>1. Filed(p, clock) /\ p.capacity = st.capacity /\ DOMAIN p.entries \subseteq DOMAIN st.entries
  BY PurgeFiles
<1> HIDE DEF p
<1>2. Filed(r, clock) /\ r.capacity = p.capacity /\ DOMAIN r.entries = DOMAIN p.entries \ {id}
  BY <1>1, ReplaceFiles
<1> HIDE DEF r
<1>3. Len(r.order) <= Len(st.order)
  <2>1. /\ IsFiniteSet(DOMAIN st.entries) /\ Cardinality(DOMAIN st.entries) = Len(st.order)
        /\ Cardinality(DOMAIN r.entries) = Len(r.order)
    BY <1>2, FiledIsCounted
  <2>2. DOMAIN r.entries \in SUBSET DOMAIN st.entries
    BY <1>1, <1>2
  <2>3. Cardinality(DOMAIN r.entries) <= Cardinality(DOMAIN st.entries)
    BY <2>1, <2>2, FS_Subset
  <2> QED
    BY <2>1, <2>3
<1> QED
  BY <1>1, <1>2, <1>3 DEF Cleared, p, r

\* What the last so many of one element more are.
LEMMA RoomForOneMore ==
    ASSUME NEW a \in Nat, NEW c \in Nat \ {0}, a <= c
    PROVE  SatSub(a + 1, c) = IF a < c THEN 0 ELSE 1
BY DEF SatSub

\* An insertion is a purge, the departure of an older tombstone of the same
\* session, and the newest so many of the rest and the new one.
LEMMA InsertFiles ==
    ASSUME NEW st, NEW clock, Filed(st, clock), NEW tomb \in Ended(clock),
           st.capacity \in Nat, Len(st.order) <= st.capacity
    PROVE  /\ Filed(Insert(st, tomb, clock), clock)
           /\ Insert(st, tomb, clock).capacity = st.capacity
           /\ Len(Insert(st, tomb, clock).order) <= st.capacity
           /\ OnShelf(Insert(st, tomb, clock)) =
                TailOf(Append(OnShelf(Cleared(st, tomb.id, clock)), tomb), st.capacity)
<1> DEFINE r == Cleared(st, tomb.id, clock)
           new == Insert(st, tomb, clock)
           cap == st.capacity
           shown == OnShelf(r)
<1>1. /\ Filed(r, clock) /\ r.capacity = cap /\ tomb.id \notin DOMAIN r.entries
      /\ Len(r.order) <= Len(st.order)
  BY ClearedFiles
<1>2. new = Put(MakeRoom(r), tomb)
  BY DEF Insert, Cleared
<1> HIDE DEF r, new
<1>3. Len(r.order) \in Nat /\ Len(st.order) \in Nat /\ Len(r.order) <= cap
  <2>1. Len(r.order) \in Nat /\ Len(st.order) \in Nat
    BY <1>1, FiledIsCounted
  <2> QED
    BY <1>1, <2>1
<1>4. shown \in Seq(Ended(clock)) /\ Len(shown) = Len(r.order)
  BY <1>1, ShelfTyped
<1> HIDE DEF shown, cap
<1>5. Append(shown, tomb) \in Seq(Ended(clock)) /\ Len(Append(shown, tomb)) = Len(r.order) + 1
  BY <1>4, AppendProperties
<1>6. CASE cap = 0
  <2>1. new = r
    BY <1>1, <1>2, <1>6 DEF Put, MakeRoom
  <2>2. Len(shown) = 0
    BY <1>3, <1>4, <1>6
  <2>3. shown = << >>
    BY <1>4, <2>2, EmptySeq
  <2>4. /\ TailOf(Append(shown, tomb), cap) \in Seq(Ended(clock))
        /\ Len(TailOf(Append(shown, tomb), cap)) = 0
    <3>1. Len(Append(shown, tomb)) > 0 /\ 0 \in Nat
      BY <1>3, <1>5
    <3> QED
      BY <1>5, <1>6, <3>1, TailOfProperties
  <2>5. TailOf(Append(shown, tomb), cap) = << >>
    BY <2>4, EmptySeq
  <2> QED
    BY <1>1, <1>3, <2>1, <2>3, <2>5 DEF shown, cap, r, new
<1>7. CASE cap # 0
  <2> DEFINE m == MakeRoom(r)
             few == IF Len(r.order) < cap THEN 0 ELSE 1
  <2>0. cap \in Nat \ {0} /\ r.capacity \in Nat \ {0} /\ Len(r.order) <= r.capacity
    BY <1>1, <1>3, <1>7 DEF cap
  <2>1. /\ Filed(m, clock) /\ m.capacity = r.capacity
        /\ OnShelf(m) = Skip(shown, IF Len(r.order) < r.capacity THEN 0 ELSE 1)
        /\ DOMAIN m.entries \subseteq DOMAIN r.entries
        /\ Len(m.order) < r.capacity
    BY <1>1, <2>0, MakeRoomFiles DEF shown
  <2> HIDE DEF m
  <2>2. OnShelf(m) = Skip(shown, few) /\ m.capacity # 0 /\ tomb.id \notin DOMAIN m.entries
    BY <1>1, <1>7, <2>1
  <2>3. /\ Filed(new, clock) /\ new.capacity = m.capacity
        /\ OnShelf(new) = Append(OnShelf(m), tomb)
        /\ Len(new.order) = Len(m.order) + 1
    BY <1>2, <2>1, <2>2, PutFiles DEF m
  <2>4. few \in 0..Len(shown)
    BY <1>3, <1>4, <2>0
  <2>5. Skip(Append(shown, tomb), few) = Append(Skip(shown, few), tomb)
    BY <1>4, <2>4, SkipOfAppend
  <2>6. SatSub(Len(Append(shown, tomb)), cap) = few
    BY <1>3, <1>5, <2>0, RoomForOneMore
  <2>7. TailOf(Append(shown, tomb), cap) = Skip(Append(shown, tomb), few)
    BY <2>6 DEF TailOf
  <2>8. OnShelf(new) = TailOf(Append(shown, tomb), cap)
    BY <2>2, <2>3, <2>5, <2>7
  <2>9. Len(new.order) <= cap
    <3>1. Len(m.order) \in Nat /\ Len(m.order) < cap
      BY <1>1, <2>1, FiledIsCounted
    <3> QED
      BY <2>0, <2>3, <3>1
  <2> QED
    BY <1>1, <2>1, <2>3, <2>8, <2>9 DEF shown, cap, r, new
<1> QED
  BY <1>6, <1>7
-----------------------------------------------------------------------------
(* The store over time.                                                     *)

LEMMA CoherentIsFiled ==
    Coherent => /\ Filed(store, now) /\ store.capacity \in Nat
                /\ Len(store.order) <= store.capacity
                /\ now \in 0..MaxTime /\ MaxTime \in Nat
<1> SUFFICES ASSUME Coherent
             PROVE  /\ Filed(store, now) /\ store.capacity \in Nat
                    /\ Len(store.order) <= store.capacity
                    /\ now \in 0..MaxTime /\ MaxTime \in Nat
  OBVIOUS
<1>1. Filed(store, now)
  BY DEF Coherent, TypeOK, Filed, Ended
<1>2. Cardinality(DOMAIN store.entries) = Len(store.order)
  BY <1>1, FiledIsCounted
<1> QED
  BY <1>1, <1>2, TombstoneStoreAssumption DEF Coherent, TypeOK

\* What the invariant is of a store that changes while the clock stands.
LEMMA FiledIsCoherent ==
    ASSUME Coherent, now' = now, NEW st, store' = st, Filed(st, now),
           st.capacity = store.capacity, Len(st.order) <= st.capacity,
           answer' \in TombstoneRecord \cup {NoTombstone}
    PROVE  Coherent'
<1>1. Cardinality(DOMAIN st.entries) = Len(st.order)
  BY FiledIsCounted
<1>2. /\ st.order \in Seq(Ids) /\ DOMAIN st.entries = Range(st.order) /\ IsInjective(st.order)
      /\ \A id \in DOMAIN st.entries :
            st.entries[id] \in [id : Ids, name : Names, endedAt : 0..now] /\ st.entries[id].id = id
  BY DEF Filed, Ended
<1>3. DOMAIN st.entries \subseteq Ids
  BY <1>2, ElementOfSeq, LenProperties DEF Range
<1>4. TypeOK'
  BY <1>2, <1>3 DEF Coherent, TypeOK
<1> QED
  BY <1>1, <1>2, <1>4 DEF Coherent

LEMMA EndedIsRecord ==
    ASSUME Coherent, NEW tomb
    PROVE  /\ tomb \in Ended(now) <=> tomb \in TombstoneRecord /\ tomb.endedAt <= now
           /\ tomb \in TombstoneRecord => tomb.endedAt \in 0..MaxTime
<1>1. now \in 0..MaxTime /\ MaxTime \in Nat
  BY CoherentIsFiled
<1> QED
  BY <1>1 DEF Ended, TombstoneRecord

LEMMA PurgeStays ==
    ASSUME Coherent
    PROVE  /\ Filed(PurgeExpired(store, now), now)
           /\ PurgeExpired(store, now).capacity = store.capacity
           /\ Len(PurgeExpired(store, now).order) <= store.capacity
<1> DEFINE p == PurgeExpired(store, now)
<1>1. Filed(store, now) /\ Len(store.order) <= store.capacity /\ store.capacity \in Nat
  BY CoherentIsFiled
<1>2. Filed(p, now) /\ p.capacity = store.capacity /\ DOMAIN p.entries \subseteq DOMAIN store.entries
  BY <1>1, PurgeFiles
<1> HIDE DEF p
<1>3. /\ Cardinality(DOMAIN p.entries) = Len(p.order) /\ Len(p.order) \in Nat
      /\ IsFiniteSet(DOMAIN store.entries)
      /\ Cardinality(DOMAIN store.entries) = Len(store.order) /\ Len(store.order) \in Nat
  BY <1>1, <1>2, FiledIsCounted
<1>4. Cardinality(DOMAIN p.entries) <= Cardinality(DOMAIN store.entries)
  BY <1>2, <1>3, FS_Subset
<1>5. Len(p.order) <= store.capacity
  BY <1>1, <1>3, <1>4
<1> QED
  BY <1>2, <1>5 DEF p

\* A lookup answers with a tombstone that is there, or with none.
LEMMA LookupsAnswer ==
    ASSUME NEW st, NEW end, Filed(st, end)
    PROVE  /\ \A id : Get(st, id) \in Ended(end) \cup {NoTombstone}
           /\ \A called : NewestByName(st, called) \in Ended(end) \cup {NoTombstone}
<1>1. \A id : Get(st, id) \in Ended(end) \cup {NoTombstone}
  BY DEF Get, Filed
<1>2. ASSUME NEW called PROVE NewestByName(st, called) \in Ended(end) \cup {NoTombstone}
  <2> DEFINE some == {i \in DOMAIN st.order : /\ st.order[i] \in DOMAIN st.entries
                                             /\ st.entries[st.order[i]].name = called}
             last == CHOOSE i \in some : \A j \in some : j <= i
  <2>1. NewestByName(st, called) = IF some = {} THEN NoTombstone ELSE st.entries[st.order[last]]
    BY DEF NewestByName
  <2>2. some \in SUBSET (1..Len(st.order)) /\ Len(st.order) \in Nat
    BY ShelfTyped
  <2>3. some # {} => last \in some
    BY <2>2, GreatestPlace
  <2>4. some # {} => st.entries[st.order[last]] \in Ended(end)
    BY <2>3 DEF Filed
  <2> QED
    BY <2>1, <2>4
<1> QED
  BY <1>1, <1>2

LEMMA CoherentHolds == Coherent /\ [Next]_vars => Coherent'
<1> SUFFICES ASSUME Coherent, [Next]_vars PROVE Coherent'
  OBVIOUS
<1>0. /\ Filed(store, now) /\ store.capacity \in Nat /\ Len(store.order) <= store.capacity
      /\ answer \in TombstoneRecord \cup {NoTombstone}
  BY CoherentIsFiled DEF Coherent, TypeOK
<1>1. ASSUME NEW t \in TombstoneRecord, InsertTombstone(t) PROVE Coherent'
  <2> DEFINE new == Insert(store, t, now)
  <2>1. store' = new /\ now' = now /\ answer' = answer /\ t \in Ended(now)
    BY <1>1, EndedIsRecord DEF InsertTombstone
  <2>2. /\ Filed(new, now) /\ new.capacity = store.capacity /\ Len(new.order) <= store.capacity
    BY <1>0, <2>1, InsertFiles
  <2> HIDE DEF new
  <2>3. Len(new.order) <= new.capacity
    BY <2>2
  <2> QED
    BY <1>0, <2>1, <2>2, <2>3, FiledIsCoherent
<1>2. ASSUME NEW st, st = PurgeExpired(store, now), store' = st, now' = now,
             answer' \in TombstoneRecord \cup {NoTombstone}
      PROVE  Coherent'
  <2>1. Filed(st, now) /\ st.capacity = store.capacity /\ Len(st.order) <= store.capacity
    BY <1>2, PurgeStays
  <2>2. Len(st.order) <= st.capacity
    BY <2>1
  <2> QED
    BY <1>2, <2>1, <2>2, FiledIsCoherent
<1>3. /\ \A id : Get(PurgeExpired(store, now), id) \in TombstoneRecord \cup {NoTombstone}
      /\ \A called : NewestByName(PurgeExpired(store, now), called) \in TombstoneRecord \cup {NoTombstone}
  <2>1. Filed(PurgeExpired(store, now), now)
    BY PurgeStays
  <2>2. \A tomb : tomb \in Ended(now) => tomb \in TombstoneRecord
    BY EndedIsRecord
  <2> QED
    BY <2>1, <2>2, LookupsAnswer
<1>4. ASSUME NEW id \in Ids, GetById(id) PROVE Coherent'
  BY <1>2, <1>3, <1>4 DEF GetById
<1>5. ASSUME NEW called \in Names, GetNewestByName(called) PROVE Coherent'
  BY <1>2, <1>3, <1>5 DEF GetNewestByName
<1>6. CASE Purge
  BY <1>0, <1>2, <1>6 DEF Purge
<1>7. CASE Tick
  <2>1. now \in 0..MaxTime /\ MaxTime \in Nat /\ now < MaxTime /\ now' = now + 1
        /\ store' = store /\ answer' = answer
    BY <1>7, CoherentIsFiled DEF Tick
  <2>2. now' \in 0..MaxTime /\ \A x \in 0..now : x \in 0..now'
    BY <2>1
  <2>3. \A id \in DOMAIN store.entries :
           store.entries[id] \in [id : Ids, name : Names, endedAt : 0..now']
    <3>1. \A id \in DOMAIN store.entries :
             store.entries[id] \in [id : Ids, name : Names, endedAt : 0..now]
      BY DEF Coherent, TypeOK
    <3> QED
      BY <2>2, <3>1
  <2> QED
    BY <2>1, <2>2, <2>3 DEF Coherent, TypeOK
<1>8. CASE UNCHANGED vars
  BY <1>8 DEF Coherent, TypeOK, vars
<1> QED
  BY <1>1, <1>4, <1>5, <1>6, <1>7, <1>8 DEF Next

LEMMA InitCoherent == Init => Coherent
<1> SUFFICES ASSUME Init PROVE Coherent
  OBVIOUS
<1>1. PICK c \in Capacities : store = EmptyStore(c)
  BY DEF Init
<1>2. store.order = << >> /\ store.entries = << >> /\ store.capacity = c
  BY <1>1 DEF EmptyStore, Store
<1>3. << >> \in Seq(Ids) /\ DOMAIN << >> = {} /\ c \in Nat /\ Cardinality({}) = 0
  BY EmptySeq, FS_EmptySet, TombstoneStoreAssumption
<1>4. 0 \in 0..MaxTime
  BY TombstoneStoreAssumption
<1> QED
  BY <1>2, <1>3, <1>4 DEF Init, Coherent, TypeOK, Range, IsInjective

\* The map and the insertion order never get out of step, whatever is
\* inserted, replaced, evicted or expired in whatever order (TombstoneStore).
THEOREM StoreIsCoherent == Spec => []Coherent
BY InitCoherent, CoherentHolds, PTL DEF Spec
-----------------------------------------------------------------------------
(* The store keeps the shelf's promises.                                    *)

LEMMA SameParts ==
    /\ \A q, some : Shelf!Selected(q, some) = Selected(q, some)
    /\ \A q, few : Shelf!TailOf(q, few) = TailOf(q, few)
<1>1. \A some : Shelf!Cardinality(some) = Cardinality(some)
  BY DEF Shelf!Cardinality, Cardinality
<1>2. \A some, place : Shelf!Place(some, place) = Place(some, place)
  BY <1>1 DEF Shelf!Place, Place
<1>3. \A q, some : Shelf!Selected(q, some) = Selected(q, some)
  BY <1>1, <1>2 DEF Shelf!Selected, Selected
<1>4. \A q, few : Shelf!TailOf(q, few) = TailOf(q, few)
  BY DEF Shelf!TailOf, TailOf, Shelf!Skip, Skip, Shelf!SatSub, SatSub
<1> QED
  BY <1>3, <1>4

\* A purge leaves the shelf what is fresh.
LEMMA PurgeOnShelf ==
    ASSUME Coherent
    PROVE  Shelf!Only(OnShelf(store), Shelf!FreshOnes) = OnShelf(PurgeExpired(store, now))
<1> DEFINE shown == OnShelf(store)
<1>1. Filed(store, now) /\ \A tomb : tomb \in Ended(now) => tomb \in TombstoneRecord
  BY CoherentIsFiled, EndedIsRecord
<1>2. /\ DOMAIN shown = DOMAIN store.order
      /\ \A i \in DOMAIN store.order : /\ store.order[i] \in DOMAIN store.entries
                                       /\ shown[i] = store.entries[store.order[i]]
  BY <1>1, ShelfTyped
<1>3. \A i \in DOMAIN store.order : shown[i] \in TombstoneRecord
  BY <1>1, <1>2 DEF Filed
<1> HIDE DEF shown
<1>4. {i \in DOMAIN shown : shown[i] \in Shelf!FreshOnes} = Current(store, now)
  BY <1>2, <1>3 DEF Shelf!FreshOnes, Current, Fresh
<1>5. Shelf!Only(shown, Shelf!FreshOnes) = Selected(shown, Current(store, now))
  BY <1>4, SameParts DEF Shelf!Only
<1>6. OnShelf(PurgeExpired(store, now)) = Selected(OnShelf(store), Current(store, now))
  BY <1>1, PurgeFiles
<1> QED
  BY <1>5, <1>6 DEF shown

\* The departure of an older tombstone leaves the shelf the other sessions'.
LEMMA ReplaceOnShelf ==
    ASSUME Coherent, NEW st, Filed(st, now), NEW id
    PROVE  Shelf!Only(OnShelf(st), {u \in TombstoneRecord : u.id # id}) = OnShelf(Replace(st, id))
<1> DEFINE shown == OnShelf(st)
           others == {u \in TombstoneRecord : u.id # id}
<1>1. \A tomb : tomb \in Ended(now) => tomb \in TombstoneRecord
  BY EndedIsRecord
<1>2. /\ DOMAIN shown = DOMAIN st.order
      /\ \A i \in DOMAIN st.order : /\ st.order[i] \in DOMAIN st.entries
                                    /\ shown[i] = st.entries[st.order[i]]
                                    /\ shown[i].id = st.order[i]
  BY ShelfTyped
<1>3. \A i \in DOMAIN st.order : shown[i] \in TombstoneRecord
  BY <1>1, <1>2 DEF Filed
<1> HIDE DEF shown
<1>4. {i \in DOMAIN shown : shown[i] \in others} = {i \in DOMAIN st.order : st.order[i] # id}
  BY <1>2, <1>3
<1> HIDE DEF others
<1>5. Shelf!Only(shown, others) = Selected(shown, {i \in DOMAIN st.order : st.order[i] # id})
  BY <1>4, SameParts DEF Shelf!Only
<1>6. OnShelf(Replace(st, id)) = Selected(OnShelf(st), {i \in DOMAIN st.order : st.order[i] # id})
  BY ReplaceFiles
<1> QED
  BY <1>5, <1>6 DEF shown, others

\* A lookup by id finds what the shelf has last of that id.
LEMMA GetOnShelf ==
    ASSUME Coherent, NEW st, Filed(st, now), NEW id
    PROVE  Get(st, id) = Shelf!LastOf(OnShelf(st), {u \in TombstoneRecord : u.id = id})
<1> DEFINE shown == OnShelf(st)
           wanted == {u \in TombstoneRecord : u.id = id}
           some == {i \in DOMAIN st.order : st.order[i] = id}
           last == CHOOSE i \in some : \A j \in some : j <= i
<1>1. \A tomb : tomb \in Ended(now) => tomb \in TombstoneRecord
  BY EndedIsRecord
<1>2. /\ DOMAIN shown = DOMAIN st.order
      /\ \A i \in DOMAIN st.order : /\ st.order[i] \in DOMAIN st.entries
                                    /\ shown[i] = st.entries[st.order[i]]
                                    /\ shown[i].id = st.order[i]
      /\ DOMAIN st.order = 1..Len(st.order) /\ Len(st.order) \in Nat
  BY ShelfTyped
<1>3. \A i \in DOMAIN st.order : shown[i] \in TombstoneRecord
  BY <1>1, <1>2 DEF Filed
<1> HIDE DEF shown
<1>4. {i \in DOMAIN shown : shown[i] \in wanted} = some
  BY <1>2, <1>3
<1> HIDE DEF wanted
<1>5. Shelf!LastOf(shown, wanted) = IF some = {} THEN NoTombstone ELSE shown[last]
  <2> DEFINE places == {i \in DOMAIN shown : shown[i] \in wanted}
  <2>1. Shelf!LastOf(shown, wanted) =
          IF places = {} THEN NoTombstone
          ELSE shown[CHOOSE i \in places : \A j \in places : j <= i]
    BY DEF Shelf!LastOf
  <2>2. places = some
    BY <1>4
  <2> HIDE DEF places, some
  <2> QED
    BY <2>1, <2>2, Zenon
<1>6. some # {} => last \in some
  BY <1>2, GreatestPlace
<1>7. some # {} <=> id \in DOMAIN st.entries
  BY DEF Filed, Range
<1>8. some # {} => shown[last] = st.entries[id]
  BY <1>2, <1>6
<1> HIDE DEF some, last
<1>9. Get(st, id) = Shelf!LastOf(shown, wanted)
  BY <1>5, <1>7, <1>8 DEF Get
<1> QED
  BY <1>9 DEF shown, wanted

\* A lookup by name finds what the shelf has last of that name.
LEMMA NewestOnShelf ==
    ASSUME Coherent, NEW st, Filed(st, now), NEW called
    PROVE  NewestByName(st, called) =
             Shelf!LastOf(OnShelf(st), {u \in TombstoneRecord : u.name = called})
<1> DEFINE shown == OnShelf(st)
           wanted == {u \in TombstoneRecord : u.name = called}
           some == {i \in DOMAIN st.order : /\ st.order[i] \in DOMAIN st.entries
                                           /\ st.entries[st.order[i]].name = called}
           last == CHOOSE i \in some : \A j \in some : j <= i
<1>1. \A tomb : tomb \in Ended(now) => tomb \in TombstoneRecord
  BY EndedIsRecord
<1>2. /\ DOMAIN shown = DOMAIN st.order
      /\ \A i \in DOMAIN st.order : /\ st.order[i] \in DOMAIN st.entries
                                    /\ shown[i] = st.entries[st.order[i]]
      /\ DOMAIN st.order = 1..Len(st.order) /\ Len(st.order) \in Nat
  BY ShelfTyped
<1>3. \A i \in DOMAIN st.order : shown[i] \in TombstoneRecord
  BY <1>1, <1>2 DEF Filed
<1> HIDE DEF shown
<1>4. {i \in DOMAIN shown : shown[i] \in wanted} = some
  BY <1>2, <1>3
<1> HIDE DEF wanted
<1>5. Shelf!LastOf(shown, wanted) = IF some = {} THEN NoTombstone ELSE shown[last]
  <2> DEFINE places == {i \in DOMAIN shown : shown[i] \in wanted}
  <2>1. Shelf!LastOf(shown, wanted) =
          IF places = {} THEN NoTombstone
          ELSE shown[CHOOSE i \in places : \A j \in places : j <= i]
    BY DEF Shelf!LastOf
  <2>2. places = some
    BY <1>4
  <2> HIDE DEF places, some
  <2> QED
    BY <2>1, <2>2, Zenon
<1>6. some # {} => last \in some
  BY <1>2, GreatestPlace
<1>7. some # {} => shown[last] = st.entries[st.order[last]]
  BY <1>2, <1>6
<1>8. NewestByName(st, called) = IF some = {} THEN NoTombstone ELSE st.entries[st.order[last]]
  BY DEF NewestByName
<1> HIDE DEF some, last
<1>9. NewestByName(st, called) = Shelf!LastOf(shown, wanted)
  BY <1>5, <1>7, <1>8
<1> QED
  BY <1>9 DEF shown, wanted

LEMMA InitOnShelf == Init => Shelf!ShelfInit
<1> SUFFICES ASSUME Init PROVE Shelf!ShelfInit
  OBVIOUS
<1>1. PICK c \in Capacities : store = EmptyStore(c)
  BY DEF Init
<1>2. store.order = << >> /\ store.entries = << >> /\ store.capacity = c
  BY <1>1 DEF EmptyStore, Store
<1>3. c \in Nat /\ DOMAIN << >> = {}
  BY TombstoneStoreAssumption
<1>4. [i \in DOMAIN store.order |-> store.entries[store.order[i]]] = << >>
  BY <1>2, <1>3
<1> QED
  BY <1>2, <1>3, <1>4 DEF Init, Shelf!ShelfInit

\* Every step of the store is a step of the shelf, or changes nothing of it.
LEMMA StepsOnShelf ==
    Coherent /\ [Next]_vars =>
        \/ Shelf!ShelfNext
        \/ UNCHANGED <<OnShelf(store), store.capacity, now, answer>>
<1> SUFFICES ASSUME Coherent, [Next]_vars
             PROVE  \/ Shelf!ShelfNext
                    \/ UNCHANGED <<OnShelf(store), store.capacity, now, answer>>
  OBVIOUS
<1> DEFINE p == PurgeExpired(store, now)
           shown == OnShelf(store)
           left == Shelf!Only(shown, Shelf!FreshOnes)
<1>0. /\ Filed(store, now) /\ store.capacity \in Nat /\ Len(store.order) <= store.capacity
      /\ Filed(p, now) /\ p.capacity = store.capacity /\ left = OnShelf(p)
  BY CoherentIsFiled, PurgeStays, PurgeOnShelf
<1>1. ASSUME NEW t \in TombstoneRecord, InsertTombstone(t) PROVE Shelf!ShelfNext
  <2> DEFINE new == Insert(store, t, now)
             others == {u \in TombstoneRecord : u.id # t.id}
  <2>1. store' = new /\ now' = now /\ answer' = answer /\ t \in Ended(now) /\ t.endedAt <= now
    BY <1>1, EndedIsRecord DEF InsertTombstone
  <2>2. /\ new.capacity = store.capacity
        /\ OnShelf(new) = TailOf(Append(OnShelf(Cleared(store, t.id, now)), t), store.capacity)
    BY <1>0, <2>1, InsertFiles
  <2>3. OnShelf(Cleared(store, t.id, now)) = Shelf!Only(left, others)
    <3>1. Shelf!Only(OnShelf(p), others) = OnShelf(Replace(p, t.id))
      BY <1>0, ReplaceOnShelf
    <3> QED
      BY <1>0, <3>1 DEF Cleared
  <2> HIDE DEF new, others
  <2>4. OnShelf(store') = Shelf!TailOf(Append(Shelf!Only(left, others), t), store.capacity)
    BY <2>1, <2>2, <2>3, SameParts
  <2>5. Shelf!Record(t)
    BY <2>1, <2>2, <2>4 DEF Shelf!Record, OnShelf, others
  <2> QED
    BY <2>5 DEF Shelf!ShelfNext
<1>2. ASSUME NEW id \in Ids, GetById(id) PROVE Shelf!ShelfNext
  <2>1. store' = p /\ answer' = Get(p, id) /\ now' = now
    BY <1>2 DEF GetById
  <2> DEFINE wanted == {u \in TombstoneRecord : u.id = id}
  <2>2. Get(p, id) = Shelf!LastOf(OnShelf(p), wanted)
    BY <1>0, GetOnShelf
  <2> HIDE DEF wanted, p
  <2>3. Shelf!Find(wanted)
    BY <1>0, <2>1, <2>2 DEF Shelf!Find, OnShelf
  <2>4. PICK called \in Names : TRUE
    BY TombstoneStoreAssumption
  <2>5. [id |-> id, name |-> called, endedAt |-> 0] \in TombstoneRecord
    BY TombstoneStoreAssumption DEF TombstoneRecord
  <2>6. PICK t \in TombstoneRecord : t.id = id
    BY <2>5
  <2>7. Shelf!Find({u \in TombstoneRecord : u.id = t.id})
    BY <2>3, <2>6 DEF wanted
  <2> QED
    BY <2>7 DEF Shelf!ShelfNext
<1>3. ASSUME NEW called \in Names, GetNewestByName(called) PROVE Shelf!ShelfNext
  <2>1. store' = p /\ answer' = NewestByName(p, called) /\ now' = now
    BY <1>3 DEF GetNewestByName
  <2> DEFINE wanted == {u \in TombstoneRecord : u.name = called}
  <2>2. NewestByName(p, called) = Shelf!LastOf(OnShelf(p), wanted)
    BY <1>0, NewestOnShelf
  <2> HIDE DEF wanted, p
  <2>3. Shelf!Find(wanted)
    BY <1>0, <2>1, <2>2 DEF Shelf!Find, OnShelf
  <2>4. PICK id \in Ids : TRUE
    BY TombstoneStoreAssumption
  <2>5. [id |-> id, name |-> called, endedAt |-> 0] \in TombstoneRecord
    BY TombstoneStoreAssumption DEF TombstoneRecord
  <2>6. PICK t \in TombstoneRecord : t.name = called
    BY <2>5
  <2>7. Shelf!Find({u \in TombstoneRecord : u.name = t.name})
    BY <2>3, <2>6 DEF wanted
  <2> QED
    BY <2>7 DEF Shelf!ShelfNext
<1>4. CASE Purge
  <2>1. store' = p /\ answer' = answer /\ now' = now
    BY <1>4 DEF Purge
  <2> HIDE DEF p
  <2>2. Shelf!Discard
    BY <1>0, <2>1 DEF Shelf!Discard, OnShelf
  <2> QED
    BY <2>2 DEF Shelf!ShelfNext
<1>5. CASE Tick
  <2>1. Shelf!Pass
    BY <1>5 DEF Tick, Shelf!Pass
  <2> QED
    BY <2>1 DEF Shelf!ShelfNext
<1>6. CASE UNCHANGED vars
  BY <1>6 DEF vars, OnShelf
<1> QED
  BY <1>1, <1>2, <1>3, <1>4, <1>5, <1>6 DEF Next

\* The two structures do what the shelf promises of order, replacement,
\* eviction, expiry and the answers of the lookups (TombstoneStore::insert,
\* get, newest_by_name, purge_expired).
THEOREM StoreImplementsShelf == Spec => ImplementsShelf
<1>1. Init => Shelf!ShelfInit
  BY InitOnShelf
<1>2. Coherent /\ [Next]_vars =>
        [Shelf!ShelfNext]_<<[i \in DOMAIN store.order |-> store.entries[store.order[i]]],
                            store.capacity, now, answer>>
  BY StepsOnShelf DEF OnShelf
<1> QED
  BY <1>1, <1>2, StoreIsCoherent, PTL DEF Spec, ImplementsShelf, Shelf!ShelfSpec
=============================================================================
