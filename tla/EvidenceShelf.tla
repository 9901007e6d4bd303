--------------------------- MODULE EvidenceShelf ---------------------------
(***************************************************************************)
(* What the tombstone store promises, without its two structures: a shelf  *)
(* of at most Capacity tombstones in the order they were put there, one    *)
(* per session, from which a tombstone leaves when it is older than the    *)
(* TTL, when its session is recorded again, or when it is the oldest and   *)
(* the shelf is full.  A lookup is answered from what is still fresh, by   *)
(* name with the last one put there.                                       *)
(***************************************************************************)
EXTENDS SequenceParts

CONSTANTS Tombstones, Nothing, TTL, MaxTime

VARIABLES shelf, capacity, now, answer

FreshOnes == {t \in Tombstones : now - t.endedAt < TTL}

Only(s, wanted) == Selected(s, {i \in DOMAIN s : s[i] \in wanted})

\* The last of the wanted tombstones that is there.
LastOf(s, wanted) ==
    LET at == {i \in DOMAIN s : s[i] \in wanted}
    IN  IF at = {} THEN Nothing ELSE s[CHOOSE i \in at : \A j \in at : j <= i]

ShelfInit == shelf = <<>> /\ now = 0 /\ answer = Nothing /\ capacity \in Nat

Record(t) ==
    LET others == {u \in Tombstones : u.id # t.id}
    IN  /\ t.endedAt <= now
        /\ shelf' = TailOf(Append(Only(Only(shelf, FreshOnes), others), t), capacity)
        /\ UNCHANGED <<capacity, now, answer>>

Find(wanted) ==
    /\ shelf' = Only(shelf, FreshOnes)
    /\ answer' = LastOf(shelf', wanted)
    /\ UNCHANGED <<capacity, now>>

Discard == shelf' = Only(shelf, FreshOnes) /\ UNCHANGED <<capacity, now, answer>>

Pass == now < MaxTime /\ now' = now + 1 /\ UNCHANGED <<shelf, capacity, answer>>

ShelfNext ==
    \/ \E t \in Tombstones : Record(t)
    \/ \E t \in Tombstones : Find({u \in Tombstones : u.id = t.id})
    \/ \E t \in Tombstones : Find({u \in Tombstones : u.name = t.name})
    \/ Discard
    \/ Pass

ShelfSpec == ShelfInit /\ [][ShelfNext]_<<shelf, capacity, now, answer>>
=============================================================================
