---------------------------- MODULE RetentionRing ----------------------------
(***************************************************************************)
(* One session's RetentionRing over its life: created with the session's   *)
(* capacity, fed one pump batch at a time, copied by `output`, `status`    *)
(* and the tombstone.  The history variable stream is everything the pump  *)
(* ever appended; it is what the retained evidence is judged against.      *)
(***************************************************************************)
EXTENDS Retention

CONSTANTS
    Bytes,        \* values of an output byte
    Capacities,   \* retain_bytes values a session may be spawned with
    TailBytes,    \* TOMBSTONE_OUTPUT_BYTES, the cap on a tombstone's output
    MaxBatch,     \* bound: longest batch the pump appends
    MaxStream     \* bound: bytes appended over the whole life

\* Capacities are usize byte counts; one that reaches u64::MAX cannot exist.
ASSUME CapacityAssumption ==
    /\ Capacities \subseteq Nat
    /\ \A c \in Capacities : c < MaxCount
    /\ TailBytes \in Nat
    /\ MaxBatch \in Nat
    /\ MaxStream \in Nat

VARIABLES
    ring,         \* the RetentionRing
    stream        \* history: every byte appended, in order

vars == <<ring, stream>>

Init ==
    /\ \E c \in Capacities : ring = NewRing(c)
    /\ stream = <<>>

\* The pump appends a batch; it never appends an empty one (a zero-length
\* read is EOF).
AppendBatch(output) ==
    /\ Len(stream) + Len(output) <= MaxStream
    /\ ring' = RingAppend(ring, output)
    /\ stream' = stream \o output

Batches == UNION {[1..n -> Bytes] : n \in 1..MaxBatch}

Next == \E output \in Batches : AppendBatch(output)

Spec == Init /\ [][Next]_vars
-----------------------------------------------------------------------------
TypeOK ==
    /\ ring \in [bytes : Seq(Bytes), capacity : Capacities, totalBytes : 0..MaxCount]
    /\ stream \in Seq(Bytes)

\* The ring always holds exactly the most recent output, as much of it as the
\* capacity allows, whatever the sizes of the batches it arrived in.
RetainedIsTail == ring.bytes = TailOf(stream, ring.capacity)

\* s reports its own loss: its bytes are the end of the stream, its total
\* is every byte ever appended (up to the saturation of the counter), its counts
\* add up, and it says truncated exactly when a byte of the stream is missing.
Honest(s) ==
    /\ s.totalBytes = IF Len(stream) > MaxCount THEN MaxCount ELSE Len(stream)
    /\ s.bytes = TailOf(stream, s.retainedBytes)
    /\ s.retainedBytes + s.droppedBytes = s.totalBytes
    /\ s.truncated <=> Len(s.bytes) < Len(stream)

\* "truncation always reported": both for the live copy and for the 64 KiB
\* tail a tombstone keeps.
LossReported ==
    /\ Honest(RingSnapshot(ring))
    /\ Honest(IntoTail(RingSnapshot(ring), TailBytes))

\* What is kept is the newest: the ring holds it, and a tombstone the most recent
\* of the session's output that both the ring and its own limit allow.
NewestKept ==
    /\ RetainedIsTail
    /\ IntoTail(RingSnapshot(ring), TailBytes).bytes =
        TailOf(stream, IF TailBytes < ring.capacity THEN TailBytes ELSE ring.capacity)
=============================================================================
