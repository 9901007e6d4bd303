------------------------------ MODULE Retention ------------------------------
(***************************************************************************)
(* The arithmetic of a session's retention ring (daemon/retention.rs): the *)
(* bounded tail of raw PTY output and the accounting every reader of it    *)
(* sees.  Operators only; RetentionRing.tla is the state machine and       *)
(* OutputPump.tla feeds the same operators from the output pump.           *)
(***************************************************************************)
EXTENDS SequenceParts

CONSTANT MaxCount   \* u64::MAX, where total_bytes saturates

ASSUME MaxCountAssumption == MaxCount \in Nat \ {0}

SatAdd(a, b) == IF a + b > MaxCount THEN MaxCount ELSE a + b

NewRing(capacity) ==
    [bytes |-> <<>>, capacity |-> capacity, totalBytes |-> 0]

RingAppend(ring, output) ==
    [ring EXCEPT !.totalBytes = SatAdd(@, Len(output)),
                 !.bytes = Retained(@, ring.capacity, output)]

\* The accounting RetentionRing::snapshot and RetentionSnapshot::into_tail
\* both derive from the bytes they hand out.
Account(bytes, total) ==
    [bytes |-> bytes, totalBytes |-> total, retainedBytes |-> Len(bytes),
     droppedBytes |-> SatSub(total, Len(bytes)),
     truncated |-> SatSub(total, Len(bytes)) > 0]

RingSnapshot(ring) == Account(ring.bytes, ring.totalBytes)

\* A fault: the tail keeps the accounting of the whole copy.
IntoTailStaleCounts(snapshot, capacity) ==
    [snapshot EXCEPT !.bytes = TailOf(@, capacity)]

IntoTail(snapshot, capacity) ==
    Account(TailOf(snapshot.bytes, capacity), snapshot.totalBytes)
=============================================================================
