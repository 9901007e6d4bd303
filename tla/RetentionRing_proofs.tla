------------------------ MODULE RetentionRing_proofs ------------------------
(***************************************************************************)
(* For every byte alphabet, every capacity below u64::MAX and every        *)
(* tombstone limit, the ring holds exactly the newest output and reports   *)
(* exactly what it lost.                                                   *)
(***************************************************************************)
EXTENDS RetentionRing, SequenceParts_proofs

\* The counter is the length of the stream until it saturates.
Counted == ring.totalBytes = IF Len(stream) > MaxCount THEN MaxCount ELSE Len(stream)

\* Inductive: the tail is only kept from append to append together with its
\* type, and the honesty of a copy needs the counter as well.
RingInv == TypeOK /\ RetainedIsTail /\ Counted

LEMMA InitEstablishes == Init => RingInv
<1> SUFFICES ASSUME Init PROVE RingInv
  OBVIOUS
<1>1. PICK c \in Capacities : ring = NewRing(c)
  BY DEF Init
<1>2. c \in Nat /\ MaxCount \in Nat
  BY <1>1, CapacityAssumption, MaxCountAssumption
<1>3. ring = [bytes |-> << >>, capacity |-> c, totalBytes |-> 0]
  BY <1>1 DEF NewRing
<1>4. stream = << >> /\ << >> \in Seq(Bytes) /\ Len(<< >>) = 0
  BY EmptySeq DEF Init
<1>5. TailOf(<< >>, c) = << >>
  <2>1. << >> \in Seq(Bytes) /\ Len(<< >>) <= c
    BY <1>2, <1>4
  <2> QED
    BY <1>2, <2>1, TailOfProperties
<1> QED
  BY <1>2, <1>3, <1>4, <1>5 DEF RingInv, TypeOK, RetainedIsTail, Counted

LEMMA AppendPreserves ==
    ASSUME RingInv, NEW output \in Batches, AppendBatch(output)
    PROVE  RingInv'
<1>1. output \in Seq(Bytes)
  BY CapacityAssumption DEF Batches
<1>2. /\ stream \in Seq(Bytes) /\ Len(stream) \in Nat /\ Len(output) \in Nat
      /\ ring \in [bytes : Seq(Bytes), capacity : Capacities, totalBytes : 0..MaxCount]
      /\ ring.capacity \in Nat /\ MaxCount \in Nat
  BY <1>1, LenProperties, CapacityAssumption, MaxCountAssumption DEF RingInv, TypeOK
<1>3. /\ stream' = stream \o output
      /\ stream' \in Seq(Bytes) /\ Len(stream') = Len(stream) + Len(output)
  BY <1>1, <1>2, ConcatProperties DEF AppendBatch
<1>4. /\ ring'.capacity = ring.capacity
      /\ ring'.totalBytes = SatAdd(ring.totalBytes, Len(output))
      /\ ring'.bytes = Retained(ring.bytes, ring.capacity, output)
      /\ ring' = [bytes |-> ring'.bytes, capacity |-> ring'.capacity,
                  totalBytes |-> ring'.totalBytes]
  BY <1>2 DEF AppendBatch, RingAppend
<1>5. ring'.bytes = TailOf(stream', ring'.capacity)
  BY <1>1, <1>2, <1>3, <1>4, AppendKeepsTail DEF RingInv, RetainedIsTail
<1>6. ring'.bytes \in Seq(Bytes)
  <2>1. stream' \in Seq(Bytes) /\ ring'.capacity \in Nat
    BY <1>2, <1>3, <1>4
  <2>2. TailOf(stream', ring'.capacity) \in Seq(Bytes)
    BY <2>1, TailOfProperties
  <2> QED
    BY <1>5, <2>2
<1>7. /\ ring'.totalBytes = IF Len(stream') > MaxCount THEN MaxCount ELSE Len(stream')
      /\ ring'.totalBytes \in 0..MaxCount
  BY <1>2, <1>3, <1>4 DEF RingInv, Counted, SatAdd
<1> QED
  BY <1>2, <1>3, <1>4, <1>5, <1>6, <1>7 DEF RingInv, TypeOK, RetainedIsTail, Counted

\* Every reachable ring is the tail of its stream, with a correct counter.
THEOREM RingInvariant == Spec => []RingInv
<1>1. RingInv /\ [Next]_vars => RingInv'
  <2> SUFFICES ASSUME RingInv, [Next]_vars PROVE RingInv'
    OBVIOUS
  <2>1. CASE Next
    BY <2>1, AppendPreserves DEF Next
  <2>2. CASE UNCHANGED vars
    BY <2>2 DEF vars, RingInv, TypeOK, RetainedIsTail, Counted
  <2> QED
    BY <2>1, <2>2
<1> QED
  BY <1>1, InitEstablishes, PTL DEF Spec

-----------------------------------------------------------------------------
\* The accounting of n or fewer bytes of a stream of x, counted up to m.
LEMMA CountsAgree ==
    ASSUME NEW x \in Nat, NEW m \in Nat, NEW n \in Nat, n < m
    PROVE  LET b == IF x > n THEN n ELSE x
               t == IF x > m THEN m ELSE x
           IN  /\ b + SatSub(t, b) = t
               /\ (SatSub(t, b) > 0) <=> b < x
BY DEF SatSub

\* A copy cut to any capacity a ring or a tombstone can have is honest.
LEMMA TailIsHonest ==
    ASSUME RingInv, NEW n \in Nat, n < MaxCount
    PROVE  Honest(Account(TailOf(stream, n), ring.totalBytes))
<1> DEFINE b == TailOf(stream, n)
<1>1. stream \in Seq(Bytes) /\ Len(stream) \in Nat /\ MaxCount \in Nat
  BY LenProperties, MaxCountAssumption DEF RingInv, TypeOK
<1>2. Len(b) = IF Len(stream) > n THEN n ELSE Len(stream)
  BY <1>1, TailOfProperties
<1>3. ring.totalBytes = IF Len(stream) > MaxCount THEN MaxCount ELSE Len(stream)
  BY DEF RingInv, Counted
<1>4. b = TailOf(stream, Len(b))
  BY <1>1, TailOfOwnLength
<1> HIDE DEF b
<1>5. /\ Len(b) + SatSub(ring.totalBytes, Len(b)) = ring.totalBytes
      /\ (SatSub(ring.totalBytes, Len(b)) > 0) <=> Len(b) < Len(stream)
  BY <1>1, <1>2, <1>3, CountsAgree
<1>6. Honest(Account(b, ring.totalBytes))
  BY <1>3, <1>4, <1>5 DEF Honest, Account
<1> QED
  BY <1>6 DEF b

\* What a tombstone keeps of the ring, in terms of the stream.
LEMMA TombstoneTail ==
    ASSUME RingInv
    PROVE  IntoTail(RingSnapshot(ring), TailBytes) =
             Account(TailOf(stream, IF TailBytes < ring.capacity THEN TailBytes ELSE ring.capacity),
                     ring.totalBytes)
<1>1. stream \in Seq(Bytes) /\ ring.capacity \in Nat /\ TailBytes \in Nat
  BY CapacityAssumption DEF RingInv, TypeOK
<1>2. ring.bytes = TailOf(stream, ring.capacity)
  BY DEF RingInv, RetainedIsTail
<1>3. TailOf(ring.bytes, TailBytes) =
        TailOf(stream, IF TailBytes < ring.capacity THEN TailBytes ELSE ring.capacity)
  BY <1>1, <1>2, TailOfTail
<1> QED
  BY <1>3 DEF IntoTail, RingSnapshot, Account

\* Truncation is always reported, by the live copy and by the tombstone's.
THEOREM RingReportsLoss == Spec => []LossReported
<1>1. RingInv => LossReported
  <2> SUFFICES ASSUME RingInv PROVE LossReported
    OBVIOUS
  <2> DEFINE n == IF TailBytes < ring.capacity THEN TailBytes ELSE ring.capacity
  <2>1. /\ ring.capacity \in Nat /\ ring.capacity < MaxCount
        /\ TailBytes \in Nat /\ MaxCount \in Nat
    BY CapacityAssumption, MaxCountAssumption DEF RingInv, TypeOK
  <2>2. n \in Nat /\ n < MaxCount
    BY <2>1
  <2>3. Honest(Account(TailOf(stream, n), ring.totalBytes))
    BY <2>2, TailIsHonest
  <2>4. Honest(Account(TailOf(stream, ring.capacity), ring.totalBytes))
    BY <2>1, TailIsHonest
  <2> QED
    BY <2>3, <2>4, TombstoneTail DEF LossReported, RingSnapshot, RingInv, RetainedIsTail
<1> QED
  BY <1>1, RingInvariant, PTL

\* The ring holds the newest output, however the pump batches it, and a tombstone the
\* newest of it that its own limit allows (RetentionRing::append, into_tail).
THEOREM RingKeepsNewest == Spec => []NewestKept
<1>1. RingInv => NewestKept
  BY TombstoneTail DEF NewestKept, Account, RingInv
<1> QED
  BY <1>1, RingInvariant, PTL
=============================================================================
