---------------------------- MODULE SequenceParts ----------------------------
(***************************************************************************)
(* Parts of a sequence, as the code takes them: the rest after a drain,    *)
(* the newest so many elements, the ones a condition retains, and what a   *)
(* bounded buffer keeps of what it held and what it is given.              *)
(***************************************************************************)
EXTENDS Integers, Sequences, FiniteSets

SatSub(a, b) == IF a > b THEN a - b ELSE 0

\* s without its first n elements (VecDeque::drain(..n), bytes[n..]).
Skip(s, n) == SubSeq(s, n + 1, Len(s))

\* The last n elements of s, all of s when it is shorter.
TailOf(s, n) == Skip(s, SatSub(Len(s), n))

\* Which of some places is the k-th, counted from the front.
Place(at, k) == CHOOSE i \in at : Cardinality({j \in at : j <= i}) = k

\* The elements of s at some places, in their order (VecDeque::retain).
Selected(s, at) ==
    IF at = DOMAIN s THEN s ELSE [k \in 1..Cardinality(at) |-> s[Place(at, k)]]

\* A fault: the room the new output needs is forgotten when draining.
RetainedOverfull(bytes, capacity, output) ==
    IF capacity = 0 THEN <<>>
    ELSE IF Len(output) >= capacity THEN Skip(output, Len(output) - capacity)
    ELSE Skip(bytes, SatSub(Len(bytes), capacity)) \o output

\* What the ring holds after output: nothing with a zero capacity, the tail
\* of an output that fills the ring alone, else output after the old bytes
\* that still fit.
Retained(bytes, capacity, output) ==
    IF capacity = 0 THEN <<>>
    ELSE IF Len(output) >= capacity THEN Skip(output, Len(output) - capacity)
    ELSE Skip(bytes, SatSub(Len(bytes) + Len(output), capacity)) \o output
=============================================================================
