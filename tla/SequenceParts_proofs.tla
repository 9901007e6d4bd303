------------------------ MODULE SequenceParts_proofs ------------------------
(***************************************************************************)
(* What the proofs of the other modules need of sequences: what a cut      *)
(* leaves, how tails add up, and what flattening a queue of chunks gives   *)
(* when one is sent or received.  FlattenSeq is defined by recursion over  *)
(* its argument; its lemmas are proved by induction over the naturals,     *)
(* stated of a set of numbers.                                             *)
(***************************************************************************)
EXTENDS SequenceParts, SequencesExt, SequenceTheorems, FiniteSetTheorems, WellFoundedInduction, TLAPS

\* A set of numbers that is not empty has a least element.
LEMMA LeastNumber ==
    ASSUME NEW T \in SUBSET Nat, T # {}
    PROVE  \E x \in T : \A y \in T : x <= y
<1> DEFINE R == OpToRel(<, Nat)
<1>1. IsWellFoundedOn(R, Nat)
  BY NatLessThanWellFounded
<1>2. \A x, y \in Nat : x < y => <<x, y>> \in R
  BY DEF OpToRel
<1> HIDE DEF R
<1>3. PICK x \in T : \A y \in T : <<y, x>> \notin R
  BY <1>1, WFMin
<1>4. \A y \in T : ~(y < x) /\ y \in Nat /\ x \in Nat
  BY <1>2, <1>3
<1> QED
  BY <1>3, <1>4

\* A set of places that is not empty has a greatest one.
LEMMA GreatestPlace ==
    ASSUME NEW n \in Nat, NEW T \in SUBSET (1..n), T # {}
    PROVE  \E x \in T : \A y \in T : y <= x
<1> DEFINE U == {n - x : x \in T}
<1>1. U \in SUBSET Nat /\ U # {}
  <2>1. \A x \in T : n - x \in Nat /\ n - x \in U
    OBVIOUS
  <2>2. \A v \in U : \E x \in T : v = n - x
    OBVIOUS
  <2> QED
    BY <2>1, <2>2
<1> HIDE DEF U
<1>2. PICK u \in U : \A v \in U : u <= v
  BY <1>1, LeastNumber
<1>3. PICK x \in T : u = n - x
  BY DEF U
<1>4. \A y \in T : n - x <= n - y
  BY <1>2, <1>3 DEF U
<1> QED
  BY <1>4

\* Induction over the naturals, stated of a set.
LEMMA SetInduction ==
    ASSUME NEW T, 0 \in T, \A n \in Nat : n \in T => n + 1 \in T
    PROVE  Nat \subseteq T
<1> SUFFICES ASSUME Nat \ T # {} PROVE FALSE
  OBVIOUS
<1>1. PICK x \in Nat \ T : \A y \in Nat \ T : x <= y
  BY LeastNumber
<1>2. x - 1 \in Nat /\ x - 1 \notin Nat \ T
  BY <1>1
<1> QED
  BY <1>1, <1>2

\* Induction over the naturals from all smaller ones, stated of a set.
LEMMA StrongInduction ==
    ASSUME NEW T, \A n \in Nat : (\A k \in 0..n - 1 : k \in T) => n \in T
    PROVE  Nat \subseteq T
<1> SUFFICES ASSUME Nat \ T # {} PROVE FALSE
  OBVIOUS
<1>1. PICK x \in Nat \ T : \A y \in Nat \ T : x <= y
  BY LeastNumber
<1>2. \A k \in 0..x - 1 : k \in T
  BY <1>1
<1> QED
  BY <1>1, <1>2
-----------------------------------------------------------------------------
\* What dropping a prefix leaves (drain(..n), bytes[n..]).
LEMMA SkipProperties ==
    ASSUME NEW S, NEW s \in Seq(S), NEW n \in 0..Len(s)
    PROVE  /\ Skip(s, n) \in Seq(S)
           /\ Len(Skip(s, n)) = Len(s) - n
           /\ \A i \in 1..(Len(s) - n) : Skip(s, n)[i] = s[n + i]
<1>1. n + 1 \in 1..Len(s) + 1 /\ Len(s) \in Nat /\ n \in Nat
  BY LenProperties
<1>2. CASE n = Len(s)
  <2>1. Skip(s, n) = << >>
    BY <1>1, <1>2, SubSeqProperties DEF Skip
  <2> QED
    BY <1>1, <1>2, <2>1
<1>3. CASE n < Len(s)
  BY <1>1, <1>3, SubSeqProperties DEF Skip
<1> QED
  BY <1>1, <1>2, <1>3

\* What joining two sequences gives, their lengths named.
LEMMA JoinedProperties ==
    ASSUME NEW S, NEW s \in Seq(S), NEW t \in Seq(S), NEW m, m = Len(s), NEW n, n = m + Len(t)
    PROVE  /\ s \o t \in Seq(S)
           /\ Len(s \o t) = n
           /\ \A i \in 1..n : (s \o t)[i] = IF i <= m THEN s[i] ELSE t[i - m]
  BY ConcatProperties

LEMMA AppendAfterConcat ==
    ASSUME NEW S, NEW a \in Seq(S), NEW b \in Seq(S), NEW e \in S
    PROVE  a \o Append(b, e) = Append(a \o b, e)
<1>1. <<e>> \in Seq(S) /\ a \o b \in Seq(S)
  BY ConcatProperties
<1>2. Append(b, e) = b \o <<e>>
  BY AppendIsConcat
<1>3. Append(a \o b, e) = (a \o b) \o <<e>>
  BY <1>1, AppendIsConcat
<1>4. (a \o b) \o <<e>> = a \o (b \o <<e>>)
  BY <1>1, ConcatAssociative
<1> QED
  BY <1>2, <1>3, <1>4

LEMMA TripleInSeq ==
    ASSUME NEW S, NEW a \in S, NEW b \in S, NEW c \in S
    PROVE  <<a, b, c>> \in Seq(S)
  OBVIOUS

\* What is cut out of a sequence.
LEMMA CutProperties ==
    ASSUME NEW S, NEW s \in Seq(S), NEW m \in 1..Len(s) + 1, NEW n \in m - 1..Len(s)
    PROVE  /\ SubSeq(s, m, n) \in Seq(S)
           /\ Len(SubSeq(s, m, n)) = n - m + 1
           /\ \A i \in 1..n - m + 1 : SubSeq(s, m, n)[i] = s[m + i - 1]
<1>1. m \in Int /\ n \in Int /\ Len(s) \in Nat /\ \A i \in m..n : s[i] \in S
  <2>1. Len(s) \in Nat
    BY LenProperties
  <2>2. \A i \in m..n : i \in 1..Len(s)
    BY <2>1
  <2> QED
    BY <2>1, <2>2, ElementOfSeq
<1>2. m <= n \/ n - m + 1 = 0
  BY <1>1
<1> QED
  BY <1>1, <1>2, SubSeqProperties

\* A piece of the front of a concatenation is one of its first part.
LEMMA CutOfFirst ==
    ASSUME NEW S, NEW s \in Seq(S), NEW t \in Seq(S),
           NEW m \in 1..Len(s) + 1, NEW n \in m - 1..Len(s)
    PROVE  SubSeq(s \o t, m, n) = SubSeq(s, m, n)
<1>1. Len(s) \in Nat
  BY LenProperties
<1>2. CASE m <= n
  BY <1>1, <1>2, SubSeqOfConcat1
<1>3. CASE n < m
  BY <1>1, <1>3, SubSeqEmpty
<1> QED
  BY <1>1, <1>2, <1>3

\* The tail of a sequence has the length asked for, or the whole sequence's.
LEMMA TailOfProperties ==
    ASSUME NEW S, NEW s \in Seq(S), NEW n \in Nat
    PROVE  /\ TailOf(s, n) \in Seq(S)
           /\ Len(TailOf(s, n)) = IF Len(s) > n THEN n ELSE Len(s)
           /\ Len(s) <= n => TailOf(s, n) = s
<1> DEFINE k == SatSub(Len(s), n)
<1>1. Len(s) \in Nat
  BY LenProperties
<1>2. k \in 0..Len(s) /\ Len(s) - k = IF Len(s) > n THEN n ELSE Len(s)
  BY <1>1 DEF SatSub
<1>3. /\ Skip(s, k) \in Seq(S)
      /\ Len(Skip(s, k)) = Len(s) - k
      /\ \A i \in 1..(Len(s) - k) : Skip(s, k)[i] = s[k + i]
  BY <1>2, SkipProperties
<1>4. ASSUME Len(s) <= n PROVE Skip(s, k) = s
  <2>1. k = 0
    BY <1>1, <1>4 DEF SatSub
  <2>2. Len(Skip(s, k)) = Len(s) /\ \A i \in 1..Len(s) : Skip(s, k)[i] = s[i]
    BY <1>1, <1>3, <2>1, LenProperties
  <2> QED
    BY <1>3, <2>2, SeqEqual
<1> QED
  BY <1>2, <1>3, <1>4 DEF TailOf

\* The arithmetic of two successive cuts of a sequence of length a.
LEMMA CutsAdd ==
    ASSUME NEW a \in Nat, NEW m \in Nat, NEW n \in Nat
    PROVE  /\ SatSub(a, m) \in 0..a
           /\ SatSub(a - SatSub(a, m), n) \in 0..(a - SatSub(a, m))
           /\ SatSub(a - SatSub(a, m), n) + SatSub(a, m) = SatSub(a, IF n < m THEN n ELSE m)
BY DEF SatSub

\* A tail of a tail is the shorter of the two tails.
LEMMA TailOfTail ==
    ASSUME NEW S, NEW s \in Seq(S), NEW m \in Nat, NEW n \in Nat
    PROVE  TailOf(TailOf(s, m), n) = TailOf(s, IF n < m THEN n ELSE m)
<1> DEFINE j == SatSub(Len(s), m)
           t == TailOf(s, m)
           k == SatSub(Len(t), n)
           l == IF n < m THEN n ELSE m
           r == SatSub(Len(s), l)
<1>1. Len(s) \in Nat /\ j \in 0..Len(s) /\ r \in 0..Len(s)
  BY LenProperties DEF SatSub
<1>2. t \in Seq(S) /\ Len(t) = Len(s) - j /\ \A i \in 1..(Len(s) - j) : t[i] = s[j + i]
  BY <1>1, SkipProperties DEF TailOf
<1>3. k \in 0..Len(t) /\ k + j = r
  <2>1. SatSub(Len(s) - j, n) \in 0..(Len(s) - j) /\ SatSub(Len(s) - j, n) + j = r
    BY <1>1, CutsAdd
  <2>2. Len(t) = Len(s) - j
    BY <1>2
  <2> QED
    BY <2>1, <2>2
<1> HIDE DEF j, t, k, r, l
<1>4. /\ Skip(t, k) \in Seq(S) /\ Len(Skip(t, k)) = Len(t) - k
      /\ \A i \in 1..(Len(t) - k) : Skip(t, k)[i] = t[k + i]
  BY <1>2, <1>3, SkipProperties
<1>5. /\ Skip(s, r) \in Seq(S) /\ Len(Skip(s, r)) = Len(s) - r
      /\ \A i \in 1..(Len(s) - r) : Skip(s, r)[i] = s[r + i]
  BY <1>1, SkipProperties
<1>6. Len(Skip(t, k)) = Len(Skip(s, r))
  <2>1. Len(Skip(t, k)) = Len(t) - k /\ Len(Skip(s, r)) = Len(s) - r /\ Len(t) = Len(s) - j
    BY <1>2, <1>4, <1>5
  <2> QED
    BY <1>1, <1>3, <2>1
<1>7. \A i \in 1..Len(Skip(t, k)) : Skip(t, k)[i] = Skip(s, r)[i]
  <2> TAKE i \in 1..Len(Skip(t, k))
  <2>1. i \in 1..(Len(t) - k) /\ k + i \in 1..(Len(s) - j) /\ i \in 1..(Len(s) - r)
    BY <1>1, <1>2, <1>3, <1>4, <1>5, <1>6
  <2>2. Skip(t, k)[i] = s[j + (k + i)] /\ Skip(s, r)[i] = s[r + i]
    BY <1>2, <1>4, <1>5, <2>1
  <2>3. j + (k + i) = r + i
    BY <1>1, <1>3, <2>1
  <2> QED
    BY <2>2, <2>3
<1> QED
  BY <1>4, <1>5, <1>6, <1>7, SeqEqual DEF TailOf, j, t, k, r, l

\* The arithmetic of an append of p bytes after a, into a ring of capacity c:
\* what is cut off the whole stream is what was cut before and what is drained.
LEMMA DrainAdds ==
    ASSUME NEW a \in Nat, NEW p \in Nat, NEW c \in Nat
    PROVE  /\ SatSub(a, c) \in 0..a
           /\ SatSub(a + p, c) \in 0..(a + p)
           /\ p >= c => SatSub(a + p, c) = a + (p - c)
           /\ p < c => LET b == a - SatSub(a, c)
                       IN  /\ SatSub(b + p, c) \in 0..b
                           /\ SatSub(a + p, c) = SatSub(a, c) + SatSub(b + p, c)
BY DEF SatSub

\* An append that fills the ring alone leaves the tail of the output.
LEMMA LongOutput ==
    ASSUME NEW S, NEW s \in Seq(S), NEW output \in Seq(S), NEW c \in Nat,
           Len(output) >= c
    PROVE  Skip(output, Len(output) - c) = TailOf(s \o output, c)
<1> DEFINE u == s \o output
           k == SatSub(Len(u), c)
           d == Len(output) - c
<1>1. /\ Len(s) \in Nat /\ Len(output) \in Nat
      /\ u \in Seq(S) /\ Len(u) = Len(s) + Len(output)
      /\ \A i \in 1..Len(u) : u[i] = IF i <= Len(s) THEN s[i] ELSE output[i - Len(s)]
  BY LenProperties, ConcatProperties
<1>2. d \in 0..Len(output) /\ k \in 0..Len(u) /\ k = Len(s) + d
  BY <1>1, DrainAdds
<1> HIDE DEF u, k, d
<1>3. /\ Skip(u, k) \in Seq(S) /\ Len(Skip(u, k)) = Len(u) - k
      /\ \A i \in 1..(Len(u) - k) : Skip(u, k)[i] = u[k + i]
  BY <1>1, <1>2, SkipProperties
<1>4. /\ Skip(output, d) \in Seq(S) /\ Len(Skip(output, d)) = Len(output) - d
      /\ \A i \in 1..(Len(output) - d) : Skip(output, d)[i] = output[d + i]
  BY <1>1, <1>2, SkipProperties
<1>5. Len(Skip(output, d)) = Len(Skip(u, k))
  BY <1>1, <1>2, <1>3, <1>4
<1>6. \A i \in 1..Len(Skip(output, d)) : Skip(output, d)[i] = Skip(u, k)[i]
  <2> TAKE i \in 1..Len(Skip(output, d))
  <2>1. i \in 1..(Len(output) - d) /\ i \in 1..(Len(u) - k) /\ k + i \in 1..Len(u)
    BY <1>1, <1>2, <1>3, <1>4, <1>5
  <2>2. ~(k + i <= Len(s)) /\ (k + i) - Len(s) = d + i
    BY <1>1, <1>2, <2>1
  <2> QED
    BY <1>1, <1>3, <1>4, <2>1, <2>2
<1> QED
  BY <1>3, <1>4, <1>5, <1>6, SeqEqual DEF TailOf, u, k, d

\* An append that leaves room keeps the newest of the old bytes before it.
LEMMA ShortOutput ==
    ASSUME NEW S, NEW s \in Seq(S), NEW output \in Seq(S), NEW c \in Nat,
           Len(output) < c
    PROVE  Skip(TailOf(s, c), SatSub(Len(TailOf(s, c)) + Len(output), c)) \o output
             = TailOf(s \o output, c)
<1> DEFINE t == TailOf(s, c)
           u == s \o output
           j == SatSub(Len(s), c)
           k == SatSub(Len(u), c)
           e == SatSub(Len(t) + Len(output), c)
           w == Skip(t, e)
           v == w \o output
<1>1. /\ Len(s) \in Nat /\ Len(output) \in Nat
      /\ u \in Seq(S) /\ Len(u) = Len(s) + Len(output)
      /\ \A i \in 1..Len(u) : u[i] = IF i <= Len(s) THEN s[i] ELSE output[i - Len(s)]
  BY LenProperties, ConcatProperties
<1>2. j \in 0..Len(s) /\ k \in 0..Len(u)
  BY <1>1, DrainAdds
<1>3. t \in Seq(S) /\ Len(t) = Len(s) - j /\ \A i \in 1..(Len(s) - j) : t[i] = s[j + i]
  BY <1>2, SkipProperties DEF TailOf
<1>4. e \in 0..Len(t) /\ k = j + e
  BY <1>1, <1>3, DrainAdds
<1> HIDE DEF t, u, j, k, e
<1>5. w \in Seq(S) /\ Len(w) = Len(t) - e /\ \A i \in 1..(Len(t) - e) : w[i] = t[e + i]
  BY <1>3, <1>4, SkipProperties
<1> HIDE DEF w
<1>6. /\ v \in Seq(S) /\ Len(v) = Len(w) + Len(output)
      /\ \A i \in 1..Len(v) : v[i] = IF i <= Len(w) THEN w[i] ELSE output[i - Len(w)]
  <2>1. w \in Seq(S)
    BY <1>5
  <2> QED
    BY <2>1, ConcatProperties
<1> HIDE DEF v
<1>7. /\ Skip(u, k) \in Seq(S) /\ Len(Skip(u, k)) = Len(u) - k
      /\ \A i \in 1..(Len(u) - k) : Skip(u, k)[i] = u[k + i]
  BY <1>1, <1>2, SkipProperties
<1>8. Len(v) = Len(Skip(u, k))
  BY <1>1, <1>2, <1>3, <1>4, <1>5, <1>6, <1>7
<1>9. \A i \in 1..Len(v) : v[i] = Skip(u, k)[i]
  <2> TAKE i \in 1..Len(v)
  <2>1. i \in 1..(Len(u) - k) /\ k + i \in 1..Len(u)
    BY <1>1, <1>2, <1>7, <1>8
  <2>2. CASE i <= Len(w)
    <3>1. i \in 1..(Len(t) - e) /\ e + i \in 1..(Len(s) - j) /\ k + i <= Len(s)
          /\ j + (e + i) = k + i
      BY <1>1, <1>2, <1>3, <1>4, <1>5, <2>1, <2>2
    <3>2. v[i] = s[k + i] /\ u[k + i] = s[k + i]
      BY <1>1, <1>3, <1>5, <1>6, <2>1, <2>2, <3>1
    <3> QED
      BY <1>7, <2>1, <3>2
  <2>3. CASE ~(i <= Len(w))
    <3>1. ~(k + i <= Len(s)) /\ (k + i) - Len(s) = i - Len(w)
      BY <1>1, <1>2, <1>3, <1>4, <1>5, <2>1, <2>3
    <3> QED
      BY <1>1, <1>6, <1>7, <2>1, <2>3, <3>1
  <2> QED
    BY <2>2, <2>3
<1> QED
  BY <1>6, <1>7, <1>8, <1>9, SeqEqual DEF TailOf, t, u, k, e, w, v

\* One append keeps the ring the tail of everything appended, for any batch.
LEMMA AppendKeepsTail ==
    ASSUME NEW S, NEW s \in Seq(S), NEW output \in Seq(S), NEW c \in Nat
    PROVE  Retained(TailOf(s, c), c, output) = TailOf(s \o output, c)
<1>1. s \o output \in Seq(S) /\ Len(output) \in Nat
  BY LenProperties, ConcatProperties
<1>2. CASE c = 0
  <2>1. Len(TailOf(s \o output, c)) = 0 /\ TailOf(s \o output, c) \in Seq(S)
    <3>1. Len(s \o output) \in Nat
      BY <1>1, LenProperties
    <3>2. /\ TailOf(s \o output, c) \in Seq(S)
          /\ Len(TailOf(s \o output, c)) = IF Len(s \o output) > c THEN c ELSE Len(s \o output)
      BY <1>1, TailOfProperties
    <3> QED
      BY <1>2, <3>1, <3>2
  <2>2. TailOf(s \o output, c) = << >>
    BY <2>1, EmptySeq
  <2> QED
    BY <1>2, <2>2 DEF Retained
<1>3. CASE c # 0 /\ Len(output) >= c
  BY <1>1, <1>3, LongOutput DEF Retained
<1>4. CASE c # 0 /\ ~(Len(output) >= c)
  <2>1. Len(output) < c
    BY <1>1, <1>4
  <2> QED
    BY <1>4, <2>1, ShortOutput DEF Retained
<1> QED
  BY <1>2, <1>3, <1>4

\* The tail that has room for all of t is the tail of what is before t, then t.
LEMMA TailOfJoined ==
    ASSUME NEW S, NEW s \in Seq(S), NEW t \in Seq(S), NEW n \in Nat
    PROVE  TailOf(s \o t, n + Len(t)) = TailOf(s, n) \o t
<1> DEFINE k == SatSub(Len(s), n)
           both == s \o t
           left == Skip(both, k)
           kept == Skip(s, k)
           right == kept \o t
<1>1. /\ Len(s) \in Nat /\ Len(t) \in Nat /\ both \in Seq(S)
      /\ Len(both) = Len(s) + Len(t)
  BY LenProperties, ConcatProperties
<1>2. \A i \in 1..Len(s) + Len(t) :
         both[i] = IF i <= Len(s) THEN s[i] ELSE t[i - Len(s)]
  BY JoinedProperties
<1> HIDE DEF both
<1>3. k \in 0..Len(s) /\ k \in 0..Len(both) /\ SatSub(Len(both), n + Len(t)) = k
  BY <1>1 DEF SatSub
<1> HIDE DEF k
<1>4. /\ left \in Seq(S) /\ Len(left) = Len(s) + Len(t) - k
      /\ \A i \in 1..Len(s) + Len(t) - k : left[i] = both[k + i]
  <2>1. /\ left \in Seq(S) /\ Len(left) = Len(both) - k
        /\ \A i \in 1..Len(both) - k : left[i] = both[k + i]
    BY <1>1, <1>3, SkipProperties
  <2> HIDE DEF left
  <2> QED
    BY <1>1, <1>3, <2>1
<1>5. /\ kept \in Seq(S) /\ Len(kept) = Len(s) - k
      /\ \A i \in 1..Len(s) - k : kept[i] = s[k + i]
  BY <1>3, SkipProperties
<1>6. /\ right \in Seq(S) /\ Len(right) = Len(s) + Len(t) - k
      /\ \A i \in 1..Len(s) + Len(t) - k :
            right[i] = IF i <= Len(s) - k THEN kept[i] ELSE t[i - (Len(s) - k)]
  <2>1. Len(s) + Len(t) - k = Len(s) - k + Len(t)
    BY <1>1, <1>3
  <2> HIDE DEF kept
  <2> QED
    BY <1>5, <2>1, JoinedProperties
<1> HIDE DEF left, right, kept
<1>7. ASSUME NEW i \in 1..Len(s) + Len(t) - k PROVE left[i] = right[i]
  <2>1. k + i \in 1..Len(s) + Len(t) /\ k + i - Len(s) = i - (Len(s) - k)
    BY <1>1, <1>3
  <2>2. PICK j \in 1..Len(s) + Len(t) : j = k + i
    BY <2>1
  <2>3. left[i] = both[j] /\ both[j] = IF j <= Len(s) THEN s[j] ELSE t[j - Len(s)]
    BY <1>2, <1>4, <2>2
  <2>4. CASE i <= Len(s) - k
    <3>1. i \in 1..Len(s) - k /\ j <= Len(s)
      BY <1>1, <1>3, <2>2, <2>4
    <3>2. right[i] = kept[i] /\ kept[i] = s[j]
      BY <1>5, <1>6, <2>2, <2>4, <3>1
    <3> QED
      BY <2>3, <3>1, <3>2
  <2>5. CASE ~(i <= Len(s) - k)
    <3>1. ~(j <= Len(s)) /\ j - Len(s) = i - (Len(s) - k)
      BY <1>1, <1>3, <2>2, <2>5
    <3>2. right[i] = t[j - Len(s)]
      BY <1>6, <2>5, <3>1
    <3> QED
      BY <2>3, <3>1, <3>2
  <2> QED
    BY <2>4, <2>5
<1>8. left = right
  BY <1>4, <1>6, <1>7, SeqEqual
<1> QED
  BY <1>3, <1>8 DEF TailOf, left, right, kept, both, k

\* Cutting a sequence to the length its tail already has changes nothing.
LEMMA TailOfOwnLength ==
    ASSUME NEW S, NEW s \in Seq(S), NEW n \in Nat
    PROVE  TailOf(s, Len(TailOf(s, n))) = TailOf(s, n)
<1>1. Len(s) \in Nat
  BY LenProperties
<1>2. CASE Len(s) > n
  BY <1>1, <1>2, TailOfProperties
<1>3. CASE ~(Len(s) > n)
  <2>1. TailOf(s, n) = s /\ TailOf(s, Len(s)) = s
    BY <1>1, <1>3, TailOfProperties
  <2> QED
    BY <2>1
<1> QED
  BY <1>2, <1>3
-----------------------------------------------------------------------------
\* Concatenation under a name the provers do not expand: they then reason
\* about it by the three facts below.
Cat(a, b) == a \o b

LEMMA CatType ==
    ASSUME NEW S, NEW a \in Seq(S), NEW b \in Seq(S)
    PROVE  Cat(a, b) \in Seq(S)
BY ConcatProperties DEF Cat

LEMMA CatAssociative ==
    ASSUME NEW S, NEW a \in Seq(S), NEW b \in Seq(S), NEW c \in Seq(S)
    PROVE  Cat(Cat(a, b), c) = Cat(a, Cat(b, c))
BY ConcatAssociative DEF Cat

LEMMA CatEmpty ==
    ASSUME NEW S, NEW a \in Seq(S)
    PROVE  Cat(a, << >>) = a /\ Cat(<< >>, a) = a
BY ConcatEmptySeq DEF Cat
-----------------------------------------------------------------------------
\* f is what FlattenSeq defines by recursion, up to the k-th sequence of c.
Flattens(f, c, k) ==
    f = [i \in 1..k |-> IF i = 1 THEN c[i] ELSE f[i - 1] \o c[i]]

\* What a solution is at the first sequence, and at each next one.
LEMMA FlattenFirst ==
    ASSUME NEW c, NEW f, NEW n \in Nat, n # 0, Flattens(f, c, n)
    PROVE  f[1] = c[1]
<1>1. \A i \in 1..n : f[i] = IF i = 1 THEN c[i] ELSE f[i - 1] \o c[i]
  BY Zenon DEF Flattens
<1>2. 1 \in 1..n
  OBVIOUS
<1> QED
  BY <1>1, <1>2

LEMMA FlattenNext ==
    ASSUME NEW c, NEW f, NEW n \in Nat, NEW k \in Nat, k # 0, k + 1 <= n, Flattens(f, c, n)
    PROVE  f[k + 1] = f[k] \o c[k + 1]
<1>1. \A i \in 1..n : f[i] = IF i = 1 THEN c[i] ELSE f[i - 1] \o c[i]
  BY Zenon DEF Flattens
<1>2. k + 1 \in 1..n /\ k + 1 # 1 /\ (k + 1) - 1 = k
  OBVIOUS
<1>3. f[k + 1] = f[(k + 1) - 1] \o c[k + 1]
  BY <1>1, <1>2
<1> QED
  BY <1>2, <1>3

\* The recursion has a solution, for as many sequences as there are.
LEMMA FlattenExists ==
    ASSUME NEW c, NEW n \in Nat
    PROVE  \E f : Flattens(f, c, n)
<1> DEFINE T == {k \in Nat : \E f : Flattens(f, c, k)}
<1>1. 0 \in T
  <2>1. Flattens([i \in 1..0 |-> << >>], c, 0)
    BY DEF Flattens
  <2> QED
    BY <2>1
<1>2. ASSUME NEW k \in Nat, k \in T PROVE k + 1 \in T
  <2>1. PICK f : Flattens(f, c, k)
    BY <1>2
  <2> DEFINE g == [i \in 1..(k + 1) |->
                     IF i = k + 1 THEN IF k = 0 THEN c[i] ELSE f[k] \o c[i] ELSE f[i]]
  <2>2. \A i \in 1..(k + 1) : g[i] = IF i = 1 THEN c[i] ELSE g[i - 1] \o c[i]
    <3> TAKE i \in 1..(k + 1)
    <3>1. CASE i = 1
      <4>1. k # 0 => g[1] = f[1]
        OBVIOUS
      <4> QED
        BY <2>1, <3>1, <4>1, FlattenFirst, FlattenNext
    <3>2. CASE i # 1 /\ i = k + 1
      <4>1. k # 0 /\ i - 1 = k /\ k \in 1..(k + 1) /\ k # k + 1
        BY <3>2
      <4>2. g[i] = f[k] \o c[i]
        BY <3>2, <4>1
      <4>3. g[k] = f[k]
        BY <4>1
      <4> QED
        BY <3>2, <4>1, <4>2, <4>3
    <3>3. CASE i # 1 /\ i # k + 1
      <4>1. /\ i - 1 \in Nat /\ i - 1 # 0 /\ (i - 1) + 1 <= k /\ (i - 1) + 1 = i
            /\ g[i] = f[i] /\ g[i - 1] = f[i - 1]
        BY <3>3
      <4>2. f[(i - 1) + 1] = f[i - 1] \o c[(i - 1) + 1]
        BY ZenonT(30), <2>1, <4>1, FlattenNext
      <4>3. f[i] = f[i - 1] \o c[i]
        BY <4>1, <4>2
      <4> QED
        BY <3>3, <4>1, <4>3
    <3> QED
      BY <3>1, <3>2, <3>3
  <2>3. Flattens(g, c, k + 1)
    BY <2>2 DEF Flattens
  <2> QED
    BY <2>3
<1>3. Nat \subseteq T
  <2> HIDE DEF T
  <2> QED
    BY <1>1, <1>2, SetInduction
<1> QED
  BY <1>3

\* One that is not empty is flattened by any solution.
LEMMA FlattenIs ==
    ASSUME NEW c, Len(c) \in Nat \ {0}
    PROVE  \E f : Flattens(f, c, Len(c)) /\ FlattenSeq(c) = f[Len(c)]
<1>1. \E f : Flattens(f, c, Len(c))
  BY FlattenExists
<1> QED
  BY <1>1 DEF FlattenSeq, Flattens

LEMMA FlattenEmpty == FlattenSeq(<< >>) = << >>
BY DEF FlattenSeq

\* Solutions agree where the sequences do.
LEMMA FlattensAgree ==
    ASSUME NEW c, NEW d, NEW f, NEW g, NEW m \in Nat, NEW n \in Nat, m <= n,
           Flattens(f, c, m), Flattens(g, d, n),
           \A i \in 1..m : c[i] = d[i]
    PROVE  \A i \in 1..m : f[i] = g[i]
<1> DEFINE T == {k \in Nat : k \in 1..m => f[k] = g[k]}
<1>1. 0 \in T
  OBVIOUS
<1>2. ASSUME NEW k \in Nat, k \in T PROVE k + 1 \in T
  <2> SUFFICES ASSUME k + 1 \in 1..m PROVE f[k + 1] = g[k + 1]
    OBVIOUS
  <2>1. CASE k = 0
    BY <2>1, FlattenFirst, FlattenNext
  <2>2. CASE k # 0
    <3>1. f[k] = g[k] /\ c[k + 1] = d[k + 1] /\ k + 1 <= m /\ k + 1 <= n
      BY <1>2, <2>2
    <3>2. f[k + 1] = f[k] \o c[k + 1]
      BY <2>2, <3>1, FlattenFirst, FlattenNext
    <3>3. g[k + 1] = g[k] \o d[k + 1]
      BY <2>2, <3>1, FlattenFirst, FlattenNext
    <3> QED
      BY <3>1, <3>2, <3>3
  <2> QED
    BY <2>1, <2>2
<1>3. Nat \subseteq T
  <2> HIDE DEF T
  <2> QED
    BY <1>1, <1>2, SetInduction
<1> QED
  BY <1>3

\* Flattening keeps the elements' type.
LEMMA FlattenType ==
    ASSUME NEW S, NEW c \in Seq(Seq(S))
    PROVE  FlattenSeq(c) \in Seq(S)
<1>1. CASE Len(c) = 0
  BY <1>1, EmptySeq DEF FlattenSeq
<1>2. CASE Len(c) # 0
  <2>1. Len(c) \in Nat \ {0}
    BY <1>2, LenProperties
  <2>2. PICK f : Flattens(f, c, Len(c)) /\ FlattenSeq(c) = f[Len(c)]
    BY <2>1, FlattenIs
  <2> DEFINE T == {k \in Nat : k \in 1..Len(c) => f[k] \in Seq(S)}
  <2>3. 0 \in T
    OBVIOUS
  <2>4. ASSUME NEW k \in Nat, k \in T PROVE k + 1 \in T
    <3> SUFFICES ASSUME k + 1 \in 1..Len(c) PROVE f[k + 1] \in Seq(S)
      OBVIOUS
    <3>1. c[k + 1] \in Seq(S)
      BY ElementOfSeq
    <3>2. CASE k = 0
      BY <2>1, <2>2, <3>1, <3>2, FlattenFirst, FlattenNext
    <3>3. CASE k # 0
      <4>1. k + 1 <= Len(c) /\ f[k] \in Seq(S)
        BY <2>1, <2>4, <3>3
      <4>2. f[k + 1] = f[k] \o c[k + 1]
        BY <2>1, <2>2, <3>3, <4>1, FlattenFirst, FlattenNext
      <4> QED
        BY <3>1, <4>1, <4>2, ConcatProperties
    <3> QED
      BY <3>2, <3>3
  <2>5. Nat \subseteq T
    <3> HIDE DEF T
    <3> QED
      BY <2>3, <2>4, SetInduction
  <2> QED
    BY <2>1, <2>2, <2>5
<1> QED
  BY <1>1, <1>2

\* A sequence sent last comes out last.
LEMMA FlattenAppend ==
    ASSUME NEW S, NEW c \in Seq(Seq(S)), NEW x \in Seq(S)
    PROVE  FlattenSeq(Append(c, x)) = FlattenSeq(c) \o x
<1> DEFINE d == Append(c, x)
           n == Len(c)
<1>1. /\ n \in Nat /\ d \in Seq(Seq(S)) /\ Len(d) = n + 1 /\ d[n + 1] = x
      /\ \A i \in 1..n : d[i] = c[i]
  BY LenProperties, AppendProperties
<1> HIDE DEF d
<1>2. PICK g : Flattens(g, d, n + 1) /\ FlattenSeq(d) = g[n + 1]
  BY SMTT(30), <1>1, FlattenIs
<1>3. CASE n = 0
  <2>1. c = << >> /\ FlattenSeq(c) = << >>
    BY <1>3, EmptySeq, FlattenEmpty
  <2>2. g[n + 1] = x
    BY <1>1, <1>2, <1>3, FlattenFirst, FlattenNext
  <2> QED
    BY <1>2, <2>1, <2>2, ConcatEmptySeq DEF d
<1>4. CASE n # 0
  <2>1. PICK f : Flattens(f, c, n) /\ FlattenSeq(c) = f[n]
    BY <1>1, <1>4, FlattenIs
  <2>2. f[n] = g[n]
    <3>1. \A i \in 1..n : c[i] = d[i]
      BY <1>1
    <3>2. n + 1 \in Nat /\ n <= n + 1 /\ n \in 1..n
      BY <1>1, <1>4
    <3>3. \A i \in 1..n : f[i] = g[i]
      <4>1. Flattens(f, c, n) /\ Flattens(g, d, n + 1)
        BY <1>2, <2>1
      <4> HIDE DEF n
      <4> QED
        BY <1>1, <3>1, <3>2, <4>1, FlattensAgree
    <3> QED
      BY <3>2, <3>3
  <2>3. g[n + 1] = g[n] \o d[n + 1]
    <3>1. Flattens(g, d, n + 1) /\ n \in Nat /\ n + 1 \in Nat /\ n + 1 <= n + 1
      BY <1>1, <1>2
    <3> HIDE DEF n
    <3> QED
      BY <1>4, <3>1, FlattenNext
  <2> QED
    BY <1>1, <1>2, <2>1, <2>2, <2>3 DEF d
<1> QED
  BY <1>3, <1>4

\* c is h and then the n sequences of d.
Follows(S, d, c, h, n) == h = c[1] /\ \A i \in 1..n : d[i] = c[i + 1] /\ d[i] \in Seq(S)

\* f has put h before what g has after n sequences.
Ahead(f, g, h, n) == f[n + 1] = h \o g[n]

\* Solutions over a sequence and over its tail differ by its head.
LEMMA FlattensShift ==
    ASSUME NEW S, NEW c, NEW d, NEW f, NEW g, NEW h \in Seq(S), NEW n \in Nat, NEW m \in Nat,
           n # 0, n < m,
           Follows(S, d, c, h, n), Flattens(f, c, m), Flattens(g, d, n)
    PROVE  Ahead(f, g, h, n)
<1>1. \A i \in 1..n : d[i] = c[i + 1] /\ d[i] \in Seq(S)
  BY DEF Follows
<1>2. f[1] = h /\ g[1] = d[1]
  BY FlattenFirst DEF Follows
<1>3. ASSUME NEW k \in 1..n PROVE f[k + 1] = f[k] \o d[k]
  <2>1. k \in Nat /\ k # 0 /\ k + 1 <= m /\ m # 0
    OBVIOUS
  <2>2. f[k + 1] = f[k] \o c[k + 1]
    BY <2>1, FlattenNext
  <2> QED
    BY <1>1, <2>2
<1>4. ASSUME NEW k \in Nat, k # 0 /\ k + 1 <= n PROVE g[k + 1] = g[k] \o d[k + 1]
  BY <1>4, FlattenNext
<1> DEFINE Shifted(k) == g[k] \in Seq(S) /\ f[k + 1] = h \o g[k]
           T == {k \in Nat : k \in 1..n => Shifted(k)}
<1>5. \A k \in 1..n : Shifted(k)
  <2>1. 0 \in T
    OBVIOUS
  <2>2. ASSUME NEW k \in Nat, k \in T PROVE k + 1 \in T
    <3> SUFFICES ASSUME k + 1 \in 1..n PROVE Shifted(k + 1)
      <4> HIDE DEF Shifted
      <4> QED
        OBVIOUS
    <3>1. f[(k + 1) + 1] = f[k + 1] \o d[k + 1] /\ d[k + 1] \in Seq(S)
      BY <1>1, <1>3
    <3>2. CASE k = 0
      <4>1. f[k + 1] = h /\ g[k + 1] = d[k + 1]
        BY <1>2, <3>2
      <4> QED
        BY <1>1, <3>1, <4>1
    <3>3. CASE k # 0
      <4>1. k \in 1..n /\ k + 1 <= n
        BY <3>3
      <4>2. Shifted(k)
        <5> HIDE DEF Shifted
        <5> QED
          BY <2>2, <4>1
      <4>3. g[k + 1] = g[k] \o d[k + 1]
        BY <1>4, <3>3, <4>1
      <4>4. g[k] \in Seq(S) /\ g[k + 1] \in Seq(S)
        BY <3>1, <4>2, <4>3, ConcatProperties
      <4>5. (h \o g[k]) \o d[k + 1] = h \o (g[k] \o d[k + 1])
        <5> DEFINE v == g[k]
                   w == d[k + 1]
        <5>1. v \in Seq(S) /\ w \in Seq(S)
          BY <3>1, <4>4
        <5> HIDE DEF v, w
        <5>2. (h \o v) \o w = h \o (v \o w)
          BY SMTT(30), <5>1, ConcatAssociative
        <5> QED
          BY <5>2 DEF v, w
      <4> QED
        BY <1>1, <3>1, <4>2, <4>3, <4>4, <4>5
    <3> QED
      BY <3>2, <3>3
  <2>3. Nat \subseteq T
    <3> HIDE DEF T
    <3> QED
      BY <2>1, <2>2, SetInduction
  <2> HIDE DEF Shifted
  <2> QED
    BY <2>3
<1>6. n \in 1..n
  OBVIOUS
<1>7. Shifted(n)
  <2> HIDE DEF Shifted
  <2> QED
    BY <1>5, <1>6
<1> QED
  BY <1>7 DEF Ahead

\* The sequence received first comes out first.
LEMMA FlattenHeadTail ==
    ASSUME NEW S, NEW c \in Seq(Seq(S)), Len(c) # 0
    PROVE  FlattenSeq(c) = Head(c) \o FlattenSeq(Tail(c))
<1> DEFINE d == Tail(c)
           n == Len(d)
<1>1. c # << >>
  BY EmptySeq
<1>2. /\ Head(c) = c[1] /\ c[1] \in Seq(S)
      /\ d \in Seq(Seq(S)) /\ n \in Nat /\ Len(c) = n + 1
      /\ \A i \in 1..n : d[i] = c[i + 1] /\ d[i] \in Seq(S)
  BY <1>1, HeadTailProperties, LenProperties, ElementOfSeq
<1> HIDE DEF d
<1>3. PICK f : Flattens(f, c, n + 1) /\ FlattenSeq(c) = f[n + 1]
  <2>1. Len(c) \in Nat \ {0} /\ Len(c) = n + 1
    BY <1>2
  <2> QED
    BY <2>1, FlattenIs
<1> HIDE DEF n
<1>4. f[1] = c[1]
  BY <1>2, <1>3, FlattenFirst
<1>5. CASE n = 0
  <2>1. d = << >> /\ FlattenSeq(d) = << >>
    BY <1>2, <1>5, EmptySeq, FlattenEmpty DEF n
  <2>2. f[n + 1] = c[1] /\ c[1] \o << >> = c[1]
    BY <1>2, <1>4, <1>5, ConcatEmptySeq
  <2>3. FlattenSeq(c) = Head(c) \o FlattenSeq(d)
    BY <1>2, <1>3, <2>1, <2>2
  <2> QED
    BY <2>3 DEF d
<1>6. CASE n # 0
  <2>1. PICK g : Flattens(g, d, n) /\ FlattenSeq(d) = g[n]
    BY <1>2, <1>6, FlattenIs DEF n
  <2> DEFINE h == c[1]
  <2>2. h \in Seq(S) /\ Follows(S, d, c, h, n)
    BY <1>2 DEF Follows
  <2> HIDE DEF h
  <2>3. n \in Nat /\ n + 1 \in Nat /\ n < n + 1 /\ n # 0 /\ Flattens(f, c, n + 1) /\ Flattens(g, d, n)
    BY <1>2, <1>3, <1>6, <2>1
  <2>4. Ahead(f, g, h, n)
    BY <2>2, <2>3, FlattensShift
  <2> QED
    BY <1>2, <1>3, <2>1, <2>4 DEF Ahead, d, h
<1> QED
  BY <1>2, <1>5, <1>6
-----------------------------------------------------------------------------
\* What it is to be a prefix, element by element.
LEMMA PrefixElements ==
    ASSUME NEW S, NEW s \in Seq(S), NEW t \in Seq(S)
    PROVE  IsPrefix(s, t) <=> Len(s) <= Len(t) /\ \A i \in 1..Len(s) : s[i] = t[i]
<1>1. Len(s) \in Nat /\ Len(t) \in Nat
  BY LenProperties
<1>2. SubSeq(s, 1, Len(s)) = s
  BY SubSeqFull
<1>3. ASSUME Len(s) <= Len(t)
      PROVE  s = SubSeq(t, 1, Len(s)) <=> \A i \in 1..Len(s) : s[i] = t[i]
  <2> DEFINE u == SubSeq(t, 1, Len(s))
  <2>1. u \in Seq(S) /\ Len(u) = Len(s) /\ \A i \in 1..Len(s) : u[i] = t[i]
    <3>1. CASE Len(s) = 0
      <4>1. u = << >>
        BY <3>1, SubSeqProperties
      <4> QED
        BY <3>1, <4>1
    <3>2. CASE Len(s) # 0
      <4>1. 1 \in 1..Len(t) + 1 /\ Len(s) \in 1..Len(t)
        BY <1>1, <1>3, <3>2
      <4>2. u \in Seq(S) /\ Len(u) = IF 1 <= Len(s) THEN Len(s) - 1 + 1 ELSE 0
        BY <4>1, SubSeqProperties
      <4>3. \A i \in 1..(Len(s) - 1 + 1) : u[i] = t[1 + i - 1]
        BY <1>1, <4>1, SubSeqProperties
      <4>4. Len(s) - 1 + 1 = Len(s) /\ \A i \in 1..Len(s) : 1 + i - 1 = i
        BY <1>1
      <4> QED
        BY <1>1, <3>2, <4>2, <4>3, <4>4
    <3> QED
      BY <3>1, <3>2
  <2> HIDE DEF u
  <2> QED
    BY <2>1, SeqEqual DEF u
<1> QED
  BY <1>1, <1>2, <1>3 DEF IsPrefix

\* A sequence is a prefix of every sequence that starts with a longer one.
LEMMA PrefixOfConcat ==
    ASSUME NEW S, NEW s \in Seq(S), NEW t \in Seq(S), NEW u \in Seq(S)
    PROVE  /\ IsPrefix(s, s)
           /\ IsPrefix(s, s \o u)
           /\ IsPrefix(s, t) => IsPrefix(s, t \o u) /\ Len(s) <= Len(t)
<1>1. /\ Len(s) \in Nat /\ Len(t) \in Nat /\ Len(u) \in Nat
      /\ s \o u \in Seq(S) /\ Len(s \o u) = Len(s) + Len(u)
      /\ t \o u \in Seq(S) /\ Len(t \o u) = Len(t) + Len(u)
  BY LenProperties, ConcatProperties
<1>2. /\ \A i \in 1..Len(s) : s[i] = (s \o u)[i]
      /\ \A i \in 1..Len(t) : t[i] = (t \o u)[i]
  <2>1. /\ \A i \in 1..Len(s) : i \in 1..Len(s) + Len(u) /\ i <= Len(s)
        /\ \A i \in 1..Len(t) : i \in 1..Len(t) + Len(u) /\ i <= Len(t)
    BY <1>1
  <2> QED
    BY <2>1, ConcatProperties
<1>3. IsPrefix(s, s) /\ IsPrefix(s, s \o u)
  <2>1. Len(s) <= Len(s) /\ \A i \in 1..Len(s) : s[i] = s[i]
    BY <1>1
  <2>2. Len(s) <= Len(s \o u)
    BY <1>1
  <2>3. IsPrefix(s, s)
    BY <2>1, PrefixElements
  <2> HIDE DEF IsPrefix
  <2>4. IsPrefix(s, s \o u)
    BY <1>1, <1>2, <2>2, PrefixElements
  <2> QED
    BY <2>3, <2>4
<1>4. ASSUME IsPrefix(s, t) PROVE IsPrefix(s, t \o u) /\ Len(s) <= Len(t)
  <2>1. Len(s) <= Len(t) /\ \A i \in 1..Len(s) : s[i] = t[i]
    BY <1>4, PrefixElements
  <2>2. Len(s) <= Len(t \o u) /\ \A i \in 1..Len(s) : s[i] = (t \o u)[i]
    BY <1>1, <1>2, <2>1
  <2> QED
    BY <1>1, <2>1, <2>2, PrefixElements
<1> QED
  BY <1>3, <1>4
-----------------------------------------------------------------------------
\* Places are numbered without a gap: to each number up to how many there are
\* belongs a place, to each place a number, and to two numbers never the same;
\* the number is how many places there are up to it.
LEMMA PlacesAreNumbered ==
    ASSUME NEW n \in Nat, NEW at \in SUBSET (1..n)
    PROVE  /\ Cardinality(at) \in Nat
           /\ \A k \in 1..Cardinality(at) : Place(at, k) \in at
           /\ \A i \in at : \E k \in 1..Cardinality(at) : Place(at, k) = i
           /\ \A k \in 1..Cardinality(at), l \in 1..Cardinality(at) :
                 Place(at, k) = Place(at, l) => k = l
           /\ \A k \in 1..Cardinality(at) : Cardinality({j \in at : j <= Place(at, k)}) = k
           /\ \A i \in at : Place(at, Cardinality({j \in at : j <= i})) = i
<1> DEFINE upto(i) == {j \in at : j <= i}
           N == Cardinality(at)
           rank == [i \in at |-> Cardinality(upto(i))]
<1>1. IsFiniteSet(at) /\ N \in Nat
  <2>1. IsFiniteSet(1..n)
    BY FS_Interval
  <2>2. IsFiniteSet(at)
    BY <2>1, FS_Subset
  <2> QED
    BY <2>2, FS_CardinalityType
<1>2. \A i \in at : upto(i) \in SUBSET at /\ IsFiniteSet(upto(i)) /\ Cardinality(upto(i)) \in 1..N
  <2> SUFFICES ASSUME NEW i \in at
               PROVE  upto(i) \in SUBSET at /\ IsFiniteSet(upto(i)) /\ Cardinality(upto(i)) \in 1..N
    OBVIOUS
  <2>1. upto(i) \in SUBSET at /\ i \in upto(i)
    OBVIOUS
  <2> HIDE DEF upto
  <2>2. IsFiniteSet(upto(i)) /\ Cardinality(upto(i)) <= N
    BY <1>1, <2>1, FS_Subset
  <2>3. Cardinality(upto(i)) \in Nat /\ Cardinality(upto(i)) # 0
    BY <2>1, <2>2, FS_CardinalityType, FS_EmptySet
  <2> QED
    BY <1>1, <2>1, <2>2, <2>3
<1>3. \A i \in at, j \in at : i < j => rank[i] < rank[j]
  <2> SUFFICES ASSUME NEW i \in at, NEW j \in at, i < j PROVE Cardinality(upto(i)) < Cardinality(upto(j))
    OBVIOUS
  <2>0. \A x \in at : x \in Int
    OBVIOUS
  <2>1. upto(i) \in SUBSET upto(j) /\ j \in upto(j) /\ j \notin upto(i)
    <3>1. \A x \in upto(i) : x \in upto(j)
      BY <2>0
    <3>2. j \in upto(j)
      BY <2>0
    <3>3. j \notin upto(i)
      BY <2>0
    <3> HIDE DEF upto
    <3> QED
      BY <3>1, <3>2, <3>3
  <2>2. IsFiniteSet(upto(j)) /\ Cardinality(upto(i)) \in Nat /\ Cardinality(upto(j)) \in Nat
    BY <1>2
  <2> HIDE DEF upto
  <2>3. Cardinality(upto(i)) <= Cardinality(upto(j)) /\ Cardinality(upto(i)) # Cardinality(upto(j))
    BY <2>1, <2>2, FS_Subset
  <2> QED
    BY <2>2, <2>3
<1>4. rank \in [at -> 1..N] /\ \A i \in at : rank[i] \in Nat
  BY <1>1, <1>2
<1>5. \A i \in at, j \in at : rank[i] = rank[j] => i = j
  <2> SUFFICES ASSUME NEW i \in at, NEW j \in at, i # j PROVE rank[i] # rank[j]
    OBVIOUS
  <2>1. i < j \/ j < i
    OBVIOUS
  <2>2. rank[i] \in Nat /\ rank[j] \in Nat
    BY <1>4
  <2>3. rank[i] < rank[j] \/ rank[j] < rank[i]
    BY <1>3, <2>1
  <2> HIDE DEF rank
  <2> QED
    BY <2>2, <2>3
<1> HIDE DEF rank
<1>6. rank \in Injection(at, 1..N)
  BY <1>4, <1>5 DEF Injection, IsInjective
<1>7. rank \in Surjection(at, 1..N)
  <2>1. IsFiniteSet(1..N) /\ Cardinality(1..N) = N
    BY <1>1, FS_Interval
  <2> QED
    BY <1>6, <2>1, FS_Injection
<1>8. \A k \in 1..N : Place(at, k) \in at /\ rank[Place(at, k)] = k
  <2> SUFFICES ASSUME NEW k \in 1..N PROVE Place(at, k) \in at /\ rank[Place(at, k)] = k
    OBVIOUS
  <2>1. \E i \in at : rank[i] = k
    BY <1>7 DEF Surjection
  <2>2. Place(at, k) = CHOOSE i \in at : rank[i] = k
    BY DEF Place, rank
  <2> QED
    BY <2>1, <2>2
<1>9. \A i \in at : rank[i] \in 1..N /\ Place(at, rank[i]) = i
  BY <1>4, <1>5, <1>8
<1>10. \A i \in at : rank[i] = Cardinality({j \in at : j <= i})
  BY DEF rank
<1>11. \A k \in 1..N : Cardinality({j \in at : j <= Place(at, k)}) = k
  BY <1>8, <1>10
<1>12. \A i \in at : Place(at, Cardinality({j \in at : j <= i})) = i
  BY <1>9, <1>10
<1> QED
  BY <1>1, <1>8, <1>9, <1>11, <1>12

\* Places behind the others change nothing of the numbers of those.
LEMMA PlacesStay ==
    ASSUME NEW n \in Nat, NEW m \in Nat, n <= m, NEW at \in SUBSET (1..n), NEW more \in SUBSET (1..m),
           \A i \in 1..n : i \in at <=> i \in more
    PROVE  /\ Cardinality(at) \in Nat /\ Cardinality(more) \in Nat
           /\ Cardinality(at) <= Cardinality(more)
           /\ \A k \in 1..Cardinality(at) : Place(more, k) = Place(at, k)
<1>1. at \in SUBSET more
  OBVIOUS
<1>2. /\ Cardinality(at) \in Nat /\ Cardinality(more) \in Nat
      /\ \A k \in 1..Cardinality(at) : Place(at, k) \in at
      /\ \A k \in 1..Cardinality(at) : Cardinality({j \in at : j <= Place(at, k)}) = k
      /\ \A i \in more : Place(more, Cardinality({j \in more : j <= i})) = i
  BY PlacesAreNumbered
<1>3. Cardinality(at) <= Cardinality(more)
  <2>1. IsFiniteSet(1..m)
    BY FS_Interval
  <2>2. IsFiniteSet(more)
    BY <2>1, FS_Subset
  <2> QED
    BY <1>1, <2>2, FS_Subset
<1>4. ASSUME NEW i \in at
      PROVE  {j \in at : j <= i} = {j \in more : j <= i}
  <2>1. \A j \in more : j <= i => j \in 1..n
    OBVIOUS
  <2> QED
    BY <1>1, <2>1
<1>5. ASSUME NEW k \in 1..Cardinality(at)
      PROVE  Place(more, k) = Place(at, k)
  <2>1. Place(at, k) \in at /\ Place(at, k) \in more
    BY <1>1, <1>2
  <2>2. Cardinality({j \in more : j <= Place(at, k)}) = k
    BY <1>2, <1>4, <2>1
  <2> QED
    BY <1>2, <2>1, <2>2
<1> QED
  BY <1>2, <1>3, <1>5

\* What is selected: the elements at the places, no more and no others.
LEMMA SelectedProperties ==
    ASSUME NEW S, NEW s \in Seq(S), NEW at \in SUBSET DOMAIN s
    PROVE  /\ Selected(s, at) \in Seq(S)
           /\ Range(Selected(s, at)) = {s[i] : i \in at}
           /\ IsInjective(s) => IsInjective(Selected(s, at))
<1>1. CASE at = DOMAIN s
  BY <1>1 DEF Selected, Range
<1>2. CASE at # DOMAIN s
  <2> DEFINE N == Cardinality(at)
             r == [k \in 1..N |-> s[Place(at, k)]]
  <2>1. Selected(s, at) = r
    BY <1>2 DEF Selected
  <2>2. DOMAIN s = 1..Len(s) /\ Len(s) \in Nat
    BY LenProperties
  <2>3. /\ N \in Nat
        /\ \A k \in 1..N : Place(at, k) \in at
        /\ \A i \in at : \E k \in 1..N : Place(at, k) = i
        /\ \A k \in 1..N, l \in 1..N : Place(at, k) = Place(at, l) => k = l
    BY <2>2, PlacesAreNumbered
  <2>4. \A i \in at : s[i] \in S
    BY <2>2, ElementOfSeq
  <2> HIDE DEF N
  <2>5. r \in Seq(S)
    <3>1. r \in [1..N -> S]
      BY <2>3, <2>4
    <3> QED
      BY <2>3, <3>1, SeqDef
  <2>6. DOMAIN r = 1..N /\ \A k \in 1..N : r[k] = s[Place(at, k)]
    OBVIOUS
  <2> HIDE DEF r
  <2>7. Range(r) = {s[i] : i \in at}
    BY <2>3, <2>6 DEF Range
  <2>8. ASSUME IsInjective(s) PROVE IsInjective(r)
    BY <2>3, <2>6, <2>8 DEF IsInjective
  <2> QED
    BY <2>1, <2>5, <2>7, <2>8
<1> QED
  BY <1>1, <1>2

\* The k-th selected element is the one at the k-th place.
LEMMA SelectedElements ==
    ASSUME NEW S, NEW s \in Seq(S), NEW at \in SUBSET DOMAIN s
    PROVE  /\ Cardinality(at) \in Nat
           /\ Len(Selected(s, at)) = Cardinality(at)
           /\ DOMAIN Selected(s, at) = 1..Cardinality(at)
           /\ \A k \in 1..Cardinality(at) : Selected(s, at)[k] = s[Place(at, k)]
           /\ \A k \in 1..Cardinality(at) : Place(at, k) \in at
<1>1. Len(s) \in Nat /\ DOMAIN s = 1..Len(s)
  BY LenProperties
<1>2. /\ Cardinality(at) \in Nat
      /\ \A k \in 1..Cardinality(at) : Place(at, k) \in at
      /\ \A i \in at : Place(at, Cardinality({j \in at : j <= i})) = i
  BY <1>1, PlacesAreNumbered
<1>3. CASE at = DOMAIN s
  <2>1. Cardinality(at) = Len(s)
    BY <1>1, <1>3, FS_Interval
  <2>2. ASSUME NEW k \in 1..Len(s) PROVE Place(at, k) = k
    <3>1. {j \in at : j <= k} = 1..k
      BY <1>1, <1>3
    <3>2. Cardinality(1..k) = k
      BY FS_Interval
    <3> QED
      BY <1>1, <1>2, <1>3, <3>1, <3>2
  <2>3. Selected(s, at) = s
    BY <1>3 DEF Selected
  <2> QED
    BY <1>1, <1>2, <2>1, <2>2, <2>3
<1>4. CASE at # DOMAIN s
  <2> DEFINE r == [k \in 1..Cardinality(at) |-> s[Place(at, k)]]
  <2>1. Selected(s, at) = r
    BY <1>4 DEF Selected
  <2>2. DOMAIN r = 1..Cardinality(at) /\ \A k \in 1..Cardinality(at) : r[k] = s[Place(at, k)]
    OBVIOUS
  <2>3. Selected(s, at) \in Seq(S)
    BY SelectedProperties
  <2> HIDE DEF r
  <2>4. Len(r) = Cardinality(at)
    BY <1>2, <2>1, <2>2, <2>3, LenProperties
  <2> QED
    BY <1>2, <2>1, <2>2, <2>4
<1> QED
  BY <1>3, <1>4

\* Selecting and then looking up is looking up and then selecting.
LEMMA SelectedOfLookup ==
    ASSUME NEW S, NEW s \in Seq(S), NEW at \in SUBSET DOMAIN s, NEW f
    PROVE  Selected([i \in DOMAIN s |-> f[s[i]]], at) =
             [k \in DOMAIN Selected(s, at) |-> f[Selected(s, at)[k]]]
<1> DEFINE looked == [i \in DOMAIN s |-> f[s[i]]]
<1>1. CASE at = DOMAIN s
  BY <1>1 DEF Selected
<1>2. CASE at # DOMAIN s
  <2> DEFINE N == Cardinality(at)
             r == [k \in 1..N |-> s[Place(at, k)]]
  <2>1. Selected(s, at) = r /\ Selected(looked, at) = [k \in 1..N |-> looked[Place(at, k)]]
    BY <1>2 DEF Selected
  <2>2. \A k \in 1..N : Place(at, k) \in DOMAIN s
    <3>1. Len(s) \in Nat /\ DOMAIN s = 1..Len(s)
      BY LenProperties
    <3>2. at \in SUBSET (1..Len(s))
      BY <3>1
    <3>3. \A k \in 1..N : Place(at, k) \in at
      BY <3>1, <3>2, PlacesAreNumbered
    <3> QED
      BY <3>3
  <2>3. [k \in 1..N |-> looked[Place(at, k)]] = [k \in 1..N |-> f[s[Place(at, k)]]]
    BY <2>2
  <2> QED
    BY <2>1, <2>3
<1> QED
  BY <1>1, <1>2

\* A sequence without repetitions is as long as it has elements.
LEMMA DistinctAreCounted ==
    ASSUME NEW S, NEW s \in Seq(S), IsInjective(s)
    PROVE  IsFiniteSet(Range(s)) /\ Cardinality(Range(s)) = Len(s) /\ Len(s) \in Nat
<1>1. Len(s) \in Nat /\ DOMAIN s = 1..Len(s) /\ s \in [1..Len(s) -> S]
  BY LenProperties
<1>2. s \in Bijection(1..Len(s), Range(s))
  <2>1. s \in [1..Len(s) -> Range(s)]
    BY <1>1 DEF Range
  <2> QED
    BY <1>1, <2>1 DEF Bijection, Injection, Surjection, Range
<1>3. ExistsBijection(1..Len(s), Range(s))
  BY <1>2 DEF ExistsBijection
<1>4. IsFiniteSet(Range(s))
  BY <1>1, <1>3, FS_NatBijection
<1> QED
  BY <1>1, <1>3, <1>4, FS_CountingElements
-----------------------------------------------------------------------------
(* The rest of a sequence, one element at a time.                           *)

LEMMA SkipFirst ==
    ASSUME NEW S, NEW s \in Seq(S), NEW p \in 0..Len(s) - 1
    PROVE  Skip(s, p) = <<s[p + 1]>> \o Skip(s, p + 1)
<1>1. Len(s) \in Nat /\ p + 1 \in 1..Len(s) /\ Len(s) \in p + 1..Len(s) /\ (p + 1) + 1 = p + 2
  BY LenProperties
<1>2. SubSeq(s, p + 1, Len(s)) = <<s[p + 1]>> \o SubSeq(s, (p + 1) + 1, Len(s))
  BY <1>1, SubSeqRecursiveFirst
<1> QED
  BY <1>2 DEF Skip

LEMMA SkipSplit ==
    ASSUME NEW S, NEW s \in Seq(S), NEW p \in 0..Len(s), NEW q \in 0..Len(s), p <= q
    PROVE  Skip(s, p) = SubSeq(s, p + 1, q) \o Skip(s, q)
<1> DEFINE n == Len(s)
<1>1. n \in Nat /\ p + 1 \in 1..n + 1 /\ q \in (p + 1) - 1..n /\ n \in q..n
  BY LenProperties
<1>2. SubSeq(s, p + 1, q) \o SubSeq(s, q + 1, n) = SubSeq(s, p + 1, n)
  BY <1>1, ConcatAdjacentSubSeq
<1> QED
  BY <1>2 DEF Skip

LEMMA HeadTailOfCons ==
    ASSUME NEW S, NEW h \in S, NEW t \in Seq(S)
    PROVE  Head(<<h>> \o t) = h /\ Tail(<<h>> \o t) = t
<1> DEFINE s == <<h>> \o t
           n == Len(t)
<1>1. n \in Nat /\ <<h>> \in Seq(S) /\ Len(<<h>>) = 1
  BY LenProperties
<1>2. s \in Seq(S) /\ Len(s) = n + 1 /\ s[1] = h /\ \A i \in 1..n : s[i + 1] = t[i]
  BY <1>1, ConcatProperties
<1> HIDE DEF s
<1>3. s # <<>> /\ Head(s) = h
  BY <1>1, <1>2
<1>4. Tail(s) \in Seq(S) /\ Len(Tail(s)) = n /\ \A i \in 1..n : Tail(s)[i] = t[i]
  BY <1>1, <1>2, <1>3
<1>5. Tail(s) = t
  BY <1>4, SeqEqual
<1> QED
  BY <1>3, <1>5 DEF s

LEMMA FlattenSkip ==
    ASSUME NEW S, NEW c \in Seq(Seq(S)), NEW p \in 0..Len(c) - 1
    PROVE  FlattenSeq(Skip(c, p)) = c[p + 1] \o FlattenSeq(Skip(c, p + 1))
<1> DEFINE d == Skip(c, p)
<1>1. Len(c) \in Nat /\ p \in 0..Len(c) /\ p + 1 \in 1..Len(c) /\ p + 1 \in 0..Len(c)
  BY LenProperties
<1>2. d \in Seq(Seq(S)) /\ Len(d) = Len(c) - p /\ Len(d) # 0
  BY <1>1, SkipProperties
<1>3. d = <<c[p + 1]>> \o Skip(c, p + 1)
  BY SkipFirst
<1>4. Head(d) = c[p + 1] /\ Tail(d) = Skip(c, p + 1)
  <2> DEFINE t == Skip(c, p + 1)
             h == c[p + 1]
  <2>1. t \in Seq(Seq(S)) /\ h \in Seq(S)
    BY <1>1, SkipProperties, ElementOfSeq
  <2> HIDE DEF t, h
  <2>2. Head(<<h>> \o t) = h /\ Tail(<<h>> \o t) = t
    BY <2>1, HeadTailOfCons
  <2> QED
    BY <1>3, <2>2 DEF t, h
<1> HIDE DEF d
<1>5. FlattenSeq(d) = Head(d) \o FlattenSeq(Tail(d))
  BY <1>2, FlattenHeadTail
<1> QED
  BY <1>4, <1>5 DEF d
=============================================================================
