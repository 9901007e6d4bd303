-------------------------- MODULE OutputPump_proofs --------------------------
(***************************************************************************)
(* For every chunk, channel, batch and ring size, and every order in which *)
(* the terminal's processes, the reader thread, the pump and a             *)
(* finalization take their steps: no byte is lost, repeated or reordered   *)
(* on its way to the ring, the evidence never shows anything else, and     *)
(* what is called the whole output is.                                     *)
(***************************************************************************)
EXTENDS OutputPump, SequenceParts_proofs

Bytes == 1..MaxWritten

Readers == [pc : {"check", "read", "send", "done"}, chunk : Seq(Bytes), eof : BOOLEAN]
Pumps == [pc : {"recv", "gather", "retain", "feed", "close", "done", "aborted"},
          batch : Seq(Bytes), pending : Seq(Bytes)]
Rings == [bytes : Seq(Bytes), capacity : Nat, totalBytes : Nat]
Publications == [revision : Nat, closed : BOOLEAN]
Finalizations == [pc : {"none", "drain", "finish", "capture", "captured", "dropped"},
                  by : {"nobody", "kill", "cleaner"}, complete : BOOLEAN]

\* Every field has its type.
Shape ==
    /\ child \in {"running", "killed", "exited"}
    /\ descendant \in BOOLEAN /\ shutdownFlag \in BOOLEAN
    /\ written \in Seq(Bytes) /\ pty \in Seq(Bytes)
    /\ appended \in Seq(Bytes) /\ fed \in Seq(Bytes)
    /\ reader \in Readers /\ channel \in Seq(Seq(Bytes))
    /\ pump \in Pumps /\ ring \in Rings
    /\ revision \in Nat /\ published \in Publications
    /\ fin \in Finalizations

\* No empty chunk travels, so every batch is a byte more on the screen; the
\* bounds hold.  A batch starts with what was set aside, so nothing is then.
Filled ==
    /\ Len(written) <= MaxWritten
    /\ Len(channel) <= ChannelCap
    /\ \A i \in 1..Len(channel) : Len(channel[i]) # 0
    /\ reader.pc = "send" <=> Len(reader.chunk) # 0
    /\ pump.pc \in {"gather", "retain", "feed"} <=> Len(pump.batch) # 0
    /\ pump.pc = "gather" => Len(pump.pending) = 0

\* Ring and screen follow the terminal, the screen at most a batch behind.
Followed ==
    /\ IsPrefix(appended, written) /\ IsPrefix(fed, appended)
    /\ pump.pc = "feed" => appended = fed \o pump.batch
    /\ pump.pc \notin {"feed", "aborted"} => fed = appended
    /\ revision <= Len(fed) /\ published.revision = revision

Kept ==
    /\ ring.capacity = RetainBytes
    /\ ring.bytes = TailOf(appended, RetainBytes)
    /\ ring.totalBytes = Len(appended)

\* Who may have ended what: the pump ends after the reader, the reader at the
\* end of the output unless it is told to, and it is told to by a kill or
\* when the session is let go of.
Ended ==
    /\ published.closed => pump.pc = "done"
    /\ pump.pc \in {"close", "done"} => ReaderDone /\ channel = <<>> /\ pump.pending = <<>>
    /\ ReaderDone => reader.eof \/ shutdownFlag \/ pump.pc = "aborted"
    /\ reader.eof => ReaderDone /\ pty = <<>> /\ ~TtyOpen
    /\ shutdownFlag => fin.by = "kill" \/ fin.pc = "dropped"

\* What the finalization decided, and what it captured.
Finalized ==
    /\ fin.pc = "none" => ~fin.complete /\ fin.by = "nobody"
    /\ fin.pc = "drain" => fin.by = "kill"
    /\ fin.complete => published.closed
    /\ fin.complete /\ fin.by = "cleaner" => reader.eof
    /\ tombstone # NoTombstone =>
          /\ fin.pc \in {"captured", "dropped"}
          /\ tombstone.complete = fin.complete
          /\ fin.by = "cleaner" /\ fin.complete =>
                tombstone.screen = written /\ tombstone.output.totalBytes = Len(written)

PumpInv == Shape /\ Filled /\ BytesConserved /\ Followed /\ Kept /\ Ended /\ Finalized
-----------------------------------------------------------------------------
LEMMA BoundsAreNumbers ==
    /\ ReadMax \in Nat \ {0} /\ ChannelCap \in Nat \ {0} /\ BatchMax \in Nat \ {0}
    /\ RetainBytes \in Nat /\ TailBytes \in Nat /\ MaxWritten \in Nat
    /\ MaxCount \in Nat /\ MaxWritten <= MaxCount
BY OutputPumpAssumption, MaxCountAssumption

LEMMA InitEstablishes == Init => PumpInv
<1> SUFFICES ASSUME Init PROVE PumpInv
  OBVIOUS
<1>1. /\ << >> \in Seq(Bytes) /\ << >> \in Seq(Seq(Bytes)) /\ Len(<< >>) = 0
      /\ RetainBytes \in Nat /\ MaxWritten \in Nat /\ ChannelCap \in Nat
  BY EmptySeq, BoundsAreNumbers
<1>2. TailOf(<< >>, RetainBytes) = << >> /\ IsPrefix(<< >>, << >>)
  <2>1. Len(<< >>) <= RetainBytes
    BY <1>1
  <2>2. TailOf(<< >>, RetainBytes) = << >>
    BY <1>1, <2>1, TailOfProperties
  <2>3. IsPrefix(<< >>, << >>)
    BY <1>1, PrefixOfConcat
  <2> QED
    BY <2>2, <2>3
<1>3. Shape
  BY <1>1 DEF Init, IdlePump, NewRing, Shape, Readers, Pumps, Rings, Publications, Finalizations
<1>4. Filled
  BY <1>1 DEF Init, IdlePump, Filled
<1>5. BytesConserved
  <2>1. InFlight = (((<< >> \o << >>) \o << >>) \o << >>) \o << >>
    BY FlattenEmpty DEF Init, IdlePump, InFlight
  <2>2. << >> \o << >> = << >>
    BY <1>1, ConcatEmptySeq
  <2> QED
    BY <2>1, <2>2 DEF Init, BytesConserved
<1>6. Followed
  BY <1>1, <1>2 DEF Init, IdlePump, Followed
<1>7. Kept
  BY <1>1, <1>2 DEF Init, NewRing, Kept
<1>8. Ended
  BY DEF Init, IdlePump, Ended, ReaderDone
<1>9. Finalized
  BY DEF Init, Finalized
<1> QED
  BY <1>3, <1>4, <1>5, <1>6, <1>7, <1>8, <1>9 DEF PumpInv
-----------------------------------------------------------------------------
\* What a read takes and leaves.
LEMMA ReadTakes ==
    ASSUME NEW S, NEW s \in Seq(S), NEW n \in Nat, 1 <= n, n <= Len(s)
    PROVE  /\ SubSeq(s, 1, n) \in Seq(S) /\ Len(SubSeq(s, 1, n)) = n
           /\ Skip(s, n) \in Seq(S)
           /\ s = SubSeq(s, 1, n) \o Skip(s, n)
<1>1. Len(s) \in Nat /\ n \in 0..Len(s)
  BY LenProperties
<1>2. SubSeq(s, 1, n) \in Seq(S) /\ Len(SubSeq(s, 1, n)) = n
  <2>1. \A i \in 1..n : s[i] \in S
    BY <1>1, ElementOfSeq
  <2>2. 1 \in Int /\ n \in Int /\ n - 1 + 1 = n
    OBVIOUS
  <2> QED
    BY <2>1, <2>2, SubSeqProperties
<1>3. Skip(s, n) \in Seq(S)
  BY <1>1, SkipProperties
<1>4. SubSeq(s, 1, n) \o SubSeq(s, n + 1, Len(s)) = SubSeq(s, 1, Len(s))
  BY <1>1, ConcatAdjacentSubSeq
<1>5. SubSeq(s, 1, Len(s)) = s
  BY SubSeqFull
<1> QED
  BY <1>2, <1>3, <1>4, <1>5 DEF Skip

\* What is received from a channel, and what stays there.
LEMMA ReceiveTakes ==
    ASSUME NEW S, NEW c \in Seq(Seq(S)), c # << >>
    PROVE  /\ Head(c) \in Seq(S) /\ Tail(c) \in Seq(Seq(S))
           /\ Len(c) \in Nat \ {0} /\ Len(Tail(c)) = Len(c) - 1
           /\ Head(c) = c[1] /\ \A i \in 1..(Len(c) - 1) : Tail(c)[i] = c[i + 1]
BY HeadTailProperties, LenProperties, EmptySeq

\* A batch appended to the ring leaves it the tail of everything appended.
LEMMA RetainKeeps ==
    ASSUME Shape, Kept
    PROVE  /\ Retained(ring.bytes, ring.capacity, pump.batch) =
                TailOf(appended \o pump.batch, RetainBytes)
           /\ Retained(ring.bytes, ring.capacity, pump.batch) \in Seq(Bytes)
           /\ appended \o pump.batch \in Seq(Bytes)
           /\ Len(appended \o pump.batch) = Len(appended) + Len(pump.batch)
           /\ Len(appended) \in Nat /\ Len(pump.batch) \in Nat
<1>1. appended \in Seq(Bytes) /\ pump.batch \in Seq(Bytes) /\ RetainBytes \in Nat
  BY BoundsAreNumbers DEF Shape, Pumps
<1>2. /\ appended \o pump.batch \in Seq(Bytes)
      /\ Len(appended \o pump.batch) = Len(appended) + Len(pump.batch)
      /\ Len(appended) \in Nat /\ Len(pump.batch) \in Nat
  BY <1>1, ConcatProperties, LenProperties
<1>3. Retained(TailOf(appended, RetainBytes), RetainBytes, pump.batch) =
        TailOf(appended \o pump.batch, RetainBytes)
  BY <1>1, AppendKeepsTail
<1>4. TailOf(appended \o pump.batch, RetainBytes) \in Seq(Bytes)
  BY <1>1, <1>2, TailOfProperties
<1> QED
  BY <1>2, <1>3, <1>4 DEF Kept

LEMMA ShapeHolds == Shape /\ Kept /\ [Next]_vars => Shape'
<1> SUFFICES ASSUME Shape, Kept, [Next]_vars PROVE Shape'
  OBVIOUS
<1> USE BoundsAreNumbers
<1>1. CASE TtyWrite
  <2>1. Len(written) \in Nat /\ Len(written) < MaxWritten
    BY <1>1, LenProperties DEF Shape, TtyWrite
  <2>2. Len(written) + 1 \in Bytes
    BY <2>1 DEF Bytes
  <2>3. /\ Append(written, Len(written) + 1) \in Seq(Bytes)
        /\ Append(pty, Len(written) + 1) \in Seq(Bytes)
    BY <2>2, AppendProperties DEF Shape
  <2> QED
    BY <1>1, <2>3 DEF Shape, TtyWrite, evidence
<1>2. CASE ChildExits
  BY <1>2 DEF Shape, ChildExits, evidence
<1>3. CASE DescendantCloses
  BY <1>3 DEF Shape, DescendantCloses, evidence
<1>4. CASE ReaderCheck
  <2>1. reader' \in Readers
    BY <1>4 DEF Shape, ReaderCheck, Readers
  <2> QED
    BY <1>4, <2>1 DEF Shape, ReaderCheck, world, evidence
<1>5. CASE ReaderRead
  <2>1. PICK n \in 1..ReadMax :
          /\ n <= Len(pty)
          /\ reader' = [reader EXCEPT !.pc = "send", !.chunk = SubSeq(pty, 1, n)]
          /\ pty' = Skip(pty, n)
    BY <1>5 DEF ReaderRead
  <2>2. n \in Nat /\ 1 <= n /\ pty \in Seq(Bytes) /\ reader \in Readers
    BY DEF Shape
  <2>3. SubSeq(pty, 1, n) \in Seq(Bytes) /\ Skip(pty, n) \in Seq(Bytes)
    BY <2>1, <2>2, ReadTakes
  <2>4. reader' \in Readers /\ pty' \in Seq(Bytes)
    BY <2>1, <2>2, <2>3 DEF Readers
  <2> QED
    BY <1>5, <2>4 DEF Shape, ReaderRead, world, evidence
<1>6. CASE ReaderEof
  <2>1. reader' \in Readers
    BY <1>6 DEF Shape, ReaderEof, Readers
  <2> QED
    BY <1>6, <2>1 DEF Shape, ReaderEof, world, evidence
<1>7. CASE ReaderSend
  <2>1. reader.chunk \in Seq(Bytes) /\ channel \in Seq(Seq(Bytes)) /\ << >> \in Seq(Bytes)
    BY EmptySeq DEF Shape, Readers
  <2>2. Append(channel, reader.chunk) \in Seq(Seq(Bytes))
    BY <2>1, AppendProperties
  <2>3. reader' \in Readers /\ channel' \in Seq(Seq(Bytes))
    BY <1>7, <2>1, <2>2 DEF Shape, ReaderSend, Readers
  <2> QED
    BY <1>7, <2>3 DEF Shape, ReaderSend, world, evidence
<1>8. CASE PumpTakePending
  <2>1. pump' \in Pumps
    BY <1>8, EmptySeq DEF Shape, PumpTakePending, Pumps
  <2> QED
    BY <1>8, <2>1 DEF Shape, PumpTakePending, world, evidence
<1>9. CASE PumpReceive
  <2>1. Head(channel) \in Seq(Bytes) /\ Tail(channel) \in Seq(Seq(Bytes))
    BY <1>9, ReceiveTakes DEF Shape, PumpReceive
  <2>2. pump' \in Pumps /\ channel' \in Seq(Seq(Bytes))
    BY <1>9, <2>1 DEF Shape, PumpReceive, Pumps
  <2> QED
    BY <1>9, <2>2 DEF Shape, PumpReceive, world, evidence
<1>10. CASE PumpGather
  <2>1. Head(channel) \in Seq(Bytes) /\ Tail(channel) \in Seq(Seq(Bytes))
    BY <1>10, ReceiveTakes DEF Shape, PumpGather
  <2>2. pump \in Pumps /\ pump.batch \in Seq(Bytes)
    BY DEF Shape, Pumps
  <2>3. pump.batch \o Head(channel) \in Seq(Bytes)
    BY <2>1, <2>2, ConcatProperties
  <2>4. pump' \in Pumps
    BY <1>10, <2>1, <2>2, <2>3 DEF PumpGather, Pumps
  <2> QED
    BY <1>10, <2>1, <2>4 DEF Shape, PumpGather, world, evidence
<1>11. CASE PumpStopGathering
  <2>1. pump' \in Pumps
    BY <1>11 DEF Shape, PumpStopGathering, Pumps
  <2> QED
    BY <1>11, <2>1 DEF Shape, PumpStopGathering, world, evidence
<1>12. CASE PumpRetain
  <2>1. /\ Retained(ring.bytes, ring.capacity, pump.batch) \in Seq(Bytes)
        /\ appended \o pump.batch \in Seq(Bytes) /\ Len(pump.batch) \in Nat
    BY RetainKeeps
  <2>2. SatAdd(ring.totalBytes, Len(pump.batch)) \in Nat
    BY <2>1 DEF Shape, Rings, SatAdd
  <2>3. ring' \in Rings /\ pump' \in Pumps
    BY <1>12, <2>1, <2>2 DEF Shape, PumpRetain, RingAppend, Rings, Pumps
  <2> QED
    BY <1>12, <2>1, <2>3 DEF Shape, PumpRetain, world
<1>13. CASE PumpFeed
  <2>1. fed \o pump.batch \in Seq(Bytes) /\ << >> \in Seq(Bytes)
    BY ConcatProperties, EmptySeq DEF Shape, Pumps
  <2>2. pump' \in Pumps
    BY <1>13, <2>1 DEF Shape, PumpFeed, Pumps
  <2>3. revision' \in Nat /\ published' \in Publications
    BY <1>13 DEF Shape, PumpFeed, Publications
  <2> QED
    BY <1>13, <2>1, <2>2, <2>3 DEF Shape, PumpFeed, world
<1>14. CASE PumpClosed
  <2>1. pump' \in Pumps
    BY <1>14 DEF Shape, PumpClosed, Pumps
  <2> QED
    BY <1>14, <2>1 DEF Shape, PumpClosed, world, evidence
<1>15. CASE PumpPublishClosed
  <2>1. pump' \in Pumps /\ published' \in Publications
    BY <1>15 DEF Shape, PumpPublishClosed, Pumps, Publications
  <2> QED
    BY <1>15, <2>1 DEF Shape, PumpPublishClosed, world
<1>16. CASE KillBegins
  <2>1. fin' \in Finalizations
    BY <1>16 DEF Shape, KillBegins, Finalizations
  <2> QED
    BY <1>16, <2>1 DEF Shape, KillBegins, evidence
<1>17. CASE CleanerDecides
  <2>1. fin' \in Finalizations
    BY <1>17 DEF Shape, CleanerDecides, Finalizations, Publications
  <2> QED
    BY <1>17, <2>1 DEF Shape, CleanerDecides, world, evidence
<1>18. CASE KillDrains
  <2>1. fin' \in Finalizations
    BY <1>18 DEF Shape, KillDrains, Finalizations, Publications
  <2> QED
    BY <1>18, <2>1 DEF Shape, KillDrains, world, evidence
<1>19. CASE JoinPump
  <2>1. fin' \in Finalizations
    BY <1>19 DEF Shape, JoinPump, Finalizations
  <2> QED
    BY <1>19, <2>1 DEF Shape, JoinPump, world, evidence
<1>20. CASE AbortPump
  <2>1. << >> \in Seq(Bytes) /\ << >> \in Seq(Seq(Bytes))
    BY EmptySeq
  <2>2. fin' \in Finalizations
    BY <1>20 DEF Shape, AbortPump, Finalizations
  <2>3. pump' \in Pumps
    BY <1>20, <2>1 DEF Shape, AbortPump, IdlePump, Pumps
  <2> QED
    BY <1>20, <2>1, <2>2, <2>3 DEF Shape, AbortPump, world, evidence
<1>21. CASE Capture
  <2>1. fin' \in Finalizations
    BY <1>21 DEF Shape, Capture, Finalizations
  <2> QED
    BY <1>21, <2>1 DEF Shape, Capture, world, evidence
<1>22. CASE DropHandle
  <2>1. fin' \in Finalizations
    BY <1>22 DEF Shape, DropHandle, Finalizations
  <2> QED
    BY <1>22, <2>1 DEF Shape, DropHandle, evidence
<1>23. CASE UNCHANGED vars
  BY <1>23 DEF Shape, vars
<1> QED
  BY <1>1, <1>2, <1>3, <1>4, <1>5, <1>6, <1>7, <1>8, <1>9, <1>10, <1>11, <1>12, <1>13,
     <1>14, <1>15, <1>16, <1>17, <1>18, <1>19, <1>20, <1>21, <1>22, <1>23
     DEF Next, ReaderStep, PumpStep, FinStep
-----------------------------------------------------------------------------
\* The steps that move no byte and no process of the pipe.
Bystander == ChildExits \/ DescendantCloses \/ KillBegins \/ CleanerDecides
                \/ KillDrains \/ JoinPump \/ Capture \/ DropHandle

LEMMA BystandersMoveNothing ==
    Bystander \/ UNCHANGED vars =>
        UNCHANGED <<written, pty, reader, channel, pump, evidence>>
BY DEF Bystander, ChildExits, DescendantCloses, KillBegins, CleanerDecides, KillDrains,
       JoinPump, Capture, DropHandle, vars, world, evidence

LEMMA StepsAre ==
    [Next]_vars <=>
        \/ TtyWrite \/ ReaderCheck \/ ReaderRead \/ ReaderEof \/ ReaderSend
        \/ PumpTakePending \/ PumpReceive \/ PumpGather \/ PumpStopGathering
        \/ PumpRetain \/ PumpFeed \/ PumpClosed \/ PumpPublishClosed \/ AbortPump
        \/ (Bystander \/ UNCHANGED vars)
BY DEF Next, ReaderStep, PumpStep, FinStep, Bystander

LEMMA FilledHolds == Shape /\ Filled /\ [Next]_vars => Filled'
<1> SUFFICES ASSUME Shape, Filled, [Next]_vars PROVE Filled'
  OBVIOUS
<1>0. Len(<< >>) = 0 /\ MaxWritten \in Nat /\ ChannelCap \in Nat
  BY BoundsAreNumbers, EmptySeq
<1>1. CASE TtyWrite
  <2>1. Len(written) \in Nat /\ Len(written) < MaxWritten /\ Len(written) + 1 \in Bytes
    BY <1>0, <1>1, LenProperties DEF Shape, TtyWrite, Bytes
  <2>2. Len(Append(written, Len(written) + 1)) = Len(written) + 1
    BY <2>1, AppendProperties DEF Shape
  <2> QED
    BY <1>0, <1>1, <2>1, <2>2 DEF Filled, TtyWrite
<1>2. CASE ReaderCheck
  <2>1. reader'.pc # "send" /\ reader'.chunk = reader.chunk /\ reader.pc # "send"
    BY <1>2 DEF Shape, Readers, ReaderCheck
  <2> QED
    BY <1>2, <2>1 DEF Filled, ReaderCheck, world
<1>3. CASE ReaderRead
  <2>1. PICK n \in 1..ReadMax :
          /\ n <= Len(pty)
          /\ reader' = [reader EXCEPT !.pc = "send", !.chunk = SubSeq(pty, 1, n)]
    BY <1>3 DEF ReaderRead
  <2>2. n \in Nat /\ 1 <= n /\ pty \in Seq(Bytes) /\ n # 0
    BY BoundsAreNumbers DEF Shape
  <2>3. Len(SubSeq(pty, 1, n)) # 0
    BY <2>1, <2>2, ReadTakes
  <2>4. reader'.pc = "send" /\ Len(reader'.chunk) # 0
    BY <2>1, <2>3 DEF Shape, Readers
  <2> QED
    BY <1>3, <2>4 DEF Filled, ReaderRead, world
<1>4. CASE ReaderEof
  <2>1. reader'.pc # "send" /\ reader'.chunk = reader.chunk /\ reader.pc # "send"
    BY <1>4 DEF Shape, Readers, ReaderEof
  <2> QED
    BY <1>4, <2>1 DEF Filled, ReaderEof, world
<1>5. CASE ReaderSend
  <2>1. reader'.pc # "send" /\ Len(reader'.chunk) = 0 /\ Len(reader.chunk) # 0
    BY <1>0, <1>5 DEF Shape, Filled, Readers, ReaderSend
  <2>2. CASE UNCHANGED channel
    BY <1>5, <2>1, <2>2 DEF Filled, ReaderSend, world
  <2>3. CASE Len(channel) < ChannelCap /\ channel' = Append(channel, reader.chunk)
    <3>1. channel \in Seq(Seq(Bytes)) /\ reader.chunk \in Seq(Bytes) /\ Len(channel) \in Nat
      BY LenProperties DEF Shape, Readers
    <3>2. /\ Len(channel') = Len(channel) + 1
          /\ \A i \in 1..Len(channel) : channel'[i] = channel[i]
          /\ channel'[Len(channel) + 1] = reader.chunk
      BY <2>3, <3>1, AppendProperties
    <3>3. \A i \in 1..Len(channel') : i \in 1..Len(channel) \/ i = Len(channel) + 1
      BY <3>1, <3>2
    <3>4. Len(channel') <= ChannelCap
      BY <1>0, <2>3, <3>1, <3>2
    <3>5. \A i \in 1..Len(channel') : Len(channel'[i]) # 0
      BY <2>1, <3>2, <3>3 DEF Filled
    <3> QED
      BY <1>5, <2>1, <3>4, <3>5 DEF Filled, ReaderSend, world
  <2> QED
    BY <1>5, <2>2, <2>3 DEF ReaderSend
<1>6. CASE PumpTakePending
  <2>1. /\ pump.pending \in Seq(Bytes) /\ pump.pending # << >>
        /\ pump' = [pc |-> "gather", batch |-> pump.pending, pending |-> <<>>]
    BY <1>6 DEF Shape, Pumps, PumpTakePending
  <2>2. Len(pump.pending) # 0
    BY <2>1, EmptySeq
  <2>3. pump'.pc = "gather" /\ Len(pump'.batch) # 0 /\ Len(pump'.pending) = 0
    BY <1>0, <2>1, <2>2
  <2> QED
    BY <1>6, <2>3 DEF Filled, PumpTakePending, world
<1>7. CASE PumpReceive
  <2>1. /\ channel # << >> /\ channel' = Tail(channel) /\ channel \in Seq(Seq(Bytes))
        /\ pump.pending = << >>
    BY <1>7 DEF Shape, PumpReceive
  <2>2. /\ Len(channel) \in Nat \ {0} /\ Len(channel') = Len(channel) - 1
        /\ Head(channel) = channel[1] /\ \A i \in 1..(Len(channel) - 1) : channel'[i] = channel[i + 1]
    BY <2>1, ReceiveTakes
  <2>3. Len(Head(channel)) # 0
    BY <2>2 DEF Filled
  <2>4. \A i \in 1..Len(channel') : Len(channel'[i]) # 0
    BY <2>2 DEF Filled
  <2>5. pump'.pc = "gather" /\ pump'.batch = Head(channel) /\ pump'.pending = << >>
    BY <1>7, <2>1 DEF Shape, Pumps, PumpReceive
  <2>6. Len(channel') <= ChannelCap
    BY <1>0, <2>2 DEF Filled
  <2> QED
    BY <1>0, <1>7, <2>3, <2>4, <2>5, <2>6 DEF Filled, PumpReceive, world
<1>8. CASE PumpGather
  <2>1. /\ channel # << >> /\ channel' = Tail(channel) /\ channel \in Seq(Seq(Bytes))
        /\ pump.pc = "gather" /\ pump.batch \in Seq(Bytes)
    BY <1>8 DEF Shape, Pumps, PumpGather
  <2>2. /\ Len(channel) \in Nat \ {0} /\ Len(channel') = Len(channel) - 1
        /\ \A i \in 1..(Len(channel) - 1) : channel'[i] = channel[i + 1]
        /\ Head(channel) \in Seq(Bytes)
    BY <2>1, ReceiveTakes
  <2>3. \A i \in 1..Len(channel') : Len(channel'[i]) # 0
    BY <2>2 DEF Filled
  <2>4. Len(channel') <= ChannelCap
    BY <1>0, <2>2 DEF Filled
  <2>5. Len(pump.batch) # 0 /\ Len(pump.batch) \in Nat /\ Len(pump.pending) = 0
    BY <2>1, LenProperties DEF Filled
  <2>6. Len(pump.batch \o Head(channel)) # 0
    <3>1. Len(Head(channel)) \in Nat
      BY <2>2, LenProperties
    <3>2. Len(pump.batch \o Head(channel)) = Len(pump.batch) + Len(Head(channel))
      BY <2>1, <2>2, ConcatProperties
    <3>3. Len(pump.batch) + Len(Head(channel)) # 0
      BY <2>5, <3>1
    <3> QED
      BY <3>2, <3>3
  <2>7. \/ /\ pump'.pc = "gather" /\ pump'.batch = pump.batch \o Head(channel)
           /\ pump'.pending = pump.pending
        \/ pump'.pc = "retain" /\ pump'.batch = pump.batch
    BY <1>8 DEF Shape, Pumps, PumpGather
  <2> QED
    BY <1>8, <2>3, <2>4, <2>5, <2>6, <2>7 DEF Filled, PumpGather, world
<1>9. CASE PumpStopGathering
  <2>1. pump.pc = "gather" /\ pump'.pc = "retain" /\ pump'.batch = pump.batch
    BY <1>9 DEF Shape, Pumps, PumpStopGathering
  <2> QED
    BY <1>9, <2>1 DEF Filled, PumpStopGathering, world
<1>10. CASE PumpRetain
  <2>1. pump.pc = "retain" /\ pump'.pc = "feed" /\ pump'.batch = pump.batch
    BY <1>10 DEF Shape, Pumps, PumpRetain
  <2> QED
    BY <1>10, <2>1 DEF Filled, PumpRetain, world
<1>11. CASE PumpFeed
  <2>1. pump'.pc = "recv" /\ pump'.batch = << >>
    BY <1>11 DEF Shape, Pumps, PumpFeed
  <2> QED
    BY <1>0, <1>11, <2>1 DEF Filled, PumpFeed, world
<1>12. CASE PumpClosed
  <2>1. pump.pc = "recv" /\ pump'.pc = "close" /\ pump'.batch = pump.batch
    BY <1>12 DEF Shape, Pumps, PumpClosed
  <2> QED
    BY <1>12, <2>1 DEF Filled, PumpClosed, world
<1>13. CASE PumpPublishClosed
  <2>1. pump.pc = "close" /\ pump'.pc = "done" /\ pump'.batch = pump.batch
    BY <1>13 DEF Shape, Pumps, PumpPublishClosed
  <2> QED
    BY <1>13, <2>1 DEF Filled, PumpPublishClosed, world
<1>14. CASE AbortPump
  <2>1. \/ pump' = pump
        \/ pump'.pc = "aborted" /\ pump'.batch = << >>
    BY <1>14 DEF AbortPump, IdlePump
  <2>2. /\ channel' = << >> /\ Len(channel') <= ChannelCap
        /\ \A i \in 1..Len(channel') : Len(channel'[i]) # 0
    BY <1>0, <1>14 DEF AbortPump
  <2> QED
    BY <1>0, <1>14, <2>1, <2>2 DEF Filled, AbortPump, world
<1>15. CASE Bystander \/ UNCHANGED vars
  BY <1>15, BystandersMoveNothing DEF Filled
<1> QED
  BY <1>1, <1>2, <1>3, <1>4, <1>5, <1>6, <1>7, <1>8, <1>9, <1>10, <1>11, <1>12, <1>13,
     <1>14, <1>15, StepsAre
-----------------------------------------------------------------------------
(* Conservation.  What is in flight is five pieces in a row: the batch, the *)
(* chunk set aside, the channel, the reader's chunk and the terminal.  Each *)
(* step moves bytes across one border between two pieces.                   *)

LEMMA WriteExtends ==
    ASSUME NEW S, NEW q \in Seq(S), NEW x \in Seq(S), NEW y \in Seq(S), NEW z \in Seq(S)
    PROVE  Cat(Cat(q, Cat(x, y)), z) = Cat(q, Cat(x, Cat(y, z)))
BY CatType, CatAssociative

LEMMA ReadMoves ==
    ASSUME NEW S, NEW x \in Seq(S), NEW y \in Seq(S), NEW z \in Seq(S)
    PROVE  Cat(Cat(x, << >>), Cat(y, z)) = Cat(Cat(x, y), z)
BY CatEmpty, CatAssociative

LEMMA SendMoves ==
    ASSUME NEW S, NEW x \in Seq(S), NEW c \in Seq(S), NEW k \in Seq(S)
    PROVE  Cat(Cat(x, c), k) = Cat(Cat(x, Cat(c, k)), << >>)
BY CatType, CatEmpty, CatAssociative

LEMMA ReceiveMoves ==
    ASSUME NEW S, NEW b \in Seq(S), NEW h \in Seq(S), NEW t \in Seq(S)
    PROVE  /\ Cat(Cat(b, << >>), Cat(h, t)) = Cat(Cat(Cat(b, h), << >>), t)
           /\ Cat(Cat(b, << >>), Cat(h, t)) = Cat(Cat(b, h), t)
           /\ Cat(Cat(<< >>, << >>), Cat(h, t)) = Cat(Cat(h, << >>), t)
           /\ Cat(<< >>, h) = Cat(h, << >>)
<1>1. << >> \in Seq(S)
  BY EmptySeq
<1>2. Cat(b, << >>) = b /\ Cat(<< >>, << >>) = << >> /\ Cat(<< >>, h) = h /\ Cat(h, << >>) = h
  BY <1>1, CatEmpty
<1>3. Cat(b, h) \in Seq(S) /\ Cat(h, t) \in Seq(S)
  BY CatType
<1>4. Cat(Cat(b, h), << >>) = Cat(b, h) /\ Cat(<< >>, Cat(h, t)) = Cat(h, t)
  BY <1>3, CatEmpty
<1>5. Cat(Cat(b, h), t) = Cat(b, Cat(h, t))
  BY CatAssociative
<1> QED
  BY <1>2, <1>4, <1>5

LEMMA RetainMoves ==
    ASSUME NEW S, NEW q \in Seq(S), NEW b \in Seq(S), NEW p \in Seq(S), NEW c \in Seq(S),
           NEW k \in Seq(S), NEW y \in Seq(S)
    PROVE  Cat(q, Cat(Cat(Cat(Cat(b, p), c), k), y)) =
           Cat(Cat(q, b), Cat(Cat(Cat(Cat(<< >>, p), c), k), y))
<1> DEFINE pc == Cat(p, c)
           pck == Cat(pc, k)
           pcky == Cat(pck, y)
<1>1. pc \in Seq(S) /\ Cat(Cat(b, p), c) = Cat(b, pc)
  BY CatType, CatAssociative
<1> HIDE DEF pc
<1>2. pck \in Seq(S) /\ Cat(Cat(b, pc), k) = Cat(b, pck)
  BY <1>1, CatType, CatAssociative
<1> HIDE DEF pck
<1>3. pcky \in Seq(S) /\ Cat(Cat(b, pck), y) = Cat(b, pcky)
  BY <1>2, CatType, CatAssociative
<1> HIDE DEF pcky
<1>4. Cat(q, Cat(b, pcky)) = Cat(Cat(q, b), pcky) /\ Cat(<< >>, p) = p
  BY <1>3, CatAssociative, CatEmpty
<1> QED
  BY <1>1, <1>2, <1>3, <1>4 DEF pc, pck, pcky

\* The batch, while it is not yet in the ring.
Batch == IF pump.pc \in {"gather", "retain"} THEN pump.batch ELSE <<>>

LEMMA InFlightIs ==
    Shape => /\ InFlight = Cat(Cat(Cat(Cat(Batch, pump.pending), FlattenSeq(channel)), reader.chunk), pty)
             /\ Batch \in Seq(Bytes) /\ pump.batch \in Seq(Bytes) /\ pump.pending \in Seq(Bytes)
             /\ FlattenSeq(channel) \in Seq(Bytes)
             /\ reader.chunk \in Seq(Bytes) /\ pty \in Seq(Bytes)
<1> SUFFICES ASSUME Shape
             PROVE  /\ Batch \in Seq(Bytes) /\ pump.batch \in Seq(Bytes)
                    /\ pump.pending \in Seq(Bytes) /\ FlattenSeq(channel) \in Seq(Bytes)
                    /\ reader.chunk \in Seq(Bytes) /\ pty \in Seq(Bytes)
  BY DEF InFlight, Batch, Cat
<1>1. FlattenSeq(channel) \in Seq(Bytes)
  BY FlattenType DEF Shape
<1> QED
  BY <1>1, EmptySeq DEF Shape, Pumps, Readers, Batch

LEMMA ConservedHolds ==
    Shape /\ Filled /\ BytesConserved /\ Ended /\ [Next]_vars => BytesConserved'
<1> SUFFICES ASSUME Shape, Filled, BytesConserved, Ended, [Next]_vars, pump'.pc # "aborted"
             PROVE  written' = Cat(appended', InFlight')
  BY DEF BytesConserved, Cat
<1> DEFINE P == pump.pending
           C == FlattenSeq(channel)
           K == reader.chunk
<1>0. /\ InFlight = Cat(Cat(Cat(Cat(Batch, P), C), K), pty)
      /\ InFlight' = Cat(Cat(Cat(Cat(Batch', P'), C'), K'), pty')
  BY InFlightIs DEF InFlight, Batch, Cat
<1>1. /\ Batch \in Seq(Bytes) /\ P \in Seq(Bytes) /\ C \in Seq(Bytes)
      /\ K \in Seq(Bytes) /\ pty \in Seq(Bytes) /\ pump.batch \in Seq(Bytes)
      /\ appended \in Seq(Bytes)
  BY InFlightIs DEF Shape
<1>2. pump.pc # "aborted"
  BY StepsAre, BystandersMoveNothing
     DEF Shape, Pumps, TtyWrite, ReaderCheck, ReaderRead, ReaderEof, ReaderSend,
         PumpTakePending, PumpReceive, PumpGather, PumpStopGathering, PumpRetain, PumpFeed,
         PumpClosed, PumpPublishClosed, AbortPump, PumpStopped
<1>3. written = Cat(appended, InFlight)
  BY <1>2 DEF BytesConserved, Cat
<1>4. /\ Cat(Batch, P) \in Seq(Bytes) /\ Cat(Cat(Batch, P), C) \in Seq(Bytes)
      /\ Cat(Cat(Cat(Batch, P), C), K) \in Seq(Bytes)
  BY <1>1, CatType
<1>5. CASE TtyWrite
  <2> DEFINE byte == <<Len(written) + 1>>
             front == Cat(Cat(Cat(Batch, P), C), K)
  <2>1. Len(written) + 1 \in Bytes
    BY <1>5, BoundsAreNumbers, LenProperties DEF Shape, TtyWrite, Bytes
  <2>2. byte \in Seq(Bytes)
    BY <2>1
  <2>3. written' = Cat(written, byte) /\ pty' = Cat(pty, byte)
    BY <1>1, <1>5, <2>1, AppendIsConcat DEF TtyWrite, Shape, Cat
  <2>4. UNCHANGED <<pump, channel, reader, appended>>
    BY <1>5 DEF TtyWrite, evidence
  <2> HIDE DEF byte
  <2>5. InFlight' = Cat(front, Cat(pty, byte)) /\ InFlight = Cat(front, pty)
    BY <1>0, <2>3, <2>4 DEF Batch
  <2>6. front \in Seq(Bytes)
    BY <1>4
  <2> HIDE DEF front
  <2>7. Cat(Cat(appended, Cat(front, pty)), byte) = Cat(appended, Cat(front, Cat(pty, byte)))
    BY <1>1, <2>2, <2>6, WriteExtends
  <2> QED
    BY <1>3, <2>3, <2>4, <2>5, <2>7
<1>6. CASE UNCHANGED <<written, appended>> /\ InFlight' = InFlight
  BY <1>3, <1>6
<1>7. CASE ReaderCheck
  <2>1. K' = K /\ UNCHANGED <<pump, channel, pty, written, appended>>
    BY <1>7 DEF ReaderCheck, Shape, Readers, world, evidence
  <2> QED
    BY <1>0, <1>3, <2>1 DEF Batch
<1>8. CASE ReaderEof
  <2>1. K' = K /\ UNCHANGED <<pump, channel, pty, written, appended>>
    BY <1>8 DEF ReaderEof, Shape, Readers, world, evidence
  <2> QED
    BY <1>0, <1>3, <2>1 DEF Batch
<1>9. CASE ReaderRead
  <2>1. PICK n \in 1..ReadMax :
          /\ n <= Len(pty)
          /\ reader' = [reader EXCEPT !.pc = "send", !.chunk = SubSeq(pty, 1, n)]
          /\ pty' = Skip(pty, n)
    BY <1>9 DEF ReaderRead
  <2>2. n \in Nat /\ 1 <= n
    BY BoundsAreNumbers
  <2>3. /\ SubSeq(pty, 1, n) \in Seq(Bytes) /\ Skip(pty, n) \in Seq(Bytes)
        /\ pty = Cat(SubSeq(pty, 1, n), Skip(pty, n))
    BY <1>1, <2>1, <2>2, ReadTakes DEF Cat
  <2>4. K' = SubSeq(pty, 1, n)
    BY <2>1 DEF Shape, Readers
  <2>5. K = << >>
    <3>1. Len(K) = 0
      BY <1>9 DEF ReaderRead, Filled
    <3> QED
      BY <1>1, <3>1, EmptySeq
  <2>6. UNCHANGED <<pump, channel, written, appended>>
    BY <1>9 DEF ReaderRead, world, evidence
  <2> DEFINE front == Cat(Cat(Batch, P), C)
             taken == SubSeq(pty, 1, n)
             left == Skip(pty, n)
  <2>7. InFlight = Cat(Cat(front, << >>), pty) /\ InFlight' = Cat(Cat(front, taken), left) /\ pty = Cat(taken, left)
    BY <1>0, <2>1, <2>3, <2>4, <2>5, <2>6 DEF Batch
  <2>8. front \in Seq(Bytes) /\ taken \in Seq(Bytes) /\ left \in Seq(Bytes)
    BY <1>4, <2>3
  <2> HIDE DEF front, taken, left
  <2>9. Cat(Cat(front, << >>), Cat(taken, left)) = Cat(Cat(front, taken), left)
    BY <2>8, ReadMoves
  <2> QED
    BY <1>6, <2>6, <2>7, <2>9
<1>10. CASE ReaderSend
  <2>1. reader.pc = "send" /\ reader.pc # "done"
    BY <1>10 DEF ReaderSend
  <2>2. pump.pc # "done"
    BY <2>1 DEF Ended, ReaderDone
  <2>3. /\ channel' = Append(channel, K) /\ K' = << >>
        /\ UNCHANGED <<pump, pty, written, appended>>
    BY <1>2, <1>10, <2>2 DEF ReaderSend, PumpStopped, Shape, Readers, world, evidence
  <2>4. C' = Cat(C, K)
    <3>1. channel \in Seq(Seq(Bytes)) /\ K \in Seq(Bytes)
      BY <1>1 DEF Shape
    <3>2. FlattenSeq(Append(channel, K)) = Cat(FlattenSeq(channel), K)
      BY <3>1, FlattenAppend DEF Cat
    <3> QED
      BY <2>3, <3>2
  <2> DEFINE front == Cat(Batch, P)
  <2>5. InFlight' = Cat(Cat(Cat(front, Cat(C, K)), << >>), pty) /\ InFlight = Cat(Cat(Cat(front, C), K), pty)
    BY <1>0, <2>3, <2>4 DEF Batch
  <2>6. front \in Seq(Bytes)
    BY <1>4
  <2> HIDE DEF front, C, K
  <2>7. Cat(Cat(front, C), K) = Cat(Cat(front, Cat(C, K)), << >>)
    BY <1>1, <2>6, SendMoves
  <2> QED
    BY <1>6, <2>3, <2>5, <2>7
<1>11. CASE PumpTakePending
  <2>1. Batch = << >> /\ Batch' = P /\ P' = << >>
        /\ UNCHANGED <<reader, channel, pty, written, appended>>
    BY <1>11 DEF PumpTakePending, Batch, world, evidence
  <2>2. Cat(Batch, P) = Cat(Batch', P')
    BY <1>1, <2>1, ReceiveMoves
  <2> QED
    BY <1>0, <1>6, <2>1, <2>2
<1>12. CASE PumpReceive
  <2>1. /\ channel # << >> /\ channel \in Seq(Seq(Bytes)) /\ channel' = Tail(channel)
        /\ Batch = << >> /\ Batch' = Head(channel) /\ P = << >> /\ P' = << >>
        /\ UNCHANGED <<reader, pty, written, appended>>
    BY <1>12 DEF PumpReceive, Batch, Shape, Pumps, world, evidence
  <2>2. Head(channel) \in Seq(Bytes) /\ Tail(channel) \in Seq(Seq(Bytes)) /\ Len(channel) # 0
    BY <2>1, ReceiveTakes
  <2>3. C = Cat(Head(channel), FlattenSeq(Tail(channel)))
    BY <2>1, <2>2, FlattenHeadTail DEF Cat
  <2>4. FlattenSeq(Tail(channel)) \in Seq(Bytes)
    BY <2>2, FlattenType
  <2>5. Cat(Cat(<< >>, << >>), Cat(Head(channel), FlattenSeq(Tail(channel))))
           = Cat(Cat(Head(channel), << >>), FlattenSeq(Tail(channel)))
    BY <1>1, <2>2, <2>4, ReceiveMoves
  <2>6. Cat(Cat(Batch, P), C) = Cat(Cat(Batch', P'), C')
    BY <2>1, <2>3, <2>5
  <2> QED
    BY <1>0, <1>6, <2>1, <2>6
<1>13. CASE PumpGather
  <2>1. /\ channel # << >> /\ channel \in Seq(Seq(Bytes)) /\ channel' = Tail(channel)
        /\ Batch = pump.batch
        /\ UNCHANGED <<reader, pty, written, appended>>
        /\ \/ Batch' = Cat(Batch, Head(channel)) /\ P' = P
           \/ Batch' = Batch /\ P' = Head(channel)
    BY <1>13 DEF PumpGather, Batch, Cat, Shape, Pumps, world, evidence
  <2>2. P = << >>
    <3>1. Len(P) = 0
      BY <1>13 DEF PumpGather, Filled
    <3> QED
      BY <1>1, <3>1, EmptySeq
  <2>3. Head(channel) \in Seq(Bytes) /\ Tail(channel) \in Seq(Seq(Bytes)) /\ Len(channel) # 0
    BY <2>1, ReceiveTakes
  <2>4. C = Cat(Head(channel), FlattenSeq(Tail(channel)))
    BY <2>1, <2>3, FlattenHeadTail DEF Cat
  <2>5. FlattenSeq(Tail(channel)) \in Seq(Bytes)
    BY <2>3, FlattenType
  <2> DEFINE first == Head(channel)
             rest == FlattenSeq(Tail(channel))
             batch == Batch
  <2>0. first \in Seq(Bytes) /\ rest \in Seq(Bytes) /\ batch \in Seq(Bytes)
    BY <1>1, <2>3, <2>5
  <2> HIDE DEF first, rest, batch
  <2>6. /\ Cat(Cat(batch, << >>), Cat(first, rest)) = Cat(Cat(Cat(batch, first), << >>), rest)
        /\ Cat(Cat(batch, << >>), Cat(first, rest)) = Cat(Cat(batch, first), rest)
    BY <2>0, ReceiveMoves
  <2>7. Cat(Cat(Batch, P), C) = Cat(Cat(Batch', P'), C')
    BY <2>1, <2>2, <2>4, <2>6 DEF first, rest, batch
  <2> QED
    BY <1>0, <1>6, <2>1, <2>7
<1>14. CASE PumpStopGathering
  <2>1. Batch' = Batch /\ P' = P /\ UNCHANGED <<reader, channel, pty, written, appended>>
    BY <1>14 DEF PumpStopGathering, Batch, Shape, Pumps, world, evidence
  <2> QED
    BY <1>0, <1>6, <2>1
<1>15. CASE PumpRetain
  <2>1. Batch = pump.batch /\ Batch' = << >> /\ P' = P
        /\ appended' = Cat(appended, pump.batch)
        /\ UNCHANGED <<reader, channel, pty, written>>
    BY <1>15 DEF PumpRetain, Batch, Cat, Shape, Pumps, world
  <2>2. Cat(appended, Cat(Cat(Cat(Cat(Batch, P), C), K), pty))
          = Cat(Cat(appended, Batch), Cat(Cat(Cat(Cat(<< >>, P), C), K), pty))
    <3> DEFINE batch == Batch
    <3>1. batch \in Seq(Bytes)
      BY <1>1
    <3> HIDE DEF P, C, K, batch
    <3>2. Cat(appended, Cat(Cat(Cat(Cat(batch, P), C), K), pty))
            = Cat(Cat(appended, batch), Cat(Cat(Cat(Cat(<< >>, P), C), K), pty))
      <4>1. /\ appended \in Seq(Bytes) /\ batch \in Seq(Bytes) /\ P \in Seq(Bytes)
            /\ C \in Seq(Bytes) /\ K \in Seq(Bytes) /\ pty \in Seq(Bytes)
        BY <1>1, <3>1
      <4> QED
        BY <4>1, RetainMoves
    <3> QED
      BY <3>2 DEF batch
  <2> QED
    BY <1>0, <1>3, <2>1, <2>2
<1>16. CASE PumpFeed
  <2>1. Batch = << >> /\ Batch' = << >> /\ P' = P
        /\ UNCHANGED <<reader, channel, pty, written, appended>>
    BY <1>16 DEF PumpFeed, Batch, Shape, Pumps, world
  <2> QED
    BY <1>0, <1>6, <2>1
<1>17. CASE PumpClosed
  <2>1. Batch = << >> /\ Batch' = << >> /\ P' = P
        /\ UNCHANGED <<reader, channel, pty, written, appended>>
    BY <1>17 DEF PumpClosed, Batch, Shape, Pumps, world, evidence
  <2> QED
    BY <1>0, <1>6, <2>1
<1>18. CASE PumpPublishClosed
  <2>1. Batch = << >> /\ Batch' = << >> /\ P' = P
        /\ UNCHANGED <<reader, channel, pty, written, appended>>
    BY <1>18 DEF PumpPublishClosed, Batch, Shape, Pumps, world
  <2> QED
    BY <1>0, <1>6, <2>1
<1>19. CASE AbortPump
  <2>1. PumpStopped /\ pump' = pump /\ channel' = << >>
        /\ UNCHANGED <<reader, pty, written, appended>>
    BY <1>19 DEF AbortPump, IdlePump, world, evidence
  <2>2. channel = << >>
    BY <1>2, <2>1 DEF PumpStopped, Ended
  <2> QED
    BY <1>0, <1>6, <2>1, <2>2 DEF Batch
<1>20. CASE Bystander \/ UNCHANGED vars
  <2>1. UNCHANGED <<pump, reader, channel, pty, written, appended>>
    BY <1>20, BystandersMoveNothing DEF evidence
  <2> QED
    BY <1>0, <1>6, <2>1 DEF Batch
<1> QED
  BY <1>5, <1>7, <1>8, <1>9, <1>10, <1>11, <1>12, <1>13, <1>14, <1>15, <1>16, <1>17,
     <1>18, <1>19, <1>20, StepsAre
-----------------------------------------------------------------------------
LEMMA InFlightTyped == Shape => InFlight \in Seq(Bytes)
<1> SUFFICES ASSUME Shape PROVE InFlight \in Seq(Bytes)
  OBVIOUS
<1> DEFINE one == Cat(Batch, pump.pending)
           two == Cat(one, FlattenSeq(channel))
           three == Cat(two, reader.chunk)
<1>1. one \in Seq(Bytes)
  BY InFlightIs, CatType
<1> HIDE DEF one
<1>2. two \in Seq(Bytes)
  BY <1>1, InFlightIs, CatType
<1> HIDE DEF two
<1>3. three \in Seq(Bytes) /\ pty \in Seq(Bytes)
  BY <1>2, InFlightIs, CatType
<1> HIDE DEF three
<1>4. Cat(three, pty) \in Seq(Bytes)
  BY <1>3, CatType
<1>5. InFlight = Cat(three, pty)
  BY InFlightIs DEF one, two, three
<1> QED
  BY <1>4, <1>5

LEMMA InFlightTypedNext == Shape' => (InFlight \in Seq(Bytes))'
BY InFlightTyped, PTL

\* Only the processes of the terminal write to it, and at its end.
LEMMA WrittenGrows ==
    Shape /\ [Next]_vars =>
        \/ written' = written
        \/ written' = Append(written, Len(written) + 1) /\ Len(written) + 1 \in Bytes
<1> SUFFICES ASSUME Shape, [Next]_vars
             PROVE  \/ written' = written
                    \/ written' = Append(written, Len(written) + 1) /\ Len(written) + 1 \in Bytes
  OBVIOUS
<1>1. CASE TtyWrite
  <2>1. Len(written) \in Nat /\ Len(written) < MaxWritten /\ MaxWritten \in Nat
    BY <1>1, BoundsAreNumbers, LenProperties DEF Shape, TtyWrite
  <2>2. Len(written) + 1 \in Bytes
    BY <2>1 DEF Bytes
  <2> QED
    BY <1>1, <2>2 DEF TtyWrite
<1>2. CASE ~TtyWrite
  BY <1>2, StepsAre, BystandersMoveNothing
     DEF ReaderCheck, ReaderRead, ReaderEof, ReaderSend, PumpTakePending, PumpReceive,
         PumpGather, PumpStopGathering, PumpRetain, PumpFeed, PumpClosed, PumpPublishClosed,
         AbortPump, world
<1> QED
  BY <1>1, <1>2

\* Where each step leaves the pump.
LEMMA PumpGoesOn ==
    Shape => /\ PumpTakePending \/ PumpReceive => pump'.pc = "gather"
             /\ PumpGather => pump'.pc \in {"gather", "retain"}
             /\ PumpStopGathering => pump'.pc = "retain"
             /\ PumpRetain => pump'.pc = "feed" /\ pump'.batch = pump.batch
             /\ PumpFeed => pump'.pc = "recv"
             /\ PumpClosed => pump'.pc = "close"
             /\ PumpPublishClosed => pump'.pc = "done"
             /\ AbortPump => pump' = pump \/ (pump.pc # "done" /\ pump'.pc = "aborted")
<1> SUFFICES ASSUME Shape
             PROVE  /\ PumpTakePending \/ PumpReceive => pump'.pc = "gather"
                    /\ PumpGather => pump'.pc \in {"gather", "retain"}
                    /\ PumpStopGathering => pump'.pc = "retain"
                    /\ PumpRetain => pump'.pc = "feed" /\ pump'.batch = pump.batch
                    /\ PumpFeed => pump'.pc = "recv"
                    /\ PumpClosed => pump'.pc = "close"
                    /\ PumpPublishClosed => pump'.pc = "done"
                    /\ AbortPump => pump' = pump \/ (pump.pc # "done" /\ pump'.pc = "aborted")
  OBVIOUS
<1>1. PumpTakePending => pump'.pc = "gather"
  BY DEF PumpTakePending
<1>2. PumpReceive => pump'.pc = "gather"
  BY DEF Shape, Pumps, PumpReceive
<1>3. PumpGather => pump'.pc \in {"gather", "retain"}
  BY DEF Shape, Pumps, PumpGather
<1>4. PumpStopGathering => pump'.pc = "retain"
  BY DEF Shape, Pumps, PumpStopGathering
<1>5. PumpRetain => pump'.pc = "feed" /\ pump'.batch = pump.batch
  BY DEF Shape, Pumps, PumpRetain
<1>6. PumpFeed => pump'.pc = "recv"
  BY DEF Shape, Pumps, PumpFeed
<1>7. PumpClosed => pump'.pc = "close"
  BY DEF Shape, Pumps, PumpClosed
<1>8. PumpPublishClosed => pump'.pc = "done"
  BY DEF Shape, Pumps, PumpPublishClosed
<1>9. AbortPump => pump' = pump \/ (pump.pc # "done" /\ pump'.pc = "aborted")
  <2> SUFFICES ASSUME AbortPump PROVE pump' = pump \/ (pump.pc # "done" /\ pump'.pc = "aborted")
    OBVIOUS
  <2>1. CASE PumpStopped
    BY <2>1 DEF AbortPump
  <2>2. CASE ~PumpStopped
    <3>1. pump' = [pc |-> "aborted", batch |-> << >>, pending |-> << >>]
      BY <2>2 DEF AbortPump, IdlePump
    <3>2. pump.pc # "done"
      BY <2>2 DEF PumpStopped
    <3> QED
      BY <3>1, <3>2
  <2> QED
    BY <2>1, <2>2
<1> QED
  BY <1>1, <1>2, <1>3, <1>4, <1>5, <1>6, <1>7, <1>8, <1>9

\* What every other step leaves as it was of the ring and the screen.
LEMMA OthersLeaveEvidence ==
    Shape /\ [Next]_vars /\ ~PumpRetain /\ ~PumpFeed =>
        /\ UNCHANGED <<ring, appended, fed, revision>>
        /\ published'.revision = published.revision \/ published'.revision = revision
        /\ pump'.pc # "aborted" => pump.pc # "aborted"
        /\ pump'.pc = "feed" <=> pump.pc = "feed" /\ pump'.pc # "aborted"
        /\ pump'.pc = "feed" => pump'.batch = pump.batch
<1> SUFFICES ASSUME Shape, [Next]_vars, ~PumpRetain, ~PumpFeed
             PROVE  /\ UNCHANGED <<ring, appended, fed, revision>>
                    /\ published'.revision = published.revision \/ published'.revision = revision
                    /\ pump'.pc # "aborted" => pump.pc # "aborted"
                    /\ pump'.pc = "feed" <=> pump.pc = "feed" /\ pump'.pc # "aborted"
                    /\ pump'.pc = "feed" => pump'.batch = pump.batch
  OBVIOUS
<1>1. CASE TtyWrite \/ ReaderCheck \/ ReaderRead \/ ReaderEof \/ ReaderSend
  BY <1>1 DEF TtyWrite, ReaderCheck, ReaderRead, ReaderEof, ReaderSend, evidence
<1>2. CASE PumpTakePending \/ PumpReceive \/ PumpGather \/ PumpStopGathering \/ PumpClosed
  <2>1. UNCHANGED <<ring, appended, fed, revision, published>>
    BY <1>2 DEF PumpTakePending, PumpReceive, PumpGather, PumpStopGathering, PumpClosed, evidence
  <2>2. pump.pc \in {"recv", "gather"} /\ pump \in Pumps
    BY <1>2 DEF Shape, PumpTakePending, PumpReceive, PumpGather, PumpStopGathering, PumpClosed
  <2>3. pump'.pc \in {"gather", "retain", "close"}
    BY <1>2, PumpGoesOn
  <2> QED
    BY <2>1, <2>2, <2>3
<1>3. CASE PumpPublishClosed
  BY <1>3 DEF Shape, Pumps, PumpPublishClosed
<1>4. CASE AbortPump
  BY <1>4 DEF Shape, Pumps, AbortPump, IdlePump, PumpStopped, evidence
<1>5. CASE Bystander \/ UNCHANGED vars
  BY <1>5, BystandersMoveNothing DEF evidence
<1> QED
  BY <1>1, <1>2, <1>3, <1>4, <1>5, StepsAre

LEMMA AppendedIsPrefix ==
    Shape /\ Followed /\ [Next]_vars /\ Shape' /\ BytesConserved' => IsPrefix(appended, written)'
<1> SUFFICES ASSUME Shape, Followed, [Next]_vars, Shape', BytesConserved'
             PROVE  IsPrefix(appended', written')
  OBVIOUS
<1>1. CASE pump'.pc # "aborted"
  <2>1. written' = appended' \o InFlight'
    BY <1>1 DEF BytesConserved
  <2>2. appended' \in Seq(Bytes) /\ InFlight' \in Seq(Bytes)
    <3>1. (InFlight \in Seq(Bytes))'
      BY InFlightTypedNext
    <3> QED
      BY <3>1 DEF Shape
  <2>3. IsPrefix(appended', appended' \o InFlight')
    BY <2>2, PrefixOfConcat
  <2> QED
    BY <2>1, <2>3
<1>2. CASE pump'.pc = "aborted"
  <2>1. ~PumpRetain /\ ~PumpFeed
    BY <1>2 DEF Shape, Pumps, PumpRetain, PumpFeed
  <2>2. appended' = appended
    BY <2>1, OthersLeaveEvidence
  <2>3. IsPrefix(appended, written) /\ appended \in Seq(Bytes) /\ written \in Seq(Bytes)
    BY DEF Shape, Followed
  <2>4. CASE written' = written
    BY <2>2, <2>3, <2>4
  <2>5. CASE written' = Append(written, Len(written) + 1) /\ Len(written) + 1 \in Bytes
    <3> DEFINE byte == <<Len(written) + 1>>
    <3>1. byte \in Seq(Bytes)
      BY <2>5
    <3>2. written' = written \o byte
      BY <2>3, <2>5, AppendIsConcat
    <3> HIDE DEF byte
    <3>3. IsPrefix(appended, written \o byte)
      BY <2>3, <3>1, PrefixOfConcat
    <3> QED
      BY <2>2, <3>2, <3>3
  <2> QED
    BY <2>4, <2>5, WrittenGrows
<1> QED
  BY <1>1, <1>2

LEMMA FollowedHolds ==
    Shape /\ Filled /\ Followed /\ [Next]_vars /\ Shape' /\ BytesConserved' => Followed'
<1> SUFFICES ASSUME Shape, Filled, Followed, [Next]_vars, Shape', BytesConserved'
             PROVE  Followed'
  OBVIOUS
<1>1. IsPrefix(appended', written')
  BY AppendedIsPrefix
<1>2. /\ fed \in Seq(Bytes) /\ appended \in Seq(Bytes) /\ pump.batch \in Seq(Bytes)
      /\ fed' \in Seq(Bytes) /\ appended' \in Seq(Bytes)
      /\ Len(fed) \in Nat /\ Len(pump.batch) \in Nat /\ revision \in Nat
  BY LenProperties DEF Shape, Pumps
<1>3. CASE PumpRetain
  <2>1. /\ pump.pc = "retain" /\ pump'.pc = "feed" /\ pump'.batch = pump.batch
        /\ UNCHANGED <<fed, revision, published>>
    BY <1>3 DEF Shape, Pumps, PumpRetain
  <2>2. fed = appended
    BY <2>1 DEF Followed
  <2>3. appended' = fed' \o pump'.batch
    BY <1>3, <2>1, <2>2 DEF PumpRetain
  <2>4. IsPrefix(fed, fed \o pump.batch)
    BY <1>2, PrefixOfConcat
  <2>5. IsPrefix(fed', appended')
    BY <2>1, <2>3, <2>4
  <2>6. revision' <= Len(fed') /\ published'.revision = revision'
    BY <2>1 DEF Followed
  <2> QED
    BY <1>1, <2>1, <2>3, <2>5, <2>6 DEF Followed
<1>4. CASE PumpFeed
  <2>1. /\ pump.pc = "feed" /\ pump'.pc = "recv" /\ appended' = appended
        /\ revision' = revision + 1 /\ published'.revision = revision'
    BY <1>4 DEF Shape, Pumps, PumpFeed
  <2>2. fed' = appended'
    BY <1>4, <2>1 DEF Followed, PumpFeed
  <2>3. IsPrefix(fed', appended')
    BY <1>2, <2>2, PrefixOfConcat
  <2>4. Len(fed') = Len(fed) + Len(pump.batch)
    BY <1>2, <1>4, ConcatProperties DEF PumpFeed
  <2>5. Len(pump.batch) # 0 /\ revision <= Len(fed)
    BY <2>1 DEF Filled, Followed
  <2>6. revision' <= Len(fed')
    BY <1>2, <2>1, <2>4, <2>5
  <2> QED
    BY <1>1, <2>1, <2>2, <2>3, <2>6 DEF Followed
<1>5. CASE ~PumpRetain /\ ~PumpFeed
  <2>1. /\ UNCHANGED <<appended, fed, revision>>
        /\ published'.revision = revision
        /\ pump'.pc # "aborted" => pump.pc # "aborted"
        /\ pump'.pc = "feed" <=> pump.pc = "feed" /\ pump'.pc # "aborted"
        /\ pump'.pc = "feed" => pump'.batch = pump.batch
    BY <1>5, OthersLeaveEvidence DEF Followed
  <2>2. pump'.pc = "feed" => appended' = fed' \o pump'.batch
    BY <2>1 DEF Followed
  <2> QED
    BY <1>1, <2>1, <2>2 DEF Followed
<1> QED
  BY <1>3, <1>4, <1>5

LEMMA KeptHolds ==
    Shape /\ Filled /\ Kept /\ [Next]_vars /\ Shape' /\ Followed' /\ Filled' => Kept'
<1> SUFFICES ASSUME Shape, Filled, Kept, [Next]_vars, Shape', Followed', Filled' PROVE Kept'
  OBVIOUS
<1>1. CASE PumpRetain
  <2>1. /\ ring' = RingAppend(ring, pump.batch) /\ appended' = appended \o pump.batch
        /\ ring \in Rings
    BY <1>1 DEF Shape, PumpRetain
  <2>2. /\ ring'.capacity = ring.capacity
        /\ ring'.bytes = Retained(ring.bytes, ring.capacity, pump.batch)
        /\ ring'.totalBytes = SatAdd(ring.totalBytes, Len(pump.batch))
    BY <2>1 DEF RingAppend, Rings
  <2>3. /\ Retained(ring.bytes, ring.capacity, pump.batch) = TailOf(appended', RetainBytes)
        /\ Len(appended') = Len(appended) + Len(pump.batch)
        /\ Len(appended) \in Nat /\ Len(pump.batch) \in Nat
    BY <2>1, RetainKeeps
  <2>4. Len(appended') <= Len(written') /\ Len(written') <= MaxWritten /\ Len(written') \in Nat
    <3>1. IsPrefix(appended', written') /\ appended' \in Seq(Bytes) /\ written' \in Seq(Bytes)
      BY DEF Followed, Shape
    <3>2. Len(appended') <= Len(written')
      BY <3>1, PrefixOfConcat
    <3> QED
      BY <3>1, <3>2, LenProperties DEF Filled
  <2>5. SatAdd(ring.totalBytes, Len(pump.batch)) = Len(appended')
    BY <2>3, <2>4, BoundsAreNumbers DEF SatAdd, Kept
  <2> QED
    BY <2>2, <2>3, <2>5 DEF Kept
<1>2. CASE PumpFeed
  BY <1>2 DEF PumpFeed, Kept
<1>3. CASE ~PumpRetain /\ ~PumpFeed
  BY <1>3, OthersLeaveEvidence DEF Kept
<1> QED
  BY <1>1, <1>2, <1>3
-----------------------------------------------------------------------------
\* A reader that stopped or a terminal nobody holds stays so.
LEMMA EndedHolds == Shape /\ Filled /\ Ended /\ Finalized /\ [Next]_vars => Ended'
<1> SUFFICES ASSUME Shape, Filled, Ended, Finalized, [Next]_vars PROVE Ended'
  OBVIOUS
<1> USE DEF Ended, ReaderDone, TtyOpen
<1>1. CASE TtyWrite
  BY <1>1 DEF TtyWrite, evidence
<1>2. CASE ReaderCheck
  BY <1>2 DEF Shape, Readers, ReaderCheck, world, evidence
<1>3. CASE ReaderRead
  <2>1. /\ reader.pc = "read" /\ reader'.pc = "send" /\ reader'.eof = reader.eof
        /\ UNCHANGED <<child, descendant, shutdownFlag, channel, pump, published, fin>>
    BY <1>3 DEF Shape, Readers, ReaderRead, world, evidence
  <2> QED
    BY <2>1
<1>4. CASE ReaderEof
  BY <1>4 DEF Shape, Readers, ReaderEof, world, evidence
<1>5. CASE ReaderSend
  <2>1. /\ reader.pc = "send" /\ reader'.eof = reader.eof
        /\ UNCHANGED <<child, descendant, pty, shutdownFlag, pump, published, fin>>
    BY <1>5 DEF Shape, Readers, ReaderSend, world, evidence
  <2>2. ~reader.eof /\ pump.pc # "done" /\ pump.pc # "close" /\ ~published.closed
    BY <2>1
  <2>3. reader'.pc = "done" => pump.pc = "aborted"
    BY <1>5, <2>2 DEF Shape, Readers, ReaderSend, PumpStopped
  <2> QED
    BY <2>1, <2>2, <2>3
<1>6. CASE PumpTakePending \/ PumpReceive \/ PumpGather \/ PumpStopGathering \/ PumpRetain \/ PumpFeed
  <2>1. UNCHANGED <<child, descendant, pty, shutdownFlag, reader, fin>>
    BY <1>6 DEF PumpTakePending, PumpReceive, PumpGather, PumpStopGathering, PumpRetain,
                PumpFeed, world
  <2>2. pump.pc \in {"recv", "gather", "retain", "feed"} /\ pump \in Pumps
    BY <1>6 DEF Shape, PumpTakePending, PumpReceive, PumpGather, PumpStopGathering,
                PumpRetain, PumpFeed
  <2>3. pump'.pc \in {"recv", "gather", "retain", "feed"}
    BY <1>6, PumpGoesOn
  <2>4. ~published'.closed
    <3>1. CASE PumpFeed
      BY <3>1 DEF PumpFeed
    <3>2. CASE ~PumpFeed
      <4>1. published' = published
        BY <1>6, <3>2 DEF PumpTakePending, PumpReceive, PumpGather, PumpStopGathering,
                          PumpRetain, evidence
      <4> QED
        BY <2>2, <4>1
    <3> QED
      BY <3>1, <3>2
  <2> QED
    BY <2>1, <2>2, <2>3, <2>4
<1>7. CASE PumpClosed
  BY <1>7 DEF Shape, Pumps, PumpClosed, world, evidence
<1>8. CASE PumpPublishClosed
  BY <1>8 DEF Shape, Pumps, PumpPublishClosed, world
<1>9. CASE AbortPump
  <2>1. /\ UNCHANGED <<child, descendant, pty, shutdownFlag, reader, published>>
        /\ fin'.pc = "capture" /\ fin'.by = fin.by /\ fin.pc = "finish" /\ channel' = << >>
    BY <1>9 DEF Shape, Finalizations, AbortPump, world, evidence
  <2>2. pump' = pump \/ (pump.pc # "done" /\ pump'.pc = "aborted")
    BY <1>9, PumpGoesOn
  <2> QED
    BY <2>1, <2>2
<1>10. CASE Bystander \/ UNCHANGED vars
  <2>1. UNCHANGED <<pty, reader, channel, pump, published>>
    BY <1>10, BystandersMoveNothing DEF evidence
  <2>2. (child = "exited" => child' = "exited") /\ (~descendant => ~descendant')
    BY <1>10 DEF Shape, Bystander, ChildExits, DescendantCloses, KillBegins, CleanerDecides,
                 KillDrains, JoinPump, Capture, DropHandle, vars, world
  <2>3. shutdownFlag => shutdownFlag'
    BY <1>10 DEF Bystander, ChildExits, DescendantCloses, KillBegins, CleanerDecides, KillDrains,
                 JoinPump, Capture, DropHandle, vars
  <2>4. shutdownFlag' => fin'.by = "kill" \/ fin'.pc = "dropped"
    <3>1. CASE KillBegins \/ DropHandle
      BY <3>1 DEF Shape, Finalizations, KillBegins, DropHandle
    <3>2. CASE KillDrains \/ JoinPump \/ Capture
      BY <3>2 DEF Shape, Finalizations, KillDrains, JoinPump, Capture
    <3>3. CASE CleanerDecides
      BY <3>3 DEF Shape, Finalizations, Finalized, CleanerDecides
    <3>4. CASE ChildExits \/ DescendantCloses \/ UNCHANGED vars
      BY <3>4 DEF ChildExits, DescendantCloses, vars
    <3> QED
      BY <1>10, <3>1, <3>2, <3>3, <3>4 DEF Bystander
  <2> QED
    BY <2>1, <2>2, <2>3, <2>4
<1> QED
  BY <1>1, <1>2, <1>3, <1>4, <1>5, <1>6, <1>7, <1>8, <1>9, <1>10, StepsAre
-----------------------------------------------------------------------------
\* At the end of the output of a session that ended by itself, everything
\* written is in the ring and on the screen.
LEMMA WholeAtEnd ==
    PumpInv /\ pump.pc \in {"close", "done"} /\ reader.eof =>
        fed = written /\ appended = written /\ ring.totalBytes = Len(written)
<1> SUFFICES ASSUME PumpInv, pump.pc \in {"close", "done"}, reader.eof
             PROVE  fed = written /\ appended = written /\ ring.totalBytes = Len(written)
  OBVIOUS
<1>1. /\ channel = << >> /\ pump.pending = << >> /\ pump.pc \notin {"gather", "retain", "feed", "aborted"}
      /\ reader.pc = "done" /\ pty = << >>
  BY DEF PumpInv, Ended, ReaderDone
<1>2. reader.chunk = << >>
  <2>1. Len(reader.chunk) = 0 /\ reader.chunk \in Seq(Bytes)
    BY <1>1 DEF PumpInv, Filled, Shape, Readers
  <2> QED
    BY <2>1, EmptySeq
<1>3. << >> \in Seq(Bytes) /\ appended \in Seq(Bytes)
  BY EmptySeq DEF PumpInv, Shape
<1>4. InFlight = Cat(Cat(Cat(Cat(<< >>, << >>), << >>), << >>), << >>)
  BY <1>1, <1>2, FlattenEmpty, InFlightIs DEF PumpInv, Batch
<1>5. Cat(<< >>, << >>) = << >> /\ Cat(appended, << >>) = appended
  BY <1>3, CatEmpty
<1>6. written = Cat(appended, InFlight)
  BY <1>1 DEF PumpInv, BytesConserved, Cat
<1>7. written = appended
  BY <1>4, <1>5, <1>6
<1>8. fed = appended /\ ring.totalBytes = Len(appended)
  BY <1>1 DEF PumpInv, Followed, Kept
<1> QED
  BY <1>7, <1>8

\* When nobody holds the terminal nothing is written to it.
LEMMA EndStays ==
    PumpInv /\ [Next]_vars =>
        /\ reader.eof => reader'.eof /\ written' = written
        /\ published.closed => published'.closed
<1> SUFFICES ASSUME PumpInv, [Next]_vars
             PROVE  /\ reader.eof => reader'.eof /\ written' = written
                    /\ published.closed => published'.closed
  OBVIOUS
<1>1. ASSUME reader.eof PROVE reader'.eof /\ written' = written
  <2>1. reader.pc = "done" /\ ~TtyOpen
    BY <1>1 DEF PumpInv, Ended, ReaderDone
  <2>2. ~TtyWrite /\ ~ReaderCheck /\ ~ReaderRead /\ ~ReaderEof /\ ~ReaderSend
    BY <2>1 DEF TtyWrite, ReaderCheck, ReaderRead, ReaderEof, ReaderSend
  <2> QED
    BY <1>1, <2>2, StepsAre, BystandersMoveNothing
       DEF PumpTakePending, PumpReceive, PumpGather, PumpStopGathering, PumpRetain, PumpFeed,
           PumpClosed, PumpPublishClosed, AbortPump, world
<1>2. ASSUME published.closed PROVE published'.closed
  <2>1. pump.pc = "done"
    BY <1>2 DEF PumpInv, Ended
  <2>2. ~PumpTakePending /\ ~PumpReceive /\ ~PumpGather /\ ~PumpStopGathering /\ ~PumpRetain
        /\ ~PumpFeed /\ ~PumpClosed /\ ~PumpPublishClosed
    BY <2>1 DEF PumpTakePending, PumpReceive, PumpGather, PumpStopGathering, PumpRetain, PumpFeed,
                PumpClosed, PumpPublishClosed
  <2> QED
    BY <1>2, <2>2, StepsAre, BystandersMoveNothing
       DEF TtyWrite, ReaderCheck, ReaderRead, ReaderEof, ReaderSend, AbortPump, evidence
<1> QED
  BY <1>1, <1>2

LEMMA FinalizedHolds == PumpInv /\ [Next]_vars => Finalized'
<1> SUFFICES ASSUME PumpInv, [Next]_vars PROVE Finalized'
  OBVIOUS
<1>0. /\ Shape /\ Ended /\ Finalized
      /\ reader.eof => reader'.eof /\ written' = written
      /\ published.closed => published'.closed
  BY EndStays DEF PumpInv
<1>1. CASE KillBegins
  <2>1. /\ fin.pc = "none" /\ fin'.pc = "drain" /\ fin'.by = "kill" /\ fin'.complete = fin.complete
        /\ tombstone' = tombstone
    BY <1>0, <1>1 DEF Shape, Finalizations, KillBegins
  <2> QED
    BY <1>0, <2>1 DEF Finalized
<1>2. CASE KillDrains
  <2>1. /\ fin.pc = "drain" /\ fin'.pc = "finish" /\ fin'.by = fin.by
        /\ fin'.complete = published.closed /\ UNCHANGED <<tombstone, published>>
    BY <1>0, <1>2 DEF Shape, Finalizations, KillDrains, evidence
  <2> QED
    BY <1>0, <2>1 DEF Finalized
<1>3. CASE CleanerDecides
  <2>1. /\ fin.pc = "none" /\ fin'.pc = "finish" /\ fin'.by = "cleaner"
        /\ fin'.complete = published.closed /\ UNCHANGED <<tombstone, published, reader>>
    BY <1>3 DEF CleanerDecides, evidence
  <2>2. published.closed => reader.eof
    BY <1>0, <2>1 DEF Ended, Finalized
  <2> QED
    BY <1>0, <2>1, <2>2 DEF Finalized
<1>4. CASE JoinPump \/ AbortPump
  <2>1. /\ fin.pc = "finish" /\ fin'.pc = "capture" /\ fin'.by = fin.by
        /\ fin'.complete = fin.complete /\ UNCHANGED <<tombstone, published, reader>>
    BY <1>0, <1>4 DEF Shape, Finalizations, JoinPump, AbortPump, evidence
  <2> QED
    BY <1>0, <2>1 DEF Finalized
<1>5. CASE Capture
  <2>1. /\ fin.pc = "capture" /\ fin'.pc = "captured" /\ fin'.by = fin.by
        /\ fin'.complete = fin.complete /\ UNCHANGED <<written, published, reader>>
    BY <1>0, <1>5 DEF Shape, Finalizations, Capture, world, evidence
  <2>2. /\ tombstone'.screen = fed /\ tombstone'.complete = fin.complete
        /\ tombstone'.output.totalBytes = ring.totalBytes
    BY <1>5 DEF Capture, IntoTail, RingSnapshot, Account
  <2>3. fin.by = "cleaner" /\ fin.complete => fed = written /\ ring.totalBytes = Len(written)
    BY <1>0, WholeAtEnd DEF Finalized, Ended
  <2> QED
    BY <1>0, <2>1, <2>2, <2>3 DEF Finalized
<1>6. CASE DropHandle
  <2>1. /\ fin.pc = "captured" /\ fin'.pc = "dropped" /\ fin'.by = fin.by
        /\ fin'.complete = fin.complete /\ UNCHANGED <<tombstone, written, published, reader>>
    BY <1>0, <1>6 DEF Shape, Finalizations, DropHandle, evidence
  <2> QED
    BY <1>0, <2>1 DEF Finalized
<1>7. CASE UNCHANGED <<fin, tombstone>>
  BY <1>0, <1>7 DEF Finalized
<1> QED
  BY <1>1, <1>2, <1>3, <1>4, <1>5, <1>6, <1>7
     DEF Next, ReaderStep, PumpStep, FinStep, TtyWrite, ChildExits, DescendantCloses, ReaderCheck,
         ReaderRead, ReaderEof, ReaderSend, PumpTakePending, PumpReceive, PumpGather,
         PumpStopGathering, PumpRetain, PumpFeed, PumpClosed, PumpPublishClosed, vars

\* Every byte written is in the ring or on its way there; the screen follows
\* the ring, and the end of the output is the last thing to be published.
THEOREM PumpInvariant == Spec => []PumpInv
<1>1. Init => PumpInv
  BY InitEstablishes
<1>2. PumpInv /\ [Next]_vars => PumpInv'
  <2> SUFFICES ASSUME PumpInv, [Next]_vars PROVE PumpInv'
    OBVIOUS
  <2>1. Shape /\ Filled /\ BytesConserved /\ Followed /\ Kept /\ Ended /\ Finalized
    BY DEF PumpInv
  <2>2. Shape' /\ Filled'
    BY <2>1, ShapeHolds, FilledHolds
  <2>3. BytesConserved'
    BY <2>1, ConservedHolds
  <2>4. Followed'
    BY <2>1, <2>2, <2>3, FollowedHolds
  <2>5. Kept' /\ Ended' /\ Finalized'
    BY <2>1, <2>2, <2>4, KeptHolds, EndedHolds, FinalizedHolds
  <2> QED
    BY <2>2, <2>3, <2>4, <2>5 DEF PumpInv
<1> QED
  BY <1>1, <1>2, PTL DEF Spec

\* No byte of output is lost, repeated or reordered on its way from the
\* terminal through the reader's chunks, the channel and the pump's batches to
\* the ring, whatever their sizes, unless the pump is aborted (reader_loop,
\* run_output_pump).
THEOREM OutputIsConserved == Spec => []BytesConserved
<1>1. PumpInv => BytesConserved
  BY DEF PumpInv
<1> QED
  BY <1>1, PumpInvariant, PTL

\* The ring is the tail of what was written so far, the screen the same but
\* for a batch being fed, and every published revision stands for all that
\* the screen was fed (RetentionRing::append, run_output_pump).
THEOREM EvidenceIsTruthful == Spec => []EvidenceTruthful
<1>1. PumpInv => EvidenceTruthful
  <2> SUFFICES ASSUME PumpInv PROVE EvidenceTruthful
    OBVIOUS
  <2>1. Shape /\ Filled /\ Followed /\ Kept
    BY DEF PumpInv
  <2>2. /\ IsPrefix(fed, appended) /\ IsPrefix(appended, written)
        /\ fed \in Seq(Bytes) /\ appended \in Seq(Bytes) /\ written \in Seq(Bytes)
    BY <2>1 DEF Shape, Followed
  <2>3. Len(fed) <= Len(appended) /\ Len(appended) <= Len(written)
    BY <2>2, PrefixOfConcat
  <2>4. /\ Len(fed) \in Nat /\ Len(appended) \in Nat /\ Len(written) \in Nat
        /\ revision \in Nat /\ MaxWritten \in Nat
    BY <2>1, <2>2, BoundsAreNumbers, LenProperties DEF Shape
  <2>5. revision \in 0..MaxWritten
    BY <2>1, <2>3, <2>4 DEF Filled, Followed
  <2>6. published \in [revision : 0..MaxWritten, closed : BOOLEAN]
    BY <2>1, <2>5 DEF Shape, Publications, Followed
  <2>7. Len(ring.bytes) <= RetainBytes
    <3>1. Len(TailOf(appended, RetainBytes)) <= RetainBytes
      BY <2>2, <2>4, BoundsAreNumbers, TailOfProperties
    <3> QED
      BY <2>1, <3>1 DEF Kept
  <2>8. TypeOK
    BY <2>1, <2>5, <2>6, <2>7
       DEF TypeOK, Shape, Filled, Bytes, Readers, Pumps, Rings, Finalizations
  <2> QED
    BY <2>1, <2>8 DEF EvidenceTruthful, Followed, Kept
<1> QED
  BY <1>1, PumpInvariant, PTL

\* Whoever saw the output closed has seen the whole of what the reader sent,
\* and the tombstone of a session that ended by itself, when it is called
\* complete, has every byte ever written to its terminal (PumpState,
\* finish_pump, final_tombstone).
THEOREM WhatIsCalledCompleteIs == Spec => []EndIsWhole
<1>1. PumpInv => EndIsWhole
  BY DEF PumpInv, Ended, Followed, Finalized, EndIsWhole
<1> QED
  BY <1>1, PumpInvariant, PTL
-----------------------------------------------------------------------------
(* The pump keeps the promise of SessionOutput.                             *)

\* The pump is done when it has announced the end; whoever captures has waited for
\* it; and who finalizes was told to or has seen the program exit.
Stopped ==
    /\ pump.pc = "done" => published.closed
    /\ fin.pc \in {"capture", "captured", "dropped"} => PumpStopped
    /\ fin.pc # "none" => shutdownFlag \/ child = "exited"

LEMMA StoppedHolds == PumpInv /\ Stopped /\ [Next]_vars => Stopped'
<1> SUFFICES ASSUME PumpInv, Stopped, [Next]_vars PROVE Stopped'
  OBVIOUS
<1> USE DEF Stopped, PumpStopped
<1>0. Shape /\ Ended
  BY DEF PumpInv
<1>1. CASE TtyWrite
  BY <1>1 DEF TtyWrite, evidence
<1>2. CASE ReaderCheck \/ ReaderRead \/ ReaderEof \/ ReaderSend
  BY <1>2 DEF ReaderCheck, ReaderRead, ReaderEof, ReaderSend, world, evidence
<1>3. CASE PumpTakePending \/ PumpReceive \/ PumpGather \/ PumpStopGathering \/ PumpRetain \/ PumpFeed
  <2>1. UNCHANGED <<child, shutdownFlag, fin>>
    BY <1>3 DEF PumpTakePending, PumpReceive, PumpGather, PumpStopGathering, PumpRetain, PumpFeed, world
  <2>2. pump.pc \in {"recv", "gather", "retain", "feed"}
    BY <1>3 DEF PumpTakePending, PumpReceive, PumpGather, PumpStopGathering, PumpRetain, PumpFeed
  <2>3. pump'.pc \in {"recv", "gather", "retain", "feed"}
    BY <1>3, <1>0, PumpGoesOn
  <2> QED
    BY <2>1, <2>2, <2>3
<1>4. CASE PumpClosed
  <2>1. pump'.pc = "close" /\ pump.pc = "recv" /\ UNCHANGED <<child, shutdownFlag, fin>>
    BY <1>0, <1>4 DEF Shape, Pumps, PumpClosed, world
  <2> QED
    BY <2>1
<1>5. CASE PumpPublishClosed
  <2>1. pump.pc = "close" /\ published'.closed /\ UNCHANGED <<child, shutdownFlag, fin>>
    BY <1>5 DEF PumpPublishClosed, world
  <2> QED
    BY <2>1
<1>6. CASE AbortPump
  <2>1. /\ fin.pc = "finish" /\ UNCHANGED <<child, shutdownFlag, published>>
        /\ pump' = IF PumpStopped THEN pump ELSE [IdlePump EXCEPT !.pc = "aborted"]
    BY <1>6 DEF AbortPump, world, evidence
  <2>2. [IdlePump EXCEPT !.pc = "aborted"].pc = "aborted"
    BY DEF IdlePump
  <2>3. PumpStopped' /\ (pump'.pc = "done" => pump.pc = "done")
    BY <2>1, <2>2
  <2> QED
    BY <2>1, <2>3
<1>7. CASE UNCHANGED vars
  BY <1>7 DEF vars
<1>8. CASE ChildExits \/ DescendantCloses \/ KillBegins \/ CleanerDecides \/ KillDrains \/ JoinPump
           \/ Capture \/ DropHandle
  <2>1. UNCHANGED <<pump, published>> /\ fin \in Finalizations
    BY <1>0, <1>8, BystandersMoveNothing DEF Bystander, evidence, Shape
  <2>2. /\ fin'.pc \in {"capture", "captured", "dropped"} =>
               PumpStopped \/ fin.pc \in {"capture", "captured", "dropped"}
        /\ fin'.pc # "none" => shutdownFlag' \/ child' = "exited"
    <3>1. CASE ChildExits \/ DescendantCloses
      BY <3>1 DEF ChildExits, DescendantCloses
    <3>2. CASE KillBegins
      BY <2>1, <3>2 DEF Finalizations, KillBegins
    <3>3. CASE CleanerDecides
      BY <3>3 DEF CleanerDecides, world
    <3>4. CASE KillDrains \/ JoinPump \/ Capture \/ DropHandle
      <4>1. fin.pc # "none" /\ (child = "exited" => child' = "exited") /\ (shutdownFlag => shutdownFlag')
        BY <3>4 DEF KillDrains, JoinPump, Capture, DropHandle, world
      <4>2. fin'.pc \in {"capture", "captured", "dropped"} =>
                PumpStopped \/ fin.pc \in {"capture", "captured", "dropped"}
        BY <2>1, <3>4 DEF Finalizations, KillDrains, JoinPump, Capture, DropHandle
      <4> QED
        BY <4>1, <4>2
    <3> QED
      BY <1>8, <3>1, <3>2, <3>3, <3>4
  <2> QED
    BY <2>1, <2>2
<1> QED
  BY <1>1, <1>2, <1>3, <1>4, <1>5, <1>6, <1>7, <1>8, StepsAre DEF Bystander

LEMMA SameWords ==
    /\ \A s, t : Promise!IsPrefix(s, t) <=> IsPrefix(s, t)
    /\ \A s, n : Promise!TailOf(s, n) = TailOf(s, n)
    /\ \A s, n : Promise!Account(s, n) = Account(s, n)
BY DEF Promise!IsPrefix, IsPrefix, Promise!TailOf, TailOf, Promise!Skip, Skip, Promise!SatSub, SatSub,
       Promise!Account, Account

\* Steps of reader and pump that only move output along, and decisions about it.
LEMMA QuietKeepsPromise ==
    ASSUME UNCHANGED <<written, shutdownFlag, appended, fed, published, tombstone>>,
           TtyOpen' = TtyOpen, (child' = "exited") = (child = "exited"),
           (pump'.pc = "aborted") = (pump.pc = "aborted")
    PROVE  UNCHANGED Promise!promised
BY DEF Promise!promised, Stage

\* An end has come when the pump has stopped, not before.
LEMMA StageIs ==
    ASSUME PumpInv, Stopped
    PROVE  /\ Stage = "live" <=> ~PumpStopped
           /\ Stage = "announced" <=> published.closed
BY DEF PumpInv, Ended, Stopped, PumpStopped, Stage

LEMMA RetainKeepsPromise == ASSUME PumpInv, Stopped, PumpRetain, PumpInv' PROVE Promise!Record
<1>1. /\ pump.pc = "retain" /\ appended' = appended \o pump.batch
      /\ UNCHANGED <<child, descendant, written, shutdownFlag, fed, published, tombstone>>
  BY DEF PumpRetain, world
<1>2. pump \in Pumps /\ appended \in Seq(Bytes) /\ pump'.pc = "feed"
  BY DEF PumpInv, Shape, Pumps, PumpRetain
<1>3. Stage = "live" /\ Stage' = "live" /\ fed = appended
  BY <1>1, <1>2, StageIs DEF PumpStopped, Stage, PumpInv, Followed
<1>4. IsPrefix(appended, appended')
  BY <1>1, <1>2, PrefixOfConcat DEF Pumps
<1>5. IsPrefix(appended', written)
  BY <1>1 DEF PumpInv, Followed
<1> QED
  BY <1>1, <1>3, <1>4, <1>5, SameWords DEF Promise!Record, TtyOpen

LEMMA FeedKeepsPromise == ASSUME PumpInv, Stopped, PumpFeed PROVE Promise!Show
<1>1. /\ pump.pc = "feed" /\ fed' = fed \o pump.batch /\ ~published'.closed
      /\ UNCHANGED <<child, descendant, written, shutdownFlag, appended, tombstone>>
  BY DEF PumpFeed, world
<1>2. pump'.pc = "recv"
  BY DEF PumpInv, Shape, Pumps, PumpFeed
<1>3. Stage = "live" /\ Stage' = "live"
  BY <1>1, <1>2, StageIs DEF PumpStopped, Stage
<1>4. fed' = appended
  BY <1>1 DEF PumpInv, Followed
<1> QED
  BY <1>1, <1>3, <1>4 DEF Promise!Show, TtyOpen

LEMMA EndKeepsPromise == ASSUME PumpInv, Stopped, PumpPublishClosed PROVE Promise!Announce
<1>1. /\ pump.pc = "close" /\ published'.closed
      /\ UNCHANGED <<child, descendant, written, shutdownFlag, appended, fed, tombstone>>
  BY DEF PumpPublishClosed, world
<1>2. Stage = "live" /\ Stage' = "announced" /\ fed = appended
  BY <1>1, StageIs DEF PumpStopped, Stage, PumpInv, Followed
<1>3. shutdownFlag \/ (~TtyOpen /\ appended = written)
  <2>1. reader.eof \/ shutdownFlag
    BY <1>1 DEF PumpInv, Ended
  <2>2. ASSUME reader.eof PROVE ~TtyOpen /\ appended = written
    BY <1>1, <2>2, WholeAtEnd DEF PumpInv, Ended
  <2> QED
    BY <2>1, <2>2
<1> QED
  BY <1>1, <1>2, <1>3 DEF Promise!Announce, TtyOpen

LEMMA AbortKeepsPromise ==
    ASSUME PumpInv, Stopped, AbortPump
    PROVE  Promise!CutOff \/ UNCHANGED Promise!promised
<1>1. /\ fin.pc = "finish"
      /\ UNCHANGED <<child, descendant, written, shutdownFlag, appended, fed, published, tombstone>>
      /\ pump' = IF PumpStopped THEN pump ELSE [IdlePump EXCEPT !.pc = "aborted"]
  BY DEF AbortPump, world, evidence
<1>2. CASE PumpStopped
  BY <1>1, <1>2, QuietKeepsPromise DEF TtyOpen
<1>3. CASE ~PumpStopped
  <2>1. Stage = "live" /\ ~published.closed
    BY <1>3, StageIs
  <2>2. pump'.pc = "aborted"
    BY <1>1, <1>3 DEF IdlePump
  <2>3. Stage' = "cut"
    BY <1>1, <2>1, <2>2 DEF Stage
  <2>4. shutdownFlag \/ child = "exited"
    BY <1>1 DEF Stopped
  <2> QED
    BY <1>1, <2>1, <2>3, <2>4 DEF Promise!CutOff, TtyOpen
<1> QED
  BY <1>2, <1>3

LEMMA CaptureKeepsPromise == ASSUME PumpInv, Stopped, Capture PROVE Promise!Conclude
<1> DEFINE newest == IF TailBytes < RetainBytes THEN TailBytes ELSE RetainBytes
<1>1. /\ fin.pc = "capture"
      /\ tombstone' = [screen |-> fed, output |-> IntoTail(RingSnapshot(ring), TailBytes),
                       complete |-> fin.complete]
      /\ UNCHANGED <<child, descendant, written, shutdownFlag, pump, appended, fed, published>>
  BY DEF Capture, world, evidence
<1>2. /\ fin \in Finalizations /\ appended \in Seq(Bytes)
      /\ ring.bytes = TailOf(appended, RetainBytes) /\ ring.totalBytes = Len(appended)
      /\ tombstone = NoTombstone
      /\ fin.complete => published.closed
  BY <1>1 DEF PumpInv, Shape, Kept, Finalized
<1>3. TailOf(ring.bytes, TailBytes) = TailOf(appended, newest)
  BY <1>2, BoundsAreNumbers, TailOfTail
<1>4. IntoTail(RingSnapshot(ring), TailBytes) = Account(TailOf(appended, newest), Len(appended))
  BY <1>2, <1>3 DEF IntoTail, RingSnapshot, Account
<1>5. /\ Stage # "live" /\ Stage' = Stage
      /\ fin.complete => Stage = "announced"
  <2>1. PumpStopped
    BY <1>1 DEF Stopped
  <2> QED
    BY <1>1, <1>2, <2>1, StageIs DEF Stage
<1>6. fin.complete \in BOOLEAN
  BY <1>2 DEF Finalizations
<1> HIDE DEF newest
<1>7. tombstone' = [screen |-> fed, output |-> Promise!Account(Promise!TailOf(appended, newest), Len(appended)),
                    complete |-> fin.complete]
  BY <1>1, <1>4, SameWords
<1> QED
  BY <1>1, <1>2, <1>5, <1>6, <1>7 DEF Promise!Conclude, TtyOpen, newest

LEMMA WorldKeepsPromise ==
    ASSUME PumpInv, TtyWrite \/ ChildExits \/ DescendantCloses \/ KillBegins \/ DropHandle
    PROVE  Promise!OutputNext \/ UNCHANGED Promise!promised
<1>0. UNCHANGED <<pump, published>> => Stage' = Stage
  BY DEF Stage
<1>1. CASE TtyWrite
  <2>1. Len(written) + 1 \in 1..MaxWritten
    BY <1>1, BoundsAreNumbers, LenProperties DEF TtyWrite, PumpInv, Shape
  <2>2. Promise!Write
    BY <1>0, <1>1, <2>1 DEF TtyWrite, Promise!Write, TtyOpen, evidence
  <2> QED
    BY <2>2 DEF Promise!OutputNext
<1>2. CASE ChildExits
  <2>1. TtyOpen' \in BOOLEAN
    BY DEF TtyOpen
  <2>2. Promise!Exit
    BY <1>0, <1>2, <2>1 DEF ChildExits, Promise!Exit, evidence
  <2> QED
    BY <2>2 DEF Promise!OutputNext
<1>3. CASE DescendantCloses
  <2>1. CASE child = "exited"
    <3>1. Promise!Leave
      BY <1>0, <1>3, <2>1 DEF DescendantCloses, Promise!Leave, TtyOpen, evidence
    <3> QED
      BY <3>1 DEF Promise!OutputNext
  <2>2. CASE child # "exited"
    BY <1>3, <2>2, QuietKeepsPromise DEF DescendantCloses, TtyOpen, evidence
  <2> QED
    BY <2>1, <2>2
<1>4. CASE KillBegins \/ DropHandle
  <2>1. /\ child' = IF child = "running" THEN "killed" ELSE child
        /\ shutdownFlag' = TRUE
        /\ UNCHANGED <<descendant, written, pump, evidence, tombstone>>
    BY <1>4 DEF KillBegins, DropHandle
  <2>2. Promise!Tell
    BY <1>0, <2>1 DEF Promise!Tell, TtyOpen, evidence
  <2> QED
    BY <2>2 DEF Promise!OutputNext
<1> QED
  BY <1>1, <1>2, <1>3, <1>4

LEMMA OthersKeepPromise ==
    ASSUME PumpInv,
           \/ ReaderCheck \/ ReaderRead \/ ReaderEof \/ ReaderSend
           \/ PumpTakePending \/ PumpReceive \/ PumpGather \/ PumpStopGathering \/ PumpClosed
           \/ CleanerDecides \/ KillDrains \/ JoinPump \/ UNCHANGED vars
    PROVE  UNCHANGED Promise!promised
<1>1. UNCHANGED <<child, descendant, written, shutdownFlag, appended, fed, published, tombstone>>
  BY DEF ReaderCheck, ReaderRead, ReaderEof, ReaderSend, PumpTakePending, PumpReceive, PumpGather,
         PumpStopGathering, PumpClosed, CleanerDecides, KillDrains, JoinPump, vars, world, evidence
<1>2. pump'.pc = "aborted" <=> pump.pc = "aborted"
  <2>1. CASE PumpTakePending \/ PumpReceive \/ PumpGather \/ PumpStopGathering
    <3>1. pump.pc \in {"recv", "gather"} /\ Shape
      BY <2>1 DEF PumpTakePending, PumpReceive, PumpGather, PumpStopGathering, PumpInv
    <3>2. pump'.pc \in {"recv", "gather", "retain", "feed"}
      BY <2>1, <3>1, PumpGoesOn
    <3> QED
      BY <3>1, <3>2
  <2>2. CASE PumpClosed
    BY <2>2 DEF PumpClosed, PumpInv, Shape, Pumps
  <2>3. CASE UNCHANGED pump
    BY <2>3
  <2> QED
    BY <2>1, <2>2, <2>3
       DEF ReaderCheck, ReaderRead, ReaderEof, ReaderSend, CleanerDecides, KillDrains, JoinPump, vars
<1> QED
  BY <1>1, <1>2, QuietKeepsPromise DEF TtyOpen

LEMMA StepsKeepPromise ==
    PumpInv /\ PumpInv' /\ Stopped /\ [Next]_vars => [Promise!OutputNext]_(Promise!promised)
<1> SUFFICES ASSUME PumpInv, PumpInv', Stopped, [Next]_vars
             PROVE  Promise!OutputNext \/ UNCHANGED Promise!promised
  OBVIOUS
<1>1. CASE PumpRetain
  BY <1>1, RetainKeepsPromise DEF Promise!OutputNext
<1>2. CASE PumpFeed
  BY <1>2, FeedKeepsPromise DEF Promise!OutputNext
<1>3. CASE PumpPublishClosed
  BY <1>3, EndKeepsPromise DEF Promise!OutputNext
<1>4. CASE AbortPump
  BY <1>4, AbortKeepsPromise DEF Promise!OutputNext
<1>5. CASE Capture
  BY <1>5, CaptureKeepsPromise DEF Promise!OutputNext
<1>6. CASE TtyWrite \/ ChildExits \/ DescendantCloses \/ KillBegins \/ DropHandle
  BY <1>6, WorldKeepsPromise
<1>7. CASE \/ ReaderCheck \/ ReaderRead \/ ReaderEof \/ ReaderSend
           \/ PumpTakePending \/ PumpReceive \/ PumpGather \/ PumpStopGathering \/ PumpClosed
           \/ CleanerDecides \/ KillDrains \/ JoinPump \/ UNCHANGED vars
  BY <1>7, OthersKeepPromise
<1> QED
  BY <1>1, <1>2, <1>3, <1>4, <1>5, <1>6, <1>7, StepsAre DEF Bystander

\* Reader thread, channel, pump and finalizer together do what SessionOutput says of a
\* session's output: nothing is recorded or shown after its end, which is announced or cut
\* off once, and the evidence is of what stands then (run_output_pump,
\* finish_pump, final_tombstone).
THEOREM OutputKeepsPromise == Spec => ImplementsOutput
<1>1. Init => Promise!OutputInit /\ Stopped
  BY DEF Init, IdlePump, Promise!OutputInit, TtyOpen, Stage, Stopped
<1>2. PumpInv /\ Stopped /\ [Next]_vars => Stopped'
  BY StoppedHolds
<1>3. PumpInv /\ PumpInv' /\ Stopped /\ [Next]_vars => [Promise!OutputNext]_(Promise!promised)
  BY StepsKeepPromise
<1> QED
  BY <1>1, <1>2, <1>3, PumpInvariant, PTL DEF Spec, ImplementsOutput, Promise!OutputSpec
=============================================================================
