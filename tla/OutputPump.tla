----------------------------- MODULE OutputPump -----------------------------
(***************************************************************************)
(* One session's output from its PTY to its evidence: the reader thread    *)
(* (pty.rs), the bounded channel, the pump task (session.rs) that appends  *)
(* to the retention ring, feeds the terminal and publishes its progress,   *)
(* and the finalization, by a kill or by the cleaner, that waits for the   *)
(* end of output at most one drain deadline, joins or aborts the pump and  *)
(* captures the tombstone.                                                 *)
(*                                                                         *)
(* Output bytes are the numbers 1, 2, 3, ... in the order they are         *)
(* written, so a lost, repeated or reordered byte is visible wherever it   *)
(* ends up.  The terminal is what it was fed.  Which of two finalizers     *)
(* gets a session is SessionManager's question; here there is one.         *)
(***************************************************************************)
EXTENDS Retention, FiniteSets, SequencesExt

CONSTANTS
    ReadMax,      \* READ_BUFFER_SIZE
    ChannelCap,   \* capacity of the read channel (64)
    BatchMax,     \* MAX_PUMP_BATCH_BYTES
    RetainBytes,  \* the session's retain_bytes
    TailBytes,    \* TOMBSTONE_OUTPUT_BYTES
    PtyCap,       \* bound: bytes the kernel buffers for the PTY
    MaxWritten,   \* bound: bytes written over the session's life
    NoTombstone

ASSUME OutputPumpAssumption ==
    /\ {ReadMax, ChannelCap, BatchMax, PtyCap} \subseteq Nat \ {0}
    /\ {RetainBytes, TailBytes, MaxWritten} \subseteq Nat
    /\ ReadMax <= BatchMax
    /\ MaxWritten <= MaxCount   \* u64::MAX is out of any session's reach

VARIABLES
    child,        \* the direct child: running, killed (SIGKILL sent), exited
    descendant,   \* another process still has the terminal open
    written,      \* history: every byte written to the terminal
    pty,          \* bytes the kernel holds for the reader
    shutdownFlag, \* the reader thread's shutdown flag
    reader,       \* the reader thread: pc, its chunk, whether it saw EOF
    channel,      \* chunks on their way to the pump
    pump,         \* the pump task: pc, batch, pending chunk
    ring,         \* the retention ring
    appended,     \* history: every byte appended to the ring
    fed,          \* the terminal: every byte the emulator was fed
    revision,     \* the terminal's revision
    published,    \* PumpState: revision and whether the output is closed
    fin,          \* the finalization: pc, by whom, output_complete
    tombstone     \* the final evidence

world == <<child, descendant, written>>
evidence == <<ring, appended, fed, revision, published>>
vars == <<child, descendant, written, pty, shutdownFlag, reader, channel, pump,
          ring, appended, fed, revision, published, fin, tombstone>>

TtyOpen == child # "exited" \/ descendant
ReaderDone == reader.pc = "done"                     \* read_tx is dropped
PumpStopped == pump.pc \in {"done", "aborted"}       \* read_rx is dropped

IdlePump == [pc |-> "recv", batch |-> <<>>, pending |-> <<>>]

Init ==
    /\ child = "running"
    /\ descendant \in BOOLEAN
    /\ written = <<>> /\ pty = <<>>
    /\ shutdownFlag = FALSE
    /\ reader = [pc |-> "check", chunk |-> <<>>, eof |-> FALSE]
    /\ channel = <<>>
    /\ pump = IdlePump
    /\ ring = NewRing(RetainBytes) /\ appended = <<>>
    /\ fed = <<>> /\ revision = 0
    /\ published = [revision |-> 0, closed |-> FALSE]
    /\ fin = [pc |-> "none", by |-> "nobody", complete |-> FALSE]
    /\ tombstone = NoTombstone
-----------------------------------------------------------------------------
(* The processes on the other side of the PTY.                              *)

TtyWrite ==
    /\ TtyOpen
    /\ Len(written) < MaxWritten /\ Len(pty) < PtyCap
    /\ written' = Append(written, Len(written) + 1)
    /\ pty' = Append(pty, Len(written) + 1)
    /\ UNCHANGED <<child, descendant, shutdownFlag, reader, channel, pump, evidence, fin, tombstone>>

ChildExits ==
    /\ child # "exited"
    /\ child' = "exited"
    /\ UNCHANGED <<descendant, written, pty, shutdownFlag, reader, channel, pump, evidence, fin, tombstone>>

DescendantCloses ==
    /\ descendant
    /\ descendant' = FALSE
    /\ UNCHANGED <<child, written, pty, shutdownFlag, reader, channel, pump, evidence, fin, tombstone>>
-----------------------------------------------------------------------------
(* reader_loop: look at the flag, block in read, block in send.             *)

ReaderCheck ==
    /\ reader.pc = "check"
    /\ reader' = [reader EXCEPT !.pc = IF shutdownFlag THEN "done" ELSE "read"]
    /\ UNCHANGED <<world, pty, shutdownFlag, channel, pump, evidence, fin, tombstone>>

ReaderRead ==
    /\ reader.pc = "read"
    /\ \E n \in 1..ReadMax :
        /\ n <= Len(pty)
        /\ reader' = [reader EXCEPT !.pc = "send", !.chunk = SubSeq(pty, 1, n)]
        /\ pty' = Skip(pty, n)
    /\ UNCHANGED <<world, shutdownFlag, channel, pump, evidence, fin, tombstone>>

\* A fault: a read that finds nothing is taken for the end.
ReaderEofOnEmpty ==
    /\ reader.pc = "read" /\ pty = <<>>
    /\ reader' = [reader EXCEPT !.pc = "done", !.eof = TRUE]
    /\ UNCHANGED <<world, pty, shutdownFlag, channel, pump, evidence, fin, tombstone>>

\* Nothing is left and nobody has the terminal open: EOF, or EIO on Linux.
ReaderEof ==
    /\ reader.pc = "read" /\ pty = <<>> /\ ~TtyOpen
    /\ reader' = [reader EXCEPT !.pc = "done", !.eof = TRUE]
    /\ UNCHANGED <<world, pty, shutdownFlag, channel, pump, evidence, fin, tombstone>>

\* A fault: a full channel drops the chunk instead of blocking the thread.
ReaderSendLossy ==
    /\ reader.pc = "send"
    /\ IF PumpStopped
       THEN reader' = [reader EXCEPT !.pc = "done", !.chunk = <<>>] /\ UNCHANGED channel
       ELSE /\ channel' = IF Len(channel) < ChannelCap THEN Append(channel, reader.chunk) ELSE channel
            /\ reader' = [reader EXCEPT !.pc = "check", !.chunk = <<>>]
    /\ UNCHANGED <<world, pty, shutdownFlag, pump, evidence, fin, tombstone>>

ReaderSend ==
    /\ reader.pc = "send"
    /\ \/ /\ PumpStopped
          /\ reader' = [reader EXCEPT !.pc = "done", !.chunk = <<>>]
          /\ UNCHANGED channel
       \/ /\ ~PumpStopped /\ Len(channel) < ChannelCap
          /\ channel' = Append(channel, reader.chunk)
          /\ reader' = [reader EXCEPT !.pc = "check", !.chunk = <<>>]
    /\ UNCHANGED <<world, pty, shutdownFlag, pump, evidence, fin, tombstone>>
-----------------------------------------------------------------------------
(* run_output_pump.  Its awaits, where an abort can end it, are the recv,   *)
(* the ring's lock and the terminal's lock; feeding the terminal and        *)
(* publishing the new revision happen in one go.                            *)

PumpTakePending ==
    /\ pump.pc = "recv" /\ pump.pending # <<>>
    /\ pump' = [pc |-> "gather", batch |-> pump.pending, pending |-> <<>>]
    /\ UNCHANGED <<world, pty, shutdownFlag, reader, channel, evidence, fin, tombstone>>

\* A fault: the channel is served before the chunk that was set aside.
PumpReceiveFirst ==
    /\ pump.pc = "recv" /\ channel # <<>>
    /\ pump' = [pump EXCEPT !.pc = "gather", !.batch = Head(channel)]
    /\ channel' = Tail(channel)
    /\ UNCHANGED <<world, pty, shutdownFlag, reader, evidence, fin, tombstone>>

PumpReceive ==
    /\ pump.pc = "recv" /\ pump.pending = <<>> /\ channel # <<>>
    /\ pump' = [pump EXCEPT !.pc = "gather", !.batch = Head(channel)]
    /\ channel' = Tail(channel)
    /\ UNCHANGED <<world, pty, shutdownFlag, reader, evidence, fin, tombstone>>

\* A fault: a chunk that does not fit the batch is dropped, not set aside.
PumpGatherDropping ==
    /\ pump.pc = "gather" /\ Len(pump.batch) < BatchMax /\ channel # <<>>
    /\ channel' = Tail(channel)
    /\ pump' = IF Len(pump.batch) + Len(Head(channel)) <= BatchMax
               THEN [pump EXCEPT !.batch = @ \o Head(channel)]
               ELSE [pump EXCEPT !.pc = "retain"]
    /\ UNCHANGED <<world, pty, shutdownFlag, reader, evidence, fin, tombstone>>

\* try_recv until the batch is full: a chunk that does not fit is set aside.
PumpGather ==
    /\ pump.pc = "gather" /\ Len(pump.batch) < BatchMax /\ channel # <<>>
    /\ channel' = Tail(channel)
    /\ pump' = IF Len(pump.batch) + Len(Head(channel)) <= BatchMax
               THEN [pump EXCEPT !.batch = @ \o Head(channel)]
               ELSE [pump EXCEPT !.pc = "retain", !.pending = Head(channel)]
    /\ UNCHANGED <<world, pty, shutdownFlag, reader, evidence, fin, tombstone>>

PumpStopGathering ==
    /\ pump.pc = "gather"
    /\ Len(pump.batch) >= BatchMax \/ channel = <<>>
    /\ pump' = [pump EXCEPT !.pc = "retain"]
    /\ UNCHANGED <<world, pty, shutdownFlag, reader, channel, evidence, fin, tombstone>>

PumpRetain ==
    /\ pump.pc = "retain"
    /\ ring' = RingAppend(ring, pump.batch)
    /\ appended' = appended \o pump.batch
    /\ pump' = [pump EXCEPT !.pc = "feed"]
    /\ UNCHANGED <<world, pty, shutdownFlag, reader, channel, fed, revision, published, fin, tombstone>>

PumpFeed ==
    /\ pump.pc = "feed"
    /\ fed' = fed \o pump.batch
    /\ revision' = revision + 1
    /\ published' = [revision |-> revision', closed |-> FALSE]
    /\ pump' = [pump EXCEPT !.pc = "recv", !.batch = <<>>]
    /\ UNCHANGED <<world, pty, shutdownFlag, reader, channel, ring, appended, fin, tombstone>>

PumpClosed ==
    /\ pump.pc = "recv" /\ pump.pending = <<>> /\ channel = <<>> /\ ReaderDone
    /\ pump' = [pump EXCEPT !.pc = "close"]
    /\ UNCHANGED <<world, pty, shutdownFlag, reader, channel, evidence, fin, tombstone>>

PumpPublishClosed ==
    /\ pump.pc = "close"
    /\ published' = [revision |-> revision, closed |-> TRUE]
    /\ pump' = [pump EXCEPT !.pc = "done"]
    /\ UNCHANGED <<world, pty, shutdownFlag, reader, channel, ring, appended, fed, revision, fin, tombstone>>
-----------------------------------------------------------------------------
(* Finalization.                                                            *)

\* Session::shutdown begins: SIGKILL to the direct child, then the flag.
KillBegins ==
    /\ fin.pc = "none"
    /\ child' = IF child = "running" THEN "killed" ELSE child
    /\ shutdownFlag' = TRUE
    /\ fin' = [fin EXCEPT !.pc = "drain", !.by = "kill"]
    /\ UNCHANGED <<descendant, written, pty, reader, channel, pump, evidence, tombstone>>

KillDrains ==
    /\ fin.pc = "drain"
    /\ fin' = [fin EXCEPT !.pc = "finish", !.complete = published.closed]
    /\ UNCHANGED <<world, pty, shutdownFlag, reader, channel, pump, evidence, tombstone>>

\* A fault: the drain deadline is forgotten, the pump is always joined.
CleanerDecidesComplete ==
    /\ fin.pc = "none" /\ child = "exited"
    /\ fin' = [pc |-> "finish", by |-> "cleaner", complete |-> TRUE]
    /\ UNCHANGED <<world, pty, shutdownFlag, reader, channel, pump, evidence, tombstone>>

\* The cleaner saw the exit; either the output is closed or the drain deadline
\* has passed, and it takes the closing as it sees it.
CleanerDecides ==
    /\ fin.pc = "none" /\ child = "exited"
    /\ fin' = [pc |-> "finish", by |-> "cleaner", complete |-> published.closed]
    /\ UNCHANGED <<world, pty, shutdownFlag, reader, channel, pump, evidence, tombstone>>

\* finish_pump: join the pump that published the end, abort any other at the
\* await it is in.
JoinPump ==
    /\ fin.pc = "finish" /\ fin.complete /\ PumpStopped
    /\ fin' = [fin EXCEPT !.pc = "capture"]
    /\ UNCHANGED <<world, pty, shutdownFlag, reader, channel, pump, evidence, tombstone>>

\* A fault: the pump is told to end and not waited for.
AbortPumpUnawaited ==
    /\ fin.pc = "finish" /\ ~fin.complete
    /\ fin' = [fin EXCEPT !.pc = "capture"]
    /\ UNCHANGED <<world, pty, shutdownFlag, reader, channel, pump, evidence, tombstone>>

AbortPump ==
    /\ fin.pc = "finish" /\ ~fin.complete
    /\ pump.pc # "gather"
    /\ pump' = IF PumpStopped THEN pump ELSE [IdlePump EXCEPT !.pc = "aborted"]
    /\ channel' = <<>>
    /\ fin' = [fin EXCEPT !.pc = "capture"]
    /\ UNCHANGED <<world, pty, shutdownFlag, reader, evidence, tombstone>>

\* final_tombstone.
Capture ==
    /\ fin.pc = "capture"
    /\ tombstone' = [screen |-> fed, output |-> IntoTail(RingSnapshot(ring), TailBytes),
                     complete |-> fin.complete]
    /\ fin' = [fin EXCEPT !.pc = "captured"]
    /\ UNCHANGED <<world, pty, shutdownFlag, reader, channel, pump, evidence>>

\* The registry lets go of the session: AsyncPtyHandle is dropped.
DropHandle ==
    /\ fin.pc = "captured"
    /\ child' = IF child = "running" THEN "killed" ELSE child
    /\ shutdownFlag' = TRUE
    /\ fin' = [fin EXCEPT !.pc = "dropped"]
    /\ UNCHANGED <<descendant, written, pty, reader, channel, pump, evidence, tombstone>>

ReaderStep == ReaderCheck \/ ReaderRead \/ ReaderEof \/ ReaderSend
PumpStep ==
    \/ PumpTakePending \/ PumpReceive \/ PumpGather \/ PumpStopGathering
    \/ PumpRetain \/ PumpFeed \/ PumpClosed \/ PumpPublishClosed
FinStep == KillDrains \/ JoinPump \/ AbortPump \/ Capture \/ DropHandle

Next ==
    \/ TtyWrite \/ ChildExits \/ DescendantCloses
    \/ ReaderStep \/ PumpStep
    \/ KillBegins \/ CleanerDecides \/ FinStep

Spec == Init /\ [][Next]_vars

\* Threads and tasks are scheduled, a killed child dies and the drain deadline
\* passes; nothing is assumed of a descendant or of when anybody finalizes.
Fairness ==
    /\ WF_vars(ReaderStep) /\ WF_vars(PumpStep) /\ WF_vars(FinStep)
    /\ WF_vars(child = "killed" /\ ChildExits)

FairSpec == Spec /\ Fairness
-----------------------------------------------------------------------------
\* Every field has its type, and the channel its bound: output a session
\* produces faster than it is retained waits in the kernel, not in the daemon.
TypeOK ==
    LET bytes == 1..MaxWritten
    IN  /\ child \in {"running", "killed", "exited"}
        /\ {descendant, shutdownFlag} \subseteq BOOLEAN
        /\ {written, pty, appended, fed, pump.batch, pump.pending, reader.chunk} \subseteq Seq(bytes)
        /\ reader.pc \in {"check", "read", "send", "done"} /\ reader.eof \in BOOLEAN
        /\ channel \in Seq(Seq(bytes)) /\ Len(channel) <= ChannelCap
        /\ pump.pc \in {"recv", "gather", "retain", "feed", "close", "done", "aborted"}
        /\ ring.bytes \in Seq(bytes) /\ Len(ring.bytes) <= RetainBytes
        /\ revision \in 0..MaxWritten
        /\ published \in [revision : 0..MaxWritten, closed : BOOLEAN]
        /\ fin \in [pc : {"none", "drain", "finish", "capture", "captured", "dropped"},
                    by : {"nobody", "kill", "cleaner"}, complete : BOOLEAN]

\* Bytes written that are on their way to the ring, oldest first.
InFlight ==
    (IF pump.pc \in {"gather", "retain"} THEN pump.batch ELSE <<>>)
        \o pump.pending \o FlattenSeq(channel) \o reader.chunk \o pty

\* No byte is lost, repeated or reordered between the terminal and the ring,
\* whatever sizes it is read, queued and batched in, unless the pump is aborted.
BytesConserved == pump.pc # "aborted" => written = appended \o InFlight

\* The evidence never shows anything that was not written, in that order; the
\* screen lags the ring only while a batch is being fed or after an abort
\* there; and a revision stands for everything the screen was fed.  The fields
\* have their types and the channel its bound.
EvidenceTruthful ==
    /\ TypeOK
    /\ IsPrefix(fed, appended) /\ IsPrefix(appended, written)
    /\ ring.bytes = TailOf(appended, RetainBytes)
    /\ pump.pc \notin {"feed", "aborted"} => fed = appended
    /\ published.revision = revision

\* The end of output is published after the last byte the reader sent has
\* reached ring and screen, so no observer that saw it misses output; and the
\* tombstone of a session that ended by itself and is called complete has
\* everything that was ever written to its terminal.
EndIsWhole ==
    /\ published.closed =>
            /\ ReaderDone /\ channel = <<>> /\ pump.pending = <<>>
            /\ pump.pc = "done" /\ fed = appended
    /\ tombstone # NoTombstone /\ fin.by = "cleaner" /\ tombstone.complete =>
            /\ reader.eof
            /\ tombstone.screen = written
            /\ tombstone.output.totalBytes = Len(written)

\* How far the output of the session is from its end, which comes once.
Stage ==
    IF published.closed THEN "announced" ELSE IF pump.pc = "aborted" THEN "cut" ELSE "live"

Promise == INSTANCE SessionOutput
    WITH Output <- 1..MaxWritten,
         Newest <- IF TailBytes < RetainBytes THEN TailBytes ELSE RetainBytes,
         Nothing <- NoTombstone,
         output <- written, open <- TtyOpen, over <- child = "exited", told <- shutdownFlag,
         record <- appended, shown <- fed, stage <- Stage, evidence <- tombstone

\* Thread, channel, pump and finalizer do what SessionOutput promises: the screen
\* is a batch behind at most, nothing is recorded or shown after an end was
\* announced or cut off, and the evidence is of what stands then.
ImplementsOutput == Promise!OutputSpec

\* What is written to a session reaches its screen unless it is being ended.
OutputReachesScreen ==
    \A n \in 1..MaxWritten :
        Len(written) >= n ~> Len(fed) >= n \/ fin.pc # "none"

\* A finalization ends, whoever keeps the terminal open, and its reader thread
\* with it unless somebody does (the drop comment, pty.rs:308-317).
FinalizationEnds ==
    fin.pc # "none" ~> fin.pc = "dropped" /\ (ReaderDone \/ TtyOpen)
=============================================================================
