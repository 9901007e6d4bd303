------------------------------- MODULE Framing -------------------------------
(***************************************************************************)
(* How the daemon reads requests from a connection, one to a line          *)
(* (read_line_bounded, handle_connection).  A byte is a newline, a blank,  *)
(* a letter, or the lead or the tail of a character of two bytes.  The     *)
(* stream arrives cut into chunks; `cuts` are the positions of the cuts.   *)
(***************************************************************************)
EXTENDS SequenceParts, SequencesExt

CONSTANTS
    Streams,      \* what connections can carry
    MaxRequest    \* MAX_REQUEST_SIZE

Bytes == {"newline", "blank", "letter", "lead", "tail"}

ASSUME FramingAssumption ==
    /\ \A stream \in Streams : stream \in Seq(Bytes)
    /\ MaxRequest \in Nat

\* What fill_buf returns at a position: the rest of the chunk.
Available(stream, cuts, p) ==
    SubSeq(stream, p + 1, Min({c \in cuts \cup {Len(stream)} : c > p}))

\* Where in a chunk the first newline is, and how much of it belongs to the line.
NewlinePos(available) == SelectInSeq(available, LAMBDA b : b = "newline")
BytesToConsume(available) == IF NewlinePos(available) > 0 THEN NewlinePos(available) ELSE Len(available)

Utf8Valid(bytes) ==
    \A i \in DOMAIN bytes :
        /\ bytes[i] = "lead" => i < Len(bytes) /\ bytes[i + 1] = "tail"
        /\ bytes[i] = "tail" => i > 1 /\ bytes[i - 1] = "lead"

\* A fault: each chunk is decoded by itself.
ReadLineByChunk(stream, cuts, start, max) ==
    LET scan[p \in start..Len(stream)] ==
        LET available == Available(stream, cuts, p)
            end == p + BytesToConsume(available)
        IN IF p = Len(stream) THEN [end |-> p, error |-> "none"]
           ELSE IF end - start > max THEN [end |-> start, error |-> "tooLarge"]
           ELSE IF ~Utf8Valid(SubSeq(stream, p + 1, end)) THEN [end |-> end, error |-> "notUtf8"]
           ELSE IF NewlinePos(available) > 0 THEN [end |-> end, error |-> "none"]
           ELSE scan[end]
    IN scan[start]

\* Where the line that begins at `start` ends, or why reading it fails; at the
\* end of the stream an unfinished line is a line.
ReadLine(stream, cuts, start, max) ==
    LET scan[p \in start..Len(stream)] ==
            LET available == Available(stream, cuts, p)
                end == p + BytesToConsume(available)
            IN IF p = Len(stream) THEN [end |-> p, error |-> "none"]
               ELSE IF end - start > max THEN [end |-> start, error |-> "tooLarge"]
               ELSE IF NewlinePos(available) > 0 THEN [end |-> end, error |-> "none"]
               ELSE scan[end]
        got == scan[start]
    IN IF got.error = "none" /\ ~Utf8Valid(SubSeq(stream, start + 1, got.end))
       THEN [got EXCEPT !.error = "notUtf8"] ELSE got

\* str::trim, for these bytes.
Trim(line) ==
    LET ink == {i \in DOMAIN line : line[i] \notin {"newline", "blank"}}
    IN IF ink = {} THEN <<>> ELSE SubSeq(line, Min(ink), Max(ink))

\* The requests of a connection, in order, and how it ended.
Received(stream, cuts, max) ==
    LET from[start \in 0..Len(stream)] ==
        LET got == ReadLine(stream, cuts, start, max)
            line == Trim(SubSeq(stream, start + 1, got.end))
        IN IF got.error # "none" THEN <<<<got.error>>>>
           ELSE IF got.end = start THEN <<<<"disconnected">>>>
           ELSE (IF line = <<>> THEN <<>> ELSE <<line>>) \o from[got.end]
    IN from[0]
-----------------------------------------------------------------------------
(* What a stream says from a position on, however it arrives.               *)

\* A line ends with its newline, the last one with the stream.
LineEnds(stream, start) ==
    {e \in start + 1..Len(stream) : stream[e] = "newline" \/ e = Len(stream)}

LineTo(stream, start, e) ==
    SubSeq(stream, Max({start} \cup {d \in LineEnds(stream, start) : d < e}) + 1, e)

LineError(line, max) ==
    IF Len(line) > max THEN "tooLarge" ELSE IF ~Utf8Valid(line) THEN "notUtf8" ELSE "none"

\* The lines that are read: those before the first one that cannot be.
ReadEnds(stream, start, max) ==
    {e \in LineEnds(stream, start) :
        \A d \in LineEnds(stream, start) : d <= e => LineError(LineTo(stream, start, d), max) = "none"}

RequestsIn(stream, start, max) ==
    LET ends == {e \in ReadEnds(stream, start, max) : Trim(LineTo(stream, start, e)) # <<>>}
    IN [k \in 1..Cardinality(ends) |-> Trim(LineTo(stream, start, Place(ends, k)))]

EndOf(stream, start, max) ==
    LET unread == LineEnds(stream, start) \ ReadEnds(stream, start, max)
    IN IF unread = {} THEN "disconnected" ELSE LineError(LineTo(stream, start, Min(unread)), max)

EveryLineAsSent ==
    \A stream \in Streams : \A cuts \in SUBSET (1..Len(stream) - 1) :
        Received(stream, cuts, MaxRequest) =
            Append(RequestsIn(stream, 0, MaxRequest), <<EndOf(stream, 0, MaxRequest)>>)
=============================================================================
