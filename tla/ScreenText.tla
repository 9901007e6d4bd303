----------------------------- MODULE ScreenText -----------------------------
(***************************************************************************)
(* What a capture shows of a screen (server.rs, snapshot.rs).  A screen is *)
(* its text, a sequence of lines of characters, and the cursor, counted    *)
(* from zero.  The content hash is a function of the text alone; the models *)
(* take equal hashes for equal texts.                                      *)
(***************************************************************************)
EXTENDS SequenceParts, FiniteSetsExt

CONSTANT ScrollbackRows   \* READABLE_LOG_SCROLLBACK_ROWS

ASSUME ScrollbackAssumption == ScrollbackRows \in Nat

Formats == {"full", "compact", "text"}

ContentHash(screen) == screen.text

Blank(n) == [i \in 1..n |-> " "]

\* A line with the cursor on it: around a character, or past the line's end.
MarkedLine(line, col) ==
    IF col < Len(line)
    THEN SubSeq(line, 1, col) \o <<"[", line[col + 1], "]">> \o SubSeq(line, col + 2, Len(line))
    ELSE line \o Blank(col - Len(line)) \o <<"[", "_", "]">>

LineOf(text, i) == IF i <= Len(text) THEN text[i] ELSE <<>>

\* A fault: the cursor's column counted from one.
FormatTextSnapshotShifted(screen) ==
    [i \in 1..Max({Len(screen.text), screen.row + 1}) |->
        IF i = screen.row + 1
        THEN MarkedLine(LineOf(screen.text, i), screen.col + 1)
        ELSE LineOf(screen.text, i)]

\* The text format: every line, the cursor's marked, blank lines down to it.
FormatTextSnapshot(screen) ==
    [i \in 1..Max({Len(screen.text), screen.row + 1}) |->
        IF i = screen.row + 1
        THEN MarkedLine(LineOf(screen.text, i), screen.col)
        ELSE LineOf(screen.text, i)]

\* The content of a response in one of the formats, of a live session or of
\* the final screen of a tombstone: the code builds each in a place of its own.
LiveView(screen, format) ==
    [text  |-> CASE format = "full" -> screen.text
                 [] format = "text" -> FormatTextSnapshot(screen)
                 [] OTHER -> <<>>,
     hash  |-> IF format = "full" THEN <<ContentHash(screen)>> ELSE <<>>,
     row   |-> screen.row, col |-> screen.col]

TombstoneView(final, format) ==
    [text  |-> CASE format = "full" -> final.text
                 [] format = "text" -> FormatTextSnapshot(final)
                 [] OTHER -> <<>>,
     hash  |-> IF format = "full" THEN <<ContentHash(final)>> ELSE <<>>,
     row   |-> final.row, col |-> final.col]
-----------------------------------------------------------------------------
(* The readable form of retained output (render_retained_output): the       *)
(* newest lines that scrolled off, a screenful at a time, then the screen.  *)

\* What the replaying emulator keeps of the lines that scrolled off.
Scrollback(gone) == TailOf(gone, ScrollbackRows)

\* The screen of so many rows that one sees scrolled back by offset lines.
Scrolled(back, visible, offset) == SubSeq(back \o visible, Len(back) - offset + 1, Len(back) - offset + Len(visible))

ScrolledOff(back, visible) ==
    LET rows == Len(visible)
        from[offset \in 0..Len(back)] ==
            IF offset = 0 THEN <<>>
            ELSE SubSeq(Scrolled(back, visible, offset), 1, IF offset < rows THEN offset ELSE rows)
                     \o from[IF offset > rows THEN offset - rows ELSE 0]
    IN from[Len(back)]

WithoutBlankEnd(lines) ==
    SubSeq(lines, 1, Max({0} \cup {i \in DOMAIN lines : lines[i] # <<>>}))

RenderRetained(gone, visible) ==
    WithoutBlankEnd(ScrolledOff(Scrollback(gone), visible) \o visible)
=============================================================================
