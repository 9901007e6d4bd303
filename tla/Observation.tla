---------------------------- MODULE Observation ----------------------------
(***************************************************************************)
(* A client that looks at a session's screen, at once or after waiting for *)
(* it (handle_snapshot, handle_wait_for), while the pump feeds the screen, *)
(* another client resizes it and a kill or the cleaner ends the session.   *)
(*                                                                         *)
(* The pump's watch channel is the counter `version` of what was sent on   *)
(* it; an observer keeps the version it has seen.  The clock moves only    *)
(* when neither the waiting request nor a pump about to publish can go on: *)
(* tasks that can run do so within a tick.  Kill, cleaner and processes    *)
(* take as long as they like.  The clock stops with the answer.            *)
(*                                                                         *)
(* A lookup is one step here: what the registry answers between its locks  *)
(* is SessionManager's question.  Tombstones do not expire in this time.   *)
(***************************************************************************)
EXTENDS Integers, Sequences, FiniteSets, ScreenText

CONSTANTS
    Screens,      \* the screens output and resize can lead to
    Matching,     \* the texts a wait-for's pattern matches
    Baselines,    \* what --await-change may name: hashes, or NoBaseline
    Settles,      \* settle_ms, in ticks
    Timeout,      \* timeout_ms, in ticks
    PollInterval, \* the 25 ms between two looks at the child after EOF
    MaxUpdates,   \* bound: batches the pump feeds
    MaxTime,      \* bound of the clock
    NoBaseline, NoReply, NoTombstone

ASSUME ObservationAssumption ==
    /\ Settles \subseteq Nat
    /\ {Timeout, PollInterval} \subseteq Nat \ {0}
    /\ {MaxUpdates, MaxTime} \subseteq Nat
    /\ NoBaseline \in Baselines
    /\ Screens # {}
    /\ \A s \in Screens : s.text \in Seq(Seq(STRING)) /\ {s.row, s.col} \subseteq Nat
    /\ NoTombstone \notin [screen : Screens, complete : BOOLEAN, killed : BOOLEAN]

VARIABLES
    now,       \* the clock
    screen,    \* what the emulator shows
    pump,      \* recv, publish, closed (returned at end of output), aborted
    updates,   \* batches fed so far
    version,   \* how often the pump has sent its state
    closed,    \* output_closed of the state it sent last
    child,     \* the direct child: running, killed (SIGKILL sent), exited
    sess,      \* live (in the map), removed (by a kill), buried (a tombstone)
    fin,       \* the session's finalizer: pc, by whom, output_complete
    tombstone, \* the final evidence
    w,         \* the request: its locals and its program counter
    lastTick,  \* history: the screen when the clock last moved
    steady,    \* history: ticks in a row that ended with that text
    resized    \* history: a resize changed the screen

session == <<screen, pump, updates, version, closed, child, sess, fin, tombstone>>
history == <<lastTick, steady, resized>>
vars == <<now, session, w, history>>

Idle == [pc |-> "idle", op |-> "snapshot", base |-> NoBaseline, settle |-> 0,
         format |-> "full", phase |-> 0, start |-> 0, seen |-> 0,
         closed |-> FALSE, last |-> <<>>, since |-> 0, wake |-> 0, left |-> 0,
         aim |-> "capture", outcome |-> "immediate", reply |-> NoReply]

Init ==
    /\ now = 0
    /\ screen \in Screens
    /\ pump = "recv" /\ updates = 0 /\ version = 0 /\ closed = FALSE
    /\ child = "running" /\ sess = "live"
    /\ fin = [pc |-> "none", by |-> "nobody", complete |-> FALSE]
    /\ tombstone = NoTombstone
    /\ w = Idle
    /\ lastTick = screen /\ steady = 0 /\ resized = FALSE
-----------------------------------------------------------------------------
(* The session under observation.                                           *)

\* The pump feeds a batch under the terminal's lock; it sends after unlocking.
Feed ==
    /\ pump = "recv" /\ updates < MaxUpdates
    /\ screen' \in Screens
    /\ updates' = updates + 1
    /\ pump' = "publish"
    /\ UNCHANGED <<now, version, closed, child, sess, fin, tombstone, w, history>>

Publish ==
    /\ pump = "publish"
    /\ version' = version + 1
    /\ pump' = "recv"
    /\ UNCHANGED <<now, screen, updates, closed, child, sess, fin, tombstone, w, history>>

\* The read channel ended.  The child may still run: EOF is not an exit.
CloseOutput ==
    /\ pump = "recv"
    /\ closed' = TRUE /\ version' = version + 1
    /\ pump' = "closed"
    /\ UNCHANGED <<now, screen, updates, child, sess, fin, tombstone, w, history>>

ChildExits ==
    /\ child # "exited"
    /\ child' = "exited"
    /\ UNCHANGED <<now, screen, pump, updates, version, closed, sess, fin, tombstone, w, history>>

\* resize_session changes the screen and publishes nothing.
ResizeSession ==
    /\ ~resized /\ sess = "live"
    /\ screen' \in Screens \ {screen}
    /\ resized' = TRUE
    /\ UNCHANGED <<now, pump, updates, version, closed, child, sess, fin, tombstone, w, lastTick, steady>>
-----------------------------------------------------------------------------
(* The end of the session, by a kill or by the cleaner.  A kill may take    *)
(* the session from a cleaner that already has it in hand, whose capture    *)
(* is then dropped.                                                         *)

KillRemove ==
    /\ sess = "live"
    /\ sess' = "removed"
    /\ child' = IF child = "running" THEN "killed" ELSE child
    /\ fin' = [pc |-> "drain", by |-> "client", complete |-> FALSE]
    /\ tombstone' = NoTombstone
    /\ UNCHANGED <<now, screen, pump, updates, version, closed, w, history>>

\* Joined when the output ended, aborted at one of the pump's awaits if not.
StopPump(complete) ==
    IF complete THEN UNCHANGED pump
    ELSE /\ pump \in {"recv", "closed", "aborted"}
         /\ pump' = IF pump = "recv" THEN "aborted" ELSE pump

KillDrained ==
    /\ fin.pc = "drain"
    /\ fin' = [fin EXCEPT !.pc = "capture", !.complete = closed]
    /\ StopPump(closed)
    /\ UNCHANGED <<now, screen, updates, version, closed, child, sess, tombstone, w, history>>

\* The scan of the cleaner: an exited child whose output ended, or whose drain
\* is over (the case where it has not ended).
CleanerDecides ==
    /\ sess = "live" /\ child = "exited" /\ fin.pc = "none"
    /\ fin' = [pc |-> "capture", by |-> "cleaner", complete |-> closed]
    /\ StopPump(closed)
    /\ UNCHANGED <<now, screen, updates, version, closed, child, sess, tombstone, w, history>>

FinalTombstone ==
    /\ fin.pc = "capture"
    /\ tombstone' = [screen |-> screen, complete |-> fin.complete, killed |-> fin.by = "client"]
    /\ fin' = [fin EXCEPT !.pc = "bury"]
    /\ UNCHANGED <<now, screen, pump, updates, version, closed, child, sess, w, history>>

Bury ==
    /\ fin.pc = "bury"
    /\ sess' = "buried"
    /\ fin' = [fin EXCEPT !.pc = "done"]
    /\ UNCHANGED <<now, screen, pump, updates, version, closed, child, tombstone, w, history>>
-----------------------------------------------------------------------------
(* What a request can answer.                                               *)

Step(pc) == w' = [w EXCEPT !.pc = pc]

Answer(r) == w' = [w EXCEPT !.pc = "done", !.reply = r]

ErrorReply(code) == [kind |-> code]

CaptureReply(view, from, complete, killed) ==
    [kind |-> w.outcome, from |-> from, view |-> view, of |-> screen,
     complete |-> complete, killed |-> killed]

ExitedSnapshotResponse ==
    Answer([kind |-> "exited", from |-> "tombstone", of |-> tombstone.screen,
            view |-> TombstoneView(tombstone.screen, w.format),
            complete |-> tombstone.complete, killed |-> tombstone.killed])

\* finalized_snapshot_response, or what is answered when there is no tombstone.
FinalizedOr(otherwise) == IF sess = "buried" THEN ExitedSnapshotResponse ELSE otherwise

\* live_snapshot_response: observer.current() once more, under this outcome.
Capture(outcome) == w' = [w EXCEPT !.pc = "mark", !.aim = "capture", !.outcome = outcome]

Elapsed == now - w.start
Remaining == w.start + Timeout - now
Least(a, b) == IF a <= b THEN a ELSE b
-----------------------------------------------------------------------------
(* The request.                                                             *)

Request ==
    /\ w.pc = "idle" /\ now + 2 * Timeout <= MaxTime
    /\ \/ \E b \in Baselines, s \in Settles, f \in Formats :
            w' = [w EXCEPT !.pc = "resolve", !.base = b, !.settle = s, !.format = f]
       \/ w' = [w EXCEPT !.pc = "resolve", !.op = "wait_for"]
    /\ UNCHANGED <<now, session, history>>

Resolve ==
    /\ w.pc = "resolve"
    /\ CASE sess = "live" -> Step("observe")
         [] sess = "buried" /\ w.op = "snapshot" -> ExitedSnapshotResponse
         [] sess = "buried" /\ w.op = "wait_for" -> Answer(ErrorReply("session_exited"))
         [] OTHER -> Answer(ErrorReply("not_found"))
    /\ UNCHANGED <<now, session, history>>

FirstPhase == IF w.base # NoBaseline THEN 1 ELSE 2

\* observe_session: the clone of the session's receiver has seen nothing.
Observe ==
    /\ w.pc = "observe"
    /\ IF sess = "live"
       THEN w' = IF w.op = "snapshot" /\ w.base = NoBaseline /\ w.settle = 0
                 THEN [w EXCEPT !.start = now, !.pc = "mark", !.aim = "capture", !.outcome = "immediate"]
                 ELSE IF w.op = "snapshot" /\ FirstPhase = 2
                 THEN [w EXCEPT !.start = now, !.pc = "mark", !.aim = "restart", !.phase = 2]
                 ELSE [w EXCEPT !.start = now, !.pc = "top", !.phase = 1]
       ELSE IF w.op = "snapshot"
       THEN FinalizedOr(Answer(ErrorReply("not_found")))
       ELSE Answer(ErrorReply("not_found"))
    /\ UNCHANGED <<now, session, history>>

\* Faults: EOF is taken for the exit; the poll does not look at the deadline.
PollExitTrustingEof ==
    /\ w.pc = "top" /\ w.op = "snapshot" /\ w.closed
    /\ Capture("exited")
    /\ UNCHANGED <<now, session, history>>

PollExitFullInterval ==
    /\ w.pc = "top" /\ w.op = "snapshot" /\ w.closed
    /\ \/ /\ child = "exited"
          /\ Capture("exited")
       \/ /\ child # "exited" /\ Elapsed < Timeout
          /\ w' = [w EXCEPT !.pc = "sleep", !.wake = now + PollInterval]
    /\ UNCHANGED <<now, session, history>>

\* The head of a snapshot's waiting loops once the output has ended: the child's
\* exit ends the wait, EOF alone does not.
PollExit ==
    /\ w.pc = "top" /\ w.op = "snapshot" /\ w.closed
    /\ \/ /\ child = "exited"
          /\ Capture("exited")
       \/ /\ child # "exited" /\ Elapsed < Timeout
          /\ w' = [w EXCEPT !.pc = "sleep", !.wake = now + Least(Remaining, PollInterval)]
    /\ UNCHANGED <<now, session, history>>

\* A fault: the deadline is not looked at any more once the output has ended.
SnapshotDeadlineBeforeEof ==
    /\ w.pc = "top" /\ w.op = "snapshot" /\ Elapsed >= Timeout /\ ~w.closed
    /\ FinalizedOr(Capture("deadline"))
    /\ UNCHANGED <<now, session, history>>

\* snapshot_deadline_response: the tombstone, the exit, or the screen as it is.
SnapshotDeadline ==
    /\ w.pc = "top" /\ w.op = "snapshot" /\ Elapsed >= Timeout
    /\ w.closed => child # "exited"
    /\ FinalizedOr(Capture("deadline"))
    /\ UNCHANGED <<now, session, history>>

\* A wait's loop gets to its test only in time and before the end of output.
InTime == w.pc = "top" /\ Elapsed < Timeout /\ (w.op = "snapshot" => ~w.closed)

LookForChange ==
    /\ InTime /\ w.phase = 1
    /\ w' = [w EXCEPT !.pc = "mark", !.aim = "compare"]
    /\ UNCHANGED <<now, session, history>>

StableLongEnough == now - w.since >= w.settle

SettleOrWait ==
    /\ InTime /\ w.phase = 2
    /\ IF StableLongEnough
       THEN Capture("settled")
       ELSE w' = [w EXCEPT !.pc = "wait", !.wake = now + Least(Remaining, w.since + w.settle - now)]
    /\ UNCHANGED <<now, session, history>>

WaitForTimesOut ==
    /\ w.pc = "top" /\ w.op = "wait_for" /\ Elapsed >= Timeout
    /\ Answer(ErrorReply("timeout"))
    /\ UNCHANGED <<now, session, history>>
-----------------------------------------------------------------------------
(* observer.current(): mark what was published as seen, then read the       *)
(* screen, so that what comes after the mark wakes the next wait.           *)

Mark ==
    /\ w.pc = "mark"
    /\ w' = [w EXCEPT !.pc = "look", !.seen = version]
    /\ UNCHANGED <<now, session, history>>

\* The screen differs from the baseline: on to the settle phase, or done.
Changed ==
    w' = IF w.settle > 0
         THEN [w EXCEPT !.pc = "mark", !.aim = "restart", !.phase = 2]
         ELSE [w EXCEPT !.pc = "mark", !.aim = "capture", !.outcome = "changed"]

\* What each reader of the screen does with it.
Inspect ==
    CASE w.aim = "compare" /\ w.op = "wait_for" ->
            IF screen.text \in Matching
            THEN Answer(ErrorReply("found"))
            ELSE w' = [w EXCEPT !.pc = "wait", !.wake = w.start + Timeout, !.left = Remaining]
      [] w.aim = "compare" /\ w.op = "snapshot" ->
            IF ContentHash(screen) # w.base
            THEN Changed
            ELSE w' = [w EXCEPT !.pc = "wait", !.wake = w.start + Timeout]
      [] w.aim = "restart" ->
            w' = [w EXCEPT !.pc = "top", !.last = ContentHash(screen), !.since = now]
      [] w.aim = "recheck" ->
            w' = IF ContentHash(screen) # w.last
                 THEN [w EXCEPT !.pc = "top", !.last = ContentHash(screen), !.since = now]
                 ELSE [w EXCEPT !.pc = "top"]
      [] w.aim = "capture" ->
            Answer(CaptureReply(LiveView(screen, w.format), "live", w.outcome = "exited", FALSE))

\* A fault: the mark is set after the screen was read.
LookThenMark ==
    /\ \/ /\ w.pc = "look"
          /\ IF w.aim = "compare" /\ ContentHash(screen) = w.base THEN Step("remark") ELSE Inspect
       \/ /\ w.pc = "remark"
          /\ w' = [w EXCEPT !.pc = "wait", !.wake = w.start + Timeout, !.seen = version]
    /\ UNCHANGED <<now, session, history>>

Look ==
    /\ w.pc = "look"
    /\ Inspect
    /\ UNCHANGED <<now, session, history>>

\* A fault: an update in the settle phase is not looked at.
WokenWithoutRecheck(event) ==
    w' = CASE event = "closed" /\ w.op = "snapshot" -> [w EXCEPT !.pc = "top", !.closed = TRUE, !.seen = version]
           [] event = "closed" /\ w.op = "wait_for" ->
                [w EXCEPT !.pc = "sleep", !.closed = TRUE, !.seen = version, !.wake = now + w.left]
           [] OTHER -> [w EXCEPT !.pc = "top", !.seen = version]

\* The event of a state the observer has not seen, or of a pump that is gone.
Woken(event) ==
    w' = CASE event = "closed" /\ w.op = "snapshot" -> [w EXCEPT !.pc = "top", !.closed = TRUE, !.seen = version]
           [] event = "closed" /\ w.op = "wait_for" ->
                [w EXCEPT !.pc = "sleep", !.closed = TRUE, !.seen = version, !.wake = now + w.left]
           [] event = "updated" /\ w.phase = 2 ->
                [w EXCEPT !.pc = "mark", !.aim = "recheck", !.seen = version]
           [] OTHER -> [w EXCEPT !.pc = "top", !.seen = version]

WakeOnPublication ==
    /\ w.pc = "wait" /\ version # w.seen
    /\ Woken(IF closed THEN "closed" ELSE "updated")
    /\ UNCHANGED <<now, session, history>>

SenderGone == pump \in {"closed", "aborted"}

WakeOnSenderGone ==
    /\ w.pc = "wait" /\ version = w.seen /\ SenderGone
    /\ CASE closed -> Woken("closed")
         [] ~closed /\ w.op = "snapshot" -> FinalizedOr(Answer(ErrorReply("pump_failed")))
         [] OTHER -> Answer(ErrorReply("pump_failed"))
    /\ UNCHANGED <<now, session, history>>

WakeOnDeadline ==
    /\ w.pc = "wait" /\ version = w.seen /\ ~SenderGone /\ now >= w.wake
    /\ Woken("deadline")
    /\ UNCHANGED <<now, session, history>>

WakeFromSleep ==
    /\ w.pc = "sleep" /\ now >= w.wake
    /\ Step("top")
    /\ UNCHANGED <<now, session, history>>
-----------------------------------------------------------------------------
\* The request is not there yet, or has nothing to do but wait.
Waiting ==
    \/ w.pc = "idle"
    \/ w.pc = "wait" /\ version = w.seen /\ ~SenderGone /\ now < w.wake
    \/ w.pc = "sleep" /\ now < w.wake

Tick ==
    /\ now < MaxTime /\ Waiting /\ pump # "publish"
    /\ now' = now + 1
    /\ lastTick' = screen
    /\ steady' = IF screen.text = lastTick.text THEN steady + 1 ELSE 1
    /\ UNCHANGED <<session, w, resized>>

Handler ==
    \/ Resolve \/ Observe \/ PollExit \/ SnapshotDeadline \/ LookForChange
    \/ SettleOrWait \/ WaitForTimesOut \/ Mark \/ Look \/ WakeOnPublication
    \/ WakeOnSenderGone \/ WakeOnDeadline \/ WakeFromSleep

Next ==
    \/ Feed \/ Publish \/ CloseOutput \/ ChildExits \/ ResizeSession
    \/ KillRemove \/ KillDrained \/ CleanerDecides \/ FinalTombstone \/ Bury
    \/ Request \/ Handler \/ Tick

Spec == Init /\ [][Next]_vars

\* Tasks that can run are run, and time passes.  Nothing is assumed of output,
\* of the child, of a kill or of the cleaner.
Fairness == WF_vars(Handler) /\ WF_vars(Publish) /\ WF_vars(Tick)

FairSpec == Spec /\ Fairness
-----------------------------------------------------------------------------
Outcomes == {"immediate", "changed", "settled", "deadline", "exited"}
Errors == {"not_found", "session_exited", "pump_failed", "timeout", "found"}

\* Every variable keeps its type.
TypeOK ==
    /\ now \in 0..MaxTime /\ screen \in Screens /\ lastTick \in Screens
    /\ pump \in {"recv", "publish", "closed", "aborted"}
    /\ updates \in 0..MaxUpdates /\ version \in 0..MaxUpdates + 1
    /\ closed \in BOOLEAN /\ resized \in BOOLEAN /\ steady \in 0..MaxTime
    /\ child \in {"running", "killed", "exited"}
    /\ sess \in {"live", "removed", "buried"}
    /\ fin.pc \in {"none", "drain", "capture", "bury", "done"}
    /\ tombstone = NoTombstone <=> fin.pc \notin {"bury", "done"}
    /\ w.seen \in 0..version /\ w.phase \in 0..2 /\ w.start \in 0..now
    /\ w.pc # "done" => w.reply = NoReply
    /\ w.pc = "done" => w.reply.kind \in Outcomes \cup Errors

Answered(kind) == w.pc = "done" /\ w.reply.kind = kind

\* "An --await-change that answers deadline before the end of output": whenever the
\* screen stood still for a tick it showed the baseline, so no change that
\* was published was lost between two looks (handle_snapshot, phase 1).
ChangeReported ==
    Answered("deadline") /\ w.phase = 1 /\ ~w.closed /\ ~resized => lastTick.text = w.base

\* A capture about to answer settled has had the text it settled on for
\* settle_ms, whatever was published meanwhile (handle_snapshot, phase 2).
SettledWasStable ==
    w.pc \in {"mark", "look"} /\ w.aim = "capture" /\ w.outcome = "settled" /\ ~resized
        => w.last = lastTick.text /\ steady >= w.settle

\* "Exited" is said of a child that exited or that a client killed, and when the
\* answer calls the output complete it shows the last screen there will be
\* (exited_live_snapshot_response, finalized_snapshot_response).  Every variable
\* keeps its type.
ExitedIsTrue ==
    /\ TypeOK
    /\ Answered("exited") =>
        /\ child = "exited" \/ w.reply.killed
        /\ w.reply.complete /\ ~resized => w.reply.of.text = screen.text

\* In the text format the cursor's brackets stand around its column, and without
\* them its line is the screen's, blank up to the cursor (format_text_snapshot).
CursorMarked ==
    w.pc = "done" /\ w.reply.kind \in Outcomes /\ w.format = "text" =>
        LET of == w.reply.of
            line == w.reply.view.text[of.row + 1]
            plain == SubSeq(line, 1, of.col) \o <<line[of.col + 2]>> \o SubSeq(line, of.col + 4, Len(line))
            was == LineOf(of.text, of.row + 1)
        IN /\ line[of.col + 1] = "[" /\ line[of.col + 3] = "]"
           /\ SubSeq(plain, 1, Least(Len(was), Len(plain))) = was
           /\ Len(plain) = Max({Len(was), of.col + 1})
           /\ \A i \in 1..Len(of.text) : i # of.row + 1 => w.reply.view.text[i] = of.text[i]

\* All of the lines, each once and in order, but blank ones at their end.
ShowsLines(shown, lines) ==
    \E n \in 0..Len(lines) :
        /\ shown = SubSeq(lines, 1, n)
        /\ \A i \in n + 1..Len(lines) : lines[i] = <<>>
        /\ n > 0 => lines[n] # <<>>

LogLines(n) == [1..n -> {<<>>, <<"a">>, <<"b">>}]
NewestLinesShown ==
    \A n \in 0..5, rows \in 1..2 : \A gone \in LogLines(n), visible \in LogLines(rows) :
        ShowsLines(RenderRetained(gone, visible), TailOf(gone \o visible, ScrollbackRows + rows))

\* What a client reads is the screen: the text format marks the cursor and changes
\* nothing else, and the readable form of the output shows the screen after the
\* newest ScrollbackRows lines that scrolled off, each once and in order; older
\* lines are lost (format_text_snapshot, render_retained_output).
ScreenReadRight == CursorMarked /\ (sess = "live" => NewestLinesShown)

\* A snapshot that waits answers by its deadline, also when the output has ended
\* and the child goes on (the polling of handle_snapshot).
DeadlineKept ==
    w.op = "snapshot" /\ w.pc \notin {"idle", "resolve", "observe", "done"} => now <= w.start + Timeout

\* Every request is answered.
RequestAnswered == w.pc = "resolve" ~> w.pc = "done"

\* "The pattern was not found within the timeout" (server.rs:1702): when
\* wait-for times out, the screen it last could have looked at has no match.
TimeoutMeansNotThere == Answered("timeout") /\ ~resized => lastTick.text \notin Matching
=============================================================================
