------------------------- MODULE Observation_proofs -------------------------
(***************************************************************************)
(* What a waiting snapshot answers is so, and in time, for every set of    *)
(* screens, every timeout, settle time and poll interval.                  *)
(***************************************************************************)
EXTENDS Observation, SequenceParts_proofs

Fields == {"pc", "op", "base", "settle", "format", "phase", "start", "seen", "closed",
           "last", "since", "wake", "left", "aim", "outcome", "reply"}
Early == {"idle", "resolve", "observe"}
Busy == {"top", "mark", "look", "wait", "sleep"}
Reading == {"mark", "look"}

Snapshot == w.op = "snapshot"

\* The request's locals: what they are, and which of them go together.
Locals ==
    /\ DOMAIN w = Fields
    /\ w.pc \in Early \cup Busy \cup {"done"}
    /\ w.op \in {"snapshot", "wait_for"}
    /\ w.aim \in {"compare", "restart", "recheck", "capture"}
    /\ w.phase \in {0, 1, 2} /\ w.closed \in BOOLEAN
    /\ w.pc \in Early => w.phase = 0 /\ w.outcome = "immediate"
    /\ w.pc \in {"top", "wait", "sleep"} => w.phase # 0
    /\ w.pc \in Reading /\ w.aim = "compare" => w.phase = 1
    /\ w.pc \in Reading /\ w.aim \in {"restart", "recheck"} => w.phase = 2
    /\ w.phase = 2 => Snapshot /\ w.settle > 0
    /\ w.pc = "sleep" => w.closed

Numbers ==
    /\ {now, version, steady} \subseteq Nat
    /\ {w.start, w.settle, w.since, w.seen} \subseteq Nat
    /\ {w.wake, w.left} \subseteq Int
    /\ w.start <= now /\ w.since <= now /\ w.seen <= version

\* No wait of a snapshot goes beyond its deadline.
Timely ==
    /\ Snapshot /\ w.pc \in Busy => now <= w.start + Timeout
    /\ Snapshot /\ w.pc \in {"wait", "sleep"} => w.wake <= w.start + Timeout
    /\ w.outcome = "deadline" => Snapshot /\ w.start < now
    /\ w.pc = "done" /\ w.reply.kind = "deadline" => Snapshot

\* Nothing is published that the request has not marked as seen, nor about to be.
AllSeen == version = w.seen /\ pump # "publish"

\* Awaiting a change: the screen that was looked at is there until something
\* is published, so it is there at every tick.
Unchanged ==
    Snapshot /\ w.phase = 1 /\ ~w.closed /\ ~resized =>
        /\ w.pc = "wait" /\ AllSeen => screen.text = w.base
        /\ w.pc \in Busy /\ w.start < now => lastTick.text = w.base
        /\ w.pc = "done" /\ w.reply.kind = "deadline" => lastTick.text = w.base

\* Settling: likewise for the text that has to come to rest.
Resting == w.phase = 2 /\ (w.pc \in {"top", "wait"} \/ (w.pc \in Reading /\ w.aim = "recheck"))

Rested == lastTick.text = w.last /\ steady >= now - w.since

Settling ==
    ~resized =>
        /\ Resting /\ ~w.closed /\ w.pc \in {"top", "wait"} /\ AllSeen => screen.text = w.last
        /\ Resting /\ ~w.closed /\ w.since < now => Rested
        /\ w.pc \in Reading /\ w.aim = "capture" /\ w.outcome = "settled" =>
               w.last = lastTick.text /\ steady >= w.settle

OInv == Locals /\ Numbers /\ Timely /\ Unchanged /\ Settling
-----------------------------------------------------------------------------
LEMMA OInit == Init => OInv
  BY ObservationAssumption DEF Init, Idle, OInv, Locals, Numbers, Timely, Unchanged, Settling,
     Fields, Early, Busy, Reading, Snapshot, Resting, Rested, AllSeen

\* A step of the world that leaves the request alone either changes nothing it
\* could see, or is about to be published, or is published, or is a resize.
LEMMA WorldKeeps ==
    ASSUME OInv, UNCHANGED <<now, w, lastTick, steady>>,
           version' \in Nat, version' >= version, resized => resized',
           \/ UNCHANGED <<screen, version>> /\ (pump = "publish" => pump' = "publish")
           \/ version' > version
           \/ pump' = "publish"
           \/ resized'
    PROVE  OInv'
<1>1. Locals'
  BY DEF OInv, Locals, Snapshot
<1>2. Numbers'
  BY DEF OInv, Numbers
<1>3. Timely'
  BY DEF OInv, Timely, Snapshot
<1>4. AllSeen' => resized' \/ (AllSeen /\ screen' = screen)
  BY DEF OInv, Numbers, AllSeen
<1>5. Unchanged'
  BY <1>4 DEF OInv, Unchanged, Snapshot
<1>6. Settling'
  BY <1>4 DEF OInv, Settling, Resting, Rested
<1> QED
  BY <1>1, <1>2, <1>3, <1>5, <1>6 DEF OInv

World == Feed \/ Publish \/ CloseOutput \/ ChildExits \/ ResizeSession
             \/ KillRemove \/ KillDrained \/ CleanerDecides \/ FinalTombstone \/ Bury

LEMMA WorldStep == ASSUME OInv, World PROVE OInv'
<1> USE DEF history
<1>0. version \in Nat
  BY DEF OInv, Numbers
<1>1. CASE Feed
  BY <1>0, <1>1, WorldKeeps DEF Feed
<1>2. CASE Publish
  BY <1>0, <1>2, WorldKeeps DEF Publish
<1>3. CASE CloseOutput
  BY <1>0, <1>3, WorldKeeps DEF CloseOutput
<1>4. CASE ChildExits
  BY <1>0, <1>4, WorldKeeps DEF ChildExits
<1>5. CASE ResizeSession
  BY <1>0, <1>5, WorldKeeps DEF ResizeSession
<1>6. CASE KillRemove
  BY <1>0, <1>6, WorldKeeps DEF KillRemove
<1>7. CASE KillDrained
  BY <1>0, <1>7, WorldKeeps DEF KillDrained, StopPump
<1>8. CASE CleanerDecides
  BY <1>0, <1>8, WorldKeeps DEF CleanerDecides, StopPump
<1>9. CASE FinalTombstone
  BY <1>0, <1>9, WorldKeeps DEF FinalTombstone
<1>10. CASE Bury
  BY <1>0, <1>10, WorldKeeps DEF Bury
<1> QED
  BY <1>1, <1>2, <1>3, <1>4, <1>5, <1>6, <1>7, <1>8, <1>9, <1>10 DEF World

LEMMA TickStep == ASSUME OInv, Tick PROVE OInv'
<1> USE DEF OInv, Tick, session
<1>1. /\ now' = now + 1 /\ now \in Nat /\ UNCHANGED <<w, screen, version, pump, resized>>
      /\ lastTick' = screen /\ pump # "publish"
  BY DEF Numbers
<1>2. Locals'
  BY <1>1 DEF Locals, Snapshot
<1>3. Numbers'
  BY <1>1 DEF Numbers
<1>4. \/ w.pc = "idle"
      \/ w.pc = "wait" /\ AllSeen /\ now < w.wake
      \/ w.pc = "sleep" /\ now < w.wake
  BY <1>1 DEF Waiting, AllSeen
<1>5. Timely'
  <2>1. CASE w.pc = "idle"
    BY <1>1, <2>1 DEF Timely, Numbers, Locals, Snapshot, Early, Busy
  <2>2. CASE w.pc \in {"wait", "sleep"}
    BY SMTT(30), <1>1, <1>4, <2>2, ObservationAssumption DEF Timely, Numbers, Snapshot, Busy
  <2> QED
    BY <1>4, <2>1, <2>2
<1>6. Unchanged'
  BY <1>1, <1>4 DEF Unchanged, Locals, Snapshot, AllSeen, Early, Busy
<1>7. Settling'
  <2>1. CASE w.pc # "wait"
    BY <1>1, <1>4, <2>1 DEF Settling, Resting, Locals, Reading, Early
  <2>2. CASE w.pc = "wait" /\ ~(~resized /\ w.phase = 2 /\ ~w.closed)
    BY <1>1, <1>4, <2>2 DEF Settling, Resting, Reading
  <2>3. CASE w.pc = "wait" /\ ~resized /\ w.phase = 2 /\ ~w.closed
    <3>1. screen.text = w.last
      BY <1>4, <2>3 DEF Settling, Resting
    <3>2. w.since < now => Rested
      BY <2>3 DEF Settling, Resting
    <3>3. w.since < now => steady' = steady + 1
      BY <3>1, <3>2 DEF Rested
    <3>4. steady' >= now' - w.since
      BY <1>1, <3>2, <3>3 DEF Rested, Numbers
    <3> QED
      BY <1>1, <2>3, <3>1, <3>4 DEF Settling, Rested, Reading
  <2> QED
    BY <2>1, <2>2, <2>3
<1> QED
  BY <1>2, <1>3, <1>5, <1>6, <1>7

-----------------------------------------------------------------------------
(* The request's own steps change nothing but the request.                  *)

Frame == UNCHANGED <<now, session, history>>

LEMMA AnswerKeeps ==
    ASSUME OInv, Frame, NEW r, Answer(r),
           r.kind = "deadline" =>
               Snapshot /\ (w.phase = 1 /\ ~w.closed /\ ~resized => lastTick.text = w.base)
    PROVE  OInv'
<1> USE DEF OInv, Frame, Answer, session, history
<1>1. /\ w' = [w EXCEPT !.pc = "done", !.reply = r]
      /\ UNCHANGED <<now, screen, pump, version, lastTick, steady, resized>>
      /\ DOMAIN w = Fields
  BY DEF Locals
<1>2. w'.pc = "done" /\ w'.reply = r
  BY <1>1 DEF Fields
<1>3. /\ w'.op = w.op /\ w'.base = w.base /\ w'.settle = w.settle /\ w'.phase = w.phase
      /\ w'.start = w.start /\ w'.seen = w.seen /\ w'.closed = w.closed /\ w'.last = w.last
      /\ w'.since = w.since /\ w'.wake = w.wake /\ w'.left = w.left /\ w'.aim = w.aim
      /\ w'.outcome = w.outcome /\ DOMAIN w' = Fields
  BY <1>1 DEF Fields
<1>4. Locals'
  BY <1>1, <1>2, <1>3 DEF Locals, Snapshot, Early, Busy, Reading
<1>5. Numbers'
  BY <1>1, <1>3 DEF Numbers
<1>6. Timely'
  BY <1>1, <1>2, <1>3 DEF Timely, Snapshot, Busy
<1>7. Unchanged'
  BY <1>1, <1>2, <1>3 DEF Unchanged, Snapshot, AllSeen, Busy
<1>8. Settling'
  BY <1>1, <1>2, <1>3 DEF Settling, Resting, Rested, AllSeen, Reading
<1> QED
  BY <1>4, <1>5, <1>6, <1>7, <1>8

LEMMA CaptureKeeps ==
    ASSUME OInv, Frame, NEW o, Capture(o), w.pc = "top", Snapshot,
           o = "deadline" => w.start < now,
           o = "settled" /\ ~resized => w.last = lastTick.text /\ steady >= w.settle
    PROVE  OInv'
<1> USE DEF OInv, Frame, Capture, session, history
<1>1. /\ w' = [w EXCEPT !.pc = "mark", !.aim = "capture", !.outcome = o]
      /\ UNCHANGED <<now, screen, pump, version, lastTick, steady, resized>>
      /\ DOMAIN w = Fields
  BY DEF Locals
<1>2. w'.pc = "mark" /\ w'.aim = "capture" /\ w'.outcome = o
  BY <1>1 DEF Fields
<1>3. /\ w'.op = w.op /\ w'.base = w.base /\ w'.settle = w.settle /\ w'.phase = w.phase
      /\ w'.start = w.start /\ w'.seen = w.seen /\ w'.closed = w.closed /\ w'.last = w.last
      /\ w'.since = w.since /\ w'.wake = w.wake /\ w'.left = w.left
      /\ w'.reply = w.reply /\ DOMAIN w' = Fields
  BY <1>1 DEF Fields
<1>4. Locals'
  BY <1>1, <1>2, <1>3 DEF Locals, Snapshot, Early, Busy, Reading
<1>5. Numbers'
  BY <1>1, <1>3 DEF Numbers
<1>6. Timely'
  BY <1>1, <1>2, <1>3 DEF Timely, Snapshot, Busy
<1>7. Unchanged'
  BY <1>1, <1>2, <1>3 DEF Unchanged, Snapshot, AllSeen, Busy
<1>8. Settling'
  BY <1>1, <1>2, <1>3 DEF Settling, Resting, Rested, AllSeen, Reading
<1> QED
  BY <1>4, <1>5, <1>6, <1>7, <1>8

\* What is answered from a tombstone is never "deadline".
LEMMA ExitedKeeps == ASSUME OInv, Frame, ExitedSnapshotResponse PROVE OInv'
<1> DEFINE r == [kind |-> "exited", from |-> "tombstone", of |-> tombstone.screen,
                 view |-> TombstoneView(tombstone.screen, w.format),
                 complete |-> tombstone.complete, killed |-> tombstone.killed]
<1>1. Answer(r) /\ r.kind # "deadline"
  BY DEF ExitedSnapshotResponse
<1> HIDE DEF r
<1> QED
  BY <1>1, AnswerKeeps

LEMMA ErrorKeeps ==
    ASSUME OInv, Frame, NEW code, code # "deadline", Answer(ErrorReply(code))
    PROVE  OInv'
<1>1. ErrorReply(code).kind # "deadline"
  BY DEF ErrorReply
<1> QED
  BY <1>1, AnswerKeeps

LEMMA RequestStep == ASSUME OInv, Request PROVE OInv'
<1> USE DEF OInv
<1>1. /\ UNCHANGED <<now, screen, pump, version, lastTick, steady, resized>>
      /\ DOMAIN w = Fields /\ w.pc = "idle" /\ w.phase = 0 /\ w.outcome = "immediate"
  BY DEF Request, session, history, Locals, Early
<1>2. /\ w'.pc = "resolve" /\ w'.op \in {"snapshot", "wait_for"} /\ w'.settle \in Nat
      /\ w'.phase = w.phase /\ w'.start = w.start /\ w'.seen = w.seen /\ w'.closed = w.closed
      /\ w'.since = w.since /\ w'.wake = w.wake /\ w'.left = w.left /\ w'.aim = w.aim
      /\ w'.outcome = w.outcome /\ DOMAIN w' = Fields
  <2>1. CASE \E b \in Baselines, s \in Settles, f \in Formats :
                 w' = [w EXCEPT !.pc = "resolve", !.base = b, !.settle = s, !.format = f]
    <3>1. PICK b \in Baselines, s \in Settles, f \in Formats :
                 w' = [w EXCEPT !.pc = "resolve", !.base = b, !.settle = s, !.format = f]
      BY <2>1
    <3>2. w'.settle = s /\ s \in Nat
      BY <1>1, <3>1, ObservationAssumption DEF Fields
    <3> QED
      BY <1>1, <3>1, <3>2 DEF Locals, Fields
  <2>2. CASE w' = [w EXCEPT !.pc = "resolve", !.op = "wait_for"]
    BY <1>1, <2>2 DEF Locals, Numbers, Fields
  <2> QED
    BY <2>1, <2>2 DEF Request
<1>3. Locals'
  BY <1>1, <1>2 DEF Locals, Snapshot, Early, Busy, Reading
<1>4. Numbers'
  BY <1>1, <1>2 DEF Numbers
<1>5. Timely'
  BY <1>1, <1>2 DEF Timely, Snapshot, Busy
<1>6. Unchanged'
  BY <1>1, <1>2 DEF Unchanged, Snapshot, AllSeen
<1>7. Settling'
  BY <1>1, <1>2 DEF Settling, Resting, Rested, AllSeen, Reading
<1> QED
  BY <1>3, <1>4, <1>5, <1>6, <1>7

LEMMA ResolveStep == ASSUME OInv, Resolve PROVE OInv'
<1>1. Frame /\ w.pc = "resolve" /\ w.op \in {"snapshot", "wait_for"}
  BY DEF Resolve, Frame, OInv, Locals
<1>2. \/ Step("observe") \/ ExitedSnapshotResponse
      \/ Answer(ErrorReply("session_exited")) \/ Answer(ErrorReply("not_found"))
  BY <1>1 DEF Resolve
<1>3. CASE Step("observe")
  <2> USE DEF OInv, Frame, Step, session, history
  <2>1. /\ UNCHANGED <<now, screen, pump, version, lastTick, steady, resized>>
        /\ w' = [w EXCEPT !.pc = "observe"] /\ DOMAIN w = Fields
    BY <1>1, <1>3 DEF Locals
  <2>2. Locals' /\ Numbers'
    BY <1>1, <2>1 DEF Locals, Numbers, Fields, Snapshot, Early, Busy, Reading
  <2>3. Timely' /\ Unchanged' /\ Settling'
    BY <1>1, <2>1 DEF Locals, Timely, Unchanged, Settling, Fields, Snapshot, Resting, AllSeen, Early, Busy, Reading
  <2> QED
    BY <2>2, <2>3
<1>4. CASE ExitedSnapshotResponse
  BY <1>1, <1>4, ExitedKeeps
<1>5. CASE Answer(ErrorReply("session_exited")) \/ Answer(ErrorReply("not_found"))
  BY <1>1, <1>5, ErrorKeeps
<1> QED
  BY <1>2, <1>3, <1>4, <1>5

LEMMA ObserveStep == ASSUME OInv, Observe PROVE OInv'
<1>1. Frame /\ w.pc = "observe" /\ w.op \in {"snapshot", "wait_for"}
  BY DEF Observe, Frame, OInv, Locals
<1>2. /\ UNCHANGED <<now, screen, pump, version, lastTick, steady, resized>>
      /\ DOMAIN w = Fields /\ w.phase = 0 /\ w.outcome = "immediate"
  BY <1>1 DEF Frame, session, history, OInv, Locals, Early
<1> DEFINE Look0 == w' = [w EXCEPT !.start = now, !.pc = "mark", !.aim = "capture", !.outcome = "immediate"]
           Rest0 == w' = [w EXCEPT !.start = now, !.pc = "mark", !.aim = "restart", !.phase = 2]
           Wait0 == w' = [w EXCEPT !.start = now, !.pc = "top", !.phase = 1]
<1>3. \/ Look0 \/ (Rest0 /\ Snapshot /\ w.settle > 0) \/ Wait0
      \/ ExitedSnapshotResponse \/ Answer(ErrorReply("not_found"))
  BY <1>1 DEF Observe, FinalizedOr, FirstPhase, Snapshot, OInv, Numbers
<1>4. CASE Look0
  <2>1. Locals' /\ Numbers'
    BY <1>1, <1>2, <1>4 DEF OInv, Locals, Numbers, Fields, Snapshot, Early, Busy, Reading
  <2>2. Timely' /\ Unchanged' /\ Settling'
    BY <1>1, <1>2, <1>4, ObservationAssumption
    DEF OInv, Timely, Unchanged, Settling, Numbers, Fields, Snapshot, Resting, AllSeen, Early, Busy, Reading
  <2> QED
    BY <2>1, <2>2 DEF OInv
<1>5. CASE Rest0 /\ Snapshot /\ w.settle > 0
  <2>1. Locals' /\ Numbers'
    BY <1>1, <1>2, <1>5 DEF OInv, Locals, Numbers, Fields, Snapshot, Early, Busy, Reading
  <2>2. Timely' /\ Unchanged' /\ Settling'
    BY <1>1, <1>2, <1>5, ObservationAssumption
    DEF OInv, Timely, Unchanged, Settling, Numbers, Fields, Snapshot, Resting, AllSeen, Early, Busy, Reading
  <2> QED
    BY <2>1, <2>2 DEF OInv
<1>6. CASE Wait0
  <2>1. Locals' /\ Numbers'
    BY <1>1, <1>2, <1>6 DEF OInv, Locals, Numbers, Fields, Snapshot, Early, Busy, Reading
  <2>2. Timely' /\ Unchanged' /\ Settling'
    BY <1>1, <1>2, <1>6, ObservationAssumption
    DEF OInv, Timely, Unchanged, Settling, Numbers, Fields, Snapshot, Resting, AllSeen, Early, Busy, Reading
  <2> QED
    BY <2>1, <2>2 DEF OInv
<1>7. CASE ExitedSnapshotResponse
  BY <1>1, <1>7, ExitedKeeps
<1>8. CASE Answer(ErrorReply("not_found"))
  BY <1>1, <1>8, ErrorKeeps
<1> QED
  BY <1>3, <1>4, <1>5, <1>6, <1>7, <1>8

\* The wait that SettleOrWait and PollExit begin ends by the deadline.
LEMMA LeastBounds ==
    ASSUME NEW a \in Int, NEW b \in Int
    PROVE  Least(a, b) \in Int /\ Least(a, b) <= a /\ Least(a, b) <= b
  BY DEF Least

LEMMA PollExitStep == ASSUME OInv, PollExit PROVE OInv'
<1>1. Frame /\ w.pc = "top" /\ Snapshot /\ w.closed
  BY DEF PollExit, Frame, Snapshot
<1>2. CASE Capture("exited")
  BY <1>1, <1>2, CaptureKeeps
<1>3. CASE /\ Elapsed < Timeout
           /\ w' = [w EXCEPT !.pc = "sleep", !.wake = now + Least(Remaining, PollInterval)]
  <2> DEFINE wake == now + Least(Remaining, PollInterval)
  <2>1. Remaining \in Int /\ PollInterval \in Int /\ now \in Int /\ w.start \in Int /\ Timeout \in Int
    BY ObservationAssumption DEF OInv, Numbers, Remaining
  <2>2. wake \in Int /\ wake <= w.start + Timeout
    <3>1. Least(Remaining, PollInterval) \in Int /\ Least(Remaining, PollInterval) <= Remaining
      BY <2>1, LeastBounds
    <3> QED
      BY <2>1, <3>1 DEF Remaining
  <2> HIDE DEF wake
  <2>3. /\ UNCHANGED <<now, screen, pump, version, lastTick, steady, resized>>
        /\ w' = [w EXCEPT !.pc = "sleep", !.wake = wake] /\ DOMAIN w = Fields
    BY <1>1, <1>3 DEF wake, Frame, session, history, OInv, Locals
  <2>4. Locals' /\ Numbers'
    BY <1>1, <2>2, <2>3 DEF OInv, Locals, Numbers, Fields, Snapshot, Early, Busy, Reading
  <2>5. Timely' /\ Unchanged'
    BY <1>1, <2>2, <2>3 DEF OInv, Timely, Unchanged, Fields, Snapshot, AllSeen, Busy
  <2>6. Settling'
    BY <1>1, <2>3 DEF OInv, Settling, Fields, Resting, Rested, AllSeen, Reading
  <2> QED
    BY <2>4, <2>5, <2>6 DEF OInv
<1> QED
  BY <1>2, <1>3 DEF PollExit

LEMMA SnapshotDeadlineStep == ASSUME OInv, SnapshotDeadline PROVE OInv'
<1>1. Frame /\ w.pc = "top" /\ Snapshot /\ Elapsed >= Timeout
  BY DEF SnapshotDeadline, Frame, Snapshot
<1>2. ExitedSnapshotResponse \/ Capture("deadline")
  BY DEF SnapshotDeadline, FinalizedOr
<1>3. w.start < now
  BY <1>1, ObservationAssumption DEF Elapsed, OInv, Numbers
<1> QED
  BY <1>1, <1>2, <1>3, ExitedKeeps, CaptureKeeps

LEMMA SettleOrWaitStep == ASSUME OInv, SettleOrWait PROVE OInv'
<1>1. /\ Frame /\ w.pc = "top" /\ Snapshot /\ ~w.closed /\ w.phase = 2 /\ w.settle > 0
      /\ Elapsed < Timeout
  BY DEF SettleOrWait, InTime, Frame, OInv, Locals, Snapshot
<1>2. CASE StableLongEnough /\ Capture("settled")
  <2>1. ~resized => w.last = lastTick.text /\ steady >= w.settle
    BY <1>1, <1>2 DEF StableLongEnough, OInv, Settling, Resting, Rested, Numbers
  <2> QED
    BY <1>1, <1>2, <2>1, CaptureKeeps
<1>3. CASE w' = [w EXCEPT !.pc = "wait", !.wake = now + Least(Remaining, w.since + w.settle - now)]
  <2> DEFINE wake == now + Least(Remaining, w.since + w.settle - now)
  <2>1. Remaining \in Int /\ w.since + w.settle - now \in Int /\ now \in Int /\ w.start \in Int /\ Timeout \in Int
    BY SMTT(30), ObservationAssumption DEF OInv, Numbers, Remaining
  <2>2. wake \in Int /\ wake <= w.start + Timeout
    <3>1. Least(Remaining, w.since + w.settle - now) \in Int /\ Least(Remaining, w.since + w.settle - now) <= Remaining
      BY <2>1, LeastBounds
    <3> QED
      BY <2>1, <3>1 DEF Remaining
  <2> HIDE DEF wake
  <2>3. /\ UNCHANGED <<now, screen, pump, version, lastTick, steady, resized>>
        /\ w' = [w EXCEPT !.pc = "wait", !.wake = wake] /\ DOMAIN w = Fields
    BY <1>1, <1>3 DEF wake, Frame, session, history, OInv, Locals
  <2>4. Locals' /\ Numbers'
    BY <1>1, <2>2, <2>3 DEF OInv, Locals, Numbers, Fields, Snapshot, Early, Busy, Reading
  <2>5. Timely' /\ Unchanged'
    BY <1>1, <2>2, <2>3 DEF OInv, Timely, Unchanged, Fields, Snapshot, AllSeen, Busy
  <2>6. Settling'
    BY <1>1, <2>3 DEF OInv, Settling, Fields, Resting, Rested, AllSeen, Reading
  <2> QED
    BY <2>4, <2>5, <2>6 DEF OInv
<1> QED
  BY <1>2, <1>3 DEF SettleOrWait

LEMMA LookForChangeStep == ASSUME OInv, LookForChange PROVE OInv'
<1> USE ObservationAssumption DEF LookForChange, InTime, Elapsed, OInv, session, history
<1>1. Locals'
  BY DEF Locals, Numbers, Snapshot, Fields, Early, Busy, Reading
<1>2. Numbers'
  BY DEF Locals, Numbers, Fields
<1>3. Timely'
  BY DEF Locals, Numbers, Timely, Snapshot, Fields, Early, Busy
<1>4. Unchanged'
  BY DEF Locals, Numbers, Timely, Unchanged, Snapshot, AllSeen, Fields, Early, Busy
<1>5. Settling'
  BY DEF Locals, Numbers, Settling, Resting, Rested, Snapshot, AllSeen, Fields, Early, Reading
<1> QED
  BY <1>1, <1>2, <1>3, <1>4, <1>5

LEMMA WaitForTimesOutStep == ASSUME OInv, WaitForTimesOut PROVE OInv'
<1> USE ObservationAssumption DEF WaitForTimesOut, Elapsed, Answer, ErrorReply, OInv, session, history
<1>1. Locals'
  BY DEF Locals, Numbers, Snapshot, Fields, Early, Busy, Reading
<1>2. Numbers'
  BY DEF Locals, Numbers, Fields
<1>3. Timely'
  BY DEF Locals, Numbers, Timely, Snapshot, Fields, Early, Busy
<1>4. Unchanged'
  BY DEF Locals, Numbers, Timely, Unchanged, Snapshot, AllSeen, Fields, Early, Busy
<1>5. Settling'
  BY DEF Locals, Numbers, Settling, Resting, Rested, Snapshot, AllSeen, Fields, Early, Reading
<1> QED
  BY <1>1, <1>2, <1>3, <1>4, <1>5

LEMMA MarkStep == ASSUME OInv, Mark PROVE OInv'
<1> USE ObservationAssumption DEF Mark, OInv, session, history
<1>1. Locals'
  BY DEF Locals, Numbers, Snapshot, Fields, Early, Busy, Reading
<1>2. Numbers'
  BY DEF Locals, Numbers, Fields
<1>3. Timely'
  BY DEF Locals, Numbers, Timely, Snapshot, Fields, Early, Busy
<1>4. Unchanged'
  BY DEF Locals, Numbers, Timely, Unchanged, Snapshot, AllSeen, Fields, Early, Busy
<1>5. Settling'
  BY DEF Locals, Numbers, Settling, Resting, Rested, Snapshot, AllSeen, Fields, Early, Reading
<1> QED
  BY <1>1, <1>2, <1>3, <1>4, <1>5

LEMMA WakeOnPublicationStep == ASSUME OInv, WakeOnPublication PROVE OInv'
<1> USE ObservationAssumption DEF WakeOnPublication, Woken, OInv, session, history
<1>1. Locals'
  BY DEF Locals, Numbers, Snapshot, Fields, Early, Busy, Reading
<1>2. Numbers'
  BY DEF Locals, Numbers, Fields
<1>3. Timely'
  BY DEF Locals, Numbers, Timely, Snapshot, Fields, Early, Busy
<1>4. Unchanged'
  BY DEF Locals, Numbers, Timely, Unchanged, Snapshot, AllSeen, Fields, Early, Busy
<1>5. Settling'
  BY DEF Locals, Numbers, Settling, Resting, Rested, Snapshot, AllSeen, Fields, Early, Reading
<1> QED
  BY <1>1, <1>2, <1>3, <1>4, <1>5

LEMMA WakeOnDeadlineStep == ASSUME OInv, WakeOnDeadline PROVE OInv'
<1> USE ObservationAssumption DEF WakeOnDeadline, Woken, OInv, session, history
<1>1. Locals'
  BY DEF Locals, Numbers, Snapshot, Fields, Early, Busy, Reading
<1>2. Numbers'
  BY DEF Locals, Numbers, Fields
<1>3. Timely'
  BY DEF Locals, Numbers, Timely, Snapshot, Fields, Early, Busy
<1>4. Unchanged'
  BY DEF Locals, Numbers, Timely, Unchanged, Snapshot, AllSeen, Fields, Early, Busy
<1>5. Settling'
  BY DEF Locals, Numbers, Settling, Resting, Rested, Snapshot, AllSeen, Fields, Early, Reading
<1> QED
  BY <1>1, <1>2, <1>3, <1>4, <1>5

LEMMA WakeFromSleepStep == ASSUME OInv, WakeFromSleep PROVE OInv'
<1> USE ObservationAssumption DEF WakeFromSleep, Step, OInv, session, history
<1>1. Locals'
  BY DEF Locals, Numbers, Snapshot, Fields, Early, Busy, Reading
<1>2. Numbers'
  BY DEF Locals, Numbers, Fields
<1>3. Timely'
  BY DEF Locals, Numbers, Timely, Snapshot, Fields, Early, Busy
<1>4. Unchanged'
  BY DEF Locals, Numbers, Timely, Unchanged, Snapshot, AllSeen, Fields, Early, Busy
<1>5. Settling'
  BY DEF Locals, Numbers, Settling, Resting, Rested, Snapshot, AllSeen, Fields, Early, Reading
<1> QED
  BY <1>1, <1>2, <1>3, <1>4, <1>5

LEMMA WakeOnSenderGoneStep == ASSUME OInv, WakeOnSenderGone PROVE OInv'
<1>1. Frame /\ w.pc = "wait" /\ w.op \in {"snapshot", "wait_for"} /\ version = w.seen /\ SenderGone
  BY DEF WakeOnSenderGone, Frame, OInv, Locals
<1>2. Woken("closed") \/ ExitedSnapshotResponse \/ Answer(ErrorReply("pump_failed"))
  BY <1>1 DEF WakeOnSenderGone, FinalizedOr
<1>3. CASE Woken("closed")
  <2>1. UNCHANGED <<now, screen, pump, version, lastTick, steady, resized>> /\ DOMAIN w = Fields
    BY <1>1 DEF Frame, session, history, OInv, Locals
  <2>2. CASE Snapshot /\ w' = [w EXCEPT !.pc = "top", !.closed = TRUE, !.seen = version]
    <3>1. Locals' /\ Numbers'
      BY <1>1, <2>1, <2>2 DEF OInv, Locals, Numbers, Fields, Snapshot, Early, Busy, Reading
    <3>2. Timely' /\ Unchanged'
      BY <1>1, <2>1, <2>2 DEF OInv, Timely, Unchanged, Fields, Snapshot, AllSeen, Busy
    <3>3. Settling'
      BY <1>1, <2>1, <2>2 DEF OInv, Settling, Fields, Resting, Rested, AllSeen, Reading
    <3> QED
      BY <3>1, <3>2, <3>3 DEF OInv
  <2>3. CASE /\ ~Snapshot
             /\ w' = [w EXCEPT !.pc = "sleep", !.closed = TRUE, !.seen = version, !.wake = now + w.left]
    <3>1. Locals' /\ Numbers'
      BY <1>1, <2>1, <2>3 DEF OInv, Locals, Numbers, Fields, Snapshot, Early, Busy, Reading
    <3>2. Timely' /\ Unchanged'
      BY <1>1, <2>1, <2>3 DEF OInv, Timely, Unchanged, Fields, Snapshot, AllSeen, Busy
    <3>3. Settling'
      BY <1>1, <2>1, <2>3 DEF OInv, Settling, Fields, Resting, Rested, AllSeen, Reading
    <3> QED
      BY <3>1, <3>2, <3>3 DEF OInv
  <2> QED
    BY <1>1, <1>3, <2>2, <2>3 DEF Woken, Snapshot
<1>4. CASE ExitedSnapshotResponse
  BY <1>1, <1>4, ExitedKeeps
<1>5. CASE Answer(ErrorReply("pump_failed"))
  BY <1>1, <1>5, ErrorKeeps
<1> QED
  BY <1>2, <1>3, <1>4, <1>5

LEMMA LookStep == ASSUME OInv, Look PROVE OInv'
<1>1. /\ Frame /\ w.pc = "look" /\ w.op \in {"snapshot", "wait_for"}
      /\ w.aim \in {"compare", "restart", "recheck", "capture"}
  BY DEF Look, Frame, OInv, Locals
<1>2. UNCHANGED <<now, screen, pump, version, lastTick, steady, resized>> /\ DOMAIN w = Fields
  BY <1>1 DEF Frame, session, history, OInv, Locals
<1>3. Inspect
  BY DEF Look
<1> DEFINE hash == ContentHash(screen)
<1>h. hash = screen.text
  BY DEF ContentHash
<1> HIDE DEF hash
<1>4. CASE w.aim = "compare" /\ w.op = "wait_for"
  <2>1. CASE Answer(ErrorReply("found"))
    BY <1>1, <2>1, ErrorKeeps
  <2>2. CASE w' = [w EXCEPT !.pc = "wait", !.wake = w.start + Timeout, !.left = Remaining]
    <3>1. w.start + Timeout \in Int /\ Remaining \in Int
      BY ObservationAssumption DEF OInv, Numbers, Remaining
    <3>2. Locals' /\ Numbers'
      BY <1>1, <1>2, <1>4, <2>2, <3>1 DEF OInv, Locals, Numbers, Fields, Snapshot, Early, Busy, Reading
    <3>3. Timely' /\ Unchanged'
      BY <1>1, <1>2, <1>4, <2>2 DEF OInv, Timely, Unchanged, Fields, Snapshot, AllSeen, Busy
    <3>4. Settling'
      BY <1>1, <1>2, <1>4, <2>2 DEF OInv, Locals, Settling, Fields, Snapshot, Resting, Rested, AllSeen, Reading
    <3> QED
      BY <3>2, <3>3, <3>4 DEF OInv
  <2> QED
    BY <1>3, <1>4, <2>1, <2>2 DEF Inspect
<1>5. CASE w.aim = "compare" /\ w.op = "snapshot"
  <2>1. CASE w' = [w EXCEPT !.pc = "mark", !.aim = "restart", !.phase = 2] /\ w.settle > 0
    <3>1. Locals' /\ Numbers'
      BY <1>1, <1>2, <1>5, <2>1 DEF OInv, Locals, Numbers, Fields, Snapshot, Early, Busy, Reading
    <3>2. Timely' /\ Unchanged'
      BY <1>1, <1>2, <1>5, <2>1 DEF OInv, Timely, Unchanged, Fields, Snapshot, AllSeen, Busy
    <3>3. Settling'
      BY <1>1, <1>2, <1>5, <2>1 DEF OInv, Settling, Fields, Resting, Rested, AllSeen, Reading
    <3> QED
      BY <3>1, <3>2, <3>3 DEF OInv
  <2>2. CASE w' = [w EXCEPT !.pc = "mark", !.aim = "capture", !.outcome = "changed"]
    <3>1. Locals' /\ Numbers'
      BY <1>1, <1>2, <1>5, <2>2 DEF OInv, Locals, Numbers, Fields, Snapshot, Early, Busy, Reading
    <3>2. Timely' /\ Unchanged'
      BY <1>1, <1>2, <1>5, <2>2 DEF OInv, Timely, Unchanged, Fields, Snapshot, AllSeen, Busy
    <3>3. Settling'
      BY <1>1, <1>2, <1>5, <2>2 DEF OInv, Settling, Fields, Resting, Rested, AllSeen, Reading
    <3> QED
      BY <3>1, <3>2, <3>3 DEF OInv
  <2>3. CASE hash = w.base /\ w' = [w EXCEPT !.pc = "wait", !.wake = w.start + Timeout]
    <3>1. w.start + Timeout \in Int
      BY ObservationAssumption DEF OInv, Numbers
    <3>2. Locals' /\ Numbers'
      BY <1>1, <1>2, <1>5, <2>3, <3>1 DEF OInv, Locals, Numbers, Fields, Snapshot, Early, Busy, Reading
    <3>3. Timely' /\ Unchanged'
      BY <1>1, <1>2, <1>5, <1>h, <2>3, <3>1 DEF OInv, Numbers, Timely, Unchanged, Fields, Snapshot, AllSeen, Busy
    <3>4. Settling'
      BY <1>1, <1>2, <1>5, <2>3 DEF OInv, Locals, Settling, Fields, Resting, Rested, AllSeen, Reading
    <3> QED
      BY <3>2, <3>3, <3>4 DEF OInv
  <2> QED
    BY <1>3, <1>5, <2>1, <2>2, <2>3 DEF Inspect, Changed, hash
<1>6. CASE w.aim = "restart"
  <2>1. w' = [w EXCEPT !.pc = "top", !.last = hash, !.since = now]
    BY <1>3, <1>6 DEF Inspect, hash
  <2>2. Locals' /\ Numbers'
    BY <1>1, <1>2, <1>6, <2>1 DEF OInv, Locals, Numbers, Fields, Snapshot, Early, Busy, Reading
  <2>3. Timely' /\ Unchanged'
    BY <1>1, <1>2, <1>6, <2>1 DEF OInv, Locals, Timely, Unchanged, Fields, Snapshot, AllSeen, Busy, Reading
  <2>4. Settling'
    BY <1>1, <1>2, <1>6, <1>h, <2>1 DEF OInv, Numbers, Settling, Fields, Resting, Rested, AllSeen, Reading
  <2> QED
    BY <2>2, <2>3, <2>4 DEF OInv
<1>7. CASE w.aim = "recheck"
  <2>1. CASE w' = [w EXCEPT !.pc = "top", !.last = hash, !.since = now]
    <3>1. Locals' /\ Numbers'
      BY <1>1, <1>2, <1>7, <2>1 DEF OInv, Locals, Numbers, Fields, Snapshot, Early, Busy, Reading
    <3>2. Timely' /\ Unchanged'
      BY <1>1, <1>2, <1>7, <2>1 DEF OInv, Locals, Timely, Unchanged, Fields, Snapshot, AllSeen, Busy, Reading
    <3>3. Settling'
      BY <1>1, <1>2, <1>7, <1>h, <2>1 DEF OInv, Numbers, Settling, Fields, Resting, Rested, AllSeen, Reading
    <3> QED
      BY <3>1, <3>2, <3>3 DEF OInv
  <2>2. CASE hash = w.last /\ w' = [w EXCEPT !.pc = "top"]
    <3>1. Locals' /\ Numbers'
      BY <1>1, <1>2, <1>7, <2>2 DEF OInv, Locals, Numbers, Fields, Snapshot, Early, Busy, Reading
    <3>2. Timely' /\ Unchanged'
      BY <1>1, <1>2, <1>7, <2>2 DEF OInv, Locals, Timely, Unchanged, Fields, Snapshot, AllSeen, Busy, Reading
    <3>3. Settling'
      BY <1>1, <1>2, <1>7, <1>h, <2>2 DEF OInv, Numbers, Settling, Fields, Resting, Rested, AllSeen, Reading
    <3> QED
      BY <3>1, <3>2, <3>3 DEF OInv
  <2> QED
    BY <1>3, <1>7, <2>1, <2>2 DEF Inspect, hash
<1>8. CASE w.aim = "capture"
  <2> DEFINE r == CaptureReply(LiveView(screen, w.format), "live", w.outcome = "exited", FALSE)
  <2>1. Answer(r) /\ r.kind = w.outcome
    BY <1>3, <1>8 DEF Inspect, CaptureReply
  <2> HIDE DEF r
  <2>2. r.kind = "deadline" =>
            Snapshot /\ (w.phase = 1 /\ ~w.closed /\ ~resized => lastTick.text = w.base)
    BY <1>1, <2>1 DEF OInv, Timely, Unchanged, Busy
  <2> QED
    BY <1>1, <2>1, <2>2, AnswerKeeps
<1> QED
  BY <1>1, <1>4, <1>5, <1>6, <1>7, <1>8

LEMMA ONext == ASSUME OInv, [Next]_vars PROVE OInv'
<1>1. CASE World
  BY <1>1, WorldStep
<1>2. CASE Request \/ Tick
  BY <1>2, RequestStep, TickStep
<1>3. CASE Handler
  BY <1>3, ResolveStep, ObserveStep, PollExitStep, SnapshotDeadlineStep, LookForChangeStep,
     SettleOrWaitStep, WaitForTimesOutStep, MarkStep, LookStep, WakeOnPublicationStep,
     WakeOnSenderGoneStep, WakeOnDeadlineStep, WakeFromSleepStep DEF Handler
<1>4. CASE UNCHANGED vars
  <2>1. UNCHANGED <<now, w, lastTick, steady, screen, version, pump, resized>>
    BY <1>4 DEF vars, session, history
  <2>2. version' \in Nat /\ version' >= version
    BY <2>1 DEF OInv, Numbers
  <2> QED
    BY <2>1, <2>2, WorldKeeps
<1> QED
  BY <1>1, <1>2, <1>3, <1>4 DEF Next, World

\* The locals of a waiting request, its clock and the screen it waits on hang
\* together at every step (handle_snapshot, handle_wait_for).
THEOREM Invariance == Spec => []OInv
<1>1. OInv /\ [Next]_vars => OInv'
  BY ONext
<1> QED
  BY OInit, <1>1, PTL DEF Spec

\* A snapshot that waits is never past its deadline: neither a change, nor the end
\* of output with a child that goes on, nor the 25 ms poll makes it late, whatever
\* the timeout and the poll interval (the polling of handle_snapshot).
THEOREM DeadlineAlwaysKept == Spec => []DeadlineKept
<1>1. OInv => DeadlineKept
  BY DEF OInv, Locals, Timely, DeadlineKept, Snapshot, Early, Busy
<1> QED
  BY Invariance, <1>1, PTL

\* An --await-change that answers "deadline" before the end of output has missed no
\* change that was published, whatever the screens and the order of the steps
\* (phase 1 of handle_snapshot: mark, then read, then wait).
THEOREM NoChangeMissed == Spec => []ChangeReported
<1>1. OInv => ChangeReported
  <2> SUFFICES ASSUME OInv, Answered("deadline"), w.phase = 1, ~w.closed, ~resized
               PROVE  lastTick.text = w.base
    BY DEF ChangeReported
  <2>1. Snapshot
    BY DEF OInv, Timely, Answered
  <2> QED
    BY <2>1 DEF OInv, Unchanged, Answered
<1> QED
  BY Invariance, <1>1, PTL

\* A screen called settled has stood still for all of settle_ms, for every settle
\* time and every order of publications (phase 2 of handle_snapshot).
THEOREM SettledAlwaysStable == Spec => []SettledWasStable
<1>1. OInv => SettledWasStable
  BY DEF OInv, Settling, SettledWasStable, Reading
<1> QED
  BY Invariance, <1>1, PTL
-----------------------------------------------------------------------------
(* What is said of an exit.                                                 *)

Evidence == [screen : Screens, complete : BOOLEAN, killed : BOOLEAN]

Counted ==
    /\ {screen, lastTick} \subseteq Screens
    /\ pump \in {"recv", "publish", "closed", "aborted"}
    /\ updates \in 0..MaxUpdates
    /\ version + (IF pump = "publish" THEN 1 ELSE 0) <= updates + (IF closed THEN 1 ELSE 0)
    /\ closed \in BOOLEAN /\ resized \in BOOLEAN
    /\ now <= MaxTime /\ steady <= now

\* The output is closed when the pump returned; whoever ends the session is a
\* client, or the cleaner after the exit; what it captures, once the output is
\* closed, is the screen there will be.
Ended ==
    /\ child \in {"running", "killed", "exited"} /\ sess \in {"live", "removed", "buried"}
    /\ DOMAIN fin = {"pc", "by", "complete"} /\ fin.complete \in BOOLEAN
    /\ fin.pc \in {"none", "drain", "capture", "bury", "done"}
    /\ closed => pump = "closed"
    /\ fin.complete => closed
    /\ fin.pc # "none" => fin.by = "client" \/ (fin.by = "cleaner" /\ child = "exited")
    /\ sess = "buried" => fin.pc = "done"
    /\ fin.pc \notin {"bury", "done"} => tombstone = NoTombstone
    /\ fin.pc \in {"bury", "done"} =>
           /\ tombstone \in Evidence
           /\ tombstone.complete => fin.complete
           /\ tombstone.killed \/ child = "exited"
           /\ tombstone.complete /\ ~resized => tombstone.screen.text = screen.text

Replied(r) ==
    /\ r.kind \in Outcomes \cup Errors
    /\ r.kind = "exited" =>
           /\ child = "exited" \/ r.killed
           /\ r.complete => closed /\ (~resized => r.of.text = screen.text)

Said ==
    /\ w.closed => closed
    /\ w.outcome \in Outcomes
    /\ w.outcome = "exited" => child = "exited" /\ closed
    /\ w.pc # "done" => w.reply = NoReply
    /\ w.pc = "done" => Replied(w.reply)

EInv == OInv /\ Counted /\ Ended /\ Said

LEMMA EInit == Init => EInv
<1> SUFFICES ASSUME Init PROVE EInv
  OBVIOUS
<1> USE ObservationAssumption
<1>1. Counted
  <2>1. {screen, lastTick} \subseteq Screens
    BY DEF Init
  <2>2. updates \in 0..MaxUpdates /\ now <= MaxTime /\ steady <= now
    BY DEF Init
  <2>3. pump = "recv" /\ version = 0 /\ updates = 0 /\ closed = FALSE /\ resized = FALSE
    BY DEF Init
  <2>4. version + (IF pump = "publish" THEN 1 ELSE 0) <= updates + (IF closed THEN 1 ELSE 0)
    BY <2>3
  <2> QED
    BY <2>1, <2>2, <2>3, <2>4 DEF Counted
<1>2. Ended
  BY DEF Init, Ended
<1>3. Said
  BY DEF Init, Idle, Said, Outcomes
<1> QED
  BY OInit, <1>1, <1>2, <1>3 DEF EInv

LEMMA CountedStep == ASSUME EInv, Next PROVE Counted'
<1> USE ObservationAssumption DEF EInv, OInv, Numbers, Counted, Ended, session, history
<1>1. CASE Feed
  BY SMTT(30), <1>1 DEF Feed
<1>2. CASE Publish
  BY <1>2 DEF Publish
<1>3. CASE CloseOutput
  BY <1>3 DEF CloseOutput
<1>4. CASE ChildExits
  BY <1>4 DEF ChildExits
<1>5. CASE ResizeSession
  BY <1>5 DEF ResizeSession
<1>6. CASE KillRemove
  BY <1>6 DEF KillRemove
<1>7. CASE KillDrained
  BY <1>7 DEF KillDrained, StopPump
<1>8. CASE CleanerDecides
  BY <1>8 DEF CleanerDecides, StopPump
<1>9. CASE FinalTombstone
  BY <1>9 DEF FinalTombstone
<1>10. CASE Bury
  BY <1>10 DEF Bury
<1>11. CASE Tick
  BY SMTT(30), <1>11 DEF Tick
<1>12. CASE Request \/ Handler
  <2>1. UNCHANGED <<now, session, history>>
    BY <1>12 DEF Handler, Request, Resolve, Observe, PollExit, SnapshotDeadline, LookForChange, SettleOrWait, WaitForTimesOut, Mark, Look, WakeOnPublication, WakeOnSenderGone, WakeOnDeadline, WakeFromSleep
  <2> QED
    BY <2>1
<1> QED
  BY <1>1, <1>2, <1>3, <1>4, <1>5, <1>6, <1>7, <1>8, <1>9, <1>10, <1>11, <1>12 DEF Next

LEMMA EndedStep == ASSUME EInv, Next PROVE Ended'
<1> USE ObservationAssumption DEF EInv, Counted, Ended, Evidence, session, history
<1>1. CASE Feed
  BY <1>1 DEF Feed
<1>2. CASE Publish
  BY <1>2 DEF Publish
<1>3. CASE CloseOutput
  BY <1>3 DEF CloseOutput
<1>4. CASE ChildExits
  BY <1>4 DEF ChildExits
<1>5. CASE ResizeSession
  BY <1>5 DEF ResizeSession
<1>6. CASE KillRemove
  BY <1>6 DEF KillRemove
<1>7. CASE KillDrained
  BY <1>7 DEF KillDrained, StopPump
<1>8. CASE CleanerDecides
  BY <1>8 DEF CleanerDecides, StopPump
<1>9. CASE FinalTombstone
  BY <1>9 DEF FinalTombstone
<1>10. CASE Bury
  BY <1>10 DEF Bury
<1>11. CASE Tick
  BY <1>11 DEF Tick
<1>12. CASE Request \/ Handler
  <2>1. UNCHANGED <<now, session, history>>
    BY <1>12 DEF Handler, Request, Resolve, Observe, PollExit, SnapshotDeadline, LookForChange, SettleOrWait, WaitForTimesOut, Mark, Look, WakeOnPublication, WakeOnSenderGone, WakeOnDeadline, WakeFromSleep
  <2> QED
    BY <2>1
<1> QED
  BY <1>1, <1>2, <1>3, <1>4, <1>5, <1>6, <1>7, <1>8, <1>9, <1>10, <1>11, <1>12 DEF Next

\* The world adds to an exit and to an end, and takes nothing back.
LEMMA SaidStays ==
    ASSUME Said, w' = w, closed => closed', child = "exited" => child' = "exited", resized => resized',
           resized' \/ closed => resized' \/ screen' = screen
    PROVE  Said'
<1>1. ASSUME NEW r, Replied(r) PROVE Replied(r)'
  BY <1>1 DEF Replied
<1> QED
  BY <1>1 DEF Said

\* A step of the request that answers nothing keeps what was said, if what it
\* now knows is so.
LEMMA NotSaidYet ==
    ASSUME Said, Frame, w.pc # "done", w'.pc # "done", w'.reply = w.reply,
           w'.closed => closed, w'.outcome \in Outcomes,
           w'.outcome = "exited" => child = "exited" /\ closed
    PROVE  Said'
  BY DEF Said, Frame, session

LEMMA SaidNow ==
    ASSUME EInv, Frame, NEW r, Replied(r), Answer(r)
    PROVE  Said'
<1>1. DOMAIN w = Fields /\ UNCHANGED <<closed, child, screen, resized>>
  BY DEF EInv, OInv, Locals, Frame, session, history
<1>2. /\ w'.pc = "done" /\ w'.reply = r /\ w'.closed = w.closed /\ w'.outcome = w.outcome
  BY <1>1 DEF Answer, Fields
<1>3. Replied(r)'
  BY <1>1 DEF Replied
<1> QED
  BY <1>1, <1>2, <1>3 DEF EInv, Said

LEMMA ErrorSaid ==
    ASSUME EInv, Frame, NEW code \in Errors, Answer(ErrorReply(code))
    PROVE  Said'
<1>1. Replied(ErrorReply(code))
  BY DEF Replied, ErrorReply, Errors
<1> QED
  BY <1>1, SaidNow

LEMMA ExitedSaid ==
    ASSUME EInv, Frame, sess = "buried", ExitedSnapshotResponse
    PROVE  Said'
<1> DEFINE r == [kind |-> "exited", from |-> "tombstone", of |-> tombstone.screen,
                 view |-> TombstoneView(tombstone.screen, w.format),
                 complete |-> tombstone.complete, killed |-> tombstone.killed]
<1>1. Answer(r)
  BY DEF ExitedSnapshotResponse
<1>2. /\ r.kind = "exited" /\ r.of = tombstone.screen
      /\ r.complete = tombstone.complete /\ r.killed = tombstone.killed
  OBVIOUS
<1> HIDE DEF r
<1>3. Replied(r)
  BY <1>2 DEF EInv, Ended, Evidence, Replied, Outcomes
<1> QED
  BY <1>1, <1>3, SaidNow

LEMMA SaidStep == ASSUME EInv, Next PROVE Said'
<1> USE DEF EInv
<1>0. /\ DOMAIN w = Fields /\ w.pc \in Early \cup Busy \cup {"done"} /\ w.op \in {"snapshot", "wait_for"}
      /\ w.aim \in {"compare", "restart", "recheck", "capture"}
  BY DEF OInv, Locals
<1>1. CASE Feed
  BY <1>1, SaidStays DEF Feed, Ended, session, history
<1>2. CASE Publish
  BY <1>2, SaidStays DEF Publish, Ended, session, history
<1>3. CASE CloseOutput
  BY <1>3, SaidStays DEF CloseOutput, Ended, session, history
<1>4. CASE ChildExits
  BY <1>4, SaidStays DEF ChildExits, Ended, session, history
<1>5. CASE ResizeSession
  BY <1>5, SaidStays DEF ResizeSession, Ended, session, history
<1>6. CASE KillRemove
  BY <1>6, SaidStays DEF KillRemove, Ended, session, history
<1>7. CASE KillDrained
  BY <1>7, SaidStays DEF KillDrained, Ended, session, history
<1>8. CASE CleanerDecides
  BY <1>8, SaidStays DEF CleanerDecides, Ended, session, history
<1>9. CASE FinalTombstone
  BY <1>9, SaidStays DEF FinalTombstone, Ended, session, history
<1>10. CASE Bury
  BY <1>10, SaidStays DEF Bury, Ended, session, history
<1>11. CASE Tick
  BY <1>11, SaidStays DEF Tick, Ended, session, history
<1>12. CASE Request
  <2>1. Frame /\ w.pc = "idle" /\ w'.pc = "resolve" /\ w'.reply = w.reply
        /\ w'.closed = w.closed /\ w'.outcome = w.outcome
    BY <1>0, <1>12 DEF Request, Frame, Fields
  <2> QED
    BY <2>1, NotSaidYet DEF Said
<1>13. CASE Resolve
  <2>1. Frame /\ w.pc = "resolve"
    BY <1>13 DEF Resolve, Frame
  <2>2. CASE Step("observe")
    BY <1>0, <2>1, <2>2, NotSaidYet DEF Step, Said, Fields
  <2>3. CASE sess = "buried" /\ ExitedSnapshotResponse
    BY <2>1, <2>3, ExitedSaid
  <2>4. CASE Answer(ErrorReply("session_exited")) \/ Answer(ErrorReply("not_found"))
    BY <2>1, <2>4, ErrorSaid DEF Errors
  <2> QED
    BY <1>0, <1>13, <2>2, <2>3, <2>4 DEF Resolve
<1>14. CASE Observe
  <2>1. Frame /\ w.pc = "observe"
    BY <1>14 DEF Observe, Frame
  <2>2. CASE sess = "live"
    <3>1. w'.pc \in {"mark", "top"} /\ w'.reply = w.reply /\ w'.closed = w.closed
          /\ w'.outcome \in {w.outcome, "immediate"}
      BY <1>0, <1>14, <2>2 DEF Observe, Fields
    <3> QED
      BY <2>1, <3>1, NotSaidYet DEF Said, Outcomes
  <2>3. CASE sess = "buried" /\ ExitedSnapshotResponse
    BY <2>1, <2>3, ExitedSaid
  <2>4. CASE Answer(ErrorReply("not_found"))
    BY <2>1, <2>4, ErrorSaid DEF Errors
  <2> QED
    BY <1>14, <2>2, <2>3, <2>4 DEF Observe, FinalizedOr
<1>15. CASE PollExit
  <2>1. Frame /\ w.pc = "top" /\ w.closed
    BY <1>15 DEF PollExit, Frame
  <2>2. CASE child = "exited" /\ Capture("exited")
    BY <1>0, <2>1, <2>2, NotSaidYet DEF Capture, Said, Outcomes, Fields
  <2>3. CASE w' = [w EXCEPT !.pc = "sleep", !.wake = now + Least(Remaining, PollInterval)]
    BY <1>0, <2>1, <2>3, NotSaidYet DEF Said, Fields
  <2> QED
    BY <1>15, <2>2, <2>3 DEF PollExit
<1>16. CASE SnapshotDeadline
  <2>1. Frame /\ w.pc = "top"
    BY <1>16 DEF SnapshotDeadline, Frame
  <2>2. CASE Capture("deadline")
    BY <1>0, <2>1, <2>2, NotSaidYet DEF Capture, Said, Outcomes, Fields
  <2>3. CASE sess = "buried" /\ ExitedSnapshotResponse
    BY <2>1, <2>3, ExitedSaid
  <2> QED
    BY <1>16, <2>2, <2>3 DEF SnapshotDeadline, FinalizedOr
<1>17. CASE LookForChange
  <2>1. /\ Frame /\ w.pc = "top" /\ w'.pc \in {"mark"} /\ w'.reply = w.reply
        /\ (w'.closed => w.closed \/ closed) /\ w'.outcome = w.outcome
    BY <1>0, <1>17 DEF LookForChange, InTime, Frame, Fields
  <2> QED
    BY <2>1, NotSaidYet DEF Said
<1>18. CASE SettleOrWait
  <2>1. Frame /\ w.pc = "top"
    BY <1>18 DEF SettleOrWait, InTime, Frame
  <2>2. CASE Capture("settled")
    BY <1>0, <2>1, <2>2, NotSaidYet DEF Capture, Said, Outcomes, Fields
  <2>3. CASE w' = [w EXCEPT !.pc = "wait", !.wake = now + Least(Remaining, w.since + w.settle - now)]
    BY <1>0, <2>1, <2>3, NotSaidYet DEF Said, Fields
  <2> QED
    BY <1>18, <2>2, <2>3 DEF SettleOrWait
<1>19. CASE WaitForTimesOut
  <2>1. Frame /\ Answer(ErrorReply("timeout"))
    BY <1>19 DEF WaitForTimesOut, Frame
  <2> QED
    BY <2>1, ErrorSaid DEF Errors
<1>20. CASE Mark
  <2>1. /\ Frame /\ w.pc = "mark" /\ w'.pc \in {"look"} /\ w'.reply = w.reply
        /\ (w'.closed => w.closed \/ closed) /\ w'.outcome = w.outcome
    BY <1>0, <1>20 DEF Mark, Frame, Fields
  <2> QED
    BY <2>1, NotSaidYet DEF Said
<1>21. CASE Look
  <2>1. Frame /\ w.pc = "look" /\ Inspect
    BY <1>21 DEF Look, Frame
  <2>2. CASE w.aim = "capture"
    <3> DEFINE r == CaptureReply(LiveView(screen, w.format), "live", w.outcome = "exited", FALSE)
    <3>1. /\ Answer(r) /\ r.kind = w.outcome /\ r.of = screen
          /\ r.complete = (w.outcome = "exited")
      BY <2>1, <2>2 DEF Inspect, CaptureReply
    <3> HIDE DEF r
    <3>2. Replied(r)
      BY <3>1 DEF Said, Replied
    <3> QED
      BY <2>1, <3>1, <3>2, SaidNow
  <2>3. CASE Answer(ErrorReply("found"))
    BY <2>1, <2>3, ErrorSaid DEF Errors
  <2>4. CASE w.aim # "capture" /\ ~Answer(ErrorReply("found"))
    <3>1. /\ w'.pc \in {"mark", "wait", "top"} /\ w'.reply = w.reply /\ w'.closed = w.closed
          /\ w'.outcome \in {w.outcome, "changed"}
      BY <1>0, <2>1, <2>4 DEF Inspect, Changed, Fields
    <3> QED
      BY <2>1, <3>1, NotSaidYet DEF Said, Outcomes
  <2> QED
    BY <2>2, <2>3, <2>4
<1>22. CASE WakeOnPublication
  <2>1. /\ Frame /\ w.pc = "wait" /\ w'.pc \in {"top", "mark", "sleep"} /\ w'.reply = w.reply
        /\ (w'.closed => w.closed \/ closed) /\ w'.outcome = w.outcome
    BY <1>0, <1>22 DEF WakeOnPublication, Woken, Frame, Fields
  <2> QED
    BY <2>1, NotSaidYet DEF Said
<1>23. CASE WakeOnSenderGone
  <2>1. Frame /\ w.pc = "wait"
    BY <1>23 DEF WakeOnSenderGone, Frame
  <2>2. CASE closed /\ Woken("closed")
    <3>1. /\ w'.pc \in {"top", "sleep"} /\ w'.reply = w.reply /\ w'.outcome = w.outcome
      BY <1>0, <2>2 DEF Woken, Fields
    <3> QED
      BY <2>1, <2>2, <3>1, NotSaidYet DEF Said
  <2>3. CASE sess = "buried" /\ ExitedSnapshotResponse
    BY <2>1, <2>3, ExitedSaid
  <2>4. CASE Answer(ErrorReply("pump_failed"))
    BY <2>1, <2>4, ErrorSaid DEF Errors
  <2> QED
    BY <1>23, <2>2, <2>3, <2>4 DEF WakeOnSenderGone, FinalizedOr
<1>24. CASE WakeOnDeadline
  <2>1. /\ Frame /\ w.pc = "wait" /\ w'.pc \in {"top"} /\ w'.reply = w.reply
        /\ (w'.closed => w.closed \/ closed) /\ w'.outcome = w.outcome
    BY <1>0, <1>24 DEF WakeOnDeadline, Woken, Frame, Fields
  <2> QED
    BY <2>1, NotSaidYet DEF Said
<1>25. CASE WakeFromSleep
  <2>1. /\ Frame /\ w.pc = "sleep" /\ w'.pc \in {"top"} /\ w'.reply = w.reply
        /\ (w'.closed => w.closed \/ closed) /\ w'.outcome = w.outcome
    BY <1>0, <1>25 DEF WakeFromSleep, Step, Frame, Fields
  <2> QED
    BY <2>1, NotSaidYet DEF Said
<1> QED
  BY <1>1, <1>2, <1>3, <1>4, <1>5, <1>6, <1>7, <1>8, <1>9, <1>10, <1>11, <1>12,
     <1>13, <1>14, <1>15, <1>16, <1>17, <1>18, <1>19, <1>20, <1>21, <1>22,
     <1>23, <1>24, <1>25 DEF Next, Handler

LEMMA ENext == ASSUME EInv, [Next]_vars PROVE EInv'
<1>1. OInv'
  BY ONext DEF EInv
<1>2. CASE Next
  BY <1>1, <1>2, CountedStep, EndedStep, SaidStep DEF EInv
<1>3. CASE UNCHANGED vars
  BY <1>1, <1>3 DEF EInv, Counted, Ended, Said, Replied, vars, session, history
<1> QED
  BY <1>2, <1>3

\* "Exited" is true, and what is called complete is the last screen there will be, for
\* any screens and any order of the end of output, the exit, a kill and the cleaner
\* (exited_live_snapshot_response, finalized_snapshot_response).
THEOREM ExitAlwaysTrue == Spec => []ExitedIsTrue
<1>1. EInv /\ [Next]_vars => EInv'
  BY ENext
<1>2. EInv => TypeOK
  <2> SUFFICES ASSUME EInv PROVE TypeOK
    OBVIOUS
  <2>1. MaxTime \in Nat /\ MaxUpdates \in Nat /\ NoTombstone \notin Evidence
    BY ObservationAssumption DEF Evidence
  <2>2. /\ now \in 0..MaxTime /\ steady \in 0..MaxTime
        /\ updates \in 0..MaxUpdates /\ version \in 0..MaxUpdates + 1
    BY <2>1 DEF EInv, OInv, Numbers, Counted
  <2>3. w.seen \in 0..version /\ w.phase \in 0..2 /\ w.start \in 0..now
    BY DEF EInv, OInv, Locals, Numbers
  <2>4. tombstone = NoTombstone <=> fin.pc \notin {"bury", "done"}
    BY <2>1 DEF EInv, Ended
  <2>5. /\ screen \in Screens /\ lastTick \in Screens
        /\ pump \in {"recv", "publish", "closed", "aborted"}
        /\ closed \in BOOLEAN /\ resized \in BOOLEAN
    BY DEF EInv, Counted
  <2>6. /\ child \in {"running", "killed", "exited"} /\ sess \in {"live", "removed", "buried"}
        /\ fin.pc \in {"none", "drain", "capture", "bury", "done"}
    BY DEF EInv, Ended
  <2>7. /\ w.pc # "done" => w.reply = NoReply
        /\ w.pc = "done" => w.reply.kind \in Outcomes \cup Errors
    BY DEF EInv, Said, Replied
  <2> QED
    BY <2>2, <2>3, <2>4, <2>5, <2>6, <2>7 DEF TypeOK
<1>3. EInv => ExitedIsTrue
  BY <1>2 DEF EInv, Said, Replied, ExitedIsTrue, Answered
<1> QED
  BY EInit, <1>1, <1>3, PTL DEF Spec
-----------------------------------------------------------------------------
(* The readable form of retained output.                                   *)

\* A screenful read off while scrolled back is a piece of what scrolled off.
LEMMA ScrolledIsCut ==
    ASSUME NEW S, NEW back \in Seq(S), NEW visible \in Seq(S),
           NEW offset \in 1..Len(back), NEW many \in 1..offset, many <= Len(visible)
    PROVE  SubSeq(Scrolled(back, visible, offset), 1, many)
             = SubSeq(back, Len(back) - offset + 1, Len(back) - offset + many)
<1> DEFINE all == back \o visible
           i == Len(back) - offset + 1
           j == Len(back) - offset + Len(visible)
<1>1. /\ Len(back) \in Nat /\ Len(visible) \in Nat /\ all \in Seq(S)
      /\ Len(all) = Len(back) + Len(visible)
  BY LenProperties, ConcatProperties
<1>2. /\ i \in 1..Len(all) /\ j \in 1..Len(all) /\ 1 \in 1..j - i + 1 /\ many \in 1..j - i + 1
      /\ i + 1 - 1 = i /\ i + many - 1 = Len(back) - offset + many
  BY <1>1
<1>3. SubSeq(SubSeq(all, i, j), 1, many) = SubSeq(all, i, Len(back) - offset + many)
  <2> HIDE DEF i, j, all
  <2> QED
    BY <1>1, <1>2, SubSeqOfSubSeq
<1>4. i \in 1..Len(back) + 1 /\ Len(back) - offset + many \in i - 1..Len(back)
  BY <1>1
<1>5. SubSeq(all, i, Len(back) - offset + many) = SubSeq(back, i, Len(back) - offset + many)
  BY <1>4, CutOfFirst
<1> QED
  BY <1>3, <1>5 DEF Scrolled

\* How many of the lines above are read off at a time.
Screenful(offset, rows) == IF offset < rows THEN offset ELSE rows

LEMMA ScreenfulBounds ==
    ASSUME NEW offset \in Nat \ {0}, NEW rows \in Nat \ {0}
    PROVE  /\ Screenful(offset, rows) \in 1..offset /\ Screenful(offset, rows) <= rows
           /\ offset - Screenful(offset, rows) \in 0..offset - 1
           /\ offset - Screenful(offset, rows) = IF offset > rows THEN offset - rows ELSE 0
BY DEF Screenful

Newest(lines, k) == SubSeq(lines, Len(lines) - k + 1, Len(lines))

ScrollsOff(f, back, visible) ==
    f = [offset \in 0..Len(back) |->
            IF offset = 0 THEN <<>>
            ELSE SubSeq(Scrolled(back, visible, offset), 1, Screenful(offset, Len(visible)))
                     \o f[IF offset > Len(visible) THEN offset - Len(visible) ELSE 0]]

LEMMA NewestScrolledOff ==
    ASSUME NEW S, NEW back \in Seq(S), NEW visible \in Seq(S), Len(visible) # 0,
           NEW offset \in 1..Len(back)
    PROVE  LET many == Screenful(offset, Len(visible))
           IN  Newest(back, offset) = SubSeq(Scrolled(back, visible, offset), 1, many) \o Newest(back, offset - many)
<1> DEFINE many == Screenful(offset, Len(visible))
           m == Len(back) - offset + 1
           k == Len(back) - offset + many
<1>1. Len(back) \in Nat /\ Len(visible) \in Nat \ {0}
  BY LenProperties
<1>2. many \in 1..offset /\ many <= Len(visible)
  <2>1. offset \in Nat \ {0}
    BY <1>1
  <2> QED
    BY <1>1, <2>1, ScreenfulBounds
<1>3. SubSeq(Scrolled(back, visible, offset), 1, many) = SubSeq(back, m, k)
  <2> HIDE DEF many
  <2> QED
    BY <1>2, ScrolledIsCut
<1> HIDE DEF many
<1>4. /\ m \in 1..Len(back) + 1 /\ k \in m - 1..Len(back) /\ Len(back) \in k..Len(back)
      /\ k + 1 = Len(back) - (offset - many) + 1
  BY <1>1, <1>2
<1>5. SubSeq(back, m, k) \o SubSeq(back, k + 1, Len(back)) = SubSeq(back, m, Len(back))
  <2> HIDE DEF many, m, k
  <2> QED
    BY <1>4, ConcatAdjacentSubSeq
<1> QED
  BY <1>3, <1>4, <1>5 DEF Newest, many

\* The newest lines, as many as were asked for, are a solution.
LEMMA ScrollingExists ==
    ASSUME NEW S, NEW back \in Seq(S), NEW visible \in Seq(S), Len(visible) # 0
    PROVE  ScrollsOff([offset \in 0..Len(back) |-> Newest(back, offset)], back, visible)
<1> DEFINE f == [offset \in 0..Len(back) |-> Newest(back, offset)]
<1>1. Len(back) \in Nat /\ Len(visible) \in Nat \ {0}
  BY LenProperties
<1>2. ASSUME NEW offset \in 0..Len(back)
      PROVE  f[offset] =
            IF offset = 0 THEN <<>>
            ELSE SubSeq(Scrolled(back, visible, offset), 1, Screenful(offset, Len(visible)))
                     \o f[IF offset > Len(visible) THEN offset - Len(visible) ELSE 0]
  <2>1. CASE offset = 0
    <3>1. Newest(back, 0) = << >>
      BY <1>1, SubSeqEmpty DEF Newest
    <3> QED
      BY <2>1, <3>1
  <2>2. CASE offset # 0
    <3> DEFINE many == Screenful(offset, Len(visible))
    <3>0. offset \in 1..Len(back) /\ offset \in Nat \ {0}
      BY <1>1, <2>2
    <3>1. /\ offset - many \in 0..Len(back)
          /\ offset - many = IF offset > Len(visible) THEN offset - Len(visible) ELSE 0
      <4>1. /\ offset - many \in 0..offset - 1
            /\ offset - many = IF offset > Len(visible) THEN offset - Len(visible) ELSE 0
        BY <1>1, <3>0, ScreenfulBounds
      <4> HIDE DEF many
      <4> QED
        BY <1>1, <3>0, <4>1
    <3>2. Newest(back, offset) = SubSeq(Scrolled(back, visible, offset), 1, many) \o Newest(back, offset - many)
      BY <3>0, NewestScrolledOff
    <3> QED
      BY <2>2, <3>1, <3>2
  <2> QED
    BY <2>1, <2>2
<1> QED
  BY <1>2 DEF ScrollsOff

\* ... and the only one.
LEMMA ScrollingIs ==
    ASSUME NEW S, NEW back \in Seq(S), NEW visible \in Seq(S), Len(visible) # 0,
           NEW f, ScrollsOff(f, back, visible)
    PROVE  \A offset \in 0..Len(back) : f[offset] = Newest(back, offset)
<1> DEFINE T == {k \in Nat : k \in 0..Len(back) => f[k] = Newest(back, k)}
<1>1. Len(back) \in Nat /\ Len(visible) \in Nat \ {0}
  BY LenProperties
<1>2. ASSUME NEW n \in Nat, \A k \in 0..n - 1 : k \in T PROVE n \in T
  <2> SUFFICES ASSUME n \in 0..Len(back) PROVE f[n] = Newest(back, n)
    OBVIOUS
  <2>0. f[n] = IF n = 0 THEN <<>>
               ELSE SubSeq(Scrolled(back, visible, n), 1, Screenful(n, Len(visible)))
                     \o f[IF n > Len(visible) THEN n - Len(visible) ELSE 0]
    BY Zenon DEF ScrollsOff
  <2>1. CASE n = 0
    <3>1. Newest(back, 0) = << >>
      BY <1>1, SubSeqEmpty DEF Newest
    <3> QED
      BY <2>0, <2>1, <3>1
  <2>2. CASE n # 0
    <3> DEFINE many == Screenful(n, Len(visible))
    <3>0. n \in 1..Len(back) /\ n \in Nat \ {0}
      BY <1>1, <2>2
    <3>1. /\ n - many \in 0..n - 1 /\ n - many \in 0..Len(back)
          /\ n - many = IF n > Len(visible) THEN n - Len(visible) ELSE 0
      <4>1. /\ n - many \in 0..n - 1
            /\ n - many = IF n > Len(visible) THEN n - Len(visible) ELSE 0
        BY <1>1, <3>0, ScreenfulBounds
      <4> HIDE DEF many
      <4> QED
        BY <1>1, <3>0, <4>1
    <3>2. Newest(back, n) = SubSeq(Scrolled(back, visible, n), 1, many) \o Newest(back, n - many)
      BY <3>0, NewestScrolledOff
    <3>3. f[n - many] = Newest(back, n - many)
      BY <1>2, <3>1
    <3> QED
      BY <2>0, <2>2, <3>1, <3>2, <3>3
  <2> QED
    BY <2>1, <2>2
<1>3. Nat \subseteq T
  <2> HIDE DEF T
  <2> QED
    BY <1>2, StrongInduction
<1> QED
  BY <1>1, <1>3

LEMMA ScrolledOffIsBack ==
    ASSUME NEW S, NEW back \in Seq(S), NEW visible \in Seq(S), Len(visible) # 0
    PROVE  ScrolledOff(back, visible) = back
<1> DEFINE f == CHOOSE g : ScrollsOff(g, back, visible)
<1>1. ScrollsOff(f, back, visible)
  BY ScrollingExists
<1>2. ScrolledOff(back, visible) = f[Len(back)]
  BY DEF ScrolledOff, ScrollsOff, Screenful
<1>3. Len(back) \in Nat /\ Len(back) \in 0..Len(back)
  BY LenProperties
<1>4. f[Len(back)] = Newest(back, Len(back))
  <2> HIDE DEF f
  <2> QED
    BY <1>1, <1>3, ScrollingIs
<1>5. Newest(back, Len(back)) = back
  BY <1>3, SubSeqFull DEF Newest
<1> QED
  BY <1>2, <1>4, <1>5

\* The readable form of any output shows the screen after the newest lines that
\* scrolled off, as many as the replay's scrollback holds, each once and in
\* order (render_retained_output).
THEOREM NewestOutputShown ==
    ASSUME NEW S, NEW gone \in Seq(S), NEW visible \in Seq(S), Len(visible) # 0
    PROVE  ShowsLines(RenderRetained(gone, visible),
                      TailOf(gone \o visible, ScrollbackRows + Len(visible)))
<1> DEFINE back == TailOf(gone, ScrollbackRows)
           lines == back \o visible
           inked == {i \in DOMAIN lines : lines[i] # <<>>}
           n == Max({0} \cup inked)
<1>0. back \in Seq(S) /\ TailOf(gone \o visible, ScrollbackRows + Len(visible)) = lines
  BY ScrollbackAssumption, TailOfProperties, TailOfJoined
<1> HIDE DEF back
<1>1. /\ lines \in Seq(S) /\ Len(lines) \in Nat /\ DOMAIN lines = 1..Len(lines)
  BY <1>0, LenProperties, ConcatProperties
<1>2. RenderRetained(gone, visible) = SubSeq(lines, 1, n)
  BY <1>0, ScrolledOffIsBack DEF RenderRetained, Scrollback, WithoutBlankEnd, back
<1>3. n \in {0} \cup inked /\ \A i \in {0} \cup inked : n >= i
  <2>1. \E x \in {0} \cup inked : \A y \in {0} \cup inked : x >= y
    <3> HIDE DEF lines
    <3>1. CASE inked = {}
      BY <3>1
    <3>2. CASE inked # {}
      <4>1. inked \in SUBSET (1..Len(lines))
        BY <1>1
      <4> HIDE DEF inked
      <4>2. PICK x \in inked : \A y \in inked : y <= x
        BY <1>1, <3>2, <4>1, GreatestPlace
      <4> QED
        BY <1>1, <4>1, <4>2
    <3> QED
      BY <3>1, <3>2
  <2> HIDE DEF inked
  <2> QED
    BY <2>1 DEF Max
<1> HIDE DEF lines, n
<1>4. n \in 0..Len(lines) /\ n > 0 => lines[n] # <<>>
  BY <1>1, <1>3
<1>5. ASSUME NEW i \in n + 1..Len(lines) PROVE lines[i] = <<>>
  <2>1. i \in DOMAIN lines /\ ~(n >= i)
    BY <1>1, <1>3
  <2> QED
    BY <1>3, <2>1
<1>6. n \in 0..Len(lines)
  BY <1>1, <1>3
<1> QED
  BY <1>0, <1>2, <1>4, <1>5, <1>6 DEF ShowsLines, lines
-----------------------------------------------------------------------------
(* The text format of a capture.                                           *)

\* What the marking of a cursor writes into a line.
Symbols == {"[", "]", "_", " "}

\* A line with the cursor on it, character by character.
LEMMA MarkedLineIs ==
    ASSUME NEW Chars, Symbols \subseteq Chars, NEW was \in Seq(Chars), NEW col \in Nat
    PROVE  LET line == MarkedLine(was, col)
           IN  /\ line \in Seq(Chars)
               /\ Len(line) = 2 + IF col < Len(was) THEN Len(was) ELSE col + 1
               /\ \A i \in 1..col : i <= Len(was) => line[i] = was[i]
               /\ line[col + 1] = "[" /\ line[col + 3] = "]"
               /\ col < Len(was) => /\ line[col + 2] = was[col + 1]
                                    /\ \A i \in col + 2..Len(was) : line[i + 2] = was[i]
<1> DEFINE line == MarkedLine(was, col)
<1>1. Len(was) \in Nat /\ col \in Nat
  BY LenProperties
<1>2. CASE col < Len(was)
  <2> DEFINE front == SubSeq(was, 1, col)
             mark == <<"[", was[col + 1], "]">>
             rest == SubSeq(was, col + 2, Len(was))
  <2>1. line = (front \o mark) \o rest
    BY <1>2 DEF MarkedLine
  <2>2. /\ front \in Seq(Chars) /\ Len(front) = col
        /\ \A i \in 1..col : front[i] = was[i]
    <3>1. 1 \in 1..Len(was) + 1 /\ col \in 1 - 1..Len(was) /\ col - 1 + 1 = col
          /\ \A i \in 1..col : 1 + i - 1 = i
      BY <1>1, <1>2
    <3> QED
      BY <3>1, CutProperties
  <2>3. mark \in Seq(Chars) /\ Len(mark) = 3 /\ mark[1] = "[" /\ mark[2] = was[col + 1] /\ mark[3] = "]"
    <3>1. was[col + 1] \in Chars
      <4>1. col + 1 \in 1..Len(was)
        BY <1>1, <1>2
      <4> QED
        BY <4>1, ElementOfSeq
    <3>2. "[" \in Chars /\ "]" \in Chars
      BY DEF Symbols
    <3> QED
      BY <3>1, <3>2
  <2>4. /\ rest \in Seq(Chars) /\ Len(rest) = Len(was) - (col + 1)
        /\ \A i \in 1..Len(was) - (col + 1) : rest[i] = was[col + 1 + i]
    <3>1. col + 2 \in 1..Len(was) + 1 /\ Len(was) \in (col + 2) - 1..Len(was)
          /\ Len(was) - (col + 2) + 1 = Len(was) - (col + 1)
          /\ \A i \in 1..Len(was) - (col + 1) : (col + 2) + i - 1 = col + 1 + i
      BY <1>1, <1>2
    <3>2. /\ rest \in Seq(Chars) /\ Len(rest) = Len(was) - (col + 2) + 1
          /\ \A i \in 1..Len(was) - (col + 2) + 1 : rest[i] = was[(col + 2) + i - 1]
      BY ZenonT(30), <3>1, CutProperties
    <3> HIDE DEF rest
    <3> QED
      BY <3>1, <3>2
  <2> HIDE DEF front, mark, rest
  <2> DEFINE head == front \o mark
  <2>5. /\ head \in Seq(Chars) /\ Len(head) = col + 3
        /\ \A i \in 1..col : head[i] = was[i]
        /\ head[col + 1] = "[" /\ head[col + 2] = was[col + 1] /\ head[col + 3] = "]"
    <3>1. /\ head \in Seq(Chars) /\ Len(head) = col + 3
          /\ \A i \in 1..col + 3 : head[i] = IF i <= col THEN front[i] ELSE mark[i - col]
      <4>1. front \in Seq(Chars) /\ mark \in Seq(Chars) /\ col = Len(front) /\ col + 3 = col + Len(mark)
        BY <2>2, <2>3
      <4> HIDE DEF line
      <4> QED
        BY <4>1, JoinedProperties
    <3> HIDE DEF head
    <3>2. \A i \in 1..col : i \in 1..col + 3 /\ i <= col
      BY <1>1
    <3>3. /\ {col + 1, col + 2, col + 3} \subseteq 1..col + 3
          /\ ~(col + 1 <= col) /\ ~(col + 2 <= col) /\ ~(col + 3 <= col)
          /\ col + 1 - col = 1 /\ col + 2 - col = 2 /\ col + 3 - col = 3
      BY <1>1
    <3> QED
      BY <2>2, <2>3, <3>1, <3>2, <3>3
  <2> HIDE DEF head
  <2>6. /\ line \in Seq(Chars) /\ Len(line) = Len(was) + 2
        /\ \A i \in 1..Len(was) + 2 : line[i] = IF i <= col + 3 THEN head[i] ELSE rest[i - (col + 3)]
    <3> DEFINE m == col + 3
               n == Len(was) + 2
    <3>1. head \in Seq(Chars) /\ rest \in Seq(Chars) /\ m = Len(head) /\ n = m + Len(rest)
      BY <1>1, <2>4, <2>5
    <3>2. line = head \o rest
      BY <2>1 DEF head
    <3> HIDE DEF line, m, n
    <3>3. /\ line \in Seq(Chars) /\ Len(line) = n
          /\ \A i \in 1..n : line[i] = IF i <= m THEN head[i] ELSE rest[i - m]
      BY <3>1, <3>2, JoinedProperties
    <3> QED
      BY <3>3 DEF m, n
  <2> HIDE DEF line
  <2>7. \A i \in col + 2..Len(was) : line[i + 2] = was[i]
    <3> TAKE i \in col + 2..Len(was)
    <3>1. /\ i + 2 \in 1..Len(was) + 2
          /\ i - (col + 1) \in 1..Len(was) - (col + 1)
          /\ ~(i + 2 <= col + 3) /\ (i + 2) - (col + 3) = i - (col + 1)
          /\ col + 1 + (i - (col + 1)) = i
      BY <1>1, <1>2
    <3> QED
      BY <2>4, <2>6, <3>1
  <2>8. /\ \A i \in 1..col : i \in 1..Len(was) + 2 /\ i <= col + 3
        /\ {col + 1, col + 2, col + 3} \subseteq 1..Len(was) + 2
        /\ col + 1 <= col + 3 /\ col + 2 <= col + 3 /\ col + 3 <= col + 3
        /\ 2 + Len(was) = Len(was) + 2
    BY <1>1, <1>2
  <2>9. \A i \in 1..col : line[i] = was[i]
    BY <2>5, <2>6, <2>8
  <2> QED
    BY <1>2, <2>5, <2>6, <2>7, <2>8, <2>9 DEF line
<1>3. CASE ~(col < Len(was))
  <2> DEFINE gap == Blank(col - Len(was))
             mark == <<"[", "_", "]">>
  <2>1. line = (was \o gap) \o mark
    BY <1>3 DEF MarkedLine
  <2>2. gap \in Seq(Chars) /\ Len(gap) = col - Len(was)
    <3>1. col - Len(was) \in Nat
      BY <1>1, <1>3
    <3>2. gap \in [1..col - Len(was) -> Chars]
      BY DEF Blank, Symbols
    <3> HIDE DEF gap
    <3> QED
      BY <3>1, <3>2
  <2>3. mark \in Seq(Chars) /\ Len(mark) = 3 /\ mark[1] = "[" /\ mark[3] = "]"
    <3>1. "[" \in Chars /\ "]" \in Chars /\ "_" \in Chars
      BY DEF Symbols
    <3> HIDE DEF line, gap
    <3>2. mark \in Seq(Chars)
      BY <3>1, TripleInSeq
    <3> QED
      BY <3>2
  <2> HIDE DEF gap, mark
  <2> DEFINE head == was \o gap
  <2>4. /\ head \in Seq(Chars) /\ Len(head) = col
        /\ \A i \in 1..Len(was) : head[i] = was[i]
    <3>1. /\ head \in Seq(Chars) /\ Len(head) = Len(was) + (col - Len(was))
          /\ \A i \in 1..Len(was) + (col - Len(was)) :
                head[i] = IF i <= Len(was) THEN was[i] ELSE gap[i - Len(was)]
      BY <2>2, JoinedProperties
    <3>2. Len(was) + (col - Len(was)) = col
          /\ \A i \in 1..Len(was) : i \in 1..col /\ i <= Len(was)
      BY <1>1, <1>3
    <3> HIDE DEF head
    <3> QED
      BY <3>1, <3>2
  <2> HIDE DEF head
  <2>5. /\ line \in Seq(Chars) /\ Len(line) = col + 3
        /\ \A i \in 1..col + 3 : line[i] = IF i <= col THEN head[i] ELSE mark[i - col]
    <3>1. head \in Seq(Chars) /\ mark \in Seq(Chars) /\ col = Len(head) /\ col + 3 = col + Len(mark)
      BY <2>3, <2>4
    <3>2. line = head \o mark
      BY <2>1 DEF head
    <3> HIDE DEF line
    <3> QED
      BY <3>1, <3>2, JoinedProperties
  <2> HIDE DEF line
  <2>6. /\ \A i \in 1..col : i \in 1..col + 3 /\ i <= col /\ (i <= Len(was) => i \in 1..Len(was))
        /\ {col + 1, col + 3} \subseteq 1..col + 3 /\ ~(col + 1 <= col) /\ ~(col + 3 <= col)
        /\ col + 1 - col = 1 /\ col + 3 - col = 3 /\ 2 + (col + 1) = col + 3
    BY <1>1
  <2>7. \A i \in 1..col : i <= Len(was) => line[i] = was[i]
    BY <2>4, <2>5, <2>6
  <2>8. line[col + 1] = "[" /\ line[col + 3] = "]"
    BY <2>3, <2>5, <2>6
  <2> QED
    BY <1>3, <2>5, <2>6, <2>7, <2>8 DEF line
<1> QED
  BY <1>2, <1>3

\* Without the brackets it is the line it was, up to its end.
LEMMA UnmarkedIs ==
    ASSUME NEW Chars, Symbols \subseteq Chars, NEW was \in Seq(Chars), NEW col \in Nat
    PROVE  LET line == MarkedLine(was, col)
               plain == SubSeq(line, 1, col) \o <<line[col + 2]>> \o SubSeq(line, col + 4, Len(line))
           IN  /\ Len(plain) = IF col < Len(was) THEN Len(was) ELSE col + 1
               /\ SubSeq(plain, 1, Len(was)) = was
<1> DEFINE line == MarkedLine(was, col)
           n == IF col < Len(was) THEN Len(was) ELSE col + 1
           front == SubSeq(line, 1, col)
           at == <<line[col + 2]>>
           rest == SubSeq(line, col + 4, Len(line))
           plain == front \o at \o rest
<1>0. /\ Len(was) \in Nat /\ n \in Nat /\ col + 1 <= n /\ Len(was) <= n
  BY LenProperties
<1>1. /\ line \in Seq(Chars) /\ Len(line) = n + 2
      /\ \A i \in 1..col : i <= Len(was) => line[i] = was[i]
      /\ col < Len(was) => /\ line[col + 2] = was[col + 1]
                           /\ \A i \in col + 2..Len(was) : line[i + 2] = was[i]
  <2>1. 2 + n = n + 2
    BY <1>0
  <2> HIDE DEF n
  <2> QED
    BY <2>1, MarkedLineIs DEF n
<1>10. ~(col < Len(was)) => n = col + 1
  OBVIOUS
<1> HIDE DEF line, n
<1>2. /\ front \in Seq(Chars) /\ Len(front) = col
      /\ \A i \in 1..col : front[i] = line[i]
  <2>1. 1 \in 1..Len(line) + 1 /\ col \in 1 - 1..Len(line) /\ col - 1 + 1 = col
        /\ \A i \in 1..col : 1 + i - 1 = i
    BY <1>0, <1>1
  <2> QED
    BY <1>1, <2>1, CutProperties
<1>3. at \in Seq(Chars) /\ Len(at) = 1 /\ at[1] = line[col + 2]
  <2>1. col + 2 \in 1..Len(line)
    BY <1>0, <1>1
  <2>2. line[col + 2] \in Chars
    BY <1>1, <2>1, ElementOfSeq
  <2> QED
    BY <2>2
<1>4. /\ rest \in Seq(Chars) /\ Len(rest) = n - (col + 1)
      /\ \A i \in 1..n - (col + 1) : rest[i] = line[col + 3 + i]
  <2>1. /\ col + 4 \in 1..Len(line) + 1 /\ Len(line) \in (col + 4) - 1..Len(line)
        /\ Len(line) - (col + 4) + 1 = n - (col + 1)
        /\ \A i \in 1..n - (col + 1) : (col + 4) + i - 1 = col + 3 + i
    BY SMTT(30), <1>0, <1>1
  <2> QED
    BY <1>1, <2>1, CutProperties
<1> HIDE DEF front, at, rest
<1> DEFINE head == front \o at
<1>5. /\ head \in Seq(Chars) /\ Len(head) = col + 1
      /\ \A i \in 1..col : head[i] = line[i]
      /\ head[col + 1] = line[col + 2]
  <2>1. /\ head \in Seq(Chars) /\ Len(head) = col + 1
        /\ \A i \in 1..col + 1 : head[i] = IF i <= col THEN front[i] ELSE at[i - col]
    <3>1. front \in Seq(Chars) /\ at \in Seq(Chars) /\ col = Len(front) /\ col + 1 = col + Len(at)
      BY <1>2, <1>3
    <3> HIDE DEF plain
    <3> QED
      BY <3>1, JoinedProperties
  <2> HIDE DEF head
  <2>2. /\ \A i \in 1..col : i \in 1..col + 1 /\ i <= col
        /\ col + 1 \in 1..col + 1 /\ ~(col + 1 <= col) /\ col + 1 - col = 1
    OBVIOUS
  <2> QED
    BY <1>2, <1>3, <2>1, <2>2
<1> HIDE DEF head
<1>6. /\ plain \in Seq(Chars) /\ Len(plain) = n
      /\ \A i \in 1..n : plain[i] = IF i <= col + 1 THEN head[i] ELSE rest[i - (col + 1)]
  <2> DEFINE m == col + 1
  <2>1. head \in Seq(Chars) /\ rest \in Seq(Chars) /\ m = Len(head) /\ n = m + Len(rest)
    BY <1>0, <1>4, <1>5
  <2>2. plain = head \o rest
    BY DEF head
  <2> HIDE DEF plain, m
  <2>3. /\ plain \in Seq(Chars) /\ Len(plain) = n
        /\ \A i \in 1..n : plain[i] = IF i <= m THEN head[i] ELSE rest[i - m]
    BY <2>1, <2>2, JoinedProperties
  <2> QED
    BY <2>3 DEF m
<1> HIDE DEF plain
<1>7. ASSUME NEW i \in 1..Len(was) PROVE plain[i] = was[i]
  <2>0. i \in 1..n
    BY <1>0
  <2>1. CASE i <= col
    <3>1. i \in 1..col /\ i <= col + 1 /\ i <= Len(was)
      BY <1>0, <2>1
    <3> QED
      BY <1>1, <1>5, <1>6, <2>0, <3>1
  <2>2. CASE i = col + 1
    <3>1. col < Len(was) /\ i <= col + 1
      BY <1>0, <2>2
    <3> QED
      BY <1>1, <1>5, <1>6, <2>0, <2>2, <3>1
  <2>3. CASE i > col + 1
    <3>1. /\ col < Len(was) /\ ~(i <= col + 1) /\ i \in col + 2..Len(was)
          /\ i - (col + 1) \in 1..n - (col + 1) /\ col + 3 + (i - (col + 1)) = i + 2
      BY <1>0, <2>3
    <3> QED
      BY <1>1, <1>4, <1>6, <2>0, <3>1
  <2> QED
    BY <2>1, <2>2, <2>3
<1>8. SubSeq(plain, 1, Len(was)) = was
  <2>1. 1 \in 1..Len(plain) + 1 /\ Len(was) \in 1 - 1..Len(plain) /\ Len(was) - 1 + 1 = Len(was)
        /\ \A i \in 1..Len(was) : 1 + i - 1 = i
    BY <1>0, <1>6
  <2>2. /\ SubSeq(plain, 1, Len(was)) \in Seq(Chars) /\ Len(SubSeq(plain, 1, Len(was))) = Len(was)
        /\ \A i \in 1..Len(was) : SubSeq(plain, 1, Len(was))[i] = plain[i]
    BY <1>6, <2>1, CutProperties
  <2> QED
    BY <1>7, <2>2, SeqEqual
<1> QED
  BY <1>6, <1>8 DEF plain, front, at, rest, n, line

LEMMA MaxOfTwo ==
    ASSUME NEW a \in Nat, NEW b \in Nat
    PROVE  Max({a, b}) = IF a < b THEN b ELSE a
<1>1. \E x \in {a, b} : \A y \in {a, b} : x >= y
  OBVIOUS
<1>2. Max({a, b}) \in {a, b} /\ \A y \in {a, b} : Max({a, b}) >= y
  BY <1>1 DEF Max
<1> QED
  BY <1>2

\* What a client reads of a screen in the text format.
LEMMA TextMarksCursor ==
    ASSUME NEW of, of.text \in Seq(Seq(STRING)), of.row \in Nat, of.col \in Nat
    PROVE  LET shown == FormatTextSnapshot(of)
               line == shown[of.row + 1]
               plain == SubSeq(line, 1, of.col) \o <<line[of.col + 2]>> \o SubSeq(line, of.col + 4, Len(line))
               was == LineOf(of.text, of.row + 1)
           IN  /\ line[of.col + 1] = "[" /\ line[of.col + 3] = "]"
               /\ SubSeq(plain, 1, Least(Len(was), Len(plain))) = was
               /\ Len(plain) = Max({Len(was), of.col + 1})
               /\ \A i \in 1..Len(of.text) : i # of.row + 1 => shown[i] = of.text[i]
<1> DEFINE shown == FormatTextSnapshot(of)
           was == LineOf(of.text, of.row + 1)
           line == MarkedLine(was, of.col)
           plain == SubSeq(line, 1, of.col) \o <<line[of.col + 2]>> \o SubSeq(line, of.col + 4, Len(line))
<1>1. Len(of.text) \in Nat /\ Max({Len(of.text), of.row + 1}) = IF Len(of.text) < of.row + 1 THEN of.row + 1 ELSE Len(of.text)
  <2>1. Len(of.text) \in Nat /\ of.row + 1 \in Nat
    BY LenProperties
  <2> QED
    BY <2>1, MaxOfTwo
<1>2. /\ of.row + 1 \in 1..Max({Len(of.text), of.row + 1})
      /\ \A i \in 1..Len(of.text) : i \in 1..Max({Len(of.text), of.row + 1})
  <2> HIDE DEF shown, was, line, plain
  <2> DEFINE m == Max({Len(of.text), of.row + 1})
  <2>1. m = IF Len(of.text) < of.row + 1 THEN of.row + 1 ELSE Len(of.text)
    BY <1>1
  <2> HIDE DEF m
  <2>2. of.row + 1 \in 1..m /\ \A i \in 1..Len(of.text) : i \in 1..m
    BY <1>1, <2>1
  <2> QED
    BY <2>2 DEF m
<1>3. shown[of.row + 1] = line
  BY <1>2 DEF FormatTextSnapshot
<1>4. \A i \in 1..Len(of.text) : i # of.row + 1 => shown[i] = of.text[i]
  <2>1. \A i \in 1..Len(of.text) : i <= Len(of.text)
    BY <1>1
  <2> QED
    BY <1>2, <2>1 DEF FormatTextSnapshot, LineOf
<1> DEFINE Chars == STRING \cup Symbols
<1>5. was \in Seq(Chars) /\ Symbols \subseteq Chars
  <2>0. was \in Seq(STRING) => was \in Seq(Chars)
    OBVIOUS
  <2>1. CASE of.row + 1 <= Len(of.text)
    <3>1. of.row + 1 \in 1..Len(of.text)
      BY <1>1, <2>1
    <3> QED
      BY <2>0, <2>1, <3>1, ElementOfSeq DEF LineOf
  <2>2. CASE ~(of.row + 1 <= Len(of.text))
    BY <2>2 DEF LineOf
  <2> QED
    BY <2>1, <2>2
<1> HIDE DEF was, Chars
<1>6. line[of.col + 1] = "[" /\ line[of.col + 3] = "]"
  BY ZenonT(30), <1>5, MarkedLineIs
<1>7. /\ Len(plain) = IF of.col < Len(was) THEN Len(was) ELSE of.col + 1
      /\ SubSeq(plain, 1, Len(was)) = was
  BY <1>5, UnmarkedIs
<1>8. Len(was) \in Nat /\ of.col + 1 \in Nat
  BY <1>5, LenProperties
<1>9. Max({Len(was), of.col + 1}) = IF of.col < Len(was) THEN Len(was) ELSE of.col + 1
  BY <1>8, MaxOfTwo
<1> HIDE DEF line, plain, shown
<1>10. Least(Len(was), Len(plain)) = Len(was)
  BY <1>7, <1>8 DEF Least
<1>11. Len(plain) = Max({Len(was), of.col + 1})
  BY <1>7, <1>9
<1>12. SubSeq(plain, 1, Least(Len(was), Len(plain))) = was
  BY <1>7, <1>10
<1> QED
  BY <1>3, <1>4, <1>6, <1>11, <1>12 DEF shown, was, plain
-----------------------------------------------------------------------------
(* What a client reads is the screen.                                       *)

\* An answer that shows a screen shows one of the session's, in the format asked for.
Viewed ==
    w.pc = "done" /\ w.reply.kind \in Outcomes =>
        w.reply.of \in Screens /\ w.reply.view = LiveView(w.reply.of, w.format)

VInv == EInv /\ Viewed

LEMMA ViewNow ==
    ASSUME EInv, NEW r, Answer(r),
           r.kind \in Outcomes => r.of \in Screens /\ r.view = LiveView(r.of, w.format)
    PROVE  Viewed'
<1>1. DOMAIN w = Fields /\ w' = [w EXCEPT !.pc = "done", !.reply = r]
  BY DEF EInv, OInv, Locals, Answer
<1>2. w'.reply = r /\ w'.format = w.format
  BY <1>1 DEF Fields
<1> QED
  BY <1>2 DEF Viewed

LEMMA ErrorShowsNothing ==
    ASSUME EInv, NEW code \in Errors, Answer(ErrorReply(code))
    PROVE  Viewed'
<1>1. ErrorReply(code).kind \notin Outcomes
  BY DEF ErrorReply, Errors, Outcomes
<1> QED
  BY <1>1, ViewNow

LEMMA ExitedShows ==
    ASSUME EInv, sess = "buried", ExitedSnapshotResponse
    PROVE  Viewed'
<1> DEFINE r == [kind |-> "exited", from |-> "tombstone", of |-> tombstone.screen,
                 view |-> TombstoneView(tombstone.screen, w.format),
                 complete |-> tombstone.complete, killed |-> tombstone.killed]
<1>1. Answer(r)
  BY DEF ExitedSnapshotResponse
<1>2. r.of = tombstone.screen /\ r.view = LiveView(tombstone.screen, w.format)
  BY DEF TombstoneView, LiveView
<1>3. tombstone.screen \in Screens
  BY DEF EInv, Ended, Evidence
<1> HIDE DEF r
<1> QED
  BY <1>1, <1>2, <1>3, ViewNow

LEMMA ViewedStep == ASSUME EInv, Viewed, Next PROVE Viewed'
<1>0. /\ DOMAIN w = Fields /\ w.pc \in Early \cup Busy \cup {"done"} /\ w.op \in {"snapshot", "wait_for"}
      /\ w.aim \in {"compare", "restart", "recheck", "capture"}
  BY DEF EInv, OInv, Locals
<1> DEFINE NotYet == w'.pc # "done"
           Failed == \E code \in Errors : Answer(ErrorReply(code))
           Exited == sess = "buried" /\ ExitedSnapshotResponse
<1>1. CASE World \/ Tick
  <2>1. w' = w
    BY <1>1 DEF World, Feed, Publish, CloseOutput, ChildExits, ResizeSession, KillRemove, KillDrained,
       CleanerDecides, FinalTombstone, Bury, Tick
  <2> QED
    BY <2>1 DEF Viewed
<1>2. CASE Request
  <2>1. NotYet
    BY <1>0, <1>2 DEF Request, Fields
  <2> QED
    BY <2>1 DEF Viewed
<1>3. CASE Resolve
  <2>1. NotYet \/ Failed \/ Exited
    BY <1>0, <1>3 DEF Resolve, Step, Errors, Fields
  <2> QED
    BY <2>1, ErrorShowsNothing, ExitedShows DEF Viewed
<1>4. CASE Observe
  <2>1. NotYet \/ Failed \/ Exited
    BY <1>0, <1>4 DEF Observe, FinalizedOr, Errors, Fields
  <2> QED
    BY <2>1, ErrorShowsNothing, ExitedShows DEF Viewed
<1>5. CASE SnapshotDeadline
  <2>1. NotYet \/ Exited
    BY <1>0, <1>5 DEF SnapshotDeadline, FinalizedOr, Capture, Fields
  <2> QED
    BY <2>1, ExitedShows DEF Viewed
<1>6. CASE WaitForTimesOut
  <2>1. Failed
    BY <1>6 DEF WaitForTimesOut, Errors
  <2> QED
    BY <2>1, ErrorShowsNothing
<1>7. CASE PollExit \/ LookForChange \/ SettleOrWait \/ Mark \/ WakeOnPublication \/ WakeOnDeadline \/ WakeFromSleep
  <2>1. NotYet
    BY <1>0, <1>7 DEF PollExit, LookForChange, SettleOrWait, Mark, WakeOnPublication, WakeOnDeadline,
       WakeFromSleep, Capture, Woken, Step, Fields
  <2> QED
    BY <2>1 DEF Viewed
<1>8. CASE WakeOnSenderGone
  <2>1. NotYet \/ Failed \/ Exited
    BY <1>0, <1>8 DEF WakeOnSenderGone, FinalizedOr, Woken, Errors, Fields
  <2> QED
    BY <2>1, ErrorShowsNothing, ExitedShows DEF Viewed
<1>9. CASE Look
  <2>1. Inspect
    BY <1>9 DEF Look
  <2>2. CASE w.aim = "capture"
    <3> DEFINE r == CaptureReply(LiveView(screen, w.format), "live", w.outcome = "exited", FALSE)
    <3>1. Answer(r) /\ r.of = screen /\ r.view = LiveView(screen, w.format)
      BY <2>1, <2>2 DEF Inspect, CaptureReply
    <3>2. screen \in Screens
      BY DEF EInv, Counted
    <3> HIDE DEF r
    <3> QED
      BY <3>1, <3>2, ViewNow
  <2>3. CASE w.aim # "capture"
    <3>1. NotYet \/ Failed
      BY <1>0, <2>1, <2>3 DEF Inspect, Changed, Errors, Fields
    <3> QED
      BY <3>1, ErrorShowsNothing DEF Viewed
  <2> QED
    BY <2>2, <2>3
<1> QED
  BY <1>1, <1>2, <1>3, <1>4, <1>5, <1>6, <1>7, <1>8, <1>9 DEF Next, Handler, World

LEMMA CursorIsMarked == ASSUME Viewed PROVE CursorMarked
<1> SUFFICES ASSUME w.pc = "done", w.reply.kind \in Outcomes, w.format = "text" PROVE CursorMarked
  BY DEF CursorMarked
<1> DEFINE of == w.reply.of
<1>1. of \in Screens /\ w.reply.view = LiveView(of, "text")
  BY DEF Viewed
<1>2. w.reply.view.text = FormatTextSnapshot(of)
  BY <1>1 DEF LiveView
<1>3. of.text \in Seq(Seq(STRING)) /\ of.row \in Nat /\ of.col \in Nat
  BY <1>1, ObservationAssumption
<1> HIDE DEF of
<1> QED
  BY <1>2, <1>3, TextMarksCursor DEF CursorMarked, of

LEMMA NewestLinesAreShown == NewestLinesShown
<1> DEFINE Lines == {<<>>, <<"a">>, <<"b">>}
<1> SUFFICES ASSUME NEW n \in 0..5, NEW rows \in 1..2, NEW gone \in LogLines(n), NEW visible \in LogLines(rows)
             PROVE  ShowsLines(RenderRetained(gone, visible),
                               TailOf(gone \o visible, ScrollbackRows + rows))
  BY DEF NewestLinesShown
<1>1. gone \in [1..n -> Lines] /\ visible \in [1..rows -> Lines]
  BY DEF LogLines
<1> HIDE DEF Lines
<1>2. gone \in Seq(Lines) /\ visible \in Seq(Lines) /\ Len(visible) = rows /\ Len(visible) # 0
  BY <1>1
<1> QED
  BY <1>2, NewestOutputShown

\* What a client reads is the screen, for any screens and any cursor, in every
\* order of output, resizes and the end of the session; and the readable form of
\* the output shows the newest lines up to the scrollback's bound, each once
\* (format_text_snapshot, render_retained_output).
THEOREM ScreenAlwaysRight == Spec => []ScreenReadRight
<1>1. Init => VInv
  BY EInit DEF VInv, Viewed, Init, Idle
<1>2. VInv /\ [Next]_vars => VInv'
  <2> SUFFICES ASSUME VInv, [Next]_vars PROVE VInv'
    OBVIOUS
  <2>1. CASE Next
    BY <2>1, ENext, ViewedStep DEF VInv
  <2>2. CASE UNCHANGED vars
    BY <2>2, ENext DEF VInv, Viewed, vars
  <2> QED
    BY <2>1, <2>2
<1>3. VInv => ScreenReadRight
  BY CursorIsMarked, NewestLinesAreShown DEF VInv, ScreenReadRight
<1> QED
  BY <1>1, <1>2, <1>3, PTL DEF Spec
=============================================================================
