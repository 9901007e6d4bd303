# Verification of pilotty

pilotty runs terminal programs for agents. A daemon owns the programs: each
*session* is a child process on a PTY, a terminal emulator fed with its output,
and a bounded tail of the raw bytes. A command-line client talks to the daemon
over a Unix socket, one request and one response per line. When a session ends,
the daemon keeps a *tombstone* of it for ten minutes so that its last screen and
output can still be read.

This directory holds TLA+ models of the daemon, TLC configurations that check
them on small instances, and proofs checked by TLAPS. Paths below are relative to
`src/crates/pilotty-cli/src/daemon/` unless they say otherwise.

## 1. Inventory

| Part | State it keeps | Operations | Hard about it |
|---|---|---|---|
| Retention ring (`retention.rs`) | bytes, capacity, total | append, snapshot, into_tail | boundary arithmetic, loss must be reported |
| Tombstone store (`tombstone.rs`) | map by id, insertion order | insert, get, newest_by_name, purge_expired | two structures in step, expiry, eviction, late insertions |
| Session manager (`session.rs`) | map of live sessions (RwLock), tombstones (Mutex) | create, kill, list, resolve, status, output, cleaner | check-then-act over several locks, kill against cleaner |
| One session's output (`session.rs`, `pty.rs`) | reader thread, channel of 64 chunks, pump task, ring, terminal, published pump state, exit observation | read, send, batch, feed, publish, terminate, drain, join or abort, capture | a thread, a task and two finalizers; EOF that may never come |
| One session's input (`pty.rs`, `server.rs`) | write channel, writer thread, write_shutdown | type, key sequences, click, scroll | blocked writers against a kill |
| Observation (`session.rs`, `server.rs`) | watch receiver, baseline hash, deadlines | snapshot with await-change and settle, wait-for, resize | coalesced notifications, exit while waiting |
| Server loop (`server.rs`) | listener, connection semaphore, idle clock, shutdown Notify | accept, handle_connection, idle shutdown, shutdown, kill_all | lost notification, idle decision against a new request |
| Daemon files and auto-start (`server.rs`, `client.rs`, `paths.rs`) | socket file, pid file | bind, liveness test, removal, start and wait | two starters, crash leftovers, removal of a successor's files |
| Request framing (`server.rs`) | bytes of a connection | read_line_bounded | lines cut into chunks |
| Protocol (`pilotty-core/src/protocol.rs`, `client.rs`) | version the client has seen | minimum_protocol of commands and responses | gate before and after execution |
| Input encoding (`pilotty-core/src/input.rs`) | none | encode_text, key names, mouse reports | escapes at the end of a text, aliases and modifiers |
| Terminal emulator (`terminal.rs`) | vt100 screen | feed, resize, text | third-party |
| Command line (`main.rs`, `args.rs`), errors (`error.rs`) | none | arguments to command, answer to exit code | exit codes that can be relied on |
| Types, npm wrapper, skills | none | | no logic of the daemon |

How they interact. A connection task reads one request and calls a handler; the
handler calls the session manager, which takes the lock of its session map and,
never while holding it, the lock of the tombstones. Only the cleaner task nests
them: tombstones first, then the map. A session's reader thread sends chunks
through a bounded channel to its pump task, which appends them to the ring, feeds
the terminal and publishes a `PumpState` through a watch channel. Kill and cleaner
read that state to decide that the output ended, join or abort the pump, capture
the tombstone and put it in the store. The drop of the session's last `Arc` kills
the child and sets the reader's flag.

What makes each part correct:

- ring: it holds exactly the newest output, and every copy reports its loss;
- store: map and order agree, never above capacity, nothing outlives the TTL, the
  newest insertion answers for a name;
- manager: names unique, at most 100 sessions, every session finalized once, no
  process left running without an owner (but for a spawn that fails half-way), no
  lookup misses evidence that is there, every request answered, ended sessions leave;
- output: no byte lost, repeated or reordered; the end announced after the last
  byte; evidence truthful; finalization bounded;
- input: what arrives at the program is what was asked for, in order; nobody stays
  blocked behind a session that is gone; an exit code says no more than is known;
- observation: what a waiter reports was so on the screen, and is reported in time;
- server: an idle stop spares sessions, a daemon that was told to end ends, and one
  that ends in order leaves no file;
- files: a call finds or starts a daemon unless it overlaps a cause for failing;
- protocol: no peer is sent what it cannot understand.

## 2. Modules

| Module | Models | Role |
|---|---|---|
| `SequenceParts` | what the code takes of a sequence: `drain`, `retain`, a tail | operators, shared |
| `Retention` | `retention.rs` arithmetic | operators, shared |
| `RetentionRing` | one ring over its life | state machine |
| `Tombstones` | `tombstone.rs` | operators, shared |
| `EvidenceShelf` | what the store promises | abstract specification |
| `TombstoneStore` | one store over time | state machine, refines `EvidenceShelf` |
| `SessionLifecycle` | what clients may count on about sessions | abstract specification |
| `SessionManager` | the registry, its requests and the cleaner | state machine, refines `SessionLifecycle`, uses `Tombstones` |
| `SessionOutput` | what one session's output promises | abstract specification |
| `OutputPump` | one session from PTY to tombstone | state machine, refines `SessionOutput`, uses `Retention` and `SequenceParts` |
| `ScreenText` | what a capture shows of a screen | operators, shared |
| `Observation` | snapshot and wait-for on one session | state machine with a clock, uses `ScreenText` |
| `Daemon` | daemon processes, their files, and the clients that find or start them | state machine |
| `Protocol`, `CommandLine` | versions, exit codes; command lines | operators, shared |
| `InputEncoding`, `Framing` | `input.rs`; request lines | operators, pure algorithms |
| `Requests` | one call from command line to exit code, the input path of its session | state machine, uses the four above |
| `SequenceParts_proofs` | | lemmas about sequences that the other proofs share |
| `RetentionRing_proofs`, `TombstoneStore_proofs`, `SessionManager_proofs`, `OutputPump_proofs`, `Observation_proofs`, `Daemon_proofs`, `Requests_proofs` | | theorems and their proofs |
| `MC*` | | values of the constants for TLC, bounded checks of the pure algorithms |

A definition introduced as *a fault* is not part of a specification. It is a form that a
plausible bug would give the definition after it, and is there to show that a property
notices the bug.

**SequenceParts, Retention, RetentionRing.** `ring` is the Rust struct; `RingAppend`,
`RingSnapshot`, `IntoTail` are its three operations, with `SatAdd` and `SatSub` for
the saturating arithmetic (`MaxCount` is `u64::MAX`). `stream` is a history of
everything appended. Byte counts of buffers are `usize` and cannot reach
`u64::MAX`; that is `CapacityAssumption`.

**Tombstones, TombstoneStore.** A store is the record of its fields. `Insert` is
purge, replacement of the same id, eviction loop, push; `PurgeExpired` runs at the
start of every operation as in the code. A tombstone's `endedAt` is taken before
the store's lock, so it may lie before `now` and out of insertion order.
`EvidenceShelf` says the same with one sequence of tombstones: Record, Find, Discard and
Pass, in terms of what is fresh (`FreshOnes`), the only one of an id (`Only`) and the last one
of a name (`LastOf`).

**SessionManager.** One action per lock section. `calls[c]` is the request task of
client `c` with the locals the Rust future keeps across awaits; `cleaner` is the
cleaner task.

| Code | Actions |
|---|---|
| `create_session_with_retention` | CheckSpawn, SpawnProcess or SpawnFails or HandleFails, InsertSession; the loser goes on to Terminate |
| `Session::shutdown` | Terminate, DrainToClose or DrainGivesUp, FinishShutdown |
| `kill_session` | KillRemove, (shutdown), KillCapture, KillBury |
| `resolve_session`, `resolve_evidence`, `session_status`, snapshot's exit path | Request, Retry, ReadTombstone, ReadEvidence, UseLive |
| `spawn_cleaner` | CleanerScan, CleanerFinish, CleanerCapture, CleanerLock, CleanerPublish, CleanerPurge |
| outside | ProcessExits, OutputCloses, DrainElapses, Tick |

`TombstonesFree` is the tombstones' mutex: the cleaner is the only one to await
(the map's write lock) while holding it. The map's lock is never held across an
await, so it needs no variable. A request for a UUID the client cannot know yet is
not made. The unnamed session of the code does not occur: `name` is always set
(`session.rs:528`). A failing `try_wait` in the scan (a skipped session) is left
out: it is the scan finding nothing for that session. `"input"` stands for type, key,
click, scroll, resize and wait-for: resolve, then use or give up; what they do to
the session is in `Requests` and `Observation`.

A spawn can fail before the child is started (SpawnFails) or after it, when the terminal gives
no reader or no writer (HandleFails; `session.rs:551`, `pty.rs:128`). In the second case the
`PtySession` is dropped, which closes the terminal but kills nobody, and the child may run on.
`NoOrphanProcess` names it as its one exception: it never had a session, so it never has a name.

**OutputPump.** Bytes are numbered, so a lost or reordered byte shows. The reader
thread's three blocking points, the pump's awaits and the finalizer's steps are
actions; feeding the terminal and publishing are one action because nothing can
come between (an abort only takes effect at an await). Which finalizer gets the session is
`SessionManager`'s question; here it is one of them, at any time. `DropHandle` is the
drop of `AsyncPtyHandle`. ReaderEof stands for the end of
file and for `EIO`, as Linux reports it; other read errors (`pty.rs:255`) end the reader as well and are
left out. The kernel's PTY buffer is `pty`; the direct child and a
descendant hold the terminal open. `SessionOutput` says what comes of it without thread, channel,
task and finalizer: Record and Show take turns until Announce or CutOff, each with its reason,
and Conclude takes the evidence, once, of what stands then. The refinement (`Promise`) reads its state
off the history variables; the stage is announced when the closing is published, cut off when the pump is
aborted (`Stage`).

**Observation.** `w` is the future of the one request: its program counter and the
locals it keeps (baseline, `last`/`since` of the settle phase, what its receiver has
seen). The watch channel is the counter `version`. `SessionObserver::current` is Mark
and then Look, in the code's order; `aim` says who called it.

| Code | Actions |
|---|---|
| `handle_snapshot` | Resolve, Observe, PollExit, SnapshotDeadline, LookForChange, SettleOrWait, Mark and Look |
| `handle_wait_for` | Resolve, Observe, LookForChange, Mark and Look, WaitForTimesOut, WakeFromSleep |
| `wait_for_update` | WakeOnPublication, WakeOnSenderGone, WakeOnDeadline |
| `run_output_pump` | Feed, Publish, CloseOutput |
| `kill_session`, the cleaner | KillRemove, KillDrained, CleanerDecides, FinalTombstone, Bury |
| `resize_session` | ResizeSession |

Feed and Publish are two steps because the pump sends after it has unlocked the
terminal and a request can look in between. Time is a clock that moves only when
neither the request nor a pump about to publish can go on, so a tick is as long as a
task needs at most to be polled. `lastTick` and `steady` remember what the screen was
at ticks; properties about rest and change are stated over them, since a change between
two ticks may rightly go unseen. At most one resize happens, and properties that
a resize would break by design (it publishes nothing) leave it out by `resized`.
A pattern is the set of texts it matches, the hash is the text.

**Daemon.** `server[d]` is the program counter of daemon process `d`; a daemon bears the
name of the client that starts it, and `Elder` is one from before that serves, has
crashed leaving its files, or never was.

| Code | Actions |
|---|---|
| `bind_to` | BindFirst, CheckAlive, UnlinkStale, BindAgain, WritePid or WritePidFails |
| `run` | Accept, Reap, LoopAgain, ShutdownNotified, DrainDone or DrainTimeout |
| `run_daemon` | Signalled |
| `Drop for DaemonServer` | DropSocket, DropPid |
| `spawn_idle_shutdown_task` | LookAtSessions, LookAtPermits, IdleList, IdleKill, IdleNotify |
| `handle_shutdown` | StopList, StopKill, StopNotify |
| `handle_connection` | Handle, TaskEnds |
| `connect`, `start_daemon`, `wait_for_daemon`, `exchange` | Connect, StartDaemon, PollDaemon, StartTimeout, ConnectionClosed, RequestTimeout |
| outside | Crash, PidReused, SessionEnds |

`notified` belongs to the `Notified` future of the select: it is lost with the select
when another arm is taken, and `NotifyWaiters` reaches only a loop that is in its
select. `Disturb` records for each call whether it overlapped one of the causes listed in
`Unsettled`, or a crash, or a pid that could not be written; it is what `FailureHasCause` speaks about.
`late` remembers the sessions that were added when their daemon's monitor had taken its last look at the
sessions and not yet listed them; it is what `IdleSparesSessions` speaks about. One crash or one failed
write of a pid (`NoneBroken`), and one reused pid, happen at most. A daemon that cannot write its pid
ends without a `DaemonServer` to drop, so its socket stays.

**Requests, with Protocol, CommandLine, InputEncoding, Framing.** A client's line of
arguments is parsed, checked against the daemon's version, sent, handled and answered.
`client[c]` is the command-line process, `task[c]` the daemon's task for it.

| Code | Actions |
|---|---|
| `run_client_command`, `ensure_protocol`, `request` | Examples, Decide, ProbeAnswered, Receive, TimeOut |
| `handle_request` | Gate, then the handlers, `Understood` at their end |
| `handle_type`, `handle_key`, `handle_click`, `handle_scroll` | Resolve, Look, Write, Send or SendRefused, DelayOver |
| `handle_resize` | Resolve, ResizeTerminal, ResizeEmulator |
| `handle_kill` | Resolve, KillRemove, Terminate, KillBury |
| status, output, snapshot, list | Report |
| `AsyncPtyHandle::write`, `writer_loop` | Send, SendRefused, WriterTakes, WriteAfterExit |
| outside | ProgramReads, ChildExits, CleanerBuries, ModeChanges, OlderDaemonAnswers |

The bytes are those of `input.rs`: what is queued is `InputOf` the command that was
parsed, in the mode and for the size the handler looked up; `ParseKeySequence`,
`EncodeText` and the mouse reports are functions, checked by themselves over bounded inputs
as well (`TextAsTyped`, `KeysAsNamed`; that different keys send different bytes is said of keys
without modifiers). `EncodeText` goes from token to token: `TokenAt` is one
round of the loop over the peekable characters, what it writes and how many it takes. The decimal numbers of a mouse report count as one byte each, as do
characters above U+07FF as what their shorter encodings do. A resize that the terminal refuses leaves
the emulator as it is. The program switches application cursor mode on and off as it likes, while keys are
under way (`KeysUnderWay`; no other command reads it). A daemon or client of an
older version is external. `Framing` is `read_line_bounded` and the loop of
`handle_connection`, as functions of a stream and the places where it is cut.

`ExitCodeTruth` says what an exit code means of what the daemon answered: 3 that a strict snapshot's
answer says "deadline". That the deadline was then really met is a question of the waiting, and
`Observation`'s.

## 3. Checks

| Run | Question | Bounds | Distinct states |
|---|---|---|---|
| RetentionRing | does the ring hold the newest output and report its loss | 2 byte values, stream 6, batches 1..4, capacities 0..3, tail 2, counter saturates at 5 | 508 |
| TombstoneStore | coherence, refinement of the shelf | 3 ids, 2 names, capacities 0..2, TTL 2, clock 0..3 | 13,824 |
| SessionWriters | who owns a session while it is made and ended | 2 clients that spawn and kill, 2 ids, 2 names, limit 2, one tombstone | 1.9 M, symmetric |
| SessionReader | do lookups miss evidence | a writer and a reader, 2 ids, 1 name, clock 0..1, TTL 1 | 4.1 M |
| SessionRivals | limit; refinement of the life cycle; liveness | two spawners, one of which also kills, limit 1, one tombstone | 290 k |
| OutputPump | output and evidence, safety and liveness | 6 bytes, reads of 1..2, channel 2, batch 3, ring 3, tail 2, kernel buffer 3 | 61 k |
| Observation | is what a waiting request answers so, and in time | 3 screens, 2 batches, timeout 2 ticks, settle 0 or 1, one resize, one baseline or none; patterns one text; a scrollback of 3 lines against up to 5 that scrolled off, of 3 kinds, on 1 or 2 rows | 1.5 M |
| Daemon | do calls find a daemon, do daemons end and clean up | 2 clients (spawn or wait; spawn or stop), a daemon from before, 1 connection, 2 looks until idle, 1 crash or failed write of a pid, 1 reused pid | 1.7 M |
| Requests | versions, input, exit codes, resize, kill | 2 calls, 9 with input or resize, one of them beyond the limit of delays and one of wheel turns, against 9 of any kind; modes change while keys are under way; 5 mixes of versions; write channel 1, 2 keys, 2 wheel turns; strings up to 3 bytes, each spelled both ways, texts up to 5 of 6 characters; streams up to 5 bytes, lines up to 3 | 1.2 M |
| SessionKillWindow, WaitForMisses, DaemonDisplaced | three statements of the documentation | as SessionReader, Observation, Daemon | violated |

Why the bounds are enough. The ring's code compares two lengths with the capacity;
capacities 0..3 with batches 1..4 give shorter, equal and longer for each
comparison, and the proofs cover the rest. The store's decisions depend on who is
expired, who is oldest and whether it is full: three ids fill, overflow and refill
a store of two. In the registry every race in the code is between two requests, or a
request and the cleaner, over one session or one name; two clients and two ids
contain each of them. In
the pump, a chunk that does not fit the batch, a full channel, a full kernel buffer
and a ring that overflows all occur with these sizes (`ReadMax <= BatchMax` as in
the code: 4096 and 1 MiB). A request that observes is concerned with one change missed and
another that comes after it, a deadline that falls between the two, and the end of
output on top: two batches, a timeout of two ticks and a poll interval that does not
fit what is left of it. Daemons race in pairs, over one socket and one pid file; the third, from
before, is the one whose leavings they race for. One connection permit makes the limit
bite at the second client. In `Requests` a channel of one chunk is full behind a
writer that waits for the program, and a third write blocks; the second call ends or
resizes the session at each of these points.

Deadlock is checked in the SessionManager runs. It is off elsewhere: streams and clocks
are bounded, and a finished session, an answered request, a made call and an ended daemon
rightly stop.

Fairness. `SessionManager`: a request task that can go on does (tokio polls
runnable tasks and its locks are fair), the cleaner wakes, and the one-second timer
fires. Nothing is assumed of child processes, of when output ends, or of when
clients send requests. `OutputPump`: reader thread, pump and a started finalization
go on; a child that was sent SIGKILL dies. Nothing is assumed of descendants or of
when anybody ends the session. `Observation`: the request's task and a pump that is about to
publish go on, and time passes; nothing of output, child, kill or cleaner.
`Daemon`: a daemon binds, loops and ends when it can, a client goes on, and the
deadlines for starting, requesting and draining pass; nothing of signals, crashes, the idle monitor,
or a handler that waits. `Requests`: tasks and the writer thread are scheduled, and the
program reads its input while it runs.

What each new liveness property rests on: `RequestAnswered` on the deadline being looked at
in every round, also after the end of output; `CallsReturn` on `wait_for_daemon`'s five
seconds and `exchange`'s thirty; `ShutdownsEnd` on the limit of the drain;
`KillFreesInput` on `write_shutdown` being part of the wait for room;
`AcceptedInputArrives` on the writer thread's loop.

### What the violated statements show

- *SessionKillWindow.* `kill_session` removes the session from the map
  (`session.rs:627`), drains its output for up to a second and only then inserts
  the tombstone (`session.rs:635`). In between, `status`, `output` and `snapshot`
  answer `SESSION_NOT_FOUND`, which the README reserves for unknown, expired or
  evicted sessions. The cleaner does not have this window: it holds both locks.
- *WaitForMisses.* A watch channel keeps only the newest state. When the last batch and
  the end of output coalesce, `wait_for_update` says `OutputClosed`, and `handle_wait_for`
  sleeps for the rest of its time without another look (`server.rs:1742`). It then
  reports a timeout and says that the pattern was not found (`server.rs:1702`), though it is on the
  screen. `handle_snapshot` looks again.
- *DaemonDisplaced.* Two daemons start at once. One has bound and not yet written its pid
  (`server.rs:102-105`); the other finds the address in use, its check of the pid file
  (`server.rs:110`) finds none, so it takes the first for dead and removes its socket
  (`server.rs:144`). The first lives on unreachable. The comment (`server.rs:94`) says that
  writing the pid right after `bind` closes this window; it makes it small.

### Other behaviour met on the way

No run states these; the repository promises nothing definite about them, and each
follows from the actions named.

- `output` and the live-only requests do not resolve again when the cleaner finalized
  the session in between (`session.rs:771`), as `session_status` does (`session.rs:743`):
  they answer not found although the tombstone is there (UseLive).
- A killed session's output is called complete when the channel closed because the reader
  left on the shutdown flag, without EOF (`pty.rs:235`; ReaderCheck). `EndIsWhole` shows that
  the flag can be trusted for natural exits.
- `wait-for` that sleeps after the end of output measures the sleep from an earlier
  moment than its start, and can answer later than its timeout (WakeFromSleep).
- A resize changes the screen without publishing, so no waiter wakes for it
  (ResizeSession). Two resizes at once can leave the terminal and the emulator with different
  sizes, since only the emulator is locked (`session.rs:797`; `raced` in `Requests`).
- Once an outcome is decided the screen is captured anew (`Capture`): the reply to
  "settled" or "changed" may show a later screen than the one it was decided on.
- A snapshot whose pump is aborted by a kill, before there is a tombstone, is told to
  restart the daemon (WakeOnSenderGone, `pump_failed`).
- A stop notified while the accept loop is in another arm is lost: the sessions are dead,
  the daemon goes on (NotifyWaiters, `server.rs:1782`).
- A daemon that ends late removes the files of its successor (DropSocket); a
  foreign process under a dead daemon's pid makes it look alive (IsDaemonAlive); a client whose
  daemon lost the race to bind gives up although the winner is about to answer
  (PollDaemon). All three are causes in `Unsettled`.
- The idle monitor looks at sessions, permits, sessions and permits again, and then lists the
  sessions to kill. A session whose spawn is handled between the second look at the sessions and the
  listing is killed (LookAtPermits, IdleList); `IdleSparesSessions` shows that this is the only way.
- A child whose handle cannot be made after it was started is left to itself (HandleFails).
- A daemon that cannot write its pid ends and leaves its socket; the next start takes it for
  stale and removes it (WritePidFails).
- The readable form of the output goes back 10,000 lines and no further (`Scrollback`), whatever the
  ring still holds; its replay starts at the ring's oldest byte, wherever in a line or an escape that is.
- After the client's thirty seconds the daemon's task goes on and input may
  still arrive (TimeOut), also when the command asked for a longer wait.
- Input that waits for room in a full channel is freed by a kill, but not by a natural exit while a
  descendant holds the terminal and reads nothing (SendRefused, WriteAfterExit).
- `\x` followed by a backslash takes that backslash with it; `\x+d` is a
  hexadecimal escape (HexAt, HexByte); of `a+b` only `b` is sent (KeyPart).


## 4. Proofs

TLC shows the properties on the instances above; these theorems hold for every value
of the constants. None of the invariants is inductive alone, so each module first proves
a stronger one (`RingInv`, `Coherent`, `IInv` and `LookInv`, `PumpInv`, `OInv`, `EInv` and `VInv`,
`DInv`, `RInv` and `CInv`), which Init establishes and every step keeps, with a lemma or a
named step per action.

| Module | Theorems (property) | Assumes |
|---|---|---|
| `RetentionRing_proofs` | RingKeepsNewest (NewestKept), RingReportsLoss (LossReported) | CapacityAssumption, MaxCountAssumption |
| `TombstoneStore_proofs` | StoreIsCoherent (Coherent), StoreImplementsShelf (ImplementsShelf) | TombstoneStoreAssumption |
| `SessionManager_proofs` | RegistryTypes, NamesAreUnique (UniqueNames), FinalizedOnce (OneOwner), ProcessesOwned (NoOrphanProcess), TombstonesAreTrue (TombstoneTruth), LimitHolds (SessionLimit), EvidenceIsNotMissed (EvidenceNotMissed), RegistryImplementsLifecycle (ImplementsLifecycle) | SessionManagerAssumption |
| `OutputPump_proofs` | OutputIsConserved (BytesConserved), EvidenceIsTruthful (EvidenceTruthful), WhatIsCalledCompleteIs (EndIsWhole), OutputKeepsPromise (ImplementsOutput) | OutputPumpAssumption, MaxCountAssumption |
| `Observation_proofs` | DeadlineAlwaysKept (DeadlineKept), NoChangeMissed (ChangeReported), SettledAlwaysStable (SettledWasStable), ExitAlwaysTrue (ExitedIsTrue), ScreenAlwaysRight (ScreenReadRight), NewestOutputShown | ObservationAssumption, ScrollbackAssumption |
| `Daemon_proofs` | FailureAlwaysCaused (FailureHasCause), CleanExitAlways (CleanExitLeavesNothing), IdleAlwaysSpares (IdleSparesSessions) | DaemonAssumption |
| `Requests_proofs` | VersionsAlwaysRespected (VersionsRespected), RefusalsAreFree (RefusedDidNothing), SizesAlwaysAgree (SizesAgree), InputAlwaysWritten (InputAsWritten), ExitCodesTrue (ExitCodeTruth), RequestsAlwaysAsSent (RequestsAsSent), EveryStreamReceived, TextAlwaysAsTyped (TextAsTyped), EveryByteTyped, LiteralAsTyped | RequestsAssumption, FramingAssumption, InputAssumption |

What the assumptions say beyond the kind of each constant. `OutputPumpAssumption`: a read
is no longer than a batch (4096 bytes and 1 MiB), and no session writes `u64::MAX` bytes.
`SessionManagerAssumption`: what stands for no id, no name and no tombstone is none, and no name is
an id (ids are fresh UUIDs; `Ids \cap Names = {}`).
`RequestsAssumption`: client or daemon is of the modelled version; the command lines are of any
command but `spawn`, `wait`, `stop` and `daemon`, which `SessionManager`, `Observation` and `Daemon` follow,
so the minimum version that a spawn has with `--retain-bytes` (`protocol.rs:173`) stays out of the runs
and theorems of `Requests`; a line's keys are
sequences of parts, as the model writes a string of keys, and its amounts unsigned, as in
`args.rs`; what stands for no
answer is none. `ObservationAssumption`: a screen is lines of characters with a cursor at natural
coordinates, on the screen or not. `ScrollbackAssumption`: the bound of the scrollback is a natural number.
`FramingAssumption` and `InputAssumption` only say that streams
and texts are sequences of what the model calls bytes and characters, and bound no length.

**SequenceParts.** The model takes what `retain` keeps as a set of places (`Selected`, by
the `Place` of each) and not as the library's `SelectSeq`, whose recursive
definition the provers cannot use. `PlacesAreNumbered` and
`SelectedProperties` say that the elements selected are those, once each and in order.

What a recursive function computes comes from induction over a set of numbers (`SetInduction`,
`StrongInduction`, from `LeastNumber`), which unlike the library's induction theorems takes no operator: a
function that solves the recursion is exhibited, or built by induction; an induction shows that
there is no other; so the `CHOOSE` behind the definition is that function. `FlattenSeq` is used this
way (`FlattenExists`, `FlattenIs`), and the laws the other modules cite follow from it:
`FlattenAppend`, `FlattenHeadTail`, `FlattenSkip`.

**RetentionRing.** `RingInv`: the types hold, the ring is the tail of the stream of its
capacity, and the counter is the saturated length of the stream. This is
inductive because `append` depends on the ring only through its bytes;
`AppendKeepsTail` is the step: cutting what was cut before, plus the new output,
is cutting the whole stream. It splits like the code into a batch that fills the ring
(`LongOutput`) and one that does not (`ShortOutput`). What a tombstone keeps, and that its loss
is reported, use that a tail of a tail is a tail (`TailOfTail`).

**TombstoneStore.** `Coherent` says of the store that its order lists the id of every entry
once, under an entry of that id and an end that is not in the future (`Filed`, in the
lemmas, of a store passed along between operations). Each part of `insert` keeps that:
`PurgeFiles`, `ReplaceFiles`, `MakeRoomFiles`, `PutFiles`. The shelf is the order looked
up in the entries (`OnShelf`), and one lemma per operation says what the store's operation is
on the shelf (`PurgeOnShelf`, `ReplaceOnShelf`, `GetOnShelf`, `NewestOnShelf`); every
step is then a step of `EvidenceShelf` (`StepsOnShelf`). A store that evicts until it is under capacity
drops exactly the oldest (`EvictedIs`).

**SessionManager.** `IInv` adds what the code relies on without saying it:

- `CallsOK`, `Alone`: a request between insert and bury (`HoldingPcs`) has its session to
  itself: it is in neither map, and no other request has it;
- `CleanerOK`: what the cleaner took from its scan (exit seen, output closed or drain
  over) still holds when it publishes, because such facts never become false
  (`Grows`, `TruthLasts`, `WorkLasts`);
- `RegistryOK`: map and store are disjoint, and their sessions were spawned.

`CallStep` and `WorldStep` do the common part of the actions that hand over no session, and
`InsertAdds`, `PurgeShrinks` say what the store's operations leave of its entries. The
limit is a second, small induction on the first, with cardinalities
(`LimitKept`): every step but `InsertSession` shrinks the map.

`EvidenceNotMissed` speaks of what a client could know when it asked and of what it is told
many steps later. `LookInv` bridges them: `Paths`, the program points each operation
passes, and `KnownOK`, what follows from being at one of them about every session the request
was to find. It is carried by facts that once true stay true (`Born`, `Left`; `BornLasts`,
`LeftLasts`): a session that a lookup did not see in the map has left it, and its tombstone was
stored in the same lock section or is somebody's to bury.

The refinement of `SessionLifecycle` has a lemma per kind of step: `AdmitStep`, `AbandonStep`,
`KillStep`, `ExitMaps`, `BuryStep`, `PublishStep`, `ForgetfulStep` for the steps that only drop
tombstones, `QuietStep` for those that change nothing a client may count on.

**OutputPump.** A byte on its way is in one of five places: the kernel's buffer, the
reader's chunk, the channel, the pump's pending chunk, its batch. `BytesConserved` says that what was
appended to the ring, followed by these, the batch first, is what was written, unless the
pump was aborted. A step moves a piece over one border
or none (`ReadMoves`, `SendMoves`, `ReceiveMoves`, `RetainMoves`), so it follows from the
associativity of concatenation and two laws of `FlattenSeq` (`FlattenAppend`,
`FlattenHeadTail`). `PumpInv` adds what each place can hold when (`Filled`), that the screen
follows the ring by a batch at most and the published state the screen (`Followed`), that
the ring is the tail of what it was given (`Kept`), what an end seen by reader or pump implies (`Ended`), and what the finalizer has
captured (`Finalized`).

The refinement of `SessionOutput` needs one more invariant, `Stopped`: a pump that is done has announced
the end, whoever captures has waited for the pump, and whoever finalizes was told to or has seen the program
exit. Then PumpRetain is Record, PumpFeed is Show, PumpPublishClosed is Announce (its reason is
`WholeAtEnd`, or the flag), AbortPump of a pump that still runs is CutOff, Capture is Conclude, and
reader and channel stutter (`OthersKeepPromise`). `EvidenceTruthful` and `EndIsWhole` say what each
state shows; the refinement adds what no single state does: that an end is final.

**Observation.** `OInv` says which of the request's locals go together at which point
(`Locals`, `Numbers`); that a snapshot at work is not past its deadline and sleeps
no longer (`Timely`); that while it awaits a change with nothing published that it has not marked
(`AllSeen`), the screen is its baseline, and so was every screen that stood for a tick
(`Unchanged`); and the same of the text that has to come to rest, together with the time
it really has stood (`Settling`). The first two carry the last two: Mark comes before Look,
so what is published in between is seen afterwards.
`EInv` adds who ends the session and with what: the output is closed once the pump
has returned (`Counted`), a tombstone that is called complete was captured after that
(`Ended`), and "exited" is answered from such a tombstone or after the
exit and the end of output (`Said`).

`ScreenReadRight` speaks of what is shown. `Viewed`, the third induction, says that a
view is the text and the cursor of one screen the terminal had; `TextMarksCursor` that
the text with its cursor marked is that screen again when the mark is taken out (`MarkedLineIs`,
`UnmarkedIs`, column by column, with the cursor inside the line, behind it and below the text). For the
lines that have scrolled off, `ScrollingIs` shows that what the loop over shrinking
offsets has collected at each offset are the newest that many of them: `ScrollingExists` gives the solution of
the recursion, an induction over the rows left says there is no other. `NewestOutputShown` is the
result, for a history of any length, a screen of any height and any bound of the scrollback: the newest
`ScrollbackRows` lines that scrolled off and then the screen, each once and in order, which by `TailOfJoined`
are the newest of all lines. What scrolled off before them is lost.

**Daemon.** `DInv` says who has bound and who may remove which file (`FilesOwned`),
what the idle monitor's looks have seen (`Spared`: past its last look, the sessions of its daemon
are those that came `late`), and, for every call that is on its
way, that there is a daemon which will answer it, or one coming up, or a recorded
cause (`Expected`, of `Owed`, `Coming` and `Caused`). The key lemma is
`CalmOrDisturbed`: a step either leaves the daemons a call counts on as they are, or is
recorded by `Disturb`.

**Requests.** `RInv` says that a command on its way was checked against a
version its daemon really speaks (`Observed`, `Known`), that what a handler has
answered its client can read (`Readable`), that a request which may still be refused has typed
nothing (`Fresh`), and that terminal and emulator differ in size only while one resize is between its two
halves, unless two raced (`OneResize`). `UnderstoodIsReadable` is the code's
last check; `PlainIsKept` shows that answers every version understands pass it.

`CInv` is the second induction, on the first. `Carried` says of each call with input that there is a
mode the screen had, and a size, for which what the handler has left to send
is the rest of the input the command stands for after what it has queued, and that
what of it was read by the program, is held by the writer thread (`writer.hand`)
and waits in the channel is a prefix of that, all of it while the program runs. `FromAppended` and `FromGrows` say
what one call's share of the common pipe becomes when something is added. For the exit
codes, `Answered` says that what an answer reports has happened, `Told` that the exit code is
the one of the answer; `AtWork` and `Over` say at which points a task is whose, and
that who finds or buries a tombstone has seen the program end.

*Lines.* `RequestsIn` and `EndOf` say what a stream says without mentioning chunks: its lines, up to the
first that is too long or not UTF-8, trimmed, the empty ones left out. `ReadLineIs` shows that the
loop over chunks stops where the line ends or exceeds the limit, wherever it is cut (`ScanExists`
and `ScanIs`, by induction over the bytes left). `RequestsUnfold` takes the first line
off `RequestsIn`, with `PlacesFollow` for the numbering of the rest; then `ServesExists` and `ServesIs` say of
the loop of `handle_connection` that it delivers them. `EveryStreamReceived` holds for
every stream, every cutting and every limit.

*Texts.* `EncodeText` is a recursion whose step depends on what it reads, one to four characters
at a time (`TokenAdvances`), so its solution is not written down but built from the end of the
text by induction (`EncodesExists`). `EncodedShifted` says that what a text says from a place on does not depend
on what stands before; each spelling of a byte is one token
whatever follows (`HexIsToken`, `ShortIsToken`); so a spelled byte in front puts that byte in front
(`EncodeAfter`), and the round trip `EveryByteTyped` follows by induction over the bytes, for every choice of which
of them are spelled in hexadecimal. `LiteralAsTyped` is the other direction: without an escape, a
text is its UTF-8.

Only model-checked:

- the liveness properties and what they assume of fairness, which the prover does not reach;
- `KeysAsNamed`: what the names of keys, the modifiers and the mouse send are finite tables. TLC
  goes through every entry of them, so a proof would not say more. `InputAlwaysWritten` takes
  the bytes of a command as `InputOf` defines them and is about their way to the program;
- the statements that the code violates.

## 5. Not modelled, and the plan

- The vt100 emulator is third-party; its screen is a value that output replaces.
- `handle_spawn`'s checks of arguments and working directory (`server.rs:654`) end before
  any state changes; the choice of directories (`paths.rs`) and the refusal of
  symbolic links and foreign files by `bind_to` are one-off tests of the file system.
- A pattern is the set of texts it matches; compiling it either works or ends the request.
- Connections that end by an I/O error (`server.rs:441-444`, `524-532`): `Framing` reads streams that
  end or are closed; and errors of the terminal other than its end (`pty.rs:255-258`).
- The versioned spawn in `Requests` (`protocol.rs:173-176`).
- Printing, help texts, wording of errors; the npm wrapper, skills, scripts and workflows.

What could come next: that a handler in `Requests` sees of a session what a request in
`SessionManager` sees; one instance that composes `Observation` with the registry, so that the
session a waiter has is replaced by one of the same name; and `Observation`'s pump as a
refinement of `SessionOutput`, with batches for screens.
