--------------------------- MODULE SessionManager ---------------------------
(***************************************************************************)
(* The daemon's session registry (daemon/session.rs): the map of live      *)
(* sessions behind its RwLock, the tombstone store behind its Mutex, the   *)
(* requests that spawn, kill and look up sessions, and the cleaner task    *)
(* that finalizes sessions whose process ended.                            *)
(*                                                                         *)
(* A request is a tokio task: between two of its awaits any other task may *)
(* run, so every lock it takes is a step of its own.  Locks held without   *)
(* an await inside are one step; the only lock held across an await is the *)
(* cleaner's on the tombstones (it then waits for the session map), and    *)
(* TombstonesFree is its guard for everybody else.                         *)
(*                                                                         *)
(* Abstracted: the PTY and its output (OutputPump.tla) to whether the pump *)
(* runs and has published the end of output; the wall clock to a coarse    *)
(* one for the tombstones' TTL; the one-second drain deadline to an event. *)
(***************************************************************************)
EXTENDS Tombstones

CONSTANTS
    Clients,         \* connections, one request at a time each
    Ids,             \* the UUIDs the daemon draws from; one per spawn
    Names,           \* session names ("default" is one of them)
    NoId, NoName,
    MaxSessions,     \* MAX_SESSIONS
    TombCapacity,    \* TOMBSTONE_CAPACITY
    MaxTime,         \* bound: last tick of the clock
    OpsOf            \* the requests each client makes

Tombstone == [id : Ids, name : Names, endedAt : 0..MaxTime, complete : BOOLEAN,
              killed : BOOLEAN, exitKnown : BOOLEAN]

ASSUME SessionManagerAssumption ==
    /\ NoId \notin Ids /\ NoName \notin Names /\ Ids \cap Names = {}
    /\ NoTombstone \notin Tombstone
    /\ MaxSessions \in Nat \ {0}
    /\ TombCapacity \in Nat \ {0}
    /\ TombstoneTTL \in Nat \ {0}
    /\ MaxTime \in Nat
    /\ OpsOf \in [Clients -> SUBSET {"spawn", "kill", "status", "snapshot", "output", "input"}]

VARIABLES
    sessions,        \* ids in the session map
    name,            \* the name each session was given when it got its handle
    process,         \* the direct child of each spawn
    exitSeen,        \* its process_exit: not observed, observed, observed 1s ago
    pumping,         \* its output pump task still runs
    outputClosed,    \* its pump published the end of output
    store,           \* the tombstone store
    now,             \* the clock the TTL is measured on
    calls,           \* the request each client is in
    cleaner          \* the cleaner task

runtime == <<name, process, exitSeen, pumping, outputClosed>>
vars == <<sessions, name, process, exitSeen, pumping, outputClosed,
          store, now, calls, cleaner>>

\* "input" stands for type, key, click, scroll, resize and wait-for: resolve
\* the session, then use it.  The others fall back on a tombstone.
EvidenceOps == {"status", "snapshot", "output"}
LookupOps == EvidenceOps \cup {"kill", "input"}

IdleCall ==
    [pc |-> "idle", op |-> "none", ident |-> NoId, id |-> NoId,
     retry |-> FALSE, complete |-> FALSE, tomb |-> NoTombstone, reply |-> "none"]

IdleCleaner ==
    [pc |-> "sleep", work |-> {}, id |-> NoId, complete |-> FALSE, tomb |-> NoTombstone]

Init ==
    /\ sessions = {}
    /\ name = [id \in Ids |-> NoName]
    /\ process = [id \in Ids |-> "none"]
    /\ exitSeen = [id \in Ids |-> "no"]
    /\ pumping = [id \in Ids |-> FALSE]
    /\ outputClosed = [id \in Ids |-> FALSE]
    /\ store = EmptyStore(TombCapacity)
    /\ now = 0
    /\ calls = [c \in Clients |-> IdleCall]
    /\ cleaner = IdleCleaner

At(c, pc) == calls[c].pc = pc
Ready(c) == At(c, "idle")

\* The call goes on at pc; the call is answered and the client free again.
Goto(c, call, pc) == calls' = [calls EXCEPT ![c] = [call EXCEPT !.pc = pc]]
Answer(c, reply) == calls' = [calls EXCEPT ![c] = [IdleCall EXCEPT !.reply = reply]]

TombstonesFree == cleaner.pc # "publish"

\* try_wait finds a child that has exited; the first observation is kept.
ObserveExit(ids) ==
    exitSeen' = [id \in Ids |-> IF id \in ids /\ process[id] = "exited" /\ exitSeen[id] = "no"
                                THEN "seen" ELSE exitSeen[id]]

FinalTombstone(id, complete, killed) ==
    [id |-> id, name |-> name[id], endedAt |-> now, complete |-> complete,
     killed |-> killed, exitKnown |-> exitSeen[id] # "no"]
-----------------------------------------------------------------------------
(* Spawn: check under the read lock, spawn with no lock, check again under  *)
(* the write lock; the loser of a race shuts its process down again.        *)

\* A fault: the names of live sessions are not looked at.
RefusalIgnoringNames(n) ==
    IF Cardinality(sessions) >= MaxSessions THEN "limit" ELSE "none"

Refusal(n) ==
    IF Cardinality(sessions) >= MaxSessions THEN "limit"
    ELSE IF \E id \in sessions : name[id] = n THEN "duplicate" ELSE "none"

CheckSpawn(c, n) ==
    /\ Ready(c)
    /\ LET call == [IdleCall EXCEPT !.op = "spawn", !.ident = n]
       IN  IF Refusal(n) = "none" THEN Goto(c, call, "spawn")
           ELSE Answer(c, Refusal(n))
    /\ UNCHANGED <<sessions, runtime, store, now, cleaner>>

SpawnProcess(c) ==
    /\ At(c, "spawn")
    /\ \E id \in Ids :
        /\ process[id] = "none"
        /\ process' = [process EXCEPT ![id] = "running"]
        /\ name' = [name EXCEPT ![id] = calls[c].ident]
        /\ pumping' = [pumping EXCEPT ![id] = TRUE]
        /\ Goto(c, [calls[c] EXCEPT !.id = id], "insert")
    /\ UNCHANGED <<sessions, exitSeen, outputClosed, store, now, cleaner>>

SpawnFails(c) ==
    /\ At(c, "spawn")
    /\ Answer(c, "spawn_failed")
    /\ UNCHANGED <<sessions, runtime, store, now, cleaner>>

\* The child was started, but its terminal gave no reader or no writer: the
\* PtySession is dropped, which closes the terminal and kills nobody.  There
\* never is a session, and nothing of the daemon knows the child any more.
HandleFails(c) ==
    /\ At(c, "spawn")
    /\ \E id \in Ids :
        /\ process[id] = "none"
        /\ process' = [process EXCEPT ![id] = "running"]
    /\ Answer(c, "spawn_failed")
    /\ UNCHANGED <<sessions, name, exitSeen, pumping, outputClosed, store, now, cleaner>>

\* Faults: the second check is missing; the loser is dropped without shutting
\* its process down.
InsertUnchecked(c) ==
    /\ At(c, "insert")
    /\ sessions' = sessions \cup {calls[c].id}
    /\ Answer(c, "ok")
    /\ UNCHANGED <<runtime, store, now, cleaner>>
InsertLeakingLoser(c) ==
    /\ At(c, "insert")
    /\ LET refusal == Refusal(calls[c].ident)
       IN  IF refusal = "none"
           THEN sessions' = sessions \cup {calls[c].id} /\ Answer(c, "ok")
           ELSE UNCHANGED sessions /\ Answer(c, refusal)
    /\ UNCHANGED <<runtime, store, now, cleaner>>

InsertSession(c) ==
    /\ At(c, "insert")
    /\ LET refusal == Refusal(calls[c].ident)
       IN  IF refusal = "none"
           THEN sessions' = sessions \cup {calls[c].id} /\ Answer(c, "ok")
           ELSE UNCHANGED sessions /\ Goto(c, [calls[c] EXCEPT !.reply = refusal], "terminate")
    /\ UNCHANGED <<runtime, store, now, cleaner>>
-----------------------------------------------------------------------------
(* Session::shutdown, for a killed session and for the loser of a spawn.    *)

Terminate(c) ==
    /\ At(c, "terminate")
    /\ process' = [process EXCEPT ![calls[c].id] = IF @ = "running" THEN "killed" ELSE @]
    /\ Goto(c, calls[c], "drain")
    /\ UNCHANGED <<sessions, name, exitSeen, pumping, outputClosed, store, now, cleaner>>

\* Wait for the end of output, at most the drain deadline.
DrainToClose(c) ==
    /\ At(c, "drain")
    /\ outputClosed[calls[c].id]
    /\ Goto(c, [calls[c] EXCEPT !.complete = TRUE], "finish")
    /\ UNCHANGED <<sessions, runtime, store, now, cleaner>>

\* A fault: there is no deadline, only a check that the output is still open.
DrainWithoutDeadline(c) ==
    /\ At(c, "drain")
    /\ ~outputClosed[calls[c].id]
    /\ UNCHANGED vars

DrainGivesUp(c) ==
    /\ At(c, "drain")
    /\ ~outputClosed[calls[c].id]
    /\ Goto(c, calls[c], "finish")
    /\ UNCHANGED <<sessions, runtime, store, now, cleaner>>

\* finish_pump joins a pump that has published the end, aborts any other;
\* then the exit status is looked at once more.
FinishShutdown(c) ==
    /\ At(c, "finish")
    /\ pumping' = [pumping EXCEPT ![calls[c].id] = FALSE]
    /\ ObserveExit({calls[c].id})
    /\ IF calls[c].op = "kill" THEN Goto(c, calls[c], "capture")
       ELSE Answer(c, calls[c].reply)
    /\ UNCHANGED <<sessions, name, process, outputClosed, store, now, cleaner>>
-----------------------------------------------------------------------------
(* Kill: resolve, take the session out of the map, shut it down, then       *)
(* record its tombstone.                                                    *)

KillRemove(c) ==
    /\ At(c, "use") /\ calls[c].op = "kill"
    /\ IF calls[c].id \in sessions
       THEN sessions' = sessions \ {calls[c].id} /\ Goto(c, calls[c], "terminate")
       ELSE UNCHANGED sessions /\ Answer(c, "not_found")
    /\ UNCHANGED <<runtime, store, now, cleaner>>

KillCapture(c) ==
    /\ At(c, "capture")
    /\ LET call == calls[c]
       IN  Goto(c, [call EXCEPT !.tomb = FinalTombstone(call.id, call.complete, TRUE)], "bury")
    /\ UNCHANGED <<sessions, runtime, store, now, cleaner>>

\* A fault: only complete output is worth a tombstone.
KillBuryComplete(c) ==
    /\ At(c, "bury")
    /\ TombstonesFree
    /\ store' = IF calls[c].complete THEN Insert(store, calls[c].tomb, now) ELSE store
    /\ Answer(c, "ok")
    /\ UNCHANGED <<sessions, runtime, now, cleaner>>

KillBury(c) ==
    /\ At(c, "bury")
    /\ TombstonesFree
    /\ store' = Insert(store, calls[c].tomb, now)
    /\ Answer(c, "ok")
    /\ UNCHANGED <<sessions, runtime, now, cleaner>>
-----------------------------------------------------------------------------
(* Lookup: the session map first, then, with the map unlocked, the          *)
(* tombstones; a request that may answer from evidence reads them again.    *)

Matches(ident) ==
    IF ident \in sessions THEN {ident} ELSE {id \in sessions : name[id] = ident}

Resolve(c, call) ==
    /\ \/ /\ Matches(call.ident) = {}
          /\ Goto(c, call, "tomb")
       \/ \E id \in Matches(call.ident) : Goto(c, [call EXCEPT !.id = id], "use")
    /\ UNCHANGED <<sessions, runtime, store, now, cleaner>>

\* A UUID is known to clients once its spawn has been answered.
Spawning(id) == \E c \in Clients : calls[c].op = "spawn" /\ calls[c].id = id /\ ~Ready(c)
Spawned == {id \in Ids : name[id] # NoName /\ ~Spawning(id)}

Request(c, op, ident) ==
    /\ Ready(c)
    /\ ident \in Spawned \cup Names
    /\ Resolve(c, [IdleCall EXCEPT !.op = op, !.ident = ident])

Retry(c) == At(c, "lookup") /\ Resolve(c, calls[c])

ResolveTombstone(s, ident) ==
    IF Get(s, ident) # NoTombstone THEN Get(s, ident) ELSE NewestByName(s, ident)

ReadTombstone(c) ==
    /\ At(c, "tomb")
    /\ TombstonesFree
    /\ store' = PurgeExpired(store, now)
    /\ IF ResolveTombstone(store', calls[c].ident) = NoTombstone
       THEN Answer(c, "not_found")
       ELSE IF calls[c].op \in EvidenceOps THEN Goto(c, calls[c], "evidence")
       ELSE Answer(c, "exited")
    /\ UNCHANGED <<sessions, runtime, now, cleaner>>

ReadEvidence(c) ==
    /\ At(c, "evidence")
    /\ TombstonesFree
    /\ store' = PurgeExpired(store, now)
    /\ LET found == ResolveTombstone(store', calls[c].ident)
       IN  IF found = NoTombstone THEN Answer(c, "not_found")
           ELSE Answer(c, "evidence")
    /\ UNCHANGED <<sessions, runtime, now, cleaner>>

\* A fault: status gives up when the session vanished under it.
UseLiveOnce(c) ==
    /\ At(c, "use") /\ calls[c].op # "kill"
    /\ IF calls[c].id \in sessions THEN Answer(c, "ok")
       ELSE Answer(c, "not_found")
    /\ UNCHANGED <<sessions, runtime, store, now, cleaner>>

\* The session may have gone since it was resolved.  status resolves its
\* identifier once more, snapshot the id (and then wants evidence only);
\* output and input give up.
UseLive(c) ==
    /\ At(c, "use") /\ calls[c].op # "kill"
    /\ LET call == calls[c]
           again == [call EXCEPT !.retry = TRUE]
       IN  IF call.op = "snapshot" /\ call.retry THEN Answer(c, "not_found")
           ELSE IF call.id \in sessions THEN Answer(c, "ok")
           ELSE IF call.op = "status" /\ ~call.retry THEN Goto(c, again, "lookup")
           ELSE IF call.op = "snapshot" THEN Goto(c, [again EXCEPT !.ident = call.id], "lookup")
           ELSE Answer(c, "not_found")
    /\ UNCHANGED <<sessions, runtime, store, now, cleaner>>
-----------------------------------------------------------------------------
(* The cleaner: every 500 ms it looks for sessions whose process exited and *)
(* whose output ended (or whose drain deadline passed), and finalizes each  *)
(* under both locks if nobody removed it meanwhile.                         *)

\* Faults: a drained session waits for the end of its output all the same; a
\* session whose process still runs is taken because its output ended.
CleanerScanForClosed ==
    /\ cleaner.pc = "sleep"
    /\ ObserveExit(sessions)
    /\ LET ended == {id \in sessions : exitSeen'[id] # "no" /\ outputClosed[id]}
       IN  cleaner' = [cleaner EXCEPT !.pc = "work",
                         !.work = {[id |-> id, complete |-> outputClosed[id]] : id \in ended}]
    /\ UNCHANGED <<sessions, name, process, pumping, outputClosed, store, now, calls>>
CleanerScanAnyClosed ==
    /\ cleaner.pc = "sleep"
    /\ ObserveExit(sessions)
    /\ LET ended == {id \in sessions : outputClosed[id] \/ exitSeen[id] = "drained"}
       IN  cleaner' = [cleaner EXCEPT !.pc = "work",
                         !.work = {[id |-> id, complete |-> outputClosed[id]] : id \in ended}]
    /\ UNCHANGED <<sessions, name, process, pumping, outputClosed, store, now, calls>>

CleanerScan ==
    /\ cleaner.pc = "sleep"
    /\ ObserveExit(sessions)
    /\ LET ended == {id \in sessions : /\ exitSeen'[id] # "no"
                                       /\ outputClosed[id] \/ exitSeen[id] = "drained"}
       IN  cleaner' = [cleaner EXCEPT !.pc = "work",
                         !.work = {[id |-> id, complete |-> outputClosed[id]] : id \in ended}]
    /\ UNCHANGED <<sessions, name, process, pumping, outputClosed, store, now, calls>>

CleanerFinish ==
    /\ cleaner.pc = "work"
    /\ \E w \in cleaner.work :
        /\ pumping' = [pumping EXCEPT ![w.id] = FALSE]
        /\ cleaner' = [cleaner EXCEPT !.pc = "capture", !.work = @ \ {w},
                                      !.id = w.id, !.complete = w.complete]
    /\ UNCHANGED <<sessions, name, process, exitSeen, outputClosed, store, now, calls>>

CleanerCapture ==
    /\ cleaner.pc = "capture"
    /\ cleaner' = [cleaner EXCEPT !.pc = "lock",
                     !.tomb = FinalTombstone(cleaner.id, cleaner.complete, FALSE)]
    /\ UNCHANGED <<sessions, runtime, store, now, calls>>

CleanerLock ==
    /\ cleaner.pc = "lock"
    /\ cleaner' = [cleaner EXCEPT !.pc = "publish"]
    /\ UNCHANGED <<sessions, runtime, store, now, calls>>

\* A fault: the session is not looked up again before it is buried.
CleanerPublishBlindly ==
    /\ cleaner.pc = "publish"
    /\ sessions' = sessions \ {cleaner.id}
    /\ store' = Insert(store, cleaner.tomb, now)
    /\ cleaner' = [IdleCleaner EXCEPT !.pc = "work", !.work = cleaner.work]
    /\ UNCHANGED <<runtime, now, calls>>

CleanerPublish ==
    /\ cleaner.pc = "publish"
    /\ IF cleaner.id \in sessions
       THEN /\ sessions' = sessions \ {cleaner.id}
            /\ store' = Insert(store, cleaner.tomb, now)
       ELSE UNCHANGED <<sessions, store>>
    /\ cleaner' = [IdleCleaner EXCEPT !.pc = "work", !.work = cleaner.work]
    /\ UNCHANGED <<runtime, now, calls>>

CleanerPurge ==
    /\ cleaner.pc = "work" /\ cleaner.work = {}
    /\ store' = PurgeExpired(store, now)
    /\ cleaner' = IdleCleaner
    /\ UNCHANGED <<sessions, runtime, now, calls>>
-----------------------------------------------------------------------------
(* What happens to a session's runtime from outside the registry.           *)

ProcessExits(id) ==
    /\ process[id] \in {"running", "killed"}
    /\ process' = [process EXCEPT ![id] = "exited"]
    /\ UNCHANGED <<sessions, name, exitSeen, pumping, outputClosed, store, now, calls, cleaner>>

\* The pump's channel ended.  A child may close its terminal before it exits,
\* a descendant may keep it open afterwards, so this waits for no exit.
OutputCloses(id) ==
    /\ pumping[id]
    /\ pumping' = [pumping EXCEPT ![id] = FALSE]
    /\ outputClosed' = [outputClosed EXCEPT ![id] = TRUE]
    /\ UNCHANGED <<sessions, name, process, exitSeen, store, now, calls, cleaner>>

\* EXIT_DRAIN_TIMEOUT has passed since the exit was observed.
DrainElapses(id) ==
    /\ exitSeen[id] = "seen"
    /\ exitSeen' = [exitSeen EXCEPT ![id] = "drained"]
    /\ UNCHANGED <<sessions, name, process, pumping, outputClosed, store, now, calls, cleaner>>

Tick ==
    /\ now < MaxTime
    /\ now' = now + 1
    /\ UNCHANGED <<sessions, runtime, store, calls, cleaner>>

Step(c) ==
    \/ SpawnProcess(c) \/ SpawnFails(c) \/ HandleFails(c) \/ InsertSession(c)
    \/ Terminate(c) \/ DrainToClose(c) \/ DrainGivesUp(c) \/ FinishShutdown(c)
    \/ KillRemove(c) \/ KillCapture(c) \/ KillBury(c)
    \/ Retry(c) \/ ReadTombstone(c) \/ ReadEvidence(c) \/ UseLive(c)

CleanerStep ==
    CleanerScan \/ CleanerFinish \/ CleanerCapture \/ CleanerLock \/ CleanerPublish \/ CleanerPurge

Next ==
    \/ \E c \in Clients :
        \/ "spawn" \in OpsOf[c] /\ \E n \in Names : CheckSpawn(c, n)
        \/ \E op \in OpsOf[c] \cap LookupOps, ident \in Ids \cup Names : Request(c, op, ident)
        \/ Step(c)
    \/ CleanerStep
    \/ \E id \in Ids : ProcessExits(id) \/ OutputCloses(id) \/ DrainElapses(id)
    \/ Tick

Spec == Init /\ [][Next]_vars
-----------------------------------------------------------------------------
\* Tokio keeps polling a runnable task: a request that started goes on, the
\* cleaner wakes every 500 ms, a timer fires, and a pump that lost its channel
\* or a killed child are not waited for (the drain deadline stands in; it
\* elapses once for each session, so one condition serves them all).
Fairness ==
    /\ \A c \in Clients : WF_vars(Step(c))
    /\ WF_vars(CleanerStep)
    /\ WF_vars(\E id \in Ids : DrainElapses(id))

FairSpec == Spec /\ Fairness
-----------------------------------------------------------------------------
CallPcs == {"idle", "spawn", "insert", "terminate", "drain", "finish",
            "capture", "bury", "use", "tomb", "evidence", "lookup"}
Replies == {"none", "ok", "limit", "duplicate", "spawn_failed", "not_found",
            "exited", "evidence"}

Call ==
    [pc : CallPcs, op : LookupOps \cup {"spawn", "none"},
     ident : Ids \cup Names \cup {NoId}, id : Ids \cup {NoId},
     retry : BOOLEAN, complete : BOOLEAN,
     tomb : Tombstone \cup {NoTombstone}, reply : Replies]

Cleaner ==
    [pc : {"sleep", "work", "capture", "lock", "publish"},
     work : SUBSET [id : Ids, complete : BOOLEAN], id : Ids \cup {NoId},
     complete : BOOLEAN, tomb : Tombstone \cup {NoTombstone}]

\* Every field has its type, the tombstones too (their order in the store is
\* TombstoneStore's question), and each tombstone is filed under its own id.
TypeOK ==
    /\ sessions \subseteq Ids
    /\ name \in [Ids -> Names \cup {NoName}]
    /\ process \in [Ids -> {"none", "running", "killed", "exited"}]
    /\ exitSeen \in [Ids -> {"no", "seen", "drained"}]
    /\ pumping \in [Ids -> BOOLEAN]
    /\ outputClosed \in [Ids -> BOOLEAN]
    /\ DOMAIN store.entries \subseteq Ids
    /\ \A id \in DOMAIN store.entries :
          store.entries[id] \in Tombstone /\ store.entries[id].id = id
    /\ store.capacity = TombCapacity
    /\ now \in 0..MaxTime
    /\ calls \in [Clients -> Call]
    /\ cleaner \in Cleaner

\* Two live sessions never share a name, although both spawns were checked
\* before either was inserted (session.rs:538, 597).
UniqueNames ==
    \A a, b \in sessions : name[a] = name[b] => a = b

\* Concurrent spawns never push the map beyond MAX_SESSIONS (session.rs:591).
SessionLimit == Cardinality(sessions) <= MaxSessions

Killing(c, id) ==
    /\ calls[c].op = "kill" /\ calls[c].id = id
    /\ calls[c].pc \in {"terminate", "drain", "finish", "capture", "bury"}

\* A session that ended is finalized once: it is live, or one kill owns its
\* finalization, or it has a tombstone, and never two of these, whichever of
\* the kills and the cleaner got to it first.
OneOwner ==
    /\ sessions \cap DOMAIN store.entries = {}
    /\ \A c \in Clients, id \in Ids : Killing(c, id) =>
          /\ id \notin sessions \cup DOMAIN store.entries
          /\ \A d \in Clients : Killing(d, id) => d = c

\* No session leaks its process: one that still runs belongs to a live session
\* or to the request that is creating or ending it.  The one kind of child that
\* runs on without an owner never had a session, and so no name: its handle
\* could not be made, and dropping the PtySession does not kill it
\* (session.rs:551, pty.rs:128).
NoOrphanProcess ==
    \A id \in Ids : process[id] = "running" =>
        \/ id \in sessions
        \/ \E c \in Clients : calls[c].id = id /\ calls[c].pc \in {"insert", "terminate"}
        \/ name[id] = NoName

\* What a tombstone claims is so: its session's process ended or was killed by
\* a client, output called complete had its end published, a natural end has
\* its exit status, and incomplete output of a natural end had its full drain.
\* The fields have their types, and it is filed under its own id.
TombstoneTruth ==
    /\ TypeOK
    /\ \A id \in DOMAIN store.entries :
        LET t == store.entries[id]
        IN  /\ t.complete => outputClosed[id]
            /\ ~t.killed => t.exitKnown /\ process[id] = "exited"
            /\ ~t.killed /\ ~t.complete => exitSeen[id] = "drained"

Answers(c, op, reply) ==
    /\ calls[c].op = op
    /\ calls'[c].pc = "idle" /\ calls'[c].reply = reply

\* status and snapshot of a session id never miss a session that is live or
\* has its evidence, even when the cleaner finalizes it between their steps.
EvidenceNotMissed ==
    [][\A c \in Clients, op \in {"status", "snapshot"} :
        Answers(c, op, "not_found") /\ calls[c].ident \in Ids
          => calls[c].ident \notin sessions' \cup DOMAIN store'.entries]_vars

\* What clients see of a session: SessionLifecycle's phases.
Phase(id) ==
    IF id \in sessions THEN "live"
    ELSE IF id \in DOMAIN store.entries THEN "exited"
    ELSE IF \E c \in Clients : Killing(c, id) THEN "ending"
    ELSE IF name[id] = NoName \/ Spawning(id) THEN "unborn"
    ELSE "gone"

Lifecycle == INSTANCE SessionLifecycle
    WITH phase <- [id \in Ids |-> Phase(id)],
         label <- [id \in Ids |-> IF id \in sessions THEN name[id] ELSE NoName]

\* The registry implements the life cycle: names and limit at admission, one
\* way out for each session, and a killed session gets its tombstone.
ImplementsLifecycle == Lifecycle!LifecycleSpec

\* A session whose process ended leaves the map, also when a descendant keeps
\* its output open for ever.
DeadSessionsLeave ==
    \A id \in Ids : (id \in sessions /\ process[id] = "exited") ~> id \notin sessions

\* Every request is answered: nobody holds a lock or a drain for ever.
RequestsAnswered == \A c \in Clients : ~Ready(c) ~> Ready(c)
-----------------------------------------------------------------------------
\* README: "Unknown, expired, or evicted sessions return SESSION_NOT_FOUND".
\* So a session some kill is still ending is not reported that way.
NotFoundMeansGone ==
    [][\A c \in Clients :
        Answers(c, "status", "not_found") /\ calls[c].ident \in Ids
          => Phase(calls[c].ident) # "ending"]_vars
=============================================================================
