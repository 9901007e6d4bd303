------------------------------- MODULE Daemon -------------------------------
(***************************************************************************)
(* The daemon process from its start to its end (DaemonServer, run_daemon) *)
(* and the client that finds or starts it (DaemonClient::connect).  Each   *)
(* client makes one call; a daemon it starts bears its name.  `Elder` is a *)
(* daemon from before: not there, serving, or crashed with its files left. *)
(*                                                                         *)
(* The socket file is known by the process that bound it.  A path whose    *)
(* owner is dead refuses connections and still fails bind.  A session is   *)
(* known by the client that spawned it.                                    *)
(*                                                                         *)
(* Starting takes less than the client's five seconds, so the client runs  *)
(* out of them only when its daemon is past its start.                     *)
(***************************************************************************)
EXTENDS Integers, FiniteSets

CONSTANTS
    Clients,
    Elder,           \* the daemon from before
    None,
    OpsOf,           \* what each client's call can ask for
    Aged,            \* bound: the daemons that get old enough to be idle
    MaxConnections,  \* MAX_CONNECTIONS
    IdleLooks        \* looks in a row that make up IDLE_TIMEOUT

ASSUME DaemonAssumption ==
    /\ Elder \notin Clients /\ None \notin Clients \cup {Elder}
    /\ OpsOf \in [Clients -> SUBSET {"spawn", "wait", "stop"}]
    /\ Aged \subseteq Clients \cup {Elder}
    /\ {MaxConnections, IdleLooks} \subseteq Nat \ {0}

Daemons == Clients \cup {Elder}

VARIABLES
    socket,    \* the process whose socket file is at the path, or None
    pidFile,   \* the process named by the pid file, or None
    reused,    \* dead daemons whose pid another process has taken
    server,    \* of each daemon: pc, and whether a shutdown notification is pending
    queue,     \* connections not accepted yet
    tasks,     \* connection tasks that hold a permit
    finished,  \* whether a task is done and not reaped
    sessions,  \* live sessions
    idle,      \* the idle monitor of each daemon
    stop,      \* the task that a client's stop request left behind
    client,    \* each client's call
    disturbed, \* history: the call overlapped something that can make it fail
    late,      \* history: sessions that came after their monitor's last look at the sessions
    idleKilled \* history: sessions that an idle stop killed

files == <<socket, pidFile, reused>>
work == <<queue, tasks, finished, sessions>>
vars == <<files, server, work, idle, stop, client, disturbed, late, idleKilled>>

Starting == {"bind", "check", "unlink", "rebind", "writePid"}
Running == {"select", "arm"}
Ending == {"drain", "dropSocket", "dropPid"}
Broken == {"unnamed", "crashed"}
Dead == {"off", "failed", "ended"} \cup Broken
Listening == {"writePid"} \cup Running \cup Ending

At(d, pcs) == server[d].pc \in pcs
Goto(d, pc) == server' = [server EXCEPT ![d].pc = pc]

\* Bound: one daemon crashes, or fails to write its pid.
NoneBroken == \A x \in Daemons : ~At(x, Broken)

Asleep == [pc |-> "sleep", looks |-> 0, saw |-> FALSE, targets |-> {}]

Init ==
    /\ \E was \in {"off", "select", "crashed"} :
        /\ server = [d \in Daemons |-> [pc |-> IF d = Elder THEN was ELSE "off", notified |-> FALSE]]
        /\ socket = IF was = "off" THEN None ELSE Elder
        /\ pidFile = socket
    /\ reused = {}
    /\ queue = [d \in Daemons |-> {}] /\ tasks = [d \in Daemons |-> {}]
    /\ finished = [d \in Daemons |-> FALSE] /\ sessions = [d \in Daemons |-> {}]
    /\ idle = [d \in Daemons |-> Asleep]
    /\ stop = [c \in Clients |-> [pc |-> "none", targets |-> {}]]
    /\ client = [c \in Clients |-> [pc |-> "idle", op |-> "none", daemon |-> None, result |-> "none"]]
    /\ disturbed = [c \in Clients |-> FALSE]
    /\ late = {} /\ idleKilled = {}
-----------------------------------------------------------------------------
(* Binding the socket.                                                      *)

BindFirst(d) ==
    /\ At(d, {"bind"})
    /\ IF socket = None
       THEN socket' = d /\ Goto(d, "writePid")
       ELSE Goto(d, "check") /\ UNCHANGED socket
    /\ UNCHANGED <<pidFile, reused, work, idle, stop, client, idleKilled>>

\* A fault: a pid file is enough, whether its process is there or not.
IsDaemonAliveByFile == pidFile # None

\* kill(pid, 0): a process of that number is there, whichever it is.
IsDaemonAlive == pidFile # None /\ (~At(pidFile, Dead) \/ pidFile \in reused)

CheckAlive(d) ==
    /\ At(d, {"check"})
    /\ Goto(d, IF IsDaemonAlive THEN "failed" ELSE "unlink")
    /\ UNCHANGED <<files, work, idle, stop, client, idleKilled>>

\* Whatever is at the path by now is taken for the stale socket.
UnlinkStale(d) ==
    /\ At(d, {"unlink"})
    /\ Goto(d, IF socket = None THEN "failed" ELSE "rebind")
    /\ socket' = None
    /\ UNCHANGED <<pidFile, reused, work, idle, stop, client, idleKilled>>

BindAgain(d) ==
    /\ At(d, {"rebind"})
    /\ IF socket = None
       THEN socket' = d /\ Goto(d, "writePid")
       ELSE Goto(d, "failed") /\ UNCHANGED socket
    /\ UNCHANGED <<pidFile, reused, work, idle, stop, client, idleKilled>>

WritePid(d) ==
    /\ At(d, {"writePid"})
    /\ pidFile' = d
    /\ Goto(d, "select")
    /\ UNCHANGED <<socket, reused, work, idle, stop, client, idleKilled>>

\* Listener, runtime and sessions go with the process.
Vanish(d, pc) ==
    /\ server' = [server EXCEPT ![d] = [pc |-> pc, notified |-> FALSE]]
    /\ queue' = [queue EXCEPT ![d] = {}]
    /\ tasks' = [tasks EXCEPT ![d] = {}]
    /\ finished' = [finished EXCEPT ![d] = FALSE]
    /\ sessions' = [sessions EXCEPT ![d] = {}]
    /\ idle' = [idle EXCEPT ![d] = Asleep]
    /\ stop' = [c \in Clients |-> IF client[c].daemon = d /\ stop[c].pc # "none"
                                  THEN [pc |-> "gone", targets |-> {}] ELSE stop[c]]

\* The start ends before there is a DaemonServer to drop: the socket file stays,
\* and what the pid file held may be gone.
WritePidFails(d) ==
    /\ At(d, {"writePid"}) /\ NoneBroken
    /\ pidFile' \in {pidFile, None}
    /\ Vanish(d, "unnamed")
    /\ UNCHANGED <<socket, reused, client, idleKilled>>
-----------------------------------------------------------------------------
(* The accept loop.  Its select takes any arm that is ready; the Notified   *)
(* future is dropped with the select, and what it was told with it.         *)

TakeArm(d) == server' = [server EXCEPT ![d] = [pc |-> "arm", notified |-> FALSE]]

Full(d) == Cardinality(tasks[d]) >= MaxConnections

Accept(d, c) ==
    /\ At(d, {"select"}) /\ c \in queue[d]
    /\ TakeArm(d)
    /\ queue' = [queue EXCEPT ![d] = @ \ {c}]
    /\ tasks' = [tasks EXCEPT ![d] = IF Full(d) THEN @ ELSE @ \cup {c}]
    /\ UNCHANGED <<files, finished, sessions, idle, stop, client, idleKilled>>

Reap(d) ==
    /\ At(d, {"select"}) /\ finished[d]
    /\ TakeArm(d)
    /\ finished' = [finished EXCEPT ![d] = FALSE]
    /\ UNCHANGED <<files, queue, tasks, sessions, idle, stop, client, idleKilled>>

LoopAgain(d) ==
    /\ At(d, {"arm"})
    /\ Goto(d, "select")
    /\ UNCHANGED <<files, work, idle, stop, client, idleKilled>>

ShutdownNotified(d) ==
    /\ At(d, {"select"}) /\ server[d].notified
    /\ Goto(d, "drain")
    /\ UNCHANGED <<files, work, idle, stop, client, idleKilled>>

\* notify_waiters: only a loop that is in its select hears it.
NotifyWaiters(d) ==
    server' = [server EXCEPT ![d].notified = @ \/ server[d].pc = "select"]
-----------------------------------------------------------------------------
(* The end of a daemon.                                                     *)

DrainDone(d) ==
    /\ At(d, {"drain"}) /\ tasks[d] = {}
    /\ Goto(d, "dropSocket")
    /\ UNCHANGED <<files, work, idle, stop, client, idleKilled>>

\* A fault: there is no limit to how long connections are waited for.
DrainTimeoutNever(d) ==
    /\ At(d, {"drain"}) /\ tasks[d] = {}
    /\ Goto(d, "dropSocket")
    /\ UNCHANGED <<files, work, idle, stop, client, idleKilled>>

DrainTimeout(d) ==
    /\ At(d, {"drain"}) /\ tasks[d] # {}
    /\ Goto(d, "dropSocket")
    /\ tasks' = [tasks EXCEPT ![d] = {}]
    /\ UNCHANGED <<files, queue, finished, sessions, idle, stop, client, idleKilled>>

\* SIGINT or SIGTERM: run() is dropped where it is, its tasks with it.
Signalled(d) ==
    /\ At(d, Running \cup {"drain"})
    /\ Goto(d, "dropSocket")
    /\ tasks' = [tasks EXCEPT ![d] = {}]
    /\ UNCHANGED <<files, queue, finished, sessions, idle, stop, client, idleKilled>>

\* Drop removes what is at the paths, whoever put it there.
DropSocket(d) ==
    /\ At(d, {"dropSocket"})
    /\ socket' = None
    /\ Goto(d, "dropPid")
    /\ UNCHANGED <<pidFile, reused, work, idle, stop, client, idleKilled>>

\* A fault: only the socket is cleaned up.
DropPidForgotten(d) ==
    /\ At(d, {"dropPid"})
    /\ Vanish(d, "ended")
    /\ UNCHANGED <<files, client, idleKilled>>

DropPid(d) ==
    /\ At(d, {"dropPid"})
    /\ pidFile' = None
    /\ Vanish(d, "ended")
    /\ UNCHANGED <<socket, reused, client, idleKilled>>

\* The files of a crashed daemon stay.
Crash(d) ==
    /\ ~At(d, Dead) /\ NoneBroken
    /\ Vanish(d, "crashed")
    /\ UNCHANGED <<files, client, idleKilled>>

PidReused(d) ==
    /\ reused = {} /\ pidFile = d /\ At(d, Dead)
    /\ reused' = {d}
    /\ UNCHANGED <<socket, pidFile, server, work, idle, stop, client, idleKilled>>
-----------------------------------------------------------------------------
(* The idle monitor reads the sessions and then the permits, in each look.  *)

Monitor(d, pcs) == d \in Aged /\ At(d, Running \cup Ending) /\ idle[d].pc \in pcs

LookAtSessions(d) ==
    /\ Monitor(d, {"sleep", "sessionsAgain"})
    /\ idle' = [idle EXCEPT ![d].saw = sessions[d] # {},
                            ![d].pc = IF @ = "sleep" THEN "conns" ELSE "connsAgain"]
    /\ UNCHANGED <<files, server, work, stop, client, idleKilled>>

\* A fault: the long idle time is believed without a second look.
LookAtPermitsOnce(d) ==
    /\ Monitor(d, {"conns"})
    /\ idle' = [idle EXCEPT ![d] =
            IF @.saw \/ tasks[d] # {} THEN Asleep
            ELSE IF @.looks + 1 < IdleLooks THEN [@ EXCEPT !.pc = "sleep", !.looks = idle[d].looks + 1]
            ELSE [@ EXCEPT !.pc = "list"]]
    /\ UNCHANGED <<files, server, work, stop, client, idleKilled>>

LookAtPermits(d) ==
    /\ Monitor(d, {"conns", "connsAgain"})
    /\ idle' = [idle EXCEPT ![d] =
            IF @.saw \/ tasks[d] # {} THEN Asleep
            ELSE IF @.pc = "connsAgain" THEN [@ EXCEPT !.pc = "list"]
            ELSE IF @.looks + 1 < IdleLooks THEN [@ EXCEPT !.pc = "sleep", !.looks = idle[d].looks + 1]
            ELSE [@ EXCEPT !.pc = "sessionsAgain"]]
    /\ UNCHANGED <<files, server, work, stop, client, idleKilled>>

\* kill_all_sessions: the sessions of the moment, killed one by one.
IdleList(d) ==
    /\ Monitor(d, {"list"})
    /\ idle' = [idle EXCEPT ![d].pc = "kill", ![d].targets = sessions[d]]
    /\ UNCHANGED <<files, server, work, stop, client, idleKilled>>

IdleKill(d) ==
    /\ Monitor(d, {"kill"})
    /\ \E s \in idle[d].targets :
        /\ sessions' = [sessions EXCEPT ![d] = @ \ {s}]
        /\ idle' = [idle EXCEPT ![d].targets = @ \ {s}]
        /\ idleKilled' = idleKilled \cup ({s} \cap sessions[d])
    /\ UNCHANGED <<files, server, queue, tasks, finished, stop, client>>

IdleNotify(d) ==
    /\ Monitor(d, {"kill"}) /\ idle[d].targets = {}
    /\ NotifyWaiters(d)
    /\ idle' = [idle EXCEPT ![d].pc = "gone"]
    /\ UNCHANGED <<files, work, stop, client, idleKilled>>
-----------------------------------------------------------------------------
(* The task that handle_shutdown leaves behind.                             *)

StopRuns(c, pcs) == stop[c].pc \in pcs

StopList(c) ==
    /\ StopRuns(c, {"list"})
    /\ stop' = [stop EXCEPT ![c] = [pc |-> "kill", targets |-> sessions[client[c].daemon]]]
    /\ UNCHANGED <<files, server, work, idle, client, idleKilled>>

StopKill(c) ==
    /\ StopRuns(c, {"kill"})
    /\ \E s \in stop[c].targets :
        /\ sessions' = [sessions EXCEPT ![client[c].daemon] = @ \ {s}]
        /\ stop' = [stop EXCEPT ![c].targets = @ \ {s}]
    /\ UNCHANGED <<files, server, queue, tasks, finished, idle, client, idleKilled>>

StopNotify(c) ==
    /\ StopRuns(c, {"kill"}) /\ stop[c].targets = {}
    /\ NotifyWaiters(client[c].daemon)
    /\ stop' = [stop EXCEPT ![c].pc = "gone"]
    /\ UNCHANGED <<files, work, idle, client, idleKilled>>

\* The session's process ends and the cleaner buries it.
SessionEnds(d) ==
    /\ \E s \in sessions[d] : sessions' = [sessions EXCEPT ![d] = @ \ {s}]
    /\ UNCHANGED <<files, server, queue, tasks, finished, idle, stop, client, idleKilled>>
-----------------------------------------------------------------------------
(* The client.                                                              *)

Called(c, pcs) == client[c].pc \in pcs

Return(c, result) == client' = [client EXCEPT ![c].pc = "done", ![c].result = result]

\* "wait" is a request that takes as long as it likes.
Call(c) ==
    /\ Called(c, {"idle"})
    /\ \E op \in OpsOf[c] :
        client' = [client EXCEPT ![c].pc = "connect", ![c].op = op]
    /\ UNCHANGED <<files, server, work, idle, stop, idleKilled>>

Reachable == socket # None /\ At(socket, Listening)

Connected(c) ==
    /\ queue' = [queue EXCEPT ![socket] = @ \cup {c}]
    /\ client' = [client EXCEPT ![c].pc = "sent", ![c].daemon = socket]

Connect(c) ==
    /\ Called(c, {"connect"}) /\ Reachable
    /\ Connected(c)
    /\ UNCHANGED <<files, server, tasks, finished, sessions, idle, stop, idleKilled>>

StartDaemon(c) ==
    /\ Called(c, {"connect"}) /\ ~Reachable
    /\ Goto(c, "bind")
    /\ client' = [client EXCEPT ![c].pc = "poll"]
    /\ UNCHANGED <<files, work, idle, stop, idleKilled>>

\* wait_for_daemon looks at its own child first, then tries to connect.
PollDaemon(c) ==
    /\ Called(c, {"poll"})
    /\ \/ At(c, Dead) /\ Return(c, "no_daemon") /\ UNCHANGED queue
       \/ ~At(c, Dead) /\ Reachable /\ Connected(c)
    /\ UNCHANGED <<files, server, tasks, finished, sessions, idle, stop, idleKilled>>

\* A fault: only a path with no file at all runs into the deadline.
StartTimeoutNoFile(c) ==
    /\ Called(c, {"poll"}) /\ socket = None /\ ~At(c, Starting)
    /\ Return(c, "no_daemon")
    /\ UNCHANGED <<files, server, work, idle, stop, idleKilled>>

StartTimeout(c) ==
    /\ Called(c, {"poll"}) /\ ~Reachable /\ ~At(c, Starting)
    /\ Return(c, "no_daemon")
    /\ UNCHANGED <<files, server, work, idle, stop, idleKilled>>

\* handle_request in the connection's task; the answer is written and read.
Handle(c) ==
    /\ Called(c, {"sent"}) /\ c \in tasks[client[c].daemon]
    /\ Return(c, "ok")
    /\ sessions' = [sessions EXCEPT ![client[c].daemon] = IF client[c].op = "spawn" THEN @ \cup {c} ELSE @]
    /\ stop' = [stop EXCEPT ![c].pc = IF client[c].op = "stop" THEN "list" ELSE @]
    /\ UNCHANGED <<files, server, queue, tasks, finished, idle, idleKilled>>

ConnectionClosed(c) ==
    /\ Called(c, {"sent"}) /\ c \notin queue[client[c].daemon] \cup tasks[client[c].daemon]
    /\ Return(c, "closed")
    /\ UNCHANGED <<files, server, work, idle, stop, idleKilled>>

\* The thirty seconds of request() end a long wait; the daemon's task goes on.
RequestTimeout(c) ==
    /\ Called(c, {"sent"}) /\ client[c].op = "wait"
    /\ Return(c, "timeout")
    /\ UNCHANGED <<files, server, work, idle, stop, idleKilled>>

\* The client is gone: its task reads the end of the connection.
TaskEnds(c) ==
    /\ Called(c, {"done"}) /\ client[c].daemon # None /\ c \in tasks[client[c].daemon]
    /\ tasks' = [tasks EXCEPT ![client[c].daemon] = @ \ {c}]
    /\ finished' = [finished EXCEPT ![client[c].daemon] = TRUE]
    /\ UNCHANGED <<files, server, queue, sessions, idle, stop, client, idleKilled>>
-----------------------------------------------------------------------------
\* What can make a call fail: another daemon starting or ending, a stop under
\* way, a monitor past its last look at the sessions, the connection limit, a
\* foreign process under the daemon's pid, a pid file of another live daemon
\* than the socket's; and, in Disturb, a crash or a pid that cannot be written.
Unsettled(c) ==
    \/ \E d \in Daemons \ {c} : At(d, Starting)
    \/ \E d \in Daemons :
        \/ At(d, Ending) \/ server[d].notified
        \/ idle[d].pc \in {"connsAgain", "list", "kill"}
        \/ Cardinality(tasks[d] \ {c}) >= MaxConnections
    \/ \E x \in Clients : stop[x].pc \in {"list", "kill"}
    \/ reused # {}
    \/ pidFile \notin {None, socket} /\ ~At(pidFile, Dead)

Breaks == \E d \in Daemons : ~At(d, Broken) /\ server'[d].pc \in Broken

Disturb ==
    disturbed' = [c \in Clients |->
        disturbed[c] \/ (client[c].pc \notin {"idle", "done"} /\ (Unsettled(c) \/ Unsettled(c)' \/ Breaks))]

\* A session that a monitor past its last look at the sessions has yet to list.
ComesLate ==
    late' = late \cup UNION {sessions'[d] \ sessions[d] : d \in {d \in Daemons : idle[d].pc \in {"connsAgain", "list"}}}

Bind(d) == BindFirst(d) \/ CheckAlive(d) \/ UnlinkStale(d) \/ BindAgain(d) \/ WritePid(d)

Loop(d) == (\E c \in Clients : Accept(d, c)) \/ Reap(d) \/ LoopAgain(d) \/ ShutdownNotified(d)

End(d) == DrainDone(d) \/ DrainTimeout(d) \/ DropSocket(d) \/ DropPid(d)

IdleMonitor(d) == LookAtSessions(d) \/ LookAtPermits(d) \/ IdleList(d) \/ IdleKill(d) \/ IdleNotify(d)

StopTask(c) == StopList(c) \/ StopKill(c) \/ StopNotify(c)

ClientStep(c) ==
    Connect(c) \/ StartDaemon(c) \/ PollDaemon(c) \/ ConnectionClosed(c)

DaemonStep(d) == Bind(d) \/ Loop(d) \/ End(d) \/ IdleMonitor(d) \/ Signalled(d) \/ WritePidFails(d) \/ Crash(d) \/ PidReused(d) \/ SessionEnds(d)

CallStep(c) == Call(c) \/ ClientStep(c) \/ StartTimeout(c) \/ Handle(c) \/ RequestTimeout(c) \/ TaskEnds(c) \/ StopTask(c)

Next == ((\E d \in Daemons : DaemonStep(d)) \/ (\E c \in Clients : CallStep(c))) /\ Disturb /\ ComesLate

Spec == Init /\ [][Next]_vars

\* Processes and tasks that can go on do, and the deadlines of draining, starting
\* and requesting pass.  Nothing is assumed of signals, of crashes, of when the
\* monitor looks, or of a handler that waits.
state == <<files, server, work, idle, stop, client>>

DaemonGoesOn(d) == Bind(d) \/ Loop(d) \/ End(d)

Served(c) == RequestTimeout(c) \/ (client[c].op # "wait" /\ Handle(c))

Fairness ==
    /\ \A d \in Daemons : WF_state(DaemonGoesOn(d))
    /\ \A c \in Clients : WF_state(ClientStep(c)) /\ WF_state(StartTimeout(c)) /\ WF_state(Served(c))

FairSpec == Spec /\ Fairness
-----------------------------------------------------------------------------
Pcs == Starting \cup Running \cup Ending \cup Dead

\* Every variable keeps its type; only daemons that listen have connections.
TypeOK ==
    /\ {socket, pidFile} \subseteq Daemons \cup {None} /\ reused \subseteq Daemons
    /\ \A d \in Daemons :
        /\ At(d, Pcs) /\ server[d].notified \in BOOLEAN /\ finished[d] \in BOOLEAN
        /\ queue[d] \subseteq Clients /\ tasks[d] \subseteq Clients /\ sessions[d] \subseteq Clients
        /\ Cardinality(tasks[d]) <= MaxConnections
        /\ queue[d] # {} => At(d, Listening)
        /\ idle[d].pc \in {"sleep", "conns", "sessionsAgain", "connsAgain", "list", "kill", "gone"}
        /\ idle[d].looks \in 0..IdleLooks - 1 /\ idle[d].targets \subseteq Clients
    /\ \A c \in Clients :
        /\ stop[c].pc \in {"none", "list", "kill", "gone"} /\ stop[c].targets \subseteq Clients
        /\ client[c].pc \in {"idle", "connect", "poll", "sent", "done"}
        /\ client[c].result \in {"none", "ok", "closed", "no_daemon", "timeout"}
        /\ client[c].pc = "sent" => client[c].daemon \in Daemons
    /\ disturbed \in [Clients -> BOOLEAN] /\ late \cup idleKilled \subseteq Clients

\* A call finds a daemon and is answered unless it overlaps one of the causes
\* above; leftovers of a crash are no cause (connect, wait_for_daemon, bind).  The
\* variables keep their types and connections their limit.
FailureHasCause ==
    /\ TypeOK
    /\ \A c \in Clients : client[c].result \in {"closed", "no_daemon"} => disturbed[c]

\* An idle stop kills no session but one whose spawn was handled after the
\* monitor's second and last look at the sessions, and before it listed them to
\* kill them (spawn_idle_shutdown_task, kill_all_sessions).
IdleSparesSessions == idleKilled \subseteq late

\* When every daemon has ended in order, however they raced, neither file is
\* left (Drop for DaemonServer).  One that could not write its pid has not.
CleanExitLeavesNothing ==
    (\A d \in Daemons : At(d, {"off", "failed", "ended"})) => socket = None /\ pidFile = None

\* Every call returns: again and again nobody waits (wait_for_daemon, request).
CallsReturn == []<>(\A c \in Clients : Called(c, {"idle", "done"}))

\* A daemon that is ending ends, whatever its connections do (run, Drop).
ShutdownsEnd == []<>(\A d \in Daemons : ~At(d, Ending))

\* The pid file written right after bind "closes the race window where another
\* process could see our socket but not find a valid PID file, incorrectly
\* assuming we're dead" (server.rs:94-96): no starting daemon removes the
\* socket of a living one.
NoLiveDaemonDisplaced ==
    [][\A d \in Daemons : UnlinkStale(d) => socket = None \/ At(socket, Dead)]_vars
=============================================================================
