---------------------------- MODULE Daemon_proofs ----------------------------
(***************************************************************************)
(* What the files and the sessions of the daemons can come to, for any     *)
(* number of clients and of daemons they start.                            *)
(***************************************************************************)
EXTENDS Daemon, FiniteSetTheorems, TLAPS

\* What the steps need to know of the variables' shape.
Typed ==
    /\ server \in [Daemons -> [pc : Pcs, notified : BOOLEAN]]
    /\ socket \in Daemons \cup {None} /\ pidFile \in Daemons \cup {None}
    /\ sessions \in [Daemons -> SUBSET Clients]
    /\ DOMAIN idle = Daemons
    /\ \A d \in Daemons : DOMAIN idle[d] = {"pc", "looks", "saw", "targets"}
    /\ DOMAIN client = Clients
    /\ \A c \in Clients : DOMAIN client[c] = {"pc", "op", "daemon", "result"}

\* A file at one of the paths is that of a daemon that will remove it, or crashed;
\* and a client that has not tried to connect has started no daemon.
FilesOwned ==
    /\ socket # None => At(socket, {"writePid", "drain", "dropSocket"} \cup Running \cup Broken)
    /\ pidFile # None => At(pidFile, Running \cup Ending \cup {"crashed"})
    /\ \A c \in Clients : client[c].pc \in {"idle", "connect"} => At(c, {"off"})

\* Past the last look at an empty registry, whatever session there is came late.
Late(d) ==
    /\ idle[d].pc = "list" \/ (idle[d].pc = "connsAgain" /\ ~idle[d].saw) =>
           sessions[d] \subseteq late
    /\ idle[d].pc = "kill" => idle[d].targets \subseteq late

Spared ==
    /\ \A d \in Daemons : Late(d)
    /\ late \subseteq Clients
    /\ IdleSparesSessions

DStep == (\E d \in Daemons : DaemonStep(d)) \/ (\E c \in Clients : CallStep(c))

LEMMA NamesApart == None \notin Daemons /\ Elder \notin Clients /\ Clients \subseteq Daemons
  BY DaemonAssumption DEF Daemons
-----------------------------------------------------------------------------
LEMMA InitTyped == Init => Typed /\ FilesOwned /\ Spared
<1> SUFFICES ASSUME Init PROVE Typed /\ FilesOwned /\ Spared
  OBVIOUS
<1>1. PICK was \in {"off", "select", "crashed"} :
        /\ server = [d \in Daemons |-> [pc |-> IF d = Elder THEN was ELSE "off", notified |-> FALSE]]
        /\ socket = IF was = "off" THEN None ELSE Elder
        /\ pidFile = socket
  BY DEF Init
<1>2. Typed
  BY <1>1 DEF Init, Typed, Pcs, Starting, Running, Ending, Dead, Broken, Asleep, Daemons
<1>3. FilesOwned
  BY <1>1, NamesApart DEF FilesOwned, At, Running, Ending, Broken, Daemons
<1>4. Spared
  BY DEF Init, Spared, Late, Asleep, IdleSparesSessions
<1> QED
  BY <1>2, <1>3, <1>4

LEMMA TypedStep ==
    ASSUME Typed, DStep
    PROVE  Typed'
<1> USE DEF Typed, Pcs, Starting, Running, Ending, Dead, Broken, files, work
<1>1. ASSUME NEW d \in Daemons, BindFirst(d) PROVE Typed'
  <2>1. CASE socket = None
    BY <1>1, <2>1 DEF BindFirst, At, Goto
  <2>2. CASE socket # None
    BY <1>1, <2>2 DEF BindFirst, At, Goto
  <2> QED
    BY <2>1, <2>2
<1>2. ASSUME NEW d \in Daemons, CheckAlive(d) PROVE Typed'
  BY <1>2 DEF CheckAlive, At, Goto
<1>3. ASSUME NEW d \in Daemons, UnlinkStale(d) PROVE Typed'
  BY <1>3 DEF UnlinkStale, At, Goto
<1>4. ASSUME NEW d \in Daemons, BindAgain(d) PROVE Typed'
  <2>1. CASE socket = None
    BY <1>4, <2>1 DEF BindAgain, At, Goto
  <2>2. CASE socket # None
    BY <1>4, <2>2 DEF BindAgain, At, Goto
  <2> QED
    BY <2>1, <2>2
<1>5. ASSUME NEW d \in Daemons, WritePid(d) PROVE Typed'
  BY <1>5 DEF WritePid, At, Goto
<1>6. ASSUME NEW d \in Daemons, Reap(d) PROVE Typed'
  BY <1>6 DEF Reap, At, TakeArm
<1>7. ASSUME NEW d \in Daemons, LoopAgain(d) PROVE Typed'
  BY <1>7 DEF LoopAgain, At, Goto
<1>8. ASSUME NEW d \in Daemons, ShutdownNotified(d) PROVE Typed'
  BY <1>8 DEF ShutdownNotified, At, Goto
<1>9. ASSUME NEW d \in Daemons, DrainDone(d) PROVE Typed'
  BY <1>9 DEF DrainDone, At, Goto
<1>10. ASSUME NEW d \in Daemons, DrainTimeout(d) PROVE Typed'
  BY <1>10 DEF DrainTimeout, At, Goto
<1>11. ASSUME NEW d \in Daemons, DropSocket(d) PROVE Typed'
  BY <1>11 DEF DropSocket, At, Goto
<1>12. ASSUME NEW d \in Daemons, DropPid(d) PROVE Typed'
  BY <1>12 DEF DropPid, At, Vanish, Asleep
<1>13. ASSUME NEW d \in Daemons, Signalled(d) PROVE Typed'
  BY <1>13 DEF Signalled, At, Goto
<1>14. ASSUME NEW d \in Daemons, Crash(d) PROVE Typed'
  BY <1>14 DEF Crash, At, Vanish, Asleep
<1>15. ASSUME NEW d \in Daemons, PidReused(d) PROVE Typed'
  BY <1>15 DEF PidReused, At
<1>16. ASSUME NEW d \in Daemons, LookAtSessions(d) PROVE Typed'
  BY <1>16 DEF LookAtSessions, Monitor
<1>17. ASSUME NEW d \in Daemons, LookAtPermits(d) PROVE Typed'
  BY <1>17 DEF LookAtPermits, Monitor, Asleep
<1>18. ASSUME NEW d \in Daemons, IdleList(d) PROVE Typed'
  BY <1>18 DEF IdleList, Monitor
<1>19. ASSUME NEW d \in Daemons, IdleKill(d) PROVE Typed'
  BY <1>19 DEF IdleKill, Monitor
<1>20. ASSUME NEW d \in Daemons, IdleNotify(d) PROVE Typed'
  <2>1. server' = [server EXCEPT ![d].notified = server[d].notified \/ server[d].pc = "select"]
    BY <1>20 DEF IdleNotify, NotifyWaiters
  <2>2. \A b \in BOOLEAN : [server EXCEPT ![d].notified = b] \in [Daemons -> [pc : Pcs, notified : BOOLEAN]]
    OBVIOUS
  <2>3. server' \in [Daemons -> [pc : Pcs, notified : BOOLEAN]]
    BY Zenon, <2>1, <2>2
  <2>4. idle' = [idle EXCEPT ![d].pc = "gone"] /\ UNCHANGED <<files, work, stop, client, idleKilled>>
    BY <1>20 DEF IdleNotify
  <2>5. DOMAIN idle' = Daemons /\ \A x \in Daemons : DOMAIN idle'[x] = {"pc", "looks", "saw", "targets"}
    BY <2>4
  <2> QED
    BY <2>3, <2>4, <2>5
<1>21. ASSUME NEW d \in Daemons, SessionEnds(d) PROVE Typed'
  BY <1>21 DEF SessionEnds
<1>22. ASSUME NEW d \in Daemons, NEW c \in Clients, Accept(d, c) PROVE Typed'
  BY <1>22 DEF Accept, At, TakeArm, Full
<1>23. ASSUME NEW c \in Clients, Call(c) PROVE Typed'
  BY <1>23 DEF Call, Called
<1>24. ASSUME NEW c \in Clients, Connect(c) PROVE Typed'
  BY <1>24 DEF Connect, Called, Connected
<1>25. ASSUME NEW c \in Clients, StartDaemon(c) PROVE Typed'
  BY <1>25, NamesApart DEF StartDaemon, Goto
<1>26. ASSUME NEW c \in Clients, PollDaemon(c) PROVE Typed'
  BY <1>26 DEF PollDaemon, At, Called, Return, Connected
<1>27. ASSUME NEW c \in Clients, ConnectionClosed(c) PROVE Typed'
  BY <1>27 DEF ConnectionClosed, Called, Return
<1>28. ASSUME NEW c \in Clients, StartTimeout(c) PROVE Typed'
  BY <1>28 DEF StartTimeout, At, Called, Return
<1>29. ASSUME NEW c \in Clients, Handle(c) PROVE Typed'
  BY <1>29 DEF Handle, Called, Return
<1>30. ASSUME NEW c \in Clients, RequestTimeout(c) PROVE Typed'
  BY <1>30 DEF RequestTimeout, Called, Return
<1>31. ASSUME NEW c \in Clients, TaskEnds(c) PROVE Typed'
  BY <1>31 DEF TaskEnds, At, Called
<1>32. ASSUME NEW c \in Clients, StopList(c) PROVE Typed'
  BY <1>32 DEF StopList, StopRuns
<1>33. ASSUME NEW c \in Clients, StopKill(c) PROVE Typed'
  BY ZenonT(30), <1>33 DEF StopKill, StopRuns
<1>34. ASSUME NEW c \in Clients, StopNotify(c) PROVE Typed'
  <2>1. CASE client[c].daemon \in Daemons
    <3> DEFINE d == client[c].daemon
    <3>1. d \in Daemons /\ NotifyWaiters(d) /\ UNCHANGED <<socket, pidFile, sessions, idle, client>>
      BY <1>34, <2>1 DEF StopNotify
    <3> HIDE DEF d
    <3> QED
      BY ZenonT(30), <3>1 DEF NotifyWaiters
  <2>2. CASE client[c].daemon \notin Daemons
    BY <1>34, <2>2 DEF StopNotify, NotifyWaiters
  <2> QED
    BY <2>1, <2>2
<1>35. ASSUME NEW d \in Daemons, WritePidFails(d) PROVE Typed'
  BY <1>35 DEF WritePidFails, At, Vanish, Asleep
<1> HIDE DEF Typed, Pcs, Starting, Running, Ending, Dead, Broken, files, work
<1> QED
  BY <1>1, <1>2, <1>3, <1>4, <1>5, <1>6, <1>7, <1>8, <1>9, <1>10, <1>11, <1>12,
     <1>13, <1>14, <1>15, <1>16, <1>17, <1>18, <1>19, <1>20, <1>21, <1>22,
     <1>23, <1>24, <1>25, <1>26, <1>27, <1>28, <1>29, <1>30, <1>31, <1>32,
     <1>33, <1>34, <1>35
  DEF DStep, DaemonStep, CallStep, Bind, Loop, End, IdleMonitor, ClientStep, StopTask

LEMMA FilesStep ==
    ASSUME Typed, FilesOwned, DStep
    PROVE  FilesOwned'
<1> USE DEF Typed, FilesOwned, At, Running, Ending, Dead, Broken, files, work
<1>1. ASSUME NEW d \in Daemons, BindFirst(d) PROVE FilesOwned'
  <2>1. At(d, {"bind", "rebind"}) /\ d # None /\ pidFile' = pidFile /\ client' = client
    BY <1>1, NamesApart DEF BindFirst
  <2>2. CASE socket = None /\ socket' = d /\ server' = [server EXCEPT ![d].pc = "writePid"]
    BY <2>1, <2>2, NamesApart
  <2>3. CASE socket' = socket /\ \E pc \in {"check", "failed"} : server' = [server EXCEPT ![d].pc = pc]
    BY <2>1, <2>3, NamesApart
  <2> QED
    BY <1>1, <2>2, <2>3 DEF BindFirst, Goto
<1>2. ASSUME NEW d \in Daemons, CheckAlive(d) PROVE FilesOwned'
  BY <1>2 DEF CheckAlive, At, Goto
<1>3. ASSUME NEW d \in Daemons, UnlinkStale(d) PROVE FilesOwned'
  BY <1>3 DEF UnlinkStale, At, Goto
<1>4. ASSUME NEW d \in Daemons, BindAgain(d) PROVE FilesOwned'
  <2>1. At(d, {"bind", "rebind"}) /\ d # None /\ pidFile' = pidFile /\ client' = client
    BY <1>4, NamesApart DEF BindAgain
  <2>2. CASE socket = None /\ socket' = d /\ server' = [server EXCEPT ![d].pc = "writePid"]
    BY <2>1, <2>2, NamesApart
  <2>3. CASE socket' = socket /\ \E pc \in {"check", "failed"} : server' = [server EXCEPT ![d].pc = pc]
    BY <2>1, <2>3, NamesApart
  <2> QED
    BY <1>4, <2>2, <2>3 DEF BindAgain, Goto
<1>5. ASSUME NEW d \in Daemons, WritePid(d) PROVE FilesOwned'
  BY <1>5 DEF WritePid, At, Goto
<1>6. ASSUME NEW d \in Daemons, Reap(d) PROVE FilesOwned'
  BY <1>6 DEF Reap, At, TakeArm
<1>7. ASSUME NEW d \in Daemons, LoopAgain(d) PROVE FilesOwned'
  BY <1>7 DEF LoopAgain, At, Goto
<1>8. ASSUME NEW d \in Daemons, ShutdownNotified(d) PROVE FilesOwned'
  BY <1>8 DEF ShutdownNotified, At, Goto
<1>9. ASSUME NEW d \in Daemons, DrainDone(d) PROVE FilesOwned'
  BY <1>9 DEF DrainDone, At, Goto
<1>10. ASSUME NEW d \in Daemons, DrainTimeout(d) PROVE FilesOwned'
  BY <1>10 DEF DrainTimeout, At, Goto
<1>11. ASSUME NEW d \in Daemons, DropSocket(d) PROVE FilesOwned'
  BY <1>11 DEF DropSocket, At, Goto
<1>12. ASSUME NEW d \in Daemons, DropPid(d) PROVE FilesOwned'
  BY <1>12 DEF DropPid, At, Vanish, Asleep
<1>13. ASSUME NEW d \in Daemons, Signalled(d) PROVE FilesOwned'
  BY <1>13 DEF Signalled, At, Goto
<1>14. ASSUME NEW d \in Daemons, Crash(d) PROVE FilesOwned'
  BY <1>14 DEF Crash, At, Vanish, Asleep
<1>15. ASSUME NEW d \in Daemons, PidReused(d) PROVE FilesOwned'
  BY <1>15 DEF PidReused, At
<1>16. ASSUME NEW d \in Daemons, LookAtSessions(d) PROVE FilesOwned'
  BY <1>16 DEF LookAtSessions, Monitor
<1>17. ASSUME NEW d \in Daemons, LookAtPermits(d) PROVE FilesOwned'
  BY <1>17 DEF LookAtPermits, Monitor, Asleep
<1>18. ASSUME NEW d \in Daemons, IdleList(d) PROVE FilesOwned'
  BY <1>18 DEF IdleList, Monitor
<1>19. ASSUME NEW d \in Daemons, IdleKill(d) PROVE FilesOwned'
  BY <1>19 DEF IdleKill, Monitor
<1>20. ASSUME NEW d \in Daemons, IdleNotify(d) PROVE FilesOwned'
  BY <1>20 DEF IdleNotify, NotifyWaiters, Monitor
<1>21. ASSUME NEW d \in Daemons, SessionEnds(d) PROVE FilesOwned'
  BY <1>21 DEF SessionEnds
<1>22. ASSUME NEW d \in Daemons, NEW c \in Clients, Accept(d, c) PROVE FilesOwned'
  BY <1>22 DEF Accept, At, TakeArm, Full
<1>23. ASSUME NEW c \in Clients, Call(c) PROVE FilesOwned'
  BY <1>23 DEF Call, Called
<1>24. ASSUME NEW c \in Clients, Connect(c) PROVE FilesOwned'
  BY <1>24 DEF Connect, Called, Connected
<1>25. ASSUME NEW c \in Clients, StartDaemon(c) PROVE FilesOwned'
  BY <1>25, NamesApart DEF StartDaemon, Goto, Called
<1>26. ASSUME NEW c \in Clients, PollDaemon(c) PROVE FilesOwned'
  BY <1>26 DEF PollDaemon, At, Called, Return, Connected
<1>27. ASSUME NEW c \in Clients, ConnectionClosed(c) PROVE FilesOwned'
  BY <1>27 DEF ConnectionClosed, Called, Return
<1>28. ASSUME NEW c \in Clients, StartTimeout(c) PROVE FilesOwned'
  BY <1>28 DEF StartTimeout, At, Called, Return
<1>29. ASSUME NEW c \in Clients, Handle(c) PROVE FilesOwned'
  BY <1>29 DEF Handle, Called, Return
<1>30. ASSUME NEW c \in Clients, RequestTimeout(c) PROVE FilesOwned'
  BY <1>30 DEF RequestTimeout, Called, Return
<1>31. ASSUME NEW c \in Clients, TaskEnds(c) PROVE FilesOwned'
  BY <1>31 DEF TaskEnds, At, Called
<1>32. ASSUME NEW c \in Clients, StopList(c) PROVE FilesOwned'
  BY <1>32 DEF StopList, StopRuns
<1>33. ASSUME NEW c \in Clients, StopKill(c) PROVE FilesOwned'
  BY <1>33 DEF StopKill, StopRuns
<1>34. ASSUME NEW c \in Clients, StopNotify(c) PROVE FilesOwned'
  BY <1>34 DEF StopNotify, NotifyWaiters, StopRuns
<1>35. ASSUME NEW d \in Daemons, WritePidFails(d) PROVE FilesOwned'
  BY <1>35 DEF WritePidFails, At, Vanish, Asleep
<1> HIDE DEF Typed, FilesOwned, At, Running, Ending, Dead, Broken, files, work
<1> QED
  BY <1>1, <1>2, <1>3, <1>4, <1>5, <1>6, <1>7, <1>8, <1>9, <1>10, <1>11, <1>12,
     <1>13, <1>14, <1>15, <1>16, <1>17, <1>18, <1>19, <1>20, <1>21, <1>22,
     <1>23, <1>24, <1>25, <1>26, <1>27, <1>28, <1>29, <1>30, <1>31, <1>32,
     <1>33, <1>34, <1>35
  DEF DStep, DaemonStep, CallStep, Bind, Loop, End, IdleMonitor, ClientStep, StopTask

\* A call under way when something unsettles it stays marked.
LEMMA StaysDisturbed ==
    ASSUME Disturb, NEW c \in Clients
    PROVE  /\ disturbed[c] => disturbed'[c]
           /\ client[c].pc \notin {"idle", "done"} /\ Unsettled(c) => disturbed'[c]
  BY DEF Disturb

\* A session that came late is remembered, and none is recorded where none came.
LEMMA LateKept ==
    ASSUME Typed, Typed', ComesLate, late \subseteq Clients
    PROVE  /\ late \subseteq late' /\ late' \subseteq Clients
           /\ \A d \in Daemons : idle[d].pc \in {"connsAgain", "list"} => sessions'[d] \ sessions[d] \subseteq late'
  BY DEF Typed, ComesLate

\* Steps that take no monitor past its last look.
LEMMA SparedKeeps ==
    ASSUME Typed, Typed', Spared, ComesLate, idleKilled' = idleKilled,
           \A d \in Daemons : idle'[d] = idle[d] \/ idle'[d].pc \in {"sleep", "conns", "sessionsAgain", "gone"}
    PROVE  Spared'
<1>1. /\ late \subseteq late' /\ late' \subseteq Clients
      /\ \A d \in Daemons : idle[d].pc \in {"connsAgain", "list"} => sessions'[d] \ sessions[d] \subseteq late'
  BY LateKept DEF Spared
<1>2. ASSUME NEW d \in Daemons PROVE Late(d)'
  <2>1. CASE idle'[d] = idle[d]
    BY <1>1, <2>1 DEF Spared, Late
  <2>2. CASE idle'[d].pc \in {"sleep", "conns", "sessionsAgain", "gone"}
    BY <2>2 DEF Late
  <2> QED
    BY <2>1, <2>2
<1> QED
  BY <1>1, <1>2 DEF Spared, IdleSparesSessions

LEMMA SparedStep ==
    ASSUME Typed, Typed', Spared, DStep, ComesLate
    PROVE  Spared'
<1> USE DEF files, work
<1>1. ASSUME NEW d \in Daemons, BindFirst(d) PROVE Spared'
  BY <1>1, SparedKeeps DEF BindFirst, At, Goto
<1>2. ASSUME NEW d \in Daemons, CheckAlive(d) PROVE Spared'
  BY <1>2, SparedKeeps DEF CheckAlive, At, Goto
<1>3. ASSUME NEW d \in Daemons, UnlinkStale(d) PROVE Spared'
  BY <1>3, SparedKeeps DEF UnlinkStale, At, Goto
<1>4. ASSUME NEW d \in Daemons, BindAgain(d) PROVE Spared'
  BY <1>4, SparedKeeps DEF BindAgain, At, Goto
<1>5. ASSUME NEW d \in Daemons, WritePid(d) PROVE Spared'
  BY <1>5, SparedKeeps DEF WritePid, At, Goto
<1>6. ASSUME NEW d \in Daemons, Reap(d) PROVE Spared'
  BY <1>6, SparedKeeps DEF Reap, At, TakeArm
<1>7. ASSUME NEW d \in Daemons, LoopAgain(d) PROVE Spared'
  BY <1>7, SparedKeeps DEF LoopAgain, At, Goto
<1>8. ASSUME NEW d \in Daemons, ShutdownNotified(d) PROVE Spared'
  BY <1>8, SparedKeeps DEF ShutdownNotified, At, Goto
<1>9. ASSUME NEW d \in Daemons, DrainDone(d) PROVE Spared'
  BY <1>9, SparedKeeps DEF DrainDone, At, Goto
<1>10. ASSUME NEW d \in Daemons, DrainTimeout(d) PROVE Spared'
  BY <1>10, SparedKeeps DEF DrainTimeout, At, Goto
<1>11. ASSUME NEW d \in Daemons, DropSocket(d) PROVE Spared'
  BY <1>11, SparedKeeps DEF DropSocket, At, Goto
<1>12. ASSUME NEW d \in Daemons, DropPid(d) PROVE Spared'
  BY <1>12, SparedKeeps DEF DropPid, At, Vanish, Asleep
<1>13. ASSUME NEW d \in Daemons, Signalled(d) PROVE Spared'
  BY <1>13, SparedKeeps DEF Signalled, At, Goto
<1>14. ASSUME NEW d \in Daemons, Crash(d) PROVE Spared'
  BY <1>14, SparedKeeps DEF Crash, At, Vanish, Asleep
<1>15. ASSUME NEW d \in Daemons, PidReused(d) PROVE Spared'
  BY <1>15, SparedKeeps DEF PidReused, At
<1>16. ASSUME NEW d \in Daemons, LookAtSessions(d) PROVE Spared'
  <2>1. late \subseteq late' /\ late' \subseteq Clients
    BY LateKept DEF Spared
  <2>2. ASSUME NEW x \in Daemons PROVE Late(x)'
    <3>1. CASE x # d
      BY <1>16, <2>1, <3>1 DEF Typed, Spared, Late, LookAtSessions
    <3>2. CASE x = d
      BY <1>16, <2>1, <3>2 DEF Typed, Spared, Late, Monitor, LookAtSessions
    <3> QED
      BY <3>1, <3>2
  <2> QED
    BY <1>16, <2>1, <2>2 DEF Spared, IdleSparesSessions, LookAtSessions
<1>17. ASSUME NEW d \in Daemons, LookAtPermits(d) PROVE Spared'
  <2>1. late \subseteq late' /\ late' \subseteq Clients
    BY LateKept DEF Spared
  <2>2. ASSUME NEW x \in Daemons PROVE Late(x)'
    <3>1. CASE x # d
      BY <1>17, <2>1, <3>1 DEF Typed, Spared, Late, LookAtPermits, Asleep
    <3>2. CASE x = d
      BY <1>17, <2>1, <3>2 DEF Typed, Spared, Late, Monitor, LookAtPermits, Asleep
    <3> QED
      BY <3>1, <3>2
  <2> QED
    BY <1>17, <2>1, <2>2 DEF Spared, IdleSparesSessions, LookAtPermits
<1>18. ASSUME NEW d \in Daemons, IdleList(d) PROVE Spared'
  <2>1. late \subseteq late' /\ late' \subseteq Clients
    BY LateKept DEF Spared
  <2>2. ASSUME NEW x \in Daemons PROVE Late(x)'
    <3>1. CASE x # d
      BY <1>18, <2>1, <3>1 DEF Typed, Spared, Late, IdleList
    <3>2. CASE x = d
      BY <1>18, <2>1, <3>2 DEF Typed, Spared, Late, Monitor, IdleList
    <3> QED
      BY <3>1, <3>2
  <2> QED
    BY <1>18, <2>1, <2>2 DEF Spared, IdleSparesSessions, IdleList
<1>19. ASSUME NEW d \in Daemons, IdleKill(d) PROVE Spared'
  <2>1. PICK s \in idle[d].targets :
            /\ sessions' = [sessions EXCEPT ![d] = @ \ {s}]
            /\ idle' = [idle EXCEPT ![d].targets = @ \ {s}]
            /\ idleKilled' = idleKilled \cup ({s} \cap sessions[d])
    BY <1>19 DEF IdleKill
  <2>2. s \in late
    BY <1>19, <2>1 DEF IdleKill, Monitor, Spared, Late
  <2>3. late \subseteq late' /\ late' \subseteq Clients
    BY LateKept DEF Spared
  <2>4. IdleSparesSessions'
    BY <2>1, <2>2, <2>3 DEF Spared, IdleSparesSessions
  <2>5. ASSUME NEW x \in Daemons PROVE Late(x)'
    BY <2>1, <2>3 DEF Typed, Spared, Late
  <2> QED
    BY <2>3, <2>4, <2>5 DEF Spared
<1>20. ASSUME NEW d \in Daemons, IdleNotify(d) PROVE Spared'
  BY <1>20, SparedKeeps DEF IdleNotify, NotifyWaiters, Monitor
<1>21. ASSUME NEW d \in Daemons, SessionEnds(d) PROVE Spared'
  BY <1>21, SparedKeeps DEF SessionEnds
<1>22. ASSUME NEW d \in Daemons, NEW c \in Clients, Accept(d, c) PROVE Spared'
  BY <1>22, SparedKeeps DEF Accept, At, TakeArm, Full
<1>23. ASSUME NEW c \in Clients, Call(c) PROVE Spared'
  BY <1>23, SparedKeeps DEF Call, Called
<1>24. ASSUME NEW c \in Clients, Connect(c) PROVE Spared'
  BY <1>24, SparedKeeps DEF Connect, Called, Connected
<1>25. ASSUME NEW c \in Clients, StartDaemon(c) PROVE Spared'
  BY <1>25, SparedKeeps DEF StartDaemon, Goto, Called
<1>26. ASSUME NEW c \in Clients, PollDaemon(c) PROVE Spared'
  BY <1>26, SparedKeeps DEF PollDaemon, At, Called, Return, Connected
<1>27. ASSUME NEW c \in Clients, ConnectionClosed(c) PROVE Spared'
  BY <1>27, SparedKeeps DEF ConnectionClosed, Called, Return
<1>28. ASSUME NEW c \in Clients, StartTimeout(c) PROVE Spared'
  BY <1>28, SparedKeeps DEF StartTimeout, At, Called, Return
<1>29. ASSUME NEW c \in Clients, Handle(c) PROVE Spared'
  BY <1>29, SparedKeeps DEF Handle, Called, Return
<1>30. ASSUME NEW c \in Clients, RequestTimeout(c) PROVE Spared'
  BY <1>30, SparedKeeps DEF RequestTimeout, Called, Return
<1>31. ASSUME NEW c \in Clients, TaskEnds(c) PROVE Spared'
  BY <1>31, SparedKeeps DEF TaskEnds, At, Called
<1>32. ASSUME NEW c \in Clients, StopList(c) PROVE Spared'
  BY <1>32, SparedKeeps DEF StopList, StopRuns
<1>33. ASSUME NEW c \in Clients, StopKill(c) PROVE Spared'
  BY <1>33, SparedKeeps DEF StopKill, StopRuns
<1>34. ASSUME NEW c \in Clients, StopNotify(c) PROVE Spared'
  BY <1>34, SparedKeeps DEF StopNotify, NotifyWaiters, StopRuns
<1>35. ASSUME NEW d \in Daemons, WritePidFails(d) PROVE Spared'
  BY <1>35, SparedKeeps DEF WritePidFails, At, Vanish, Asleep
<1> HIDE DEF files, work
<1> QED
  BY <1>1, <1>2, <1>3, <1>4, <1>5, <1>6, <1>7, <1>8, <1>9, <1>10, <1>11, <1>12,
     <1>13, <1>14, <1>15, <1>16, <1>17, <1>18, <1>19, <1>20, <1>21, <1>22,
     <1>23, <1>24, <1>25, <1>26, <1>27, <1>28, <1>29, <1>30, <1>31, <1>32,
     <1>33, <1>34, <1>35
  DEF DStep, DaemonStep, CallStep, Bind, Loop, End, IdleMonitor, ClientStep, StopTask

-----------------------------------------------------------------------------
(* The rest of the types, and the limit of the connections.                 *)

Working ==
    /\ queue \in [Daemons -> SUBSET Clients] /\ tasks \in [Daemons -> SUBSET Clients]
    /\ finished \in [Daemons -> BOOLEAN]
    /\ reused \subseteq Daemons

Limited ==
    \A d \in Daemons :
        /\ IsFiniteSet(tasks[d]) /\ Cardinality(tasks[d]) <= MaxConnections
        /\ queue[d] # {} => At(d, Listening)

Monitoring ==
    \A d \in Daemons :
        /\ idle[d].pc \in {"sleep", "conns", "sessionsAgain", "connsAgain", "list", "kill", "gone"}
        /\ idle[d].looks \in 0..IdleLooks - 1 /\ idle[d].targets \subseteq Clients

Stopping ==
    /\ DOMAIN stop = Clients
    /\ \A c \in Clients : /\ DOMAIN stop[c] = {"pc", "targets"}
                          /\ stop[c].pc \in {"none", "list", "kill", "gone"}
                          /\ stop[c].targets \subseteq Clients
                          /\ stop[c].pc = "list" => client[c].daemon \in Daemons

Calling ==
    \A c \in Clients :
        /\ client[c].pc \in {"idle", "connect", "poll", "sent", "done"}
        /\ client[c].result \in {"none", "ok", "closed", "no_daemon", "timeout"}
        /\ client[c].pc = "sent" => client[c].daemon \in Daemons

Types == Working /\ Limited /\ Monitoring /\ Stopping /\ Calling

LEMMA InitTypes == Init => Types
<1> SUFFICES ASSUME Init PROVE Types
  OBVIOUS
<1>1. Working
  BY DEF Init, Working
<1>2. Limited
  BY FS_EmptySet, DaemonAssumption DEF Init, Limited
<1>3. Monitoring
  BY DaemonAssumption DEF Init, Monitoring, Asleep
<1>4. Stopping
  BY DEF Init, Stopping
<1>5. Calling
  BY DEF Init, Calling
<1> QED
  BY <1>1, <1>2, <1>3, <1>4, <1>5 DEF Types

LEMMA WorkingStep ==
    ASSUME Typed, Working, DStep
    PROVE  Working'
<1> USE DEF Working, Typed, files, work
<1>1. ASSUME NEW d \in Daemons, BindFirst(d) PROVE Working'
  BY <1>1 DEF BindFirst, At, Goto
<1>2. ASSUME NEW d \in Daemons, CheckAlive(d) PROVE Working'
  BY <1>2 DEF CheckAlive, At, Goto
<1>3. ASSUME NEW d \in Daemons, UnlinkStale(d) PROVE Working'
  BY <1>3 DEF UnlinkStale, At, Goto
<1>4. ASSUME NEW d \in Daemons, BindAgain(d) PROVE Working'
  BY <1>4 DEF BindAgain, At, Goto
<1>5. ASSUME NEW d \in Daemons, WritePid(d) PROVE Working'
  BY <1>5 DEF WritePid, At, Goto
<1>6. ASSUME NEW d \in Daemons, Reap(d) PROVE Working'
  BY <1>6 DEF Reap, At, TakeArm
<1>7. ASSUME NEW d \in Daemons, LoopAgain(d) PROVE Working'
  BY <1>7 DEF LoopAgain, At, Goto
<1>8. ASSUME NEW d \in Daemons, ShutdownNotified(d) PROVE Working'
  BY <1>8 DEF ShutdownNotified, At, Goto
<1>9. ASSUME NEW d \in Daemons, DrainDone(d) PROVE Working'
  BY <1>9 DEF DrainDone, At, Goto
<1>10. ASSUME NEW d \in Daemons, DrainTimeout(d) PROVE Working'
  BY <1>10 DEF DrainTimeout, At, Goto
<1>11. ASSUME NEW d \in Daemons, DropSocket(d) PROVE Working'
  BY <1>11 DEF DropSocket, At, Goto
<1>12. ASSUME NEW d \in Daemons, DropPid(d) PROVE Working'
  BY <1>12 DEF DropPid, At, Vanish, Asleep
<1>13. ASSUME NEW d \in Daemons, Signalled(d) PROVE Working'
  BY <1>13 DEF Signalled, At, Goto
<1>14. ASSUME NEW d \in Daemons, Crash(d) PROVE Working'
  BY <1>14 DEF Crash, At, Vanish, Asleep
<1>15. ASSUME NEW d \in Daemons, PidReused(d) PROVE Working'
  BY <1>15 DEF PidReused, At
<1>16. ASSUME NEW d \in Daemons, LookAtSessions(d) PROVE Working'
  BY <1>16 DEF LookAtSessions, Monitor
<1>17. ASSUME NEW d \in Daemons, LookAtPermits(d) PROVE Working'
  BY <1>17 DEF LookAtPermits, Monitor, Asleep
<1>18. ASSUME NEW d \in Daemons, IdleList(d) PROVE Working'
  BY <1>18 DEF IdleList, Monitor
<1>19. ASSUME NEW d \in Daemons, IdleKill(d) PROVE Working'
  BY <1>19 DEF IdleKill, Monitor
<1>20. ASSUME NEW d \in Daemons, IdleNotify(d) PROVE Working'
  BY <1>20 DEF IdleNotify, NotifyWaiters, Monitor
<1>21. ASSUME NEW d \in Daemons, SessionEnds(d) PROVE Working'
  BY <1>21 DEF SessionEnds
<1>22. ASSUME NEW d \in Daemons, NEW c \in Clients, Accept(d, c) PROVE Working'
  BY <1>22 DEF Accept, At, TakeArm, Full
<1>23. ASSUME NEW c \in Clients, Call(c) PROVE Working'
  BY <1>23 DEF Call, Called
<1>24. ASSUME NEW c \in Clients, Connect(c) PROVE Working'
  BY <1>24 DEF Connect, Called, Connected
<1>25. ASSUME NEW c \in Clients, StartDaemon(c) PROVE Working'
  BY <1>25 DEF StartDaemon, Goto, Called
<1>26. ASSUME NEW c \in Clients, PollDaemon(c) PROVE Working'
  BY <1>26 DEF PollDaemon, At, Called, Return, Connected
<1>27. ASSUME NEW c \in Clients, ConnectionClosed(c) PROVE Working'
  BY <1>27 DEF ConnectionClosed, Called, Return
<1>28. ASSUME NEW c \in Clients, StartTimeout(c) PROVE Working'
  BY <1>28 DEF StartTimeout, At, Called, Return
<1>29. ASSUME NEW c \in Clients, Handle(c) PROVE Working'
  BY <1>29 DEF Handle, Called, Return
<1>30. ASSUME NEW c \in Clients, RequestTimeout(c) PROVE Working'
  BY <1>30 DEF RequestTimeout, Called, Return
<1>31. ASSUME NEW c \in Clients, TaskEnds(c) PROVE Working'
  BY <1>31 DEF TaskEnds, At, Called
<1>32. ASSUME NEW c \in Clients, StopList(c) PROVE Working'
  BY <1>32 DEF StopList, StopRuns
<1>33. ASSUME NEW c \in Clients, StopKill(c) PROVE Working'
  BY <1>33 DEF StopKill, StopRuns
<1>34. ASSUME NEW c \in Clients, StopNotify(c) PROVE Working'
  BY <1>34 DEF StopNotify, NotifyWaiters, StopRuns
<1>35. ASSUME NEW d \in Daemons, WritePidFails(d) PROVE Working'
  BY <1>35 DEF WritePidFails, At, Vanish, Asleep
<1> HIDE DEF Working, Typed, files, work
<1> QED
  BY <1>1, <1>2, <1>3, <1>4, <1>5, <1>6, <1>7, <1>8, <1>9, <1>10, <1>11, <1>12,
     <1>13, <1>14, <1>15, <1>16, <1>17, <1>18, <1>19, <1>20, <1>21, <1>22,
     <1>23, <1>24, <1>25, <1>26, <1>27, <1>28, <1>29, <1>30, <1>31, <1>32,
     <1>33, <1>34, <1>35
  DEF DStep, DaemonStep, CallStep, Bind, Loop, End, IdleMonitor, ClientStep, StopTask

LEMMA LimitedStep ==
    ASSUME Typed, FilesOwned, Working, Limited, DStep
    PROVE  Limited'
<1> USE DEF Limited, Typed, Working, At, Listening, Running, Ending, files, work
<1>1. ASSUME NEW d \in Daemons, BindFirst(d) PROVE Limited'
  BY <1>1 DEF BindFirst, At, Goto
<1>2. ASSUME NEW d \in Daemons, CheckAlive(d) PROVE Limited'
  BY <1>2 DEF CheckAlive, At, Goto
<1>3. ASSUME NEW d \in Daemons, UnlinkStale(d) PROVE Limited'
  BY <1>3 DEF UnlinkStale, At, Goto
<1>4. ASSUME NEW d \in Daemons, BindAgain(d) PROVE Limited'
  BY <1>4 DEF BindAgain, At, Goto
<1>5. ASSUME NEW d \in Daemons, WritePid(d) PROVE Limited'
  BY <1>5 DEF WritePid, At, Goto
<1>6. ASSUME NEW d \in Daemons, Reap(d) PROVE Limited'
  BY <1>6 DEF Reap, At, TakeArm
<1>7. ASSUME NEW d \in Daemons, LoopAgain(d) PROVE Limited'
  BY <1>7 DEF LoopAgain, At, Goto
<1>8. ASSUME NEW d \in Daemons, ShutdownNotified(d) PROVE Limited'
  BY <1>8 DEF ShutdownNotified, At, Goto
<1>9. ASSUME NEW d \in Daemons, DrainDone(d) PROVE Limited'
  BY <1>9 DEF DrainDone, At, Goto
<1>10. ASSUME NEW d \in Daemons, DrainTimeout(d) PROVE Limited'
  BY <1>10, FS_EmptySet, DaemonAssumption DEF DrainTimeout, At, Goto
<1>11. ASSUME NEW d \in Daemons, DropSocket(d) PROVE Limited'
  BY <1>11 DEF DropSocket, At, Goto
<1>12. ASSUME NEW d \in Daemons, DropPid(d) PROVE Limited'
  BY <1>12, FS_EmptySet, DaemonAssumption DEF DropPid, At, Vanish, Asleep
<1>13. ASSUME NEW d \in Daemons, Signalled(d) PROVE Limited'
  BY <1>13, FS_EmptySet, DaemonAssumption DEF Signalled, At, Goto
<1>14. ASSUME NEW d \in Daemons, Crash(d) PROVE Limited'
  BY <1>14, FS_EmptySet, DaemonAssumption DEF Crash, At, Vanish, Asleep
<1>15. ASSUME NEW d \in Daemons, PidReused(d) PROVE Limited'
  BY <1>15 DEF PidReused, At
<1>16. ASSUME NEW d \in Daemons, LookAtSessions(d) PROVE Limited'
  BY <1>16 DEF LookAtSessions, Monitor
<1>17. ASSUME NEW d \in Daemons, LookAtPermits(d) PROVE Limited'
  BY <1>17 DEF LookAtPermits, Monitor, Asleep
<1>18. ASSUME NEW d \in Daemons, IdleList(d) PROVE Limited'
  BY <1>18 DEF IdleList, Monitor
<1>19. ASSUME NEW d \in Daemons, IdleKill(d) PROVE Limited'
  BY <1>19 DEF IdleKill, Monitor
<1>20. ASSUME NEW d \in Daemons, IdleNotify(d) PROVE Limited'
  BY <1>20 DEF IdleNotify, NotifyWaiters, Monitor
<1>21. ASSUME NEW d \in Daemons, SessionEnds(d) PROVE Limited'
  BY <1>21 DEF SessionEnds
<1>22. ASSUME NEW d \in Daemons, NEW c \in Clients, Accept(d, c) PROVE Limited'
  <2>1. /\ At(d, {"select"}) /\ TakeArm(d) /\ queue' = [queue EXCEPT ![d] = @ \ {c}]
        /\ tasks' = [tasks EXCEPT ![d] = IF Full(d) THEN @ ELSE @ \cup {c}]
    BY <1>22 DEF Accept
  <2>2. ASSUME NEW x \in Daemons PROVE IsFiniteSet(tasks'[x]) /\ Cardinality(tasks'[x]) <= MaxConnections
    <3>1. CASE tasks'[x] = tasks[x]
      BY <3>1
    <3>2. CASE tasks'[x] = tasks[x] \cup {c} /\ ~Full(x)
      <4>1. IsFiniteSet(tasks[x]) /\ Cardinality(tasks[x]) \in Nat /\ ~(Cardinality(tasks[x]) >= MaxConnections)
        BY <3>2, FS_CardinalityType DEF Full
      <4>2. /\ IsFiniteSet(tasks[x] \cup {c})
            /\ Cardinality(tasks[x] \cup {c}) \in {Cardinality(tasks[x]), Cardinality(tasks[x]) + 1}
        BY <4>1, FS_AddElement
      <4> QED
        BY <3>2, <4>1, <4>2, DaemonAssumption
    <3> QED
      BY <2>1, <3>1, <3>2
  <2>3. ASSUME NEW x \in Daemons, queue'[x] # {} PROVE At(x, Listening)'
    BY <2>1, <2>3 DEF TakeArm
  <2> QED
    BY <2>2, <2>3
<1>23. ASSUME NEW c \in Clients, Call(c) PROVE Limited'
  BY <1>23 DEF Call, Called
<1>24. ASSUME NEW c \in Clients, Connect(c) PROVE Limited'
  <2>1. UNCHANGED <<server, tasks>>
    BY <1>24 DEF Connect
  <2>2. queue' = queue \/ (Reachable /\ queue' = [queue EXCEPT ![socket] = @ \cup {c}])
    BY <1>24 DEF Connect, Connected
  <2> QED
    BY <2>1, <2>2 DEF Reachable
<1>25. ASSUME NEW c \in Clients, StartDaemon(c) PROVE Limited'
  BY <1>25, NamesApart DEF StartDaemon, Goto, Called, FilesOwned
<1>26. ASSUME NEW c \in Clients, PollDaemon(c) PROVE Limited'
  <2>1. UNCHANGED <<server, tasks>>
    BY <1>26 DEF PollDaemon
  <2>2. queue' = queue \/ (Reachable /\ queue' = [queue EXCEPT ![socket] = @ \cup {c}])
    BY <1>26 DEF PollDaemon, Connected
  <2> QED
    BY <2>1, <2>2 DEF Reachable
<1>27. ASSUME NEW c \in Clients, ConnectionClosed(c) PROVE Limited'
  BY <1>27 DEF ConnectionClosed, Called, Return
<1>28. ASSUME NEW c \in Clients, StartTimeout(c) PROVE Limited'
  BY <1>28 DEF StartTimeout, At, Called, Return
<1>29. ASSUME NEW c \in Clients, Handle(c) PROVE Limited'
  BY <1>29 DEF Handle, Called, Return
<1>30. ASSUME NEW c \in Clients, RequestTimeout(c) PROVE Limited'
  BY <1>30 DEF RequestTimeout, Called, Return
<1>31. ASSUME NEW c \in Clients, TaskEnds(c) PROVE Limited'
  <2>1. \A d \in Daemons : tasks'[d] = tasks[d] \/ tasks'[d] = tasks[d] \ {c}
    BY <1>31 DEF TaskEnds, Working
  <2>2. UNCHANGED <<queue, server>>
    BY <1>31 DEF TaskEnds
  <2>3. ASSUME NEW d \in Daemons PROVE IsFiniteSet(tasks'[d]) /\ Cardinality(tasks'[d]) <= MaxConnections
    <3>1. IsFiniteSet(tasks[d]) /\ Cardinality(tasks[d]) \in Nat /\ Cardinality(tasks[d]) <= MaxConnections
      BY FS_CardinalityType
    <3>2. /\ IsFiniteSet(tasks[d] \ {c})
          /\ Cardinality(tasks[d] \ {c}) \in {Cardinality(tasks[d]), Cardinality(tasks[d]) - 1}
      BY <3>1, FS_RemoveElement
    <3>3. Cardinality(tasks[d] \ {c}) <= MaxConnections
      BY <3>1, <3>2, DaemonAssumption
    <3> HIDE DEF Limited
    <3> QED
      BY <2>1, <3>1, <3>2, <3>3
  <2> QED
    BY <2>2, <2>3
<1>32. ASSUME NEW c \in Clients, StopList(c) PROVE Limited'
  BY <1>32 DEF StopList, StopRuns
<1>33. ASSUME NEW c \in Clients, StopKill(c) PROVE Limited'
  BY <1>33 DEF StopKill, StopRuns
<1>34. ASSUME NEW c \in Clients, StopNotify(c) PROVE Limited'
  BY <1>34 DEF StopNotify, NotifyWaiters, StopRuns
<1>35. ASSUME NEW d \in Daemons, WritePidFails(d) PROVE Limited'
  BY <1>35, FS_EmptySet, DaemonAssumption DEF WritePidFails, At, Vanish, Asleep
<1> HIDE DEF Limited, Typed, Working, At, Listening, Running, Ending, files, work
<1> QED
  BY <1>1, <1>2, <1>3, <1>4, <1>5, <1>6, <1>7, <1>8, <1>9, <1>10, <1>11, <1>12,
     <1>13, <1>14, <1>15, <1>16, <1>17, <1>18, <1>19, <1>20, <1>21, <1>22,
     <1>23, <1>24, <1>25, <1>26, <1>27, <1>28, <1>29, <1>30, <1>31, <1>32,
     <1>33, <1>34, <1>35
  DEF DStep, DaemonStep, CallStep, Bind, Loop, End, IdleMonitor, ClientStep, StopTask

LEMMA MonitoringStep ==
    ASSUME Typed, Monitoring, DStep
    PROVE  Monitoring'
<1> USE DEF Monitoring, Typed, files, work
<1>1. ASSUME NEW d \in Daemons, BindFirst(d) PROVE Monitoring'
  BY <1>1 DEF BindFirst, At, Goto
<1>2. ASSUME NEW d \in Daemons, CheckAlive(d) PROVE Monitoring'
  BY <1>2 DEF CheckAlive, At, Goto
<1>3. ASSUME NEW d \in Daemons, UnlinkStale(d) PROVE Monitoring'
  BY <1>3 DEF UnlinkStale, At, Goto
<1>4. ASSUME NEW d \in Daemons, BindAgain(d) PROVE Monitoring'
  BY <1>4 DEF BindAgain, At, Goto
<1>5. ASSUME NEW d \in Daemons, WritePid(d) PROVE Monitoring'
  BY <1>5 DEF WritePid, At, Goto
<1>6. ASSUME NEW d \in Daemons, Reap(d) PROVE Monitoring'
  BY <1>6 DEF Reap, At, TakeArm
<1>7. ASSUME NEW d \in Daemons, LoopAgain(d) PROVE Monitoring'
  BY <1>7 DEF LoopAgain, At, Goto
<1>8. ASSUME NEW d \in Daemons, ShutdownNotified(d) PROVE Monitoring'
  BY <1>8 DEF ShutdownNotified, At, Goto
<1>9. ASSUME NEW d \in Daemons, DrainDone(d) PROVE Monitoring'
  BY <1>9 DEF DrainDone, At, Goto
<1>10. ASSUME NEW d \in Daemons, DrainTimeout(d) PROVE Monitoring'
  BY <1>10 DEF DrainTimeout, At, Goto
<1>11. ASSUME NEW d \in Daemons, DropSocket(d) PROVE Monitoring'
  BY <1>11 DEF DropSocket, At, Goto
<1>12. ASSUME NEW d \in Daemons, DropPid(d) PROVE Monitoring'
  BY <1>12, DaemonAssumption DEF DropPid, At, Vanish, Asleep
<1>13. ASSUME NEW d \in Daemons, Signalled(d) PROVE Monitoring'
  BY <1>13 DEF Signalled, At, Goto
<1>14. ASSUME NEW d \in Daemons, Crash(d) PROVE Monitoring'
  BY <1>14, DaemonAssumption DEF Crash, At, Vanish, Asleep
<1>15. ASSUME NEW d \in Daemons, PidReused(d) PROVE Monitoring'
  BY <1>15 DEF PidReused, At
<1>16. ASSUME NEW d \in Daemons, LookAtSessions(d) PROVE Monitoring'
  BY <1>16 DEF LookAtSessions, Monitor
<1>17. ASSUME NEW d \in Daemons, LookAtPermits(d) PROVE Monitoring'
  <2>1. \A x \in Daemons : x # d => idle'[x] = idle[x]
    BY <1>17 DEF LookAtPermits
  <2>2. idle[d].looks \in 0..IdleLooks - 1 /\ idle[d].targets \subseteq Clients /\ IdleLooks \in Nat \ {0}
    BY DaemonAssumption
  <2>3. CASE idle[d].saw \/ tasks[d] # {}
    <3>1. idle'[d] = Asleep
      BY <1>17, <2>3 DEF LookAtPermits
    <3> QED
      BY <2>1, <2>2, <3>1 DEF Asleep
  <2>4. CASE ~(idle[d].saw \/ tasks[d] # {}) /\ idle[d].pc = "connsAgain"
    <3>1. idle'[d] = [idle[d] EXCEPT !.pc = "list"]
      BY <1>17, <2>4 DEF LookAtPermits
    <3> QED
      BY <2>1, <2>2, <3>1
  <2>5. CASE ~(idle[d].saw \/ tasks[d] # {}) /\ idle[d].pc # "connsAgain"
    <3>1. CASE idle[d].looks + 1 < IdleLooks
      <4>1. idle'[d] = [idle[d] EXCEPT !.pc = "sleep", !.looks = idle[d].looks + 1]
        BY <1>17, <2>5, <3>1 DEF LookAtPermits
      <4>2. idle'[d].looks = idle[d].looks + 1 /\ idle'[d].pc = "sleep" /\ idle'[d].targets = idle[d].targets
        BY <4>1
      <4>3. idle[d].looks + 1 \in 0..IdleLooks - 1
        BY <2>2, <3>1
      <4> QED
        BY <2>1, <4>2, <4>3
    <3>2. CASE ~(idle[d].looks + 1 < IdleLooks)
      <4>1. idle'[d] = [idle[d] EXCEPT !.pc = "sessionsAgain"]
        BY <1>17, <2>5, <3>2 DEF LookAtPermits
      <4> QED
        BY <2>1, <2>2, <4>1
    <3> QED
      BY <3>1, <3>2
  <2> QED
    BY <2>3, <2>4, <2>5
<1>18. ASSUME NEW d \in Daemons, IdleList(d) PROVE Monitoring'
  BY <1>18 DEF IdleList, Monitor
<1>19. ASSUME NEW d \in Daemons, IdleKill(d) PROVE Monitoring'
  BY <1>19 DEF IdleKill, Monitor
<1>20. ASSUME NEW d \in Daemons, IdleNotify(d) PROVE Monitoring'
  BY <1>20 DEF IdleNotify, NotifyWaiters, Monitor
<1>21. ASSUME NEW d \in Daemons, SessionEnds(d) PROVE Monitoring'
  BY <1>21 DEF SessionEnds
<1>22. ASSUME NEW d \in Daemons, NEW c \in Clients, Accept(d, c) PROVE Monitoring'
  BY <1>22 DEF Accept, At, TakeArm, Full
<1>23. ASSUME NEW c \in Clients, Call(c) PROVE Monitoring'
  BY <1>23 DEF Call, Called
<1>24. ASSUME NEW c \in Clients, Connect(c) PROVE Monitoring'
  BY <1>24 DEF Connect, Called, Connected
<1>25. ASSUME NEW c \in Clients, StartDaemon(c) PROVE Monitoring'
  BY <1>25 DEF StartDaemon, Goto, Called
<1>26. ASSUME NEW c \in Clients, PollDaemon(c) PROVE Monitoring'
  BY <1>26 DEF PollDaemon, At, Called, Return, Connected
<1>27. ASSUME NEW c \in Clients, ConnectionClosed(c) PROVE Monitoring'
  BY <1>27 DEF ConnectionClosed, Called, Return
<1>28. ASSUME NEW c \in Clients, StartTimeout(c) PROVE Monitoring'
  BY <1>28 DEF StartTimeout, At, Called, Return
<1>29. ASSUME NEW c \in Clients, Handle(c) PROVE Monitoring'
  BY <1>29 DEF Handle, Called, Return
<1>30. ASSUME NEW c \in Clients, RequestTimeout(c) PROVE Monitoring'
  BY <1>30 DEF RequestTimeout, Called, Return
<1>31. ASSUME NEW c \in Clients, TaskEnds(c) PROVE Monitoring'
  BY <1>31 DEF TaskEnds, At, Called
<1>32. ASSUME NEW c \in Clients, StopList(c) PROVE Monitoring'
  BY <1>32 DEF StopList, StopRuns
<1>33. ASSUME NEW c \in Clients, StopKill(c) PROVE Monitoring'
  BY <1>33 DEF StopKill, StopRuns
<1>34. ASSUME NEW c \in Clients, StopNotify(c) PROVE Monitoring'
  BY <1>34 DEF StopNotify, NotifyWaiters, StopRuns
<1>35. ASSUME NEW d \in Daemons, WritePidFails(d) PROVE Monitoring'
  BY <1>35, DaemonAssumption DEF WritePidFails, At, Vanish, Asleep
<1> HIDE DEF Monitoring, Typed, files, work
<1> QED
  BY <1>1, <1>2, <1>3, <1>4, <1>5, <1>6, <1>7, <1>8, <1>9, <1>10, <1>11, <1>12,
     <1>13, <1>14, <1>15, <1>16, <1>17, <1>18, <1>19, <1>20, <1>21, <1>22,
     <1>23, <1>24, <1>25, <1>26, <1>27, <1>28, <1>29, <1>30, <1>31, <1>32,
     <1>33, <1>34, <1>35
  DEF DStep, DaemonStep, CallStep, Bind, Loop, End, IdleMonitor, ClientStep, StopTask

LEMMA StoppingStep ==
    ASSUME Typed, Calling, Stopping, DStep
    PROVE  Stopping'
<1> USE DEF Stopping, Calling, Typed, files, work
<1>1. ASSUME NEW d \in Daemons, BindFirst(d) PROVE Stopping'
  BY <1>1 DEF BindFirst, At, Goto
<1>2. ASSUME NEW d \in Daemons, CheckAlive(d) PROVE Stopping'
  BY <1>2 DEF CheckAlive, At, Goto
<1>3. ASSUME NEW d \in Daemons, UnlinkStale(d) PROVE Stopping'
  BY <1>3 DEF UnlinkStale, At, Goto
<1>4. ASSUME NEW d \in Daemons, BindAgain(d) PROVE Stopping'
  BY <1>4 DEF BindAgain, At, Goto
<1>5. ASSUME NEW d \in Daemons, WritePid(d) PROVE Stopping'
  BY <1>5 DEF WritePid, At, Goto
<1>6. ASSUME NEW d \in Daemons, Reap(d) PROVE Stopping'
  BY <1>6 DEF Reap, At, TakeArm
<1>7. ASSUME NEW d \in Daemons, LoopAgain(d) PROVE Stopping'
  BY <1>7 DEF LoopAgain, At, Goto
<1>8. ASSUME NEW d \in Daemons, ShutdownNotified(d) PROVE Stopping'
  BY <1>8 DEF ShutdownNotified, At, Goto
<1>9. ASSUME NEW d \in Daemons, DrainDone(d) PROVE Stopping'
  BY <1>9 DEF DrainDone, At, Goto
<1>10. ASSUME NEW d \in Daemons, DrainTimeout(d) PROVE Stopping'
  BY <1>10 DEF DrainTimeout, At, Goto
<1>11. ASSUME NEW d \in Daemons, DropSocket(d) PROVE Stopping'
  BY <1>11 DEF DropSocket, At, Goto
<1>12. ASSUME NEW d \in Daemons, DropPid(d) PROVE Stopping'
  BY <1>12 DEF DropPid, At, Vanish, Asleep
<1>13. ASSUME NEW d \in Daemons, Signalled(d) PROVE Stopping'
  BY <1>13 DEF Signalled, At, Goto
<1>14. ASSUME NEW d \in Daemons, Crash(d) PROVE Stopping'
  BY <1>14 DEF Crash, At, Vanish, Asleep
<1>15. ASSUME NEW d \in Daemons, PidReused(d) PROVE Stopping'
  BY <1>15 DEF PidReused, At
<1>16. ASSUME NEW d \in Daemons, LookAtSessions(d) PROVE Stopping'
  BY <1>16 DEF LookAtSessions, Monitor
<1>17. ASSUME NEW d \in Daemons, LookAtPermits(d) PROVE Stopping'
  BY <1>17 DEF LookAtPermits, Monitor, Asleep
<1>18. ASSUME NEW d \in Daemons, IdleList(d) PROVE Stopping'
  BY <1>18 DEF IdleList, Monitor
<1>19. ASSUME NEW d \in Daemons, IdleKill(d) PROVE Stopping'
  BY <1>19 DEF IdleKill, Monitor
<1>20. ASSUME NEW d \in Daemons, IdleNotify(d) PROVE Stopping'
  BY <1>20 DEF IdleNotify, NotifyWaiters, Monitor
<1>21. ASSUME NEW d \in Daemons, SessionEnds(d) PROVE Stopping'
  BY <1>21 DEF SessionEnds
<1>22. ASSUME NEW d \in Daemons, NEW c \in Clients, Accept(d, c) PROVE Stopping'
  BY <1>22 DEF Accept, At, TakeArm, Full
<1>23. ASSUME NEW c \in Clients, Call(c) PROVE Stopping'
  BY <1>23 DEF Call, Called
<1>24. ASSUME NEW c \in Clients, Connect(c) PROVE Stopping'
  <2>1. stop' = stop
    BY <1>24 DEF Connect
  <2>2. \/ Reachable /\ client' = [client EXCEPT ![c].pc = "sent", ![c].daemon = socket]
        \/ client' = [client EXCEPT ![c].pc = "done", ![c].result = "no_daemon"]
    BY <1>24 DEF Connect, Connected, Return
  <2> QED
    BY <2>1, <2>2 DEF Reachable
<1>25. ASSUME NEW c \in Clients, StartDaemon(c) PROVE Stopping'
  BY <1>25 DEF StartDaemon, Goto, Called
<1>26. ASSUME NEW c \in Clients, PollDaemon(c) PROVE Stopping'
  <2>1. stop' = stop
    BY <1>26 DEF PollDaemon
  <2>2. \/ Reachable /\ client' = [client EXCEPT ![c].pc = "sent", ![c].daemon = socket]
        \/ client' = [client EXCEPT ![c].pc = "done", ![c].result = "no_daemon"]
    BY <1>26 DEF PollDaemon, Connected, Return
  <2> QED
    BY <2>1, <2>2 DEF Reachable
<1>27. ASSUME NEW c \in Clients, ConnectionClosed(c) PROVE Stopping'
  BY <1>27 DEF ConnectionClosed, Called, Return
<1>28. ASSUME NEW c \in Clients, StartTimeout(c) PROVE Stopping'
  BY <1>28 DEF StartTimeout, At, Called, Return
<1>29. ASSUME NEW c \in Clients, Handle(c) PROVE Stopping'
  BY <1>29 DEF Handle, Called, Return
<1>30. ASSUME NEW c \in Clients, RequestTimeout(c) PROVE Stopping'
  BY <1>30 DEF RequestTimeout, Called, Return
<1>31. ASSUME NEW c \in Clients, TaskEnds(c) PROVE Stopping'
  BY <1>31 DEF TaskEnds, At, Called
<1>32. ASSUME NEW c \in Clients, StopList(c) PROVE Stopping'
  BY <1>32 DEF StopList, StopRuns
<1>33. ASSUME NEW c \in Clients, StopKill(c) PROVE Stopping'
  BY <1>33 DEF StopKill, StopRuns
<1>34. ASSUME NEW c \in Clients, StopNotify(c) PROVE Stopping'
  BY <1>34 DEF StopNotify, NotifyWaiters, StopRuns
<1>35. ASSUME NEW d \in Daemons, WritePidFails(d) PROVE Stopping'
  BY <1>35 DEF WritePidFails, At, Vanish, Asleep
<1> HIDE DEF Stopping, Calling, Typed, files, work
<1> QED
  BY <1>1, <1>2, <1>3, <1>4, <1>5, <1>6, <1>7, <1>8, <1>9, <1>10, <1>11, <1>12,
     <1>13, <1>14, <1>15, <1>16, <1>17, <1>18, <1>19, <1>20, <1>21, <1>22,
     <1>23, <1>24, <1>25, <1>26, <1>27, <1>28, <1>29, <1>30, <1>31, <1>32,
     <1>33, <1>34, <1>35
  DEF DStep, DaemonStep, CallStep, Bind, Loop, End, IdleMonitor, ClientStep, StopTask

LEMMA CallingStep ==
    ASSUME Typed, Calling, DStep
    PROVE  Calling'
<1> USE DEF Calling, Typed, files, work
<1>1. ASSUME NEW d \in Daemons, BindFirst(d) PROVE Calling'
  BY <1>1 DEF BindFirst, At, Goto
<1>2. ASSUME NEW d \in Daemons, CheckAlive(d) PROVE Calling'
  BY <1>2 DEF CheckAlive, At, Goto
<1>3. ASSUME NEW d \in Daemons, UnlinkStale(d) PROVE Calling'
  BY <1>3 DEF UnlinkStale, At, Goto
<1>4. ASSUME NEW d \in Daemons, BindAgain(d) PROVE Calling'
  BY <1>4 DEF BindAgain, At, Goto
<1>5. ASSUME NEW d \in Daemons, WritePid(d) PROVE Calling'
  BY <1>5 DEF WritePid, At, Goto
<1>6. ASSUME NEW d \in Daemons, Reap(d) PROVE Calling'
  BY <1>6 DEF Reap, At, TakeArm
<1>7. ASSUME NEW d \in Daemons, LoopAgain(d) PROVE Calling'
  BY <1>7 DEF LoopAgain, At, Goto
<1>8. ASSUME NEW d \in Daemons, ShutdownNotified(d) PROVE Calling'
  BY <1>8 DEF ShutdownNotified, At, Goto
<1>9. ASSUME NEW d \in Daemons, DrainDone(d) PROVE Calling'
  BY <1>9 DEF DrainDone, At, Goto
<1>10. ASSUME NEW d \in Daemons, DrainTimeout(d) PROVE Calling'
  BY <1>10 DEF DrainTimeout, At, Goto
<1>11. ASSUME NEW d \in Daemons, DropSocket(d) PROVE Calling'
  BY <1>11 DEF DropSocket, At, Goto
<1>12. ASSUME NEW d \in Daemons, DropPid(d) PROVE Calling'
  BY <1>12 DEF DropPid, At, Vanish, Asleep
<1>13. ASSUME NEW d \in Daemons, Signalled(d) PROVE Calling'
  BY <1>13 DEF Signalled, At, Goto
<1>14. ASSUME NEW d \in Daemons, Crash(d) PROVE Calling'
  BY <1>14 DEF Crash, At, Vanish, Asleep
<1>15. ASSUME NEW d \in Daemons, PidReused(d) PROVE Calling'
  BY <1>15 DEF PidReused, At
<1>16. ASSUME NEW d \in Daemons, LookAtSessions(d) PROVE Calling'
  BY <1>16 DEF LookAtSessions, Monitor
<1>17. ASSUME NEW d \in Daemons, LookAtPermits(d) PROVE Calling'
  BY <1>17 DEF LookAtPermits, Monitor, Asleep
<1>18. ASSUME NEW d \in Daemons, IdleList(d) PROVE Calling'
  BY <1>18 DEF IdleList, Monitor
<1>19. ASSUME NEW d \in Daemons, IdleKill(d) PROVE Calling'
  BY <1>19 DEF IdleKill, Monitor
<1>20. ASSUME NEW d \in Daemons, IdleNotify(d) PROVE Calling'
  BY <1>20 DEF IdleNotify, NotifyWaiters, Monitor
<1>21. ASSUME NEW d \in Daemons, SessionEnds(d) PROVE Calling'
  BY <1>21 DEF SessionEnds
<1>22. ASSUME NEW d \in Daemons, NEW c \in Clients, Accept(d, c) PROVE Calling'
  BY <1>22 DEF Accept, At, TakeArm, Full
<1>23. ASSUME NEW c \in Clients, Call(c) PROVE Calling'
  BY <1>23 DEF Call, Called
<1>24. ASSUME NEW c \in Clients, Connect(c) PROVE Calling'
  <2>1. CASE Reachable /\ client' = [client EXCEPT ![c].pc = "sent", ![c].daemon = socket]
    BY <2>1 DEF Reachable
  <2>2. CASE client' = [client EXCEPT ![c].pc = "done", ![c].result = "no_daemon"]
    BY <2>2
  <2> QED
    BY <1>24, <2>1, <2>2 DEF Connect, Connected, Return
<1>25. ASSUME NEW c \in Clients, StartDaemon(c) PROVE Calling'
  BY <1>25 DEF StartDaemon, Goto, Called
<1>26. ASSUME NEW c \in Clients, PollDaemon(c) PROVE Calling'
  <2>1. CASE Reachable /\ client' = [client EXCEPT ![c].pc = "sent", ![c].daemon = socket]
    BY <2>1 DEF Reachable
  <2>2. CASE client' = [client EXCEPT ![c].pc = "done", ![c].result = "no_daemon"]
    BY <2>2
  <2> QED
    BY <1>26, <2>1, <2>2 DEF PollDaemon, Connected, Return
<1>27. ASSUME NEW c \in Clients, ConnectionClosed(c) PROVE Calling'
  BY <1>27 DEF ConnectionClosed, Called, Return
<1>28. ASSUME NEW c \in Clients, StartTimeout(c) PROVE Calling'
  BY <1>28 DEF StartTimeout, At, Called, Return
<1>29. ASSUME NEW c \in Clients, Handle(c) PROVE Calling'
  BY <1>29 DEF Handle, Called, Return
<1>30. ASSUME NEW c \in Clients, RequestTimeout(c) PROVE Calling'
  BY <1>30 DEF RequestTimeout, Called, Return
<1>31. ASSUME NEW c \in Clients, TaskEnds(c) PROVE Calling'
  BY <1>31 DEF TaskEnds, At, Called
<1>32. ASSUME NEW c \in Clients, StopList(c) PROVE Calling'
  BY <1>32 DEF StopList, StopRuns
<1>33. ASSUME NEW c \in Clients, StopKill(c) PROVE Calling'
  BY <1>33 DEF StopKill, StopRuns
<1>34. ASSUME NEW c \in Clients, StopNotify(c) PROVE Calling'
  BY <1>34 DEF StopNotify, NotifyWaiters, StopRuns
<1>35. ASSUME NEW d \in Daemons, WritePidFails(d) PROVE Calling'
  BY <1>35 DEF WritePidFails, At, Vanish, Asleep
<1> HIDE DEF Calling, Typed, files, work
<1> QED
  BY <1>1, <1>2, <1>3, <1>4, <1>5, <1>6, <1>7, <1>8, <1>9, <1>10, <1>11, <1>12,
     <1>13, <1>14, <1>15, <1>16, <1>17, <1>18, <1>19, <1>20, <1>21, <1>22,
     <1>23, <1>24, <1>25, <1>26, <1>27, <1>28, <1>29, <1>30, <1>31, <1>32,
     <1>33, <1>34, <1>35
  DEF DStep, DaemonStep, CallStep, Bind, Loop, End, IdleMonitor, ClientStep, StopTask


-----------------------------------------------------------------------------
(* Why a call fails.                                                        *)

\* A request that nothing disturbed is in its daemon's hands.
Owed(c) ==
    client[c].pc = "sent" /\ ~disturbed[c] =>
        c \in queue[client[c].daemon] \cup tasks[client[c].daemon]

\* A daemon that a client waits for, undisturbed, is still on its way to the
\* socket or has it.
Coming(c) ==
    client[c].pc = "poll" /\ ~disturbed[c] =>
        \/ At(c, {"bind"}) /\ ~Reachable
        \/ At(c, {"check", "unlink"}) /\ socket # None /\ ~Reachable
        \/ At(c, {"rebind"}) /\ socket = None
        \/ At(c, {"writePid"} \cup Running) /\ socket = c

Caused(c) == client[c].result \in {"closed", "no_daemon"} => disturbed[c]

Expected == \A c \in Clients : Owed(c) /\ Coming(c) /\ Caused(c)

\* What a call sees of a step that does not disturb it.
Calm(c) ==
    /\ \A d \in Daemons \ {c} : ~At(d, Starting) /\ ~At(d, Starting)'
    /\ \A d \in Daemons : /\ ~At(d, Ending) /\ ~At(d, Ending)'
                          /\ At(d, Broken)' => At(d, Broken)
                          /\ ~(Cardinality(tasks[d] \ {c}) >= MaxConnections)
    /\ reused = {}
    /\ pidFile \in {None, socket} \/ At(pidFile, Dead)

LEMMA CalmOrDisturbed ==
    ASSUME Disturb, NEW c \in Clients, client[c].pc \notin {"idle", "done"}, ~disturbed'[c]
    PROVE  Calm(c)
<1>1. ~Unsettled(c) /\ ~Unsettled(c)' /\ ~Breaks
  BY DEF Disturb
<1>2. \A d \in Daemons : At(d, Broken)' => At(d, Broken)
  BY <1>1 DEF Breaks, At
<1>3. \A d \in Daemons \ {c} : ~At(d, Starting) /\ ~At(d, Starting)'
  BY <1>1 DEF Unsettled
<1>4. \A d \in Daemons : ~At(d, Ending) /\ ~At(d, Ending)' /\ ~(Cardinality(tasks[d] \ {c}) >= MaxConnections)
  BY <1>1 DEF Unsettled
<1>5. reused = {} /\ (pidFile \in {None, socket} \/ At(pidFile, Dead))
  BY <1>1 DEF Unsettled
<1> QED
  BY <1>2, <1>3, <1>4, <1>5 DEF Calm

LEMMA ExpectedStep ==
    ASSUME Typed, FilesOwned, Types, Expected, DStep, Disturb, NEW k \in Clients
    PROVE  (Owed(k) /\ Coming(k) /\ Caused(k))'
<1> USE NamesApart DEF Typed, Owed, Coming, Caused, Reachable, At, Listening, Starting, Running, Ending, Dead, Broken, files, work
<1>r. /\ disturbed[k] => disturbed'[k]
      /\ Owed(k) /\ Coming(k) /\ Caused(k)
      /\ client[k].pc \in {"idle", "connect", "poll", "sent", "done"}
      /\ client[k].pc = "sent" => client[k].daemon \in Daemons
  BY StaysDisturbed DEF Expected, Types, Calling
<1>q. client[k].pc \in {"connect", "poll", "sent"} /\ ~disturbed'[k] => Calm(k)
  BY CalmOrDisturbed
<1>1. ASSUME NEW d \in Daemons, BindFirst(d) PROVE (Owed(k) /\ Coming(k) /\ Caused(k))'
  BY <1>1, <1>r, <1>q DEF Calm, Types, Working, BindFirst, Goto
<1>2. ASSUME NEW d \in Daemons, CheckAlive(d) PROVE (Owed(k) /\ Coming(k) /\ Caused(k))'
  <2>1. /\ UNCHANGED <<client, socket, queue, tasks>> /\ server[d].pc = "check"
        /\ \/ ~IsDaemonAlive /\ server' = [server EXCEPT ![d].pc = "unlink"]
           \/ IsDaemonAlive /\ server' = [server EXCEPT ![d].pc = "failed"]
    BY <1>2 DEF CheckAlive, Goto
  <2>2. CASE d # k
    BY <1>r, <1>q, <2>1, <2>2 DEF Calm
  <2>3. CASE d = k /\ client[k].pc = "poll" /\ ~disturbed'[k]
    <3>1. Calm(k) /\ socket # None /\ ~Reachable
      BY <1>r, <1>q, <2>1, <2>3
    <3>2. ~IsDaemonAlive
      BY <3>1 DEF FilesOwned, IsDaemonAlive, Calm
    <3>3. server' = [server EXCEPT ![k].pc = "unlink"]
      BY <2>1, <2>3, <3>2
    <3> HIDE DEF Reachable
    <3>4. Coming(k)'
      BY <2>1, <2>3, <3>1, <3>3 DEF Reachable
    <3> QED
      BY <1>r, <2>1, <2>3, <3>4
  <2>4. CASE d = k /\ (client[k].pc # "poll" \/ disturbed'[k])
    BY <1>r, <2>1, <2>4
  <2> QED
    BY <2>2, <2>3, <2>4
<1>3. ASSUME NEW d \in Daemons, UnlinkStale(d) PROVE (Owed(k) /\ Coming(k) /\ Caused(k))'
  BY <1>3, <1>r, <1>q DEF Calm, Types, Working, UnlinkStale, Goto
<1>4. ASSUME NEW d \in Daemons, BindAgain(d) PROVE (Owed(k) /\ Coming(k) /\ Caused(k))'
  BY <1>4, <1>r, <1>q DEF Calm, Types, Working, BindAgain, Goto
<1>5. ASSUME NEW d \in Daemons, WritePid(d) PROVE (Owed(k) /\ Coming(k) /\ Caused(k))'
  BY <1>5, <1>r, <1>q DEF Calm, Types, Working, WritePid, Goto
<1>6. ASSUME NEW d \in Daemons, Reap(d) PROVE (Owed(k) /\ Coming(k) /\ Caused(k))'
  BY <1>6, <1>r, <1>q DEF Calm, Types, Working, Reap, TakeArm
<1>7. ASSUME NEW d \in Daemons, LoopAgain(d) PROVE (Owed(k) /\ Coming(k) /\ Caused(k))'
  BY <1>7, <1>r, <1>q DEF Calm, Types, Working, LoopAgain, Goto
<1>8. ASSUME NEW d \in Daemons, ShutdownNotified(d) PROVE (Owed(k) /\ Coming(k) /\ Caused(k))'
  <2>1. server'[d].pc \in Ending
    BY <1>8 DEF ShutdownNotified, Goto
  <2>2. client[k].pc \in {"connect", "poll", "sent"} => disturbed'[k]
    BY <2>1, <1>q DEF Calm
  <2>3. client' = client
    BY <1>8 DEF ShutdownNotified
  <2> QED
    BY <1>r, <2>2, <2>3
<1>9. ASSUME NEW d \in Daemons, DrainDone(d) PROVE (Owed(k) /\ Coming(k) /\ Caused(k))'
  BY <1>9, <1>r, <1>q DEF Calm, Types, Working, DrainDone, Goto
<1>10. ASSUME NEW d \in Daemons, DrainTimeout(d) PROVE (Owed(k) /\ Coming(k) /\ Caused(k))'
  BY <1>10, <1>r, <1>q DEF Calm, Types, Working, DrainTimeout, Goto
<1>11. ASSUME NEW d \in Daemons, DropSocket(d) PROVE (Owed(k) /\ Coming(k) /\ Caused(k))'
  BY <1>11, <1>r, <1>q DEF Calm, Types, Working, DropSocket, Goto
<1>12. ASSUME NEW d \in Daemons, DropPid(d) PROVE (Owed(k) /\ Coming(k) /\ Caused(k))'
  BY <1>12, <1>r, <1>q DEF Calm, Types, Working, DropPid, Vanish, Asleep
<1>13. ASSUME NEW d \in Daemons, Signalled(d) PROVE (Owed(k) /\ Coming(k) /\ Caused(k))'
  <2>1. server'[d].pc \in Ending
    BY <1>13 DEF Signalled, Goto
  <2>2. client[k].pc \in {"connect", "poll", "sent"} => disturbed'[k]
    BY <2>1, <1>q DEF Calm
  <2>3. client' = client
    BY <1>13 DEF Signalled
  <2> QED
    BY <1>r, <2>2, <2>3
<1>14. ASSUME NEW d \in Daemons, Crash(d) PROVE (Owed(k) /\ Coming(k) /\ Caused(k))'
  BY <1>14, <1>r, <1>q DEF Calm, Types, Working, Crash, Vanish, Asleep
<1>15. ASSUME NEW d \in Daemons, PidReused(d) PROVE (Owed(k) /\ Coming(k) /\ Caused(k))'
  BY <1>15, <1>r, <1>q DEF Calm, Types, Working, PidReused
<1>16. ASSUME NEW d \in Daemons, LookAtSessions(d) PROVE (Owed(k) /\ Coming(k) /\ Caused(k))'
  BY <1>16, <1>r, <1>q DEF Calm, Types, Working, LookAtSessions, Monitor
<1>17. ASSUME NEW d \in Daemons, LookAtPermits(d) PROVE (Owed(k) /\ Coming(k) /\ Caused(k))'
  BY <1>17, <1>r, <1>q DEF Calm, Types, Working, LookAtPermits, Monitor, Asleep
<1>18. ASSUME NEW d \in Daemons, IdleList(d) PROVE (Owed(k) /\ Coming(k) /\ Caused(k))'
  BY <1>18, <1>r, <1>q DEF Calm, Types, Working, IdleList, Monitor
<1>19. ASSUME NEW d \in Daemons, IdleKill(d) PROVE (Owed(k) /\ Coming(k) /\ Caused(k))'
  BY <1>19, <1>r, <1>q DEF Calm, Types, Working, IdleKill, Monitor
<1>20. ASSUME NEW d \in Daemons, IdleNotify(d) PROVE (Owed(k) /\ Coming(k) /\ Caused(k))'
  BY <1>20, <1>r, <1>q DEF Calm, Types, Working, IdleNotify, NotifyWaiters, Monitor
<1>21. ASSUME NEW d \in Daemons, SessionEnds(d) PROVE (Owed(k) /\ Coming(k) /\ Caused(k))'
  BY <1>21, <1>r, <1>q DEF Calm, Types, Working, SessionEnds
<1>22. ASSUME NEW d \in Daemons, NEW c \in Clients, Accept(d, c) PROVE (Owed(k) /\ Coming(k) /\ Caused(k))'
  BY <1>22, <1>r, <1>q DEF Calm, Types, Working, Accept, TakeArm, Full
<1>23. ASSUME NEW c \in Clients, Call(c) PROVE (Owed(k) /\ Coming(k) /\ Caused(k))'
  BY <1>23, <1>r, <1>q DEF Calm, Types, Working, Call, Called
<1>24. ASSUME NEW c \in Clients, Connect(c) PROVE (Owed(k) /\ Coming(k) /\ Caused(k))'
  BY <1>24, <1>r, <1>q DEF Calm, Types, Working, Connect, Called, Connected
<1>25. ASSUME NEW c \in Clients, StartDaemon(c) PROVE (Owed(k) /\ Coming(k) /\ Caused(k))'
  BY <1>25, <1>r, <1>q DEF Calm, Types, Working, StartDaemon, Goto, Called
<1>26. ASSUME NEW c \in Clients, PollDaemon(c) PROVE (Owed(k) /\ Coming(k) /\ Caused(k))'
  <2>1. UNCHANGED <<server, tasks, socket>> /\ client[c].pc = "poll"
    BY <1>26 DEF PollDaemon, Called
  <2>2. CASE At(c, Dead) /\ Return(c, "no_daemon") /\ queue' = queue
    BY <1>r, <1>q, <2>1, <2>2 DEF Return
  <2>3. CASE Reachable /\ Connected(c)
    BY <1>r, <1>q, <2>1, <2>3 DEF Types, Working, Connected
  <2> QED
    BY <1>26, <2>2, <2>3 DEF PollDaemon
<1>27. ASSUME NEW c \in Clients, ConnectionClosed(c) PROVE (Owed(k) /\ Coming(k) /\ Caused(k))'
  BY <1>27, <1>r, <1>q DEF Calm, Types, Working, ConnectionClosed, Called, Return
<1>28. ASSUME NEW c \in Clients, StartTimeout(c) PROVE (Owed(k) /\ Coming(k) /\ Caused(k))'
  BY <1>28, <1>r, <1>q DEF Calm, Types, Working, StartTimeout, Called, Return
<1>29. ASSUME NEW c \in Clients, Handle(c) PROVE (Owed(k) /\ Coming(k) /\ Caused(k))'
  BY <1>29, <1>r, <1>q DEF Calm, Types, Working, Handle, Called, Return
<1>30. ASSUME NEW c \in Clients, RequestTimeout(c) PROVE (Owed(k) /\ Coming(k) /\ Caused(k))'
  BY <1>30, <1>r, <1>q DEF Calm, Types, Working, RequestTimeout, Called, Return
<1>31. ASSUME NEW c \in Clients, TaskEnds(c) PROVE (Owed(k) /\ Coming(k) /\ Caused(k))'
  BY <1>31, <1>r, <1>q DEF Calm, Types, Working, TaskEnds, Called
<1>32. ASSUME NEW c \in Clients, StopList(c) PROVE (Owed(k) /\ Coming(k) /\ Caused(k))'
  BY <1>32, <1>r, <1>q DEF Calm, Types, Working, StopList, StopRuns
<1>33. ASSUME NEW c \in Clients, StopKill(c) PROVE (Owed(k) /\ Coming(k) /\ Caused(k))'
  BY <1>33, <1>r, <1>q DEF Calm, Types, Working, StopKill, StopRuns
<1>34. ASSUME NEW c \in Clients, StopNotify(c) PROVE (Owed(k) /\ Coming(k) /\ Caused(k))'
  BY <1>34, <1>r, <1>q DEF Calm, Types, Working, StopNotify, NotifyWaiters, StopRuns
<1>35. ASSUME NEW d \in Daemons, WritePidFails(d) PROVE (Owed(k) /\ Coming(k) /\ Caused(k))'
  BY <1>35, <1>r, <1>q DEF Calm, Types, Working, WritePidFails, Vanish, Asleep
<1> QED
  BY <1>1, <1>2, <1>3, <1>4, <1>5, <1>6, <1>7, <1>8, <1>9, <1>10, <1>11, <1>12,
     <1>13, <1>14, <1>15, <1>16, <1>17, <1>18, <1>19, <1>20, <1>21, <1>22,
     <1>23, <1>24, <1>25, <1>26, <1>27, <1>28, <1>29, <1>30, <1>31, <1>32,
     <1>33, <1>34, <1>35
  DEF DStep, DaemonStep, CallStep, Bind, Loop, End, IdleMonitor, ClientStep, StopTask

-----------------------------------------------------------------------------
DInv ==
    /\ Typed /\ Types /\ disturbed \in [Clients -> BOOLEAN]
    /\ FilesOwned /\ Spared /\ Expected

LEMMA DInit == Init => DInv
<1> SUFFICES ASSUME Init PROVE DInv
  OBVIOUS
<1>1. Expected /\ disturbed \in [Clients -> BOOLEAN]
  BY DEF Init, Expected, Owed, Coming, Caused
<1> QED
  BY <1>1, InitTyped, InitTypes DEF DInv

LEMMA DNext == ASSUME DInv, [Next]_vars PROVE DInv'
<1> USE DEF DInv
<1>1. CASE Next
  <2>1. DStep /\ Disturb /\ ComesLate
    BY <1>1 DEF Next, DStep
  <2>2. Typed' /\ FilesOwned' /\ Spared'
    BY <2>1, TypedStep, FilesStep, SparedStep
  <2>3. Types'
    BY <2>1, WorkingStep, LimitedStep, MonitoringStep, StoppingStep, CallingStep DEF Types
  <2>4. disturbed' \in [Clients -> BOOLEAN]
    BY <2>1 DEF Disturb
  <2>5. Expected'
    BY <2>1, ExpectedStep DEF Expected
  <2> QED
    BY <2>2, <2>3, <2>4, <2>5
<1>2. CASE UNCHANGED vars
  <2> USE <1>2 DEF vars, files, work
  <2>1. Typed' /\ FilesOwned' /\ (disturbed \in [Clients -> BOOLEAN])'
    BY DEF Typed, FilesOwned, At
  <2>2. Types'
    BY DEF Types, Working, Limited, Monitoring, Stopping, Calling, At
  <2>3. Spared'
    BY DEF Spared, Late, IdleSparesSessions
  <2>4. Expected'
    BY DEF Expected, Owed, Coming, Caused, Reachable, At
  <2> QED
    BY <2>1, <2>2, <2>3, <2>4
<1> QED
  BY <1>1, <1>2

\* Which files there are, who holds a request, which daemon a client waits for and
\* what an idle monitor can still kill follow the program counters of daemons and
\* clients, for any number of them.
THEOREM DaemonInvariance == Spec => []DInv
<1>1. DInv /\ [Next]_vars => DInv'
  BY DNext
<1> QED
  BY DInit, <1>1, PTL DEF Spec

\* A call that is refused or finds no daemon overlapped a start, an end or a crash
\* of a daemon, a pid that could not be written, a monitor past its look, the connection limit or a foreign pid:
\* leftover files alone fail no call, and neither does any number of clients
\* that call at once (connect, wait_for_daemon, bind).
THEOREM FailureAlwaysCaused == Spec => []FailureHasCause
<1>1. DInv => TypeOK
  BY DEF DInv, Typed, Types, Working, Limited, Monitoring, Stopping, Calling, Spared, IdleSparesSessions, TypeOK, At
<1>2. DInv => FailureHasCause
  BY <1>1 DEF DInv, Expected, Caused, FailureHasCause
<1> QED
  BY DaemonInvariance, <1>2, PTL

\* When every daemon has ended in order, neither the socket nor the pid file is
\* left, however many there were and however their starts and ends raced
\* (Drop for DaemonServer, bind).
THEOREM CleanExitAlways == Spec => []CleanExitLeavesNothing
<1>1. DInv => CleanExitLeavesNothing
  BY DEF DInv, Typed, FilesOwned, CleanExitLeavesNothing, At, Running, Ending, Broken
<1> QED
  BY DaemonInvariance, <1>1, PTL

\* The idle stop kills no session but one whose spawn was handled between the
\* monitor's last look at the sessions and its list of those to kill, for any
\* number of connections, sessions and looks (spawn_idle_shutdown_task,
\* kill_all_sessions).
THEOREM IdleAlwaysSpares == Spec => []IdleSparesSessions
<1>1. DInv => IdleSparesSessions
  BY DEF DInv, Spared
<1> QED
  BY DaemonInvariance, <1>1, PTL
=============================================================================
