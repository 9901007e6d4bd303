--------------------------- MODULE Requests_proofs ---------------------------
(***************************************************************************)
(* What a request and its answer respect, for any clients, any command     *)
(* lines, any mix of versions and any limits.                              *)
(***************************************************************************)
EXTENDS Requests, SequenceParts_proofs

\* What the steps need to know of the variables' shape.
Shaped ==
    /\ version.daemon \in Nat /\ \A c \in Clients : version.clients[c] \in Nat
    /\ DOMAIN client = Clients /\ DOMAIN task = Clients
    /\ DOMAIN sizes = {"pty", "emulator"}
    /\ \A c \in Clients : /\ DOMAIN client[c] = {"pc", "line", "command", "observed", "got", "code"}
                          /\ DOMAIN task[c] = {"pc", "left", "sent", "answer"}

\* The client knows the daemon's version or knows that it does not.
Observed == \A c \in Clients : client[c].observed \in {Unknown, version.daemon}

CanRead(c, kind) == SupportsProtocol(version.clients[c], AnswerProtocol(kind))

Readable ==
    version.daemon = ProtocolVersion =>
        \A c \in Clients : /\ task[c].pc = "done" => CanRead(c, task[c].answer.kind)
                           /\ client[c].got # "none" => CanRead(c, client[c].got)

Known ==
    \A c \in Clients :
        Current(c) /\ client[c].pc = "waiting" =>
            SupportsProtocol(version.daemon, MinimumProtocol(Command(c)))

\* A request that may still be refused has typed nothing, and one that is not
\* sent has no task.
Fresh ==
    \A c \in Clients : /\ task[c].pc \in {"none", "gate", "resolve", "look"} => task[c].sent = 0
                       /\ client[c].pc \in {"start", "probing"} => task[c].pc = "none"

\* Without overlap one resize at a time is under way, and the terminal has its size.
SizeOf(command) == [cols |-> command.cols, rows |-> command.rows]
Resizing(c) == task[c].pc = "emulate"

OneResize ==
    ~raced =>
        /\ \A c, d \in Clients : Resizing(c) /\ Resizing(d) => c = d
        /\ \A c \in Clients : Resizing(c) => sizes.pty = SizeOf(Command(c))
        /\ (\A c \in Clients : ~Resizing(c)) => sizes.pty = sizes.emulator

RInv == Shaped /\ Observed /\ Readable /\ Known /\ Fresh /\ OneResize
-----------------------------------------------------------------------------
\* Whatever a handler answers, its client can read what is sent.
LEMMA UnderstoodIsReadable ==
    ASSUME Shaped, NEW c \in Clients, NEW answer
    PROVE  CanRead(c, Understood(c, answer).kind)
<1>1. CASE SupportsProtocol(version.clients[c], AnswerProtocol(answer.kind))
  BY <1>1 DEF Understood, CanRead
<1>2. CASE ~SupportsProtocol(version.clients[c], AnswerProtocol(answer.kind))
  <2>1. Understood(c, answer).kind = "upgrade"
    BY <1>2 DEF Understood, Answer
  <2>2. AnswerProtocol("upgrade") = 0
    BY DEF AnswerProtocol, Success, ErrorProtocol, CodeOf, Legacy
  <2> QED
    BY <2>1, <2>2 DEF CanRead, SupportsProtocol, Shaped
<1> QED
  BY <1>1, <1>2

\* The answers that every version knows are never replaced by a refusal.
LEMMA PlainIsKept ==
    ASSUME Shaped, NEW c \in Clients, NEW kind \in {"ok", "notFound", "failed", "invalid"}
    PROVE  Understood(c, Answer(kind)) = Answer(kind)
<1>1. AnswerProtocol(kind) = 0
  BY DEF AnswerProtocol, PayloadProtocol, Success, ErrorProtocol, CodeOf, Legacy
<1> QED
  BY <1>1 DEF Understood, Answer, SupportsProtocol, Shaped

LEMMA RInit == Init => RInv
<1> SUFFICES ASSUME Init PROVE RInv
  OBVIOUS
<1>1. \A c \in Clients : \E line : client[c] = Called(line)
  BY DEF Init
<1>2. version.daemon \in Nat /\ \A c \in Clients : version.clients[c] \in Nat
  <2>1. version \in [clients : [Clients -> 0..ProtocolVersion], daemon : 0..ProtocolVersion]
    BY RequestsAssumption DEF Init
  <2> QED
    BY <2>1 DEF ProtocolVersion, V3
<1>3. Shaped
  BY <1>1, <1>2 DEF Init, Shaped, Called, Idle
<1>4. Observed /\ Known
  <2>1. ASSUME NEW c \in Clients PROVE client[c].observed = Unknown /\ client[c].pc = "start"
    <3>1. PICK line : client[c] = Called(line)
      BY <1>1
    <3> QED
      BY <3>1 DEF Called
  <2> QED
    BY <2>1 DEF Observed, Known
<1>5. Readable /\ Fresh /\ OneResize
  BY <1>1 DEF Init, Readable, Fresh, OneResize, Resizing, Called, Idle
<1> QED
  BY <1>3, <1>4, <1>5 DEF RInv
-----------------------------------------------------------------------------
(* The steps with many branches, by what they do to the task.               *)

LEMMA DecideCases ==
    ASSUME NEW c \in Clients, Decide(c)
    PROVE  /\ UNCHANGED <<version, ends, pipe, screen, history>> /\ client[c].pc = "start"
           /\ \/ Turn(c, "probing") /\ task' = task
              \/ Exit(c, GenericError) /\ task' = task
              \/ Turn(c, "waiting") /\ task' = [task EXCEPT ![c].pc = "gate"]
  BY DEF Decide

LEMMA ResolveCases ==
    ASSUME NEW c \in Clients, Resolve(c)
    PROVE  /\ UNCHANGED <<peers, ends, pipe, screen, history>> /\ task[c].pc = "resolve"
           /\ \/ \E answer : Finish(c, answer)
              \/ \E input : Encoded(c, input)
              \/ \E pc \in {"look", "resize", "kill"} : GoOn(c, pc)
<1>1. UNCHANGED <<peers, ends, pipe, screen, history>> /\ task[c].pc = "resolve"
  BY DEF Resolve
<1>2. CASE session # "live"
  BY <1>1, <1>2 DEF Resolve
<1>3. CASE session = "live" /\ Command(c).op \in {"type", "click"}
  BY <1>1, <1>3 DEF Resolve
<1>4. CASE session = "live" /\ Command(c).op \notin {"type", "click"}
  <2>1. GoOn(c, IF Command(c).op \in {"key", "scroll"} THEN "look" ELSE Command(c).op)
        /\ Command(c).op \in InputOps \cup {"resize", "kill"}
    BY <1>4 DEF Resolve
  <2> QED
    BY <1>1, <1>4, <2>1 DEF InputOps
<1> QED
  BY <1>2, <1>3, <1>4

LEMMA ReportCases ==
    ASSUME NEW c \in Clients, Report(c)
    PROVE  /\ UNCHANGED <<peers, ends, pipe, screen, history>> /\ task[c].pc = "resolve"
           /\ \E answer : Finish(c, answer)
  BY DEF Report

LEMMA ShapedStep ==
    ASSUME Shaped, Next
    PROVE  Shaped'
<1> USE DEF Shaped, peers, pipe, ends, screen, history
<1>1. ASSUME NEW c \in Clients, Examples(c) PROVE Shaped'
  BY <1>1 DEF Examples, Exit
<1>2. ASSUME NEW c \in Clients, Decide(c) PROVE Shaped'
  BY <1>2 DEF Decide, Turn, Exit
<1>3. ASSUME NEW c \in Clients, ProbeAnswered(c) PROVE Shaped'
  BY <1>3 DEF ProbeAnswered
<1>4. ASSUME NEW c \in Clients, Receive(c) PROVE Shaped'
  BY <1>4 DEF Receive
<1>5. ASSUME NEW c \in Clients, TimeOut(c) PROVE Shaped'
  BY <1>5 DEF TimeOut, Exit
<1>6. ASSUME NEW c \in Clients, Gate(c) PROVE Shaped'
  BY <1>6 DEF Gate, Finish, GoOn, Done
<1>7. ASSUME NEW c \in Clients, OlderDaemonAnswers(c) PROVE Shaped'
  BY <1>7 DEF OlderDaemonAnswers
<1>8. ASSUME NEW c \in Clients, Resolve(c) PROVE Shaped'
  BY <1>8 DEF Resolve, Finish, GoOn, Encoded, Done
<1>9. ASSUME NEW c \in Clients, Report(c) PROVE Shaped'
  BY <1>9 DEF Report, Finish, Done
<1>10. ASSUME NEW c \in Clients, Look(c) PROVE Shaped'
  BY <1>10 DEF Look, Finish, Encoded, Done
<1>11. ASSUME NEW c \in Clients, Write(c) PROVE Shaped'
  BY <1>11 DEF Write, Finish, GoOn, Done
<1>12. ASSUME NEW c \in Clients, Send(c) PROVE Shaped'
  BY <1>12 DEF Send
<1>13. ASSUME NEW c \in Clients, DelayOver(c) PROVE Shaped'
  BY <1>13 DEF DelayOver, GoOn
<1>14. ASSUME NEW c \in Clients, SendRefused(c) PROVE Shaped'
  BY <1>14 DEF SendRefused, Finish, Done
<1>15. ASSUME NEW c \in Clients, ResizeTerminal(c) PROVE Shaped'
  BY <1>15 DEF ResizeTerminal, Finish, GoOn, Done
<1>16. ASSUME NEW c \in Clients, ResizeEmulator(c) PROVE Shaped'
  BY <1>16 DEF ResizeEmulator, Finish, Done
<1>17. ASSUME NEW c \in Clients, KillRemove(c) PROVE Shaped'
  BY <1>17 DEF KillRemove, Finish, GoOn, Done
<1>18. ASSUME NEW c \in Clients, Terminate(c) PROVE Shaped'
  BY <1>18 DEF Terminate, GoOn
<1>19. ASSUME NEW c \in Clients, KillBury(c) PROVE Shaped'
  BY <1>19 DEF KillBury, Finish, Done
<1>20. ASSUME WriterTakes PROVE Shaped'
  BY <1>20 DEF WriterTakes
<1>21. ASSUME ProgramReads PROVE Shaped'
  BY <1>21 DEF ProgramReads
<1>22. ASSUME WriteAfterExit PROVE Shaped'
  BY <1>22 DEF WriteAfterExit
<1>23. ASSUME ChildExits PROVE Shaped'
  BY <1>23 DEF ChildExits
<1>24. ASSUME CleanerBuries PROVE Shaped'
  BY <1>24 DEF CleanerBuries
<1>25. ASSUME ModeChanges PROVE Shaped'
  BY <1>25 DEF ModeChanges
<1> HIDE DEF Shaped, peers, pipe, ends, screen, history
<1> QED
  BY <1>1, <1>2, <1>3, <1>4, <1>5, <1>6, <1>7, <1>8, <1>9, <1>10, <1>11, <1>12,
     <1>13, <1>14, <1>15, <1>16, <1>17, <1>18, <1>19, <1>20, <1>21, <1>22,
     <1>23, <1>24, <1>25 DEF Next, TaskStep

LEMMA ObservedStep ==
    ASSUME Shaped, Observed, Next
    PROVE  Observed'
<1> USE DEF Shaped, Observed, peers, pipe, ends, screen, history
<1>1. ASSUME NEW c \in Clients, Examples(c) PROVE Observed'
  BY <1>1 DEF Examples, Exit
<1>2. ASSUME NEW c \in Clients, Decide(c) PROVE Observed'
  BY <1>2 DEF Decide, Turn, Exit
<1>3. ASSUME NEW c \in Clients, ProbeAnswered(c) PROVE Observed'
  BY <1>3 DEF ProbeAnswered
<1>4. ASSUME NEW c \in Clients, Receive(c) PROVE Observed'
  BY <1>4 DEF Receive
<1>5. ASSUME NEW c \in Clients, TimeOut(c) PROVE Observed'
  BY <1>5 DEF TimeOut, Exit
<1>6. ASSUME NEW c \in Clients, Gate(c) PROVE Observed'
  BY <1>6 DEF Gate, Finish, GoOn, Done
<1>7. ASSUME NEW c \in Clients, OlderDaemonAnswers(c) PROVE Observed'
  BY <1>7 DEF OlderDaemonAnswers
<1>8. ASSUME NEW c \in Clients, Resolve(c) PROVE Observed'
  BY <1>8 DEF Resolve, Finish, GoOn, Encoded, Done
<1>9. ASSUME NEW c \in Clients, Report(c) PROVE Observed'
  BY <1>9 DEF Report, Finish, Done
<1>10. ASSUME NEW c \in Clients, Look(c) PROVE Observed'
  BY <1>10 DEF Look, Finish, Encoded, Done
<1>11. ASSUME NEW c \in Clients, Write(c) PROVE Observed'
  BY <1>11 DEF Write, Finish, GoOn, Done
<1>12. ASSUME NEW c \in Clients, Send(c) PROVE Observed'
  BY <1>12 DEF Send
<1>13. ASSUME NEW c \in Clients, DelayOver(c) PROVE Observed'
  BY <1>13 DEF DelayOver, GoOn
<1>14. ASSUME NEW c \in Clients, SendRefused(c) PROVE Observed'
  BY <1>14 DEF SendRefused, Finish, Done
<1>15. ASSUME NEW c \in Clients, ResizeTerminal(c) PROVE Observed'
  BY <1>15 DEF ResizeTerminal, Finish, GoOn, Done
<1>16. ASSUME NEW c \in Clients, ResizeEmulator(c) PROVE Observed'
  BY <1>16 DEF ResizeEmulator, Finish, Done
<1>17. ASSUME NEW c \in Clients, KillRemove(c) PROVE Observed'
  BY <1>17 DEF KillRemove, Finish, GoOn, Done
<1>18. ASSUME NEW c \in Clients, Terminate(c) PROVE Observed'
  BY <1>18 DEF Terminate, GoOn
<1>19. ASSUME NEW c \in Clients, KillBury(c) PROVE Observed'
  BY <1>19 DEF KillBury, Finish, Done
<1>20. ASSUME WriterTakes PROVE Observed'
  BY <1>20 DEF WriterTakes
<1>21. ASSUME ProgramReads PROVE Observed'
  BY <1>21 DEF ProgramReads
<1>22. ASSUME WriteAfterExit PROVE Observed'
  BY <1>22 DEF WriteAfterExit
<1>23. ASSUME ChildExits PROVE Observed'
  BY <1>23 DEF ChildExits
<1>24. ASSUME CleanerBuries PROVE Observed'
  BY <1>24 DEF CleanerBuries
<1>25. ASSUME ModeChanges PROVE Observed'
  BY <1>25 DEF ModeChanges
<1> HIDE DEF Shaped, Observed, peers, pipe, ends, screen, history
<1> QED
  BY <1>1, <1>2, <1>3, <1>4, <1>5, <1>6, <1>7, <1>8, <1>9, <1>10, <1>11, <1>12,
     <1>13, <1>14, <1>15, <1>16, <1>17, <1>18, <1>19, <1>20, <1>21, <1>22,
     <1>23, <1>24, <1>25 DEF Next, TaskStep

LEMMA ReadableStep ==
    ASSUME Shaped, Readable, Next
    PROVE  Readable'
<1> USE DEF Shaped, Readable, CanRead, peers, pipe, ends, screen, history
<1>1. ASSUME NEW c \in Clients, Examples(c) PROVE Readable'
  BY <1>1 DEF Examples, Exit
<1>2. ASSUME NEW c \in Clients, Decide(c) PROVE Readable'
  BY <1>2 DEF Decide, Turn, Exit
<1>3. ASSUME NEW c \in Clients, ProbeAnswered(c) PROVE Readable'
  BY <1>3 DEF ProbeAnswered
<1>4. ASSUME NEW c \in Clients, Receive(c) PROVE Readable'
  BY <1>4 DEF Receive
<1>5. ASSUME NEW c \in Clients, TimeOut(c) PROVE Readable'
  BY <1>5 DEF TimeOut, Exit
<1>6. ASSUME NEW c \in Clients, Gate(c) PROVE Readable'
  BY <1>6, UnderstoodIsReadable DEF Gate, Finish, GoOn, Done
<1>7. ASSUME NEW c \in Clients, OlderDaemonAnswers(c) PROVE Readable'
  BY <1>7, UnderstoodIsReadable DEF OlderDaemonAnswers
<1>8. ASSUME NEW c \in Clients, Resolve(c) PROVE Readable'
  <2>1. UNCHANGED <<peers, ends, pipe, screen, history>> /\ task[c].pc = "resolve"
    BY <1>8, ResolveCases
  <2>2. CASE \E answer : Finish(c, answer)
    <3>1. PICK answer : Finish(c, answer)
      BY <2>2
    <3> QED
      BY <2>1, <3>1, UnderstoodIsReadable DEF Finish, Done
  <2>3. CASE \E input : Encoded(c, input)
    <3>1. PICK input : Encoded(c, input)
      BY <2>3
    <3> QED
      BY <2>1, <3>1 DEF Encoded
  <2>4. CASE \E pc \in {"look", "resize", "kill"} : GoOn(c, pc)
    <3>1. PICK pc \in {"look", "resize", "kill"} : GoOn(c, pc)
      BY <2>4
    <3> QED
      BY <2>1, <3>1 DEF GoOn
  <2> QED
    BY <1>8, <2>2, <2>3, <2>4, ResolveCases
<1>9. ASSUME NEW c \in Clients, Report(c) PROVE Readable'
  <2>1. UNCHANGED <<peers, ends, pipe, screen, history>> /\ task[c].pc = "resolve"
    BY <1>9, ReportCases
  <2>2. PICK answer : Finish(c, answer)
    BY <1>9, ReportCases
  <2> QED
    BY <2>1, <2>2, UnderstoodIsReadable DEF Finish, Done
<1>10. ASSUME NEW c \in Clients, Look(c) PROVE Readable'
  BY <1>10, UnderstoodIsReadable DEF Look, Finish, Encoded, Done
<1>11. ASSUME NEW c \in Clients, Write(c) PROVE Readable'
  BY <1>11, UnderstoodIsReadable DEF Write, Finish, GoOn, Done
<1>12. ASSUME NEW c \in Clients, Send(c) PROVE Readable'
  BY <1>12 DEF Send
<1>13. ASSUME NEW c \in Clients, DelayOver(c) PROVE Readable'
  BY <1>13 DEF DelayOver, GoOn
<1>14. ASSUME NEW c \in Clients, SendRefused(c) PROVE Readable'
  BY <1>14, UnderstoodIsReadable DEF SendRefused, Finish, Done
<1>15. ASSUME NEW c \in Clients, ResizeTerminal(c) PROVE Readable'
  BY <1>15, UnderstoodIsReadable DEF ResizeTerminal, Finish, GoOn, Done
<1>16. ASSUME NEW c \in Clients, ResizeEmulator(c) PROVE Readable'
  BY <1>16, UnderstoodIsReadable DEF ResizeEmulator, Finish, Done
<1>17. ASSUME NEW c \in Clients, KillRemove(c) PROVE Readable'
  BY <1>17, UnderstoodIsReadable DEF KillRemove, Finish, GoOn, Done
<1>18. ASSUME NEW c \in Clients, Terminate(c) PROVE Readable'
  BY <1>18 DEF Terminate, GoOn
<1>19. ASSUME NEW c \in Clients, KillBury(c) PROVE Readable'
  BY <1>19, UnderstoodIsReadable DEF KillBury, Finish, Done
<1>20. ASSUME WriterTakes PROVE Readable'
  BY <1>20 DEF WriterTakes
<1>21. ASSUME ProgramReads PROVE Readable'
  BY <1>21 DEF ProgramReads
<1>22. ASSUME WriteAfterExit PROVE Readable'
  BY <1>22 DEF WriteAfterExit
<1>23. ASSUME ChildExits PROVE Readable'
  BY <1>23 DEF ChildExits
<1>24. ASSUME CleanerBuries PROVE Readable'
  BY <1>24 DEF CleanerBuries
<1>25. ASSUME ModeChanges PROVE Readable'
  BY <1>25 DEF ModeChanges
<1> HIDE DEF Shaped, Readable, CanRead, peers, pipe, ends, screen, history
<1> QED
  BY <1>1, <1>2, <1>3, <1>4, <1>5, <1>6, <1>7, <1>8, <1>9, <1>10, <1>11, <1>12,
     <1>13, <1>14, <1>15, <1>16, <1>17, <1>18, <1>19, <1>20, <1>21, <1>22,
     <1>23, <1>24, <1>25 DEF Next, TaskStep

LEMMA KnownStep ==
    ASSUME Shaped, Observed, Known, Next
    PROVE  Known'
<1> USE DEF Shaped, Observed, Known, Command, Current, peers, pipe, ends, screen, history
<1>1. ASSUME NEW c \in Clients, Examples(c) PROVE Known'
  BY <1>1 DEF Examples, Exit
<1>2. ASSUME NEW c \in Clients, Decide(c) PROVE Known'
  <2>1. ASSUME NEW d \in Clients, Current(d)', client'[d].pc = "waiting"
        PROVE  SupportsProtocol(version'.daemon, MinimumProtocol(Command(d)'))
    <3>1. version' = version /\ Command(d)' = Command(d) /\ Current(d)
      BY <1>2, <2>1 DEF Decide, Turn, Exit, Command, Current
    <3>2. CASE client[d].pc = "waiting"
      BY <3>1, <3>2
    <3>3. CASE client[d].pc # "waiting"
      <4>1. d = c /\ ProtocolAction(client[c].observed, MinimumProtocol(Command(c))) \notin {"probe", "reject"}
        BY <1>2, <2>1, <3>1, <3>3 DEF Decide, Turn, Exit
      <4>2. MinimumProtocol(Command(c)) = Legacy
            \/ (client[c].observed # Unknown /\ SupportsProtocol(client[c].observed, MinimumProtocol(Command(c))))
        BY <4>1 DEF ProtocolAction
      <4> QED
        BY <3>1, <4>1, <4>2 DEF SupportsProtocol, Legacy
    <3> QED
      BY <3>2, <3>3
  <2> QED
    BY <2>1 DEF Known
<1>3. ASSUME NEW c \in Clients, ProbeAnswered(c) PROVE Known'
  BY <1>3 DEF ProbeAnswered
<1>4. ASSUME NEW c \in Clients, Receive(c) PROVE Known'
  BY <1>4 DEF Receive
<1>5. ASSUME NEW c \in Clients, TimeOut(c) PROVE Known'
  BY <1>5 DEF TimeOut, Exit
<1>6. ASSUME NEW c \in Clients, Gate(c) PROVE Known'
  BY <1>6 DEF Gate, Finish, GoOn, Done
<1>7. ASSUME NEW c \in Clients, OlderDaemonAnswers(c) PROVE Known'
  BY <1>7 DEF OlderDaemonAnswers
<1>8. ASSUME NEW c \in Clients, Resolve(c) PROVE Known'
  BY <1>8 DEF Resolve, Finish, GoOn, Encoded, Done
<1>9. ASSUME NEW c \in Clients, Report(c) PROVE Known'
  BY <1>9 DEF Report, Finish, Done
<1>10. ASSUME NEW c \in Clients, Look(c) PROVE Known'
  BY <1>10 DEF Look, Finish, Encoded, Done
<1>11. ASSUME NEW c \in Clients, Write(c) PROVE Known'
  BY <1>11 DEF Write, Finish, GoOn, Done
<1>12. ASSUME NEW c \in Clients, Send(c) PROVE Known'
  BY <1>12 DEF Send
<1>13. ASSUME NEW c \in Clients, DelayOver(c) PROVE Known'
  BY <1>13 DEF DelayOver, GoOn
<1>14. ASSUME NEW c \in Clients, SendRefused(c) PROVE Known'
  BY <1>14 DEF SendRefused, Finish, Done
<1>15. ASSUME NEW c \in Clients, ResizeTerminal(c) PROVE Known'
  BY <1>15 DEF ResizeTerminal, Finish, GoOn, Done
<1>16. ASSUME NEW c \in Clients, ResizeEmulator(c) PROVE Known'
  BY <1>16 DEF ResizeEmulator, Finish, Done
<1>17. ASSUME NEW c \in Clients, KillRemove(c) PROVE Known'
  BY <1>17 DEF KillRemove, Finish, GoOn, Done
<1>18. ASSUME NEW c \in Clients, Terminate(c) PROVE Known'
  BY <1>18 DEF Terminate, GoOn
<1>19. ASSUME NEW c \in Clients, KillBury(c) PROVE Known'
  BY <1>19 DEF KillBury, Finish, Done
<1>20. ASSUME WriterTakes PROVE Known'
  BY <1>20 DEF WriterTakes
<1>21. ASSUME ProgramReads PROVE Known'
  BY <1>21 DEF ProgramReads
<1>22. ASSUME WriteAfterExit PROVE Known'
  BY <1>22 DEF WriteAfterExit
<1>23. ASSUME ChildExits PROVE Known'
  BY <1>23 DEF ChildExits
<1>24. ASSUME CleanerBuries PROVE Known'
  BY <1>24 DEF CleanerBuries
<1>25. ASSUME ModeChanges PROVE Known'
  BY <1>25 DEF ModeChanges
<1> HIDE DEF Shaped, Observed, Known, Command, Current, peers, pipe, ends, screen, history
<1> QED
  BY <1>1, <1>2, <1>3, <1>4, <1>5, <1>6, <1>7, <1>8, <1>9, <1>10, <1>11, <1>12,
     <1>13, <1>14, <1>15, <1>16, <1>17, <1>18, <1>19, <1>20, <1>21, <1>22,
     <1>23, <1>24, <1>25 DEF Next, TaskStep

LEMMA FreshStep ==
    ASSUME Shaped, Fresh, Next
    PROVE  Fresh'
<1> USE DEF Shaped, Fresh, peers, pipe, ends, screen, history
<1>1. ASSUME NEW c \in Clients, Examples(c) PROVE Fresh'
  BY <1>1 DEF Examples, Exit
<1>2. ASSUME NEW c \in Clients, Decide(c) PROVE Fresh'
  <2>1. UNCHANGED <<version, ends, pipe, screen, history>> /\ client[c].pc = "start"
    BY <1>2, DecideCases
  <2>2. CASE (Turn(c, "probing") \/ Exit(c, GenericError)) /\ task' = task
    BY <2>1, <2>2 DEF Turn, Exit
  <2>3. CASE Turn(c, "waiting") /\ task' = [task EXCEPT ![c].pc = "gate"]
    BY <2>1, <2>3 DEF Turn
  <2> QED
    BY <1>2, <2>2, <2>3, DecideCases
<1>3. ASSUME NEW c \in Clients, ProbeAnswered(c) PROVE Fresh'
  BY <1>3 DEF ProbeAnswered
<1>4. ASSUME NEW c \in Clients, Receive(c) PROVE Fresh'
  BY <1>4 DEF Receive
<1>5. ASSUME NEW c \in Clients, TimeOut(c) PROVE Fresh'
  BY <1>5 DEF TimeOut, Exit
<1>6. ASSUME NEW c \in Clients, Gate(c) PROVE Fresh'
  BY <1>6 DEF Gate, Finish, GoOn, Done
<1>7. ASSUME NEW c \in Clients, OlderDaemonAnswers(c) PROVE Fresh'
  BY <1>7 DEF OlderDaemonAnswers
<1>8. ASSUME NEW c \in Clients, Resolve(c) PROVE Fresh'
  <2>1. UNCHANGED <<peers, ends, pipe, screen, history>> /\ task[c].pc = "resolve"
    BY <1>8, ResolveCases
  <2>2. CASE \E answer : Finish(c, answer)
    <3>1. PICK answer : Finish(c, answer)
      BY <2>2
    <3> QED
      BY <2>1, <3>1 DEF Finish, Done
  <2>3. CASE \E input : Encoded(c, input)
    <3>1. PICK input : Encoded(c, input)
      BY <2>3
    <3> QED
      BY <2>1, <3>1 DEF Encoded
  <2>4. CASE \E pc \in {"look", "resize", "kill"} : GoOn(c, pc)
    <3>1. PICK pc \in {"look", "resize", "kill"} : GoOn(c, pc)
      BY <2>4
    <3> QED
      BY <2>1, <3>1 DEF GoOn
  <2> QED
    BY <1>8, <2>2, <2>3, <2>4, ResolveCases
<1>9. ASSUME NEW c \in Clients, Report(c) PROVE Fresh'
  <2>1. UNCHANGED <<peers, ends, pipe, screen, history>> /\ task[c].pc = "resolve"
    BY <1>9, ReportCases
  <2>2. PICK answer : Finish(c, answer)
    BY <1>9, ReportCases
  <2> QED
    BY <2>1, <2>2 DEF Finish, Done
<1>10. ASSUME NEW c \in Clients, Look(c) PROVE Fresh'
  BY <1>10 DEF Look, Finish, Encoded, Done
<1>11. ASSUME NEW c \in Clients, Write(c) PROVE Fresh'
  BY <1>11 DEF Write, Finish, GoOn, Done
<1>12. ASSUME NEW c \in Clients, Send(c) PROVE Fresh'
  BY <1>12 DEF Send
<1>13. ASSUME NEW c \in Clients, DelayOver(c) PROVE Fresh'
  BY <1>13 DEF DelayOver, GoOn
<1>14. ASSUME NEW c \in Clients, SendRefused(c) PROVE Fresh'
  BY <1>14 DEF SendRefused, Finish, Done
<1>15. ASSUME NEW c \in Clients, ResizeTerminal(c) PROVE Fresh'
  BY <1>15 DEF ResizeTerminal, Finish, GoOn, Done
<1>16. ASSUME NEW c \in Clients, ResizeEmulator(c) PROVE Fresh'
  BY <1>16 DEF ResizeEmulator, Finish, Done
<1>17. ASSUME NEW c \in Clients, KillRemove(c) PROVE Fresh'
  BY <1>17 DEF KillRemove, Finish, GoOn, Done
<1>18. ASSUME NEW c \in Clients, Terminate(c) PROVE Fresh'
  BY <1>18 DEF Terminate, GoOn
<1>19. ASSUME NEW c \in Clients, KillBury(c) PROVE Fresh'
  BY <1>19 DEF KillBury, Finish, Done
<1>20. ASSUME WriterTakes PROVE Fresh'
  BY <1>20 DEF WriterTakes
<1>21. ASSUME ProgramReads PROVE Fresh'
  BY <1>21 DEF ProgramReads
<1>22. ASSUME WriteAfterExit PROVE Fresh'
  BY <1>22 DEF WriteAfterExit
<1>23. ASSUME ChildExits PROVE Fresh'
  BY <1>23 DEF ChildExits
<1>24. ASSUME CleanerBuries PROVE Fresh'
  BY <1>24 DEF CleanerBuries
<1>25. ASSUME ModeChanges PROVE Fresh'
  BY <1>25 DEF ModeChanges
<1> HIDE DEF Shaped, Fresh, peers, pipe, ends, screen, history
<1> QED
  BY <1>1, <1>2, <1>3, <1>4, <1>5, <1>6, <1>7, <1>8, <1>9, <1>10, <1>11, <1>12,
     <1>13, <1>14, <1>15, <1>16, <1>17, <1>18, <1>19, <1>20, <1>21, <1>22,
     <1>23, <1>24, <1>25 DEF Next, TaskStep

LEMMA OneResizeStep ==
    ASSUME Shaped, Fresh, OneResize, Next
    PROVE  OneResize'
<1> USE DEF Shaped, Fresh, OneResize, Resizing, SizeOf, Command, peers, pipe, ends, screen, history
<1>1. ASSUME NEW c \in Clients, Examples(c) PROVE OneResize'
  BY <1>1 DEF Examples, Exit
<1>2. ASSUME NEW c \in Clients, Decide(c) PROVE OneResize'
  <2>1. UNCHANGED <<version, ends, pipe, screen, history>> /\ client[c].pc = "start"
    BY <1>2, DecideCases
  <2>2. CASE (Turn(c, "probing") \/ Exit(c, GenericError)) /\ task' = task
    BY <2>1, <2>2 DEF Turn, Exit
  <2>3. CASE Turn(c, "waiting") /\ task' = [task EXCEPT ![c].pc = "gate"]
    BY <2>1, <2>3 DEF Turn
  <2> QED
    BY <1>2, <2>2, <2>3, DecideCases
<1>3. ASSUME NEW c \in Clients, ProbeAnswered(c) PROVE OneResize'
  BY <1>3 DEF ProbeAnswered
<1>4. ASSUME NEW c \in Clients, Receive(c) PROVE OneResize'
  BY <1>4 DEF Receive
<1>5. ASSUME NEW c \in Clients, TimeOut(c) PROVE OneResize'
  BY <1>5 DEF TimeOut, Exit
<1>6. ASSUME NEW c \in Clients, Gate(c) PROVE OneResize'
  BY <1>6 DEF Gate, Finish, GoOn, Done
<1>7. ASSUME NEW c \in Clients, OlderDaemonAnswers(c) PROVE OneResize'
  BY <1>7 DEF OlderDaemonAnswers
<1>8. ASSUME NEW c \in Clients, Resolve(c) PROVE OneResize'
  <2>1. UNCHANGED <<peers, ends, pipe, screen, history>> /\ task[c].pc = "resolve"
    BY <1>8, ResolveCases
  <2>2. CASE \E answer : Finish(c, answer)
    <3>1. PICK answer : Finish(c, answer)
      BY <2>2
    <3> QED
      BY <2>1, <3>1 DEF Finish, Done
  <2>3. CASE \E input : Encoded(c, input)
    <3>1. PICK input : Encoded(c, input)
      BY <2>3
    <3> QED
      BY <2>1, <3>1 DEF Encoded
  <2>4. CASE \E pc \in {"look", "resize", "kill"} : GoOn(c, pc)
    <3>1. PICK pc \in {"look", "resize", "kill"} : GoOn(c, pc)
      BY <2>4
    <3> QED
      BY <2>1, <3>1 DEF GoOn
  <2> QED
    BY <1>8, <2>2, <2>3, <2>4, ResolveCases
<1>9. ASSUME NEW c \in Clients, Report(c) PROVE OneResize'
  <2>1. UNCHANGED <<peers, ends, pipe, screen, history>> /\ task[c].pc = "resolve"
    BY <1>9, ReportCases
  <2>2. PICK answer : Finish(c, answer)
    BY <1>9, ReportCases
  <2> QED
    BY <2>1, <2>2 DEF Finish, Done
<1>10. ASSUME NEW c \in Clients, Look(c) PROVE OneResize'
  BY <1>10 DEF Look, Finish, Encoded, Done
<1>11. ASSUME NEW c \in Clients, Write(c) PROVE OneResize'
  BY <1>11 DEF Write, Finish, GoOn, Done
<1>12. ASSUME NEW c \in Clients, Send(c) PROVE OneResize'
  BY ZenonT(30), <1>12 DEF Send
<1>13. ASSUME NEW c \in Clients, DelayOver(c) PROVE OneResize'
  BY <1>13 DEF DelayOver, GoOn
<1>14. ASSUME NEW c \in Clients, SendRefused(c) PROVE OneResize'
  BY <1>14 DEF SendRefused, Finish, Done
<1>15. ASSUME NEW c \in Clients, ResizeTerminal(c) PROVE OneResize'
  <2>1. UNCHANGED <<client, sizes.emulator>> /\ task[c].pc = "resize"
    BY <1>15 DEF ResizeTerminal
  <2>2. CASE UNCHANGED <<sizes, raced>> /\ \E kind \in {"failed", "notFound"} : Finish(c, Answer(kind))
    BY <1>15, <2>2 DEF ResizeTerminal, Finish, Done
  <2>3. CASE /\ GoOn(c, "emulate")
             /\ sizes' = [sizes EXCEPT !.pty = [cols |-> Command(c).cols, rows |-> Command(c).rows]]
             /\ raced' = (raced \/ \E d \in Clients : task[d].pc = "emulate")
    <3>1. /\ task' = [task EXCEPT ![c].pc = "emulate"] /\ UNCHANGED client
          /\ sizes' = [sizes EXCEPT !.pty = SizeOf(Command(c))]
          /\ raced' = (raced \/ \E d \in Clients : task[d].pc = "emulate")
      BY <1>15, <2>3 DEF ResizeTerminal, GoOn
    <3>2. CASE raced'
      BY <3>2
    <3>3. CASE ~raced'
      <4>1. ~raced /\ \A d \in Clients : task[d].pc # "emulate"
        BY <3>1, <3>3
      <4>2. \A d \in Clients : Resizing(d)' <=> d = c
        BY <3>1, <4>1
      <4>3. sizes'.pty = SizeOf(Command(c))'
        BY <3>1
      <4> QED
        BY <4>2, <4>3
    <3> QED
      BY <3>2, <3>3
  <2> QED
    BY <1>15, <2>2, <2>3 DEF ResizeTerminal
<1>16. ASSUME NEW c \in Clients, ResizeEmulator(c) PROVE OneResize'
  BY <1>16 DEF ResizeEmulator, Finish, Done
<1>17. ASSUME NEW c \in Clients, KillRemove(c) PROVE OneResize'
  BY <1>17 DEF KillRemove, Finish, GoOn, Done
<1>18. ASSUME NEW c \in Clients, Terminate(c) PROVE OneResize'
  BY <1>18 DEF Terminate, GoOn
<1>19. ASSUME NEW c \in Clients, KillBury(c) PROVE OneResize'
  BY <1>19 DEF KillBury, Finish, Done
<1>20. ASSUME WriterTakes PROVE OneResize'
  BY <1>20 DEF WriterTakes
<1>21. ASSUME ProgramReads PROVE OneResize'
  BY <1>21 DEF ProgramReads
<1>22. ASSUME WriteAfterExit PROVE OneResize'
  BY <1>22 DEF WriteAfterExit
<1>23. ASSUME ChildExits PROVE OneResize'
  BY <1>23 DEF ChildExits
<1>24. ASSUME CleanerBuries PROVE OneResize'
  BY <1>24 DEF CleanerBuries
<1>25. ASSUME ModeChanges PROVE OneResize'
  BY <1>25 DEF ModeChanges
<1> HIDE DEF Shaped, Fresh, OneResize, Resizing, SizeOf, Command, peers, pipe, ends, screen, history
<1> QED
  BY <1>1, <1>2, <1>3, <1>4, <1>5, <1>6, <1>7, <1>8, <1>9, <1>10, <1>11, <1>12,
     <1>13, <1>14, <1>15, <1>16, <1>17, <1>18, <1>19, <1>20, <1>21, <1>22,
     <1>23, <1>24, <1>25 DEF Next, TaskStep

\* The step on which a task ends in a refusal.
RefusedNow(d) == task[d].pc # "done" /\ task'[d].pc = "done" /\ task'[d].answer.kind = "upgrade"

RefusalIsFree ==
    \A d \in Clients : RefusedNow(d) =>
        /\ task[d].sent = 0 /\ task[d].pc \notin {"emulate", "bury"}
        /\ UNCHANGED <<ends, channel, sizes>>

LEMMA RefusalStep ==
    ASSUME Shaped, Fresh, Next
    PROVE  RefusalIsFree
<1> USE DEF Shaped, Fresh, RefusalIsFree, RefusedNow, peers, pipe, ends, screen, history
<1>1. ASSUME NEW c \in Clients, Examples(c) PROVE RefusalIsFree
  BY <1>1 DEF Examples, Exit
<1>2. ASSUME NEW c \in Clients, Decide(c) PROVE RefusalIsFree
  BY <1>2 DEF Decide, Turn, Exit
<1>3. ASSUME NEW c \in Clients, ProbeAnswered(c) PROVE RefusalIsFree
  BY <1>3 DEF ProbeAnswered
<1>4. ASSUME NEW c \in Clients, Receive(c) PROVE RefusalIsFree
  BY <1>4 DEF Receive
<1>5. ASSUME NEW c \in Clients, TimeOut(c) PROVE RefusalIsFree
  BY <1>5 DEF TimeOut, Exit
<1>6. ASSUME NEW c \in Clients, Gate(c) PROVE RefusalIsFree
  BY <1>6 DEF Gate, Finish, GoOn, Done
<1>7. ASSUME NEW c \in Clients, OlderDaemonAnswers(c) PROVE RefusalIsFree
  BY <1>7, PlainIsKept DEF Answer, OlderDaemonAnswers
<1>8. ASSUME NEW c \in Clients, Resolve(c) PROVE RefusalIsFree
  BY <1>8 DEF Resolve, Finish, GoOn, Encoded, Done
<1>9. ASSUME NEW c \in Clients, Report(c) PROVE RefusalIsFree
  BY <1>9 DEF Report, Finish, Done
<1>10. ASSUME NEW c \in Clients, Look(c) PROVE RefusalIsFree
  BY <1>10, PlainIsKept DEF Answer, Look, Finish, Encoded, Done
<1>11. ASSUME NEW c \in Clients, Write(c) PROVE RefusalIsFree
  BY <1>11, PlainIsKept DEF Answer, Write, Finish, GoOn, Done
<1>12. ASSUME NEW c \in Clients, Send(c) PROVE RefusalIsFree
  BY <1>12 DEF Send
<1>13. ASSUME NEW c \in Clients, DelayOver(c) PROVE RefusalIsFree
  BY <1>13 DEF DelayOver, GoOn
<1>14. ASSUME NEW c \in Clients, SendRefused(c) PROVE RefusalIsFree
  BY <1>14, PlainIsKept DEF Answer, SendRefused, Finish, Done
<1>15. ASSUME NEW c \in Clients, ResizeTerminal(c) PROVE RefusalIsFree
  BY <1>15, PlainIsKept DEF Answer, ResizeTerminal, Finish, GoOn, Done
<1>16. ASSUME NEW c \in Clients, ResizeEmulator(c) PROVE RefusalIsFree
  BY <1>16, PlainIsKept DEF Answer, ResizeEmulator, Finish, Done
<1>17. ASSUME NEW c \in Clients, KillRemove(c) PROVE RefusalIsFree
  BY <1>17, PlainIsKept DEF Answer, KillRemove, Finish, GoOn, Done
<1>18. ASSUME NEW c \in Clients, Terminate(c) PROVE RefusalIsFree
  BY <1>18 DEF Terminate, GoOn
<1>19. ASSUME NEW c \in Clients, KillBury(c) PROVE RefusalIsFree
  BY <1>19, PlainIsKept DEF Answer, KillBury, Finish, Done
<1>20. ASSUME WriterTakes PROVE RefusalIsFree
  BY <1>20 DEF WriterTakes
<1>21. ASSUME ProgramReads PROVE RefusalIsFree
  BY <1>21 DEF ProgramReads
<1>22. ASSUME WriteAfterExit PROVE RefusalIsFree
  BY <1>22 DEF WriteAfterExit
<1>23. ASSUME ChildExits PROVE RefusalIsFree
  BY <1>23 DEF ChildExits
<1>24. ASSUME CleanerBuries PROVE RefusalIsFree
  BY <1>24 DEF CleanerBuries
<1>25. ASSUME ModeChanges PROVE RefusalIsFree
  BY <1>25 DEF ModeChanges
<1> HIDE DEF Shaped, Fresh, RefusalIsFree, RefusedNow, peers, pipe, ends, screen, history
<1> QED
  BY <1>1, <1>2, <1>3, <1>4, <1>5, <1>6, <1>7, <1>8, <1>9, <1>10, <1>11, <1>12,
     <1>13, <1>14, <1>15, <1>16, <1>17, <1>18, <1>19, <1>20, <1>21, <1>22,
     <1>23, <1>24, <1>25 DEF Next, TaskStep
-----------------------------------------------------------------------------
LEMMA RNext == ASSUME RInv, [Next]_vars PROVE RInv' /\ (RefusalIsFree \/ UNCHANGED vars)
<1> USE DEF RInv
<1>1. CASE Next
  BY <1>1, ShapedStep, ObservedStep, ReadableStep, KnownStep, FreshStep, OneResizeStep, RefusalStep
<1>2. CASE UNCHANGED vars
  BY <1>2 DEF vars, peers, pipe, ends, screen, history, Shaped, Observed, Readable, CanRead, Known, Command,
              Current, Fresh, OneResize, Resizing
<1> QED
  BY <1>1, <1>2

\* What is known of versions, what was sent and which resize is under way hang
\* together at every step.
THEOREM RequestInvariance == Spec => []RInv
<1>1. RInv /\ [Next]_vars => RInv'
  BY RNext
<1> QED
  BY RInit, <1>1, PTL DEF Spec

\* No command goes to a daemon that would not know it and no answer to a client
\* that could not decode it, for any mix of versions and any commands
\* (ensure_protocol, handle_request).
THEOREM VersionsAlwaysRespected == Spec => []VersionsRespected
<1>1. RInv => VersionsRespected
  BY DEF RInv, Readable, CanRead, Known, VersionsRespected
<1> QED
  BY RequestInvariance, <1>1, PTL

\* A command answered with "upgrade" has typed nothing and changed neither session
\* nor terminal, whichever of the two checks refused it (handle_request).
THEOREM RefusalsAreFree == Spec => RefusedDidNothing
<1>1. RInv /\ [Next]_vars => [RefusalIsFree]_vars
  BY RNext
<1>2. RInv /\ [RefusalIsFree]_vars => [\A c \in Clients : task[c].pc # "done" /\ task'[c].pc = "done" /\ task'[c].answer.kind = "upgrade" =>
        /\ task[c].sent = 0 /\ task[c].pc \notin {"emulate", "bury"}
        /\ UNCHANGED <<ends, channel, sizes>>]_vars
  BY DEF RefusalIsFree, RefusedNow
<1> QED
  BY RequestInvariance, <1>1, <1>2, PTL DEF Spec, RefusedDidNothing

\* Unless two resizes overlap, the terminal and the emulator have one size when none
\* is under way, for any sizes and also if the session ends in between
\* (resize_session).
THEOREM SizesAlwaysAgree == Spec => []SizesAgree
<1>1. RInv => SizesAgree
  BY DEF RInv, OneResize, Resizing, SizesAgree
<1> QED
  BY RequestInvariance, <1>1, PTL
-----------------------------------------------------------------------------
(* What one request put into the pipe.                                      *)

\* The places of a client's chunks.
PlacesOf(c, chunks) == {i \in DOMAIN chunks : chunks[i].from = c}

ChunksOf(B) == [from : Clients, bytes : B]

LEMMA FromElements ==
    ASSUME NEW B, NEW q \in Seq(ChunksOf(B)), NEW c
    PROVE  /\ From(c, q) \in Seq(B)
           /\ Cardinality(PlacesOf(c, q)) \in Nat
           /\ Len(From(c, q)) = Cardinality(PlacesOf(c, q))
           /\ \A j \in 1..Cardinality(PlacesOf(c, q)) :
                 From(c, q)[j] = q[Place(PlacesOf(c, q), j)].bytes /\ Place(PlacesOf(c, q), j) \in PlacesOf(c, q)
<1> DEFINE places == PlacesOf(c, q)
           mine == Selected(q, places)
<1>1. places \in SUBSET DOMAIN q
  BY DEF PlacesOf
<1>2. From(c, q) = [i \in DOMAIN mine |-> mine[i].bytes]
  BY DEF From, PlacesOf
<1>3. \A i \in DOMAIN q : q[i].bytes \in B
  <2>1. \A i \in DOMAIN q : q[i] \in ChunksOf(B)
    BY ElementOfSeq, LenProperties
  <2> QED
    BY <2>1 DEF ChunksOf
<1> HIDE DEF places
<1>4. /\ Cardinality(places) \in Nat
      /\ DOMAIN mine = 1..Cardinality(places)
      /\ \A j \in 1..Cardinality(places) : mine[j] = q[Place(places, j)]
      /\ \A j \in 1..Cardinality(places) : Place(places, j) \in places
  BY <1>1, SelectedElements
<1> HIDE DEF mine
<1>5. From(c, q) \in [1..Cardinality(places) -> B]
  BY <1>1, <1>2, <1>3, <1>4
<1>6. From(c, q) \in Seq(B) /\ Len(From(c, q)) = Cardinality(places)
  <2>1. From(c, q) \in Seq(B)
    BY <1>4, <1>5, SeqDef
  <2>2. DOMAIN From(c, q) = 1..Cardinality(places)
    BY <1>5
  <2> QED
    BY <1>4, <2>1, <2>2, LenProperties
<1> QED
  BY <1>1, <1>2, <1>4, <1>6 DEF places

\* What more there is in the pipe comes after.
LEMMA FromGrows ==
    ASSUME NEW B, NEW q \in Seq(ChunksOf(B)), NEW more \in Seq(ChunksOf(B)), NEW c
    PROVE  /\ IsPrefix(From(c, q), From(c, q \o more))
           /\ Len(From(c, q)) <= Len(From(c, q \o more))
<1> DEFINE C == ChunksOf(B)
           all == q \o more
           few == PlacesOf(c, q)
           many == PlacesOf(c, all)
<1> HIDE DEF C
<1>0. q \in Seq(C) /\ more \in Seq(C)
  BY DEF C
<1>1. /\ Len(q) \in Nat /\ DOMAIN q = 1..Len(q)
      /\ all \in Seq(C) /\ Len(all) = Len(q) + Len(more) /\ Len(more) \in Nat
      /\ DOMAIN all = 1..Len(all)
  BY <1>0, LenProperties, ConcatProperties
<1>2. \A i \in 1..Len(q) : all[i] = q[i]
  BY <1>0, <1>1, ConcatProperties
<1> HIDE DEF all
<1>3. /\ Len(q) <= Len(all) /\ Len(all) \in Nat
      /\ few \in SUBSET (1..Len(q)) /\ many \in SUBSET (1..Len(all))
      /\ \A i \in 1..Len(q) : i \in few <=> i \in many
  BY <1>1, <1>2 DEF PlacesOf
<1> HIDE DEF few, many
<1>4. /\ Cardinality(few) \in Nat /\ Cardinality(many) \in Nat
      /\ Cardinality(few) <= Cardinality(many)
      /\ \A j \in 1..Cardinality(few) : Place(many, j) = Place(few, j)
  BY ZenonT(30), <1>1, <1>3, PlacesStay
<1>5. /\ From(c, q) \in Seq(B) /\ From(c, all) \in Seq(B)
      /\ Len(From(c, q)) = Cardinality(few) /\ Len(From(c, all)) = Cardinality(many)
      /\ \A j \in 1..Cardinality(few) : From(c, q)[j] = q[Place(few, j)].bytes /\ Place(few, j) \in few
      /\ \A j \in 1..Cardinality(many) : From(c, all)[j] = all[Place(many, j)].bytes
  BY <1>1, FromElements DEF few, many, C
<1>6. \A j \in 1..Cardinality(few) : From(c, q)[j] = From(c, all)[j]
  <2> SUFFICES ASSUME NEW j \in 1..Cardinality(few) PROVE From(c, q)[j] = From(c, all)[j]
    OBVIOUS
  <2>1. j \in 1..Cardinality(many)
    BY <1>4
  <2>2. Place(few, j) \in few
    BY <1>5
  <2>3. Place(few, j) \in 1..Len(q)
    BY <1>3, <2>2
  <2> QED
    BY <1>2, <1>4, <1>5, <2>1, <2>3
<1>7. IsPrefix(From(c, q), From(c, all))
  BY <1>4, <1>5, <1>6, PrefixElements
<1> QED
  BY <1>4, <1>5, <1>7 DEF all

\* One more chunk is the last one of the client it is from, and none of the others'.
LEMMA FromAppended ==
    ASSUME NEW B, NEW q \in Seq(ChunksOf(B)), NEW b \in B, NEW d \in Clients, NEW c
    PROVE  /\ c # d => From(c, Append(q, Chunk(d, b))) = From(c, q)
           /\ c = d => /\ Len(From(c, Append(q, Chunk(d, b)))) = Len(From(c, q)) + 1
                       /\ From(c, Append(q, Chunk(d, b)))[Len(From(c, q)) + 1] = b
                       /\ \A i \in 1..Len(From(c, q)) : From(c, Append(q, Chunk(d, b)))[i] = From(c, q)[i]
<1> DEFINE C == ChunksOf(B)
           all == Append(q, Chunk(d, b))
           few == PlacesOf(c, q)
           many == PlacesOf(c, all)
<1>1. Chunk(d, b) \in C /\ Chunk(d, b).from = d /\ Chunk(d, b).bytes = b
  BY DEF Chunk, ChunksOf
<1> HIDE DEF C
<1>2. q \in Seq(C)
  BY DEF C
<1>3. /\ Len(q) \in Nat /\ DOMAIN q = 1..Len(q)
      /\ all \in Seq(C) /\ Len(all) = Len(q) + 1 /\ DOMAIN all = 1..Len(q) + 1
      /\ \A i \in 1..Len(q) : all[i] = q[i]
      /\ all[Len(q) + 1] = Chunk(d, b)
  BY <1>1, <1>2, LenProperties, AppendProperties
<1> HIDE DEF all
<1>4. /\ few \in SUBSET (1..Len(q)) /\ many \in SUBSET (1..(Len(q) + 1))
      /\ \A i \in 1..Len(q) : i \in few <=> i \in many
      /\ (Len(q) + 1 \in many) <=> c = d
  BY <1>1, <1>3 DEF PlacesOf
<1>5. /\ From(c, q) \in Seq(B) /\ From(c, all) \in Seq(B)
      /\ Cardinality(few) \in Nat /\ Cardinality(many) \in Nat
      /\ Len(From(c, q)) = Cardinality(few) /\ Len(From(c, all)) = Cardinality(many)
      /\ \A j \in 1..Cardinality(few) : From(c, q)[j] = q[Place(few, j)].bytes /\ Place(few, j) \in few
      /\ \A j \in 1..Cardinality(many) : From(c, all)[j] = all[Place(many, j)].bytes /\ Place(many, j) \in many
  BY <1>3, FromElements DEF C
<1> HIDE DEF few, many
<1>6. /\ \A j \in 1..Cardinality(few) : Place(many, j) = Place(few, j)
      /\ Cardinality(few) <= Cardinality(many)
  <2>1. Len(q) \in Nat /\ Len(q) + 1 \in Nat /\ Len(q) <= Len(q) + 1
    BY <1>3
  <2> QED
    BY <1>4, <2>1, PlacesStay
<1>8. \A i \in 1..Len(From(c, q)) : From(c, all)[i] = From(c, q)[i]
  <2> SUFFICES ASSUME NEW i \in 1..Cardinality(few) PROVE From(c, all)[i] = From(c, q)[i]
    BY <1>5
  <2>1. i \in 1..Cardinality(many)
    BY <1>5, <1>6
  <2>2. Place(few, i) \in few
    BY <1>5
  <2>3. Place(few, i) \in 1..Len(q)
    BY <1>4, <2>2
  <2> QED
    BY <1>3, <1>5, <1>6, <2>1, <2>3
<1>9. CASE c # d
  <2>1. few = many
    <3>1. \A i \in 1..(Len(q) + 1) : i \in 1..Len(q) \/ i = Len(q) + 1
      BY <1>3
    <3>2. \A i \in many : i \in 1..Len(q)
      BY <1>4, <1>9, <3>1
    <3> QED
      BY <1>4, <3>2
  <2>2. From(c, all) = From(c, q)
    BY <1>5, <1>8, <2>1, SeqEqual
  <2> QED
    BY <1>9, <2>2 DEF all
<1>10. CASE c = d
  <2>1. IsFiniteSet(few) /\ many = few \cup {Len(q) + 1} /\ Len(q) + 1 \notin few
    <3>1. IsFiniteSet(1..Len(q))
      BY FS_Interval
    <3>2. IsFiniteSet(few)
      BY <1>4, <3>1, FS_Subset
    <3> QED
      BY <1>3, <1>4, <1>10, <3>2
  <2>2. Cardinality(many) = Cardinality(few) + 1
    BY <2>1, FS_AddElement
  <2>3. Cardinality({j \in many : j <= Len(q) + 1}) = Cardinality(few) + 1
    <3>1. {j \in many : j <= Len(q) + 1} = many
      <4>1. \A j \in 1..(Len(q) + 1) : j <= Len(q) + 1
        BY <1>3
      <4> QED
        BY <1>4, <4>1
    <3> QED
      BY <2>2, <3>1
  <2>4. Place(many, Cardinality(few) + 1) = Len(q) + 1
    <3>1. Len(q) + 1 \in many /\ Len(q) + 1 \in Nat
      BY <1>3, <1>4, <1>10
    <3>2. \A i \in many : Place(many, Cardinality({j \in many : j <= i})) = i
      BY <1>4, <3>1, PlacesAreNumbered
    <3> QED
      BY <2>3, <3>1, <3>2
  <2>5. From(c, all)[Cardinality(few) + 1] = b
    <3>1. Cardinality(few) + 1 \in 1..Cardinality(many)
      BY <1>5, <2>2
    <3> QED
      BY <1>1, <1>3, <1>5, <2>4, <3>1
  <2> QED
    BY <1>5, <1>8, <1>10, <2>2, <2>5 DEF all
<1> QED
  BY <1>9, <1>10
-----------------------------------------------------------------------------
(* Command lines and what they ask to be written.                           *)

LEMMA LineIsOp ==
    ASSUME NEW e \in Clients, NEW l \in LinesOf[e]
    PROVE  Parsed(l).op = l.op /\ CliToCommand(l).op = l.op
<1>1. IsCommandLine(l)
  BY RequestsAssumption
<1>2. "op" \in DOMAIN l
  BY <1>1 DEF IsCommandLine
<1>3. "op" \in DOMAIN Parsed(l) /\ Parsed(l).op = l.op
  BY <1>2 DEF Parsed
<1> QED
  BY <1>3 DEF CliToCommand

\* The commands with an argument of their own for everything are sent as parsed.
LEMMA LineIsSent ==
    ASSUME NEW e \in Clients, NEW l \in LinesOf[e], l.op \in InputOps \cup {"resize"}
    PROVE  /\ CliToCommand(l) = Parsed(l)
           /\ l.op = "resize" => Parsed(l).cols = l.cols /\ Parsed(l).rows = l.rows
           /\ l.op = "key" => Parsed(l).keys \in Seq(Seq(STRING))
           /\ l.op = "scroll" => Parsed(l).amount \in Nat
<1>1. IsCommandLine(l)
  BY RequestsAssumption
<1>2. DOMAIN l \subseteq {"op"} \cup Arguments[l.op] /\ "op" \in DOMAIN l
  BY <1>1 DEF IsCommandLine
<1>3. DOMAIN Parsed(l) = DOMAIN l \cup (Arguments[l.op] \cap DOMAIN Defaults)
  BY DEF Parsed
<1>4. "strict" \notin Arguments[l.op]
  BY DEF InputOps, Arguments
<1>5. CliToCommand(l) = Parsed(l)
  <2>1. DOMAIN Parsed(l) \ {"strict"} = DOMAIN Parsed(l)
    BY <1>2, <1>3, <1>4
  <2>2. Parsed(l) = [f \in DOMAIN Parsed(l) |-> Parsed(l)[f]]
    BY DEF Parsed
  <2> QED
    BY <2>1, <2>2 DEF CliToCommand
<1>6. \A f \in DOMAIN l : Parsed(l)[f] = l[f]
  BY DEF Parsed
<1>7. Arguments[l.op] \subseteq DOMAIN l \cup DOMAIN Defaults
  BY <1>1 DEF IsCommandLine
<1>8. l.op = "resize" => {"cols", "rows"} \subseteq DOMAIN l
  BY <1>7 DEF Arguments, Defaults
<1>9. l.op = "key" => "keys" \in DOMAIN l /\ l.keys \in Seq(Seq(STRING))
  BY <1>7, RequestsAssumption DEF Arguments, Defaults
<1>10. ASSUME l.op = "scroll" PROVE Parsed(l).amount \in Nat
  <2>1. CASE "amount" \in DOMAIN l
    BY <1>6, <2>1, RequestsAssumption
  <2>2. CASE "amount" \notin DOMAIN l
    <3>1. "amount" \in Arguments[l.op] \cap DOMAIN Defaults
      BY <1>10 DEF Arguments, Defaults
    <3>2. Parsed(l).amount = Defaults.amount
      BY <2>2, <3>1 DEF Parsed
    <3> QED
      BY <3>2 DEF Defaults
  <2> QED
    BY <2>1, <2>2
<1> QED
  BY <1>5, <1>6, <1>8, <1>9, <1>10

\* How many writes a command asks for does not depend on the screen's size.
LEMMA InputIsSequence ==
    ASSUME NEW e \in Clients, NEW l \in LinesOf[e], l.op \in InputOps, NEW mode, NEW middle
    PROVE  /\ \E m \in Nat : DOMAIN InputOf(Parsed(l), mode, middle) = 1..m
           /\ Len(InputOf(Parsed(l), mode, middle)) = Len(InputOf(Parsed(l), mode, Nowhere))
           /\ InputOf(Parsed(l), mode, middle) =
                [i \in DOMAIN InputOf(Parsed(l), mode, middle) |-> InputOf(Parsed(l), mode, middle)[i]]
<1> DEFINE command == Parsed(l)
<1>1. command.op = l.op
  BY LineIsOp
<1>2. /\ l.op = "key" => command.keys \in Seq(Seq(STRING))
      /\ l.op = "scroll" => command.amount \in Nat
  BY LineIsSent
<1> HIDE DEF command
<1>3. CASE l.op = "type"
  BY <1>1, <1>3 DEF InputOf, TypedInput, command
<1>4. CASE l.op = "click"
  BY <1>1, <1>4 DEF InputOf, ClickInput, command
<1>5. CASE l.op = "scroll"
  <2>1. \A m : InputOf(command, mode, m) = [i \in 1..command.amount |-> EncodeScroll(command.up, m.col, m.row)]
    BY <1>1, <1>5 DEF InputOf, ScrollInput
  <2>2. \A m : Len(InputOf(command, mode, m)) = command.amount
    BY <1>2, <1>5, <2>1
  <2> QED
    BY <1>2, <1>5, <2>1, <2>2 DEF command
<1>6. CASE l.op = "key"
  <2> DEFINE keys == [i \in DOMAIN command.keys |-> ParseToken(command.keys[i], mode)]
  <2>1. \A m : InputOf(command, mode, m) \in {<<>>, keys}
    BY <1>1, <1>6 DEF InputOf, KeyInput, ParseKeySequence, Invalid
  <2>2. \A m : InputOf(command, mode, m) = InputOf(command, mode, middle)
    BY <1>1, <1>6 DEF InputOf
  <2>3. DOMAIN keys = 1..Len(command.keys) /\ Len(command.keys) \in Nat
    BY <1>2, <1>6, LenProperties
  <2>4. keys = [i \in DOMAIN keys |-> keys[i]]
    OBVIOUS
  <2> HIDE DEF keys
  <2>5. CASE InputOf(command, mode, middle) = keys
    BY <2>2, <2>3, <2>4, <2>5 DEF command
  <2>6. CASE InputOf(command, mode, middle) = <<>>
    BY <2>2, <2>6 DEF command
  <2> QED
    BY <2>1, <2>5, <2>6
<1> QED
  BY <1>3, <1>4, <1>5, <1>6 DEF InputOps
-----------------------------------------------------------------------------
(* What a call is about, and what has been over since when.                 *)

\* A call keeps its command line, and its command is what that means.
Lined ==
    \A c \in Clients : client[c].line \in LinesOf[c] /\ client[c].command = CliToCommand(client[c].line)

Writing == {"write", "send", "delay"}

\* Each handler runs for its own commands.
AtWork ==
    \A c \in Clients :
        /\ task[c].pc \in Writing => Command(c).op \in InputOps
        /\ task[c].pc = "look" => Command(c).op \in {"key", "scroll"}
        /\ task[c].pc \in {"resize", "emulate"} => Command(c).op = "resize"
        /\ task[c].pc \in {"kill", "terminate", "bury"} => Command(c).op = "kill"

\* Who records a session has seen its program end.
Over ==
    /\ session = "buried" => ~child
    /\ \A c \in Clients : task[c].pc = "bury" => ~child

LEMMA LinedStep ==
    ASSUME Shaped, Lined, Next
    PROVE  Lined'
<1> USE DEF Shaped, Lined, peers, pipe, ends, screen, history
<1>1. ASSUME NEW c \in Clients, Examples(c) PROVE Lined'
  BY <1>1 DEF Examples, Exit
<1>2. ASSUME NEW c \in Clients, Decide(c) PROVE Lined'
  BY <1>2 DEF Decide, Turn, Exit
<1>3. ASSUME NEW c \in Clients, ProbeAnswered(c) PROVE Lined'
  BY <1>3 DEF ProbeAnswered
<1>4. ASSUME NEW c \in Clients, Receive(c) PROVE Lined'
  BY <1>4 DEF Receive
<1>5. ASSUME NEW c \in Clients, TimeOut(c) PROVE Lined'
  BY <1>5 DEF TimeOut, Exit
<1>6. ASSUME NEW c \in Clients, Gate(c) PROVE Lined'
  BY <1>6 DEF Gate, Finish, GoOn, Done
<1>7. ASSUME NEW c \in Clients, OlderDaemonAnswers(c) PROVE Lined'
  BY <1>7 DEF OlderDaemonAnswers
<1>8. ASSUME NEW c \in Clients, Resolve(c) PROVE Lined'
  BY <1>8 DEF Resolve, Finish, GoOn, Encoded, Done
<1>9. ASSUME NEW c \in Clients, Report(c) PROVE Lined'
  BY <1>9 DEF Report, Finish, Done
<1>10. ASSUME NEW c \in Clients, Look(c) PROVE Lined'
  BY <1>10 DEF Look, Finish, Encoded, Done
<1>11. ASSUME NEW c \in Clients, Write(c) PROVE Lined'
  BY <1>11 DEF Write, Finish, GoOn, Done
<1>12. ASSUME NEW c \in Clients, Send(c) PROVE Lined'
  BY <1>12 DEF Send
<1>13. ASSUME NEW c \in Clients, DelayOver(c) PROVE Lined'
  BY <1>13 DEF DelayOver, GoOn
<1>14. ASSUME NEW c \in Clients, SendRefused(c) PROVE Lined'
  BY <1>14 DEF SendRefused, Finish, Done
<1>15. ASSUME NEW c \in Clients, ResizeTerminal(c) PROVE Lined'
  BY <1>15 DEF ResizeTerminal, Finish, GoOn, Done
<1>16. ASSUME NEW c \in Clients, ResizeEmulator(c) PROVE Lined'
  BY <1>16 DEF ResizeEmulator, Finish, Done
<1>17. ASSUME NEW c \in Clients, KillRemove(c) PROVE Lined'
  BY <1>17 DEF KillRemove, Finish, GoOn, Done
<1>18. ASSUME NEW c \in Clients, Terminate(c) PROVE Lined'
  BY <1>18 DEF Terminate, GoOn
<1>19. ASSUME NEW c \in Clients, KillBury(c) PROVE Lined'
  BY <1>19 DEF KillBury, Finish, Done
<1>20. ASSUME WriterTakes PROVE Lined'
  BY <1>20 DEF WriterTakes
<1>21. ASSUME ProgramReads PROVE Lined'
  BY <1>21 DEF ProgramReads
<1>22. ASSUME WriteAfterExit PROVE Lined'
  BY <1>22 DEF WriteAfterExit
<1>23. ASSUME ChildExits PROVE Lined'
  BY <1>23 DEF ChildExits
<1>24. ASSUME CleanerBuries PROVE Lined'
  BY <1>24 DEF CleanerBuries
<1>25. ASSUME ModeChanges PROVE Lined'
  BY <1>25 DEF ModeChanges
<1> HIDE DEF Shaped, Lined, peers, pipe, ends, screen, history
<1> QED
  BY <1>1, <1>2, <1>3, <1>4, <1>5, <1>6, <1>7, <1>8, <1>9, <1>10, <1>11, <1>12,
     <1>13, <1>14, <1>15, <1>16, <1>17, <1>18, <1>19, <1>20, <1>21, <1>22,
     <1>23, <1>24, <1>25 DEF Next, TaskStep

LEMMA AtWorkStep ==
    ASSUME Shaped, AtWork, Next
    PROVE  AtWork'
<1> USE DEF Shaped, AtWork, Command, Writing, peers, pipe, ends, screen, history
<1>1. ASSUME NEW c \in Clients, Examples(c) PROVE AtWork'
  BY <1>1 DEF Examples, Exit
<1>2. ASSUME NEW c \in Clients, Decide(c) PROVE AtWork'
  <2>1. /\ UNCHANGED <<version, ends, pipe, screen, history>> /\ client[c].pc = "start"
        /\ \/ Turn(c, "probing") /\ task' = task
           \/ Exit(c, GenericError) /\ task' = task
           \/ Turn(c, "waiting") /\ task' = [task EXCEPT ![c].pc = "gate"]
    BY <1>2, DecideCases
  <2> QED
    BY <2>1 DEF Turn, Exit
<1>3. ASSUME NEW c \in Clients, ProbeAnswered(c) PROVE AtWork'
  BY <1>3 DEF ProbeAnswered
<1>4. ASSUME NEW c \in Clients, Receive(c) PROVE AtWork'
  BY <1>4 DEF Receive
<1>5. ASSUME NEW c \in Clients, TimeOut(c) PROVE AtWork'
  BY <1>5 DEF TimeOut, Exit
<1>6. ASSUME NEW c \in Clients, Gate(c) PROVE AtWork'
  BY <1>6 DEF Gate, Finish, GoOn, Done
<1>7. ASSUME NEW c \in Clients, OlderDaemonAnswers(c) PROVE AtWork'
  BY <1>7 DEF OlderDaemonAnswers
<1>8. ASSUME NEW c \in Clients, Resolve(c) PROVE AtWork'
  <2>1. /\ UNCHANGED <<peers, ends, pipe, screen, history>> /\ task[c].pc = "resolve"
        /\ Command(c).op \in InputOps \cup {"resize", "kill"}
    BY <1>8 DEF Resolve
  <2>2. CASE session # "live"
    <3>1. PICK answer : Finish(c, answer)
      BY <1>8, <2>2 DEF Resolve
    <3> QED
      BY <2>1, <3>1 DEF Finish, Done
  <2>3. CASE session = "live" /\ Command(c).op \in {"type", "click"}
    <3>1. PICK input : Encoded(c, input)
      BY <1>8, <2>3 DEF Resolve
    <3> QED
      BY <2>1, <2>3, <3>1 DEF Encoded, InputOps
  <2>4. CASE session = "live" /\ Command(c).op \notin {"type", "click"}
    <3>1. GoOn(c, IF Command(c).op \in {"key", "scroll"} THEN "look" ELSE Command(c).op)
      BY <1>8, <2>4 DEF Resolve
    <3> QED
      BY <2>1, <2>4, <3>1 DEF GoOn, InputOps
  <2> QED
    BY <2>2, <2>3, <2>4
<1>9. ASSUME NEW c \in Clients, Report(c) PROVE AtWork'
  <2>1. UNCHANGED <<peers, ends, pipe, screen, history>> /\ task[c].pc = "resolve"
    BY <1>9, ReportCases
  <2>2. PICK answer : Finish(c, answer)
    BY <1>9, ReportCases
  <2> QED
    BY <2>1, <2>2 DEF Finish, Done
<1>10. ASSUME NEW c \in Clients, Look(c) PROVE AtWork'
  <2>1. UNCHANGED <<peers, ends, pipe, screen, history>> /\ task[c].pc = "look"
    BY <1>10 DEF Look
  <2>2. (\E answer : Finish(c, answer)) \/ \E input : Encoded(c, input)
    BY <1>10 DEF Look
  <2> QED
    BY <2>1, <2>2 DEF Finish, Done, Encoded, InputOps
<1>11. ASSUME NEW c \in Clients, Write(c) PROVE AtWork'
  BY <1>11 DEF Write, Finish, GoOn, Done
<1>12. ASSUME NEW c \in Clients, Send(c) PROVE AtWork'
  BY <1>12 DEF Send
<1>13. ASSUME NEW c \in Clients, DelayOver(c) PROVE AtWork'
  BY <1>13 DEF DelayOver, GoOn
<1>14. ASSUME NEW c \in Clients, SendRefused(c) PROVE AtWork'
  BY <1>14 DEF SendRefused, Finish, Done
<1>15. ASSUME NEW c \in Clients, ResizeTerminal(c) PROVE AtWork'
  BY <1>15 DEF ResizeTerminal, Finish, GoOn, Done
<1>16. ASSUME NEW c \in Clients, ResizeEmulator(c) PROVE AtWork'
  BY <1>16 DEF ResizeEmulator, Finish, Done
<1>17. ASSUME NEW c \in Clients, KillRemove(c) PROVE AtWork'
  BY <1>17 DEF KillRemove, Finish, GoOn, Done
<1>18. ASSUME NEW c \in Clients, Terminate(c) PROVE AtWork'
  BY <1>18 DEF Terminate, GoOn
<1>19. ASSUME NEW c \in Clients, KillBury(c) PROVE AtWork'
  BY <1>19 DEF KillBury, Finish, Done
<1>20. ASSUME WriterTakes PROVE AtWork'
  BY <1>20 DEF WriterTakes
<1>21. ASSUME ProgramReads PROVE AtWork'
  BY <1>21 DEF ProgramReads
<1>22. ASSUME WriteAfterExit PROVE AtWork'
  BY <1>22 DEF WriteAfterExit
<1>23. ASSUME ChildExits PROVE AtWork'
  BY <1>23 DEF ChildExits
<1>24. ASSUME CleanerBuries PROVE AtWork'
  BY <1>24 DEF CleanerBuries
<1>25. ASSUME ModeChanges PROVE AtWork'
  BY <1>25 DEF ModeChanges
<1> HIDE DEF Shaped, AtWork, Command, Writing, peers, pipe, ends, screen, history
<1> QED
  BY <1>1, <1>2, <1>3, <1>4, <1>5, <1>6, <1>7, <1>8, <1>9, <1>10, <1>11, <1>12,
     <1>13, <1>14, <1>15, <1>16, <1>17, <1>18, <1>19, <1>20, <1>21, <1>22,
     <1>23, <1>24, <1>25 DEF Next, TaskStep

LEMMA OverStep ==
    ASSUME Shaped, Over, Next
    PROVE  Over'
<1> USE DEF Shaped, Over, peers, pipe, ends, screen, history
<1>1. ASSUME NEW c \in Clients, Examples(c) PROVE Over'
  BY <1>1 DEF Examples, Exit
<1>2. ASSUME NEW c \in Clients, Decide(c) PROVE Over'
  BY <1>2 DEF Decide, Turn, Exit
<1>3. ASSUME NEW c \in Clients, ProbeAnswered(c) PROVE Over'
  BY <1>3 DEF ProbeAnswered
<1>4. ASSUME NEW c \in Clients, Receive(c) PROVE Over'
  BY <1>4 DEF Receive
<1>5. ASSUME NEW c \in Clients, TimeOut(c) PROVE Over'
  BY <1>5 DEF TimeOut, Exit
<1>6. ASSUME NEW c \in Clients, Gate(c) PROVE Over'
  BY <1>6 DEF Gate, Finish, GoOn, Done
<1>7. ASSUME NEW c \in Clients, OlderDaemonAnswers(c) PROVE Over'
  BY <1>7 DEF OlderDaemonAnswers
<1>8. ASSUME NEW c \in Clients, Resolve(c) PROVE Over'
  <2>1. /\ UNCHANGED <<peers, ends, pipe, screen, history>> /\ task[c].pc = "resolve"
        /\ \/ \E answer : Finish(c, answer)
           \/ \E input : Encoded(c, input)
           \/ \E pc \in {"look", "resize", "kill"} : GoOn(c, pc)
    BY <1>8, ResolveCases
  <2> QED
    BY <2>1 DEF Finish, Done, Encoded, GoOn
<1>9. ASSUME NEW c \in Clients, Report(c) PROVE Over'
  <2>1. UNCHANGED <<peers, ends, pipe, screen, history>> /\ task[c].pc = "resolve"
    BY <1>9, ReportCases
  <2>2. PICK answer : Finish(c, answer)
    BY <1>9, ReportCases
  <2> QED
    BY <2>1, <2>2 DEF Finish, Done
<1>10. ASSUME NEW c \in Clients, Look(c) PROVE Over'
  BY <1>10 DEF Look, Finish, Encoded, Done
<1>11. ASSUME NEW c \in Clients, Write(c) PROVE Over'
  BY <1>11 DEF Write, Finish, GoOn, Done
<1>12. ASSUME NEW c \in Clients, Send(c) PROVE Over'
  BY <1>12 DEF Send
<1>13. ASSUME NEW c \in Clients, DelayOver(c) PROVE Over'
  BY <1>13 DEF DelayOver, GoOn
<1>14. ASSUME NEW c \in Clients, SendRefused(c) PROVE Over'
  BY <1>14 DEF SendRefused, Finish, Done
<1>15. ASSUME NEW c \in Clients, ResizeTerminal(c) PROVE Over'
  BY <1>15 DEF ResizeTerminal, Finish, GoOn, Done
<1>16. ASSUME NEW c \in Clients, ResizeEmulator(c) PROVE Over'
  BY <1>16 DEF ResizeEmulator, Finish, Done
<1>17. ASSUME NEW c \in Clients, KillRemove(c) PROVE Over'
  BY <1>17 DEF KillRemove, Finish, GoOn, Done
<1>18. ASSUME NEW c \in Clients, Terminate(c) PROVE Over'
  BY <1>18 DEF Terminate, GoOn
<1>19. ASSUME NEW c \in Clients, KillBury(c) PROVE Over'
  BY <1>19 DEF KillBury, Finish, Done
<1>20. ASSUME WriterTakes PROVE Over'
  BY <1>20 DEF WriterTakes
<1>21. ASSUME ProgramReads PROVE Over'
  BY <1>21 DEF ProgramReads
<1>22. ASSUME WriteAfterExit PROVE Over'
  BY <1>22 DEF WriteAfterExit
<1>23. ASSUME ChildExits PROVE Over'
  BY <1>23 DEF ChildExits
<1>24. ASSUME CleanerBuries PROVE Over'
  BY <1>24 DEF CleanerBuries
<1>25. ASSUME ModeChanges PROVE Over'
  BY <1>25 DEF ModeChanges
<1> HIDE DEF Shaped, Over, peers, pipe, ends, screen, history
<1> QED
  BY <1>1, <1>2, <1>3, <1>4, <1>5, <1>6, <1>7, <1>8, <1>9, <1>10, <1>11, <1>12,
     <1>13, <1>14, <1>15, <1>16, <1>17, <1>18, <1>19, <1>20, <1>21, <1>22,
     <1>23, <1>24, <1>25 DEF Next, TaskStep
-----------------------------------------------------------------------------
(* What a task answers and what its client makes of it.                     *)

Answers == [kind : Kinds, outcome : Outcomes]

\* What an answer says is so: an input command has no success but ok, a kill that
\* was answered ok has ended the session, only a snapshot has an outcome, and
\* "exited" is said of a program that has ended, of a session before anything
\* was sent to it.
Fits(c, answer) ==
    /\ answer.kind \in Success /\ Command(c).op \in InputOps \cup {"kill"} => answer.kind = "ok"
    /\ answer.kind = "ok" /\ Command(c).op = "kill" => session = "buried"
    /\ answer.outcome # "none" => answer.kind = "snapshot" /\ Command(c).op = "snapshot"
    /\ answer.outcome = "exited" => ~child
    /\ answer.kind = "exited" => session = "buried" /\ task[c].sent = 0

Answered ==
    version.daemon = ProtocolVersion =>
        \A c \in Clients : task[c].pc = "done" => Fits(c, task[c].answer)

\* A call that is over ended without an answer, or with what the answer means.
Told ==
    \A c \in Clients : client[c].pc = "exit" =>
        \/ client[c].code = GenericError
        \/ client[c].code = ExitSuccess /\ client[c].line.op = "examples"
        \/ /\ task[c].pc = "done" /\ client[c].got = task[c].answer.kind
           /\ client[c].code = ExitCode(c, task[c].answer)

LEMMA UnderstoodIs ==
    ASSUME NEW c, NEW answer
    PROVE  Understood(c, answer) \in {answer, Answer("upgrade")}
  BY DEF Understood

LEMMA PlainAnswer ==
    ASSUME NEW kind \in Kinds
    PROVE  Answer(kind) \in Answers /\ Answer(kind).kind = kind /\ Answer(kind).outcome = "none"
  BY DEF Answer, Answers, Outcomes

LEMMA PlainFits ==
    ASSUME NEW c \in Clients, NEW kind \in {"notFound", "failed", "invalid", "upgrade"}
    PROVE  Fits(c, Answer(kind))
  BY DEF Fits, Answer, Success

LEMMA ReportAnswers ==
    ASSUME NEW c \in Clients, Over, Report(c)
    PROVE  /\ task[c].pc = "resolve"
           /\ \E answer \in Answers : Finish(c, answer) /\ Fits(c, answer)
<1>1. task[c].pc = "resolve" /\ Command(c).op \in {"list", "status", "output", "snapshot"}
  BY DEF Report
<1>2. Command(c).op \notin InputOps \cup {"kill"}
  BY <1>1 DEF InputOps
<1>3. ASSUME NEW kind \in {"sessions", "notFound", "status", "output"}
      PROVE  Answer(kind) \in Answers /\ Fits(c, Answer(kind))
  BY <1>2 DEF Answer, Answers, Outcomes, Fits, Kinds, Success, Failures
<1>4. CASE Command(c).op = "list"
  BY <1>1, <1>3, <1>4 DEF Report
<1>5. CASE Command(c).op # "list" /\ session = "killing"
  BY <1>1, <1>3, <1>5 DEF Report
<1>6. CASE Command(c).op \in {"status", "output"} /\ session # "killing"
  <2>1. Finish(c, Answer(Command(c).op))
    BY <1>6 DEF Report
  <2> QED
    BY <1>1, <1>3, <1>6, <2>1
<1>7. CASE Command(c).op = "snapshot" /\ session # "killing"
  <2>1. PICK outcome \in SnapshotOutcomes(Command(c)) : Finish(c, [kind |-> "snapshot", outcome |-> outcome])
    BY <1>7 DEF Report
  <2>2. /\ outcome \in {"immediate", "settled", "changed", "deadline", "exited"}
        /\ outcome = "exited" => ~child
    BY <2>1 DEF SnapshotOutcomes, Over
  <2>3. [kind |-> "snapshot", outcome |-> outcome] \in Answers
    BY <2>2 DEF Answers, Outcomes, Kinds, Success
  <2>4. Fits(c, [kind |-> "snapshot", outcome |-> outcome])
    BY <1>2, <1>7, <2>2 DEF Fits
  <2> QED
    BY <1>1, <2>1, <2>3, <2>4
<1> QED
  BY <1>1, <1>4, <1>5, <1>6, <1>7

LEMMA AnsweredStep ==
    ASSUME Shaped, Fresh, AtWork, Over, Answered, Next
    PROVE  Answered'
<1> USE DEF Shaped, Fresh, AtWork, Over, Answered, Fits, Command, Answer, Success, InputOps, Writing, peers, pipe, ends, screen, history
<1>1. ASSUME NEW c \in Clients, Examples(c) PROVE Answered'
  BY <1>1 DEF Examples, Exit
<1>2. ASSUME NEW c \in Clients, Decide(c) PROVE Answered'
  BY <1>2 DEF Decide, Turn, Exit
<1>3. ASSUME NEW c \in Clients, ProbeAnswered(c) PROVE Answered'
  BY <1>3 DEF ProbeAnswered
<1>4. ASSUME NEW c \in Clients, Receive(c) PROVE Answered'
  BY <1>4 DEF Receive
<1>5. ASSUME NEW c \in Clients, TimeOut(c) PROVE Answered'
  BY <1>5 DEF TimeOut, Exit
<1>6. ASSUME NEW c \in Clients, Gate(c) PROVE Answered'
  BY <1>6, UnderstoodIs DEF Gate, Finish, GoOn, Done
<1>7. ASSUME NEW c \in Clients, OlderDaemonAnswers(c) PROVE Answered'
  BY <1>7 DEF OlderDaemonAnswers
<1>8. ASSUME NEW c \in Clients, Resolve(c) PROVE Answered'
  <2>1. UNCHANGED <<peers, ends, pipe, screen, history>> /\ task[c].pc = "resolve"
    BY <1>8 DEF Resolve
  <2>2. CASE session # "live"
    <3>1. Finish(c, Answer(Unresolved)) /\ Command(c).op \in InputOps \cup {"resize", "kill"}
      BY <1>8, <2>2 DEF Resolve
    <3>2. Fits(c, Answer(Unresolved))
      BY <2>1, <2>2 DEF Unresolved
    <3> QED
      BY <2>1, <3>1, <3>2, UnderstoodIs DEF Finish, Done
  <2>3. CASE session = "live"
    <3>1. (\E input : Encoded(c, input)) \/ (\E pc \in {"look", "resize", "kill"} : GoOn(c, pc))
      BY <1>8, <2>3 DEF Resolve
    <3> QED
      BY <2>1, <3>1 DEF Encoded, GoOn
  <2> QED
    BY <2>2, <2>3
<1>9. ASSUME NEW c \in Clients, Report(c) PROVE Answered'
  <2>1. UNCHANGED <<peers, ends, pipe, screen, history>> /\ task[c].pc = "resolve"
    BY <1>9, ReportCases
  <2>2. PICK answer \in Answers : Finish(c, answer) /\ Fits(c, answer)
    BY <1>9, ReportAnswers
  <2> QED
    BY <2>1, <2>2, UnderstoodIs DEF Finish, Done
<1>10. ASSUME NEW c \in Clients, Look(c) PROVE Answered'
  BY <1>10, UnderstoodIs DEF Look, Finish, Encoded, Done
<1>11. ASSUME NEW c \in Clients, Write(c) PROVE Answered'
  BY <1>11, UnderstoodIs DEF Write, Finish, GoOn, Done
<1>12. ASSUME NEW c \in Clients, Send(c) PROVE Answered'
  <2>1. /\ task'[c].pc \in {"delay", "write"} /\ task[c].pc = "send"
        /\ \A d \in Clients : d # c => task'[d] = task[d]
        /\ UNCHANGED <<peers, ends>>
    BY <1>12 DEF Send
  <2> QED
    BY <2>1
<1>13. ASSUME NEW c \in Clients, DelayOver(c) PROVE Answered'
  BY <1>13 DEF DelayOver, GoOn
<1>14. ASSUME NEW c \in Clients, SendRefused(c) PROVE Answered'
  BY <1>14, UnderstoodIs DEF SendRefused, Finish, Done
<1>15. ASSUME NEW c \in Clients, ResizeTerminal(c) PROVE Answered'
  BY <1>15, UnderstoodIs DEF ResizeTerminal, Finish, GoOn, Done
<1>16. ASSUME NEW c \in Clients, ResizeEmulator(c) PROVE Answered'
  BY <1>16, UnderstoodIs DEF ResizeEmulator, Finish, Done
<1>17. ASSUME NEW c \in Clients, KillRemove(c) PROVE Answered'
  BY <1>17, UnderstoodIs DEF KillRemove, Finish, GoOn, Done
<1>18. ASSUME NEW c \in Clients, Terminate(c) PROVE Answered'
  BY <1>18 DEF Terminate, GoOn
<1>19. ASSUME NEW c \in Clients, KillBury(c) PROVE Answered'
  BY <1>19, UnderstoodIs DEF KillBury, Finish, Done
<1>20. ASSUME WriterTakes PROVE Answered'
  BY <1>20 DEF WriterTakes
<1>21. ASSUME ProgramReads PROVE Answered'
  BY <1>21 DEF ProgramReads
<1>22. ASSUME WriteAfterExit PROVE Answered'
  BY <1>22 DEF WriteAfterExit
<1>23. ASSUME ChildExits PROVE Answered'
  BY <1>23 DEF ChildExits
<1>24. ASSUME CleanerBuries PROVE Answered'
  BY <1>24 DEF CleanerBuries
<1>25. ASSUME ModeChanges PROVE Answered'
  BY <1>25 DEF ModeChanges
<1> HIDE DEF Shaped, Fresh, AtWork, Over, Answered, Fits, Command, Answer, Success, InputOps, Writing, peers, pipe, ends, screen, history
<1> QED
  BY <1>1, <1>2, <1>3, <1>4, <1>5, <1>6, <1>7, <1>8, <1>9, <1>10, <1>11, <1>12,
     <1>13, <1>14, <1>15, <1>16, <1>17, <1>18, <1>19, <1>20, <1>21, <1>22,
     <1>23, <1>24, <1>25 DEF Next, TaskStep

LEMMA ToldStep ==
    ASSUME Shaped, Told, Next
    PROVE  Told'
<1> USE DEF Shaped, Told, Command, ExitCode, NeedsDaemon, peers, pipe, ends, screen, history
<1>1. ASSUME NEW c \in Clients, Examples(c) PROVE Told'
  BY <1>1 DEF Examples, Exit
<1>2. ASSUME NEW c \in Clients, Decide(c) PROVE Told'
  BY <1>2 DEF Decide, Turn, Exit
<1>3. ASSUME NEW c \in Clients, ProbeAnswered(c) PROVE Told'
  BY <1>3 DEF ProbeAnswered
<1>4. ASSUME NEW c \in Clients, Receive(c) PROVE Told'
  BY <1>4 DEF Receive
<1>5. ASSUME NEW c \in Clients, TimeOut(c) PROVE Told'
  BY <1>5 DEF TimeOut, Exit
<1>6. ASSUME NEW c \in Clients, Gate(c) PROVE Told'
  BY <1>6 DEF Gate, Finish, GoOn, Done
<1>7. ASSUME NEW c \in Clients, OlderDaemonAnswers(c) PROVE Told'
  BY <1>7 DEF OlderDaemonAnswers
<1>8. ASSUME NEW c \in Clients, Resolve(c) PROVE Told'
  BY <1>8 DEF Resolve, Finish, GoOn, Encoded, Done
<1>9. ASSUME NEW c \in Clients, Report(c) PROVE Told'
  BY <1>9 DEF Report, Finish, Done
<1>10. ASSUME NEW c \in Clients, Look(c) PROVE Told'
  BY <1>10 DEF Look, Finish, Encoded, Done
<1>11. ASSUME NEW c \in Clients, Write(c) PROVE Told'
  BY <1>11 DEF Write, Finish, GoOn, Done
<1>12. ASSUME NEW c \in Clients, Send(c) PROVE Told'
  BY <1>12 DEF Send
<1>13. ASSUME NEW c \in Clients, DelayOver(c) PROVE Told'
  BY <1>13 DEF DelayOver, GoOn
<1>14. ASSUME NEW c \in Clients, SendRefused(c) PROVE Told'
  BY <1>14 DEF SendRefused, Finish, Done
<1>15. ASSUME NEW c \in Clients, ResizeTerminal(c) PROVE Told'
  BY <1>15 DEF ResizeTerminal, Finish, GoOn, Done
<1>16. ASSUME NEW c \in Clients, ResizeEmulator(c) PROVE Told'
  BY <1>16 DEF ResizeEmulator, Finish, Done
<1>17. ASSUME NEW c \in Clients, KillRemove(c) PROVE Told'
  BY <1>17 DEF KillRemove, Finish, GoOn, Done
<1>18. ASSUME NEW c \in Clients, Terminate(c) PROVE Told'
  BY <1>18 DEF Terminate, GoOn
<1>19. ASSUME NEW c \in Clients, KillBury(c) PROVE Told'
  BY <1>19 DEF KillBury, Finish, Done
<1>20. ASSUME WriterTakes PROVE Told'
  BY <1>20 DEF WriterTakes
<1>21. ASSUME ProgramReads PROVE Told'
  BY <1>21 DEF ProgramReads
<1>22. ASSUME WriteAfterExit PROVE Told'
  BY <1>22 DEF WriteAfterExit
<1>23. ASSUME ChildExits PROVE Told'
  BY <1>23 DEF ChildExits
<1>24. ASSUME CleanerBuries PROVE Told'
  BY <1>24 DEF CleanerBuries
<1>25. ASSUME ModeChanges PROVE Told'
  BY <1>25 DEF ModeChanges
<1> HIDE DEF Shaped, Told, Command, ExitCode, NeedsDaemon, peers, pipe, ends, screen, history
<1> QED
  BY <1>1, <1>2, <1>3, <1>4, <1>5, <1>6, <1>7, <1>8, <1>9, <1>10, <1>11, <1>12,
     <1>13, <1>14, <1>15, <1>16, <1>17, <1>18, <1>19, <1>20, <1>21, <1>22,
     <1>23, <1>24, <1>25 DEF Next, TaskStep
-----------------------------------------------------------------------------
(* The types of the calls, the screen's modes and sizes.                    *)

ClientTyped(c) ==
    /\ client[c].pc \in {"start", "probing", "waiting", "exit"}
    /\ client[c].got \in Kinds \cup {"none"}
    /\ client[c].code \in {Unknown, ExitSuccess, GenericError, Timing, Lifecycle}
    /\ client[c].pc = "exit" <=> client[c].code # Unknown

TaskTyped(c) ==
    /\ task[c].pc \in {"none", "gate", "resolve", "look", "write", "send", "delay",
                       "resize", "emulate", "kill", "terminate", "bury", "done"}
    /\ IF task[c].pc = "done" THEN task[c].answer \in Answers ELSE task[c].answer = Nothing
    /\ task[c].pc = "send" => task[c].left # <<>>

Typed ==
    /\ \A c \in Clients : ClientTyped(c) /\ TaskTyped(c)
    /\ session \in {"live", "killing", "buried"}
    /\ child \in BOOLEAN /\ stopping \in BOOLEAN /\ cursorMode \in BOOLEAN /\ raced \in BOOLEAN

\* During a request the modes it remembers are modes, the present one among them.
Modal ==
    /\ DOMAIN modes = Clients
    /\ \A c \in Clients : /\ modes[c] \in SUBSET BOOLEAN /\ modes[c] # {}
                          /\ task[c].pc \notin {"none", "gate", "done"} => cursorMode \in modes[c]

Sized == sizes \in [pty : Sizes, emulator : Sizes]

LEMMA CodesOfExit ==
    ASSUME NEW c, NEW answer
    PROVE  /\ ExitCode(c, answer) \in {ExitSuccess, GenericError, Timing, Lifecycle}
           /\ ExitCode(c, answer) # Unknown /\ GenericError # Unknown /\ ExitSuccess # Unknown
  BY DEF ExitCode, CaptureExitCode, ApiErrorExitCode, ExitSuccess, GenericError, Timing, Lifecycle, Unknown

LEMMA UnderstoodTyped ==
    ASSUME NEW c, NEW answer \in Answers
    PROVE  Understood(c, answer) \in Answers
  BY UnderstoodIs, PlainAnswer DEF Kinds, Failures

LEMMA FinishTypes ==
    ASSUME Shaped, Typed, NEW c \in Clients, NEW answer \in Answers, Finish(c, answer)
    PROVE  \A d \in Clients : TaskTyped(d)'
<1>1. Understood(c, answer) \in Answers
  BY UnderstoodTyped
<1> DEFINE said == Understood(c, answer)
<1>2. task' = [task EXCEPT ![c].pc = "done", ![c].left = <<>>, ![c].answer = said]
  BY DEF Finish, Done
<1> HIDE DEF said
<1>3. task'[c].pc = "done" /\ task'[c].answer = said /\ \A d \in Clients : d # c => task'[d] = task[d]
  BY <1>2 DEF Shaped
<1> QED
  BY <1>1, <1>3 DEF Typed, TaskTyped, said

LEMMA PlainFinishTypes ==
    ASSUME Shaped, Typed, NEW c \in Clients, NEW kind \in Kinds, Finish(c, Answer(kind))
    PROVE  \A d \in Clients : TaskTyped(d)'
<1>1. Answer(kind) \in Answers
  BY PlainAnswer
<1> QED
  BY <1>1, FinishTypes

LEMMA GoOnTypes ==
    ASSUME Shaped, Typed, NEW c \in Clients, task[c].pc # "done",
           NEW pc \in {"resolve", "look", "write", "delay", "resize", "emulate", "kill", "terminate", "bury"},
           GoOn(c, pc)
    PROVE  \A d \in Clients : TaskTyped(d)'
  BY DEF Shaped, Typed, TaskTyped, GoOn

LEMMA TypedStep ==
    ASSUME Shaped, Fresh, Over, Typed, Next
    PROVE  Typed'
<1> USE DEF Shaped, Typed, ClientTyped, TaskTyped, Kinds, Failures, Unresolved, peers, pipe, ends, screen, history
<1>1. ASSUME NEW c \in Clients, Examples(c) PROVE Typed'
  BY <1>1, CodesOfExit DEF Examples, Exit
<1>2. ASSUME NEW c \in Clients, Decide(c) PROVE Typed'
  <2>1. /\ UNCHANGED <<version, ends, pipe, screen, history>> /\ client[c].pc = "start"
        /\ \/ Turn(c, "probing") /\ task' = task
           \/ Exit(c, GenericError) /\ task' = task
           \/ Turn(c, "waiting") /\ task' = [task EXCEPT ![c].pc = "gate"]
    BY <1>2, DecideCases
  <2>2. task[c].pc = "none"
    BY <2>1 DEF Fresh
  <2>3. CASE Exit(c, GenericError) /\ task' = task
    BY <2>1, <2>3, CodesOfExit DEF Exit
  <2>4. CASE Turn(c, "probing") /\ task' = task
    BY <2>1, <2>4 DEF Turn
  <2>5. CASE Turn(c, "waiting") /\ task' = [task EXCEPT ![c].pc = "gate"]
    BY <2>1, <2>2, <2>5 DEF Turn
  <2> QED
    BY <2>1, <2>3, <2>4, <2>5
<1>3. ASSUME NEW c \in Clients, ProbeAnswered(c) PROVE Typed'
  BY <1>3 DEF ProbeAnswered
<1>4. ASSUME NEW c \in Clients, Receive(c) PROVE Typed'
  BY <1>4, CodesOfExit DEF Receive
<1>5. ASSUME NEW c \in Clients, TimeOut(c) PROVE Typed'
  BY <1>5, CodesOfExit DEF TimeOut, Exit
<1>6. ASSUME NEW c \in Clients, Gate(c) PROVE Typed'
  BY <1>6, UnderstoodTyped, PlainAnswer DEF Gate, Finish, GoOn, Done
<1>7. ASSUME NEW c \in Clients, OlderDaemonAnswers(c) PROVE Typed'
  <2>1. PICK kind \in {"ok", "notFound", "failed", "status"} :
          task' = [task EXCEPT ![c].pc = "done", ![c].answer = Answer(kind)]
    BY <1>7 DEF OlderDaemonAnswers
  <2>2. Answer(kind) \in Answers /\ UNCHANGED <<peers, ends, screen, history>>
    BY <1>7, PlainAnswer DEF OlderDaemonAnswers, Success
  <2> QED
    BY <2>1, <2>2
<1>8. ASSUME NEW c \in Clients, Resolve(c) PROVE Typed'
  <2>1. UNCHANGED <<peers, ends, pipe, screen, history>> /\ task[c].pc = "resolve"
    BY <1>8 DEF Resolve
  <2>2. CASE session # "live"
    <3>1. Finish(c, Answer(Unresolved))
      BY <1>8, <2>2 DEF Resolve
    <3>2. \A d \in Clients : TaskTyped(d)'
      BY <3>1, PlainFinishTypes
    <3> QED
      BY <2>1, <3>2
  <2>3. CASE session = "live"
    <3>1. (\E input : Encoded(c, input)) \/ (\E pc \in {"look", "resize", "kill"} : GoOn(c, pc))
      BY <1>8, <2>3 DEF Resolve, InputOps
    <3>2. \A d \in Clients : TaskTyped(d)'
      BY <2>1, <3>1, GoOnTypes DEF Encoded
    <3> QED
      BY <2>1, <3>2
  <2> QED
    BY <2>2, <2>3
<1>9. ASSUME NEW c \in Clients, Report(c) PROVE Typed'
  <2>1. UNCHANGED <<peers, ends, pipe, screen, history>>
    BY <1>9 DEF Report
  <2>2. PICK answer \in Answers : Finish(c, answer)
    BY <1>9, ReportAnswers
  <2>3. \A d \in Clients : TaskTyped(d)'
    BY <2>2, FinishTypes
  <2> QED
    BY <2>1, <2>3
<1>10. ASSUME NEW c \in Clients, Look(c) PROVE Typed'
  BY <1>10, UnderstoodTyped, PlainAnswer DEF Look, Finish, Encoded, Done
<1>11. ASSUME NEW c \in Clients, Write(c) PROVE Typed'
  <2>1. UNCHANGED <<peers, ends, pipe, screen, history>> /\ task[c].pc = "write"
    BY <1>11 DEF Write
  <2>2. Finish(c, Answer("ok")) \/ Finish(c, Answer("notFound")) \/ (task[c].left # <<>> /\ GoOn(c, "send"))
    BY <1>11 DEF Write
  <2>3. ASSUME NEW kind \in {"ok", "notFound"}, Finish(c, Answer(kind))
        PROVE  \A d \in Clients : TaskTyped(d)'
    BY <2>3, PlainFinishTypes DEF Success
  <2>4. CASE task[c].left # <<>> /\ GoOn(c, "send")
    BY <2>1, <2>4 DEF GoOn
  <2>5. CASE Finish(c, Answer("ok")) \/ Finish(c, Answer("notFound"))
    BY <2>1, <2>3, <2>5
  <2> QED
    BY <2>2, <2>4, <2>5
<1>12. ASSUME NEW c \in Clients, Send(c) PROVE Typed'
  BY ZenonT(30), <1>12 DEF Send
<1>13. ASSUME NEW c \in Clients, DelayOver(c) PROVE Typed'
  BY <1>13 DEF DelayOver, GoOn
<1>14. ASSUME NEW c \in Clients, SendRefused(c) PROVE Typed'
  BY <1>14, UnderstoodTyped, PlainAnswer DEF SendRefused, Finish, Done
<1>15. ASSUME NEW c \in Clients, ResizeTerminal(c) PROVE Typed'
  <2>1. UNCHANGED <<peers, ends, pipe, cursorMode, modes>> /\ task[c].pc = "resize" /\ raced' \in BOOLEAN
    BY <1>15 DEF ResizeTerminal
  <2>2. Finish(c, Answer("failed")) \/ Finish(c, Answer("notFound")) \/ GoOn(c, "emulate")
    BY <1>15 DEF ResizeTerminal
  <2>3. \A d \in Clients : TaskTyped(d)'
    BY <2>1, <2>2, PlainFinishTypes, GoOnTypes
  <2> QED
    BY <2>1, <2>3
<1>16. ASSUME NEW c \in Clients, ResizeEmulator(c) PROVE Typed'
  <2>1. UNCHANGED <<peers, ends, pipe, cursorMode, history>>
    BY <1>16 DEF ResizeEmulator
  <2>2. Finish(c, Answer("ok"))
    BY <1>16 DEF ResizeEmulator
  <2>3. \A d \in Clients : TaskTyped(d)'
    BY <2>2, PlainFinishTypes DEF Success
  <2> QED
    BY <2>1, <2>3
<1>17. ASSUME NEW c \in Clients, KillRemove(c) PROVE Typed'
  BY <1>17, UnderstoodTyped, PlainAnswer DEF KillRemove, Finish, GoOn, Done
<1>18. ASSUME NEW c \in Clients, Terminate(c) PROVE Typed'
  BY <1>18 DEF Terminate, GoOn
<1>19. ASSUME NEW c \in Clients, KillBury(c) PROVE Typed'
  <2>1. UNCHANGED <<peers, child, stopping, pipe, screen, history>> /\ session' = "buried"
    BY <1>19 DEF KillBury
  <2>2. Finish(c, Answer("ok"))
    BY <1>19 DEF KillBury
  <2>3. \A d \in Clients : TaskTyped(d)'
    BY <2>2, PlainFinishTypes DEF Success
  <2> QED
    BY <2>1, <2>3
<1>20. ASSUME WriterTakes PROVE Typed'
  BY <1>20 DEF WriterTakes
<1>21. ASSUME ProgramReads PROVE Typed'
  BY <1>21 DEF ProgramReads
<1>22. ASSUME WriteAfterExit PROVE Typed'
  BY <1>22 DEF WriteAfterExit
<1>23. ASSUME ChildExits PROVE Typed'
  BY <1>23 DEF ChildExits
<1>24. ASSUME CleanerBuries PROVE Typed'
  BY <1>24 DEF CleanerBuries
<1>25. ASSUME ModeChanges PROVE Typed'
  BY <1>25 DEF ModeChanges
<1> HIDE DEF Shaped, Typed, ClientTyped, TaskTyped, Kinds, Failures, Unresolved, peers, pipe, ends, screen, history
<1> QED
  BY <1>1, <1>2, <1>3, <1>4, <1>5, <1>6, <1>7, <1>8, <1>9, <1>10, <1>11, <1>12,
     <1>13, <1>14, <1>15, <1>16, <1>17, <1>18, <1>19, <1>20, <1>21, <1>22,
     <1>23, <1>24, <1>25 DEF Next, TaskStep

LEMMA ModalStep ==
    ASSUME Shaped, Typed, Modal, Next
    PROVE  Modal'
<1> USE DEF Shaped, Typed, Modal, peers, pipe, ends, screen, history
<1>1. ASSUME NEW c \in Clients, Examples(c) PROVE Modal'
  BY <1>1 DEF Examples, Exit
<1>2. ASSUME NEW c \in Clients, Decide(c) PROVE Modal'
  BY <1>2 DEF Decide, Turn, Exit
<1>3. ASSUME NEW c \in Clients, ProbeAnswered(c) PROVE Modal'
  BY <1>3 DEF ProbeAnswered
<1>4. ASSUME NEW c \in Clients, Receive(c) PROVE Modal'
  BY <1>4 DEF Receive
<1>5. ASSUME NEW c \in Clients, TimeOut(c) PROVE Modal'
  BY <1>5 DEF TimeOut, Exit
<1>6. ASSUME NEW c \in Clients, Gate(c) PROVE Modal'
  BY <1>6 DEF Gate, Finish, GoOn, Done
<1>7. ASSUME NEW c \in Clients, OlderDaemonAnswers(c) PROVE Modal'
  BY <1>7 DEF OlderDaemonAnswers
<1>8. ASSUME NEW c \in Clients, Resolve(c) PROVE Modal'
  BY <1>8 DEF Resolve, Finish, GoOn, Encoded, Done
<1>9. ASSUME NEW c \in Clients, Report(c) PROVE Modal'
  BY <1>9 DEF Report, Finish, Done
<1>10. ASSUME NEW c \in Clients, Look(c) PROVE Modal'
  BY <1>10 DEF Look, Finish, Encoded, Done
<1>11. ASSUME NEW c \in Clients, Write(c) PROVE Modal'
  BY <1>11 DEF Write, Finish, GoOn, Done
<1>12. ASSUME NEW c \in Clients, Send(c) PROVE Modal'
  BY <1>12 DEF Send
<1>13. ASSUME NEW c \in Clients, DelayOver(c) PROVE Modal'
  BY <1>13 DEF DelayOver, GoOn
<1>14. ASSUME NEW c \in Clients, SendRefused(c) PROVE Modal'
  BY <1>14 DEF SendRefused, Finish, Done
<1>15. ASSUME NEW c \in Clients, ResizeTerminal(c) PROVE Modal'
  BY <1>15 DEF ResizeTerminal, Finish, GoOn, Done
<1>16. ASSUME NEW c \in Clients, ResizeEmulator(c) PROVE Modal'
  BY <1>16 DEF ResizeEmulator, Finish, Done
<1>17. ASSUME NEW c \in Clients, KillRemove(c) PROVE Modal'
  BY <1>17 DEF KillRemove, Finish, GoOn, Done
<1>18. ASSUME NEW c \in Clients, Terminate(c) PROVE Modal'
  BY <1>18 DEF Terminate, GoOn
<1>19. ASSUME NEW c \in Clients, KillBury(c) PROVE Modal'
  BY <1>19 DEF KillBury, Finish, Done
<1>20. ASSUME WriterTakes PROVE Modal'
  BY <1>20 DEF WriterTakes
<1>21. ASSUME ProgramReads PROVE Modal'
  BY <1>21 DEF ProgramReads
<1>22. ASSUME WriteAfterExit PROVE Modal'
  BY <1>22 DEF WriteAfterExit
<1>23. ASSUME ChildExits PROVE Modal'
  BY <1>23 DEF ChildExits
<1>24. ASSUME CleanerBuries PROVE Modal'
  BY <1>24 DEF CleanerBuries
<1>25. ASSUME ModeChanges PROVE Modal'
  BY <1>25 DEF ModeChanges
<1> HIDE DEF Shaped, Typed, Modal, peers, pipe, ends, screen, history
<1> QED
  BY <1>1, <1>2, <1>3, <1>4, <1>5, <1>6, <1>7, <1>8, <1>9, <1>10, <1>11, <1>12,
     <1>13, <1>14, <1>15, <1>16, <1>17, <1>18, <1>19, <1>20, <1>21, <1>22,
     <1>23, <1>24, <1>25 DEF Next, TaskStep

LEMMA ResizesSize ==
    ASSUME Lined, NEW c \in Clients, Command(c).op = "resize"
    PROVE  [cols |-> Command(c).cols, rows |-> Command(c).rows] \in Sizes
<1> DEFINE l == client[c].line
<1>1. l \in LinesOf[c] /\ Command(c) = CliToCommand(l)
  BY DEF Lined, Command
<1>2. l.op = "resize" /\ Command(c).cols = l.cols /\ Command(c).rows = l.rows
  BY <1>1, LineIsOp, LineIsSent
<1>3. l \in Lines
  BY <1>1 DEF Lines
<1> HIDE DEF l
<1> QED
  BY <1>2, <1>3 DEF Sizes

LEMMA SizedStep ==
    ASSUME Shaped, Lined, AtWork, Sized, Next
    PROVE  Sized'
<1> USE DEF Shaped, Lined, AtWork, Sized, peers, pipe, ends, screen, history
<1>1. ASSUME NEW c \in Clients, Examples(c) PROVE Sized'
  BY <1>1 DEF Examples, Exit
<1>2. ASSUME NEW c \in Clients, Decide(c) PROVE Sized'
  BY <1>2 DEF Decide, Turn, Exit
<1>3. ASSUME NEW c \in Clients, ProbeAnswered(c) PROVE Sized'
  BY <1>3 DEF ProbeAnswered
<1>4. ASSUME NEW c \in Clients, Receive(c) PROVE Sized'
  BY <1>4 DEF Receive
<1>5. ASSUME NEW c \in Clients, TimeOut(c) PROVE Sized'
  BY <1>5 DEF TimeOut, Exit
<1>6. ASSUME NEW c \in Clients, Gate(c) PROVE Sized'
  BY <1>6 DEF Gate, Finish, GoOn, Done
<1>7. ASSUME NEW c \in Clients, OlderDaemonAnswers(c) PROVE Sized'
  BY <1>7 DEF OlderDaemonAnswers
<1>8. ASSUME NEW c \in Clients, Resolve(c) PROVE Sized'
  BY <1>8 DEF Resolve, Finish, GoOn, Encoded, Done
<1>9. ASSUME NEW c \in Clients, Report(c) PROVE Sized'
  BY <1>9 DEF Report, Finish, Done
<1>10. ASSUME NEW c \in Clients, Look(c) PROVE Sized'
  BY <1>10 DEF Look, Finish, Encoded, Done
<1>11. ASSUME NEW c \in Clients, Write(c) PROVE Sized'
  BY <1>11 DEF Write, Finish, GoOn, Done
<1>12. ASSUME NEW c \in Clients, Send(c) PROVE Sized'
  BY <1>12 DEF Send
<1>13. ASSUME NEW c \in Clients, DelayOver(c) PROVE Sized'
  BY <1>13 DEF DelayOver, GoOn
<1>14. ASSUME NEW c \in Clients, SendRefused(c) PROVE Sized'
  BY <1>14 DEF SendRefused, Finish, Done
<1>15. ASSUME NEW c \in Clients, ResizeTerminal(c) PROVE Sized'
  <2>1. Command(c).op = "resize"
    BY <1>15 DEF ResizeTerminal
  <2>2. [cols |-> Command(c).cols, rows |-> Command(c).rows] \in Sizes
    BY <2>1, ResizesSize
  <2> QED
    BY <1>15, <2>2 DEF ResizeTerminal
<1>16. ASSUME NEW c \in Clients, ResizeEmulator(c) PROVE Sized'
  <2>1. Command(c).op = "resize"
    BY <1>16 DEF ResizeEmulator
  <2>2. [cols |-> Command(c).cols, rows |-> Command(c).rows] \in Sizes
    BY <2>1, ResizesSize
  <2> QED
    BY <1>16, <2>2 DEF ResizeEmulator
<1>17. ASSUME NEW c \in Clients, KillRemove(c) PROVE Sized'
  BY <1>17 DEF KillRemove, Finish, GoOn, Done
<1>18. ASSUME NEW c \in Clients, Terminate(c) PROVE Sized'
  BY <1>18 DEF Terminate, GoOn
<1>19. ASSUME NEW c \in Clients, KillBury(c) PROVE Sized'
  BY <1>19 DEF KillBury, Finish, Done
<1>20. ASSUME WriterTakes PROVE Sized'
  BY <1>20 DEF WriterTakes
<1>21. ASSUME ProgramReads PROVE Sized'
  BY <1>21 DEF ProgramReads
<1>22. ASSUME WriteAfterExit PROVE Sized'
  BY <1>22 DEF WriteAfterExit
<1>23. ASSUME ChildExits PROVE Sized'
  BY <1>23 DEF ChildExits
<1>24. ASSUME CleanerBuries PROVE Sized'
  BY <1>24 DEF CleanerBuries
<1>25. ASSUME ModeChanges PROVE Sized'
  BY <1>25 DEF ModeChanges
<1> HIDE DEF Shaped, Lined, AtWork, Sized, peers, pipe, ends, screen, history
<1> QED
  BY <1>1, <1>2, <1>3, <1>4, <1>5, <1>6, <1>7, <1>8, <1>9, <1>10, <1>11, <1>12,
     <1>13, <1>14, <1>15, <1>16, <1>17, <1>18, <1>19, <1>20, <1>21, <1>22,
     <1>23, <1>24, <1>25 DEF Next, TaskStep
-----------------------------------------------------------------------------
(* What each request has put into the pipe, and how much of it is through.  *)

\* What a client's request can ask to be written, given what its screen was.
InputFor(c, mode, size) ==
    IF Asked(c).op \in InputOps THEN InputOf(Asked(c), mode, Middle(size)) ELSE <<>>
InputsFor(c) == {InputFor(c, mode, size) : mode \in modes[c], size \in Sizes}

\* All that anybody can ever write.
InputOfLine(l, mode, size) ==
    IF Parsed(l).op \in InputOps THEN InputOf(Parsed(l), mode, Middle(size)) ELSE <<>>
AnyInput == {InputOfLine(l, mode, size) : l \in Lines, mode \in BOOLEAN, size \in Sizes}
Writes == UNION {{input[i] : i \in DOMAIN input} : input \in AnyInput}
Chunks == ChunksOf(Writes)

PipeTyped ==
    /\ read \in Seq(Chunks) /\ channel \in Seq(Chunks)
    /\ DOMAIN writer = {"runs", "hand"} /\ writer.runs \in BOOLEAN /\ writer.hand \in Seq(Chunks)
    /\ Len(channel) <= ChannelCap
    /\ ~writer.runs => channel = <<>> /\ writer.hand = <<>>

Taken == read \o writer.hand \o channel

\* What is left to write is what has not been sent; an input that was encoded
\* without a session will not be written at all.
Queued(c, input) ==
    /\ task[c].sent \in 0..Len(input)
    /\ task[c].pc \in Writing =>
          \/ task[c].left = Skip(input, task[c].sent)
          \/ task[c].pc = "write" /\ task[c].left # <<>> /\ task[c].sent = 0 /\ session # "live"
    /\ task[c].pc = "done" /\ task[c].answer.kind = "ok" /\ version.daemon = ProtocolVersion =>
          task[c].sent = Len(input)

Arrived(c, input) ==
    /\ Len(From(c, read)) <= task[c].sent /\ IsPrefix(From(c, read), input)
    /\ child => IsPrefix(From(c, Taken), input) /\ Len(From(c, Taken)) = task[c].sent

Carries(c, input) == Queued(c, input) /\ Arrived(c, input)

Carried == \A c \in Clients : \E input \in InputsFor(c) : Carries(c, input)

LEMMA LineInputTyped ==
    ASSUME NEW e \in Clients, NEW l \in LinesOf[e], NEW mode \in BOOLEAN, NEW size \in Sizes
    PROVE  /\ InputOfLine(l, mode, size) \in Seq(Writes)
           /\ Parsed(l).op \notin InputOps => InputOfLine(l, mode, size) = <<>>
<1> DEFINE input == InputOfLine(l, mode, size)
<1>1. input \in AnyInput
  <2>1. l \in Lines
    BY DEF Lines
  <2> QED
    BY <2>1 DEF AnyInput
<1>2. \A i \in DOMAIN input : input[i] \in Writes
  BY <1>1 DEF Writes
<1>3. CASE Parsed(l).op \notin InputOps
  <2>1. input = <<>>
    BY <1>3 DEF InputOfLine
  <2> QED
    BY <2>1, EmptySeq
<1>4. CASE Parsed(l).op \in InputOps
  <2>1. input = InputOf(Parsed(l), mode, Middle(size)) /\ l.op \in InputOps
    BY <1>4, LineIsOp DEF InputOfLine
  <2>2. (\E m \in Nat : DOMAIN input = 1..m) /\ input = [i \in DOMAIN input |-> input[i]]
    BY <2>1, InputIsSequence
  <2> HIDE DEF input
  <2>3. PICK m \in Nat : DOMAIN input = 1..m
    BY <2>2
  <2>4. input \in [1..m -> Writes]
    BY <1>2, <2>2, <2>3
  <2>5. input \in Seq(Writes)
    BY <2>4, SeqDef
  <2> QED
    BY <1>4, <2>5 DEF input
<1> QED
  BY <1>3, <1>4

LEMMA InputsTyped ==
    ASSUME Lined, Modal, NEW c \in Clients, NEW input \in InputsFor(c)
    PROVE  /\ input \in Seq(Writes) /\ Len(input) \in Nat
           /\ Command(c).op \notin InputOps => input = <<>>
<1> DEFINE l == client[c].line
<1>1. PICK mode \in modes[c], size \in Sizes : input = InputFor(c, mode, size)
  BY DEF InputsFor
<1>2. mode \in BOOLEAN
  BY DEF Modal
<1>3. l \in LinesOf[c] /\ Command(c).op = Parsed(l).op
  BY LineIsOp DEF Lined, Command
<1>4. input = InputOfLine(l, mode, size)
  BY <1>1 DEF InputFor, InputOfLine, Asked
<1> HIDE DEF l
<1>5. input \in Seq(Writes) /\ (Command(c).op \notin InputOps => input = <<>>)
  BY <1>2, <1>3, <1>4, LineInputTyped
<1> QED
  BY <1>5, LenProperties

\* The modes of a request only grow once it has begun.
LEMMA InputsKept ==
    ASSUME NEW c \in Clients, client'[c].line = client[c].line, modes[c] \subseteq modes'[c]
    PROVE  InputsFor(c) \subseteq InputsFor(c)'
  BY DEF InputsFor, InputFor, Asked

LEMMA TakenTyped ==
    ASSUME PipeTyped
    PROVE  Taken \in Seq(Chunks)
<1>1. read \o writer.hand \in Seq(Chunks)
  BY ConcatProperties DEF PipeTyped
<1> QED
  BY <1>1, ConcatProperties DEF PipeTyped, Taken

\* Nothing can have arrived from a request that has sent nothing.
LEMMA NothingArrived ==
    ASSUME PipeTyped, NEW c \in Clients, NEW input, NEW other \in Seq(Writes),
           Arrived(c, input), task[c].sent = 0
    PROVE  Arrived(c, other)
<1>1. From(c, read) \in Seq(Writes) /\ From(c, Taken) \in Seq(Writes)
  BY TakenTyped, FromElements DEF PipeTyped, Chunks
<1>2. Len(From(c, read)) \in Nat /\ Len(From(c, Taken)) \in Nat /\ Len(other) \in Nat
  BY <1>1, LenProperties
<1>3. ASSUME NEW q \in Seq(Writes), Len(q) = 0 PROVE IsPrefix(q, other)
  <2>1. Len(q) <= Len(other) /\ \A i \in 1..Len(q) : q[i] = other[i]
    BY <1>2, <1>3
  <2> QED
    BY <2>1, PrefixElements
<1> QED
  BY <1>1, <1>2, <1>3 DEF Arrived

\* A step that neither sends nor begins to write carries on.
LEMMA QuietStep ==
    ASSUME NEW d \in Clients, NEW input, Carries(d, input),
           UNCHANGED <<read, writer, channel, version>>, child' => child,
           session = "live" \/ session' # "live",
           task'[d].sent = task[d].sent,
           \/ task'[d] = task[d]
           \/ task'[d].pc \notin Writing \cup {"done"}
           \/ /\ task'[d].pc = "done"
              /\ \/ task'[d].answer.kind # "ok" \/ version.daemon # ProtocolVersion \/ input = <<>>
    PROVE  Carries(d, input)'
<1>1. Taken' = Taken /\ From(d, read)' = From(d, read) /\ From(d, Taken)' = From(d, Taken)
  BY DEF Taken, From
<1>2. Arrived(d, input)'
  BY <1>1 DEF Carries, Arrived
<1>3. Queued(d, input)'
  BY DEF Carries, Queued, Writing
<1> QED
  BY <1>2, <1>3 DEF Carries

LEMMA CarriedOn ==
    ASSUME NEW d \in Clients, Carried, client'[d].line = client[d].line, modes[d] \subseteq modes'[d],
           \A input \in InputsFor(d) : Carries(d, input) => Carries(d, input)'
    PROVE  \E input \in InputsFor(d)' : Carries(d, input)'
<1>1. PICK input \in InputsFor(d) : Carries(d, input)
  BY DEF Carried
<1>2. input \in InputsFor(d)'
  BY InputsKept
<1> QED
  BY <1>1, <1>2

\* A step that leaves the pipe alone, and what it does to one client's task.
PipeQuiet ==
    /\ UNCHANGED <<read, writer, channel, version>> /\ (child' => child)
    /\ session = "live" \/ session' # "live"

Quiet(d) ==
    /\ client'[d].line = client[d].line /\ modes[d] \subseteq modes'[d]
    /\ task'[d].sent = task[d].sent
    /\ \/ task'[d] = task[d]
       \/ task'[d].pc \notin Writing \cup {"done"}
       \/ /\ task'[d].pc = "done"
          /\ \/ task'[d].answer.kind # "ok" \/ version.daemon # ProtocolVersion
             \/ Command(d).op \notin InputOps

LEMMA QuietCarries ==
    ASSUME Lined, Modal, Carried, PipeQuiet, NEW d \in Clients, Quiet(d)
    PROVE  \E input \in InputsFor(d)' : Carries(d, input)'
<1>1. ASSUME NEW input \in InputsFor(d), Carries(d, input) PROVE Carries(d, input)'
  <2>1. Command(d).op \notin InputOps => input = <<>>
    BY InputsTyped
  <2> QED
    BY <1>1, <2>1, QuietStep DEF PipeQuiet, Quiet
<1> QED
  BY <1>1, CarriedOn DEF Quiet

LEMMA QuietCarried ==
    ASSUME Lined, Modal, Carried, PipeQuiet, \A d \in Clients : Quiet(d)
    PROVE  Carried'
  BY QuietCarries DEF Carried

\* Parts of that proof, one for each way in which a request goes on.
LEMMA LinesTyped ==
    ASSUME Lined, NEW c \in Clients, NEW mode \in BOOLEAN, NEW size \in Sizes
    PROVE  InputFor(c, mode, size) \in Seq(Writes) /\ Len(InputFor(c, mode, size)) \in Nat
<1> DEFINE l == client[c].line
<1>1. l \in LinesOf[c]
  BY DEF Lined
<1>2. InputFor(c, mode, size) = InputOfLine(l, mode, size)
  BY DEF InputFor, InputOfLine, Asked
<1> HIDE DEF l
<1>3. InputFor(c, mode, size) \in Seq(Writes)
  BY <1>1, <1>2, LineInputTyped
<1> QED
  BY <1>3, LenProperties

LEMMA FinishedQuiet ==
    ASSUME Shaped, NEW c \in Clients, NEW kind, Finish(c, Answer(kind)),
           kind # "ok" \/ Command(c).op \notin InputOps,
           client' = client, modes' = modes
    PROVE  \A d \in Clients : Quiet(d)
<1>1. /\ task'[c].pc = "done" /\ task'[c].sent = task[c].sent
      /\ task'[c].answer = Understood(c, Answer(kind))
      /\ \A d \in Clients : d # c => task'[d] = task[d]
  BY DEF Shaped, Finish, Done
<1>2. Understood(c, Answer(kind)).kind \in {kind, "upgrade"}
  BY UnderstoodIs DEF Answer
<1> QED
  BY <1>1, <1>2 DEF Quiet

LEMMA WentOnQuiet ==
    ASSUME Shaped, NEW c \in Clients, NEW pc, GoOn(c, pc), pc \notin Writing \cup {"done"},
           client' = client, modes' = modes
    PROVE  \A d \in Clients : Quiet(d)
  BY DEF Shaped, GoOn, Quiet

LEMMA StillArrived ==
    ASSUME NEW c \in Clients, NEW input, Arrived(c, input), PipeQuiet, task'[c].sent = task[c].sent
    PROVE  Arrived(c, input)'
  BY DEF PipeQuiet, Arrived, Taken, From

LEMMA FreshCarries ==
    ASSUME NEW c \in Clients, NEW input \in Seq(Writes), Arrived(c, input), PipeQuiet,
           task[c].sent = 0, task'[c].sent = 0,
           task'[c].pc = "resolve" \/ (task'[c].pc = "done" /\ task'[c].answer.kind # "ok")
    PROVE  Carries(c, input)'
<1>1. Arrived(c, input)'
  BY StillArrived
<1>2. Len(input) \in Nat
  BY LenProperties
<1> QED
  BY <1>1, <1>2 DEF Carries, Queued, Writing

LEMMA BegunCarries ==
    ASSUME NEW c \in Clients, NEW input \in Seq(Writes), Arrived(c, input), PipeQuiet,
           task[c].sent = 0, task'[c].sent = 0, task'[c].pc = "write", task'[c].left = input
    PROVE  Carries(c, input)'
<1>1. Arrived(c, input)'
  BY StillArrived
<1>2. Len(input) \in Nat /\ Skip(input, 0) = input
  <2>1. Len(input) \in Nat
    BY LenProperties
  <2>2. SubSeq(input, 1, Len(input)) = input
    BY SubSeqFull
  <2> QED
    BY <2>1, <2>2 DEF Skip
<1> QED
  BY <1>1, <1>2 DEF Carries, Queued, Writing

LEMMA DeadCarries ==
    ASSUME NEW c \in Clients, NEW input \in Seq(Writes), Arrived(c, input), PipeQuiet, session # "live",
           task[c].sent = 0, task'[c].sent = 0, task'[c].pc = "write", task'[c].left # <<>>
    PROVE  Carries(c, input)'
<1>1. Arrived(c, input)'
  BY StillArrived
<1>2. Len(input) \in Nat
  BY LenProperties
<1> QED
  BY <1>1, <1>2 DEF Carries, Queued, Writing, PipeQuiet

\* Text and clicks do not depend on the screen.
LEMMA TypeClickInput ==
    ASSUME Lined, NEW c \in Clients, Command(c).op \in {"type", "click"}, NEW input \in InputsFor(c)
    PROVE  input = InputOf(Command(c), FALSE, Nowhere)
<1> DEFINE l == client[c].line
<1>1. l \in LinesOf[c] /\ Command(c) = CliToCommand(l)
  BY DEF Lined, Command
<1>2. l.op \in InputOps /\ Command(c) = Parsed(l) /\ Parsed(l).op = l.op
  BY <1>1, LineIsOp, LineIsSent DEF InputOps
<1>3. Asked(c) = Command(c)
  BY <1>2 DEF Asked
<1> HIDE DEF l
<1>4. PICK mode \in modes[c], size \in Sizes : input = InputFor(c, mode, size)
  BY DEF InputsFor
<1>5. input = InputOf(Command(c), mode, Middle(size))
  BY <1>2, <1>3, <1>4 DEF InputFor
<1>6. CASE Command(c).op = "type"
  BY <1>5, <1>6 DEF InputOf
<1>7. CASE Command(c).op = "click"
  BY <1>5, <1>7 DEF InputOf
<1> QED
  BY <1>6, <1>7

\* Keys are encoded by the screen's mode and the wheel by its size.
LEMMA LookedInput ==
    ASSUME Lined, Modal, Sized, NEW c \in Clients, task[c].pc = "look", Command(c).op \in {"key", "scroll"},
           session = "live" \/ Command(c).op = "scroll"
    PROVE  LET there == session = "live"
           IN  InputOf(Command(c), there /\ cursorMode, IF there THEN Middle(sizes.emulator) ELSE Nowhere)
                 \in InputsFor(c)
<1> DEFINE l == client[c].line
<1>1. l \in LinesOf[c] /\ Command(c) = CliToCommand(l)
  BY DEF Lined, Command
<1>2. l.op \in InputOps /\ Command(c) = Parsed(l) /\ Parsed(l).op = l.op
  BY <1>1, LineIsOp, LineIsSent DEF InputOps
<1>3. Asked(c) = Command(c)
  BY <1>2 DEF Asked
<1> HIDE DEF l
<1>4. cursorMode \in modes[c] /\ sizes.emulator \in Sizes /\ FirstSize \in Sizes /\ cursorMode \in BOOLEAN
  BY DEF Modal, Sized, Sizes
<1>5. Middle(FirstSize) = Nowhere
  BY DEF Middle, FirstSize, Nowhere
<1>6. \A size \in Sizes : InputOf(Command(c), cursorMode, Middle(size)) \in InputsFor(c)
  BY <1>2, <1>3, <1>4 DEF InputsFor, InputFor
<1>7. CASE session = "live"
  BY <1>4, <1>6, <1>7
<1>8. CASE session # "live"
  <2>1. Command(c).op = "scroll"
    BY <1>8
  <2>2. InputOf(Command(c), FALSE, Nowhere) = InputOf(Command(c), cursorMode, Nowhere)
    BY <2>1 DEF InputOf
  <2>3. InputOf(Command(c), cursorMode, Nowhere) \in InputsFor(c)
    BY <1>4, <1>5, <1>6
  <2> QED
    BY <1>8, <2>2, <2>3
<1> QED
  BY <1>7, <1>8

LEMMA NothingLeft ==
    ASSUME NEW S, NEW input \in Seq(S), NEW m \in 0..Len(input), Skip(input, m) = <<>>
    PROVE  m = Len(input)
<1>1. Len(input) \in Nat
  BY LenProperties
<1>2. Len(Skip(input, m)) = Len(input) - m
  BY <1>1, SkipProperties
<1>3. Len(Skip(input, m)) = 0
  OBVIOUS
<1> QED
  BY <1>1, <1>2, <1>3

LEMMA OneSent ==
    ASSUME NEW S, NEW input \in Seq(S), NEW m \in 0..Len(input), Skip(input, m) # <<>>
    PROVE  /\ m + 1 \in 0..Len(input)
           /\ Head(Skip(input, m)) = input[m + 1] /\ input[m + 1] \in S
           /\ Tail(Skip(input, m)) = Skip(input, m + 1)
<1> DEFINE left == Skip(input, m)
<1>1. Len(input) \in Nat /\ m \in Nat
  BY LenProperties
<1>2. /\ left \in Seq(S) /\ Len(left) = Len(input) - m
      /\ \A i \in 1..(Len(input) - m) : left[i] = input[m + i]
  BY <1>1, SkipProperties
<1> HIDE DEF left
<1>3. left # <<>>
  BY DEF left
<1>4. Len(left) # 0
  BY <1>2, <1>3, EmptySeq
<1>5. m + 1 \in 0..Len(input) /\ 1 \in 1..(Len(input) - m) /\ m + 1 \in 1..Len(input)
  BY <1>1, <1>2, <1>4
<1>6. /\ Head(left) = left[1] /\ Tail(left) \in Seq(S) /\ Len(Tail(left)) = Len(left) - 1
      /\ \A i \in 1..(Len(left) - 1) : Tail(left)[i] = left[i + 1]
  BY <1>2, <1>3, HeadTailProperties
<1>7. Head(left) = input[m + 1] /\ input[m + 1] \in S
  <2>1. left[1] = input[m + 1]
    BY <1>2, <1>5
  <2>2. input[m + 1] \in S
    BY <1>5, ElementOfSeq
  <2> QED
    BY <1>6, <2>1, <2>2
<1>8. /\ Skip(input, m + 1) \in Seq(S) /\ Len(Skip(input, m + 1)) = Len(input) - (m + 1)
      /\ \A i \in 1..(Len(input) - (m + 1)) : Skip(input, m + 1)[i] = input[(m + 1) + i]
  BY <1>1, <1>5, SkipProperties
<1>9. Tail(left) = Skip(input, m + 1)
  <2>1. Len(Tail(left)) = Len(Skip(input, m + 1))
    BY <1>1, <1>2, <1>6, <1>8
  <2>2. ASSUME NEW i \in 1..Len(Tail(left)) PROVE Tail(left)[i] = Skip(input, m + 1)[i]
    <3>1. i \in 1..(Len(left) - 1) /\ i + 1 \in 1..(Len(input) - m) /\ i \in 1..(Len(input) - (m + 1))
      BY <1>1, <1>2, <1>6
    <3>2. m + (i + 1) = (m + 1) + i
      BY <1>1
    <3>3. Tail(left)[i] = input[m + (i + 1)]
      BY <1>2, <1>6, <3>1
    <3>4. Skip(input, m + 1)[i] = input[(m + 1) + i]
      BY <1>8, <3>1
    <3> QED
      BY <3>2, <3>3, <3>4
  <2> QED
    BY <1>6, <1>8, <2>1, <2>2, SeqEqual
<1> QED
  BY <1>5, <1>7, <1>9 DEF left

LEMMA PrefixesChain ==
    ASSUME NEW S, NEW a \in Seq(S), NEW b \in Seq(S), NEW d \in Seq(S), IsPrefix(a, b), IsPrefix(b, d)
    PROVE  IsPrefix(a, d)
<1>1. Len(a) \in Nat /\ Len(b) \in Nat /\ Len(d) \in Nat
  BY LenProperties
<1>2. Len(a) <= Len(b) /\ \A i \in 1..Len(a) : a[i] = b[i]
  BY PrefixElements
<1>3. Len(b) <= Len(d) /\ \A i \in 1..Len(b) : b[i] = d[i]
  BY PrefixElements
<1>4. Len(a) <= Len(d) /\ \A i \in 1..Len(a) : a[i] = d[i]
  BY <1>1, <1>2, <1>3
<1> QED
  BY <1>4, PrefixElements

LEMMA HeadFirst ==
    ASSUME NEW S, NEW q \in Seq(S), q # <<>>
    PROVE  q = <<Head(q)>> \o Tail(q)
<1> DEFINE h == <<Head(q)>>
           t == Tail(q)
           u == h \o t
<1>1. /\ Head(q) \in S /\ Head(q) = q[1] /\ t \in Seq(S) /\ Len(t) = Len(q) - 1
      /\ \A i \in 1..Len(t) : t[i] = q[i + 1]
  BY HeadTailProperties
<1>2. h \in Seq(S) /\ Len(h) = 1 /\ h[1] = q[1] /\ Len(q) \in Nat
  BY <1>1, LenProperties
<1> HIDE DEF h, t
<1>6. /\ u \in Seq(S) /\ Len(u) = Len(h) + Len(t)
      /\ \A i \in 1..(Len(h) + Len(t)) : u[i] = IF i <= Len(h) THEN h[i] ELSE t[i - Len(h)]
  <2>1. h \in Seq(S) /\ t \in Seq(S)
    BY <1>1, <1>2
  <2> QED
    BY <2>1, ConcatProperties
<1> HIDE DEF u
<1>3. /\ u \in Seq(S) /\ Len(u) = Len(q)
      /\ \A i \in 1..(Len(h) + Len(t)) : u[i] = IF i <= Len(h) THEN h[i] ELSE t[i - Len(h)]
  BY <1>1, <1>2, <1>6
<1>4. ASSUME NEW i \in 1..Len(q) PROVE u[i] = q[i]
  <2>1. i \in 1..(Len(h) + Len(t))
    BY <1>1, <1>2
  <2>2. CASE i = 1
    BY <1>2, <1>3, <2>1, <2>2
  <2>3. CASE i # 1
    <3>1. i - 1 \in 1..Len(t) /\ (i - 1) + 1 = i /\ ~(i <= Len(h))
      BY <1>1, <1>2, <2>3
    <3> QED
      BY <1>1, <1>2, <1>3, <2>1, <3>1
  <2> QED
    BY <2>2, <2>3
<1>5. u = q
  BY <1>3, <1>4, SeqEqual
<1> QED
  BY <1>5 DEF u, h, t

\* Where the bytes go between the channel and the program.
LEMMA TakenAppended ==
    ASSUME PipeTyped, NEW chunk \in Chunks, UNCHANGED <<writer, read>>, channel' = Append(channel, chunk)
    PROVE  Taken' = Append(Taken, chunk)
<1>1. read \o writer.hand \in Seq(Chunks) /\ channel \in Seq(Chunks)
  BY ConcatProperties DEF PipeTyped
<1>2. Taken' = (read \o writer.hand) \o Append(channel, chunk)
  BY DEF Taken
<1>4. Taken = (read \o writer.hand) \o channel
  BY DEF Taken
<1> DEFINE before == read \o writer.hand
<1> HIDE DEF before
<1>5. before \in Seq(Chunks) /\ Taken = before \o channel /\ Taken' = before \o Append(channel, chunk)
  BY <1>1, <1>2, <1>4 DEF before
<1>3. before \o Append(channel, chunk) = Append(before \o channel, chunk)
  <2>1. before \in Seq(Chunks) /\ channel \in Seq(Chunks) /\ chunk \in Chunks
    BY <1>1, <1>5
  <2> QED
    BY <2>1, AppendAfterConcat
<1> QED
  BY <1>3, <1>5

LEMMA TakenMoved ==
    ASSUME PipeTyped, WriterTakes
    PROVE  UNCHANGED <<peers, task, ends, read, screen, history>> /\ Taken' = Taken
<1>1. /\ writer.hand = <<>> /\ channel # <<>> /\ read \in Seq(Chunks) /\ channel \in Seq(Chunks)
      /\ writer' = [writer EXCEPT !.hand = <<Head(channel)>>] /\ channel' = Tail(channel)
      /\ UNCHANGED <<peers, task, ends, read, screen, history>>
  BY DEF WriterTakes, PipeTyped
<1>2. writer'.hand = <<Head(channel)>>
  BY <1>1 DEF PipeTyped
<1>3. Head(channel) \in Chunks /\ Tail(channel) \in Seq(Chunks)
  BY <1>1, HeadTailProperties
<1>4. channel = <<Head(channel)>> \o Tail(channel)
  BY <1>1, HeadFirst
<1> DEFINE h == <<Head(channel)>>
           t == Tail(channel)
<1>5. h \in Seq(Chunks) /\ t \in Seq(Chunks)
  BY <1>3
<1>6. (read \o h) \o t = read \o (h \o t)
  BY <1>1, <1>5, ConcatAssociative
<1>7. read \o <<>> = read
  BY <1>1, ConcatEmptySeq
<1>8. Taken' = (read \o h) \o t
  BY <1>1, <1>2 DEF Taken
<1>9. Taken = read \o channel
  BY <1>1, <1>7 DEF Taken
<1>10. channel = h \o t
  BY <1>4
<1> HIDE DEF h, t
<1>11. Taken' = Taken
  BY <1>6, <1>8, <1>9, <1>10
<1> QED
  BY <1>1, <1>11

LEMMA TakenRead ==
    ASSUME PipeTyped, ProgramReads
    PROVE  /\ UNCHANGED <<peers, task, ends, channel, screen, history>> /\ child
           /\ read' \in Seq(Chunks) /\ Taken' = Taken
           /\ Taken' = read' \o channel
<1>1. /\ read' = read \o writer.hand /\ writer' = [writer EXCEPT !.hand = <<>>]
      /\ UNCHANGED <<peers, task, ends, channel, screen, history>> /\ child
      /\ read \in Seq(Chunks) /\ writer.hand \in Seq(Chunks) /\ channel \in Seq(Chunks)
  BY DEF ProgramReads, PipeTyped
<1>2. writer'.hand = <<>>
  BY <1>1 DEF PipeTyped
<1>3. read' \in Seq(Chunks)
  BY <1>1, ConcatProperties
<1>4. read' \o <<>> = read'
  BY <1>3, ConcatEmptySeq
<1>5. Taken' = read' \o channel
  <2>1. Taken' = read' \o writer'.hand \o channel'
    BY DEF Taken
  <2>2. channel' = channel
    BY <1>1
  <2> QED
    BY <1>2, <1>4, <2>1, <2>2
<1>6. Taken = read' \o channel
  BY <1>1 DEF Taken
<1> QED
  BY <1>1, <1>3, <1>5, <1>6

LEMMA MovedCarried ==
    ASSUME Carried, UNCHANGED <<peers, task, ends, read, screen, history>>, Taken' = Taken
    PROVE  Carried'
<1> USE DEF peers, ends, screen, history
<1>1. ASSUME NEW d \in Clients PROVE \E input \in InputsFor(d)' : Carries(d, input)'
  <2>1. ASSUME NEW input \in InputsFor(d), Carries(d, input) PROVE Carries(d, input)'
    <3>1. From(d, Taken') = From(d, Taken) /\ From(d, read') = From(d, read)
      OBVIOUS
    <3>2. Arrived(d, input)'
      BY <2>1, <3>1 DEF Carries, Arrived
    <3> QED
      BY <2>1, <3>2 DEF Carries, Queued
  <2> QED
    BY <2>1, CarriedOn
<1> QED
  BY <1>1 DEF Carried

LEMMA ReadCarried ==
    ASSUME PipeTyped, Lined, Modal, Carried, ProgramReads
    PROVE  Carried'
<1> USE DEF peers, ends, screen, history
<1>1. /\ UNCHANGED <<peers, task, ends, channel, screen, history>> /\ child
      /\ read' \in Seq(Chunks) /\ channel \in Seq(Chunks) /\ Taken' = Taken
      /\ Taken' = read' \o channel
  BY TakenRead DEF PipeTyped
<1>2. ASSUME NEW d \in Clients PROVE \E input \in InputsFor(d)' : Carries(d, input)'
  <2>1. ASSUME NEW input \in InputsFor(d), Carries(d, input) PROVE Carries(d, input)'
    <3> DEFINE now == From(d, read')
               all == From(d, Taken)
    <3>1. /\ IsPrefix(now, all) /\ Len(now) <= Len(all)
          /\ now \in Seq(Writes) /\ all \in Seq(Writes) /\ input \in Seq(Writes)
      <4>1. read' \in Seq(ChunksOf(Writes)) /\ channel \in Seq(ChunksOf(Writes))
        BY <1>1 DEF Chunks
      <4>2. IsPrefix(From(d, read'), From(d, read' \o channel)) /\ Len(From(d, read')) <= Len(From(d, read' \o channel))
        BY <4>1, FromGrows
      <4>3. now \in Seq(Writes)
        BY <4>1, FromElements
      <4>4. all \in Seq(Writes)
        BY TakenTyped, FromElements DEF Chunks
      <4>5. Taken = read' \o channel
        BY <1>1
      <4> QED
        BY <4>2, <4>3, <4>4, <4>5, InputsTyped
    <3>2. IsPrefix(all, input) /\ Len(all) = task[d].sent
      BY <1>1, <2>1 DEF Carries, Arrived
    <3>3. From(d, Taken') = all /\ task' = task /\ session' = session /\ version' = version
      BY <1>1
    <3> HIDE DEF now, all
    <3>4. IsPrefix(now, input)
      BY <3>1, <3>2, PrefixesChain
    <3>5. Arrived(d, input)'
      BY <3>1, <3>2, <3>3, <3>4 DEF Arrived, now
    <3>6. Queued(d, input)'
      BY <2>1, <3>3 DEF Carries, Queued
    <3> QED
      BY <3>5, <3>6 DEF Carries
  <2> QED
    BY <1>1, <2>1, CarriedOn
<1> QED
  BY <1>2 DEF Carried

LEMMA SentArrives ==
    ASSUME PipeTyped, NEW c \in Clients, NEW input \in Seq(Writes), Arrived(c, input),
           task[c].sent + 1 \in 0..Len(input), task[c].sent \in Nat,
           input[task[c].sent + 1] \in Writes,
           UNCHANGED <<ends, read>>, task'[c].sent = task[c].sent + 1,
           Taken' = Append(Taken, Chunk(c, input[task[c].sent + 1]))
    PROVE  Arrived(c, input)'
<1> DEFINE m == task[c].sent
           old == From(c, Taken)
           new == From(c, Append(Taken, Chunk(c, input[m + 1])))
<1>1. From(c, read') = From(c, read) /\ child' = child /\ task'[c].sent = m + 1
  BY DEF ends
<1>2. Len(From(c, read)) <= m + 1
  <2>1. From(c, read) \in Seq(Writes)
    BY FromElements DEF PipeTyped, Chunks
  <2>2. Len(From(c, read)) \in Nat
    BY <2>1, LenProperties
  <2> QED
    BY <2>2 DEF Arrived
<1>3. ASSUME child PROVE IsPrefix(new, input) /\ Len(new) = m + 1
  <2>1. IsPrefix(old, input) /\ Len(old) = m
    BY <1>3 DEF Arrived
  <2>2. old \in Seq(Writes)
    BY TakenTyped, FromElements DEF Chunks
  <2>3. /\ Len(new) = Len(old) + 1 /\ new[Len(old) + 1] = input[m + 1]
        /\ \A i \in 1..Len(old) : new[i] = old[i]
    BY TakenTyped, FromAppended DEF Chunks
  <2>4. new \in Seq(Writes)
    <3>1. Append(Taken, Chunk(c, input[m + 1])) \in Seq(ChunksOf(Writes))
      <4>1. Chunk(c, input[m + 1]) \in Chunks
        BY DEF Chunk, Chunks, ChunksOf
      <4> QED
        BY <4>1, TakenTyped, AppendProperties DEF Chunks
    <3> QED
      BY <3>1, FromElements
  <2>5. Len(input) \in Nat
    BY LenProperties
  <2> HIDE DEF old, new
  <2>6. \A i \in 1..m : old[i] = input[i]
    BY <2>1, <2>2, PrefixElements
  <2>7. ASSUME NEW i \in 1..Len(new) PROVE new[i] = input[i]
    <3>1. i \in 1..m \/ i = m + 1
      BY <2>1, <2>3
    <3>2. CASE i \in 1..m
      BY <2>1, <2>3, <2>6, <3>2
    <3>3. CASE i = m + 1
      BY <2>1, <2>3, <3>3
    <3> QED
      BY <3>1, <3>2, <3>3
  <2>8. Len(new) = m + 1 /\ Len(new) <= Len(input)
    BY <2>1, <2>3
  <2>9. IsPrefix(new, input)
    BY <2>4, <2>7, <2>8, PrefixElements
  <2> QED
    BY <2>8, <2>9
<1>4. From(c, Taken') = new
  OBVIOUS
<1> HIDE DEF new
<1> QED
  BY <1>1, <1>2, <1>3, <1>4 DEF Arrived

LEMMA CarriedStep ==
    ASSUME Shaped, Lined, AtWork, Fresh, Typed, Modal, Sized, PipeTyped, Carried, Next
    PROVE  Carried'
<1> USE DEF Shaped, peers, pipe, ends, screen, history
<1>1. ASSUME NEW c \in Clients, Examples(c) PROVE Carried'
  <2>1. PipeQuiet /\ \A d \in Clients : Quiet(d)
    BY <1>1 DEF Shaped, PipeQuiet, Quiet, Command, Writing, Examples, Exit
  <2> QED
    BY <2>1, QuietCarried
<1>2. ASSUME NEW c \in Clients, Decide(c) PROVE Carried'
  <2>1. /\ UNCHANGED <<version, ends, pipe, screen, history>>
        /\ \/ Turn(c, "probing") /\ task' = task
           \/ Exit(c, GenericError) /\ task' = task
           \/ Turn(c, "waiting") /\ task' = [task EXCEPT ![c].pc = "gate"]
    BY <1>2, DecideCases
  <2>2. PipeQuiet /\ \A d \in Clients : Quiet(d)
    BY <2>1 DEF Shaped, PipeQuiet, Quiet, Writing, Turn, Exit
  <2> QED
    BY <2>2, QuietCarried
<1>3. ASSUME NEW c \in Clients, ProbeAnswered(c) PROVE Carried'
  <2>1. PipeQuiet /\ \A d \in Clients : Quiet(d)
    BY <1>3 DEF Shaped, PipeQuiet, Quiet, Command, Writing, ProbeAnswered
  <2> QED
    BY <2>1, QuietCarried
<1>4. ASSUME NEW c \in Clients, Receive(c) PROVE Carried'
  <2>1. PipeQuiet /\ \A d \in Clients : Quiet(d)
    BY <1>4 DEF Shaped, PipeQuiet, Quiet, Command, Writing, Receive
  <2> QED
    BY <2>1, QuietCarried
<1>5. ASSUME NEW c \in Clients, TimeOut(c) PROVE Carried'
  <2>1. PipeQuiet /\ \A d \in Clients : Quiet(d)
    BY <1>5 DEF Shaped, PipeQuiet, Quiet, Command, Writing, TimeOut, Exit
  <2> QED
    BY <2>1, QuietCarried
<1>6. ASSUME NEW c \in Clients, Gate(c) PROVE Carried'
  <2>1. PipeQuiet /\ \A d \in Clients : d # c => Quiet(d)
    BY <1>6 DEF Shaped, PipeQuiet, Quiet, Gate, Finish, GoOn, Done, Modal
  <2>2. \A d \in Clients : d # c => \E input \in InputsFor(d)' : Carries(d, input)'
    BY <2>1, QuietCarries
  <2>3. /\ task[c].sent = 0 /\ task'[c].sent = 0 /\ modes'[c] = {cursorMode} /\ client' = client
        /\ task'[c].pc = "resolve" \/ (task'[c].pc = "done" /\ task'[c].answer.kind # "ok")
    BY <1>6, UnderstoodIs DEF Shaped, Fresh, Modal, Gate, Finish, GoOn, Done, Answer
  <2>9. PICK input : input = InputFor(c, cursorMode, FirstSize)
    OBVIOUS
  <2>4. input \in InputsFor(c)'
    BY <2>1, <2>3, <2>9 DEF InputsFor, InputFor, Asked, Sizes
  <2>5. input \in Seq(Writes) /\ Len(input) \in Nat
    <3>1. cursorMode \in BOOLEAN /\ FirstSize \in Sizes
      BY DEF Typed, Sizes
    <3> QED
      BY <2>9, <3>1, LinesTyped
  <2>6. PICK old \in InputsFor(c) : Carries(c, old)
    BY DEF Carried
  <2>7. Arrived(c, input)
    BY <2>3, <2>5, <2>6, NothingArrived DEF Carries
  <2>8. Carries(c, input)'
    BY <2>1, <2>3, <2>5, <2>7, FreshCarries
  <2> QED
    BY <2>2, <2>4, <2>8 DEF Carried
<1>7. ASSUME NEW c \in Clients, OlderDaemonAnswers(c) PROVE Carried'
  <2>1. PipeQuiet /\ \A d \in Clients : Quiet(d)
    BY <1>7 DEF Shaped, PipeQuiet, Quiet, Command, Writing, OlderDaemonAnswers
  <2> QED
    BY <2>1, QuietCarried
<1>8. ASSUME NEW c \in Clients, Resolve(c) PROVE Carried'
  <2>1. PipeQuiet /\ \A d \in Clients : d # c => Quiet(d)
    BY <1>8 DEF Shaped, PipeQuiet, Quiet, Resolve, Finish, GoOn, Encoded, Done
  <2>2. \A d \in Clients : d # c => \E input \in InputsFor(d)' : Carries(d, input)'
    BY <2>1, QuietCarries
  <2>3. UNCHANGED <<peers, ends, pipe, screen, history>> /\ task[c].pc = "resolve"
    BY <1>8 DEF Resolve
  <2>4. CASE session # "live"
    <3>1. Finish(c, Answer(Unresolved))
      BY <1>8, <2>4 DEF Resolve
    <3>2. Quiet(c)
      BY <2>3, <3>1, UnderstoodIs DEF Shaped, Quiet, Finish, Done, Answer, Unresolved
    <3> QED
      BY <2>1, <2>2, <3>2, QuietCarries DEF Carried
  <2>5. CASE session = "live" /\ Command(c).op \notin {"type", "click"}
    <3>1. GoOn(c, IF Command(c).op \in {"key", "scroll"} THEN "look" ELSE Command(c).op)
          /\ Command(c).op \in InputOps \cup {"resize", "kill"}
      BY <1>8, <2>5 DEF Resolve
    <3>2. Quiet(c)
      BY <2>3, <2>5, <3>1 DEF Shaped, Quiet, GoOn, InputOps, Writing
    <3> QED
      BY <2>1, <2>2, <3>2, QuietCarries DEF Carried
  <2>6. CASE session = "live" /\ Command(c).op \in {"type", "click"}
    <3>1. Encoded(c, InputOf(Command(c), FALSE, Nowhere))
      BY <1>8, <2>6 DEF Resolve
    <3>2. \A input \in InputsFor(c) : input = InputOf(Command(c), FALSE, Nowhere)
      BY <2>6, TypeClickInput
    <3>3. PICK input \in InputsFor(c) : Carries(c, input)
      BY DEF Carried
    <3>4. input \in Seq(Writes) /\ input \in InputsFor(c)'
      BY <2>3, InputsTyped, InputsKept
    <3>5. /\ task[c].sent = 0 /\ task'[c].sent = 0
          /\ task'[c].pc = "write" /\ task'[c].left = input
      BY <2>3, <3>1, <3>2 DEF Shaped, Fresh, Encoded
    <3>6. Carries(c, input)'
      BY <2>1, <3>3, <3>4, <3>5, BegunCarries DEF Carries
    <3> QED
      BY <2>2, <3>4, <3>6 DEF Carried
  <2> QED
    BY <2>4, <2>5, <2>6
<1>9. ASSUME NEW c \in Clients, Report(c) PROVE Carried'
  <2>1. UNCHANGED <<peers, ends, pipe, screen, history>> /\ Command(c).op \notin InputOps
    BY <1>9 DEF Report, InputOps
  <2>2. PICK answer : Finish(c, answer)
    BY <1>9, ReportCases
  <2>3. PipeQuiet /\ \A d \in Clients : Quiet(d)
    BY <2>1, <2>2 DEF Shaped, PipeQuiet, Quiet, Finish, Done
  <2> QED
    BY <2>3, QuietCarried
<1>10. ASSUME NEW c \in Clients, Look(c) PROVE Carried'
  <2>1. PipeQuiet /\ \A d \in Clients : d # c => Quiet(d)
    BY <1>10 DEF Shaped, PipeQuiet, Quiet, Look, Finish, Encoded, Done
  <2>2. \A d \in Clients : d # c => \E input \in InputsFor(d)' : Carries(d, input)'
    BY <2>1, QuietCarries
  <2>3. /\ UNCHANGED <<peers, ends, pipe, screen, history>> /\ task[c].pc = "look"
        /\ Command(c).op \in {"key", "scroll"}
    BY <1>10 DEF Look, AtWork
  <2> DEFINE there == session = "live"
             input == InputOf(Command(c), there /\ cursorMode, IF there THEN Middle(sizes.emulator) ELSE Nowhere)
  <2>4. \/ Finish(c, Answer("invalid"))
        \/ Encoded(c, input) /\ (Command(c).op = "key" => input # <<>>)
    BY <1>10 DEF Look, Invalid
  <2>5. CASE Finish(c, Answer("invalid"))
    <3>1. Quiet(c)
      BY <2>3, <2>5, UnderstoodIs DEF Shaped, Quiet, Finish, Done, Answer
    <3> QED
      BY <2>1, <2>2, <3>1, QuietCarries DEF Carried
  <2>6. CASE Encoded(c, input) /\ (Command(c).op = "key" => input # <<>>)
    <3>1. /\ task[c].sent = 0 /\ task'[c].sent = 0
          /\ task'[c].pc = "write" /\ task'[c].left = input
      BY <2>3, <2>6 DEF Shaped, Fresh, Encoded
    <3>2. PICK old \in InputsFor(c) : Carries(c, old)
      BY DEF Carried
    <3>3. \A new \in InputsFor(c) : new \in Seq(Writes) /\ Arrived(c, new) /\ new \in InputsFor(c)'
      BY <2>3, <3>1, <3>2, InputsTyped, InputsKept, NothingArrived DEF Carries
    <3>4. CASE \E new \in InputsFor(c) : new = input
      <4>1. PICK new \in InputsFor(c) : new = input
        BY <3>4
      <4>2. Carries(c, new)'
        BY <2>1, <3>1, <3>3, <4>1, BegunCarries
      <4> QED
        BY <2>2, <3>3, <4>2 DEF Carried
    <3>5. CASE session # "live" /\ input # <<>>
      <4>1. Carries(c, old)'
        BY <2>1, <2>3, <3>1, <3>2, <3>3, <3>5, DeadCarries
      <4> QED
        BY <2>2, <3>3, <4>1 DEF Carried
    <3>6. session = "live" => \E new \in InputsFor(c) : new = input
      BY <2>3, LookedInput
    <3>7. Command(c).op = "scroll" => \E new \in InputsFor(c) : new = input
      BY <2>3, LookedInput
    <3> QED
      BY <2>3, <2>6, <3>4, <3>5, <3>6, <3>7
  <2> QED
    BY <2>4, <2>5, <2>6
<1>11. ASSUME NEW c \in Clients, Write(c) PROVE Carried'
  <2>1. PipeQuiet /\ \A d \in Clients : d # c => Quiet(d)
    BY <1>11 DEF Shaped, PipeQuiet, Quiet, Write, Finish, GoOn, Done
  <2>2. \A d \in Clients : d # c => \E input \in InputsFor(d)' : Carries(d, input)'
    BY <2>1, QuietCarries
  <2>3. UNCHANGED <<peers, ends, pipe, screen, history>> /\ task[c].pc = "write"
    BY <1>11 DEF Write
  <2>4. PICK input \in InputsFor(c) : Carries(c, input)
    BY DEF Carried
  <2>5. input \in Seq(Writes) /\ input \in InputsFor(c)' /\ Arrived(c, input)'
    <3>1. task'[c].sent = task[c].sent /\ client' = client /\ modes' = modes
      BY <1>11 DEF Shaped, Write, Finish, GoOn, Done
    <3>2. Arrived(c, input)
      BY <2>4 DEF Carries
    <3> QED
      BY <2>1, <2>4, <3>1, <3>2, InputsTyped, InputsKept, StillArrived
  <2>6. CASE task[c].left = <<>>
    <3>1. Finish(c, Answer("ok"))
      BY <1>11, <2>6 DEF Write
    <3>2. task[c].left = Skip(input, task[c].sent) /\ task[c].sent \in 0..Len(input)
      BY <2>3, <2>4, <2>6 DEF Carries, Queued, Writing
    <3>3. task[c].sent = Len(input)
      BY <2>5, <2>6, <3>2, NothingLeft
    <3>4. task'[c].pc = "done" /\ task'[c].sent = task[c].sent
      BY <3>1 DEF Shaped, Finish, Done
    <3>5. Queued(c, input)'
      BY <3>2, <3>3, <3>4 DEF Queued, Writing
    <3> QED
      BY <2>2, <2>5, <3>5 DEF Carried, Carries
  <2>7. CASE task[c].left # <<>> /\ session # "live"
    <3>1. Finish(c, Answer("notFound"))
      BY <1>11, <2>7 DEF Write
    <3>2. Quiet(c)
      BY <2>3, <3>1, UnderstoodIs DEF Shaped, Quiet, Finish, Done, Answer
    <3> QED
      BY <2>1, <2>2, <3>2, QuietCarries DEF Carried
  <2>8. CASE task[c].left # <<>> /\ session = "live"
    <3>1. GoOn(c, "send")
      BY <1>11, <2>8 DEF Write
    <3>2. task[c].left = Skip(input, task[c].sent) /\ task[c].sent \in 0..Len(input)
      BY <2>3, <2>4, <2>8 DEF Carries, Queued, Writing
    <3>3. task'[c].pc = "send" /\ task'[c].sent = task[c].sent /\ task'[c].left = task[c].left
      BY <3>1 DEF Shaped, GoOn
    <3>4. Queued(c, input)'
      BY <3>2, <3>3 DEF Queued, Writing
    <3> QED
      BY <2>2, <2>5, <3>4 DEF Carried, Carries
  <2> QED
    BY <2>6, <2>7, <2>8
<1>12. ASSUME NEW c \in Clients, Send(c) PROVE Carried'
  <2>1. /\ UNCHANGED <<peers, ends, writer, read, screen, history>> /\ task[c].pc = "send"
        /\ channel' = Append(channel, Chunk(c, Head(task[c].left)))
    BY <1>12 DEF Send
  <2>2. /\ task'[c].pc \in {"delay", "write"} /\ task'[c].left = Tail(task[c].left)
        /\ task'[c].sent = task[c].sent + 1
        /\ \A d \in Clients : d # c => task'[d] = task[d]
    BY <1>12 DEF Shaped, Send
  <2>3. PICK input \in InputsFor(c) : Carries(c, input)
    BY DEF Carried
  <2>4. input \in Seq(Writes) /\ input \in InputsFor(c)' /\ Len(input) \in Nat
    BY <2>1, InputsTyped, InputsKept
  <2>5. /\ task[c].left = Skip(input, task[c].sent) /\ task[c].sent \in 0..Len(input)
        /\ task[c].left # <<>>
    BY <2>1, <2>3 DEF Carries, Queued, Writing, Typed, TaskTyped
  <2>6. /\ task[c].sent + 1 \in 0..Len(input) /\ Head(task[c].left) = input[task[c].sent + 1]
        /\ input[task[c].sent + 1] \in Writes
        /\ Tail(task[c].left) = Skip(input, task[c].sent + 1)
    BY <2>4, <2>5, OneSent
  <2>7. Queued(c, input)'
    BY <2>2, <2>6 DEF Queued, Writing
  <2>8. Taken' = Append(Taken, Chunk(c, input[task[c].sent + 1]))
    <3>1. Chunk(c, input[task[c].sent + 1]) \in Chunks
      BY <2>6 DEF Chunk, Chunks, ChunksOf
    <3> QED
      BY <2>1, <2>6, <3>1, TakenAppended
  <2>9. Arrived(c, input)'
    <3>1. Arrived(c, input) /\ task[c].sent \in Nat
      BY <2>3, <2>4, <2>5 DEF Carries
    <3>2. UNCHANGED <<ends, read>> /\ task'[c].sent = task[c].sent + 1
      BY <2>1, <2>2
    <3> QED
      BY <2>4, <2>6, <2>8, <3>1, <3>2, SentArrives
  <2>10. ASSUME NEW d \in Clients, d # c PROVE \E other \in InputsFor(d)' : Carries(d, other)'
    <3>1. PICK other \in InputsFor(d) : Carries(d, other)
      BY DEF Carried
    <3>2. other \in InputsFor(d)'
      BY <2>1, InputsKept
    <3>3. From(d, Taken') = From(d, Taken) /\ From(d, read') = From(d, read)
      <4>1. From(d, Append(Taken, Chunk(c, input[task[c].sent + 1]))) = From(d, Taken)
        BY <2>6, <2>10, TakenTyped, FromAppended DEF Chunks
      <4> QED
        BY <2>1, <2>8, <4>1
    <3>4. task'[d] = task[d]
      BY <2>2, <2>10
    <3>5. Arrived(d, other)'
      BY <2>1, <3>1, <3>3, <3>4 DEF Carries, Arrived
    <3>6. Queued(d, other)'
      BY <2>1, <3>1, <3>4 DEF Carries, Queued
    <3> QED
      BY <3>2, <3>5, <3>6 DEF Carries
  <2> QED
    BY <2>4, <2>7, <2>9, <2>10 DEF Carried, Carries
<1>13. ASSUME NEW c \in Clients, DelayOver(c) PROVE Carried'
  <2>1. PipeQuiet /\ \A d \in Clients : d # c => Quiet(d)
    BY <1>13 DEF Shaped, PipeQuiet, Quiet, DelayOver, GoOn
  <2>2. \A d \in Clients : d # c => \E input \in InputsFor(d)' : Carries(d, input)'
    BY <2>1, QuietCarries
  <2>3. UNCHANGED <<peers, ends, pipe, screen, history>> /\ task[c].pc = "delay"
    BY <1>13 DEF DelayOver
  <2>4. PICK input \in InputsFor(c) : Carries(c, input)
    BY DEF Carried
  <2>5. input \in InputsFor(c)' /\ Arrived(c, input)'
    <3>1. task'[c].sent = task[c].sent /\ client' = client /\ modes' = modes
      BY <1>13 DEF Shaped, DelayOver, GoOn
    <3>2. Arrived(c, input)
      BY <2>4 DEF Carries
    <3> QED
      BY <2>1, <2>4, <3>1, <3>2, InputsKept, StillArrived
  <2>6. task'[c].pc = "write" /\ task'[c].sent = task[c].sent /\ task'[c].left = task[c].left
    BY <1>13 DEF Shaped, DelayOver, GoOn
  <2>7. Queued(c, input)'
    BY <2>3, <2>4, <2>6 DEF Carries, Queued, Writing
  <2> QED
    BY <2>2, <2>5, <2>7 DEF Carried, Carries
<1>14. ASSUME NEW c \in Clients, SendRefused(c) PROVE Carried'
  <2>1. /\ PipeQuiet /\ client' = client /\ modes' = modes
        /\ Finish(c, Answer("failed"))
    BY <1>14 DEF PipeQuiet, SendRefused
  <2>2. \A d \in Clients : Quiet(d)
    BY <2>1, FinishedQuiet, WentOnQuiet DEF Writing
  <2> QED
    BY <2>1, <2>2, QuietCarried
<1>15. ASSUME NEW c \in Clients, ResizeTerminal(c) PROVE Carried'
  <2>1. /\ PipeQuiet /\ client' = client /\ modes' = modes
        /\ Finish(c, Answer("failed")) \/ Finish(c, Answer("notFound")) \/ GoOn(c, "emulate")
    BY <1>15 DEF PipeQuiet, ResizeTerminal
  <2>2. \A d \in Clients : Quiet(d)
    BY <2>1, FinishedQuiet, WentOnQuiet DEF Writing
  <2> QED
    BY <2>1, <2>2, QuietCarried
<1>16. ASSUME NEW c \in Clients, ResizeEmulator(c) PROVE Carried'
  <2>1. /\ PipeQuiet /\ client' = client /\ modes' = modes
        /\ Finish(c, Answer("ok")) /\ Command(c).op \notin InputOps
    BY <1>16 DEF PipeQuiet, AtWork, InputOps, ResizeEmulator
  <2>2. \A d \in Clients : Quiet(d)
    BY <2>1, FinishedQuiet, WentOnQuiet DEF Writing
  <2> QED
    BY <2>1, <2>2, QuietCarried
<1>17. ASSUME NEW c \in Clients, KillRemove(c) PROVE Carried'
  <2>1. /\ PipeQuiet /\ client' = client /\ modes' = modes
        /\ Finish(c, Answer("notFound")) \/ GoOn(c, "terminate")
    BY <1>17 DEF PipeQuiet, KillRemove
  <2>2. \A d \in Clients : Quiet(d)
    BY <2>1, FinishedQuiet, WentOnQuiet DEF Writing
  <2> QED
    BY <2>1, <2>2, QuietCarried
<1>18. ASSUME NEW c \in Clients, Terminate(c) PROVE Carried'
  <2>1. PipeQuiet /\ \A d \in Clients : Quiet(d)
    BY <1>18 DEF Shaped, PipeQuiet, Quiet, Command, Writing, Terminate, GoOn
  <2> QED
    BY <2>1, QuietCarried
<1>19. ASSUME NEW c \in Clients, KillBury(c) PROVE Carried'
  <2>1. /\ PipeQuiet /\ client' = client /\ modes' = modes
        /\ Finish(c, Answer("ok")) /\ Command(c).op \notin InputOps
    BY <1>19 DEF PipeQuiet, AtWork, InputOps, KillBury
  <2>2. \A d \in Clients : Quiet(d)
    BY <2>1, FinishedQuiet, WentOnQuiet DEF Writing
  <2> QED
    BY <2>1, <2>2, QuietCarried
<1>20. ASSUME WriterTakes PROVE Carried'
  <2>1. UNCHANGED <<peers, task, ends, read, screen, history>> /\ Taken' = Taken
    BY <1>20, TakenMoved
  <2> QED
    BY <2>1, MovedCarried
<1>21. ASSUME ProgramReads PROVE Carried'
  BY <1>21, ReadCarried
<1>22. ASSUME WriteAfterExit PROVE Carried'
  <2>1. UNCHANGED <<peers, task, ends, read, screen, history>> /\ ~child
    BY <1>22 DEF WriteAfterExit
  <2>2. ASSUME NEW d \in Clients, NEW input, Carries(d, input) PROVE Carries(d, input)'
    BY <2>1, <2>2 DEF Carries, Queued, Arrived, From
  <2> QED
    BY <2>1, <2>2, CarriedOn DEF Carried
<1>23. ASSUME ChildExits PROVE Carried'
  <2>1. PipeQuiet /\ \A d \in Clients : Quiet(d)
    BY <1>23 DEF Shaped, PipeQuiet, Quiet, Command, Writing, ChildExits
  <2> QED
    BY <2>1, QuietCarried
<1>24. ASSUME CleanerBuries PROVE Carried'
  <2>1. PipeQuiet /\ \A d \in Clients : Quiet(d)
    BY <1>24 DEF Shaped, PipeQuiet, Quiet, Command, Writing, CleanerBuries
  <2> QED
    BY <2>1, QuietCarried
<1>25. ASSUME ModeChanges PROVE Carried'
  <2>1. PipeQuiet /\ \A d \in Clients : Quiet(d)
    BY <1>25 DEF Shaped, PipeQuiet, Quiet, Command, Writing, ModeChanges
  <2> QED
    BY <2>1, QuietCarried
<1> HIDE DEF Shaped, peers, pipe, ends, screen, history
<1> QED
  BY <1>1, <1>2, <1>3, <1>4, <1>5, <1>6, <1>7, <1>8, <1>9, <1>10, <1>11, <1>12,
     <1>13, <1>14, <1>15, <1>16, <1>17, <1>18, <1>19, <1>20, <1>21, <1>22,
     <1>23, <1>24, <1>25 DEF Next, TaskStep
-----------------------------------------------------------------------------
(* The pipe itself.                                                         *)

\* What a task sends next is part of what its command asks for.
LEMMA SentIsWrite ==
    ASSUME Lined, Modal, Typed, Carried, NEW c \in Clients, task[c].pc = "send"
    PROVE  Chunk(c, Head(task[c].left)) \in Chunks
<1>1. PICK input \in InputsFor(c) : Carries(c, input)
  BY DEF Carried
<1>2. input \in Seq(Writes)
  BY InputsTyped
<1>3. /\ task[c].left = Skip(input, task[c].sent) /\ task[c].sent \in 0..Len(input)
      /\ task[c].left # <<>>
  BY <1>1 DEF Carries, Queued, Writing, Typed, TaskTyped
<1>4. Head(task[c].left) \in Writes
  BY <1>2, <1>3, OneSent
<1> QED
  BY <1>4 DEF Chunk, Chunks, ChunksOf

LEMMA PipeTypedStep ==
    ASSUME Shaped, Lined, Modal, Typed, PipeTyped, Carried, Next
    PROVE  PipeTyped'
<1> USE DEF PipeTyped, peers, pipe, ends, screen, history
<1>1. ASSUME NEW c \in Clients, Examples(c) PROVE PipeTyped'
  BY <1>1 DEF Examples, Exit
<1>2. ASSUME NEW c \in Clients, Decide(c) PROVE PipeTyped'
  BY <1>2 DEF Decide, Turn, Exit
<1>3. ASSUME NEW c \in Clients, ProbeAnswered(c) PROVE PipeTyped'
  BY <1>3 DEF ProbeAnswered
<1>4. ASSUME NEW c \in Clients, Receive(c) PROVE PipeTyped'
  BY <1>4 DEF Receive
<1>5. ASSUME NEW c \in Clients, TimeOut(c) PROVE PipeTyped'
  BY <1>5 DEF TimeOut, Exit
<1>6. ASSUME NEW c \in Clients, Gate(c) PROVE PipeTyped'
  BY <1>6 DEF Gate, Finish, GoOn, Done
<1>7. ASSUME NEW c \in Clients, OlderDaemonAnswers(c) PROVE PipeTyped'
  BY <1>7 DEF OlderDaemonAnswers
<1>8. ASSUME NEW c \in Clients, Resolve(c) PROVE PipeTyped'
  BY <1>8 DEF Resolve, Finish, GoOn, Encoded, Done
<1>9. ASSUME NEW c \in Clients, Report(c) PROVE PipeTyped'
  BY <1>9 DEF Report, Finish, Done
<1>10. ASSUME NEW c \in Clients, Look(c) PROVE PipeTyped'
  BY <1>10 DEF Look, Finish, Encoded, Done
<1>11. ASSUME NEW c \in Clients, Write(c) PROVE PipeTyped'
  BY <1>11 DEF Write, Finish, GoOn, Done
<1>12. ASSUME NEW c \in Clients, Send(c) PROVE PipeTyped'
  <2>1. /\ UNCHANGED <<writer, read>> /\ writer.runs /\ Len(channel) < ChannelCap
        /\ channel' = Append(channel, Chunk(c, Head(task[c].left))) /\ task[c].pc = "send"
    BY <1>12 DEF Send
  <2> DEFINE chunk == Chunk(c, Head(task[c].left))
  <2>2. chunk \in Chunks
    BY <2>1, SentIsWrite
  <2> HIDE DEF chunk
  <2>3. channel' = Append(channel, chunk)
    BY <2>1 DEF chunk
  <2>4. channel' \in Seq(Chunks) /\ Len(channel') = Len(channel) + 1 /\ Len(channel) \in Nat
    BY <2>2, <2>3, AppendProperties, LenProperties
  <2>5. Len(channel') <= ChannelCap
    BY <2>1, <2>4, RequestsAssumption
  <2> QED
    BY <2>1, <2>4, <2>5
<1>13. ASSUME NEW c \in Clients, DelayOver(c) PROVE PipeTyped'
  BY <1>13 DEF DelayOver, GoOn
<1>14. ASSUME NEW c \in Clients, SendRefused(c) PROVE PipeTyped'
  BY <1>14 DEF SendRefused, Finish, Done
<1>15. ASSUME NEW c \in Clients, ResizeTerminal(c) PROVE PipeTyped'
  BY <1>15 DEF ResizeTerminal, Finish, GoOn, Done
<1>16. ASSUME NEW c \in Clients, ResizeEmulator(c) PROVE PipeTyped'
  BY <1>16 DEF ResizeEmulator, Finish, Done
<1>17. ASSUME NEW c \in Clients, KillRemove(c) PROVE PipeTyped'
  BY <1>17 DEF KillRemove, Finish, GoOn, Done
<1>18. ASSUME NEW c \in Clients, Terminate(c) PROVE PipeTyped'
  BY <1>18 DEF Terminate, GoOn
<1>19. ASSUME NEW c \in Clients, KillBury(c) PROVE PipeTyped'
  BY <1>19 DEF KillBury, Finish, Done
<1>20. ASSUME WriterTakes PROVE PipeTyped'
  <2>1. /\ channel # <<>> /\ read' = read /\ writer.runs
        /\ writer' = [writer EXCEPT !.hand = <<Head(channel)>>] /\ channel' = Tail(channel)
    BY <1>20 DEF WriterTakes
  <2>2. Head(channel) \in Chunks /\ Tail(channel) \in Seq(Chunks) /\ Len(Tail(channel)) = Len(channel) - 1
    BY <2>1, HeadTailProperties
  <2>3. Len(channel) \in Nat
    BY LenProperties
  <2>4. channel' \in Seq(Chunks) /\ Len(channel') <= ChannelCap
    BY <2>1, <2>2, <2>3, RequestsAssumption
  <2>5. writer'.runs /\ writer'.runs \in BOOLEAN /\ DOMAIN writer' = {"runs", "hand"} /\ writer'.hand \in Seq(Chunks)
    <3>1. <<Head(channel)>> \in Seq(Chunks)
      BY <2>2
    <3>2. writer'.hand = <<Head(channel)>> /\ writer'.runs = writer.runs /\ DOMAIN writer' = {"runs", "hand"}
      BY <2>1
    <3> QED
      BY <2>1, <3>1, <3>2
  <2> QED
    BY <2>1, <2>4, <2>5
<1>21. ASSUME ProgramReads PROVE PipeTyped'
  <2>1. /\ writer.hand # <<>> /\ channel' = channel /\ read' = read \o writer.hand
        /\ writer' = [writer EXCEPT !.hand = <<>>]
    BY <1>21 DEF ProgramReads
  <2>2. read' \in Seq(Chunks)
    BY <2>1, ConcatProperties
  <2>3. /\ writer'.runs = writer.runs /\ writer'.hand = <<>> /\ DOMAIN writer' = {"runs", "hand"}
        /\ writer'.hand \in Seq(Chunks)
    BY <2>1, EmptySeq
  <2> QED
    BY <2>1, <2>2, <2>3
<1>22. ASSUME WriteAfterExit PROVE PipeTyped'
  <2>1. PICK fails \in BOOLEAN : /\ writer' = [runs |-> ~fails, hand |-> <<>>]
                               /\ channel' = IF fails THEN <<>> ELSE channel
    BY <1>22 DEF WriteAfterExit
  <2>2. read' = read
    BY <1>22 DEF WriteAfterExit
  <2>3. /\ writer'.runs = ~fails /\ writer'.hand = <<>> /\ DOMAIN writer' = {"runs", "hand"}
        /\ writer'.hand \in Seq(Chunks)
    BY <2>1, EmptySeq
  <2>4. <<>> \in Seq(Chunks) /\ Len(<<>>) <= ChannelCap
    BY EmptySeq, RequestsAssumption
  <2>5. CASE fails
    BY <2>1, <2>2, <2>3, <2>4, <2>5
  <2>6. CASE ~fails
    BY <2>1, <2>2, <2>3, <2>6
  <2> QED
    BY <2>5, <2>6
<1>23. ASSUME ChildExits PROVE PipeTyped'
  BY <1>23 DEF ChildExits
<1>24. ASSUME CleanerBuries PROVE PipeTyped'
  BY <1>24 DEF CleanerBuries
<1>25. ASSUME ModeChanges PROVE PipeTyped'
  BY <1>25 DEF ModeChanges
<1> HIDE DEF PipeTyped, peers, pipe, ends, screen, history
<1> QED
  BY <1>1, <1>2, <1>3, <1>4, <1>5, <1>6, <1>7, <1>8, <1>9, <1>10, <1>11, <1>12,
     <1>13, <1>14, <1>15, <1>16, <1>17, <1>18, <1>19, <1>20, <1>21, <1>22,
     <1>23, <1>24, <1>25 DEF Next, TaskStep
-----------------------------------------------------------------------------
(* All of it together.                                                      *)

CInv ==
    /\ RInv /\ version \in Peers
    /\ Lined /\ AtWork /\ Over /\ Answered /\ Told
    /\ Typed /\ Modal /\ Sized /\ PipeTyped /\ Carried

LEMMA CInit == Init => CInv
<1> SUFFICES ASSUME Init PROVE CInv
  OBVIOUS
<1>1. ASSUME NEW c \in Clients
      PROVE  /\ client[c].line \in LinesOf[c] /\ client[c] = Called(client[c].line)
             /\ task[c] = Idle /\ modes[c] = {FALSE}
  <2>1. \E l : client[c] = Called(l)
    BY DEF Init
  <2>2. client[c] = Called(client[c].line)
    BY <2>1 DEF Called
  <2> QED
    BY <2>2 DEF Init
<1>2. ASSUME NEW c \in Clients
      PROVE  /\ client[c].pc = "start" /\ client[c].command = CliToCommand(client[c].line)
             /\ client[c].got = "none" /\ client[c].code = Unknown
             /\ task[c].pc = "none" /\ task[c].sent = 0 /\ task[c].answer = Nothing
  <2>1. PICK l : client[c] = Called(l)
    BY DEF Init
  <2>2. client[c].line = l
    BY <2>1 DEF Called
  <2>3. /\ client[c].pc = "start" /\ client[c].command = CliToCommand(l)
        /\ client[c].got = "none" /\ client[c].code = Unknown
    BY <2>1 DEF Called
  <2>4. task[c].pc = "none" /\ task[c].sent = 0 /\ task[c].answer = Nothing
    <3>1. task[c] = [pc |-> "none", left |-> <<>>, sent |-> 0, answer |-> Nothing]
      BY <1>1 DEF Idle
    <3> QED
      BY <3>1
  <2> QED
    BY <2>2, <2>3, <2>4
<1>3. RInv /\ version \in Peers
  BY RInit DEF Init
<1>4. Lined /\ AtWork
  BY <1>1, <1>2 DEF Lined, AtWork, Writing
<1>5. Over /\ Answered /\ Told
  BY <1>2 DEF Init, Over, Answered, Told
<1>6. Typed
  BY <1>2 DEF Init, Typed, ClientTyped, TaskTyped
<1>7. Modal
  BY <1>1, <1>2 DEF Init, Modal
<1>8. Sized
  BY DEF Init, Sized, Sizes
<1>9. PipeTyped
  <2>1. <<>> \in Seq(Chunks) /\ Len(<<>>) <= ChannelCap
    BY EmptySeq, RequestsAssumption
  <2> QED
    BY <2>1 DEF Init, PipeTyped
<1>10. Carried
  <2>1. ASSUME NEW c \in Clients PROVE \E input \in InputsFor(c) : Carries(c, input)
    <3>1. FALSE \in modes[c] /\ FirstSize \in Sizes
      BY <1>1 DEF Sizes
    <3>2. PICK input : input = InputFor(c, FALSE, FirstSize)
      OBVIOUS
    <3>3. input \in InputsFor(c) /\ input \in Seq(Writes) /\ Len(input) \in Nat
      <4>1. FALSE \in BOOLEAN
        OBVIOUS
      <4>2. input \in InputsFor(c)
        <5>1. PICK mode \in modes[c] : mode = FALSE
          BY <3>1
        <5>2. input = InputFor(c, mode, FirstSize)
          BY <3>2, <5>1
        <5> QED
          BY <3>1, <5>2 DEF InputsFor
      <4>3. InputFor(c, FALSE, FirstSize) \in Seq(Writes) /\ Len(InputFor(c, FALSE, FirstSize)) \in Nat
        BY <1>4, <3>1, <4>1, LinesTyped
      <4> QED
        BY <3>2, <4>2, <4>3
    <3>4. read = <<>> /\ Taken = <<>>
      <4>1. read = <<>> /\ writer.hand = <<>> /\ channel = <<>>
        BY DEF Init
      <4>2. <<>> \o <<>> \o <<>> = <<>>
        OBVIOUS
      <4> QED
        BY <4>1, <4>2 DEF Taken
    <3>5. From(c, <<>>) \in Seq(Writes) /\ Len(From(c, <<>>)) = 0
      <4>1. <<>> \in Seq(ChunksOf(Writes))
        BY EmptySeq
      <4>2. PlacesOf(c, <<>>) = {}
        BY DEF PlacesOf
      <4>3. From(c, <<>>) \in Seq(Writes) /\ Len(From(c, <<>>)) = Cardinality(PlacesOf(c, <<>>))
        BY <4>1, FromElements
      <4>4. Cardinality({}) = 0
        BY FS_EmptySet
      <4> QED
        BY <4>2, <4>3, <4>4
    <3>6. IsPrefix(From(c, <<>>), input)
      <4>1. Len(From(c, <<>>)) <= Len(input) /\ \A i \in 1..Len(From(c, <<>>)) : From(c, <<>>)[i] = input[i]
        BY <3>3, <3>5
      <4> QED
        BY <3>3, <3>5, <4>1, PrefixElements
    <3>7. Arrived(c, input)
      BY <1>2, <3>4, <3>5, <3>6 DEF Arrived
    <3>8. Queued(c, input)
      BY <1>2, <3>3 DEF Queued, Writing
    <3> QED
      BY <3>3, <3>7, <3>8 DEF Carries
  <2> QED
    BY <2>1 DEF Carried
<1> QED
  BY <1>3, <1>4, <1>5, <1>6, <1>7, <1>8, <1>9, <1>10 DEF CInv

LEMMA PeersKept ==
    ASSUME Next
    PROVE  version' = version
<1> USE DEF peers, pipe, ends, screen, history
<1>1. ASSUME NEW c \in Clients, Examples(c) PROVE version' = version
  BY <1>1 DEF Examples, Exit
<1>2. ASSUME NEW c \in Clients, Decide(c) PROVE version' = version
  BY <1>2, DecideCases
<1>3. ASSUME NEW c \in Clients, ProbeAnswered(c) PROVE version' = version
  BY <1>3 DEF ProbeAnswered
<1>4. ASSUME NEW c \in Clients, Receive(c) PROVE version' = version
  BY <1>4 DEF Receive
<1>5. ASSUME NEW c \in Clients, TimeOut(c) PROVE version' = version
  BY <1>5 DEF TimeOut, Exit
<1>6. ASSUME NEW c \in Clients, Gate(c) PROVE version' = version
  BY <1>6 DEF Gate, Finish, GoOn, Done
<1>7. ASSUME NEW c \in Clients, OlderDaemonAnswers(c) PROVE version' = version
  BY <1>7 DEF OlderDaemonAnswers
<1>8. ASSUME NEW c \in Clients, Resolve(c) PROVE version' = version
  BY <1>8 DEF Resolve, Finish, GoOn, Encoded, Done
<1>9. ASSUME NEW c \in Clients, Report(c) PROVE version' = version
  BY <1>9 DEF Report, Finish, Done
<1>10. ASSUME NEW c \in Clients, Look(c) PROVE version' = version
  BY <1>10 DEF Look, Finish, Encoded, Done
<1>11. ASSUME NEW c \in Clients, Write(c) PROVE version' = version
  BY <1>11 DEF Write, Finish, GoOn, Done
<1>12. ASSUME NEW c \in Clients, Send(c) PROVE version' = version
  BY <1>12 DEF Send
<1>13. ASSUME NEW c \in Clients, DelayOver(c) PROVE version' = version
  BY <1>13 DEF DelayOver, GoOn
<1>14. ASSUME NEW c \in Clients, SendRefused(c) PROVE version' = version
  BY <1>14 DEF SendRefused, Finish, Done
<1>15. ASSUME NEW c \in Clients, ResizeTerminal(c) PROVE version' = version
  BY <1>15 DEF ResizeTerminal, Finish, GoOn, Done
<1>16. ASSUME NEW c \in Clients, ResizeEmulator(c) PROVE version' = version
  BY <1>16 DEF ResizeEmulator, Finish, Done
<1>17. ASSUME NEW c \in Clients, KillRemove(c) PROVE version' = version
  BY <1>17 DEF KillRemove, Finish, GoOn, Done
<1>18. ASSUME NEW c \in Clients, Terminate(c) PROVE version' = version
  BY <1>18 DEF Terminate, GoOn
<1>19. ASSUME NEW c \in Clients, KillBury(c) PROVE version' = version
  BY <1>19 DEF KillBury, Finish, Done
<1>20. ASSUME WriterTakes PROVE version' = version
  BY <1>20 DEF WriterTakes
<1>21. ASSUME ProgramReads PROVE version' = version
  BY <1>21 DEF ProgramReads
<1>22. ASSUME WriteAfterExit PROVE version' = version
  BY <1>22 DEF WriteAfterExit
<1>23. ASSUME ChildExits PROVE version' = version
  BY <1>23 DEF ChildExits
<1>24. ASSUME CleanerBuries PROVE version' = version
  BY <1>24 DEF CleanerBuries
<1>25. ASSUME ModeChanges PROVE version' = version
  BY <1>25 DEF ModeChanges
<1> HIDE DEF peers, pipe, ends, screen, history
<1> QED
  BY <1>1, <1>2, <1>3, <1>4, <1>5, <1>6, <1>7, <1>8, <1>9, <1>10, <1>11, <1>12,
     <1>13, <1>14, <1>15, <1>16, <1>17, <1>18, <1>19, <1>20, <1>21, <1>22,
     <1>23, <1>24, <1>25 DEF Next, TaskStep

LEMMA CNext == ASSUME CInv, [Next]_vars PROVE CInv'
<1>1. RInv'
  BY RNext DEF CInv
<1>2. CASE Next
  <2>1. Shaped /\ Fresh /\ Observed
    BY DEF CInv, RInv
  <2>2. version' \in Peers
    BY <1>2, PeersKept DEF CInv
  <2>3. Lined' /\ AtWork' /\ Over' /\ Answered' /\ Told'
    BY <1>2, <2>1, LinedStep, AtWorkStep, OverStep, AnsweredStep, ToldStep DEF CInv
  <2>4. Typed' /\ Modal' /\ Sized'
    BY <1>2, <2>1, TypedStep, ModalStep, SizedStep DEF CInv
  <2>5. PipeTyped' /\ Carried'
    BY <1>2, <2>1, PipeTypedStep, CarriedStep DEF CInv
  <2> QED
    BY <1>1, <2>2, <2>3, <2>4, <2>5 DEF CInv
<1>3. CASE UNCHANGED vars
  <2>1. UNCHANGED <<version, client, task, session, child, stopping, channel, writer, read, cursorMode, sizes, modes, raced>>
    BY <1>3 DEF vars, peers, pipe, ends, screen, history
  <2>2. version' \in Peers /\ Lined' /\ AtWork' /\ Over'
    BY <2>1 DEF CInv, Lined, AtWork, Command, Over
  <2>3. Answered' /\ Told'
    BY <2>1 DEF CInv, Answered, Fits, Command, Told, ExitCode
  <2>4. Typed' /\ Modal' /\ Sized' /\ PipeTyped'
    BY <2>1 DEF CInv, Typed, ClientTyped, TaskTyped, Modal, Sized, PipeTyped
  <2>5. Carried'
    <3>1. Taken' = Taken
      BY <2>1 DEF Taken
    <3> QED
      BY <2>1, <3>1, MovedCarried DEF CInv, peers, ends, screen, history
  <2> QED
    BY <1>1, <2>2, <2>3, <2>4, <2>5 DEF CInv
<1> QED
  BY <1>2, <1>3

\* What is known of each call, its task and its part of the pipe hangs together at
\* every step, for any clients, command lines, versions and limits.
THEOREM CallInvariance == Spec => []CInv
<1>1. CInv /\ [Next]_vars => CInv'
  BY CNext
<1> QED
  BY CInit, <1>1, PTL DEF Spec

\* What arrives from a request is what it asked for, in order, from the first key
\* on and without gaps or repeats, in a mode its screen had; all of what was
\* accepted, while the program runs: for any inputs of any number of clients
\* that share one channel of any capacity (handle_key, handle_type, the writer
\* thread).
THEOREM InputAlwaysWritten == Spec => []InputAsWritten
<1>1. ASSUME CInv PROVE InputAsWritten
  <2>1. TypeOK
    <3>1. ASSUME NEW c \in Clients
          PROVE  /\ client[c].pc \in {"start", "probing", "waiting", "exit"}
                 /\ client[c].line \in LinesOf[c]
                 /\ client[c].observed \in {Unknown, version.daemon}
                 /\ client[c].got \in Kinds \cup {"none"}
                 /\ client[c].code \in {Unknown, ExitSuccess, GenericError, Timing, Lifecycle}
                 /\ client[c].pc = "exit" <=> client[c].code # Unknown
      BY <1>1 DEF CInv, RInv, Observed, Lined, Typed, ClientTyped
    <3>2. ASSUME NEW c \in Clients
          PROVE  /\ task[c].pc \in {"none", "gate", "resolve", "look", "write", "send", "delay",
                                    "resize", "emulate", "kill", "terminate", "bury", "done"}
                 /\ task[c].pc = "done" <=> task[c].answer # Nothing
                 /\ task[c].pc = "send" => task[c].left # <<>>
      <4>1. TaskTyped(c)
        BY <1>1 DEF CInv, Typed
      <4>2. Nothing \notin Answers
        <5>1. Answers = [kind : Success \cup Failures, outcome : Outcomes]
          BY DEF Answers, Kinds
        <5> QED
          BY <5>1, RequestsAssumption
      <4> QED
        BY <4>1, <4>2 DEF TaskTyped
    <3>3. \A c \in Clients : modes[c] \subseteq BOOLEAN
      BY <1>1 DEF CInv, Modal
    <3>4. /\ version \in Peers /\ session \in {"live", "killing", "buried"}
          /\ {child, stopping, cursorMode, raced} \subseteq BOOLEAN
      BY <1>1 DEF CInv, Typed
    <3>5. /\ Len(channel) <= ChannelCap
          /\ ~writer.runs => channel = <<>> /\ writer.hand = <<>>
          /\ sizes \in [pty : Sizes, emulator : Sizes]
      BY <1>1 DEF CInv, PipeTyped, Sized
    <3> QED
      BY <3>1, <3>2, <3>3, <3>4, <3>5 DEF TypeOK
  <2>2. ASSUME NEW c \in Clients
        PROVE  \E mode \in modes[c], size \in Sizes :
                  LET input == InputFor(c, mode, size)
                      taken == From(c, Taken)
                  IN /\ IsPrefix(From(c, read), input)
                     /\ child => IsPrefix(taken, input) /\ Len(taken) = task[c].sent
    <3>1. PICK input \in InputsFor(c) : Carries(c, input)
      BY <1>1 DEF CInv, Carried
    <3>2. PICK mode \in modes[c], size \in Sizes : input = InputFor(c, mode, size)
      BY DEF InputsFor
    <3> QED
      BY <3>1, <3>2 DEF Carries, Arrived
  <2> QED
    BY <2>1, <2>2 DEF InputAsWritten, InputFor, Taken
<1> QED
  BY CallInvariance, <1>1, PTL

\* Exit codes can be relied on, whatever else happens to the session meanwhile: 0
\* of an input command means that every write was accepted, 0 of a kill that the
\* session is over, 0 of a strict snapshot that it ended neither by its deadline
\* nor by the program's exit, 3 that the daemon said of a strict snapshot that it
\* met its deadline, 4 that the program has ended and an input command has done
\* nothing (capture_exit_code, api_error_exit_code).  The command lines are those
\* of RequestsAssumption: not spawn, wait, stop or daemon.
THEOREM ExitCodesTrue == Spec => []ExitCodeTruth
<1>1. ASSUME CInv PROVE ExitCodeTruth
  <2> SUFFICES ASSUME NEW c \in Clients, version.daemon = ProtocolVersion, client[c].pc = "exit"
               PROVE  /\ client[c].code = ExitSuccess /\ Asked(c).op \in InputOps =>
                            \E mode \in modes[c] : task[c].sent = Len(InputOf(Asked(c), mode, Nowhere))
                      /\ client[c].code = ExitSuccess /\ Asked(c).op = "kill" => session = "buried" /\ ~child
                      /\ client[c].code = ExitSuccess /\ Strict(client[c].line) =>
                            task[c].answer.outcome \notin {"deadline", "exited"}
                      /\ client[c].code = Timing =>
                            client[c].got = "snapshot" /\ Asked(c).strict /\ task[c].answer.outcome = "deadline"
                      /\ client[c].code = Lifecycle =>
                            ~child /\ (Asked(c).op # "snapshot" => session = "buried" /\ task[c].sent = 0)
    BY DEF ExitCodeTruth
  <2> USE DEF ExitSuccess, GenericError, Timing, Lifecycle
  <2>1. /\ client[c].line \in LinesOf[c] /\ Command(c).op = client[c].line.op /\ Asked(c).op = client[c].line.op
    BY <1>1, LineIsOp DEF CInv, Lined, Command, Asked
  <2>2. CASE client[c].code = GenericError
    BY <2>2
  <2>3. CASE client[c].code = ExitSuccess /\ client[c].line.op = "examples"
    BY <2>1, <2>3 DEF InputOps, Strict
  <2>4. CASE /\ task[c].pc = "done" /\ client[c].got = task[c].answer.kind
             /\ client[c].code = ExitCode(c, task[c].answer)
    <3> DEFINE answer == task[c].answer
    <3>1. Fits(c, answer) /\ answer.kind \in Kinds
      BY <1>1, <2>4 DEF CInv, Answered, Typed, TaskTyped, Answers
    <3>2. session = "buried" => ~child
      BY <1>1 DEF CInv, Over
    <3> HIDE DEF answer
    <3>3. CASE answer.kind \in Success
      <4>1. client[c].code = CaptureExitCode(Strict(client[c].line), answer.outcome)
        BY <2>4, <3>3 DEF ExitCode, answer
      <4>2. CASE Strict(client[c].line) /\ answer.outcome = "deadline"
        <5>1. client[c].code = Timing
          BY <4>1, <4>2 DEF CaptureExitCode
        <5>2. client[c].got = "snapshot"
          BY <2>4, <3>1, <4>2 DEF Fits, answer
        <5>3. Asked(c).strict
          BY <4>2 DEF Strict, Asked
        <5> QED
          BY <4>2, <5>1, <5>2, <5>3 DEF answer
      <4>3. CASE Strict(client[c].line) /\ answer.outcome = "exited"
        <5>1. client[c].code = Lifecycle
          BY <4>1, <4>3 DEF CaptureExitCode
        <5>2. ~child /\ Asked(c).op = "snapshot"
          BY <2>1, <3>1, <4>3 DEF Fits
        <5> QED
          BY <5>1, <5>2
      <4>4. CASE ~(Strict(client[c].line) /\ answer.outcome \in {"deadline", "exited"})
        <5>1. client[c].code = ExitSuccess
          BY <4>1, <4>4 DEF CaptureExitCode
        <5>2. Asked(c).op = "kill" => session = "buried" /\ ~child
          BY <2>1, <3>1, <3>2, <3>3 DEF Fits
        <5>3. ASSUME Asked(c).op \in InputOps
              PROVE  \E mode \in modes[c] : task[c].sent = Len(InputOf(Asked(c), mode, Nowhere))
          <6>1. answer.kind = "ok"
            BY <2>1, <3>1, <3>3, <5>3 DEF Fits
          <6>2. PICK input \in InputsFor(c) : Carries(c, input)
            BY <1>1 DEF CInv, Carried
          <6>3. task[c].sent = Len(input)
            BY <2>4, <6>1, <6>2 DEF Carries, Queued, answer
          <6>4. PICK mode \in modes[c], size \in Sizes : input = InputFor(c, mode, size)
            BY DEF InputsFor
          <6>5. input = InputOf(Asked(c), mode, Middle(size))
            BY <5>3, <6>4 DEF InputFor
          <6>6. Len(InputOf(Asked(c), mode, Middle(size))) = Len(InputOf(Asked(c), mode, Nowhere))
            BY <2>1, <5>3, InputIsSequence DEF Asked
          <6> QED
            BY <6>3, <6>5, <6>6
        <5> QED
          BY <4>4, <5>1, <5>2, <5>3 DEF answer
      <4> QED
        BY <4>2, <4>3, <4>4
    <3>4. CASE answer.kind \notin Success
      <4>1. client[c].code = ApiErrorExitCode(Command(c), answer.kind) /\ answer.kind \in Failures
        BY <2>4, <3>1, <3>4 DEF ExitCode, answer, Kinds
      <4>2. CASE TargetsLiveSession(Command(c)) /\ CodeOf[answer.kind] = "SessionExited"
        <5>1. answer.kind = "exited"
          BY <4>1, <4>2 DEF CodeOf, Failures
        <5>2. client[c].code = Lifecycle
          BY <4>1, <4>2 DEF ApiErrorExitCode
        <5>3. session = "buried" /\ task[c].sent = 0
          BY <3>1, <5>1 DEF Fits
        <5> QED
          BY <3>2, <5>2, <5>3
      <4>3. CASE ~(TargetsLiveSession(Command(c)) /\ CodeOf[answer.kind] = "SessionExited")
        <5>1. client[c].code = GenericError
          BY <4>1, <4>3 DEF ApiErrorExitCode
        <5> QED
          BY <5>1
      <4> QED
        BY <4>2, <4>3
    <3> QED
      BY <3>3, <3>4
  <2> QED
    BY <1>1, <2>2, <2>3, <2>4 DEF CInv, Told
<1> QED
  BY CallInvariance, <1>1, PTL
-----------------------------------------------------------------------------
(* Lines and chunks.                                                        *)

LEMMA MinOf ==
    ASSUME NEW T \in SUBSET Nat, T # {}
    PROVE  Min(T) \in T /\ \A y \in T : Min(T) <= y
<1>1. \E x \in T : \A y \in T : x <= y
  BY LeastNumber
<1> QED
  BY <1>1 DEF Min

\* The next cut after a position, or the end of the stream.
NextCut(stream, cuts, p) == Min({c \in cuts \cup {Len(stream)} : c > p})

NextEnd(stream, start) == Min(LineEnds(stream, start))

LEMMA NextEndIs ==
    ASSUME NEW S, NEW stream \in Seq(S), NEW start \in 0..Len(stream) - 1
    PROVE  LET e == NextEnd(stream, start)
           IN  /\ e \in LineEnds(stream, start) /\ e \in start + 1..Len(stream)
               /\ \A d \in LineEnds(stream, start) : e <= d
               /\ \A i \in start + 1..e - 1 : stream[i] # "newline"
<1>1. Len(stream) \in Nat /\ start \in Nat
  BY LenProperties
<1>2. LineEnds(stream, start) \in SUBSET Nat /\ LineEnds(stream, start) # {}
  <2>1. Len(stream) \in LineEnds(stream, start)
    BY <1>1 DEF LineEnds
  <2>2. \A e \in LineEnds(stream, start) : e \in Nat
    BY <1>1 DEF LineEnds
  <2> QED
    BY <2>1, <2>2
<1> DEFINE e == NextEnd(stream, start)
<1>3. e \in LineEnds(stream, start) /\ \A d \in LineEnds(stream, start) : e <= d
  BY <1>2, MinOf DEF NextEnd
<1> HIDE DEF e
<1>4. e \in start + 1..Len(stream)
  BY <1>3 DEF LineEnds
<1>5. \A i \in start + 1..e - 1 : i \in start + 1..Len(stream) /\ ~(e <= i)
  BY <1>1, <1>4
<1>6. \A i \in start + 1..e - 1 : stream[i] # "newline"
  BY <1>3, <1>5 DEF LineEnds
<1> QED
  BY <1>3, <1>4, <1>6 DEF e

\* The first line begins where the stream does.
LEMMA FirstLineIs ==
    ASSUME NEW S, NEW stream \in Seq(S), NEW start \in 0..Len(stream) - 1
    PROVE  LET e == NextEnd(stream, start)
           IN  /\ LineTo(stream, start, e) = SubSeq(stream, start + 1, e)
               /\ Len(SubSeq(stream, start + 1, e)) = e - start
<1> DEFINE e == NextEnd(stream, start)
           T == {start} \cup {d \in LineEnds(stream, start) : d < e}
<1>1. Len(stream) \in Nat /\ start \in Nat
  BY LenProperties
<1>2. e \in start + 1..Len(stream) /\ \A d \in LineEnds(stream, start) : e <= d
  BY NextEndIs
<1>3. \A d \in LineEnds(stream, start) : d \in Nat
  BY <1>1 DEF LineEnds
<1> HIDE DEF e
<1>4. T = {start}
  BY <1>2, <1>3
<1> HIDE DEF T
<1>5. Max(T) = start
  BY <1>1, <1>4 DEF Max
<1>6. LineTo(stream, start, e) = SubSeq(stream, start + 1, e)
  BY <1>5 DEF LineTo, T
<1>7. start + 1 \in 1..Len(stream) + 1 /\ e \in (start + 1) - 1..Len(stream) /\ e - (start + 1) + 1 = e - start
  BY <1>1, <1>2
<1>8. Len(SubSeq(stream, start + 1, e)) = e - start
  BY <1>7, CutProperties
<1> QED
  BY <1>6, <1>8 DEF e

\* The lines after the first are those from its end on.
LEMMA LaterLinesAre ==
    ASSUME NEW S, NEW stream \in Seq(S), NEW start \in 0..Len(stream) - 1
    PROVE  LET e == NextEnd(stream, start)
           IN  /\ LineEnds(stream, start) = {e} \cup LineEnds(stream, e)
               /\ \A d \in LineEnds(stream, e) : d > e /\ LineTo(stream, start, d) = LineTo(stream, e, d)
<1> DEFINE e == NextEnd(stream, start)
<1>1. Len(stream) \in Nat /\ start \in Nat
  BY LenProperties
<1>2. /\ e \in LineEnds(stream, start) /\ e \in start + 1..Len(stream)
      /\ \A d \in LineEnds(stream, start) : e <= d
  BY NextEndIs
<1> HIDE DEF e
<1>3. /\ \A d \in LineEnds(stream, start) : d \in start + 1..Len(stream)
      /\ \A d \in LineEnds(stream, e) : d \in e + 1..Len(stream)
  BY DEF LineEnds
<1>4. \A d \in LineEnds(stream, start) : d = e \/ d \in LineEnds(stream, e)
  <2> TAKE d \in LineEnds(stream, start)
  <2>1. CASE d # e
    <3>1. d \in e + 1..Len(stream)
      BY <1>1, <1>2, <1>3, <2>1
    <3> QED
      BY <3>1 DEF LineEnds
  <2> QED
    BY <2>1
<1>5. \A d \in LineEnds(stream, e) : d \in LineEnds(stream, start) /\ d > e
  <2> TAKE d \in LineEnds(stream, e)
  <2>1. d \in start + 1..Len(stream) /\ d > e
    BY <1>1, <1>2, <1>3
  <2> QED
    BY <2>1 DEF LineEnds
<1>6. LineEnds(stream, start) = {e} \cup LineEnds(stream, e)
  BY <1>2, <1>4, <1>5
<1>7. ASSUME NEW d \in LineEnds(stream, e)
      PROVE  LineTo(stream, start, d) = LineTo(stream, e, d)
  <2> DEFINE A == {e} \cup {x \in LineEnds(stream, e) : x < d}
             B == {start} \cup {x \in LineEnds(stream, start) : x < d}
  <2>0. e < d
    BY <1>1, <1>2, <1>5
  <2>1. B = {start} \cup A
    <3>1. \A x : x \in LineEnds(stream, start) /\ x < d <=> x = e \/ (x \in LineEnds(stream, e) /\ x < d)
      BY <1>6, <2>0
    <3> QED
      BY <3>1
  <2>2. A \in SUBSET (1..Len(stream)) /\ A # {} /\ e \in A
    <3>1. e \in 1..Len(stream) /\ \A x \in LineEnds(stream, e) : x \in 1..Len(stream)
      BY <1>1, <1>2, <1>3
    <3>2. \A x \in A : x \in 1..Len(stream)
      BY <3>1
    <3>3. e \in A
      OBVIOUS
    <3> HIDE DEF A
    <3> QED
      BY <3>2, <3>3
  <2> HIDE DEF A, B
  <2>3. PICK m \in A : \A y \in A : y <= m
    BY <1>1, <2>2, GreatestPlace
  <2>4. m \in Nat /\ \A y \in A : y \in Nat
    BY <1>1, <2>2
  <2>5. Max(A) = m
    <3>1. \A x \in A : (\A y \in A : x >= y) => x = m
      BY <2>3, <2>4
    <3> QED
      BY <2>3, <2>4, <3>1 DEF Max
  <2>6. Max(B) = m
    <3>0. start < m
      BY <1>1, <1>2, <2>2, <2>3, <2>4
    <3>1. m \in B /\ \A y \in B : m >= y
      BY <1>1, <2>1, <2>3, <2>4, <3>0
    <3>2. \A x \in B : (\A y \in B : x >= y) => x = m
      BY <1>1, <2>1, <2>3, <2>4, <3>0
    <3> QED
      BY <3>1, <3>2 DEF Max
  <2> QED
    BY <2>5, <2>6 DEF LineTo, A, B
<1> QED
  BY <1>5, <1>6, <1>7 DEF e
-----------------------------------------------------------------------------
\* One chunk: it ends the line, or brings the reading closer to its end.
LEMMA ChunkIs ==
    ASSUME NEW S, NEW stream \in Seq(S), NEW cuts \in SUBSET Nat, NEW p \in 0..Len(stream) - 1
    PROVE  LET e == NextEnd(stream, p)
               next == NextCut(stream, cuts, p)
               available == Available(stream, cuts, p)
           IN  /\ next \in p + 1..Len(stream)
               /\ e <= next /\ stream[e] = "newline" => NewlinePos(available) > 0 /\ p + BytesToConsume(available) = e
               /\ ~(e <= next /\ stream[e] = "newline") =>
                    /\ NewlinePos(available) = 0 /\ p + BytesToConsume(available) = next
                    /\ next < Len(stream) => NextEnd(stream, next) = e
                    /\ next <= e
<1> DEFINE e == NextEnd(stream, p)
           T == {c \in cuts \cup {Len(stream)} : c > p}
           next == NextCut(stream, cuts, p)
           available == Available(stream, cuts, p)
           I == {i \in 1..Len(available) : available[i] = "newline"}
<1>1. Len(stream) \in Nat /\ p \in Nat
  BY LenProperties
<1>2. next \in T /\ \A c \in T : next <= c
  <2> HIDE DEF e, available, I
  <2>1. \A c \in T : c \in Nat
    BY <1>1
  <2>2. Len(stream) \in T
    BY <1>1
  <2>3. next = Min(T)
    BY DEF NextCut
  <2> HIDE DEF T, next
  <2>4. T \in SUBSET Nat /\ T # {}
    BY <2>1, <2>2
  <2>5. Min(T) \in T /\ \A y \in T : Min(T) <= y
    BY <2>4, MinOf
  <2> QED
    BY <2>3, <2>5
<1>3. next \in p + 1..Len(stream)
  <2> HIDE DEF next, e, available, I
  <2>1. Len(stream) \in T
    BY <1>1
  <2>2. next \in Nat /\ next > p
    BY <1>1, <1>2
  <2>3. next <= Len(stream)
    BY <1>2, <2>1
  <2> QED
    BY <1>1, <2>2, <2>3
<1>4. available = SubSeq(stream, p + 1, next)
  BY DEF Available, NextCut
<1>5. NewlinePos(available) = IF I # {} THEN Min(I) ELSE 0
  BY DEF NewlinePos, SelectInSeq
<1>6. /\ e \in LineEnds(stream, p) /\ e \in p + 1..Len(stream)
      /\ \A d \in LineEnds(stream, p) : e <= d
      /\ \A i \in p + 1..e - 1 : stream[i] # "newline"
  BY NextEndIs
<1> HIDE DEF T, next, e
<1>7. /\ available \in Seq(S) /\ Len(available) = next - p
      /\ \A i \in 1..next - p : available[i] = stream[p + i]
  <2>1. /\ p + 1 \in 1..Len(stream) + 1 /\ next \in (p + 1) - 1..Len(stream)
        /\ next - (p + 1) + 1 = next - p /\ \A i \in 1..next - p : (p + 1) + i - 1 = p + i
    BY <1>1, <1>3
  <2> HIDE DEF available
  <2>2. /\ available \in Seq(S) /\ Len(available) = next - (p + 1) + 1
        /\ \A i \in 1..next - (p + 1) + 1 : available[i] = stream[(p + 1) + i - 1]
    BY <1>4, <2>1, CutProperties
  <2> QED
    BY <2>1, <2>2
<1> HIDE DEF available, I
<1>8. ASSUME e <= next, stream[e] = "newline"
      PROVE  NewlinePos(available) > 0 /\ p + BytesToConsume(available) = e
  <2>1. e - p \in 1..next - p /\ p + (e - p) = e
    BY <1>1, <1>3, <1>6, <1>8
  <2>2. e - p \in I
    BY <1>7, <1>8, <2>1 DEF I
  <2>3. \A i \in I : i \in Nat /\ e - p <= i
    <3> TAKE i \in I
    <3>1. i \in 1..next - p /\ stream[p + i] = "newline"
      BY <1>7 DEF I
    <3>2. p + i \notin p + 1..e - 1
      BY <1>6, <3>1
    <3> QED
      BY <1>1, <1>3, <1>6, <3>1, <3>2
  <2>4. Min(I) = e - p
    <3>1. I \in SUBSET Nat /\ I # {}
      BY <2>2, <2>3
    <3>2. Min(I) \in I /\ Min(I) <= e - p
      BY <2>2, <3>1, MinOf
    <3> QED
      BY <1>1, <1>6, <2>3, <3>2
  <2>5. NewlinePos(available) = e - p
    BY <1>5, <2>2, <2>4
  <2> QED
    BY <1>1, <1>6, <2>1, <2>5 DEF BytesToConsume
<1>9. ASSUME ~(e <= next /\ stream[e] = "newline")
      PROVE  /\ NewlinePos(available) = 0 /\ p + BytesToConsume(available) = next
             /\ next < Len(stream) => NextEnd(stream, next) = e
             /\ next <= e
  <2>1. next <= e
    <3>1. CASE e <= next
      <4>1. e = Len(stream)
        BY <1>6, <1>9, <3>1 DEF LineEnds
      <4> QED
        BY <1>3, <4>1
    <3>2. CASE ~(e <= next)
      BY <1>1, <1>3, <1>6, <3>2
    <3> QED
      BY <3>1, <3>2
  <2>2. \A i \in p + 1..next : stream[i] # "newline"
    <3> TAKE i \in p + 1..next
    <3>1. i \in p + 1..e - 1 \/ i = e
      BY <1>1, <1>3, <1>6, <2>1
    <3>2. i = e => e <= next
      BY <1>1, <1>3, <1>6
    <3> QED
      BY <1>6, <1>9, <3>1, <3>2
  <2>3. I = {}
    <3>1. \A i \in 1..next - p : available[i] # "newline"
      <4> TAKE i \in 1..next - p
      <4>1. p + i \in p + 1..next
        BY <1>1, <1>3
      <4> QED
        BY <1>7, <2>2, <4>1
    <3> QED
      BY <1>7, <3>1 DEF I
  <2>4. NewlinePos(available) = 0
    BY <1>5, <2>3
  <2>5. p + BytesToConsume(available) = next
    BY <1>1, <1>3, <1>7, <2>4 DEF BytesToConsume
  <2>6. ASSUME next < Len(stream) PROVE NextEnd(stream, next) = e
    <3> DEFINE f == NextEnd(stream, next)
    <3>0. next \in 0..Len(stream) - 1
      BY <1>1, <1>3, <2>6
    <3>1. /\ f \in LineEnds(stream, next) /\ f \in next + 1..Len(stream)
          /\ \A d \in LineEnds(stream, next) : f <= d
      BY <3>0, NextEndIs
    <3> HIDE DEF f
    <3>2. f \in LineEnds(stream, p)
      <4>1. f \in p + 1..Len(stream)
        BY <1>1, <1>3, <3>1
      <4> QED
        BY <3>1, <4>1 DEF LineEnds
    <3>3. e # next
      <4>1. e # next \/ stream[e] # "newline"
        BY <1>1, <1>3, <1>9
      <4>2. next # Len(stream)
        BY <1>1, <1>3, <2>6
      <4> QED
        BY <1>6, <4>1, <4>2 DEF LineEnds
    <3>4. e \in LineEnds(stream, next)
      <4>1. e \in next + 1..Len(stream)
        BY <1>1, <1>3, <1>6, <2>1, <3>3
      <4> QED
        BY <1>6, <4>1 DEF LineEnds
    <3>5. e <= f /\ f <= e
      BY <1>6, <3>1, <3>2, <3>4
    <3> QED
      BY <1>1, <1>6, <3>1, <3>5 DEF f
  <2> QED
    BY <2>1, <2>4, <2>5, <2>6
<1> QED
  BY <1>3, <1>8, <1>9 DEF e, next, available
-----------------------------------------------------------------------------
(* Reading a line, chunk by chunk.                                          *)

\* The function that read_line_bounded is by its recursion over the chunks.
ScansChunks(scan, stream, cuts, start, max) ==
    scan = [p \in start..Len(stream) |->
            LET available == Available(stream, cuts, p)
                end == p + BytesToConsume(available)
            IN IF p = Len(stream) THEN [end |-> p, error |-> "none"]
               ELSE IF end - start > max THEN [end |-> start, error |-> "tooLarge"]
               ELSE IF NewlinePos(available) > 0 THEN [end |-> end, error |-> "none"]
               ELSE scan[end]]

\* What it is without them.
ScanFrom(stream, start, max, p) ==
    IF p = Len(stream) THEN [end |-> p, error |-> "none"]
    ELSE IF NextEnd(stream, p) - start > max THEN [end |-> start, error |-> "tooLarge"]
    ELSE [end |-> NextEnd(stream, p), error |-> "none"]

LEMMA ChunkScanned ==
    ASSUME NEW S, NEW stream \in Seq(S), NEW cuts \in SUBSET Nat, NEW max \in Nat,
           NEW start \in 0..Len(stream), NEW p \in start..Len(stream)
    PROVE  LET available == Available(stream, cuts, p)
               end == p + BytesToConsume(available)
           IN  /\ p # Len(stream) /\ ~(NewlinePos(available) > 0) => end \in p + 1..Len(stream)
               /\ ScanFrom(stream, start, max, p) =
                      IF p = Len(stream) THEN [end |-> p, error |-> "none"]
                      ELSE IF end - start > max THEN [end |-> start, error |-> "tooLarge"]
                      ELSE IF NewlinePos(available) > 0 THEN [end |-> end, error |-> "none"]
                      ELSE ScanFrom(stream, start, max, end)
<1> DEFINE available == Available(stream, cuts, p)
           end == p + BytesToConsume(available)
           e == NextEnd(stream, p)
           next == NextCut(stream, cuts, p)
<1>1. Len(stream) \in Nat /\ p \in Nat /\ start \in Nat
  BY LenProperties
<1>2. CASE p = Len(stream)
  BY <1>2 DEF ScanFrom
<1>3. CASE p # Len(stream)
  <2>0. p \in 0..Len(stream) - 1
    BY <1>1, <1>3
  <2>1. e \in p + 1..Len(stream) /\ e \in LineEnds(stream, p)
    BY <2>0, NextEndIs
  <2>2. /\ next \in p + 1..Len(stream)
        /\ e <= next /\ stream[e] = "newline" => NewlinePos(available) > 0 /\ end = e
        /\ ~(e <= next /\ stream[e] = "newline") =>
              /\ NewlinePos(available) = 0 /\ end = next
              /\ next < Len(stream) => NextEnd(stream, next) = e
              /\ next <= e
    BY <2>0, ChunkIs
  <2>3. ScanFrom(stream, start, max, p) =
            IF e - start > max THEN [end |-> start, error |-> "tooLarge"] ELSE [end |-> e, error |-> "none"]
    BY <1>3 DEF ScanFrom
  <2> HIDE DEF available, end, e, next
  <2>4. CASE e <= next /\ stream[e] = "newline"
    BY <1>3, <2>2, <2>3, <2>4 DEF end, available
  <2>5. CASE ~(e <= next /\ stream[e] = "newline")
    <3>1. NewlinePos(available) = 0 /\ end = next /\ next <= e /\ ~(NewlinePos(available) > 0)
      BY <2>2, <2>5
    <3>2. CASE next - start > max
      <4>1. e - start > max
        BY <1>1, <2>1, <2>2, <3>1, <3>2
      <4> QED
        BY <1>3, <2>2, <2>3, <3>1, <3>2, <4>1 DEF end, available
    <3>3. CASE ~(next - start > max)
      <4>1. ScanFrom(stream, start, max, next) = ScanFrom(stream, start, max, p)
        <5>1. CASE next = Len(stream)
          <6>1. e = next
            BY <1>1, <2>1, <2>2, <3>1, <5>1
          <6> QED
            BY <2>3, <3>3, <5>1, <6>1 DEF ScanFrom
        <5>2. CASE next # Len(stream)
          <6>1. NextEnd(stream, next) = e
            BY <1>1, <2>2, <2>5, <5>2
          <6> QED
            BY <2>3, <5>2, <6>1 DEF ScanFrom
        <5> QED
          BY <5>1, <5>2
      <4> QED
        BY <1>3, <2>2, <3>1, <3>3, <4>1 DEF end, available
    <3> QED
      BY <3>2, <3>3
  <2> QED
    BY <2>4, <2>5
<1> QED
  BY <1>2, <1>3

\* There is such a function ...
LEMMA ScanExists ==
    ASSUME NEW S, NEW stream \in Seq(S), NEW cuts \in SUBSET Nat, NEW max \in Nat, NEW start \in 0..Len(stream)
    PROVE  \E scan : ScansChunks(scan, stream, cuts, start, max)
<1> DEFINE f == [p \in start..Len(stream) |-> ScanFrom(stream, start, max, p)]
<1>1. Len(stream) \in Nat /\ start \in Nat
  BY LenProperties
<1>2. ASSUME NEW p \in start..Len(stream)
      PROVE  f[p] = LET available == Available(stream, cuts, p)
                        end == p + BytesToConsume(available)
                    IN IF p = Len(stream) THEN [end |-> p, error |-> "none"]
                       ELSE IF end - start > max THEN [end |-> start, error |-> "tooLarge"]
                       ELSE IF NewlinePos(available) > 0 THEN [end |-> end, error |-> "none"]
                       ELSE f[end]
  <2> DEFINE available == Available(stream, cuts, p)
             end == p + BytesToConsume(available)
  <2>1. /\ p # Len(stream) /\ ~(NewlinePos(available) > 0) => end \in p + 1..Len(stream)
        /\ ScanFrom(stream, start, max, p) =
                      IF p = Len(stream) THEN [end |-> p, error |-> "none"]
                      ELSE IF end - start > max THEN [end |-> start, error |-> "tooLarge"]
                      ELSE IF NewlinePos(available) > 0 THEN [end |-> end, error |-> "none"]
                      ELSE ScanFrom(stream, start, max, end)
    BY ChunkScanned
  <2>2. f[p] = ScanFrom(stream, start, max, p)
    OBVIOUS
  <2>3. p # Len(stream) /\ ~(NewlinePos(available) > 0) => f[end] = ScanFrom(stream, start, max, end)
    <3> SUFFICES ASSUME p # Len(stream) /\ ~(NewlinePos(available) > 0)
                 PROVE  f[end] = ScanFrom(stream, start, max, end)
      OBVIOUS
    <3>1. end \in p + 1..Len(stream)
      BY <2>1
    <3> HIDE DEF end, available
    <3>2. end \in start..Len(stream)
      BY <1>1, <3>1
    <3> QED
      BY <3>2
  <2> HIDE DEF f
  <2> QED
    BY <2>1, <2>2, <2>3
<1>3. f = [p \in start..Len(stream) |->
             LET available == Available(stream, cuts, p)
                 end == p + BytesToConsume(available)
             IN IF p = Len(stream) THEN [end |-> p, error |-> "none"]
                ELSE IF end - start > max THEN [end |-> start, error |-> "tooLarge"]
                ELSE IF NewlinePos(available) > 0 THEN [end |-> end, error |-> "none"]
                ELSE f[end]]
  <2>1. f = [p \in start..Len(stream) |-> f[p]]
    OBVIOUS
  <2> HIDE DEF f
  <2> QED
    BY <1>2, <2>1, Zenon
<1> QED
  BY <1>3 DEF ScansChunks

\* ... and only one.
LEMMA ScanIs ==
    ASSUME NEW S, NEW stream \in Seq(S), NEW cuts \in SUBSET Nat, NEW max \in Nat, NEW start \in 0..Len(stream),
           NEW scan, ScansChunks(scan, stream, cuts, start, max)
    PROVE  \A p \in start..Len(stream) : scan[p] = ScanFrom(stream, start, max, p)
<1> DEFINE T == {k \in Nat : k \in 0..Len(stream) - start =>
                     scan[Len(stream) - k] = ScanFrom(stream, start, max, Len(stream) - k)}
<1>1. Len(stream) \in Nat /\ start \in Nat
  BY LenProperties
<1>2. ASSUME NEW n \in Nat, \A k \in 0..n - 1 : k \in T PROVE n \in T
  <2> DEFINE p == Len(stream) - n
             available == Available(stream, cuts, p)
             end == p + BytesToConsume(available)
  <2> SUFFICES ASSUME n \in 0..Len(stream) - start PROVE scan[p] = ScanFrom(stream, start, max, p)
    OBVIOUS
  <2>1. p \in start..Len(stream) /\ p \in Nat
    BY <1>1
  <2>2. scan[p] = IF p = Len(stream) THEN [end |-> p, error |-> "none"]
                  ELSE IF end - start > max THEN [end |-> start, error |-> "tooLarge"]
                  ELSE IF NewlinePos(available) > 0 THEN [end |-> end, error |-> "none"]
                  ELSE scan[end]
    <3> HIDE DEF p
    <3> QED
      BY <2>1, Zenon DEF ScansChunks
  <2>3. /\ p # Len(stream) /\ ~(NewlinePos(available) > 0) => end \in p + 1..Len(stream)
        /\ ScanFrom(stream, start, max, p) =
                      IF p = Len(stream) THEN [end |-> p, error |-> "none"]
                      ELSE IF end - start > max THEN [end |-> start, error |-> "tooLarge"]
                      ELSE IF NewlinePos(available) > 0 THEN [end |-> end, error |-> "none"]
                      ELSE ScanFrom(stream, start, max, end)
    <3> HIDE DEF p
    <3> QED
      BY <2>1, ChunkScanned
  <2>4. ASSUME p # Len(stream), ~(NewlinePos(available) > 0)
        PROVE  scan[end] = ScanFrom(stream, start, max, end)
    <3>1. end \in p + 1..Len(stream)
      BY <2>3, <2>4
    <3> HIDE DEF end, available
    <3> DEFINE k == Len(stream) - end
    <3>2. k \in 0..n - 1 /\ k \in 0..Len(stream) - start /\ Len(stream) - k = end
      BY <1>1, <2>1, <3>1
    <3> HIDE DEF k, p
    <3> QED
      BY <1>2, <3>2
  <2> HIDE DEF p, end, available, T
  <2> QED
    BY <2>2, <2>3, <2>4
<1>3. Nat \subseteq T
  <2> HIDE DEF T
  <2> QED
    BY <1>2, StrongInduction
<1>4. ASSUME NEW p \in start..Len(stream) PROVE scan[p] = ScanFrom(stream, start, max, p)
  <2> DEFINE k == Len(stream) - p
  <2>1. k \in Nat /\ k \in 0..Len(stream) - start /\ Len(stream) - k = p
    BY <1>1
  <2> HIDE DEF k
  <2> QED
    BY <1>3, <2>1
<1> QED
  BY <1>4

\* What reading a line gives says nothing of the chunks it came in.
LEMMA ReadLineIs ==
    ASSUME NEW S, NEW stream \in Seq(S), NEW cuts \in SUBSET Nat, NEW max \in Nat, NEW start \in 0..Len(stream)
    PROVE  LET got == ReadLine(stream, cuts, start, max)
               e == NextEnd(stream, start)
               error == LineError(SubSeq(stream, start + 1, e), max)
           IN  /\ start = Len(stream) => got.end = start /\ got.error = "none"
               /\ start # Len(stream) => /\ got.error = error
                                         /\ error = "none" => got.end = e
<1> DEFINE scan == CHOOSE f : ScansChunks(f, stream, cuts, start, max)
           one == scan[start]
           got == IF one.error = "none" /\ ~Utf8Valid(SubSeq(stream, start + 1, one.end))
                  THEN [one EXCEPT !.error = "notUtf8"] ELSE one
           e == NextEnd(stream, start)
           line == SubSeq(stream, start + 1, e)
<1>1. ScansChunks(scan, stream, cuts, start, max)
  BY ScanExists
<1>2. Len(stream) \in Nat /\ start \in Nat /\ start \in start..Len(stream)
  BY LenProperties
<1>3. ReadLine(stream, cuts, start, max) = got
  BY DEF ReadLine, ScansChunks
<1> HIDE DEF scan
<1>4. one = ScanFrom(stream, start, max, start)
  BY <1>1, <1>2, ScanIs
<1> HIDE DEF one
<1>5. CASE start = Len(stream)
  <2>1. one = [end |-> start, error |-> "none"]
    BY <1>4, <1>5 DEF ScanFrom
  <2>2. Utf8Valid(SubSeq(stream, start + 1, start))
    <3>1. SubSeq(stream, start + 1, start) = << >>
      BY <1>2, SubSeqEmpty
    <3>2. DOMAIN << >> = {}
      OBVIOUS
    <3> QED
      BY <3>1, <3>2 DEF Utf8Valid
  <2> QED
    BY <1>3, <1>5, <2>1, <2>2
<1>6. CASE start # Len(stream)
  <2>0. start \in 0..Len(stream) - 1
    BY <1>2, <1>6
  <2>1. Len(line) = e - start
    BY <2>0, FirstLineIs
  <2> HIDE DEF e
  <2>2. CASE e - start > max
    <3>1. one = [end |-> start, error |-> "tooLarge"]
      BY <1>4, <1>6, <2>2 DEF ScanFrom, e
    <3>2. LineError(line, max) = "tooLarge"
      BY <2>1, <2>2 DEF LineError
    <3> QED
      BY <1>3, <1>6, <3>1, <3>2 DEF e
  <2>3. CASE ~(e - start > max)
    <3>1. one = [end |-> e, error |-> "none"]
      BY <1>4, <1>6, <2>3 DEF ScanFrom, e
    <3>2. CASE Utf8Valid(line)
      <4>1. LineError(line, max) = "none"
        BY <2>1, <2>3, <3>2 DEF LineError
      <4> QED
        BY <1>3, <1>6, <3>1, <3>2, <4>1 DEF e
    <3>3. CASE ~Utf8Valid(line)
      <4>1. LineError(line, max) = "notUtf8"
        BY <2>1, <2>3, <3>3 DEF LineError
      <4>2. got.error = "notUtf8"
        BY <3>1, <3>3
      <4> QED
        BY <1>3, <1>6, <4>1, <4>2 DEF e
    <3> QED
      BY <3>2, <3>3
  <2> QED
    BY <2>2, <2>3
<1> QED
  BY <1>5, <1>6
-----------------------------------------------------------------------------
(* The requests of a stream, line by line.                                  *)

\* A place before all others comes first and moves the others on by one.
LEMMA PlacesFollow ==
    ASSUME NEW n \in Nat, NEW at \in SUBSET (1..n), NEW e \in 1..n, \A i \in at : e < i
    PROVE  LET all == {e} \cup at
           IN  /\ Cardinality(at) \in Nat
               /\ Cardinality(all) = Cardinality(at) + 1
               /\ Place(all, 1) = e
               /\ \A k \in 1..Cardinality(at) : Place(all, k + 1) = Place(at, k)
<1> DEFINE all == {e} \cup at
<1>1. all \in SUBSET (1..n) /\ e \notin at /\ e \in all /\ at \subseteq all
  <2>1. ~(e < e)
    OBVIOUS
  <2> QED
    BY <2>1
<1>2. IsFiniteSet(at)
  <2>1. IsFiniteSet(1..n)
    BY FS_Interval
  <2> QED
    BY <2>1, FS_Subset
<1>3. Cardinality(all) = Cardinality(at) + 1 /\ Cardinality(at) \in Nat
  BY <1>1, <1>2, FS_AddElement, FS_CardinalityType
<1>4. /\ \A k \in 1..Cardinality(at) : Place(at, k) \in at
      /\ \A k \in 1..Cardinality(at) : Cardinality({j \in at : j <= Place(at, k)}) = k
      /\ \A i \in all : Place(all, Cardinality({j \in all : j <= i})) = i
  <2>1. \A i \in all : Place(all, Cardinality({j \in all : j <= i})) = i
    <3> HIDE DEF all
    <3> QED
      BY <1>1, PlacesAreNumbered
  <2> HIDE DEF all
  <2> QED
    BY <2>1, PlacesAreNumbered
<1>5. \A i \in all : i \in Int
  BY <1>1
<1>6. Place(all, 1) = e
  <2>0. \A j \in at : ~(j <= e)
    OBVIOUS
  <2>1. {j \in all : j <= e} = {e}
    <3>1. \A j \in all : j <= e <=> j = e
      <4>1. e <= e
        OBVIOUS
      <4>2. \A j \in all : j = e \/ j \in at
        OBVIOUS
      <4>3. \A j \in at : j # e
        BY <1>1
      <4> HIDE DEF all
      <4>4. ASSUME NEW j \in all PROVE j <= e <=> j = e
        <5>1. CASE j = e
          BY <4>1, <5>1
        <5>2. CASE j \in at
          BY <2>0, <4>3, <5>2
        <5> QED
          BY <4>2, <5>1, <5>2
      <4> QED
        BY <4>4
    <3> HIDE DEF all
    <3> QED
      BY <1>1, <3>1, Zenon
  <2>2. Cardinality({e}) = 1
    BY FS_Singleton
  <2> HIDE DEF all
  <2> QED
    BY <1>1, <1>4, <2>1, <2>2
<1>7. ASSUME NEW k \in 1..Cardinality(at) PROVE Place(all, k + 1) = Place(at, k)
  <2> DEFINE i == Place(at, k)
             few == {j \in at : j <= i}
  <2>1. i \in at /\ Cardinality(few) = k
    BY <1>4
  <2>2. IsFiniteSet(few) /\ e \notin few
    BY <1>1, <1>2, FS_Subset
  <2> HIDE DEF i
  <2>3. {j \in all : j <= i} = few \cup {e}
    BY <1>5, <2>1
  <2>4. Cardinality(few \cup {e}) = k + 1
    <3> HIDE DEF few
    <3> QED
      BY <2>1, <2>2, FS_AddElement
  <2> HIDE DEF all, few
  <2> QED
    BY <1>1, <1>4, <2>1, <2>3, <2>4 DEF i
<1> QED
  BY <1>3, <1>6, <1>7

\* The ends of the lines that are requests.
RequestEnds(stream, start, max) ==
    {e \in ReadEnds(stream, start, max) : Trim(LineTo(stream, start, e)) # <<>>}

LEMMA RequestsAre ==
    ASSUME NEW stream, NEW start, NEW max
    PROVE  RequestsIn(stream, start, max) =
               [k \in 1..Cardinality(RequestEnds(stream, start, max)) |->
                   Trim(LineTo(stream, start, Place(RequestEnds(stream, start, max), k)))]
  BY DEF RequestsIn, RequestEnds

LEMMA NoRequests ==
    ASSUME NEW stream, NEW start, NEW max, RequestEnds(stream, start, max) = {}
    PROVE  RequestsIn(stream, start, max) = <<>>
<1>1. Cardinality({}) = 0
  BY FS_EmptySet
<1>2. RequestsIn(stream, start, max) = [k \in 1..0 |-> Trim(LineTo(stream, start, Place({}, k)))]
  BY <1>1, RequestsAre
<1>3. ASSUME NEW f, DOMAIN f = 1..0, f = [k \in 1..0 |-> f[k]] PROVE f = <<>>
  BY <1>3
<1> QED
  BY <1>2, <1>3

\* Nothing is left to read.
LEMMA AtTheEnd ==
    ASSUME NEW S, NEW stream \in Seq(S), NEW max
    PROVE  /\ RequestsIn(stream, Len(stream), max) = <<>>
           /\ EndOf(stream, Len(stream), max) = "disconnected"
<1>1. LineEnds(stream, Len(stream)) = {}
  <2>1. Len(stream) \in Nat
    BY LenProperties
  <2> QED
    BY <2>1 DEF LineEnds
<1>2. ReadEnds(stream, Len(stream), max) = {}
  BY <1>1 DEF ReadEnds
<1> QED
  BY <1>1, <1>2, NoRequests DEF RequestEnds, EndOf

\* The first line cannot be read: nothing is.
LEMMA FirstLineFails ==
    ASSUME NEW S, NEW stream \in Seq(S), NEW max, NEW start \in 0..Len(stream) - 1,
           LineError(LineTo(stream, start, NextEnd(stream, start)), max) # "none"
    PROVE  /\ RequestsIn(stream, start, max) = <<>>
           /\ EndOf(stream, start, max) = LineError(LineTo(stream, start, NextEnd(stream, start)), max)
<1> DEFINE e == NextEnd(stream, start)
<1>1. e \in LineEnds(stream, start) /\ \A d \in LineEnds(stream, start) : e <= d
  BY NextEndIs
<1>2. ReadEnds(stream, start, max) = {}
  BY <1>1 DEF ReadEnds
<1>3. LineEnds(stream, start) \ ReadEnds(stream, start, max) = LineEnds(stream, start)
  BY <1>2
<1>4. LineEnds(stream, start) # {}
  BY <1>1
<1> QED
  BY <1>2, <1>3, <1>4, NoRequests DEF RequestEnds, EndOf, NextEnd

\* The first line is read: it is the first request if it is not blank.
LEMMA FirstLineRead ==
    ASSUME NEW S, NEW stream \in Seq(S), NEW max, NEW start \in 0..Len(stream) - 1,
           LineError(LineTo(stream, start, NextEnd(stream, start)), max) = "none"
    PROVE  LET e == NextEnd(stream, start)
               line == Trim(LineTo(stream, start, e))
           IN  /\ RequestEnds(stream, start, max) =
                      IF line = <<>> THEN RequestEnds(stream, e, max) ELSE {e} \cup RequestEnds(stream, e, max)
               /\ \A d \in RequestEnds(stream, e, max) :
                      /\ d > e /\ d \in 1..Len(stream)
                      /\ LineTo(stream, start, d) = LineTo(stream, e, d)
               /\ EndOf(stream, start, max) = EndOf(stream, e, max)
<1> DEFINE e == NextEnd(stream, start)
           line == Trim(LineTo(stream, start, e))
<1>0. Len(stream) \in Nat /\ start \in Nat
  BY LenProperties
<1>1. /\ e \in LineEnds(stream, start) /\ e \in start + 1..Len(stream)
      /\ \A d \in LineEnds(stream, start) : e <= d
  BY NextEndIs
<1>2. /\ LineEnds(stream, start) = {e} \cup LineEnds(stream, e)
      /\ \A d \in LineEnds(stream, e) : d > e /\ LineTo(stream, start, d) = LineTo(stream, e, d)
  BY LaterLinesAre
<1>3. LineError(LineTo(stream, start, e), max) = "none"
  OBVIOUS
<1> HIDE DEF e
<1>4. \A d \in LineEnds(stream, e) : d \in 1..Len(stream) /\ d \in Int
  BY <1>0, <1>1 DEF LineEnds
<1>5. ~(e > e) /\ e \notin LineEnds(stream, e) /\ e \in Int
  BY <1>0, <1>1, <1>2
<1>6. e \in ReadEnds(stream, start, max)
  <2>1. \A d \in LineEnds(stream, start) : d <= e => d = e
    <3> TAKE d \in LineEnds(stream, start)
    <3>1. d = e \/ (d \in LineEnds(stream, e) /\ d > e /\ d \in Int)
      BY <1>2, <1>4
    <3> QED
      BY <1>5, <3>1
  <2> QED
    BY <1>1, <1>3, <2>1 DEF ReadEnds
<1>7. \A d \in LineEnds(stream, e) : d \in ReadEnds(stream, start, max) <=> d \in ReadEnds(stream, e, max)
  <2> TAKE d \in LineEnds(stream, e)
  <2>1. /\ d \in ReadEnds(stream, start, max) <=>
              \A x \in LineEnds(stream, start) : x <= d => LineError(LineTo(stream, start, x), max) = "none"
        /\ d \in ReadEnds(stream, e, max) <=>
              \A x \in LineEnds(stream, e) : x <= d => LineError(LineTo(stream, e, x), max) = "none"
    BY <1>2 DEF ReadEnds
  <2> QED
    BY <1>2, <1>3, <2>1
<1>8. ReadEnds(stream, start, max) = {e} \cup ReadEnds(stream, e, max)
  <2>1. /\ \A d \in ReadEnds(stream, start, max) : d \in LineEnds(stream, start)
        /\ \A d \in ReadEnds(stream, e, max) : d \in LineEnds(stream, e)
    BY DEF ReadEnds
  <2> QED
    BY <1>2, <1>6, <1>7, <2>1
<1>9. \A d \in ReadEnds(stream, e, max) :
          d > e /\ d \in 1..Len(stream) /\ LineTo(stream, start, d) = LineTo(stream, e, d)
  BY <1>2, <1>4 DEF ReadEnds
<1>10. RequestEnds(stream, start, max) =
           IF line = <<>> THEN RequestEnds(stream, e, max) ELSE {e} \cup RequestEnds(stream, e, max)
  <2>1. ASSUME NEW d
        PROVE  d \in RequestEnds(stream, start, max) <=>
                   (d = e /\ line # <<>>) \/ d \in RequestEnds(stream, e, max)
    <3>1. d \in RequestEnds(stream, start, max) <=>
              (d = e \/ d \in ReadEnds(stream, e, max)) /\ Trim(LineTo(stream, start, d)) # <<>>
      BY <1>8 DEF RequestEnds
    <3>2. d \in ReadEnds(stream, e, max) => LineTo(stream, start, d) = LineTo(stream, e, d) /\ d # e
      BY <1>5, <1>9
    <3>3. e \notin ReadEnds(stream, e, max)
      BY <1>5 DEF ReadEnds
    <3> QED
      BY <3>1, <3>2, <3>3 DEF RequestEnds
  <2> HIDE DEF line
  <2> QED
    BY <2>1
<1>11. EndOf(stream, start, max) = EndOf(stream, e, max)
  <2> DEFINE U == LineEnds(stream, e) \ ReadEnds(stream, e, max)
  <2>1. LineEnds(stream, start) \ ReadEnds(stream, start, max) = U
    BY <1>2, <1>5, <1>8 DEF ReadEnds
  <2>2. CASE U = {}
    BY <2>1, <2>2 DEF EndOf
  <2>3. CASE U # {}
    <3>1. U \in SUBSET Nat
      BY <1>0, <1>4
    <3> DEFINE m == Min(U)
    <3>2. m \in U
      <4> HIDE DEF U
      <4> QED
        BY <2>3, <3>1, MinOf
    <3>3. LineTo(stream, start, m) = LineTo(stream, e, m)
      BY <1>2, <3>2
    <3>4. /\ EndOf(stream, start, max) = LineError(LineTo(stream, start, m), max)
          /\ EndOf(stream, e, max) = LineError(LineTo(stream, e, m), max)
      BY <2>1, <2>3 DEF EndOf
    <3> QED
      BY <3>3, <3>4
  <2> QED
    BY <2>2, <2>3
<1>12. \A d \in RequestEnds(stream, e, max) : d \in ReadEnds(stream, e, max)
  BY DEF RequestEnds
<1> QED
  BY <1>9, <1>10, <1>11, <1>12 DEF e
-----------------------------------------------------------------------------
\* What a stream says from a position on, in one sequence.
Said(stream, start, max) == Append(RequestsIn(stream, start, max), <<EndOf(stream, start, max)>>)

\* Everything that such a sequence can hold.
Pieces(stream, max) ==
    {Trim(LineTo(stream, b, e)) : b \in 0..Len(stream), e \in 1..Len(stream)}
        \cup {<<EndOf(stream, b, max)>> : b \in 0..Len(stream)}

LEMMA RequestsInSeq ==
    ASSUME NEW S, NEW stream \in Seq(S), NEW max, NEW start \in 0..Len(stream)
    PROVE  /\ RequestEnds(stream, start, max) \in SUBSET (1..Len(stream))
           /\ Cardinality(RequestEnds(stream, start, max)) \in Nat
           /\ RequestsIn(stream, start, max) \in Seq(Pieces(stream, max))
           /\ Len(RequestsIn(stream, start, max)) = Cardinality(RequestEnds(stream, start, max))
           /\ <<EndOf(stream, start, max)>> \in Pieces(stream, max)
<1> DEFINE places == RequestEnds(stream, start, max)
           N == Cardinality(places)
<1>1. Len(stream) \in Nat /\ start \in Nat
  BY LenProperties
<1>2. \A e \in places : e \in 1..Len(stream)
  BY <1>1 DEF RequestEnds, ReadEnds, LineEnds
<1>3. N \in Nat /\ \A k \in 1..N : Place(places, k) \in places
  <2> HIDE DEF places
  <2> QED
    BY <1>1, <1>2, PlacesAreNumbered
<1>4. \A k \in 1..N : Trim(LineTo(stream, start, Place(places, k))) \in Pieces(stream, max)
  BY <1>2, <1>3 DEF Pieces
<1> HIDE DEF N
<1>5. RequestsIn(stream, start, max) = [k \in 1..N |-> Trim(LineTo(stream, start, Place(places, k)))]
  BY RequestsAre DEF N
<1> HIDE DEF places
<1>6. RequestsIn(stream, start, max) \in [1..N -> Pieces(stream, max)]
  BY <1>4, <1>5
<1>7. RequestsIn(stream, start, max) \in Seq(Pieces(stream, max)) /\ Len(RequestsIn(stream, start, max)) = N
  BY <1>3, <1>6, SeqDef, LenProperties
<1>8. <<EndOf(stream, start, max)>> \in Pieces(stream, max)
  BY DEF Pieces
<1> QED
  BY <1>2, <1>3, <1>7, <1>8 DEF places, N

\* The first request comes first, the rest as from the end of its line.
LEMMA RequestsUnfold ==
    ASSUME NEW S, NEW stream \in Seq(S), NEW max, NEW start \in 0..Len(stream) - 1,
           LineError(LineTo(stream, start, NextEnd(stream, start)), max) = "none"
    PROVE  LET e == NextEnd(stream, start)
               line == Trim(LineTo(stream, start, e))
           IN  /\ RequestsIn(stream, start, max) =
                      (IF line = <<>> THEN <<>> ELSE <<line>>) \o RequestsIn(stream, e, max)
               /\ line \in Pieces(stream, max)
<1> DEFINE e == NextEnd(stream, start)
           line == Trim(LineTo(stream, start, e))
           few == RequestEnds(stream, e, max)
           all == RequestEnds(stream, start, max)
           N == Cardinality(few)
           rest == RequestsIn(stream, e, max)
           whole == RequestsIn(stream, start, max)
           P == Pieces(stream, max)
<1>1. Len(stream) \in Nat /\ start \in Nat /\ start \in 0..Len(stream)
  BY LenProperties
<1>2. e \in start + 1..Len(stream)
  BY NextEndIs
<1>3. e \in 1..Len(stream) /\ e \in 0..Len(stream)
  BY <1>1, <1>2
<1>4. /\ all = IF line = <<>> THEN few ELSE {e} \cup few
      /\ \A d \in few : d > e /\ d \in 1..Len(stream) /\ LineTo(stream, start, d) = LineTo(stream, e, d)
  BY FirstLineRead
<1>5. line \in P
  BY <1>1, <1>3 DEF Pieces
<1> HIDE DEF e
<1>6. /\ few \in SUBSET (1..Len(stream)) /\ N \in Nat
      /\ rest \in Seq(P) /\ Len(rest) = N
      /\ whole \in Seq(P) /\ Len(whole) = Cardinality(all)
      /\ Cardinality(all) \in Nat
  BY <1>1, <1>3, RequestsInSeq
<1>7. \A k \in 1..N : Place(few, k) \in few
  BY <1>1, <1>6, PlacesAreNumbered
<1>8. /\ \A k \in 1..N : rest[k] = Trim(LineTo(stream, e, Place(few, k)))
      /\ \A k \in 1..Cardinality(all) : whole[k] = Trim(LineTo(stream, start, Place(all, k)))
  BY RequestsAre
<1> HIDE DEF line, few, all, N, rest, whole, P
<1>9. \A k \in 1..N : rest[k] = Trim(LineTo(stream, start, Place(few, k)))
  BY <1>4, <1>7, <1>8
<1>10. CASE line = <<>>
  <2>1. all = few
    BY <1>4, <1>10
  <2>2. Len(whole) = Len(rest) /\ \A k \in 1..Len(rest) : whole[k] = rest[k]
    BY <1>6, <1>8, <1>9, <2>1 DEF N
  <2>3. whole = rest
    BY <1>6, <2>2, SeqEqual
  <2>4. << >> \o rest = rest
    BY <1>6, ConcatEmptySeq
  <2> QED
    BY <1>5, <1>10, <2>3, <2>4 DEF line, rest, whole, P, e
<1>11. CASE line # <<>>
  <2>1. all = {e} \cup few
    BY <1>4, <1>11
  <2>2. /\ Cardinality(all) = N + 1 /\ Place(all, 1) = e
        /\ \A k \in 1..N : Place(all, k + 1) = Place(few, k)
    <3>1. \A i \in few : e < i
      BY <1>1, <1>2, <1>4
    <3> QED
      BY ZenonT(30), <1>1, <1>3, <1>6, <2>1, <3>1, PlacesFollow DEF N
  <2> DEFINE joined == <<line>> \o rest
  <2>3. <<line>> \in Seq(P) /\ Len(<<line>>) = 1 /\ <<line>>[1] = line
    BY <1>5
  <2>4. /\ joined \in Seq(P) /\ Len(joined) = N + 1
        /\ \A k \in 1..N + 1 : joined[k] = IF k <= 1 THEN line ELSE rest[k - 1]
    <3> DEFINE f == <<line>>
               m == 1
               n == N + 1
    <3>1. /\ f \in Seq(P) /\ m = Len(f) /\ n = m + Len(rest) /\ f[1] = line
          /\ \A k \in 1..n : k <= m => k = 1
      BY <1>6, <2>3
    <3> HIDE DEF f, m, n
    <3>2. /\ f \o rest \in Seq(P) /\ Len(f \o rest) = n
          /\ \A k \in 1..n : (f \o rest)[k] = IF k <= m THEN f[k] ELSE rest[k - m]
      <4>1. f \in Seq(P) /\ rest \in Seq(P) /\ m = Len(f) /\ n = m + Len(rest)
        BY <1>6, <3>1
      <4> HIDE DEF joined
      <4> QED
        BY <4>1, JoinedProperties
    <3>3. \A k \in 1..n : (f \o rest)[k] = IF k <= m THEN line ELSE rest[k - m]
      BY <3>1, <3>2
    <3> QED
      BY <3>2, <3>3 DEF f, m, n
  <2> HIDE DEF joined
  <2>5. ASSUME NEW k \in 1..N + 1 PROVE whole[k] = joined[k]
    <3>1. CASE k = 1
      <4>1. whole[1] = line
        BY <1>6, <1>8, <2>2 DEF line
      <4> QED
        BY <1>6, <2>4, <3>1, <4>1
    <3>2. CASE k # 1
      <4>1. k - 1 \in 1..N /\ (k - 1) + 1 = k /\ ~(k <= 1)
        BY <1>6, <3>2
      <4>2. whole[k] = Trim(LineTo(stream, start, Place(few, k - 1)))
        BY <1>8, <2>2, <4>1
      <4> QED
        BY <1>9, <2>4, <4>1, <4>2
    <3> QED
      BY <3>1, <3>2
  <2>6. whole = joined
    BY <1>6, <2>2, <2>4, <2>5, SeqEqual
  <2> QED
    BY <1>5, <1>11, <2>6 DEF line, rest, whole, joined, P, e
<1> QED
  BY <1>10, <1>11

\* What is said from a position on, by the line that is read there.
LEMMA SaidUnfolds ==
    ASSUME NEW S, NEW stream \in Seq(S), NEW cuts \in SUBSET Nat, NEW max \in Nat, NEW start \in 0..Len(stream)
    PROVE  LET got == ReadLine(stream, cuts, start, max)
               line == Trim(SubSeq(stream, start + 1, got.end))
           IN  /\ got.error = "none" /\ got.end # start => got.end \in start + 1..Len(stream)
               /\ Said(stream, start, max) =
                      IF got.error # "none" THEN <<<<got.error>>>>
                      ELSE IF got.end = start THEN <<<<"disconnected">>>>
                      ELSE (IF line = <<>> THEN <<>> ELSE <<line>>) \o Said(stream, got.end, max)
<1> DEFINE got == ReadLine(stream, cuts, start, max)
           e == NextEnd(stream, start)
           first == SubSeq(stream, start + 1, e)
           error == LineError(first, max)
<1>1. Len(stream) \in Nat /\ start \in Nat
  BY LenProperties
<1>2. /\ start = Len(stream) => got.end = start /\ got.error = "none"
      /\ start # Len(stream) => got.error = error /\ (error = "none" => got.end = e)
  BY ReadLineIs
<1> HIDE DEF got
<1>3. CASE start = Len(stream)
  <2>1. RequestsIn(stream, start, max) = <<>> /\ EndOf(stream, start, max) = "disconnected"
    <3>1. RequestsIn(stream, Len(stream), max) = <<>> /\ EndOf(stream, Len(stream), max) = "disconnected"
      BY AtTheEnd
    <3> QED
      BY <1>3, <3>1
  <2>2. Said(stream, start, max) = <<<<"disconnected">>>>
    BY <2>1 DEF Said
  <2> QED
    BY <1>2, <1>3, <2>2 DEF got
<1>4. CASE start # Len(stream)
  <2>0. start \in 0..Len(stream) - 1
    BY <1>1, <1>4
  <2>1. LineTo(stream, start, e) = first
    BY <2>0, FirstLineIs
  <2>2. e \in start + 1..Len(stream) /\ e \in 0..Len(stream) /\ e # start
    <3>1. e \in start + 1..Len(stream)
      BY <2>0, NextEndIs
    <3> HIDE DEF e
    <3> QED
      BY <1>1, <3>1
  <2> HIDE DEF first
  <2>3. CASE error # "none"
    <3>1. RequestsIn(stream, start, max) = <<>> /\ EndOf(stream, start, max) = error
      BY <2>0, <2>1, <2>3, FirstLineFails
    <3>2. Said(stream, start, max) = <<<<error>>>>
      BY <3>1 DEF Said
    <3> QED
      BY <1>2, <1>4, <2>3, <3>2 DEF got
  <2>4. CASE error = "none"
    <3> DEFINE line == Trim(first)
               head == IF line = <<>> THEN <<>> ELSE <<line>>
               rest == RequestsIn(stream, e, max)
               last == <<EndOf(stream, e, max)>>
               P == Pieces(stream, max)
    <3>1. RequestsIn(stream, start, max) = head \o rest /\ line \in P
      BY <2>0, <2>1, <2>4, RequestsUnfold
    <3>2. EndOf(stream, start, max) = EndOf(stream, e, max)
      BY <2>0, <2>1, <2>4, FirstLineRead
    <3>3. rest \in Seq(P) /\ last \in P
      BY <2>2, RequestsInSeq
    <3>4. head \in Seq(P)
      <4> HIDE DEF line, P
      <4> QED
        BY <3>1
    <3>5. head \o Append(rest, last) = Append(head \o rest, last)
      <4> HIDE DEF head, rest, last, P
      <4> QED
        BY <3>3, <3>4, AppendAfterConcat
    <3>6. Said(stream, start, max) = head \o Said(stream, e, max)
      BY <3>1, <3>2, <3>5 DEF Said
    <3>7. got.error = "none" /\ got.end = e
      BY <1>2, <1>4, <2>4
    <3> HIDE DEF e, line
    <3>8. Trim(SubSeq(stream, start + 1, got.end)) = line
      BY <3>7 DEF line, first, e
    <3> QED
      BY <2>2, <3>6, <3>7, <3>8 DEF got
  <2> QED
    BY <2>3, <2>4
<1> QED
  BY <1>3, <1>4

\* The function that a connection's loop is by its recursion over the lines.
Serves(from, stream, cuts, max) ==
    from = [start \in 0..Len(stream) |->
            LET got == ReadLine(stream, cuts, start, max)
                line == Trim(SubSeq(stream, start + 1, got.end))
            IN IF got.error # "none" THEN <<<<got.error>>>>
               ELSE IF got.end = start THEN <<<<"disconnected">>>>
               ELSE (IF line = <<>> THEN <<>> ELSE <<line>>) \o from[got.end]]

LEMMA ServesExists ==
    ASSUME NEW S, NEW stream \in Seq(S), NEW cuts \in SUBSET Nat, NEW max \in Nat
    PROVE  \E from : Serves(from, stream, cuts, max)
<1> DEFINE f == [start \in 0..Len(stream) |-> Said(stream, start, max)]
<1>1. Len(stream) \in Nat
  BY LenProperties
<1>2. ASSUME NEW start \in 0..Len(stream)
      PROVE  f[start] = LET got == ReadLine(stream, cuts, start, max)
                            line == Trim(SubSeq(stream, start + 1, got.end))
                        IN IF got.error # "none" THEN <<<<got.error>>>>
                           ELSE IF got.end = start THEN <<<<"disconnected">>>>
                           ELSE (IF line = <<>> THEN <<>> ELSE <<line>>) \o f[got.end]
  <2> DEFINE got == ReadLine(stream, cuts, start, max)
             line == Trim(SubSeq(stream, start + 1, got.end))
  <2>1. /\ got.error = "none" /\ got.end # start => got.end \in start + 1..Len(stream)
        /\ Said(stream, start, max) =
               IF got.error # "none" THEN <<<<got.error>>>>
               ELSE IF got.end = start THEN <<<<"disconnected">>>>
               ELSE (IF line = <<>> THEN <<>> ELSE <<line>>) \o Said(stream, got.end, max)
    BY SaidUnfolds
  <2>2. f[start] = Said(stream, start, max)
    OBVIOUS
  <2>3. got.error = "none" /\ got.end # start => f[got.end] = Said(stream, got.end, max)
    <3> HIDE DEF got
    <3>1. got.error = "none" /\ got.end # start => got.end \in 0..Len(stream)
      BY <1>1, <2>1
    <3> QED
      BY <3>1
  <2> HIDE DEF f, got
  <2> QED
    BY <2>1, <2>2, <2>3 DEF got
<1>3. f = [start \in 0..Len(stream) |->
             LET got == ReadLine(stream, cuts, start, max)
                 line == Trim(SubSeq(stream, start + 1, got.end))
             IN IF got.error # "none" THEN <<<<got.error>>>>
                ELSE IF got.end = start THEN <<<<"disconnected">>>>
                ELSE (IF line = <<>> THEN <<>> ELSE <<line>>) \o f[got.end]]
  <2>1. f = [start \in 0..Len(stream) |-> f[start]]
    OBVIOUS
  <2> HIDE DEF f
  <2> QED
    BY <1>2, <2>1, Zenon
<1> QED
  BY <1>3 DEF Serves

LEMMA ServesIs ==
    ASSUME NEW S, NEW stream \in Seq(S), NEW cuts \in SUBSET Nat, NEW max \in Nat,
           NEW from, Serves(from, stream, cuts, max)
    PROVE  \A start \in 0..Len(stream) : from[start] = Said(stream, start, max)
<1> DEFINE T == {k \in Nat : k \in 0..Len(stream) => from[Len(stream) - k] = Said(stream, Len(stream) - k, max)}
<1>1. Len(stream) \in Nat
  BY LenProperties
<1>2. ASSUME NEW n \in Nat, \A k \in 0..n - 1 : k \in T PROVE n \in T
  <2> DEFINE p == Len(stream) - n
             got == ReadLine(stream, cuts, p, max)
             line == Trim(SubSeq(stream, p + 1, got.end))
  <2> SUFFICES ASSUME n \in 0..Len(stream) PROVE from[p] = Said(stream, p, max)
    OBVIOUS
  <2>1. p \in 0..Len(stream) /\ p \in Nat
    BY <1>1
  <2>2. from[p] = IF got.error # "none" THEN <<<<got.error>>>>
                  ELSE IF got.end = p THEN <<<<"disconnected">>>>
                  ELSE (IF line = <<>> THEN <<>> ELSE <<line>>) \o from[got.end]
    <3> HIDE DEF p
    <3> QED
      BY <2>1, Zenon DEF Serves
  <2>3. /\ got.error = "none" /\ got.end # p => got.end \in p + 1..Len(stream)
        /\ Said(stream, p, max) =
               IF got.error # "none" THEN <<<<got.error>>>>
               ELSE IF got.end = p THEN <<<<"disconnected">>>>
               ELSE (IF line = <<>> THEN <<>> ELSE <<line>>) \o Said(stream, got.end, max)
    <3> HIDE DEF p
    <3> QED
      BY <2>1, SaidUnfolds
  <2>4. ASSUME got.error = "none", got.end # p
        PROVE  from[got.end] = Said(stream, got.end, max)
    <3>1. got.end \in p + 1..Len(stream)
      BY <2>3, <2>4
    <3> HIDE DEF got
    <3> DEFINE k == Len(stream) - got.end
    <3>2. k \in 0..n - 1 /\ k \in 0..Len(stream) /\ Len(stream) - k = got.end
      BY <1>1, <2>1, <3>1
    <3> HIDE DEF k, p
    <3> QED
      BY <1>2, <3>2
  <2> HIDE DEF p, got, line, T
  <2> QED
    BY <2>2, <2>3, <2>4
<1>3. Nat \subseteq T
  <2> HIDE DEF T
  <2> QED
    BY <1>2, StrongInduction
<1>4. ASSUME NEW start \in 0..Len(stream) PROVE from[start] = Said(stream, start, max)
  <2> DEFINE k == Len(stream) - start
  <2>1. k \in Nat /\ k \in 0..Len(stream) /\ Len(stream) - k = start
    BY <1>1
  <2> HIDE DEF k
  <2> QED
    BY <1>3, <2>1
<1> QED
  BY <1>4

\* The requests that a connection's loop gets from its stream, and how it ends, are those
\* that the stream says, for every stream, every limit and every way to
\* cut it into chunks (read_line_bounded, handle_connection).
THEOREM EveryStreamReceived ==
    ASSUME NEW S, NEW stream \in Seq(S), NEW cuts \in SUBSET Nat, NEW max \in Nat
    PROVE  Received(stream, cuts, max) = Append(RequestsIn(stream, 0, max), <<EndOf(stream, 0, max)>>)
<1> DEFINE from == CHOOSE f : Serves(f, stream, cuts, max)
<1>1. Serves(from, stream, cuts, max)
  BY ServesExists
<1>2. Received(stream, cuts, max) = from[0]
  BY DEF Received, Serves
<1>3. 0 \in 0..Len(stream)
  BY LenProperties
<1> HIDE DEF from
<1> QED
  BY <1>1, <1>2, <1>3, ServesIs DEF Said

LEMMA EveryLineIsSent == EveryLineAsSent
<1> SUFFICES ASSUME NEW stream \in Streams, NEW cuts \in SUBSET (1..Len(stream) - 1)
             PROVE  Received(stream, cuts, MaxRequest) =
                        Append(RequestsIn(stream, 0, MaxRequest), <<EndOf(stream, 0, MaxRequest)>>)
  BY DEF EveryLineAsSent
<1>1. stream \in Seq(Bytes) /\ MaxRequest \in Nat
  BY FramingAssumption
<1>2. cuts \in SUBSET Nat
  BY <1>1, LenProperties
<1> QED
  BY <1>1, <1>2, EveryStreamReceived

\* Every connection's task reads the requests that its stream says, however the bytes
\* arrive: those of the lines up to the first that cannot be read
\* (read_line_bounded, handle_connection).
THEOREM RequestsAlwaysAsSent == Spec => []RequestsAsSent
<1>1. RequestsAsSent
  BY EveryLineIsSent DEF RequestsAsSent
<1> QED
  BY <1>1, PTL
-----------------------------------------------------------------------------
(* How text is encoded.                                                     *)

LEMMA Utf8Typed == ASSUME NEW code \in Nat PROVE Utf8(code) \in Seq(Nat)
<1>1. CASE code < 128
  <2>1. <<code>> \in Seq(Nat)
    OBVIOUS
  <2> QED
    BY <1>1, <2>1 DEF Utf8
<1>2. CASE ~(code < 128)
  <2> DEFINE lead == 192 + code \div 64
             tail == 128 + (code % 64)
  <2>1. lead \in Nat /\ tail \in Nat
    OBVIOUS
  <2>2. Utf8(code) = <<lead, tail>>
    BY <1>2 DEF Utf8
  <2> HIDE DEF lead, tail
  <2>3. <<lead, tail>> \in Seq(Nat)
    BY <2>1
  <2> QED
    BY <2>2, <2>3
<1> QED
  BY <1>1, <1>2

LEMMA PiecesTyped ==
    ASSUME NEW text \in Seq(Nat)
    PROVE  /\ [i \in DOMAIN text |-> Utf8(text[i])] \in Seq(Seq(Nat))
           /\ Len([i \in DOMAIN text |-> Utf8(text[i])]) = Len(text)
<1> DEFINE n == Len(text)
<1>1. n \in Nat /\ DOMAIN text = 1..n /\ \A i \in 1..n : text[i] \in Nat
  BY LenProperties
<1>2. \A i \in 1..n : Utf8(text[i]) \in Seq(Nat)
  BY <1>1, Utf8Typed
<1> HIDE DEF n
<1>3. [i \in 1..n |-> Utf8(text[i])] \in [1..n -> Seq(Nat)]
  BY <1>2
<1>4. [i \in 1..n |-> Utf8(text[i])] \in Seq(Seq(Nat)) /\ Len([i \in 1..n |-> Utf8(text[i])]) = n
  BY <1>1, <1>3, SeqDef, LenProperties
<1> QED
  BY <1>1, <1>4 DEF n

LEMMA WideTyped ==
    ASSUME NEW text \in Seq(Nat) PROVE Wide(text) \in Seq(Nat)
  BY PiecesTyped, FlattenType DEF Wide

\* What the first character adds to the bytes.
LEMMA WideFirst ==
    ASSUME NEW code \in Nat, NEW text \in Seq(Nat)
    PROVE  Wide(<<code>> \o text) = Utf8(code) \o Wide(text)
<1> DEFINE whole == <<code>> \o text
           pieces == [i \in DOMAIN whole |-> Utf8(whole[i])]
           later == [i \in DOMAIN text |-> Utf8(text[i])]
           n == Len(text)
<1>1. n \in Nat /\ <<code>> \in Seq(Nat) /\ DOMAIN text = 1..n
  BY LenProperties
<1>2. /\ whole \in Seq(Nat) /\ Len(whole) = n + 1 /\ whole[1] = code
      /\ \A i \in 1..n : whole[i + 1] = text[i]
  BY <1>1, ConcatProperties
<1> HIDE DEF whole
<1>3. DOMAIN whole = 1..n + 1
  BY <1>2, LenProperties
<1>4. pieces \in Seq(Seq(Nat)) /\ Len(pieces) = n + 1 /\ later \in Seq(Seq(Nat)) /\ Len(later) = n
  BY <1>2, PiecesTyped
<1>5. pieces[1] = Utf8(code) /\ \A i \in 1..n : pieces[i + 1] = later[i]
  <2>1. \A i \in 1..n : i + 1 \in 1..n + 1 /\ 1 \in 1..n + 1
    BY <1>1
  <2>2. 1 \in 1..n + 1
    BY <1>1
  <2> QED
    BY <1>1, <1>2, <1>3, <2>1, <2>2
<1> HIDE DEF pieces, later
<1>6. Len(pieces) # 0 /\ pieces # <<>>
  BY <1>1, <1>4
<1>7. Head(pieces) = Utf8(code) /\ Tail(pieces) = later
  <2>1. /\ Tail(pieces) \in Seq(Seq(Nat)) /\ Len(Tail(pieces)) = n
        /\ \A i \in 1..n : Tail(pieces)[i] = later[i]
    BY <1>1, <1>4, <1>5
  <2>2. Tail(pieces) = later
    BY <1>4, <2>1, SeqEqual
  <2>3. Head(pieces) = pieces[1]
    BY <1>4, <1>6
  <2> QED
    BY <1>5, <2>2, <2>3
<1>8. FlattenSeq(pieces) = Utf8(code) \o FlattenSeq(later)
  BY <1>4, <1>6, <1>7, FlattenHeadTail
<1> QED
  BY <1>8 DEF Wide, pieces, later, whole

LEMMA WideEmpty == Wide(<<>>) = <<>>
<1>1. [i \in DOMAIN << >> |-> Utf8(<< >>[i])] = <<>>
  OBVIOUS
<1> QED
  BY <1>1, FlattenEmpty DEF Wide

LEMMA WideOne == ASSUME NEW code \in Nat PROVE Wide(<<code>>) = Utf8(code)
<1>1. <<>> \in Seq(Nat) /\ <<code>> \in Seq(Nat)
  OBVIOUS
<1>2. <<code>> \o <<>> = <<code>>
  BY <1>1, ConcatEmptySeq
<1>3. Utf8(code) \o <<>> = Utf8(code)
  BY Utf8Typed, ConcatEmptySeq
<1> QED
  BY <1>1, <1>2, <1>3, WideFirst, WideEmpty

\* Two texts after each other.
LEMMA WideJoined ==
    ASSUME NEW s \in Seq(Nat), NEW t \in Seq(Nat)
    PROVE  Wide(s \o t) = Wide(s) \o Wide(t)
<1> DEFINE T == {n \in Nat : \A u \in Seq(Nat) : Len(u) = n => Wide(u \o t) = Wide(u) \o Wide(t)}
<1>1. 0 \in T
  <2> SUFFICES ASSUME NEW u \in Seq(Nat), Len(u) = 0 PROVE Wide(u \o t) = Wide(u) \o Wide(t)
    OBVIOUS
  <2>1. u = <<>>
    BY EmptySeq
  <2>2. <<>> \o t = t /\ <<>> \o Wide(t) = Wide(t)
    BY WideTyped, ConcatEmptySeq
  <2> QED
    BY <2>1, <2>2, WideEmpty
<1>2. ASSUME NEW n \in Nat, n \in T PROVE n + 1 \in T
  <2> SUFFICES ASSUME NEW u \in Seq(Nat), Len(u) = n + 1 PROVE Wide(u \o t) = Wide(u) \o Wide(t)
    OBVIOUS
  <2> DEFINE h == Head(u)
             v == Tail(u)
  <2>1. u # <<>>
    OBVIOUS
  <2>2. h \in Nat /\ v \in Seq(Nat) /\ Len(v) = n /\ u = <<h>> \o v
    BY <2>1, HeadTailProperties, HeadFirst
  <2>3. Wide(v \o t) = Wide(v) \o Wide(t)
    BY <1>2, <2>2
  <2> HIDE DEF h, v, T
  <2>4. <<h>> \in Seq(Nat) /\ v \o t \in Seq(Nat)
    BY <2>2, ConcatProperties
  <2>5. u \o t = <<h>> \o (v \o t)
    BY <2>2, <2>4, ConcatAssociative
  <2>6. Wide(u \o t) = Utf8(h) \o (Wide(v) \o Wide(t)) /\ Wide(u) = Utf8(h) \o Wide(v)
    BY <2>2, <2>3, <2>4, <2>5, WideFirst
  <2>7. Utf8(h) \in Seq(Nat) /\ Wide(v) \in Seq(Nat) /\ Wide(t) \in Seq(Nat)
    BY <2>2, Utf8Typed, WideTyped
  <2> DEFINE a == Utf8(h)
             b == Wide(v)
             c == Wide(t)
  <2> HIDE DEF a, b, c
  <2>8. (a \o b) \o c = a \o (b \o c)
    <3>1. a \in Seq(Nat) /\ b \in Seq(Nat) /\ c \in Seq(Nat)
      BY <2>7 DEF a, b, c
    <3> QED
      BY SMTT(30), <3>1, ConcatAssociative
  <2> QED
    BY <2>6, <2>8 DEF a, b, c
<1>3. Nat \subseteq T
  <2> HIDE DEF T
  <2> QED
    BY <1>1, <1>2, SetInduction
<1>4. Len(s) \in T
  BY <1>3, LenProperties
<1> QED
  BY <1>4

\* What stands after a backslash and an x.
LEMMA HexAtIs ==
    ASSUME NEW text \in Seq(Nat), NEW i \in 1..Len(text), i < Len(text)
    PROVE  LET hex == HexAt(text, i)
           IN  /\ hex \in Seq(Nat) /\ Len(hex) \in 0..2 /\ i + 1 + Len(hex) \in i + 1..Len(text)
               /\ Len(hex) = IF i + 3 < Len(text) THEN 2 ELSE Len(text) - i - 1
               /\ \A j \in 1..Len(hex) : hex[j] = text[i + 1 + j]
<1> DEFINE m == i + 2
           n == IF i + 3 < Len(text) THEN i + 3 ELSE Len(text)
           hex == HexAt(text, i)
<1>1. Len(text) \in Nat
  BY LenProperties
<1>2. m \in 1..Len(text) + 1 /\ n \in m - 1..Len(text) /\ n - m + 1 \in 0..2
  BY <1>1
<1>3. hex = SubSeq(text, m, n)
  BY DEF HexAt
<1>4. \A j \in 1..n - m + 1 : m + j - 1 = i + 1 + j
  BY <1>1
<1>5. i + 1 + (n - m + 1) = n /\ n - m + 1 = IF i + 3 < Len(text) THEN 2 ELSE Len(text) - i - 1
  <2>1. CASE i + 3 < Len(text)
    BY <1>1, <2>1
  <2>2. CASE ~(i + 3 < Len(text))
    BY <1>1, <2>2
  <2> QED
    BY <2>1, <2>2
<1>6. n \in i + 1..Len(text)
  BY <1>1
<1> HIDE DEF m, n, hex
<1>7. hex \in Seq(Nat) /\ Len(hex) = n - m + 1 /\ \A j \in 1..n - m + 1 : hex[j] = text[m + j - 1]
  BY <1>2, <1>3, CutProperties
<1> QED
  BY <1>2, <1>4, <1>5, <1>6, <1>7 DEF hex

LEMMA HexByteTyped ==
    ASSUME NEW hex \in Seq(Nat), IsHexByte(hex) PROVE HexByte(hex) \in Nat
<1>1. hex[1] \in Nat /\ hex[2] \in Nat /\ (IsHex(hex[1]) \/ hex[1] = Plus) /\ IsHex(hex[2])
  <2>1. Len(hex) = 2 /\ (IsHex(hex[1]) \/ hex[1] = Plus) /\ IsHex(hex[2])
    BY DEF IsHexByte
  <2>2. 1 \in 1..Len(hex) /\ 2 \in 1..Len(hex)
    BY <2>1
  <2> QED
    BY <2>1, <2>2, ElementOfSeq
<1>2. \A code \in Nat : IsHex(code) => HexDigit(code) \in Nat
  BY DEF IsHex, HexDigit, ToUpper, IsLower
<1> QED
  BY <1>1, <1>2 DEF HexByte

LEMMA EscapesAre ==
    /\ DOMAIN SimpleEscape = {110, 114, 116, 92}
    /\ SimpleEscape[110] = 10 /\ SimpleEscape[114] = 13 /\ SimpleEscape[116] = 9 /\ SimpleEscape[92] = 92
    /\ LetterX \notin DOMAIN SimpleEscape /\ 0 \notin DOMAIN SimpleEscape
  BY DEF SimpleEscape, Backslash, LetterX

\* What a token is, by the character it begins with and the next one.
LEMMA TokenIs ==
    ASSUME NEW text, NEW i
    PROVE  LET next == NextAt(text, i)
               hex == HexAt(text, i)
               token == TokenAt(text, i)
           IN  /\ text[i] # Backslash => token = [bytes |-> Utf8(text[i]), taken |-> 1]
               /\ text[i] = Backslash =>
                      /\ next \in DOMAIN SimpleEscape => token = [bytes |-> <<SimpleEscape[next]>>, taken |-> 2]
                      /\ next \notin DOMAIN SimpleEscape /\ next # LetterX =>
                             token = [bytes |-> <<Backslash>>, taken |-> 1]
                      /\ next = LetterX /\ IsHexByte(hex) =>
                             token = [bytes |-> <<HexByte(hex)>>, taken |-> 2 + Len(hex)]
                      /\ next = LetterX /\ ~IsHexByte(hex) =>
                             token = [bytes |-> <<Backslash, LetterX>> \o Wide(hex), taken |-> 2 + Len(hex)]
<1> DEFINE next == NextAt(text, i)
           hex == HexAt(text, i)
<1>1. TokenAt(text, i) =
          IF text[i] # Backslash THEN [bytes |-> Utf8(text[i]), taken |-> 1]
          ELSE IF next \in DOMAIN SimpleEscape THEN [bytes |-> <<SimpleEscape[next]>>, taken |-> 2]
          ELSE IF next # LetterX THEN [bytes |-> <<Backslash>>, taken |-> 1]
          ELSE [bytes |-> IF IsHexByte(hex) THEN <<HexByte(hex)>> ELSE <<Backslash, LetterX>> \o Wide(hex),
                taken |-> 2 + Len(hex)]
  BY DEF TokenAt, NextAt
<1>2. LetterX \notin DOMAIN SimpleEscape
  BY EscapesAre
<1> HIDE DEF next, hex
<1> QED
  BY <1>1, <1>2 DEF next, hex

LEMMA TokenAdvances ==
    ASSUME NEW text \in Seq(Nat), NEW i \in 1..Len(text)
    PROVE  LET token == TokenAt(text, i)
           IN  token.bytes \in Seq(Nat) /\ token.taken \in 1..4 /\ i + token.taken \in i + 1..Len(text) + 1
<1> DEFINE next == NextAt(text, i)
           hex == HexAt(text, i)
           token == TokenAt(text, i)
<1>1. Len(text) \in Nat /\ text[i] \in Nat /\ (i < Len(text) => text[i + 1] \in Nat)
  BY LenProperties
<1>2. next # 0 => i < Len(text)
  BY DEF NextAt
<1>3. /\ text[i] # Backslash => token = [bytes |-> Utf8(text[i]), taken |-> 1]
      /\ text[i] = Backslash =>
             /\ next \in DOMAIN SimpleEscape => token = [bytes |-> <<SimpleEscape[next]>>, taken |-> 2]
             /\ next \notin DOMAIN SimpleEscape /\ next # LetterX =>
                    token = [bytes |-> <<Backslash>>, taken |-> 1]
             /\ next = LetterX /\ IsHexByte(hex) =>
                    token = [bytes |-> <<HexByte(hex)>>, taken |-> 2 + Len(hex)]
             /\ next = LetterX /\ ~IsHexByte(hex) =>
                    token = [bytes |-> <<Backslash, LetterX>> \o Wide(hex), taken |-> 2 + Len(hex)]
  BY TokenIs
<1>4. i < Len(text) => hex \in Seq(Nat) /\ Len(hex) \in 0..2 /\ i + 1 + Len(hex) \in i + 1..Len(text)
  BY HexAtIs
<1> HIDE DEF next, hex, token
<1>5. CASE text[i] # Backslash
  <2>1. token.bytes = Utf8(text[i]) /\ token.taken = 1
    BY <1>3, <1>5
  <2>2. token.bytes \in Seq(Nat)
    BY <1>1, <2>1, Utf8Typed
  <2> QED
    BY <1>1, <2>1, <2>2 DEF token
<1>6. CASE text[i] = Backslash /\ next \in DOMAIN SimpleEscape
  <2>1. next # 0 /\ SimpleEscape[next] \in Nat
    BY <1>6, EscapesAre
  <2>2. token.bytes = <<SimpleEscape[next]>> /\ token.taken = 2
    BY <1>3, <1>6
  <2>3. token.bytes \in Seq(Nat)
    BY <2>1, <2>2
  <2> QED
    BY <1>1, <1>2, <2>1, <2>2, <2>3 DEF token
<1>7. CASE text[i] = Backslash /\ next \notin DOMAIN SimpleEscape /\ next # LetterX
  <2>1. token.bytes = <<Backslash>> /\ token.taken = 1
    BY <1>3, <1>7
  <2>2. token.bytes \in Seq(Nat)
    BY <2>1 DEF Backslash
  <2> QED
    BY <1>1, <2>1, <2>2 DEF token
<1>8. CASE text[i] = Backslash /\ next = LetterX
  <2>1. i < Len(text)
    BY <1>2, <1>8 DEF LetterX
  <2>2. hex \in Seq(Nat) /\ Len(hex) \in 0..2 /\ i + 1 + Len(hex) \in i + 1..Len(text)
    BY <1>4, <2>1
  <2>3. IsHexByte(hex) => <<HexByte(hex)>> \in Seq(Nat)
    BY <2>2, HexByteTyped
  <2>4. <<Backslash, LetterX>> \o Wide(hex) \in Seq(Nat)
    <3>1. <<Backslash, LetterX>> \in Seq(Nat)
      BY DEF Backslash, LetterX
    <3> QED
      BY <2>2, <3>1, WideTyped, ConcatProperties
  <2>5. ASSUME IsHexByte(hex) PROVE token.bytes \in Seq(Nat) /\ token.taken = 2 + Len(hex)
    <3>1. token.bytes = <<HexByte(hex)>> /\ token.taken = 2 + Len(hex)
      BY <1>3, <1>8, <2>5
    <3> QED
      BY <2>3, <2>5, <3>1
  <2>6. ASSUME ~IsHexByte(hex) PROVE token.bytes \in Seq(Nat) /\ token.taken = 2 + Len(hex)
    <3>1. token.bytes = <<Backslash, LetterX>> \o Wide(hex) /\ token.taken = 2 + Len(hex)
      BY <1>3, <1>8, <2>6
    <3> QED
      BY <2>4, <3>1
  <2>7. token.bytes \in Seq(Nat) /\ token.taken = 2 + Len(hex)
    BY <2>5, <2>6
  <2> DEFINE h == Len(hex)
  <2> HIDE DEF h
  <2>8. Len(text) \in Nat /\ h \in 0..2 /\ i + 1 + h <= Len(text)
    BY <1>1, <2>2 DEF h
  <2>9. 2 + h \in 1..4 /\ i + (2 + h) \in i + 1..Len(text) + 1
    BY <2>8
  <2> QED
    BY <2>7, <2>9 DEF token, h
<1> QED
  BY <1>5, <1>6, <1>7, <1>8

\* f is what EncodeText defines by recursion, from the k-th character on.
Encodes(f, text, k) ==
    f = [i \in k..Len(text) + 1 |->
            IF i > Len(text) THEN <<>>
            ELSE LET token == TokenAt(text, i)
                 IN token.bytes \o f[i + token.taken]]

\* What the text says from a character on.
SaidFrom(text, i) == (CHOOSE f : Encodes(f, text, 1))[i]

LEMMA EncodesAt ==
    ASSUME NEW f, NEW text, NEW k, Encodes(f, text, k), NEW i \in k..Len(text) + 1
    PROVE  f[i] = IF i > Len(text) THEN <<>>
                  ELSE TokenAt(text, i).bytes \o f[i + TokenAt(text, i).taken]
  BY Zenon DEF Encodes

LEMMA EncodesExists ==
    ASSUME NEW text \in Seq(Nat)
    PROVE  \E f : Encodes(f, text, 1)
<1> DEFINE n == Len(text)
           T == {m \in Nat : m \in 0..n => \E f : Encodes(f, text, n + 1 - m)}
<1>0. n \in Nat
  BY LenProperties
<1>1. 0 \in T
  <2> DEFINE f == [i \in n + 1 - 0..n + 1 |-> << >>]
  <2>1. \A i \in n + 1 - 0..n + 1 : i > n
    BY <1>0
  <2>2. f = [i \in n + 1 - 0..n + 1 |->
                IF i > n THEN <<>>
                ELSE LET token == TokenAt(text, i)
                     IN token.bytes \o f[i + token.taken]]
    <3>1. f = [i \in n + 1 - 0..n + 1 |-> f[i]]
      OBVIOUS
    <3>2. \A i \in n + 1 - 0..n + 1 : f[i] = IF i > n THEN <<>>
                ELSE LET token == TokenAt(text, i)
                     IN token.bytes \o f[i + token.taken]
      BY <2>1
    <3> HIDE DEF f
    <3> QED
      BY <3>1, <3>2, Zenon
  <2>3. Encodes(f, text, n + 1 - 0)
    BY <2>2 DEF Encodes
  <2> QED
    BY <2>3
<1>2. ASSUME NEW m \in Nat, m \in T PROVE m + 1 \in T
  <2> SUFFICES ASSUME m + 1 \in 0..n PROVE \E f : Encodes(f, text, n + 1 - (m + 1))
    OBVIOUS
  <2> DEFINE k == n + 1 - (m + 1)
  <2>1. k \in 1..n /\ k + 1 = n + 1 - m /\ m \in 0..n
    BY <1>0
  <2>2. PICK f : Encodes(f, text, k + 1)
    BY <1>2, <2>1
  <2> HIDE DEF k, T
  <2> DEFINE here == TokenAt(text, k).bytes \o f[k + TokenAt(text, k).taken]
             g == [i \in k..n + 1 |-> IF i = k THEN here ELSE f[i]]
  <2>3. ASSUME NEW i \in k..n + 1
        PROVE  g[i] = IF i > n THEN <<>> ELSE TokenAt(text, i).bytes \o g[i + TokenAt(text, i).taken]
    <3>1. k \in Nat /\ n \in Nat /\ i \in Nat /\ k <= n
      BY <1>0, <2>1
    <3>2. i <= n => i + TokenAt(text, i).taken \in i + 1..n + 1
      <4>1. i <= n => i \in 1..n
        BY <2>1, <3>1
      <4> QED
        BY <4>1, TokenAdvances
    <3>3. CASE i = k
      <4>1. k + TokenAt(text, k).taken \in k + 1..n + 1
        BY <2>1, <3>1, <3>2, <3>3
      <4>2. \A j \in k + 1..n + 1 : j \in k..n + 1 /\ j # k
        BY <3>1
      <4>3. g[k + TokenAt(text, k).taken] = f[k + TokenAt(text, k).taken]
        BY <4>1, <4>2
      <4>4. k \in k..n + 1 /\ ~(k > n)
        BY <3>1
      <4>5. g[k] = here
        <5> HIDE DEF here
        <5> QED
          BY <4>4
      <4> QED
        BY <3>3, <4>3, <4>4, <4>5
    <3>4. CASE i # k
      <4>1. i \in k + 1..n + 1
        BY <3>1, <3>4
      <4>2. f[i] = IF i > n THEN <<>> ELSE TokenAt(text, i).bytes \o f[i + TokenAt(text, i).taken]
        BY <2>2, <4>1, EncodesAt
      <4>3. g[i] = f[i]
        BY <3>4
      <4>4. i <= n => g[i + TokenAt(text, i).taken] = f[i + TokenAt(text, i).taken]
        <5>1. \A j \in i + 1..n + 1 : j \in k..n + 1 /\ j # k
          BY <3>1, <4>1
        <5> QED
          BY <3>2, <5>1
      <4>5. i > n \/ i <= n
        BY <3>1
      <4> HIDE DEF g
      <4> QED
        BY <4>2, <4>3, <4>4, <4>5
    <3> QED
      BY <3>3, <3>4
  <2>4. g = [i \in k..n + 1 |-> g[i]]
    OBVIOUS
  <2> HIDE DEF g
  <2>5. g = [i \in k..n + 1 |->
                IF i > n THEN <<>> ELSE TokenAt(text, i).bytes \o g[i + TokenAt(text, i).taken]]
    BY <2>3, <2>4, Zenon
  <2>6. Encodes(g, text, k)
    BY <2>5 DEF Encodes
  <2> QED
    BY <2>6 DEF k
<1>3. Nat \subseteq T
  <2> HIDE DEF T
  <2> QED
    BY <1>1, <1>2, SetInduction
<1>4. n \in T /\ n \in 0..n /\ n + 1 - n = 1
  BY <1>0, <1>3
<1> QED
  BY <1>4

LEMMA EncodedIs ==
    ASSUME NEW text \in Seq(Nat)
    PROVE  /\ EncodeText(text) = SaidFrom(text, 1)
           /\ SaidFrom(text, Len(text) + 1) = <<>>
           /\ \A i \in 1..Len(text) :
                 SaidFrom(text, i) = TokenAt(text, i).bytes \o SaidFrom(text, i + TokenAt(text, i).taken)
<1> DEFINE f == CHOOSE g : Encodes(g, text, 1)
<1>1. Encodes(f, text, 1)
  BY EncodesExists
<1>2. EncodeText(text) = f[1]
  BY DEF EncodeText, Encodes
<1>3. \A i : SaidFrom(text, i) = f[i]
  BY DEF SaidFrom
<1> HIDE DEF f
<1>4. /\ Len(text) \in Nat /\ Len(text) + 1 \in 1..Len(text) + 1 /\ Len(text) + 1 > Len(text)
      /\ \A i \in 1..Len(text) : i \in 1..Len(text) + 1 /\ ~(i > Len(text))
  BY LenProperties
<1>5. f[Len(text) + 1] = <<>>
  BY <1>1, <1>4, EncodesAt
<1>6. ASSUME NEW i \in 1..Len(text)
      PROVE  f[i] = TokenAt(text, i).bytes \o f[i + TokenAt(text, i).taken]
  BY <1>1, <1>4, EncodesAt
<1> QED
  BY <1>2, <1>3, <1>5, <1>6

LEMMA EncodedTyped ==
    ASSUME NEW text \in Seq(Nat), NEW i \in 1..Len(text) + 1
    PROVE  SaidFrom(text, i) \in Seq(Nat)
<1> DEFINE n == Len(text)
           T == {k \in Nat : k \in 0..n => SaidFrom(text, n + 1 - k) \in Seq(Nat)}
<1>0. n \in Nat
  BY LenProperties
<1>1. ASSUME NEW m \in Nat, \A k \in 0..m - 1 : k \in T PROVE m \in T
  <2> SUFFICES ASSUME m \in 0..n PROVE SaidFrom(text, n + 1 - m) \in Seq(Nat)
    OBVIOUS
  <2>1. CASE m = 0
    <3>1. n + 1 - m = n + 1
      BY <1>0, <2>1
    <3>2. SaidFrom(text, n + 1) = <<>>
      BY EncodedIs
    <3>3. <<>> \in Seq(Nat)
      OBVIOUS
    <3> QED
      BY <3>1, <3>2, <3>3
  <2>2. CASE m # 0
    <3> DEFINE p == n + 1 - m
               token == TokenAt(text, p)
               k == n + 1 - (p + token.taken)
    <3>1. p \in 1..n
      BY <1>0, <2>2
    <3> HIDE DEF p
    <3>2. token.bytes \in Seq(Nat) /\ p + token.taken \in p + 1..n + 1
      BY <3>1, TokenAdvances
    <3>3. SaidFrom(text, p) = token.bytes \o SaidFrom(text, p + token.taken)
      BY <3>1, EncodedIs
    <3> HIDE DEF token
    <3>4. k \in 0..m - 1 /\ k \in 0..n /\ n + 1 - k = p + token.taken
      BY <1>0, <3>1, <3>2 DEF p
    <3> HIDE DEF k
    <3>5. SaidFrom(text, n + 1 - k) \in Seq(Nat)
      BY <1>1, <3>4
    <3>6. SaidFrom(text, p) \in Seq(Nat)
      BY <3>2, <3>3, <3>4, <3>5, ConcatProperties
    <3> QED
      BY <3>6 DEF p
  <2> QED
    BY <2>1, <2>2
<1>2. Nat \subseteq T
  <2> HIDE DEF T
  <2> QED
    BY <1>1, StrongInduction
<1>3. n + 1 - i \in T /\ n + 1 - i \in 0..n /\ n + 1 - (n + 1 - i) = i
  BY <1>0, <1>2
<1> QED
  BY <1>3

\* What decides about a token.
LEMMA TokenDetermined ==
    ASSUME NEW text, NEW i, NEW other, NEW j,
           text[i] = other[j], NextAt(text, i) = NextAt(other, j),
           NextAt(other, j) = LetterX => HexAt(text, i) = HexAt(other, j)
    PROVE  TokenAt(text, i) = TokenAt(other, j)
<1> DEFINE next == NextAt(other, j)
           hex == HexAt(other, j)
           a == TokenAt(text, i)
           b == TokenAt(other, j)
<1>1. CASE other[j] # Backslash
  <2>1. a = [bytes |-> Utf8(other[j]), taken |-> 1] /\ b = [bytes |-> Utf8(other[j]), taken |-> 1]
    BY <1>1, TokenIs
  <2> QED
    BY <2>1
<1>2. CASE other[j] = Backslash /\ next \in DOMAIN SimpleEscape
  <2>1. /\ a = [bytes |-> <<SimpleEscape[next]>>, taken |-> 2]
        /\ b = [bytes |-> <<SimpleEscape[next]>>, taken |-> 2]
    BY <1>2, TokenIs
  <2> QED
    BY <2>1
<1>3. CASE other[j] = Backslash /\ next \notin DOMAIN SimpleEscape /\ next # LetterX
  <2>1. a = [bytes |-> <<Backslash>>, taken |-> 1] /\ b = [bytes |-> <<Backslash>>, taken |-> 1]
    BY <1>3, TokenIs
  <2> QED
    BY <2>1
<1>4. CASE other[j] = Backslash /\ next = LetterX
  <2>1. HexAt(text, i) = hex
    BY <1>4
  <2>2. CASE IsHexByte(hex)
    <3>1. /\ a = [bytes |-> <<HexByte(hex)>>, taken |-> 2 + Len(hex)]
          /\ b = [bytes |-> <<HexByte(hex)>>, taken |-> 2 + Len(hex)]
      BY <1>4, <2>1, <2>2, TokenIs
    <3> QED
      BY <3>1
  <2>3. CASE ~IsHexByte(hex)
    <3>1. /\ a = [bytes |-> <<Backslash, LetterX>> \o Wide(hex), taken |-> 2 + Len(hex)]
          /\ b = [bytes |-> <<Backslash, LetterX>> \o Wide(hex), taken |-> 2 + Len(hex)]
      BY <1>4, <2>1, <2>3, TokenIs
    <3> QED
      BY <3>1
  <2> QED
    BY <2>2, <2>3
<1> QED
  BY <1>1, <1>2, <1>3, <1>4

\* What a text says from a character on does not depend on what is before it.
LEMMA TokenShifted ==
    ASSUME NEW s \in Seq(Nat), NEW text \in Seq(Nat), NEW i \in 1..Len(text)
    PROVE  TokenAt(s \o text, Len(s) + i) = TokenAt(text, i)
<1> DEFINE whole == s \o text
           m == Len(s)
           n == Len(text)
           p == m + i
<1>1. m \in Nat /\ n \in Nat
  BY LenProperties
<1>2. whole \in Seq(Nat) /\ Len(whole) = m + n /\ \A j \in 1..m + n : whole[j] = IF j <= m THEN s[j] ELSE text[j - m]
  BY ConcatProperties
<1>3. \A j \in 1..n : m + j \in 1..m + n /\ ~(m + j <= m) /\ (m + j) - m = j
  BY <1>1
<1> HIDE DEF whole
<1>4. \A j \in 1..n : whole[m + j] = text[j]
  BY <1>2, <1>3
<1>5. p \in 1..m + n /\ (p < m + n <=> i < n) /\ (p + 3 < m + n <=> i + 3 < n) /\ m + n - p - 1 = n - i - 1
  BY <1>1
<1>6. whole[p] = text[i] /\ NextAt(whole, p) = NextAt(text, i)
  <2>1. i < n => p + 1 = m + (i + 1) /\ i + 1 \in 1..n
    BY <1>1
  <2>2. whole[p] = text[i]
    BY <1>4
  <2>3. i < n => whole[p + 1] = text[i + 1]
    BY <1>4, <2>1
  <2> QED
    BY <1>2, <1>5, <2>2, <2>3 DEF NextAt
<1>7. i < n => HexAt(whole, p) = HexAt(text, i)
  <2> SUFFICES ASSUME i < n PROVE HexAt(whole, p) = HexAt(text, i)
    OBVIOUS
  <2> DEFINE a == HexAt(whole, p)
             b == HexAt(text, i)
  <2>0. /\ p \in 1..Len(whole) /\ p < Len(whole) /\ (p + 3 < Len(whole) <=> i + 3 < n)
        /\ Len(whole) - p - 1 = n - i - 1
    BY <1>2, <1>5
  <2>9. \A j \in Nat : p + 1 + j = m + (i + 1 + j)
    BY <1>1
  <2> HIDE DEF p
  <2>1. /\ a \in Seq(Nat) /\ Len(a) = IF p + 3 < Len(whole) THEN 2 ELSE Len(whole) - p - 1
        /\ \A j \in 1..Len(a) : a[j] = whole[p + 1 + j]
    BY <1>2, <2>0, HexAtIs
  <2>2. /\ b \in Seq(Nat) /\ Len(b) \in 0..2 /\ i + 1 + Len(b) \in i + 1..n
        /\ Len(b) = IF i + 3 < n THEN 2 ELSE n - i - 1
        /\ \A j \in 1..Len(b) : b[j] = text[i + 1 + j]
    BY HexAtIs
  <2> HIDE DEF a, b
  <2>3. Len(a) = Len(b)
    BY <2>0, <2>1, <2>2
  <2>4. ASSUME NEW j \in 1..Len(b) PROVE a[j] = b[j]
    <3>1. i + 1 + j \in 1..n /\ p + 1 + j = m + (i + 1 + j)
      <4> DEFINE h == Len(b)
      <4>0. h \in 0..2 /\ i + 1 + h \in i + 1..n /\ j \in 1..h
        BY <2>2
      <4> HIDE DEF h
      <4>1. h \in 0..2 /\ i + 1 + h <= n /\ j \in 1..h
        BY <1>1, <4>0
      <4>2. i + 1 + j \in 1..n /\ j \in Nat
        BY <1>1, <4>1
      <4> QED
        BY <2>9, <4>2
    <3>2. whole[p + 1 + j] = text[i + 1 + j]
      BY <1>4, <3>1
    <3> QED
      BY <2>1, <2>2, <2>3, <3>2
  <2>5. a = b
    BY <2>1, <2>2, <2>3, <2>4, SeqEqual
  <2> QED
    BY <2>5 DEF a, b, p
<1>8. NextAt(text, i) = LetterX => HexAt(whole, p) = HexAt(text, i)
  BY <1>7 DEF NextAt, LetterX
<1> HIDE DEF p
<1>9. TokenAt(whole, p) = TokenAt(text, i)
  BY <1>6, <1>8, TokenDetermined
<1> QED
  BY <1>9 DEF whole, p

LEMMA EncodedShifted ==
    ASSUME NEW s \in Seq(Nat), NEW text \in Seq(Nat), NEW i \in 1..Len(text) + 1
    PROVE  SaidFrom(s \o text, Len(s) + i) = SaidFrom(text, i)
<1> DEFINE whole == s \o text
           m == Len(s)
           n == Len(text)
           T == {k \in Nat : k \in 0..n => SaidFrom(whole, m + (n + 1 - k)) = SaidFrom(text, n + 1 - k)}
<1>0. m \in Nat /\ n \in Nat /\ whole \in Seq(Nat) /\ Len(whole) = m + n
  BY LenProperties, ConcatProperties
<1> HIDE DEF whole
<1>1. ASSUME NEW l \in Nat, \A k \in 0..l - 1 : k \in T PROVE l \in T
  <2> SUFFICES ASSUME l \in 0..n PROVE SaidFrom(whole, m + (n + 1 - l)) = SaidFrom(text, n + 1 - l)
    OBVIOUS
  <2>1. CASE l = 0
    <3>1. n + 1 - l = n + 1 /\ m + (n + 1) = Len(whole) + 1
      BY <1>0, <2>1
    <3>2. SaidFrom(text, n + 1) = <<>> /\ SaidFrom(whole, Len(whole) + 1) = <<>>
      BY <1>0, EncodedIs
    <3> QED
      BY <3>1, <3>2
  <2>2. CASE l # 0
    <3> DEFINE p == n + 1 - l
               token == TokenAt(text, p)
    <3>1. p \in 1..n
      BY <1>0, <2>2
    <3> HIDE DEF p
    <3>2. p + token.taken \in p + 1..n + 1 /\ token.taken \in 1..4
      BY <3>1, TokenAdvances
    <3>3. SaidFrom(text, p) = token.bytes \o SaidFrom(text, p + token.taken)
      BY <3>1, EncodedIs
    <3>4. TokenAt(whole, m + p) = token
      BY <3>1, TokenShifted DEF whole
    <3> HIDE DEF token
    <3> DEFINE t == token.taken
               k == n + 1 - (p + t)
    <3>0. t \in 1..4 /\ p + t \in p + 1..n + 1
      BY <3>2
    <3> HIDE DEF t
    <3>5. m + p \in 1..m + n /\ (m + p) + t = m + (p + t)
      BY <1>0, <3>0, <3>1
    <3>6. SaidFrom(whole, m + p) = token.bytes \o SaidFrom(whole, m + (p + t))
      <4> DEFINE q == m + p
      <4>1. q \in 1..Len(whole) /\ TokenAt(whole, q) = token /\ q + t = m + (p + t)
        BY <1>0, <3>4, <3>5
      <4> HIDE DEF q
      <4>2. SaidFrom(whole, q) = TokenAt(whole, q).bytes \o SaidFrom(whole, q + TokenAt(whole, q).taken)
        BY <1>0, <4>1, EncodedIs
      <4>3. TokenAt(whole, q).taken = t
        BY <4>1 DEF t
      <4>4. SaidFrom(whole, q) = token.bytes \o SaidFrom(whole, m + (p + t))
        BY <4>1, <4>2, <4>3
      <4> QED
        BY <4>4 DEF q
    <3>7. k \in 0..l - 1 /\ k \in 0..n /\ n + 1 - k = p + t
      BY <1>0, <3>0, <3>1 DEF p
    <3> HIDE DEF k
    <3>8. SaidFrom(whole, m + (n + 1 - k)) = SaidFrom(text, n + 1 - k)
      BY <1>1, <3>7
    <3>9. SaidFrom(whole, m + p) = SaidFrom(text, p)
      BY <3>3, <3>6, <3>7, <3>8 DEF t
    <3> QED
      BY <3>9 DEF p
  <2> QED
    BY <2>1, <2>2
<1>2. Nat \subseteq T
  <2> HIDE DEF T
  <2> QED
    BY <1>1, StrongInduction
<1> DEFINE k == n + 1 - i
<1>3. k \in Nat /\ k \in 0..n /\ n + 1 - k = i
  BY <1>0
<1> HIDE DEF k
<1>4. SaidFrom(whole, m + (n + 1 - k)) = SaidFrom(text, n + 1 - k)
  BY <1>2, <1>3
<1> QED
  BY <1>3, <1>4 DEF whole

\* A text that begins with a token says what the token says and then what the
\* rest says.
LEMMA EncodeAfter ==
    ASSUME NEW s \in Seq(Nat), NEW text \in Seq(Nat), NEW byte,
           s # <<>>, TokenAt(s \o text, 1) = [bytes |-> <<byte>>, taken |-> Len(s)]
    PROVE  EncodeText(s \o text) = <<byte>> \o EncodeText(text)
<1> DEFINE whole == s \o text
<1>1. Len(s) \in Nat \ {0} /\ Len(text) \in Nat /\ whole \in Seq(Nat) /\ Len(whole) = Len(s) + Len(text)
  BY EmptySeq, LenProperties, ConcatProperties
<1>2. 1 \in 1..Len(whole) /\ 1 + Len(s) = Len(s) + 1 /\ 1 \in 1..Len(text) + 1
  BY <1>1
<1>3. SaidFrom(whole, Len(s) + 1) = SaidFrom(text, 1)
  BY <1>2, EncodedShifted
<1> HIDE DEF whole
<1>4. SaidFrom(whole, 1) = TokenAt(whole, 1).bytes \o SaidFrom(whole, 1 + TokenAt(whole, 1).taken)
  BY <1>1, <1>2, EncodedIs
<1>5. TokenAt(whole, 1).bytes = <<byte>> /\ TokenAt(whole, 1).taken = Len(s)
  BY DEF whole
<1>6. EncodeText(whole) = SaidFrom(whole, 1) /\ EncodeText(text) = SaidFrom(text, 1)
  BY <1>1, EncodedIs
<1> QED
  BY <1>2, <1>3, <1>4, <1>5, <1>6 DEF whole

\* Each spelling of a byte is one token.
LEMMA HexDigitsRead ==
    ASSUME NEW d \in 0..15
    PROVE  HexDigits[d] \in Nat /\ IsHex(HexDigits[d]) /\ HexDigit(HexDigits[d]) = d /\ HexDigits[d] # Plus
<1>1. HexDigits[d] = IF d < 10 THEN 48 + d ELSE 87 + d
  BY DEF HexDigits
<1>2. CASE d < 10
  <2>1. HexDigits[d] = 48 + d /\ 48 + d \in 48..57
    BY <1>1, <1>2
  <2> DEFINE c == HexDigits[d]
  <2>2. c \in 48..57 /\ c - 48 = d
    BY <2>1
  <2> HIDE DEF c
  <2>3. c \in Nat /\ IsHex(c) /\ HexDigit(c) = d /\ c # Plus
    BY <2>2 DEF IsHex, HexDigit, Plus
  <2> QED
    BY <2>3 DEF c
<1>3. CASE ~(d < 10)
  <2> DEFINE c == HexDigits[d]
  <2>1. c \in 97..102 /\ c - 87 = d
    BY <1>1, <1>3
  <2> HIDE DEF c
  <2>2. c \in Nat /\ IsHex(c) /\ c # Plus
    BY <2>1 DEF IsHex, Plus
  <2>3. ToUpper(c) = c - 32
    BY <2>1 DEF ToUpper, IsLower
  <2>4. HexDigit(c) = (c - 32) - 55
    BY <2>1, <2>3 DEF HexDigit
  <2> QED
    BY <2>1, <2>2, <2>4 DEF c
<1> QED
  BY <1>2, <1>3

\* What a text begins with.
LEMMA BeginsWith ==
    ASSUME NEW s \in Seq(Nat), NEW text \in Seq(Nat), NEW k, k = Len(s)
    PROVE  LET whole == s \o text
           IN  /\ whole \in Seq(Nat) /\ Len(whole) \in Nat /\ k <= Len(whole)
               /\ \A j \in 1..k : whole[j] = s[j]
<1>1. k \in Nat /\ Len(text) \in Nat
  BY LenProperties
<1>2. /\ s \o text \in Seq(Nat) /\ Len(s \o text) = k + Len(text)
      /\ \A j \in 1..k + Len(text) : (s \o text)[j] = IF j <= k THEN s[j] ELSE text[j - k]
  BY ConcatProperties
<1>3. \A j \in 1..k : j \in 1..k + Len(text) /\ j <= k
  BY <1>1
<1> QED
  BY <1>1, <1>2, <1>3

LEMMA HexIsToken ==
    ASSUME NEW byte \in 0..255, NEW text \in Seq(Nat)
    PROVE  /\ InHex(byte) \in Seq(Nat) /\ InHex(byte) # <<>>
           /\ TokenAt(InHex(byte) \o text, 1) = [bytes |-> <<byte>>, taken |-> Len(InHex(byte))]
<1> DEFINE q == byte \div 16
           r == byte % 16
           high == HexDigits[q]
           low == HexDigits[r]
           s == InHex(byte)
           whole == s \o text
           hex == HexAt(whole, 1)
<1>0. PICK x \in 0..15, y \in 0..15 : byte = 16 * x + y /\ q = x /\ r = y
  OBVIOUS
<1>3. s = <<Backslash, LetterX, high, low>>
  BY DEF InHex
<1> HIDE DEF q, r
<1>1. q \in 0..15 /\ r \in 0..15 /\ 16 * q + r = byte
  BY <1>0
<1>2. /\ high \in Nat /\ IsHex(high) /\ HexDigit(high) = q /\ high # Plus
      /\ low \in Nat /\ IsHex(low) /\ HexDigit(low) = r
  BY <1>1, HexDigitsRead
<1> HIDE DEF high, low
<1>4. /\ s \in Seq(Nat) /\ Len(s) = 4 /\ s # <<>>
      /\ s[1] = Backslash /\ s[2] = LetterX /\ s[3] = high /\ s[4] = low
  BY <1>2, <1>3 DEF Backslash, LetterX
<1> HIDE DEF s
<1>5. whole \in Seq(Nat) /\ Len(whole) \in Nat /\ 4 <= Len(whole) /\ \A j \in 1..4 : whole[j] = s[j]
  <2> DEFINE k == Len(s)
  <2> HIDE DEF k, whole
  <2>1. whole \in Seq(Nat) /\ Len(whole) \in Nat /\ k <= Len(whole) /\ \A j \in 1..k : whole[j] = s[j]
    BY <1>4, BeginsWith DEF k, whole
  <2> QED
    BY <1>4, <2>1 DEF k
<1>6. whole[1] = Backslash /\ whole[2] = LetterX /\ whole[3] = high /\ whole[4] = low
  <2> HIDE DEF whole
  <2>1. 1 \in 1..4 /\ 2 \in 1..4 /\ 3 \in 1..4 /\ 4 \in 1..4
    OBVIOUS
  <2> QED
    BY <1>4, <1>5, <2>1
<1> HIDE DEF whole, hex
<1>7. hex \in Seq(Nat) /\ Len(hex) = 2 /\ hex[1] = high /\ hex[2] = low
  <2>0. 1 \in 1..Len(whole) /\ 1 < Len(whole)
    BY <1>5
  <2>1. /\ hex \in Seq(Nat) /\ Len(hex) = IF 1 + 3 < Len(whole) THEN 2 ELSE Len(whole) - 1 - 1
        /\ \A j \in 1..Len(hex) : hex[j] = whole[1 + 1 + j]
    BY <1>5, <2>0, HexAtIs DEF hex
  <2> DEFINE n == Len(whole)
  <2> HIDE DEF n
  <2>4. n \in Nat /\ 4 <= n /\ Len(hex) = IF 1 + 3 < n THEN 2 ELSE n - 1 - 1
    BY <1>5, <2>1 DEF n
  <2>2. Len(hex) = 2
    <3>1. CASE n = 4
      BY <2>4, <3>1
    <3>2. CASE n # 4
      BY <2>4, <3>2
    <3> QED
      BY <3>1, <3>2
  <2>3. 1 \in 1..Len(hex) /\ 2 \in 1..Len(hex) /\ 1 + 1 + 1 = 3 /\ 1 + 1 + 2 = 4
    BY <2>2
  <2> QED
    BY <1>6, <2>1, <2>2, <2>3
<1>8. IsHexByte(hex) /\ HexByte(hex) = byte
  BY <1>1, <1>2, <1>7 DEF IsHexByte, HexByte
<1>9. NextAt(whole, 1) = LetterX
  BY <1>5, <1>6 DEF NextAt
<1>10. TokenAt(whole, 1) = [bytes |-> <<byte>>, taken |-> 4]
  <2>1. TokenAt(whole, 1) = [bytes |-> <<HexByte(hex)>>, taken |-> 2 + Len(hex)]
    BY <1>6, <1>8, <1>9, TokenIs DEF hex
  <2> QED
    BY <1>7, <1>8, <2>1
<1> QED
  BY <1>4, <1>10 DEF whole, s

LEMMA ShortIsToken ==
    ASSUME NEW byte \in 0..255, NEW text \in Seq(Nat)
    PROVE  /\ Short(byte) \in Seq(Nat) /\ Short(byte) # <<>>
           /\ TokenAt(Short(byte) \o text, 1) = [bytes |-> <<byte>>, taken |-> Len(Short(byte))]
<1>1. CASE \E e \in DOMAIN SimpleEscape : SimpleEscape[e] = byte
  <2> DEFINE e == CHOOSE x \in DOMAIN SimpleEscape : SimpleEscape[x] = byte
             s == Short(byte)
             whole == s \o text
  <2>1. e \in DOMAIN SimpleEscape /\ SimpleEscape[e] = byte
    BY <1>1
  <2>2. s = <<Backslash, e>>
    BY <1>1 DEF Short
  <2> HIDE DEF e
  <2>3. e \in Nat \ {0}
    BY <2>1, EscapesAre
  <2>4. s \in Seq(Nat) /\ Len(s) = 2 /\ s # <<>> /\ s[1] = Backslash /\ s[2] = e
    BY <2>2, <2>3 DEF Backslash
  <2> HIDE DEF s
  <2> DEFINE k == Len(s)
  <2> HIDE DEF k, whole
  <2>5. Len(whole) \in Nat /\ k <= Len(whole) /\ \A j \in 1..k : whole[j] = s[j]
    BY <2>4, BeginsWith DEF k, whole
  <2>6. 1 < Len(whole) /\ whole[1] = Backslash /\ whole[2] = e
    <3>1. k = 2 /\ 1 \in 1..2 /\ 2 \in 1..2
      BY <2>4 DEF k
    <3> QED
      BY <2>4, <2>5, <3>1
  <2>7. NextAt(whole, 1) = e
    BY <2>5, <2>6 DEF NextAt
  <2>8. TokenAt(whole, 1) = [bytes |-> <<SimpleEscape[e]>>, taken |-> 2]
    BY <2>1, <2>6, <2>7, TokenIs
  <2> QED
    BY <2>1, <2>4, <2>8 DEF whole, s
<1>2. CASE ~(\E e \in DOMAIN SimpleEscape : SimpleEscape[e] = byte) /\ Printing(byte)
  <2> DEFINE s == Short(byte)
             whole == s \o text
  <2>1. s = <<byte>>
    BY <1>2 DEF Short
  <2>2. s \in Seq(Nat) /\ Len(s) = 1 /\ s # <<>> /\ s[1] = byte
    BY <2>1
  <2> HIDE DEF s
  <2>3. byte < 128 /\ byte # Backslash
    BY <1>2, EscapesAre DEF Printing, Backslash
  <2>4. whole[1] = byte
    <3> DEFINE k == Len(s)
    <3> HIDE DEF k, whole
    <3>1. \A j \in 1..k : whole[j] = s[j]
      BY <2>2, BeginsWith DEF k, whole
    <3>2. k = 1 /\ 1 \in 1..1
      BY <2>2 DEF k
    <3> QED
      BY <2>2, <3>1, <3>2
  <2>5. Utf8(byte) = <<byte>>
    BY <2>3 DEF Utf8
  <2> HIDE DEF whole
  <2>6. TokenAt(whole, 1) = [bytes |-> <<byte>>, taken |-> 1]
    BY <2>3, <2>4, <2>5, TokenIs
  <2> QED
    BY <2>2, <2>6 DEF whole, s
<1>3. CASE ~(\E e \in DOMAIN SimpleEscape : SimpleEscape[e] = byte) /\ ~Printing(byte)
  <2>1. Short(byte) = InHex(byte)
    BY <1>3 DEF Short
  <2> QED
    BY <2>1, HexIsToken
<1> QED
  BY <1>1, <1>2, <1>3

\* Bytes that are spelled are said.
THEOREM EveryByteTyped ==
    ASSUME NEW bytes \in Seq(0..255), NEW hex
    PROVE  EncodeText(Spelled(bytes, hex)) = bytes
<1> DEFINE how == [i \in DOMAIN bytes |-> IF i \in hex THEN InHex(bytes[i]) ELSE Short(bytes[i])]
           n == Len(bytes)
           T == {k \in Nat : k \in 0..n =>
                     /\ FlattenSeq(Skip(how, n - k)) \in Seq(Nat)
                     /\ EncodeText(FlattenSeq(Skip(how, n - k))) = Skip(bytes, n - k)}
<1>1. n \in Nat /\ DOMAIN bytes = 1..n /\ \A i \in 1..n : bytes[i] \in 0..255
  BY LenProperties
<1>2. ASSUME NEW i \in 1..n, NEW text \in Seq(Nat)
      PROVE  /\ how[i] \in Seq(Nat)
             /\ EncodeText(how[i] \o text) = <<bytes[i]>> \o EncodeText(text)
  <2> DEFINE s == how[i]
  <2>1. s = IF i \in hex THEN InHex(bytes[i]) ELSE Short(bytes[i])
    BY <1>1
  <2>2. bytes[i] \in 0..255
    BY <1>1
  <2>3. /\ s \in Seq(Nat) /\ s # <<>>
        /\ TokenAt(s \o text, 1) = [bytes |-> <<bytes[i]>>, taken |-> Len(s)]
    <3> HIDE DEF s
    <3> QED
      BY <2>1, <2>2, HexIsToken, ShortIsToken
  <2> HIDE DEF s
  <2>4. EncodeText(s \o text) = <<bytes[i]>> \o EncodeText(text)
    BY <2>3, EncodeAfter
  <2> QED
    BY <2>3, <2>4 DEF s
<1>3. how \in Seq(Seq(Nat)) /\ Len(how) = n
  <2>1. <<>> \in Seq(Nat)
    OBVIOUS
  <2>2. \A i \in 1..n : how[i] \in Seq(Nat)
    BY <1>2, <2>1
  <2>3. how = [i \in 1..n |-> how[i]]
    BY <1>1
  <2> HIDE DEF how
  <2>4. how \in [1..n -> Seq(Nat)]
    BY <2>2, <2>3
  <2> QED
    BY <1>1, <2>4, SeqDef, LenProperties
<1> HIDE DEF how
<1>4. 0 \in T
  <2>1. Skip(how, n) = <<>> /\ Skip(bytes, n) = <<>> /\ n - 0 = n
    <3>1. Skip(how, n) \in Seq(Seq(Nat)) /\ Len(Skip(how, n)) = n - n
      BY <1>1, <1>3, SkipProperties
    <3>2. Skip(bytes, n) \in Seq(0..255) /\ Len(Skip(bytes, n)) = n - n
      BY <1>1, SkipProperties
    <3> QED
      BY <1>1, <3>1, <3>2, EmptySeq
  <2>2. <<>> \in Seq(Nat) /\ Len(<<>>) = 0
    OBVIOUS
  <2>3. EncodeText(<<>>) = <<>>
    <3> DEFINE none == <<>>
    <3>1. none \in Seq(Nat) /\ Len(none) + 1 = 1
      BY <2>2
    <3>2. EncodeText(none) = SaidFrom(none, 1) /\ SaidFrom(none, Len(none) + 1) = <<>>
      <4> HIDE DEF none
      <4> QED
        BY <3>1, EncodedIs
    <3> QED
      BY <3>1, <3>2
  <2> QED
    BY <2>1, <2>2, <2>3, FlattenEmpty
<1>5. ASSUME NEW k \in Nat, k \in T PROVE k + 1 \in T
  <2> SUFFICES ASSUME k + 1 \in 0..n
               PROVE  /\ FlattenSeq(Skip(how, n - (k + 1))) \in Seq(Nat)
                      /\ EncodeText(FlattenSeq(Skip(how, n - (k + 1)))) = Skip(bytes, n - (k + 1))
    OBVIOUS
  <2> DEFINE p == n - (k + 1)
             rest == FlattenSeq(Skip(how, p + 1))
  <2>1. p \in 0..n - 1 /\ p + 1 = n - k /\ k \in 0..n
    BY <1>1
  <2>2. rest \in Seq(Nat) /\ EncodeText(rest) = Skip(bytes, p + 1)
    BY <1>5, <2>1
  <2> HIDE DEF p, T
  <2>3. /\ Skip(how, p) = <<how[p + 1]>> \o Skip(how, p + 1)
        /\ Skip(bytes, p) = <<bytes[p + 1]>> \o Skip(bytes, p + 1)
    BY <1>1, <1>3, <2>1, SkipFirst
  <2>4. FlattenSeq(Skip(how, p)) = how[p + 1] \o rest
    BY <1>1, <1>3, <2>1, FlattenSkip
  <2>5. p + 1 \in 1..n
    BY <1>1, <2>1
  <2> HIDE DEF rest
  <2>6. how[p + 1] \in Seq(Nat) /\ EncodeText(how[p + 1] \o rest) = <<bytes[p + 1]>> \o EncodeText(rest)
    BY <1>2, <2>2, <2>5
  <2>7. how[p + 1] \o rest \in Seq(Nat)
    BY <2>2, <2>6, ConcatProperties
  <2> QED
    BY <2>2, <2>3, <2>4, <2>6, <2>7 DEF p
<1>6. Nat \subseteq T
  <2> HIDE DEF T
  <2> QED
    BY <1>4, <1>5, SetInduction
<1>7. n \in T /\ n \in 0..n /\ n - n = 0
  BY <1>1, <1>6
<1>8. EncodeText(FlattenSeq(Skip(how, 0))) = Skip(bytes, 0)
  BY <1>7
<1>9. Skip(how, 0) = how /\ Skip(bytes, 0) = bytes
  BY <1>3, SubSeqFull DEF Skip
<1> QED
  BY <1>8, <1>9 DEF Spelled, how

\* A token that is no escape says its own characters.
LEMMA LiteralToken ==
    ASSUME NEW text \in Seq(Nat), NEW i \in 1..Len(text), Literal(text)
    PROVE  LET token == TokenAt(text, i)
           IN token.bytes = Wide(SubSeq(text, i, i + token.taken - 1))
<1> DEFINE next == NextAt(text, i)
           hex == HexAt(text, i)
           token == TokenAt(text, i)
<1>1. Len(text) \in Nat /\ text[i] \in Nat /\ i \in DOMAIN text
  BY LenProperties, ElementOfSeq
<1>2. text[i] = Backslash => next \notin DOMAIN SimpleEscape /\ ~(next = LetterX /\ IsHexByte(hex))
  BY <1>1 DEF Literal, NextAt
<1>3. CASE token = [bytes |-> Utf8(text[i]), taken |-> 1]
  <2>1. i + token.taken - 1 = i
    BY <1>3
  <2>2. SubSeq(text, i, i) = <<text[i]>>
    <3>0. i \in 1..Len(text) + 1 /\ i \in i - 1..Len(text) /\ i - i + 1 = 1 /\ i + 1 - 1 = i
      BY <1>1
    <3>1. /\ SubSeq(text, i, i) \in Seq(Nat) /\ Len(SubSeq(text, i, i)) = 1
          /\ \A j \in 1..1 : SubSeq(text, i, i)[j] = text[i + j - 1]
      BY <3>0, CutProperties
    <3>2. SubSeq(text, i, i)[1] = text[i]
      BY <3>0, <3>1
    <3> DEFINE one == <<text[i]>>
    <3>3. one \in Seq(Nat) /\ Len(one) = 1 /\ one[1] = text[i]
      BY <1>1
    <3> HIDE DEF one
    <3>4. \A j \in 1..1 : SubSeq(text, i, i)[j] = one[j]
      BY <3>2, <3>3
    <3>5. SubSeq(text, i, i) = one
      BY <3>1, <3>3, <3>4, SeqEqual
    <3> QED
      BY <3>5 DEF one
  <2>3. Wide(<<text[i]>>) = Utf8(text[i])
    BY <1>1, WideOne
  <2>4. token.bytes = Utf8(text[i])
    BY <1>3
  <2> QED
    BY <2>1, <2>2, <2>3, <2>4, Zenon
<1>4. text[i] # Backslash => token = [bytes |-> Utf8(text[i]), taken |-> 1]
  BY TokenIs
<1>5. text[i] = Backslash /\ next # LetterX => token = [bytes |-> Utf8(text[i]), taken |-> 1]
  <2>1. Utf8(Backslash) = <<Backslash>>
    BY DEF Utf8, Backslash
  <2> QED
    BY <1>2, <2>1, TokenIs
<1>6. CASE text[i] = Backslash /\ next = LetterX
  <2>1. token = [bytes |-> <<Backslash, LetterX>> \o Wide(hex), taken |-> 2 + Len(hex)]
    BY <1>2, <1>6, TokenIs
  <2>2. i < Len(text) /\ text[i + 1] = LetterX
    BY <1>6 DEF NextAt, LetterX
  <2>3. /\ hex \in Seq(Nat) /\ Len(hex) \in 0..2 /\ i + 1 + Len(hex) \in i + 1..Len(text)
        /\ \A j \in 1..Len(hex) : hex[j] = text[i + 1 + j]
    BY <2>2, HexAtIs
  <2> DEFINE h == Len(hex)
             lead == <<Backslash, LetterX>>
             own == SubSeq(text, i, i + 1 + h)
  <2>4. i + token.taken - 1 = i + 1 + h
    BY <2>1, <2>3
  <2>5. lead \in Seq(Nat) /\ Len(lead) = 2 /\ lead[1] = Backslash /\ lead[2] = LetterX
    BY DEF Backslash, LetterX
  <2> HIDE DEF token, hex, next, lead
  <2>6. own = lead \o hex
    <3> HIDE DEF h
    <3>1. h \in 0..2 /\ i + 1 + h \in i - 1..Len(text) /\ i \in 1..Len(text) + 1 /\ (i + 1 + h) - i + 1 = h + 2
      BY <1>1, <2>3 DEF h
    <3> DEFINE e == i + 1 + h
    <3> HIDE DEF e
    <3>2. /\ SubSeq(text, i, e) \in Seq(Nat) /\ Len(SubSeq(text, i, e)) = e - i + 1
          /\ \A j \in 1..e - i + 1 : SubSeq(text, i, e)[j] = text[i + j - 1]
      BY <1>1, <3>1, CutProperties DEF e
    <3>3. own \in Seq(Nat) /\ Len(own) = h + 2 /\ \A j \in 1..h + 2 : own[j] = text[i + j - 1]
      BY <3>1, <3>2 DEF e
    <3> HIDE DEF own
    <3> DEFINE m == 2
               n == h + 2
    <3>4. m = Len(lead) /\ n = m + Len(hex)
      BY <2>5, <3>1 DEF h
    <3> HIDE DEF m, n
    <3>5. /\ lead \o hex \in Seq(Nat) /\ Len(lead \o hex) = n
          /\ \A j \in 1..n : (lead \o hex)[j] = IF j <= m THEN lead[j] ELSE hex[j - m]
      <4>1. lead \in Seq(Nat) /\ hex \in Seq(Nat)
        BY <2>3, <2>5
      <4> HIDE DEF h
      <4> QED
        BY <3>4, <4>1, JoinedProperties
    <3>6. ASSUME NEW j \in 1..n PROVE own[j] = (lead \o hex)[j]
      <4>1. CASE j = 1
        <5>1. own[1] = text[i]
          <6>0. h \in 0..2
            BY <3>1
          <6>1. i + 1 - 1 = i /\ 1 \in 1..h + 2
            BY <6>0
          <6> QED
            BY <3>3, <6>1
        <5>2. (lead \o hex)[1] = lead[1]
          BY SMTT(30), <3>1, <3>5 DEF m, n
        <5> QED
          BY <1>6, <2>5, <4>1, <5>1, <5>2
      <4>2. CASE j = 2
        <5>1. own[2] = text[i + 1]
          <6>1. i + 2 - 1 = i + 1 /\ 2 \in 1..h + 2
            BY <1>1, <3>1
          <6> QED
            BY <3>3, <6>1
        <5>2. (lead \o hex)[2] = lead[2]
          BY SMTT(30), <3>1, <3>5 DEF m, n
        <5> QED
          BY <2>2, <2>5, <4>2, <5>1, <5>2
      <4>3. CASE j # 1 /\ j # 2
        <5>1. j - 2 \in 1..h /\ i + 1 + (j - 2) = i + j - 1 /\ ~(j <= 2) /\ j \in 1..h + 2
          BY <1>1, <3>1, <4>3 DEF n
        <5>2. own[j] = text[i + j - 1]
          BY <3>3, <5>1
        <5>3. hex[j - 2] = text[i + 1 + (j - 2)]
          BY <2>3, <5>1 DEF h
        <5>4. (lead \o hex)[j] = hex[j - 2]
          BY <3>5, <5>1 DEF m
        <5> QED
          BY <5>1, <5>2, <5>3, <5>4
      <4> QED
        BY <4>1, <4>2, <4>3
    <3>7. Len(own) = Len(lead \o hex)
      BY <3>3, <3>5 DEF n
    <3>8. \A j \in 1..Len(own) : own[j] = (lead \o hex)[j]
      BY <3>3, <3>6 DEF n
    <3> QED
      BY <3>3, <3>5, <3>7, <3>8, SeqEqual
  <2>7. Wide(lead) = lead
    <3>1. <<Backslash>> \in Seq(Nat) /\ <<LetterX>> \in Seq(Nat) /\ Backslash \in Nat /\ LetterX \in Nat
      BY DEF Backslash, LetterX
    <3>2. lead = <<Backslash>> \o <<LetterX>>
      BY <3>1 DEF lead
    <3>3. Utf8(Backslash) = <<Backslash>> /\ Utf8(LetterX) = <<LetterX>>
      BY DEF Utf8, Backslash, LetterX
    <3>4. Wide(<<Backslash>>) = <<Backslash>> /\ Wide(<<LetterX>>) = <<LetterX>>
      BY <3>1, <3>3, WideOne
    <3> QED
      BY <3>1, <3>2, <3>4, WideJoined
  <2>8. Wide(own) = lead \o Wide(hex)
    BY <2>3, <2>5, <2>6, <2>7, WideJoined
  <2>9. token.bytes = lead \o Wide(hex)
    BY <2>1 DEF lead
  <2> QED
    BY <2>4, <2>8, <2>9 DEF token
<1> QED
  BY <1>3, <1>4, <1>5, <1>6

\* A text without an escape is written in UTF-8 as it is.
THEOREM LiteralAsTyped ==
    ASSUME NEW text \in Seq(Nat), Literal(text)
    PROVE  EncodeText(text) = Wide(text)
<1> DEFINE n == Len(text)
           T == {k \in Nat : k \in 0..n => SaidFrom(text, n - k + 1) = Wide(Skip(text, n - k))}
<1>1. n \in Nat
  BY LenProperties
<1>2. ASSUME NEW m \in Nat, \A k \in 0..m - 1 : k \in T PROVE m \in T
  <2> SUFFICES ASSUME m \in 0..n PROVE SaidFrom(text, n - m + 1) = Wide(Skip(text, n - m))
    OBVIOUS
  <2>1. CASE m = 0
    <3>1. n - m = n
      BY <1>1, <2>1
    <3>2. Skip(text, n) = <<>>
      <4>1. Skip(text, n) \in Seq(Nat) /\ Len(Skip(text, n)) = n - n
        BY <1>1, SkipProperties
      <4> QED
        BY <1>1, <4>1, EmptySeq
    <3> QED
      BY <3>1, <3>2, EncodedIs, WideEmpty
  <2>2. CASE m # 0
    <3> DEFINE p == n - m
               token == TokenAt(text, p + 1)
               t == token.taken
               own == SubSeq(text, p + 1, p + t)
               k == n - (p + t)
    <3>1. p \in 0..n - 1 /\ p + 1 \in 1..n
      BY <1>1, <2>2
    <3> HIDE DEF p
    <3>2. t \in 1..4 /\ p + 1 + t \in p + 2..n + 1
      <4>1. t \in 1..4 /\ p + 1 + t \in (p + 1) + 1..n + 1
        BY <3>1, TokenAdvances
      <4> QED
        BY <1>1, <3>1, <4>1
    <3>3. SaidFrom(text, p + 1) = token.bytes \o SaidFrom(text, (p + 1) + t)
      BY <3>1, EncodedIs
    <3>4. token.bytes = Wide(SubSeq(text, p + 1, (p + 1) + t - 1))
      BY <3>1, LiteralToken
    <3> HIDE DEF token, t
    <3>5. /\ p + t \in 1..n /\ p + t \in 0..n /\ p + t >= p /\ (p + 1) + t = (p + t) + 1 /\ (p + 1) + t - 1 = p + t
          /\ k \in 0..m - 1 /\ k \in 0..n /\ n - k = p + t
      BY <1>1, <3>1, <3>2 DEF p
    <3> HIDE DEF k
    <3>6. SaidFrom(text, (p + t) + 1) = Wide(Skip(text, p + t))
      BY <1>2, <3>5
    <3>7. Skip(text, p) = own \o Skip(text, p + t)
      <4>1. p \in 0..Len(text) /\ p <= p + t
        BY <1>1, <3>1, <3>5
      <4> QED
        BY <3>5, <4>1, SkipSplit
    <3>8. own \in Seq(Nat) /\ Skip(text, p + t) \in Seq(Nat)
      <4>1. p + 1 \in 1..Len(text) + 1 /\ p + t \in (p + 1) - 1..Len(text)
        BY <1>1, <3>1, <3>5
      <4> QED
        BY <3>5, <4>1, CutProperties, SkipProperties
    <3> HIDE DEF own
    <3>9. Wide(Skip(text, p)) = Wide(own) \o Wide(Skip(text, p + t))
      BY <3>7, <3>8, WideJoined
    <3>10. SaidFrom(text, p + 1) = Wide(own) \o Wide(Skip(text, p + t))
      BY <3>3, <3>4, <3>5, <3>6 DEF own
    <3> QED
      BY <3>9, <3>10 DEF p
  <2> QED
    BY <2>1, <2>2
<1>3. Nat \subseteq T
  <2> HIDE DEF T
  <2> QED
    BY <1>2, StrongInduction
<1>4. SaidFrom(text, 1) = Wide(Skip(text, 0))
  <2>1. n \in T /\ n \in 0..n /\ n - n = 0 /\ 0 + 1 = 1
    BY <1>1, <1>3
  <2> QED
    BY <2>1
<1>5. Skip(text, 0) = text
  BY SubSeqFull DEF Skip
<1> QED
  BY <1>4, <1>5, EncodedIs

LEMMA EveryTextIsTyped == EveryTextAsTyped
<1>1. ASSUME NEW bytes \in ByteStrings, NEW hex \in SUBSET DOMAIN bytes
      PROVE  EncodeText(Spelled(bytes, hex)) = bytes
  BY InputAssumption, EveryByteTyped
<1>2. ASSUME NEW text \in Texts, Literal(text)
      PROVE  EncodeText(text) = Wide(text)
  <2>1. text \in Seq(Nat)
    <3>1. text \in Seq(0..2047)
      BY InputAssumption
    <3>2. 0..2047 \subseteq Nat
      OBVIOUS
    <3> DEFINE S == 0..2047
    <3> HIDE DEF S
    <3>3. text \in Seq(S) /\ S \subseteq Nat
      BY <3>1, <3>2 DEF S
    <3> QED
      BY <3>3, SeqMonotonic
  <2> QED
    BY <1>2, <2>1, LiteralAsTyped
<1> QED
  BY <1>1, <1>2 DEF EveryTextAsTyped

\* Everybody who types can type every sequence of bytes, in any mix of spellings, and a
\* text without escapes goes as it is, for texts of every length (encode_text).
THEOREM TextAlwaysAsTyped == Spec => []TextAsTyped
<1>1. TextAsTyped
  BY EveryTextIsTyped DEF TextAsTyped
<1> QED
  BY <1>1, PTL
=============================================================================
