------------------------------ MODULE Requests ------------------------------
(***************************************************************************)
(* One call of each client, from its command line to its exit code: the    *)
(* protocol check on both sides (client.rs, handle_request), the handlers  *)
(* of the input commands, resize and kill (server.rs), the session's write *)
(* queue and its writer thread (pty.rs), and the program that reads.       *)
(*                                                                         *)
(* One session, named by every command.  The registry, the tombstones and  *)
(* the capture of screens have modules of their own; here a session is in  *)
(* the registry, out of it while a kill ends it, or known by its tombstone *)
(* only.  The terminal's own input buffer is part of the program.          *)
(*                                                                         *)
(* Peers of an older version are external: an older client sends what it   *)
(* likes, an older daemon answers what it likes.                           *)
(***************************************************************************)
EXTENDS CommandLine, InputEncoding, Framing

CONSTANTS
    Clients,
    LinesOf,      \* the command lines each client can have
    Peers,        \* the versions the clients and the daemon can have
    ChannelCap,   \* capacity of the write channel
    MaxDelay,     \* MAX_KEY_DELAY_MS, in units
    MaxKeys,      \* MAX_KEY_SEQUENCE_LEN
    MaxScroll,    \* MAX_SCROLL_AMOUNT
    Nothing

\* How a snapshot ends; "none" of the other answers.
Outcomes == {"immediate", "settled", "changed", "deadline", "exited", "none"}

ASSUME RequestsAssumption ==
    /\ Peers \subseteq [clients : [Clients -> 0..ProtocolVersion], daemon : 0..ProtocolVersion]
    /\ \A p \in Peers : p.daemon = ProtocolVersion \/ \A c \in Clients : p.clients[c] = ProtocolVersion
    /\ \A c \in Clients : \A line \in LinesOf[c] :
            /\ IsCommandLine(line) /\ line.op \notin {"spawn", "wait", "stop", "daemon"}
            /\ line.op = "key" => line.keys \in Seq(Seq(STRING))
            /\ "amount" \in DOMAIN line => line.amount \in Nat
    /\ {ChannelCap, MaxKeys, MaxScroll} \subseteq Nat \ {0} /\ MaxDelay \in Nat
    /\ Nothing \notin [kind : Success \cup Failures, outcome : Outcomes]

InputOps == {"type", "key", "click", "scroll"}

VARIABLES
    version,    \* of each client, and of the daemon
    client,     \* each client's call
    task,       \* the daemon's task for it
    session,    \* "live", "killing" or "buried"
    child,      \* whether the program runs
    stopping,   \* write_shutdown: input is refused from now on
    channel,    \* the write channel
    writer,     \* the writer thread: whether it runs, and the chunk it is writing
    read,       \* what the program has read
    cursorMode,  \* application cursor mode of the session's screen
    modes,      \* history: the modes the screen had during each call
    sizes,      \* the size of the terminal and of the emulator
    raced       \* history: two resizes overlapped

peers == <<version, client>>
pipe == <<channel, writer, read>>
ends == <<session, child, stopping>>
screen == <<cursorMode, sizes>>
history == <<modes, raced>>
vars == <<peers, task, ends, pipe, screen, history>>

Chunk(c, bytes) == [from |-> c, bytes |-> bytes]
FirstSize == [cols |-> 80, rows |-> 24]
Idle == [pc |-> "none", left |-> <<>>, sent |-> 0, answer |-> Nothing]

Called(line) ==
    [pc |-> "start", line |-> line, command |-> CliToCommand(line),
     observed |-> Unknown, got |-> "none", code |-> Unknown]

Init ==
    /\ version \in Peers
    /\ client \in [Clients -> UNION {{Called(line) : line \in LinesOf[c]} : c \in Clients}]
    /\ \A c \in Clients : client[c].line \in LinesOf[c]
    /\ task = [c \in Clients |-> Idle]
    /\ session \in {"live", "buried"}
    /\ child = (session = "live") /\ stopping = FALSE
    /\ channel = <<>> /\ writer = [runs |-> session = "live", hand |-> <<>>] /\ read = <<>>
    /\ cursorMode = FALSE /\ modes = [c \in Clients |-> {FALSE}]
    /\ sizes = [pty |-> FirstSize, emulator |-> FirstSize] /\ raced = FALSE
-----------------------------------------------------------------------------
(* The client.                                                              *)

Command(c) == client[c].command
Current(c) == version.clients[c] = ProtocolVersion

Turn(c, pc) == client' = [client EXCEPT ![c].pc = pc]
Exit(c, code) == client' = [client EXCEPT ![c].pc = "exit", ![c].code = code]

\* The example text is printed without a daemon.
Examples(c) ==
    /\ client[c].pc = "start" /\ ~NeedsDaemon(client[c].line)
    /\ Exit(c, ExitSuccess)
    /\ UNCHANGED <<version, task, ends, pipe, screen, history>>

\* ensure_protocol, and then the request itself.
Decide(c) ==
    /\ client[c].pc = "start" /\ NeedsDaemon(client[c].line)
    /\ LET act == IF Current(c) THEN ProtocolAction(client[c].observed, MinimumProtocol(Command(c))) ELSE "send"
       IN CASE act = "probe" -> Turn(c, "probing") /\ UNCHANGED task
            [] act = "reject" -> Exit(c, GenericError) /\ UNCHANGED task
            [] OTHER -> Turn(c, "waiting") /\ task' = [task EXCEPT ![c].pc = "gate"]
    /\ UNCHANGED <<version, ends, pipe, screen, history>>

\* The probe is a list of the sessions, which every daemon answers.
ProbeAnswered(c) ==
    /\ client[c].pc = "probing"
    /\ client' = [client EXCEPT ![c].pc = "start", ![c].observed = version.daemon]
    /\ UNCHANGED <<version, task, ends, pipe, screen, history>>

ExitCode(c, answer) ==
    IF answer.kind \in Success
    THEN CaptureExitCode(Strict(client[c].line), answer.outcome)
    ELSE ApiErrorExitCode(Command(c), answer.kind)

Receive(c) ==
    /\ client[c].pc = "waiting" /\ task[c].pc = "done"
    /\ client' = [client EXCEPT ![c].pc = "exit", ![c].observed = version.daemon,
           ![c].got = task[c].answer.kind, ![c].code = ExitCode(c, task[c].answer)]
    /\ UNCHANGED <<version, task, ends, pipe, screen, history>>

\* The 30 seconds of exchange are over.  The daemon's task goes on.
TimeOut(c) ==
    /\ client[c].pc \in {"probing", "waiting"} /\ task[c].pc # "done"
    /\ Exit(c, GenericError)
    /\ UNCHANGED <<version, task, ends, pipe, screen, history>>
-----------------------------------------------------------------------------
(* The daemon's task: the check of the command, the handler, the check of   *)
(* what it answers.                                                         *)

Answer(kind) == [kind |-> kind, outcome |-> "none"]

\* A fault: only the command is checked.
UnderstoodUnchecked(c, answer) == answer

Understood(c, answer) ==
    IF ~SupportsProtocol(version.clients[c], AnswerProtocol(answer.kind))
    THEN Answer("upgrade") ELSE answer

Done(t, c, answer) == [t EXCEPT ![c].pc = "done", ![c].left = <<>>, ![c].answer = Understood(c, answer)]
Finish(c, answer) == task' = Done(task, c, answer)
GoOn(c, pc) == task' = [task EXCEPT ![c].pc = pc]

\* The checks of the arguments that come before the session is looked up.
DelayTooLong(command) == command.op = "key" /\ command.delay > MaxDelay
AmountTooLarge(command) == command.op = "scroll" /\ command.amount > MaxScroll
SizeIsZero(command) == command.op = "resize" /\ 0 \in {command.cols, command.rows}

Malformed(command) == DelayTooLong(command) \/ AmountTooLarge(command) \/ SizeIsZero(command)

Gate(c) ==
    /\ task[c].pc = "gate" /\ version.daemon = ProtocolVersion
    /\ IF ~SupportsProtocol(version.clients[c], MinimumProtocol(Command(c)))
       THEN Finish(c, Answer("upgrade"))
       ELSE IF Malformed(Command(c)) THEN Finish(c, Answer("invalid"))
       ELSE GoOn(c, "resolve")
    /\ modes' = [modes EXCEPT ![c] = {cursorMode}]
    /\ UNCHANGED <<peers, ends, pipe, screen, raced>>

OlderDaemonAnswers(c) ==
    /\ task[c].pc = "gate" /\ version.daemon # ProtocolVersion
    /\ \E kind \in {"ok", "notFound", IF version.daemon < V2 THEN "failed" ELSE "status"} :
            task' = [task EXCEPT ![c].pc = "done", ![c].answer = Answer(kind)]
    /\ UNCHANGED <<peers, ends, pipe, screen, history>>

\* resolve_session, for the commands that need the session live.
Unresolved == IF session = "buried" THEN "exited" ELSE "notFound"

\* What the input commands write, one element for each write: the arrows by the
\* screen's mode, the wheel at the middle of the screen.
TypedInput(command) == <<EncodeText(command.text)>>
KeyInput(command, mode) == ParseKeySequence(command.keys, mode)
ClickInput(command) == <<EncodeClick(command.col, command.row)>>
ScrollInput(command, middle) ==
    [i \in 1..command.amount |-> EncodeScroll(command.up, middle.col, middle.row)]

InputOf(command, mode, middle) ==
    CASE command.op = "type" -> TypedInput(command)
      [] command.op = "key" -> KeyInput(command, mode)
      [] command.op = "click" -> ClickInput(command)
      [] command.op = "scroll" -> ScrollInput(command, middle)

Nowhere == [col |-> 40, row |-> 12]
Middle(size) == [col |-> size.cols \div 2, row |-> size.rows \div 2]

Encoded(c, input) == task' = [task EXCEPT ![c].pc = "write", ![c].left = input]

Resolve(c) ==
    /\ task[c].pc = "resolve" /\ Command(c).op \in InputOps \cup {"resize", "kill"}
    /\ IF session # "live" THEN Finish(c, Answer(Unresolved))
       ELSE IF Command(c).op \in {"type", "click"} THEN Encoded(c, InputOf(Command(c), FALSE, Nowhere))
       ELSE GoOn(c, IF Command(c).op \in {"key", "scroll"} THEN "look" ELSE Command(c).op)
    /\ UNCHANGED <<peers, ends, pipe, screen, history>>

\* How a snapshot can end, by what it waits for.
SnapshotOutcomes(command) ==
    IF session = "buried" THEN {"exited"}
    ELSE IF command.settle = 0 /\ command.awaitChange = Absent THEN {"immediate"}
    ELSE {IF command.settle > 0 THEN "settled" ELSE "changed", "deadline", IF child THEN "deadline" ELSE "exited"}

\* These take a tombstone for an answer, and a list asks for no session.
Report(c) ==
    /\ task[c].pc = "resolve" /\ Command(c).op \in {"list", "status", "output", "snapshot"}
    /\ CASE Command(c).op = "list" -> Finish(c, Answer("sessions"))
         [] Command(c).op # "list" /\ session = "killing" -> Finish(c, Answer("notFound"))
         [] Command(c).op \in {"status", "output"} /\ session # "killing" -> Finish(c, Answer(Command(c).op))
         [] Command(c).op = "snapshot" /\ session # "killing" ->
                \E outcome \in SnapshotOutcomes(Command(c)) :
                    Finish(c, [kind |-> "snapshot", outcome |-> outcome])
    /\ UNCHANGED <<peers, ends, pipe, screen, history>>

\* The screen is asked for its mode or its size, once for all the keys; without
\* a session there is a default, and the first write will fail.
Look(c) ==
    /\ task[c].pc = "look"
    /\ LET there == session = "live"
           input == InputOf(Command(c), there /\ cursorMode, IF there THEN Middle(sizes.emulator) ELSE Nowhere)
       IN IF Command(c).op = "key" /\ (input = Invalid \/ Len(input) > MaxKeys)
          THEN Finish(c, Answer("invalid"))
          ELSE Encoded(c, input)
    /\ UNCHANGED <<peers, ends, pipe, screen, history>>
-----------------------------------------------------------------------------
(* Writing.  Each write looks the session up, subscribes to write_shutdown  *)
(* and waits for room in the channel.                                       *)

Write(c) ==
    /\ task[c].pc = "write"
    /\ IF task[c].left = <<>> THEN Finish(c, Answer("ok"))
       ELSE IF session # "live" THEN Finish(c, Answer("notFound"))
       ELSE GoOn(c, "send")
    /\ UNCHANGED <<peers, ends, pipe, screen, history>>

\* A fault: what was sent is not taken off what is left.
SendAgain(c) ==
    /\ task[c].pc = "send" /\ ~stopping /\ writer.runs /\ Len(channel) < ChannelCap
    /\ channel' = Append(channel, Chunk(c, Head(task[c].left)))
    /\ task' = [task EXCEPT ![c].pc = "write", ![c].sent = @ + 1,
           ![c].left = IF task[c].sent = 0 THEN @ ELSE Tail(@)]
    /\ UNCHANGED <<peers, ends, writer, read, screen, history>>

Send(c) ==
    /\ task[c].pc = "send" /\ ~stopping /\ writer.runs /\ Len(channel) < ChannelCap
    /\ channel' = Append(channel, Chunk(c, Head(task[c].left)))
    /\ LET rest == Tail(task[c].left)
           waits == Command(c).op = "key" /\ Command(c).delay > 0 /\ rest # <<>>
       IN task' = [task EXCEPT ![c].pc = IF waits THEN "delay" ELSE "write",
              ![c].left = rest, ![c].sent = @ + 1]
    /\ UNCHANGED <<peers, ends, writer, read, screen, history>>

DelayOver(c) ==
    /\ task[c].pc = "delay"
    /\ GoOn(c, "write")
    /\ UNCHANGED <<peers, ends, pipe, screen, history>>

\* Two faults: an input that waits for room is not woken by a shutdown; the
\* keys that could not be written are left out and the command succeeds.
SendRefusedByWriter(c) ==
    /\ task[c].pc = "send" /\ ~writer.runs
    /\ Finish(c, Answer("failed"))
    /\ UNCHANGED <<peers, ends, pipe, screen, history>>

SendSkipped(c) ==
    /\ task[c].pc = "send" /\ (stopping \/ ~writer.runs)
    /\ Finish(c, Answer("ok"))
    /\ UNCHANGED <<peers, ends, pipe, screen, history>>

SendRefused(c) ==
    /\ task[c].pc = "send" /\ (stopping \/ ~writer.runs)
    /\ Finish(c, Answer("failed"))
    /\ UNCHANGED <<peers, ends, pipe, screen, history>>

\* A fault: the thread takes one chunk and ends its loop.
WriterTakesOnce ==
    /\ writer.runs /\ writer.hand = <<>> /\ channel # <<>> /\ read = <<>>
    /\ writer' = [writer EXCEPT !.hand = <<Head(channel)>>] /\ channel' = Tail(channel)
    /\ UNCHANGED <<peers, task, ends, read, screen, history>>

\* The writer thread, and the program at the other end of the terminal.
WriterTakes ==
    /\ writer.runs /\ writer.hand = <<>> /\ channel # <<>>
    /\ writer' = [writer EXCEPT !.hand = <<Head(channel)>>] /\ channel' = Tail(channel)
    /\ UNCHANGED <<peers, task, ends, read, screen, history>>

ProgramReads ==
    /\ child /\ writer.hand # <<>>
    /\ read' = read \o writer.hand
    /\ writer' = [writer EXCEPT !.hand = <<>>]
    /\ UNCHANGED <<peers, task, ends, channel, screen, history>>

\* With the program gone a write may fail, which ends the thread and closes the
\* channel, or still find somebody who holds the terminal.
WriteAfterExit ==
    /\ ~child /\ writer.hand # <<>>
    /\ \E fails \in BOOLEAN :
        /\ writer' = [runs |-> ~fails, hand |-> <<>>]
        /\ channel' = IF fails THEN <<>> ELSE channel
    /\ UNCHANGED <<peers, task, ends, read, screen, history>>
-----------------------------------------------------------------------------
(* resize_session: the terminal first, then the emulator under its lock; a  *)
(* terminal that refuses the size leaves the emulator as it is.             *)

ResizeTerminal(c) ==
    /\ task[c].pc = "resize"
    /\ \/ /\ Finish(c, Answer(IF session = "live" THEN "failed" ELSE "notFound"))
          /\ UNCHANGED <<sizes, raced>>
       \/ /\ session = "live" /\ GoOn(c, "emulate")
          /\ sizes' = [sizes EXCEPT !.pty = [cols |-> Command(c).cols, rows |-> Command(c).rows]]
          /\ raced' = (raced \/ \E d \in Clients : task[d].pc = "emulate")
    /\ UNCHANGED <<peers, ends, pipe, cursorMode, modes>>

\* A fault: the session is looked up again, and may be gone.
ResizeEmulatorIfLive(c) ==
    /\ task[c].pc = "emulate"
    /\ Finish(c, Answer("ok"))
    /\ sizes' = [sizes EXCEPT !.emulator =
           IF session = "live" THEN [cols |-> Command(c).cols, rows |-> Command(c).rows] ELSE @]
    /\ UNCHANGED <<peers, ends, pipe, cursorMode, history>>

ResizeEmulator(c) ==
    /\ task[c].pc = "emulate"
    /\ Finish(c, Answer("ok"))
    /\ sizes' = [sizes EXCEPT !.emulator = [cols |-> Command(c).cols, rows |-> Command(c).rows]]
    /\ UNCHANGED <<peers, ends, pipe, cursorMode, history>>
-----------------------------------------------------------------------------
(* The end of the session, by a kill or by itself.                          *)

KillRemove(c) ==
    /\ task[c].pc = "kill"
    /\ IF session # "live" THEN Finish(c, Answer("notFound")) /\ UNCHANGED session
       ELSE GoOn(c, "terminate") /\ session' = "killing"
    /\ UNCHANGED <<peers, child, stopping, pipe, screen, history>>

\* write_shutdown is set before the program is killed.
Terminate(c) ==
    /\ task[c].pc = "terminate"
    /\ stopping' = TRUE /\ child' = FALSE
    /\ GoOn(c, "bury")
    /\ UNCHANGED <<peers, session, pipe, screen, history>>

KillBury(c) ==
    /\ task[c].pc = "bury"
    /\ session' = "buried"
    /\ Finish(c, Answer("ok"))
    /\ UNCHANGED <<peers, child, stopping, pipe, screen, history>>

ChildExits ==
    /\ child
    /\ child' = FALSE
    /\ UNCHANGED <<peers, task, session, stopping, pipe, screen, history>>

\* The cleaner puts the tombstone in the session's place, and refuses no input.
CleanerBuries ==
    /\ session = "live" /\ ~child
    /\ session' = "buried"
    /\ UNCHANGED <<peers, task, child, stopping, pipe, screen, history>>

\* Bound: the mode changes while keys are asked for; no other command reads it.
KeysUnderWay == \E c \in Clients : Command(c).op = "key" /\ task[c].pc \notin {"none", "done"}

\* The program asks for application cursor keys, or for the ordinary ones again.
ModeChanges ==
    /\ child /\ session = "live" /\ KeysUnderWay
    /\ cursorMode' = ~cursorMode
    /\ modes' = [c \in Clients |-> IF task[c].pc \in {"none", "gate", "done"} THEN modes[c] ELSE modes[c] \cup {~cursorMode}]
    /\ UNCHANGED <<peers, task, ends, pipe, sizes, raced>>
-----------------------------------------------------------------------------
TaskStep(c) ==
    \/ Gate(c) \/ OlderDaemonAnswers(c) \/ Resolve(c) \/ Report(c) \/ Look(c)
    \/ Write(c) \/ Send(c) \/ DelayOver(c) \/ SendRefused(c)
    \/ ResizeTerminal(c) \/ ResizeEmulator(c)
    \/ KillRemove(c) \/ Terminate(c) \/ KillBury(c)

Next ==
    \/ \E c \in Clients : Examples(c) \/ Decide(c) \/ ProbeAnswered(c) \/ Receive(c) \/ TimeOut(c) \/ TaskStep(c)
    \/ WriterTakes \/ ProgramReads \/ WriteAfterExit
    \/ ChildExits \/ CleanerBuries \/ ModeChanges

Spec == Init /\ [][Next]_vars

\* Tasks and the writer thread are scheduled, and the program reads its input
\* while it runs.  Nobody need write after the program's exit: a descendant may
\* hold the terminal and read nothing.
FairSpec ==
    /\ Spec
    /\ \A c \in Clients : WF_vars(TaskStep(c))
    /\ WF_vars(WriterTakes) /\ WF_vars(ProgramReads)
-----------------------------------------------------------------------------
(* Properties.                                                              *)

Kinds == Success \cup Failures
Lines == UNION {LinesOf[c] : c \in Clients}
Sizes == {FirstSize} \cup {[cols |-> k.cols, rows |-> k.rows] : k \in {k \in Lines : k.op = "resize"}}

\* What the command line of a client asks for.
Asked(c) == Parsed(client[c].line)

\* What one client's request put into a sequence of chunks.
From(c, chunks) ==
    LET mine == Selected(chunks, {i \in DOMAIN chunks : chunks[i].from = c})
    IN [i \in DOMAIN mine |-> mine[i].bytes]

\* Every variable keeps its type; the parts of the pipe fit together.
TypeOK ==
    /\ version \in Peers
    /\ \A c \in Clients :
        /\ client[c].pc \in {"start", "probing", "waiting", "exit"}
        /\ client[c].line \in LinesOf[c]
        /\ client[c].observed \in {Unknown, version.daemon}
        /\ client[c].got \in Kinds \cup {"none"}
        /\ client[c].code \in {Unknown, ExitSuccess, GenericError, Timing, Lifecycle}
        /\ client[c].pc = "exit" <=> client[c].code # Unknown
        /\ task[c].pc \in {"none", "gate", "resolve", "look", "write", "send", "delay",
                           "resize", "emulate", "kill", "terminate", "bury", "done"}
        /\ task[c].pc = "done" <=> task[c].answer # Nothing
        /\ task[c].pc = "send" => task[c].left # <<>>
        /\ modes[c] \subseteq BOOLEAN
    /\ session \in {"live", "killing", "buried"} /\ {child, stopping, cursorMode, raced} \subseteq BOOLEAN
    /\ Len(channel) <= ChannelCap
    /\ ~writer.runs => channel = <<>> /\ writer.hand = <<>>
    /\ sizes \in [pty : Sizes, emulator : Sizes]

\* The client sends no command to a daemon that would not know it, whichever
\* version the daemon turns out to have (ensure_protocol), and never gets an
\* answer that its own version cannot decode, whatever the daemon did for it
\* (the second check of handle_request).
VersionsRespected ==
    \A c \in Clients :
        /\ Current(c) /\ client[c].pc = "waiting" =>
                SupportsProtocol(version.daemon, MinimumProtocol(Command(c)))
        /\ version.daemon = ProtocolVersion /\ client[c].got # "none" =>
                SupportsProtocol(version.clients[c], AnswerProtocol(client[c].got))

\* "Upgrade" is a refusal: no command that was answered so has typed a key,
\* resized a terminal or ended a session, in whichever of its checks it failed.
RefusedDidNothing ==
    [][\A c \in Clients : task[c].pc # "done" /\ task'[c].pc = "done" /\ task'[c].answer.kind = "upgrade" =>
        /\ task[c].sent = 0 /\ task[c].pc \notin {"emulate", "bury"}
        /\ UNCHANGED <<ends, channel, sizes>>]_vars

\* What arrives from a request is what it asked for, from the first key on, in
\* order and without gaps or repeats, in a mode that the screen had during the
\* request; while the program runs, all that was accepted is there.  The fields
\* have their types, and nothing is left behind a writer thread that ended.
InputAsWritten ==
    /\ TypeOK
    /\ \A c \in Clients : \E mode \in modes[c], size \in Sizes :
        LET input == IF Asked(c).op \in InputOps THEN InputOf(Asked(c), mode, Middle(size)) ELSE <<>>
            taken == From(c, read \o writer.hand \o channel)
        IN /\ IsPrefix(From(c, read), input)
           /\ child => IsPrefix(taken, input) /\ Len(taken) = task[c].sent

\* Exit codes can be relied on: 0 for an input command means that all it asks
\* for was accepted, 0 for a kill that the session is over, 0 for a strict
\* snapshot that it ended neither by its deadline nor by the program's exit, 3
\* that the daemon said of a strict snapshot that it met its deadline, 4 that the
\* program has ended and, for an input command, that it was over before anything
\* was done.
ExitCodeTruth ==
    \A c \in Clients : Current(c) /\ version.daemon = ProtocolVersion /\ client[c].pc = "exit" =>
        /\ client[c].code = ExitSuccess /\ Asked(c).op \in InputOps =>
            \E mode \in modes[c] : task[c].sent = Len(InputOf(Asked(c), mode, Nowhere))
        /\ client[c].code = ExitSuccess /\ Asked(c).op = "kill" => session = "buried" /\ ~child
        /\ client[c].code = ExitSuccess /\ Strict(client[c].line) =>
                task[c].answer.outcome \notin {"deadline", "exited"}
        /\ client[c].code = Timing =>
                client[c].got = "snapshot" /\ Asked(c).strict /\ task[c].answer.outcome = "deadline"
        /\ client[c].code = Lifecycle =>
            ~child /\ (Asked(c).op # "snapshot" => session = "buried" /\ task[c].sent = 0)

\* The program's terminal and the emulator have one size when no resize is
\* under way, also when the session ends in the middle of one; two resizes at
\* once can leave them different.
SizesAgree ==
    ~raced /\ (\A c \in Clients : task[c].pc # "emulate") => sizes.pty = sizes.emulator

\* However the bytes of a connection arrive in chunks, the daemon's task reads the
\* same requests from them: each line that is not blank, in order, up to the
\* first that is too long or not UTF-8, at which the connection ends, and only
\* there (read_line_bounded, handle_connection).
RequestsAsSent == (\E c \in Clients : task[c].pc = "gate") => EveryLineAsSent

Requested(op) == \E c \in Clients : Command(c).op = op

\* Whoever types can type every sequence of bytes, each of them in its shortest
\* spelling or in hexadecimal, and a text in which no backslash begins an escape
\* is written as it is (encode_text).
TextAsTyped == Requested("type") => EveryTextAsTyped

\* A request that waits for room in a full channel is freed by a kill.
KillFreesInput ==
    (stopping /\ \E c \in Clients : task[c].pc = "send") ~> (\A c \in Clients : task[c].pc # "send")

\* What was accepted arrives, unless the program is gone.
AcceptedInputArrives == <>[](~child \/ (channel = <<>> /\ writer.hand = <<>>))
=============================================================================
