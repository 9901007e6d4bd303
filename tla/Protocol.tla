------------------------------ MODULE Protocol ------------------------------
(***************************************************************************)
(* Which peers understand which messages (pilotty-core protocol.rs), what  *)
(* the client does about it (client.rs) and with which code it ends        *)
(* (main.rs).  A command is a record with its op; an answer is a record    *)
(* with its kind.  Version 0 is a peer from before versions were sent.     *)
(***************************************************************************)
EXTENDS Naturals

Legacy == 0
V2 == 2
V3 == 3
ProtocolVersion == V3

Unknown == 99       \* the daemon's version before its first answer
Absent == "absent"  \* an option that is not there

SupportsProtocol(observed, required) == observed >= required

MinimumProtocol(command) ==
    IF command.op = "snapshot" THEN V3
    ELSE IF command.op \in {"output", "status"} \/ (command.op = "spawn" /\ command.retain # Absent) THEN V2
    ELSE Legacy

\* What a command answers, by what is in it: payloads, and errors by what
\* went wrong.
Success == {"ok", "sessions", "snapshot", "output", "status", "created", "waited"}
Failures == {"notFound", "exited", "failed", "invalid", "internal", "upgrade"}

\* The code an error goes by; a refused version is invalid input to old peers.
CodeOf ==
    [notFound |-> "SessionNotFound", exited |-> "SessionExited", failed |-> "CommandFailed",
     invalid |-> "InvalidInput", upgrade |-> "InvalidInput", internal |-> "InternalError"]

PayloadProtocol(kind) ==
    IF kind = "snapshot" THEN V3 ELSE IF kind \in {"output", "status"} THEN V2 ELSE Legacy

\* A fault: every error about a session is taken for a new one.
ErrorProtocolOfSessions(code) == IF code \in {"SessionExited", "CommandFailed", "SessionNotFound"} THEN V2 ELSE Legacy

ErrorProtocol(code) == IF code = "SessionExited" THEN V2 ELSE Legacy

AnswerProtocol(kind) ==
    IF kind \in Success THEN PayloadProtocol(kind) ELSE ErrorProtocol(CodeOf[kind])

\* protocol_action: what the client does next with a command.
ProtocolAction(observed, required) ==
    IF required = Legacy THEN "send"
    ELSE IF observed = Unknown THEN "probe"
    ELSE IF SupportsProtocol(observed, required) THEN "send" ELSE "reject"

ExitSuccess == 0
GenericError == 1
Timing == 3
Lifecycle == 4

CaptureExitCode(strict, outcome) ==
    CASE strict /\ outcome = "deadline" -> Timing
      [] strict /\ outcome = "exited" -> Lifecycle
      [] OTHER -> ExitSuccess

TargetsLiveSession(command) == command.op \in {"type", "key", "click", "scroll", "resize"}

ApiErrorExitCode(command, kind) ==
    IF TargetsLiveSession(command) /\ CodeOf[kind] = "SessionExited" THEN Lifecycle ELSE GenericError
=============================================================================
