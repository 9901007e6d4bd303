---------------------------- MODULE SessionOutput ----------------------------
(***************************************************************************)
(* What the daemon promises about one session's output, without thread,    *)
(* channel, task and finalizer: a record that follows what is written, a   *)
(* screen that follows the record, and at most one end of both.  Either    *)
(* the end is announced, when the screen has caught up and nobody can      *)
(* write any more or somebody told the session to end; or it is cut off,   *)
(* which needs a program that exited or a session that was told.  Evidence *)
(* is taken once, after the end, and only an announced one is complete.    *)
(***************************************************************************)
EXTENDS Retention, SequencesExt

CONSTANTS Output, Newest, Nothing

VARIABLES
    output,   \* everything written
    open,     \* somebody can still write
    over,     \* the session's program has exited
    told,     \* somebody told the session to end
    record,   \* what is recorded of the output
    shown,    \* what the screen shows of it
    stage,    \* live, announced, cut
    evidence

promised == <<output, open, over, told, record, shown, stage, evidence>>

OutputInit ==
    /\ output = <<>> /\ record = <<>> /\ shown = <<>>
    /\ open = TRUE /\ over = FALSE /\ told = FALSE
    /\ stage = "live" /\ evidence = Nothing

Write ==
    /\ open
    /\ \E byte \in Output : output' = Append(output, byte)
    /\ UNCHANGED <<open, over, told, record, shown, stage, evidence>>

Exit ==
    /\ ~over
    /\ over' = TRUE /\ open' \in BOOLEAN
    /\ UNCHANGED <<output, told, record, shown, stage, evidence>>

\* The last one that was left with the terminal lets go of it.
Leave ==
    /\ over /\ open
    /\ open' = FALSE
    /\ UNCHANGED <<output, over, told, record, shown, stage, evidence>>

Tell == told' = TRUE /\ UNCHANGED <<output, open, over, record, shown, stage, evidence>>

\* The next of the output is recorded when the screen shows what was.
Record ==
    /\ stage = "live" /\ shown = record
    /\ IsPrefix(record, record') /\ IsPrefix(record', output)
    /\ UNCHANGED <<output, open, over, told, shown, stage, evidence>>

Show ==
    /\ stage = "live"
    /\ shown' = record
    /\ UNCHANGED <<output, open, over, told, record, stage, evidence>>

Announce ==
    /\ stage = "live" /\ shown = record
    /\ told \/ (~open /\ record = output)
    /\ stage' = "announced"
    /\ UNCHANGED <<output, open, over, told, record, shown, evidence>>

CutOff ==
    /\ stage = "live" /\ (told \/ over)
    /\ stage' = "cut"
    /\ UNCHANGED <<output, open, over, told, record, shown, evidence>>

Conclude ==
    /\ stage # "live" /\ evidence = Nothing
    /\ \E complete \in BOOLEAN :
        /\ complete => stage = "announced"
        /\ evidence' = [screen |-> shown, output |-> Account(TailOf(record, Newest), Len(record)),
                        complete |-> complete]
    /\ UNCHANGED <<output, open, over, told, record, shown, stage>>

OutputNext ==
    \/ Write \/ Exit \/ Leave \/ Tell
    \/ Record \/ Show \/ Announce \/ CutOff \/ Conclude

OutputSpec == OutputInit /\ [][OutputNext]_promised
=============================================================================
