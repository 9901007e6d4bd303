----------------------------- MODULE CommandLine -----------------------------
(***************************************************************************)
(* From a command line to the request it sends (pilotty-cli args.rs,       *)
(* main.rs).  A command line is a record with its op and the arguments     *)
(* that were given; the session it names is left out, as there is one.     *)
(***************************************************************************)
EXTENDS Protocol

\* The arguments of each subcommand.
Arguments ==
    [spawn |-> {"name", "retain"}, kill |-> {}, status |-> {}, output |-> {"ansi"},
     snapshot |-> {"format", "awaitChange", "settle", "timeout", "strict"},
     type |-> {"text"}, key |-> {"keys", "delay"}, click |-> {"row", "col"},
     scroll |-> {"up", "amount"}, resize |-> {"cols", "rows"},
     wait |-> {"pattern", "timeout", "regex"},
     list |-> {}, examples |-> {}, daemon |-> {}, stop |-> {}]

\* What an argument is when it is not given; the others have to be.
Defaults ==
    [name |-> Absent, retain |-> Absent, ansi |-> FALSE,
     format |-> "full", awaitChange |-> Absent, settle |-> 0, timeout |-> 30000, strict |-> FALSE,
     delay |-> 0, amount |-> 1, regex |-> FALSE]

IsCommandLine(line) ==
    LET given == DOMAIN line \ {"op"}
    IN /\ "op" \in DOMAIN line /\ line.op \in DOMAIN Arguments
       /\ given \subseteq Arguments[line.op]
       /\ Arguments[line.op] \subseteq given \cup DOMAIN Defaults

Parsed(line) ==
    [a \in DOMAIN line \cup (Arguments[line.op] \cap DOMAIN Defaults) |->
        IF a \in DOMAIN line THEN line[a] ELSE Defaults[a]]

\* "Strict" stays with the client.
CliToCommand(line) ==
    LET cli == Parsed(line) IN [f \in DOMAIN cli \ {"strict"} |-> cli[f]]

NeedsDaemon(line) == line.op # "examples"

Strict(line) == line.op = "snapshot" /\ Parsed(line).strict
=============================================================================
