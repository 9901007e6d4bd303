------------------------------ MODULE MCDaemon ------------------------------
(* Values of the constants of Daemon for TLC.                               *)
EXTENDS Daemon

CONSTANTS c1, c2

Pair == {c1, c2}

\* One client never stops the daemon, the other may.
SpawnerAndStopper ==
    [c \in Pair |-> IF c = c1 THEN {"spawn", "wait"} ELSE {"spawn", "stop"}]
=============================================================================
