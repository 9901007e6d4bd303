-------------------------- MODULE MCSessionManager --------------------------
\* Model values for checking SessionManager with TLC.
EXTENDS SessionManager, TLC

CONSTANT c1

\* Two clients race to create and end sessions.
Writers == [c \in Clients |-> {"spawn", "kill"}]

\* One client creates and ends sessions while the other looks at them.
Reader == [c \in Clients |-> IF c = c1 THEN {"spawn", "kill"} ELSE LookupOps \ {"kill"}]

\* One client creates and ends sessions while the other only creates them.
Rivals == [c \in Clients |-> IF c = c1 THEN {"spawn", "kill"} ELSE {"spawn"}]

AllAlike == Permutations(Ids) \cup Permutations(Clients)
IdsAlike == Permutations(Ids)
=============================================================================
