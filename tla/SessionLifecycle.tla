-------------------------- MODULE SessionLifecycle --------------------------
(***************************************************************************)
(* What a client may count on about sessions, without locks, tasks or the  *)
(* store's structures.  A session is admitted under a free name while      *)
(* there is room; it ends once, either by itself and then with its         *)
(* evidence at once, or by a kill and then with its evidence after a       *)
(* while; its evidence is forgotten later.                                 *)
(***************************************************************************)
EXTENDS Integers, FiniteSets

CONSTANTS Ids, Names, NoName, MaxSessions

VARIABLES
    phase,    \* unborn, live, ending, exited or gone
    label     \* the name a live session is addressed by

lvars == <<phase, label>>

InPhase(p) == {id \in Ids : phase[id] = p}

LifecycleInit ==
    /\ phase = [id \in Ids |-> "unborn"]
    /\ label = [id \in Ids |-> NoName]

Admit(id, n) ==
    /\ phase[id] = "unborn"
    /\ Cardinality(InPhase("live")) < MaxSessions
    /\ \A other \in InPhase("live") : label[other] # n
    /\ phase' = [phase EXCEPT ![id] = "live"]
    /\ label' = [label EXCEPT ![id] = n]

\* A spawned process that was never admitted.
Abandon(id) ==
    /\ phase[id] = "unborn"
    /\ phase' = [phase EXCEPT ![id] = "gone"]
    /\ UNCHANGED label

Kill(id) ==
    /\ phase[id] = "live"
    /\ phase' = [phase EXCEPT ![id] = "ending"]
    /\ label' = [label EXCEPT ![id] = NoName]

\* The evidence of a session that was in phase from appears; other evidence
\* may be pushed out by it.
Exit(id, from) ==
    /\ phase[id] = from
    /\ \E out \in SUBSET InPhase("exited") :
        phase' = [i \in Ids |-> IF i = id THEN "exited"
                                ELSE IF i \in out THEN "gone" ELSE phase[i]]
    /\ label' = [label EXCEPT ![id] = NoName]

EvidenceForgotten ==
    /\ \E out \in SUBSET InPhase("exited") :
        phase' = [i \in Ids |-> IF i \in out THEN "gone" ELSE phase[i]]
    /\ UNCHANGED label

LifecycleNext ==
    \/ \E id \in Ids :
        \/ \E n \in Names : Admit(id, n)
        \/ Abandon(id)
        \/ Kill(id)
        \/ Exit(id, "live")
        \/ Exit(id, "ending")
    \/ EvidenceForgotten

LifecycleSpec == LifecycleInit /\ [][LifecycleNext]_lvars
=============================================================================
