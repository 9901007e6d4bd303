------------------------ MODULE SessionManager_proofs ------------------------
(***************************************************************************)
(* Safety of the session registry for any number of clients, sessions and  *)
(* names.  One inductive invariant, IInv, carries the registry's own       *)
(* properties; a second one on top of it, LookInv, says how far a request  *)
(* has come and what a lookup knows, for the answers of status and         *)
(* snapshot and for the refinement of SessionLifecycle.tla.                *)
(***************************************************************************)
EXTENDS SessionManager, FiniteSetTheorems, TLAPS

\* Where a request has a session to itself: no longer, or not yet, in the map.
HoldingPcs == {"insert", "terminate", "drain", "finish", "capture", "bury"}
Holding(c) == calls[c].pc \in HoldingPcs

\* What a tombstone says about its session is so.
Truth(t) ==
    /\ t.complete => outputClosed[t.id]
    /\ ~t.killed => t.exitKnown /\ process[t.id] = "exited"
    /\ ~t.killed /\ ~t.complete => exitSeen[t.id] = "drained"

\* t is a true tombstone of session id.
TombstoneOf(t, id) == t \in Tombstone /\ t.id = id /\ Truth(t)

\* What the cleaner knows of a session it took to finalize.
WorkOK(w) ==
    /\ w.id \in Ids
    /\ exitSeen[w.id] # "no"
    /\ w.complete => outputClosed[w.id]
    /\ ~w.complete => exitSeen[w.id] = "drained"

CleanerOK ==
    /\ \A w \in cleaner.work : WorkOK(w)
    /\ cleaner.pc \in {"capture", "lock", "publish"} => WorkOK(cleaner)
    /\ cleaner.pc \in {"lock", "publish"} => TombstoneOf(cleaner.tomb, cleaner.id)

\* What a request knows of the session it has to itself.
CallOK(c) ==
    /\ calls[c].pc = "spawn" => calls[c].ident \in Names
    /\ calls[c].pc \in {"spawn", "use", "lookup"} => calls[c].complete = FALSE
    /\ Holding(c) =>
          /\ calls[c].id \in Ids
          /\ calls[c].id \notin sessions
          /\ calls[c].id \notin DOMAIN store.entries
          /\ name[calls[c].id] # NoName
          /\ calls[c].complete => outputClosed[calls[c].id]
    /\ calls[c].pc = "insert" => name[calls[c].id] = calls[c].ident
    /\ calls[c].pc = "bury" => TombstoneOf(calls[c].tomb, calls[c].id)

CallsOK == \A c \in Clients : CallOK(c)

Alone ==
    \A c, d \in Clients : Holding(c) /\ Holding(d) /\ calls[c].id = calls[d].id => c = d

\* Live and recorded sessions have a name, what has a name was started, and an
\* exit that was observed happened.
RegistryOK ==
    /\ sessions \cap DOMAIN store.entries = {}
    /\ \A id \in sessions \cup DOMAIN store.entries : name[id] # NoName
    /\ \A id \in Ids : name[id] # NoName => process[id] # "none"
    /\ \A id \in Ids : exitSeen[id] # "no" => process[id] = "exited" /\ name[id] # NoName

StoreTrue == \A id \in DOMAIN store.entries : Truth(store.entries[id])

IInv ==
    /\ TypeOK /\ RegistryOK /\ CallsOK /\ Alone /\ CleanerOK
    /\ UniqueNames /\ NoOrphanProcess /\ StoreTrue
-----------------------------------------------------------------------------
(* The tombstone store: what its operations leave of the entries.           *)

\* s2 has no tombstone that s does not have.
Shrinks(s, s2) ==
    /\ DOMAIN s2.entries \subseteq DOMAIN s.entries
    /\ \A id \in DOMAIN s2.entries : s2.entries[id] = s.entries[id]
    /\ s2.capacity = s.capacity

\* Forgetting ids takes entries away and changes none (tombstone.rs:85, 115).
LEMMA ForgetShrinks ==
    ASSUME NEW s, NEW ids, NEW order
    PROVE  Shrinks(s, Store(Forget(s.entries, ids), order, s.capacity))
BY DEF Shrinks, Store, Forget

\* A purge takes entries away and changes none (tombstone.rs:109).
LEMMA PurgeShrinks ==
    ASSUME NEW s, NEW t
    PROVE  Shrinks(s, PurgeExpired(s, t))
BY ForgetShrinks DEF PurgeExpired

LEMMA ShrinksTransitive ==
    ASSUME NEW s, NEW s1, NEW s2, Shrinks(s, s1), Shrinks(s1, s2)
    PROVE  Shrinks(s, s2)
BY DEF Shrinks

\* An insertion adds the new tombstone, if the store keeps any, and nothing
\* else (tombstone.rs:76).
LEMMA InsertAdds ==
    ASSUME NEW s, NEW tomb, NEW t
    PROVE  LET new == Insert(s, tomb, t)
           IN  /\ new.capacity = s.capacity
               /\ \A id \in DOMAIN new.entries :
                    \/ id = tomb.id /\ new.entries[id] = tomb
                    \/ id \in DOMAIN s.entries /\ new.entries[id] = s.entries[id]
               /\ s.capacity # 0 => tomb.id \in DOMAIN new.entries
<1> DEFINE s1 == PurgeExpired(s, t)
           s2 == Replace(s1, tomb.id)
           s3 == MakeRoom(s2)
<1>1. Shrinks(s, s1)
  BY PurgeShrinks
<1>2. Shrinks(s1, s2)
  <2>1. CASE tomb.id \in DOMAIN s1.entries
    BY <2>1, ForgetShrinks DEF Replace
  <2>2. CASE tomb.id \notin DOMAIN s1.entries
    BY <2>2 DEF Replace, Shrinks
  <2>3. QED BY <2>1, <2>2
<1>3. Shrinks(s2, s3)
  <2>1. CASE s2.capacity = 0
    BY <2>1 DEF MakeRoom, Shrinks
  <2>2. CASE s2.capacity # 0
    BY <2>2, ForgetShrinks DEF MakeRoom
  <2>3. QED BY <2>1, <2>2
<1>4. Shrinks(s, s3)
  BY <1>1, <1>2, <1>3, ShrinksTransitive
<1>5. Insert(s, tomb, t) = Put(s3, tomb)
  BY DEF Insert
<1> HIDE DEF s1, s2, s3
<1>6. CASE s3.capacity = 0
  BY <1>4, <1>5, <1>6 DEF Put, Shrinks
<1>7. CASE s3.capacity # 0
  BY <1>4, <1>5, <1>7 DEF Put, Shrinks, Store
<1>8. QED BY <1>6, <1>7
-----------------------------------------------------------------------------
(* The calls: what Goto and Answer do to them.                              *)

LEMMA IdleCallType == IdleCall \in Call
BY DEF IdleCall, Call, CallPcs, Replies, LookupOps, EvidenceOps

\* A request that goes on changes its own record only.
LEMMA GotoEffect ==
    ASSUME calls \in [Clients -> Call], NEW c \in Clients,
           NEW call \in Call, NEW pc \in CallPcs, Goto(c, call, pc)
    PROVE  /\ calls' \in [Clients -> Call]
           /\ \A d \in Clients \ {c} : calls'[d] = calls[d]
           /\ calls'[c].pc = pc /\ calls'[c].op = call.op
           /\ calls'[c].ident = call.ident /\ calls'[c].id = call.id
           /\ calls'[c].complete = call.complete /\ calls'[c].tomb = call.tomb
           /\ calls'[c].retry = call.retry /\ calls'[c].reply = call.reply
<1>1. [call EXCEPT !.pc = pc] \in Call
  BY DEF Call
<1>2. calls' = [calls EXCEPT ![c] = [call EXCEPT !.pc = pc]]
  BY DEF Goto
<1>3. calls' \in [Clients -> Call] /\ calls'[c] = [call EXCEPT !.pc = pc]
  BY <1>1, <1>2
<1>4. QED BY <1>2, <1>3 DEF Call

\* An answered request is idle.
LEMMA AnswerEffect ==
    ASSUME calls \in [Clients -> Call], NEW c \in Clients,
           NEW reply \in Replies, Answer(c, reply)
    PROVE  /\ calls' \in [Clients -> Call]
           /\ \A d \in Clients \ {c} : calls'[d] = calls[d]
           /\ calls'[c].pc = "idle" /\ calls'[c].op = "none" /\ calls'[c].reply = reply
<1>1. [IdleCall EXCEPT !.reply = reply] \in Call
  BY IdleCallType DEF Call
<1>2. calls' = [calls EXCEPT ![c] = [IdleCall EXCEPT !.reply = reply]]
  BY DEF Answer
<1>3. QED BY <1>1, <1>2 DEF IdleCall
-----------------------------------------------------------------------------
(* Sessions' runtimes: everything known of one stays so.                    *)

RuntimeType ==
    /\ name \in [Ids -> Names \cup {NoName}]
    /\ process \in [Ids -> {"none", "running", "killed", "exited"}]
    /\ exitSeen \in [Ids -> {"no", "seen", "drained"}]
    /\ pumping \in [Ids -> BOOLEAN]
    /\ outputClosed \in [Ids -> BOOLEAN]

Grows ==
    /\ RuntimeType'
    /\ \A id \in Ids :
        /\ name[id] # NoName => name'[id] = name[id]
        /\ process[id] = "exited" => process'[id] = "exited"
        /\ exitSeen[id] # "no" => exitSeen'[id] # "no"
        /\ exitSeen[id] = "drained" => exitSeen'[id] = "drained"
        /\ outputClosed[id] => outputClosed'[id]
        /\ name'[id] # NoName => process'[id] # "none"
        /\ exitSeen'[id] # "no" => process'[id] = "exited" /\ name'[id] # NoName

LEMMA TruthLasts ==
    ASSUME Grows, NEW t, t.id \in Ids, Truth(t)
    PROVE  Truth(t)'
BY DEF Grows, Truth

LEMMA WorkLasts ==
    ASSUME Grows, NEW w, WorkOK(w)
    PROVE  WorkOK(w)'
BY DEF Grows, WorkOK

LEMMA TombstoneLasts ==
    ASSUME Grows, NEW t, NEW id \in Ids, TombstoneOf(t, id)
    PROVE  TombstoneOf(t, id)'
BY TruthLasts DEF TombstoneOf

LEMMA CleanerLasts ==
    ASSUME Grows, CleanerOK, UNCHANGED cleaner
    PROVE  CleanerOK'
<1>1. \A w \in cleaner'.work : WorkOK(w)'
  BY WorkLasts DEF CleanerOK
<1>2. cleaner'.pc \in {"capture", "lock", "publish"} => WorkOK(cleaner)'
  BY WorkLasts DEF CleanerOK, WorkOK, Grows
<1>3. cleaner'.pc \in {"lock", "publish"} => TombstoneOf(cleaner.tomb, cleaner.id)'
  <2> SUFFICES ASSUME cleaner.pc \in {"lock", "publish"}
               PROVE  TombstoneOf(cleaner.tomb, cleaner.id)'
    OBVIOUS
  <2>1. cleaner.id \in Ids /\ TombstoneOf(cleaner.tomb, cleaner.id)
    BY DEF CleanerOK, WorkOK
  <2>2. QED BY <2>1, TombstoneLasts DEF TombstoneOf, Truth, Grows
<1>4. QED BY <1>1, <1>2, <1>3 DEF CleanerOK

\* A request that does not move keeps what it knows while nobody puts its
\* session into the map or the store.
LEMMA CallLasts ==
    ASSUME Grows, NEW d \in Clients, CallOK(d), calls'[d] = calls[d],
           Holding(d) => calls[d].id \notin sessions' /\ calls[d].id \notin DOMAIN store'.entries
    PROVE  CallOK(d)'
<1>1. CASE ~Holding(d)
  BY <1>1 DEF CallOK, Holding, HoldingPcs
<1>2. CASE Holding(d)
  <2>1. calls[d].pc = "bury" => TombstoneOf(calls[d].tomb, calls[d].id)'
    <3> SUFFICES ASSUME calls[d].pc = "bury"
                 PROVE  TombstoneOf(calls[d].tomb, calls[d].id)'
      OBVIOUS
    <3>1. calls[d].id \in Ids /\ TombstoneOf(calls[d].tomb, calls[d].id)
      BY <1>2 DEF CallOK
    <3>2. QED BY <3>1, TombstoneLasts DEF TombstoneOf, Truth, Grows
  <2>2. QED BY <1>2, <2>1 DEF CallOK, Holding, HoldingPcs, Grows
<1>3. QED BY <1>1, <1>2

\* Runtimes that do not change grow.
LEMMA Still ==
    ASSUME RuntimeType, RegistryOK, UNCHANGED runtime
    PROVE  Grows
BY DEF RuntimeType, RegistryOK, Grows, runtime

LEMMA TypeGivesRuntime == ASSUME TypeOK PROVE RuntimeType
BY DEF TypeOK, RuntimeType
-----------------------------------------------------------------------------
(* Steps of one kind preserve the invariant.                                *)

LEMMA StoreAfterShrink ==
    ASSUME IInv, Grows, Shrinks(store, store'), sessions' = sessions
    PROVE  /\ DOMAIN store'.entries \subseteq Ids
           /\ \A id \in DOMAIN store'.entries :
                 store'.entries[id] \in Tombstone /\ store'.entries[id].id = id
           /\ store'.capacity = TombCapacity
           /\ RegistryOK' /\ StoreTrue' /\ UniqueNames'
<1>1. /\ DOMAIN store'.entries \subseteq DOMAIN store.entries
      /\ \A id \in DOMAIN store'.entries : store'.entries[id] = store.entries[id]
      /\ store'.capacity = store.capacity
  BY DEF Shrinks
<1>2. /\ DOMAIN store'.entries \subseteq Ids
      /\ \A id \in DOMAIN store'.entries :
            store'.entries[id] \in Tombstone /\ store'.entries[id].id = id
      /\ store'.capacity = TombCapacity
  BY <1>1 DEF IInv, TypeOK
<1>3. RegistryOK'
  BY <1>1 DEF IInv, TypeOK, RegistryOK, Grows
<1>4. StoreTrue'
  <2> SUFFICES ASSUME NEW id \in DOMAIN store'.entries
               PROVE  Truth(store.entries[id])'
    BY <1>1 DEF StoreTrue
  <2>1. store.entries[id].id \in Ids /\ Truth(store.entries[id])
    BY <1>1 DEF IInv, TypeOK, StoreTrue
  <2>2. store'.entries[id] = store.entries[id]
    BY <1>1
  <2>3. QED BY <2>1, <2>2, TruthLasts DEF Truth, Grows
<1>5. UniqueNames'
  BY DEF IInv, TypeOK, UniqueNames, RegistryOK, Grows
<1>6. QED BY <1>2, <1>3, <1>4, <1>5

\* A request moves on without taking a session to itself or letting go of a
\* process that still runs; the store may be purged.
LEMMA CallStep ==
    ASSUME IInv, Grows, NEW c \in Clients,
           calls' \in [Clients -> Call],
           \A d \in Clients \ {c} : calls'[d] = calls[d],
           sessions' = sessions, Shrinks(store, store'), now' = now, UNCHANGED cleaner,
           CallOK(c)',
           Holding(c)' => Holding(c) /\ calls'[c].id = calls[c].id,
           \A id \in Ids : process'[id] = "running" /\ name'[id] # NoName =>
              /\ process[id] = "running" /\ name[id] # NoName
              /\ ~(calls[c].id = id /\ calls[c].pc \in {"insert", "terminate"})
    PROVE  IInv'
<1>1. TypeOK'
  BY StoreAfterShrink DEF IInv, TypeOK, Grows, RuntimeType
<1>2. CallsOK'
  <2> SUFFICES ASSUME NEW d \in Clients \ {c} PROVE CallOK(d)'
    BY DEF CallsOK
  <2>1. CallOK(d) /\ calls'[d] = calls[d]
    BY DEF IInv, CallsOK
  <2>2. Holding(d) => calls[d].id \notin sessions' /\ calls[d].id \notin DOMAIN store'.entries
    BY <2>1 DEF CallOK, Shrinks
  <2>3. QED BY <2>1, <2>2, CallLasts
<1>3. Alone'
  BY DEF IInv, Alone, Holding
<1>4. NoOrphanProcess'
  <2> SUFFICES ASSUME NEW id \in Ids, process'[id] = "running", id \notin sessions',
                      name'[id] # NoName
               PROVE  \E d \in Clients : calls'[d].id = id /\ calls'[d].pc \in {"insert", "terminate"}
    BY DEF NoOrphanProcess
  <2>1. PICK d \in Clients : calls[d].id = id /\ calls[d].pc \in {"insert", "terminate"}
    BY DEF IInv, NoOrphanProcess
  <2>2. d # c
    BY <2>1
  <2>3. QED BY <2>1, <2>2
<1>5. CleanerOK'
  BY CleanerLasts DEF IInv
<1>6. QED BY <1>1, <1>2, <1>3, <1>4, <1>5, StoreAfterShrink DEF IInv

\* The cleaner, a runtime or the clock moves on; the store may be purged.
LEMMA WorldStep ==
    ASSUME IInv, Grows, calls' = calls, sessions' = sessions,
           Shrinks(store, store'), now' \in 0..MaxTime,
           cleaner' \in Cleaner, CleanerOK',
           \A id \in Ids : process'[id] = "running" => process[id] = "running",
           UNCHANGED name
    PROVE  IInv'
<1>1. TypeOK'
  BY StoreAfterShrink DEF IInv, TypeOK, Grows, RuntimeType
<1>2. CallsOK'
  <2> SUFFICES ASSUME NEW d \in Clients PROVE CallOK(d)'
    BY DEF CallsOK
  <2>1. CallOK(d) /\ calls'[d] = calls[d]
    BY DEF IInv, CallsOK
  <2>2. Holding(d) => calls[d].id \notin sessions' /\ calls[d].id \notin DOMAIN store'.entries
    BY <2>1 DEF CallOK, Shrinks
  <2>3. QED BY <2>1, <2>2, CallLasts
<1>3. Alone' /\ NoOrphanProcess'
  BY DEF IInv, Alone, Holding, NoOrphanProcess
<1>4. QED BY <1>1, <1>2, <1>3, StoreAfterShrink DEF IInv
-----------------------------------------------------------------------------
(* The steps that give a session to somebody else.                          *)

\* The unchanged store shrinks trivially.
LEMMA SameStore == ASSUME UNCHANGED store PROVE Shrinks(store, store')
BY DEF Shrinks

LEMMA StepSpawnProcess ==
    ASSUME IInv, NEW c \in Clients, SpawnProcess(c)
    PROVE  IInv'
<1> USE DEF IInv, TypeOK
<1>1. PICK id \in Ids :
        /\ process[id] = "none"
        /\ process' = [process EXCEPT ![id] = "running"]
        /\ name' = [name EXCEPT ![id] = calls[c].ident]
        /\ pumping' = [pumping EXCEPT ![id] = TRUE]
        /\ Goto(c, [calls[c] EXCEPT !.id = id], "insert")
  BY DEF SpawnProcess
<1>2. /\ At(c, "spawn")
      /\ UNCHANGED <<sessions, exitSeen, outputClosed, store, now, cleaner>>
  BY DEF SpawnProcess
<1>3. calls[c].ident \in Names /\ calls[c] \in Call
  BY <1>2 DEF CallsOK, CallOK, At
<1>4. Grows
  BY <1>1, <1>2, <1>3, SessionManagerAssumption DEF Grows, RuntimeType, RegistryOK
<1>5. [calls[c] EXCEPT !.id = id] \in Call /\ "insert" \in CallPcs
  BY <1>3 DEF Call, CallPcs
<1>6. /\ calls' \in [Clients -> Call]
      /\ \A d \in Clients \ {c} : calls'[d] = calls[d]
      /\ calls'[c].pc = "insert"
      /\ calls'[c].id = id
      /\ calls'[c].ident = calls[c].ident
      /\ calls'[c].complete = calls[c].complete
  BY <1>1, <1>3, <1>5, GotoEffect DEF Call
<1>7. id \notin sessions /\ id \notin DOMAIN store.entries /\ name[id] = NoName
  BY <1>1 DEF RegistryOK
<1>8. \A d \in Clients : Holding(d) => calls[d].id # id
  BY <1>7 DEF CallsOK, CallOK
<1>9. calls[c].complete = FALSE
  BY <1>2 DEF CallsOK, CallOK, At
<1>10. TypeOK'
  BY <1>2, <1>4, <1>6 DEF Grows, RuntimeType
<1>11. RegistryOK' /\ UniqueNames'
  BY <1>1, <1>2, <1>3, <1>4, <1>7, SessionManagerAssumption DEF RegistryOK, UniqueNames, Grows
<1>12. CallsOK'
  <2>1. CallOK(c)'
    BY <1>1, <1>2, <1>3, <1>6, <1>7, <1>9, SessionManagerAssumption DEF CallOK, Holding, HoldingPcs
  <2>2. ASSUME NEW d \in Clients \ {c} PROVE CallOK(d)'
    BY <1>2, <1>4, <1>6, CallLasts DEF CallsOK, CallOK
  <2>3. QED BY <2>1, <2>2 DEF CallsOK
<1>13. Alone'
  BY <1>6, <1>8 DEF Alone, Holding, HoldingPcs
<1>14. NoOrphanProcess'
  <2> SUFFICES ASSUME NEW i \in Ids, process'[i] = "running", i \notin sessions,
                      name'[i] # NoName
               PROVE  \E d \in Clients : calls'[d].id = i /\ calls'[d].pc \in {"insert", "terminate"}
    BY <1>2 DEF NoOrphanProcess
  <2>1. CASE i = id
    BY <2>1, <1>6
  <2>2. CASE i # id
    <3>1. PICK d \in Clients : calls[d].id = i /\ calls[d].pc \in {"insert", "terminate"}
      BY <2>2, <1>1 DEF NoOrphanProcess
    <3>2. d # c
      BY <3>1, <1>2 DEF At
    <3>3. QED BY <3>1, <3>2, <1>6
  <2>3. QED BY <2>1, <2>2
<1>15. StoreTrue'
  BY <1>2, <1>4, TruthLasts DEF StoreTrue, Truth, Grows
<1>16. CleanerOK'
  BY <1>2, <1>4, CleanerLasts
<1>17. QED BY <1>10, <1>11, <1>12, <1>13, <1>14, <1>15, <1>16

\* A place among the live sessions and a free name.
LEMMA RefusalNone ==
    ASSUME NEW n, Refusal(n) = "none"
    PROVE  \A id \in sessions : name[id] # n
BY DEF Refusal

LEMMA RefusalType == \A n : Refusal(n) \in {"none", "limit", "duplicate"}
BY DEF Refusal

LEMMA StepInsertSession ==
    ASSUME IInv, NEW c \in Clients, InsertSession(c)
    PROVE  IInv'
<1> USE DEF IInv, TypeOK
<1> DEFINE refusal == Refusal(calls[c].ident)
<1>1. /\ At(c, "insert") /\ calls[c].pc = "insert"
      /\ UNCHANGED <<runtime, store, now, cleaner>>
      /\ UNCHANGED <<name, process, exitSeen, pumping, outputClosed>>
  BY DEF InsertSession, At, runtime
<1>2. Grows
  BY <1>1, Still, TypeGivesRuntime
<1>3. refusal \in {"none", "limit", "duplicate"}
  BY RefusalType
<1>4. calls[c] \in Call /\ CallOK(c) /\ Holding(c)
  BY <1>1 DEF CallsOK, Holding, HoldingPcs
<1>5. CASE refusal = "none"
  <2>1. sessions' = sessions \cup {calls[c].id} /\ Answer(c, "ok")
    BY <1>5 DEF InsertSession
  <2>2. /\ calls' \in [Clients -> Call]
        /\ \A d \in Clients \ {c} : calls'[d] = calls[d]
        /\ calls'[c].pc = "idle"
    BY <2>1, AnswerEffect DEF Replies
  <2>3. /\ calls[c].id \in Ids /\ calls[c].id \notin DOMAIN store.entries
        /\ name[calls[c].id] # NoName /\ name[calls[c].id] = calls[c].ident
    BY <1>1, <1>4 DEF CallOK
  <2>4. \A id \in sessions : name[id] # calls[c].ident
    BY <1>5, RefusalNone
  <2>5. TypeOK'
    BY <1>1, <2>1, <2>2, <2>3
  <2>6. RegistryOK' /\ UniqueNames'
    BY <1>1, <2>1, <2>3, <2>4 DEF RegistryOK, UniqueNames
  <2>7. CallsOK'
    <3>1. CallOK(c)'
      BY <2>2 DEF CallOK, Holding, HoldingPcs
    <3>2. ASSUME NEW d \in Clients \ {c} PROVE CallOK(d)'
      <4>1. CallOK(d) /\ calls'[d] = calls[d]
        BY <2>2 DEF CallsOK
      <4>2. Holding(d) => calls[d].id # calls[c].id
        BY <1>4 DEF Alone
      <4>3. Holding(d) => calls[d].id \notin sessions' /\ calls[d].id \notin DOMAIN store'.entries
        BY <1>1, <2>1, <4>1, <4>2 DEF CallOK
      <4>4. QED BY <1>2, <4>1, <4>3, CallLasts
    <3>3. QED BY <3>1, <3>2 DEF CallsOK
  <2>8. Alone'
    BY <2>2 DEF Alone, Holding, HoldingPcs
  <2>9. NoOrphanProcess'
    BY <1>1, <2>1, <2>2 DEF NoOrphanProcess
  <2>10. StoreTrue'
    BY <1>1, <1>2, TruthLasts DEF StoreTrue, Truth, Grows
  <2>11. CleanerOK'
    BY <1>1, <1>2, CleanerLasts
  <2>12. QED BY <2>5, <2>6, <2>7, <2>8, <2>9, <2>10, <2>11
<1>6. CASE refusal # "none"
  <2> DEFINE call == [calls[c] EXCEPT !.reply = refusal]
  <2>1. sessions' = sessions /\ Goto(c, call, "terminate")
    BY <1>6 DEF InsertSession
  <2>2. call \in Call /\ "terminate" \in CallPcs
    BY <1>3, <1>4 DEF Call, CallPcs, Replies
  <2>3. call.id = calls[c].id /\ call.complete = calls[c].complete
    BY <1>4 DEF Call
  <2> HIDE DEF call
  <2>4. /\ calls' \in [Clients -> Call]
        /\ \A d \in Clients \ {c} : calls'[d] = calls[d]
        /\ calls'[c].pc = "terminate" /\ calls'[c].id = calls[c].id
        /\ calls'[c].complete = calls[c].complete
    BY <2>1, <2>2, <2>3, GotoEffect
  <2>5. TypeOK'
    BY <1>1, <2>1, <2>4
  <2>6. RegistryOK' /\ UniqueNames'
    BY <1>1, <2>1 DEF RegistryOK, UniqueNames
  <2>7. CallsOK'
    <3>1. CallOK(c)'
      BY <1>1, <1>4, <2>1, <2>4 DEF CallOK, Holding, HoldingPcs
    <3>2. ASSUME NEW d \in Clients \ {c} PROVE CallOK(d)'
      BY <1>1, <1>2, <2>1, <2>4, CallLasts DEF CallsOK, CallOK
    <3>3. QED BY <3>1, <3>2 DEF CallsOK
  <2>8. Alone'
    BY <1>4, <2>4 DEF Alone, Holding, HoldingPcs
  <2>9. NoOrphanProcess'
    <3> SUFFICES ASSUME NEW i \in Ids, process[i] = "running", i \notin sessions,
                        name[i] # NoName
                 PROVE  \E d \in Clients : calls'[d].id = i /\ calls'[d].pc \in {"insert", "terminate"}
      BY <1>1, <2>1 DEF NoOrphanProcess
    <3>1. PICK d \in Clients : calls[d].id = i /\ calls[d].pc \in {"insert", "terminate"}
      BY DEF NoOrphanProcess
    <3>2. QED BY <3>1, <2>4
  <2>10. StoreTrue'
    BY <1>1, <1>2, TruthLasts DEF StoreTrue, Truth, Grows
  <2>11. CleanerOK'
    BY <1>1, <1>2, CleanerLasts
  <2>12. QED BY <2>5, <2>6, <2>7, <2>8, <2>9, <2>10, <2>11
<1>7. QED BY <1>5, <1>6

LEMMA StepKillRemove ==
    ASSUME IInv, NEW c \in Clients, KillRemove(c)
    PROVE  IInv'
<1> USE DEF IInv, TypeOK
<1>1. /\ calls[c].pc = "use"
      /\ UNCHANGED <<runtime, store, now, cleaner>>
      /\ UNCHANGED <<name, process, exitSeen, pumping, outputClosed>>
  BY DEF KillRemove, At, runtime
<1>2. Grows
  BY <1>1, Still, TypeGivesRuntime
<1>3. calls[c] \in Call
  OBVIOUS
<1>4. CASE calls[c].id \notin sessions
  <2>1. sessions' = sessions /\ Answer(c, "not_found")
    BY <1>4 DEF KillRemove
  <2>2. /\ calls' \in [Clients -> Call]
        /\ \A d \in Clients \ {c} : calls'[d] = calls[d]
        /\ calls'[c].pc = "idle"
    BY <2>1, AnswerEffect DEF Replies
  <2>3. CallOK(c)' /\ ~Holding(c)'
    BY <2>2 DEF CallOK, Holding, HoldingPcs
  <2>4. QED BY <1>1, <1>2, <2>1, <2>2, <2>3, SameStore, CallStep
<1>5. CASE calls[c].id \in sessions
  <2>1. sessions' = sessions \ {calls[c].id} /\ Goto(c, calls[c], "terminate")
    BY <1>5 DEF KillRemove
  <2>2. /\ calls' \in [Clients -> Call]
        /\ \A d \in Clients \ {c} : calls'[d] = calls[d]
        /\ calls'[c].pc = "terminate" /\ calls'[c].id = calls[c].id
        /\ calls'[c].complete = calls[c].complete
    BY <1>3, <2>1, GotoEffect DEF CallPcs
  <2>3. /\ calls[c].id \in Ids /\ calls[c].id \notin DOMAIN store.entries
        /\ name[calls[c].id] # NoName
    BY <1>5 DEF RegistryOK
  <2>4. \A d \in Clients : Holding(d) => calls[d].id # calls[c].id
    BY <1>5 DEF CallsOK, CallOK
  <2>5. TypeOK'
    BY <1>1, <2>1, <2>2
  <2>6. RegistryOK' /\ UniqueNames'
    BY <1>1, <2>1 DEF RegistryOK, UniqueNames
  <2>7. CallsOK'
    <3>1. CallOK(c)'
      BY <1>1, <2>1, <2>2, <2>3 DEF CallsOK, CallOK, Holding, HoldingPcs
    <3>2. ASSUME NEW d \in Clients \ {c} PROVE CallOK(d)'
      BY <1>1, <1>2, <2>1, <2>2, CallLasts DEF CallsOK, CallOK
    <3>3. QED BY <3>1, <3>2 DEF CallsOK
  <2>8. Alone'
    BY <2>2, <2>4 DEF Alone, Holding, HoldingPcs
  <2>9. NoOrphanProcess'
    <3> SUFFICES ASSUME NEW i \in Ids, process[i] = "running", i \notin sessions',
                        name[i] # NoName
                 PROVE  \E d \in Clients : calls'[d].id = i /\ calls'[d].pc \in {"insert", "terminate"}
      BY <1>1 DEF NoOrphanProcess
    <3>1. CASE i = calls[c].id
      BY <3>1, <2>2
    <3>2. CASE i # calls[c].id
      <4>1. PICK d \in Clients : calls[d].id = i /\ calls[d].pc \in {"insert", "terminate"}
        BY <3>2, <2>1 DEF NoOrphanProcess
      <4>2. QED BY <4>1, <1>1, <2>2
    <3>3. QED BY <3>1, <3>2
  <2>10. StoreTrue'
    BY <1>1, <1>2, TruthLasts DEF StoreTrue, Truth, Grows
  <2>11. CleanerOK'
    BY <1>1, <1>2, CleanerLasts
  <2>12. QED BY <2>5, <2>6, <2>7, <2>8, <2>9, <2>10, <2>11
<1>6. QED BY <1>4, <1>5

\* A true tombstone of a session that is not, or no longer, in the map.
LEMMA AfterInsert ==
    ASSUME IInv, NEW tomb, NEW id \in Ids, TombstoneOf(tomb, id),
           name[id] # NoName, UNCHANGED runtime,
           store' = Insert(store, tomb, now), sessions' \subseteq sessions, id \notin sessions'
    PROVE  /\ DOMAIN store'.entries \subseteq DOMAIN store.entries \cup {id}
           /\ \A i \in DOMAIN store'.entries :
                 store'.entries[i] \in Tombstone /\ store'.entries[i].id = i
           /\ store'.capacity = TombCapacity
           /\ RegistryOK' /\ StoreTrue' /\ UniqueNames'
<1> USE DEF IInv, TypeOK
<1>1. /\ store'.capacity = store.capacity
      /\ \A i \in DOMAIN store'.entries :
           \/ i = tomb.id /\ store'.entries[i] = tomb
           \/ i \in DOMAIN store.entries /\ store'.entries[i] = store.entries[i]
  BY InsertAdds
<1>2. tomb \in Tombstone /\ tomb.id = id /\ Truth(tomb)
  BY DEF TombstoneOf
<1>3. UNCHANGED <<name, process, exitSeen, pumping, outputClosed>>
  BY DEF runtime
<1>4. DOMAIN store'.entries \subseteq DOMAIN store.entries \cup {id}
  BY <1>1, <1>2
<1>5. \A i \in DOMAIN store'.entries : store'.entries[i] \in Tombstone /\ store'.entries[i].id = i
  BY <1>1, <1>2
<1>6. RegistryOK'
  BY <1>3, <1>4 DEF RegistryOK
<1>7. StoreTrue'
  <2> SUFFICES ASSUME NEW i \in DOMAIN store'.entries PROVE Truth(store.entries[i])'
    BY DEF StoreTrue
  <2>1. CASE store'.entries[i] = tomb
    BY <2>1, <1>2, <1>3 DEF Truth
  <2>2. CASE i \in DOMAIN store.entries /\ store'.entries[i] = store.entries[i]
    BY <2>2, <1>3 DEF StoreTrue, Truth
  <2>3. QED BY <2>1, <2>2, <1>1
<1>8. UniqueNames'
  BY <1>3 DEF UniqueNames
<1>9. QED BY <1>1, <1>4, <1>5, <1>6, <1>7, <1>8

LEMMA StepKillBury ==
    ASSUME IInv, NEW c \in Clients, KillBury(c)
    PROVE  IInv'
<1> USE DEF IInv, TypeOK
<1>1. /\ calls[c].pc = "bury" /\ Holding(c)
      /\ store' = Insert(store, calls[c].tomb, now)
      /\ Answer(c, "ok")
      /\ UNCHANGED <<sessions, runtime, now, cleaner>>
      /\ UNCHANGED <<name, process, exitSeen, pumping, outputClosed>>
  BY DEF KillBury, At, runtime, Holding, HoldingPcs
<1>2. Grows
  BY <1>1, Still, TypeGivesRuntime
<1> DEFINE id == calls[c].id
<1>3. /\ id \in Ids /\ id \notin sessions /\ name[id] # NoName
      /\ TombstoneOf(calls[c].tomb, id)
  BY <1>1 DEF CallsOK, CallOK
<1>4. /\ calls' \in [Clients -> Call]
      /\ \A d \in Clients \ {c} : calls'[d] = calls[d]
      /\ calls'[c].pc = "idle"
  BY <1>1, AnswerEffect DEF Replies
<1>5. /\ DOMAIN store'.entries \subseteq DOMAIN store.entries \cup {id}
      /\ \A i \in DOMAIN store'.entries :
            store'.entries[i] \in Tombstone /\ store'.entries[i].id = i
      /\ store'.capacity = TombCapacity
      /\ RegistryOK' /\ StoreTrue' /\ UniqueNames'
  BY <1>1, <1>3, AfterInsert
<1>6. TypeOK'
  BY <1>1, <1>3, <1>4, <1>5
<1>7. CallsOK'
  <2>1. CallOK(c)'
    BY <1>4 DEF CallOK, Holding, HoldingPcs
  <2>2. ASSUME NEW d \in Clients \ {c} PROVE CallOK(d)'
    <3>1. CallOK(d) /\ calls'[d] = calls[d]
      BY <1>4 DEF CallsOK
    <3>2. Holding(d) => calls[d].id # id
      BY <1>1 DEF Alone
    <3>3. Holding(d) => calls[d].id \notin sessions' /\ calls[d].id \notin DOMAIN store'.entries
      BY <1>1, <1>5, <3>1, <3>2 DEF CallOK
    <3>4. QED BY <1>2, <3>1, <3>3, CallLasts
  <2>3. QED BY <2>1, <2>2 DEF CallsOK
<1>8. Alone'
  BY <1>4 DEF Alone, Holding, HoldingPcs
<1>9. NoOrphanProcess'
  <2> SUFFICES ASSUME NEW i \in Ids, process[i] = "running", i \notin sessions,
                      name[i] # NoName
               PROVE  \E d \in Clients : calls'[d].id = i /\ calls'[d].pc \in {"insert", "terminate"}
    BY <1>1 DEF NoOrphanProcess
  <2>1. PICK d \in Clients : calls[d].id = i /\ calls[d].pc \in {"insert", "terminate"}
    BY DEF NoOrphanProcess
  <2>2. QED BY <2>1, <1>1, <1>4
<1>10. CleanerOK'
  BY <1>1, <1>2, CleanerLasts
<1>11. QED BY <1>5, <1>6, <1>7, <1>8, <1>9, <1>10

LEMMA StepCleanerPublish ==
    ASSUME IInv, CleanerPublish
    PROVE  IInv'
<1> USE DEF IInv, TypeOK
<1> DEFINE id == cleaner.id
<1>1. /\ cleaner.pc = "publish"
      /\ cleaner' = [IdleCleaner EXCEPT !.pc = "work", !.work = cleaner.work]
      /\ UNCHANGED <<runtime, now, calls>>
      /\ UNCHANGED <<name, process, exitSeen, pumping, outputClosed>>
  BY DEF CleanerPublish, runtime
<1>2. Grows
  BY <1>1, Still, TypeGivesRuntime
<1>3. /\ id \in Ids /\ process[id] = "exited" /\ name[id] # NoName
      /\ TombstoneOf(cleaner.tomb, id)
  BY <1>1 DEF CleanerOK, WorkOK, RegistryOK
<1>4. cleaner' \in Cleaner /\ cleaner'.pc = "work" /\ cleaner'.work = cleaner.work
  BY <1>1 DEF Cleaner, IdleCleaner
<1>5. CleanerOK'
  BY <1>2, <1>4, WorkLasts DEF CleanerOK
<1>6. CASE id \notin sessions
  <2>1. sessions' = sessions /\ UNCHANGED store
    BY <1>6 DEF CleanerPublish
  <2>2. QED BY <1>1, <1>2, <1>4, <1>5, <2>1, SameStore, WorldStep
<1>7. CASE id \in sessions
  <2>1. sessions' = sessions \ {id} /\ store' = Insert(store, cleaner.tomb, now)
    BY <1>7 DEF CleanerPublish
  <2>2. /\ DOMAIN store'.entries \subseteq DOMAIN store.entries \cup {id}
        /\ \A i \in DOMAIN store'.entries :
              store'.entries[i] \in Tombstone /\ store'.entries[i].id = i
        /\ store'.capacity = TombCapacity
        /\ RegistryOK' /\ StoreTrue' /\ UniqueNames'
    BY <1>1, <1>3, <2>1, AfterInsert
  <2>3. TypeOK'
    BY <1>1, <1>3, <1>4, <2>1, <2>2
  <2>4. CallsOK'
    <3> SUFFICES ASSUME NEW d \in Clients PROVE CallOK(d)'
      BY DEF CallsOK
    <3>1. CallOK(d) /\ calls'[d] = calls[d]
      BY <1>1 DEF CallsOK
    <3>2. Holding(d) => calls[d].id \notin sessions' /\ calls[d].id \notin DOMAIN store'.entries
      BY <1>7, <2>1, <2>2, <3>1 DEF CallOK
    <3>3. QED BY <1>2, <3>1, <3>2, CallLasts
  <2>5. Alone'
    BY <1>1 DEF Alone, Holding
  <2>6. NoOrphanProcess'
    BY <1>1, <1>3, <2>1 DEF NoOrphanProcess
  <2>7. QED BY <1>5, <2>2, <2>3, <2>4, <2>5, <2>6
<1>8. QED BY <1>6, <1>7
-----------------------------------------------------------------------------
(* The other steps of requests.                                             *)

\* A request that is answered, or goes on, outside the steps above and takes
\* no session with it.
LEMMA LetGo ==
    ASSUME IInv, UNCHANGED runtime, NEW c \in Clients,
           calls[c].pc \notin {"insert", "terminate"},
           calls' \in [Clients -> Call],
           \A d \in Clients \ {c} : calls'[d] = calls[d],
           UNCHANGED <<sessions, now, cleaner>>, Shrinks(store, store'),
           \/ calls'[c].pc \in {"idle", "tomb", "evidence"}
           \/ calls'[c].pc = "spawn" /\ calls'[c].ident \in Names /\ calls'[c].complete = FALSE
           \/ calls'[c].pc \in {"use", "lookup"} /\ calls'[c].complete = FALSE
    PROVE  IInv'
<1>1. Grows
  BY Still, TypeGivesRuntime DEF IInv
<1>2. CallOK(c)' /\ ~Holding(c)'
  BY DEF CallOK, Holding, HoldingPcs
<1>3. process' = process /\ name' = name
  BY DEF runtime
<1>4. QED BY <1>1, <1>2, <1>3, CallStep

\* Every answer outside the steps above ends a request that has let go.
LEMMA AnswerLetsGo ==
    ASSUME IInv, UNCHANGED <<sessions, runtime, now, cleaner>>, Shrinks(store, store'),
           NEW c \in Clients, calls[c].pc \notin {"insert", "terminate"},
           NEW reply \in Replies, Answer(c, reply)
    PROVE  IInv'
BY AnswerEffect, LetGo DEF IInv, TypeOK

LEMMA StepCheckSpawn ==
    ASSUME IInv, NEW c \in Clients, NEW n \in Names, CheckSpawn(c, n)
    PROVE  IInv'
<1> DEFINE call == [IdleCall EXCEPT !.op = "spawn", !.ident = n]
<1>1. /\ calls[c].pc = "idle"
      /\ UNCHANGED <<sessions, runtime, store, now, cleaner>>
  BY DEF CheckSpawn, Ready, At
<1>2. call \in Call /\ call.ident = n /\ call.complete = FALSE
  BY DEF IdleCall, Call, CallPcs, LookupOps, EvidenceOps, Replies
<1>3. CASE Refusal(n) = "none"
  <2>1. Goto(c, call, "spawn")
    BY <1>3 DEF CheckSpawn
  <2> HIDE DEF call
  <2>2. /\ calls' \in [Clients -> Call]
        /\ \A d \in Clients \ {c} : calls'[d] = calls[d]
        /\ calls'[c].pc = "spawn" /\ calls'[c].ident = n /\ calls'[c].complete = FALSE
    BY <1>2, <2>1, GotoEffect DEF IInv, TypeOK, CallPcs
  <2>3. QED BY <1>1, <2>2, SameStore, LetGo
<1>4. CASE Refusal(n) # "none"
  <2>1. Answer(c, Refusal(n)) /\ Refusal(n) \in Replies
    BY <1>4, RefusalType DEF CheckSpawn, Replies
  <2>2. QED BY <1>1, <2>1, SameStore, AnswerLetsGo
<1>5. QED BY <1>3, <1>4

LEMMA StepSpawnFails ==
    ASSUME IInv, NEW c \in Clients, SpawnFails(c)
    PROVE  IInv'
BY SameStore, AnswerLetsGo DEF SpawnFails, At, Replies

\* A child whose handle could not be made is nobody's session (session.rs:551).
LEMMA StepHandleFails ==
    ASSUME IInv, NEW c \in Clients, HandleFails(c)
    PROVE  IInv'
<1>1. /\ calls[c].pc = "spawn" /\ Answer(c, "spawn_failed")
      /\ UNCHANGED <<sessions, name, exitSeen, pumping, outputClosed, store, now, cleaner>>
  BY DEF HandleFails, At
<1>2. PICK id \in Ids : process[id] = "none" /\ process' = [process EXCEPT ![id] = "running"]
  BY DEF HandleFails
<1>3. name[id] = NoName
  BY <1>2 DEF IInv, RegistryOK
<1>4. Grows
  BY <1>1, <1>2 DEF Grows, RuntimeType, IInv, TypeOK, RegistryOK
<1>5. /\ calls' \in [Clients -> Call]
      /\ \A d \in Clients \ {c} : calls'[d] = calls[d]
      /\ calls'[c].pc = "idle"
  BY <1>1, AnswerEffect DEF IInv, TypeOK, Replies
<1>6. CallOK(c)' /\ ~Holding(c)'
  BY <1>5 DEF CallOK, Holding, HoldingPcs
<1>7. \A i \in Ids : process'[i] = "running" /\ name'[i] # NoName =>
         process[i] = "running" /\ name[i] # NoName
  BY <1>1, <1>2, <1>3 DEF IInv, TypeOK
<1>8. QED BY <1>1, <1>4, <1>5, <1>6, <1>7, SameStore, CallStep

\* Looking a session up takes nothing (session.rs:678).
LEMMA ResolveLetsGo ==
    ASSUME IInv, NEW c \in Clients, calls[c].pc \in {"idle", "lookup"},
           NEW call \in Call, call.complete = FALSE, Resolve(c, call)
    PROVE  IInv'
<1>1. UNCHANGED <<sessions, runtime, store, now, cleaner>>
  BY DEF Resolve
<1>2. CASE Goto(c, call, "tomb")
  BY <1>1, <1>2, GotoEffect, SameStore, LetGo DEF IInv, TypeOK, CallPcs
<1>3. ASSUME NEW id \in Matches(call.ident), Goto(c, [call EXCEPT !.id = id], "use")
      PROVE  IInv'
  <2> DEFINE found == [call EXCEPT !.id = id]
  <2>1. id \in Ids
    BY <1>3 DEF Matches, IInv, TypeOK
  <2>2. found \in Call /\ found.complete = FALSE /\ Goto(c, found, "use")
    BY <1>3, <2>1 DEF Call
  <2> HIDE DEF found
  <2>3. /\ calls' \in [Clients -> Call]
        /\ \A d \in Clients \ {c} : calls'[d] = calls[d]
        /\ calls'[c].pc = "use" /\ calls'[c].complete = FALSE
    BY <2>2, GotoEffect DEF IInv, TypeOK, CallPcs
  <2>4. QED BY <1>1, <2>3, SameStore, LetGo
<1>4. QED BY <1>2, <1>3 DEF Resolve

LEMMA StepRequest ==
    ASSUME IInv, NEW c \in Clients, NEW op \in LookupOps,
           NEW ident \in Ids \cup Names, Request(c, op, ident)
    PROVE  IInv'
<1> DEFINE call == [IdleCall EXCEPT !.op = op, !.ident = ident]
<1>1. call \in Call /\ call.complete = FALSE
  BY DEF IdleCall, Call, CallPcs, LookupOps, EvidenceOps, Replies
<1>2. calls[c].pc = "idle" /\ Resolve(c, call)
  BY DEF Request, Ready, At
<1>3. QED BY <1>1, <1>2, ResolveLetsGo

LEMMA StepRetry ==
    ASSUME IInv, NEW c \in Clients, Retry(c)
    PROVE  IInv'
BY ResolveLetsGo DEF Retry, At, IInv, TypeOK, CallsOK, CallOK

LEMMA StepReadTombstone ==
    ASSUME IInv, NEW c \in Clients, ReadTombstone(c) \/ ReadEvidence(c)
    PROVE  IInv'
<1>1. /\ calls[c].pc \in {"tomb", "evidence"}
      /\ UNCHANGED <<sessions, runtime, now, cleaner>>
      /\ Shrinks(store, store')
  BY PurgeShrinks DEF ReadTombstone, ReadEvidence, At
<1>2. \/ \E reply \in Replies : Answer(c, reply)
      \/ Goto(c, calls[c], "evidence")
  BY DEF ReadTombstone, ReadEvidence, Replies
<1>3. CASE \E reply \in Replies : Answer(c, reply)
  BY <1>1, <1>3, AnswerLetsGo
<1>4. CASE Goto(c, calls[c], "evidence")
  <2>1. /\ calls' \in [Clients -> Call]
        /\ \A d \in Clients \ {c} : calls'[d] = calls[d]
        /\ calls'[c].pc = "evidence"
    BY <1>4, GotoEffect DEF IInv, TypeOK, CallPcs
  <2>2. QED BY <1>1, <2>1, LetGo
<1>5. QED BY <1>2, <1>3, <1>4

LEMMA StepUseLive ==
    ASSUME IInv, NEW c \in Clients, UseLive(c)
    PROVE  IInv'
<1> DEFINE call == calls[c]
           again == [call EXCEPT !.retry = TRUE]
           evidenceOnly == [again EXCEPT !.ident = call.id]
<1>1. /\ calls[c].pc = "use"
      /\ UNCHANGED <<sessions, runtime, store, now, cleaner>>
  BY DEF UseLive, At
<1>2. call \in Call /\ call.complete = FALSE
  BY <1>1 DEF IInv, TypeOK, CallsOK, CallOK
<1>3. again \in Call /\ again.complete = FALSE
  BY <1>2 DEF Call
<1>4. evidenceOnly \in Call /\ evidenceOnly.complete = FALSE
  BY <1>2, <1>3 DEF Call
<1>5. \/ \E reply \in Replies : Answer(c, reply)
      \/ Goto(c, again, "lookup")
      \/ Goto(c, evidenceOnly, "lookup")
  BY DEF UseLive, Replies
<1> HIDE DEF again, evidenceOnly
<1>6. CASE \E reply \in Replies : Answer(c, reply)
  BY <1>1, <1>6, SameStore, AnswerLetsGo
<1>7. ASSUME NEW next \in Call, next.complete = FALSE, Goto(c, next, "lookup")
      PROVE  IInv'
  <2>1. /\ calls' \in [Clients -> Call]
        /\ \A d \in Clients \ {c} : calls'[d] = calls[d]
        /\ calls'[c].pc = "lookup" /\ calls'[c].complete = FALSE
    BY <1>7, GotoEffect DEF IInv, TypeOK, CallPcs
  <2>2. QED BY <1>1, <2>1, SameStore, LetGo
<1>8. QED BY <1>3, <1>4, <1>5, <1>6, <1>7
-----------------------------------------------------------------------------
(* A shutdown on its way: the session stays with its request.               *)

LEMMA StepTerminate ==
    ASSUME IInv, NEW c \in Clients, Terminate(c)
    PROVE  IInv'
<1> USE DEF IInv, TypeOK
<1> DEFINE id == calls[c].id
<1>1. /\ calls[c].pc = "terminate" /\ Holding(c) /\ CallOK(c) /\ calls[c] \in Call
      /\ process' = [process EXCEPT ![id] = IF @ = "running" THEN "killed" ELSE @]
      /\ UNCHANGED <<sessions, name, exitSeen, pumping, outputClosed, store, now, cleaner>>
  BY DEF Terminate, At, Holding, HoldingPcs, CallsOK
<1>2. id \in Ids
  BY <1>1 DEF CallOK
<1>3. Grows
  BY <1>1, <1>2 DEF Grows, RuntimeType, RegistryOK
<1>4. /\ calls' \in [Clients -> Call]
      /\ \A d \in Clients \ {c} : calls'[d] = calls[d]
      /\ calls'[c].pc = "drain" /\ calls'[c].id = id
      /\ calls'[c].complete = calls[c].complete
  BY <1>1, GotoEffect DEF Terminate, CallPcs
<1>5. CallOK(c)'
  BY <1>1, <1>2, <1>4 DEF CallOK, Holding, HoldingPcs
<1>6. \A i \in Ids : process'[i] = "running" => process[i] = "running" /\ i # id
  BY <1>1, <1>2
<1>7. QED BY <1>1, <1>3, <1>4, <1>5, <1>6, SameStore, CallStep

LEMMA StepDrain ==
    ASSUME IInv, NEW c \in Clients, DrainToClose(c) \/ DrainGivesUp(c)
    PROVE  IInv'
<1> USE DEF IInv, TypeOK
<1> DEFINE drained == [calls[c] EXCEPT !.complete = TRUE]
<1>1. /\ calls[c].pc = "drain" /\ Holding(c) /\ CallOK(c) /\ calls[c] \in Call
      /\ UNCHANGED <<sessions, runtime, store, now, cleaner>>
      /\ UNCHANGED <<name, process, outputClosed, exitSeen>>
  BY DEF DrainToClose, DrainGivesUp, At, Holding, HoldingPcs, CallsOK, runtime
<1>2. drained \in Call /\ drained.id = calls[c].id
  BY <1>1 DEF Call
<1>3. Grows
  BY <1>1, Still, TypeGivesRuntime
<1>4. \/ outputClosed[calls[c].id] /\ Goto(c, drained, "finish")
      \/ Goto(c, calls[c], "finish")
  BY DEF DrainToClose, DrainGivesUp
<1> HIDE DEF drained
<1>5. /\ calls' \in [Clients -> Call]
      /\ \A d \in Clients \ {c} : calls'[d] = calls[d]
      /\ calls'[c].pc = "finish" /\ calls'[c].id = calls[c].id
      /\ outputClosed[calls[c].id] \/ calls'[c].complete = calls[c].complete
  BY <1>1, <1>2, <1>4, GotoEffect DEF CallPcs
<1>6. CallOK(c)'
  BY <1>1, <1>5 DEF CallOK, Holding, HoldingPcs
<1>7. QED BY <1>1, <1>3, <1>5, <1>6, SameStore, CallStep

\* Looking at exit statuses adds to what is known (session.rs:225).
LEMMA ObserveGrows ==
    ASSUME IInv, NEW ids, ObserveExit(ids), pumping' \in [Ids -> BOOLEAN],
           UNCHANGED <<name, process, outputClosed>>,
           \A id \in Ids \cap ids : name[id] # NoName
    PROVE  Grows
BY DEF IInv, TypeOK, RegistryOK, ObserveExit, Grows, RuntimeType

LEMMA StepFinishShutdown ==
    ASSUME IInv, NEW c \in Clients, FinishShutdown(c)
    PROVE  IInv'
<1> USE DEF IInv, TypeOK
<1>1. /\ calls[c].pc = "finish" /\ Holding(c) /\ CallOK(c) /\ calls[c] \in Call
      /\ pumping' = [pumping EXCEPT ![calls[c].id] = FALSE]
      /\ UNCHANGED <<sessions, name, process, outputClosed, store, now, cleaner>>
  BY DEF FinishShutdown, At, Holding, HoldingPcs, CallsOK
<1>2. Grows
  <2>1. ObserveExit({calls[c].id})
    BY DEF FinishShutdown
  <2>2. name[calls[c].id] # NoName
    BY <1>1 DEF CallOK
  <2>3. \A id \in Ids \cap {calls[c].id} : name[id] # NoName
    BY <2>2
  <2>4. QED BY <1>1, <2>1, <2>3, ObserveGrows
<1>3. CASE Goto(c, calls[c], "capture")
  <2>1. /\ calls' \in [Clients -> Call]
        /\ \A d \in Clients \ {c} : calls'[d] = calls[d]
        /\ calls'[c].pc = "capture" /\ calls'[c].id = calls[c].id
        /\ calls'[c].complete = calls[c].complete
    BY <1>1, <1>3, GotoEffect DEF CallPcs
  <2>2. CallOK(c)'
    BY <1>1, <2>1 DEF CallOK, Holding, HoldingPcs
  <2>3. QED BY <1>1, <1>2, <2>1, <2>2, SameStore, CallStep
<1>4. CASE Answer(c, calls[c].reply)
  <2>1. /\ calls' \in [Clients -> Call]
        /\ \A d \in Clients \ {c} : calls'[d] = calls[d]
        /\ calls'[c].pc = "idle"
    BY <1>1, <1>4, AnswerEffect DEF Call
  <2>2. CallOK(c)' /\ ~Holding(c)'
    BY <2>1 DEF CallOK, Holding, HoldingPcs
  <2>3. QED BY <1>1, <1>2, <2>1, <2>2, SameStore, CallStep
<1>5. QED BY <1>3, <1>4 DEF FinishShutdown

\* The tombstone taken from a session's state is true of it (session.rs:282).
LEMMA CaptureIsTrue ==
    ASSUME IInv, NEW id \in Ids, name[id] # NoName,
           NEW complete \in BOOLEAN, NEW killed \in BOOLEAN,
           complete => outputClosed[id],
           ~killed => exitSeen[id] # "no",
           ~killed /\ ~complete => exitSeen[id] = "drained"
    PROVE  TombstoneOf(FinalTombstone(id, complete, killed), id)
<1>1. name[id] \in Names
  BY DEF IInv, TypeOK
<1>2. exitSeen[id] # "no" => process[id] = "exited"
  BY DEF IInv, RegistryOK
<1>3. QED BY <1>1, <1>2 DEF FinalTombstone, TombstoneOf, Tombstone, Truth, IInv, TypeOK

LEMMA StepKillCapture ==
    ASSUME IInv, NEW c \in Clients, KillCapture(c)
    PROVE  IInv'
<1> USE DEF IInv, TypeOK
<1> DEFINE tomb == FinalTombstone(calls[c].id, calls[c].complete, TRUE)
           call == [calls[c] EXCEPT !.tomb = tomb]
<1>1. /\ calls[c].pc = "capture" /\ Holding(c) /\ CallOK(c) /\ calls[c] \in Call
      /\ UNCHANGED <<sessions, runtime, store, now, cleaner>>
      /\ UNCHANGED <<name, process, exitSeen, pumping, outputClosed>>
      /\ Goto(c, call, "bury")
  BY DEF KillCapture, At, Holding, HoldingPcs, CallsOK, runtime
<1>2. calls[c].complete \in BOOLEAN
  BY <1>1 DEF Call
<1>3. TombstoneOf(tomb, calls[c].id)
  BY <1>1, <1>2, CaptureIsTrue DEF CallOK
<1> HIDE DEF tomb
<1>4. call \in Call /\ call.id = calls[c].id /\ call.complete = calls[c].complete /\ call.tomb = tomb
  BY <1>1, <1>3 DEF Call, TombstoneOf
<1> HIDE DEF call
<1>5. /\ calls' \in [Clients -> Call]
      /\ \A d \in Clients \ {c} : calls'[d] = calls[d]
      /\ calls'[c].pc = "bury" /\ calls'[c].id = calls[c].id
      /\ calls'[c].complete = calls[c].complete /\ calls'[c].tomb = tomb
  BY <1>1, <1>4, GotoEffect DEF CallPcs
<1>6. Grows
  BY <1>1, Still, TypeGivesRuntime
<1>7. TombstoneOf(calls[c].tomb, calls[c].id)'
  BY <1>1, <1>3, <1>5 DEF TombstoneOf, Truth
<1>8. CallOK(c)'
  BY <1>1, <1>5, <1>7 DEF CallOK, Holding, HoldingPcs
<1>9. Holding(c)' => Holding(c) /\ calls'[c].id = calls[c].id
  BY <1>1, <1>5
<1>10. QED BY <1>1, <1>5, <1>6, <1>8, <1>9, SameStore, CallStep
-----------------------------------------------------------------------------
(* The other steps of the cleaner, and of the world.                        *)

LEMMA StepCleanerScan ==
    ASSUME IInv, CleanerScan
    PROVE  IInv'
<1> USE DEF IInv, TypeOK
<1> DEFINE ended == {id \in sessions : /\ exitSeen'[id] # "no"
                                       /\ outputClosed[id] \/ exitSeen[id] = "drained"}
           work == {[id |-> id, complete |-> outputClosed[id]] : id \in ended}
<1>1. /\ ObserveExit(sessions)
      /\ cleaner' = [cleaner EXCEPT !.pc = "work", !.work = work]
      /\ UNCHANGED <<sessions, name, process, pumping, outputClosed, store, now, calls>>
  BY DEF CleanerScan
<1>2. Grows
  <2>1. \A id \in Ids \cap sessions : name[id] # NoName
    BY DEF RegistryOK
  <2>2. QED BY <1>1, <2>1, ObserveGrows
<1>3. \A w \in work : w \in [id : Ids, complete : BOOLEAN] /\ WorkOK(w)'
  BY <1>1, <1>2 DEF WorkOK, Grows
<1> HIDE DEF work
<1>4. cleaner' \in Cleaner /\ cleaner'.pc = "work" /\ cleaner'.work = work
  BY <1>1, <1>3 DEF Cleaner
<1>5. CleanerOK'
  BY <1>3, <1>4 DEF CleanerOK, WorkOK
<1>6. QED BY <1>1, <1>2, <1>4, <1>5, SameStore, WorldStep

LEMMA StepCleanerFinish ==
    ASSUME IInv, CleanerFinish
    PROVE  IInv'
<1> USE DEF IInv, TypeOK
<1>1. PICK w \in cleaner.work :
        /\ pumping' = [pumping EXCEPT ![w.id] = FALSE]
        /\ cleaner' = [cleaner EXCEPT !.pc = "capture", !.work = @ \ {w},
                                      !.id = w.id, !.complete = w.complete]
  BY DEF CleanerFinish
<1>2. UNCHANGED <<sessions, name, process, exitSeen, outputClosed, store, now, calls>>
  BY DEF CleanerFinish
<1>3. Grows
  BY <1>1, <1>2 DEF Grows, RuntimeType, RegistryOK
<1>4. WorkOK(w) /\ w \in [id : Ids, complete : BOOLEAN]
  BY <1>1 DEF CleanerOK, Cleaner
<1>5. /\ cleaner' \in Cleaner /\ cleaner'.pc = "capture" /\ cleaner'.work \subseteq cleaner.work
      /\ cleaner'.id = w.id /\ cleaner'.complete = w.complete
  BY <1>1, <1>4 DEF Cleaner
<1>6. CleanerOK'
  BY <1>2, <1>4, <1>5 DEF CleanerOK, WorkOK
<1>7. QED BY <1>2, <1>3, <1>5, <1>6, SameStore, WorldStep

LEMMA StepCleanerCapture ==
    ASSUME IInv, CleanerCapture
    PROVE  IInv'
<1> USE DEF IInv, TypeOK
<1> DEFINE tomb == FinalTombstone(cleaner.id, cleaner.complete, FALSE)
<1>1. /\ cleaner.pc = "capture"
      /\ cleaner' = [cleaner EXCEPT !.pc = "lock", !.tomb = tomb]
      /\ UNCHANGED <<sessions, runtime, store, now, calls>>
      /\ UNCHANGED <<name, process, exitSeen, pumping, outputClosed>>
  BY DEF CleanerCapture, runtime
<1>2. /\ WorkOK(cleaner) /\ cleaner.id \in Ids /\ cleaner.complete \in BOOLEAN
      /\ process[cleaner.id] = "exited" /\ name[cleaner.id] # NoName
  BY <1>1 DEF CleanerOK, WorkOK, Cleaner, RegistryOK
<1>3. TombstoneOf(tomb, cleaner.id)
  BY <1>2, CaptureIsTrue DEF WorkOK
<1> HIDE DEF tomb
<1>4. /\ cleaner' \in Cleaner /\ cleaner'.pc = "lock" /\ cleaner'.work = cleaner.work
      /\ cleaner'.id = cleaner.id /\ cleaner'.complete = cleaner.complete /\ cleaner'.tomb = tomb
  BY <1>1, <1>3 DEF Cleaner, TombstoneOf
<1>5. CleanerOK'
  BY <1>1, <1>2, <1>3, <1>4 DEF CleanerOK, WorkOK, TombstoneOf, Truth
<1>6. Grows
  BY <1>1, Still, TypeGivesRuntime
<1>7. QED BY <1>1, <1>4, <1>5, <1>6, SameStore, WorldStep

LEMMA StepCleanerLock ==
    ASSUME IInv, CleanerLock
    PROVE  IInv'
<1> USE DEF IInv, TypeOK
<1>1. /\ cleaner.pc = "lock" /\ cleaner' = [cleaner EXCEPT !.pc = "publish"]
      /\ UNCHANGED <<sessions, runtime, store, now, calls>>
      /\ UNCHANGED <<name, process, exitSeen, pumping, outputClosed>>
  BY DEF CleanerLock, runtime
<1>2. /\ cleaner' \in Cleaner /\ cleaner'.work = cleaner.work
      /\ cleaner'.id = cleaner.id /\ cleaner'.complete = cleaner.complete
      /\ cleaner'.tomb = cleaner.tomb
  BY <1>1 DEF Cleaner
<1>3. CleanerOK'
  BY <1>1, <1>2 DEF CleanerOK, WorkOK, TombstoneOf, Truth
<1>4. Grows
  BY <1>1, Still, TypeGivesRuntime
<1>5. QED BY <1>1, <1>2, <1>3, <1>4, SameStore, WorldStep

LEMMA StepCleanerPurge ==
    ASSUME IInv, CleanerPurge
    PROVE  IInv'
<1> USE DEF IInv, TypeOK
<1>1. /\ cleaner' = IdleCleaner
      /\ UNCHANGED <<sessions, runtime, now, calls>> /\ UNCHANGED <<name, process>>
      /\ Shrinks(store, store')
  BY PurgeShrinks DEF CleanerPurge, runtime
<1>2. cleaner' \in Cleaner /\ CleanerOK'
  BY <1>1 DEF IdleCleaner, Cleaner, CleanerOK
<1>3. Grows
  BY <1>1, Still, TypeGivesRuntime
<1>4. QED BY <1>1, <1>2, <1>3, WorldStep

LEMMA StepOutside ==
    ASSUME IInv, Tick \/ \E id \in Ids : ProcessExits(id) \/ OutputCloses(id) \/ DrainElapses(id)
    PROVE  IInv'
<1> USE DEF IInv, TypeOK
<1>1. UNCHANGED <<sessions, store, calls, cleaner>> /\ cleaner' \in Cleaner
  BY DEF Tick, ProcessExits, OutputCloses, DrainElapses
<1>2. now' \in 0..MaxTime
  BY SessionManagerAssumption DEF Tick, ProcessExits, OutputCloses, DrainElapses
<1> DEFINE NothingRevives ==
               name' = name /\ \A i \in Ids : process'[i] = "running" => process[i] = "running"
<1>3. Grows /\ NothingRevives
  <2>1. CASE Tick
    BY <2>1, Still, TypeGivesRuntime DEF Tick, runtime
  <2>2. ASSUME NEW id \in Ids, ProcessExits(id) PROVE Grows /\ NothingRevives
    BY <2>2 DEF ProcessExits, Grows, RuntimeType, RegistryOK
  <2>3. ASSUME NEW id \in Ids, OutputCloses(id) PROVE Grows /\ NothingRevives
    BY <2>3 DEF OutputCloses, Grows, RuntimeType, RegistryOK
  <2>4. ASSUME NEW id \in Ids, DrainElapses(id) PROVE Grows /\ NothingRevives
    BY <2>4 DEF DrainElapses, Grows, RuntimeType, RegistryOK
  <2>5. QED BY <2>1, <2>2, <2>3, <2>4
<1>4. CleanerOK'
  BY <1>1, <1>3, CleanerLasts
<1>5. QED BY <1>1, <1>2, <1>3, <1>4, SameStore, WorldStep
-----------------------------------------------------------------------------
(* The invariant and what follows from it.                                  *)

LEMMA InitEstablishes == Init => IInv
<1> SUFFICES ASSUME Init PROVE IInv
  OBVIOUS
<1>1. /\ store.entries = <<>> /\ store.capacity = TombCapacity /\ DOMAIN store.entries = {}
  BY DEF Init, EmptyStore, Store
<1>2. calls \in [Clients -> Call] /\ \A c \in Clients : calls[c] = IdleCall
  BY IdleCallType DEF Init
<1>3. cleaner \in Cleaner
  BY DEF Init, IdleCleaner, Cleaner
<1>4. TypeOK
  BY <1>1, <1>2, <1>3, SessionManagerAssumption DEF Init, TypeOK
<1>5. RegistryOK /\ UniqueNames /\ NoOrphanProcess /\ StoreTrue
  BY <1>1 DEF Init, RegistryOK, UniqueNames, NoOrphanProcess, StoreTrue
<1>6. CallsOK /\ Alone
  BY <1>2 DEF CallsOK, CallOK, Alone, Holding, HoldingPcs, IdleCall
<1>7. CleanerOK
  BY DEF Init, IdleCleaner, CleanerOK
<1>8. QED BY <1>4, <1>5, <1>6, <1>7 DEF IInv

LEMMA NextPreserves == IInv /\ [Next]_vars => IInv'
<1> SUFFICES ASSUME IInv, [Next]_vars PROVE IInv'
  OBVIOUS
<1>1. CASE UNCHANGED vars
  BY <1>1 DEF vars, IInv, TypeOK, RegistryOK, CallsOK, CallOK, Alone, CleanerOK,
         WorkOK, TombstoneOf, Truth, UniqueNames, NoOrphanProcess, StoreTrue, Holding
<1>2. ASSUME NEW c \in Clients, NEW n \in Names, CheckSpawn(c, n) PROVE IInv'
  BY <1>2, StepCheckSpawn
<1>3. ASSUME NEW c \in Clients, NEW op \in LookupOps, NEW ident \in Ids \cup Names,
             Request(c, op, ident)
      PROVE  IInv'
  BY <1>3, StepRequest
<1>4. ASSUME NEW c \in Clients, Step(c) PROVE IInv'
  BY <1>4, StepSpawnProcess, StepSpawnFails, StepHandleFails, StepInsertSession, StepTerminate, StepDrain,
     StepFinishShutdown, StepKillRemove, StepKillCapture, StepKillBury, StepRetry,
     StepReadTombstone, StepUseLive DEF Step
<1>5. CASE CleanerStep
  BY <1>5, StepCleanerScan, StepCleanerFinish, StepCleanerCapture, StepCleanerLock,
     StepCleanerPublish, StepCleanerPurge DEF CleanerStep
<1>6. CASE Tick \/ \E id \in Ids : ProcessExits(id) \/ OutputCloses(id) \/ DrainElapses(id)
  BY <1>6, StepOutside
<1>7. QED BY <1>1, <1>2, <1>3, <1>4, <1>5, <1>6 DEF Next

\* The registry's invariant, for any number of clients and sessions.
THEOREM RegistryInvariant == Spec => []IInv
BY InitEstablishes, NextPreserves, PTL DEF Spec

\* Every field has its type, for any number of clients, ids and names.
THEOREM RegistryTypes == Spec => []TypeOK
BY RegistryInvariant, PTL DEF IInv

\* No two live sessions share a name: the check under the write lock decides
\* (session.rs:597), whatever raced since the first one.
THEOREM NamesAreUnique == Spec => []UniqueNames
BY RegistryInvariant, PTL DEF IInv

\* Exactly one finalizer owns each session (session.rs:627, 898).
THEOREM FinalizedOnce == Spec => []OneOwner
<1>1. IInv => OneOwner
  BY DEF IInv, RegistryOK, CallsOK, CallOK, Alone, OneOwner, Killing, Holding, HoldingPcs
<1>2. QED BY <1>1, RegistryInvariant, PTL

\* No process runs on without a live session or a request that will end it, but
\* for a child whose handle could not be made.
THEOREM ProcessesOwned == Spec => []NoOrphanProcess
BY RegistryInvariant, PTL DEF IInv

\* No tombstone claims more than happened, and every one is filed under its own
\* id (session.rs:282).
THEOREM TombstonesAreTrue == Spec => []TombstoneTruth
<1>1. IInv => TombstoneTruth
  BY DEF IInv, TypeOK, StoreTrue, Truth, TombstoneTruth
<1>2. QED BY <1>1, RegistryInvariant, PTL
-----------------------------------------------------------------------------
(* The limit on live sessions.                                              *)

Limited == IsFiniteSet(sessions) /\ SessionLimit

LEMMA LimitKept ==
    ASSUME TypeOK, Limited, [Next]_vars
    PROVE  Limited'
<1>1. \/ sessions' \subseteq sessions
      \/ \E c \in Clients : InsertSession(c) /\ Refusal(calls[c].ident) = "none"
  BY DEF Next, Step, CleanerStep, vars, CheckSpawn, SpawnProcess, SpawnFails, HandleFails, InsertSession,
     Terminate, DrainToClose, DrainGivesUp, FinishShutdown, KillRemove, KillCapture, KillBury,
     Request, Retry, Resolve, ReadTombstone, ReadEvidence, UseLive, CleanerScan, CleanerFinish,
     CleanerCapture, CleanerLock, CleanerPublish, CleanerPurge, ProcessExits, OutputCloses,
     DrainElapses, Tick
<1>2. CASE sessions' \subseteq sessions
  <2>1. IsFiniteSet(sessions') /\ Cardinality(sessions') <= Cardinality(sessions)
    BY <1>2, FS_Subset DEF Limited
  <2>2. /\ Cardinality(sessions) \in Nat /\ Cardinality(sessions') \in Nat
        /\ MaxSessions \in Nat
    BY <2>1, FS_CardinalityType, SessionManagerAssumption DEF Limited
  <2>3. QED BY <2>1, <2>2 DEF Limited, SessionLimit
<1>3. ASSUME NEW c \in Clients, InsertSession(c), Refusal(calls[c].ident) = "none"
      PROVE  Limited'
  <2>1. sessions' = sessions \cup {calls[c].id}
    BY <1>3 DEF InsertSession
  <2>2. ~(Cardinality(sessions) >= MaxSessions)
    BY <1>3 DEF Refusal
  <2>3. /\ IsFiniteSet(sessions')
        /\ Cardinality(sessions') \in {Cardinality(sessions), Cardinality(sessions) + 1}
    BY <2>1, FS_AddElement DEF Limited
  <2>4. /\ Cardinality(sessions) \in Nat /\ Cardinality(sessions') \in Nat
        /\ MaxSessions \in Nat
    BY <2>3, FS_CardinalityType, SessionManagerAssumption DEF Limited
  <2>5. QED BY <2>2, <2>3, <2>4 DEF Limited, SessionLimit
<1>4. QED BY <1>1, <1>2, <1>3

LEMMA LimitedHolds == Spec => []Limited
<1>1. Init => Limited
  BY FS_EmptySet, SessionManagerAssumption DEF Init, Limited, SessionLimit
<1>2. TypeOK /\ Limited /\ [Next]_vars => Limited'
  BY LimitKept
<1>3. QED BY <1>1, <1>2, RegistryTypes, PTL DEF Spec

\* However many clients spawn at once, the map never exceeds MAX_SESSIONS
\* (session.rs:591).
THEOREM LimitHolds == Spec => []SessionLimit
BY LimitedHolds, PTL DEF Limited
-----------------------------------------------------------------------------
(* The way of each request through its steps.                             *)

\* Where each operation can be, and which session a spawn has by then.
PathOK(c) ==
    /\ calls[c].pc = "idle" => calls[c].op = "none"
    /\ calls[c].pc \in {"spawn", "insert"} => calls[c].op = "spawn"
    /\ calls[c].pc = "spawn" => calls[c].id = NoId
    /\ calls[c].pc \in {"terminate", "drain", "finish"} => calls[c].op \in {"spawn", "kill"}
    /\ calls[c].pc \in {"capture", "bury"} => calls[c].op = "kill"
    /\ calls[c].pc \in {"use", "tomb", "evidence", "lookup"} => calls[c].op \in LookupOps

Paths == \A c \in Clients : PathOK(c)

LookPcs == {"use", "tomb", "evidence", "lookup"}

\* How a step moves the request of the client that takes it.
Move(c) ==
    \/ calls'[c].pc = "idle" /\ calls'[c].op = "none"
    \/ /\ calls[c].pc = "idle" /\ calls'[c].pc = "spawn"
       /\ calls'[c].op = "spawn" /\ calls'[c].id = NoId
    \/ /\ calls[c].pc = "spawn" /\ calls'[c].pc = "insert"
       /\ calls'[c].op = "spawn" /\ calls'[c].id \in Ids
       /\ name[calls'[c].id] = NoName
    \/ /\ <<calls[c].pc, calls'[c].pc>> \in
            {<<"insert", "terminate">>, <<"terminate", "drain">>, <<"drain", "finish">>,
             <<"finish", "capture">>, <<"capture", "bury">>, <<"use", "terminate">>}
       /\ calls'[c].op = calls[c].op /\ calls'[c].id = calls[c].id
       /\ calls[c].pc \in {"finish", "use"} => calls[c].op = "kill"
    \/ /\ calls[c].pc \in LookPcs \cup {"idle"} /\ calls'[c].pc \in LookPcs
       /\ calls'[c].op \in LookupOps

\* A step of c's request, its first one included.
Moves(c) ==
    \/ \E n \in Names : CheckSpawn(c, n)
    \/ \E op \in LookupOps, ident \in Ids \cup Names : Request(c, op, ident)
    \/ Step(c)

\* A request that goes on, or looks further, moves as it should.
LEMMA GotoMoves ==
    ASSUME calls \in [Clients -> Call], NEW c \in Clients,
           NEW call \in Call, NEW pc \in CallPcs, Goto(c, call, pc),
           \/ /\ <<calls[c].pc, pc>> \in
                   {<<"insert", "terminate">>, <<"terminate", "drain">>, <<"drain", "finish">>,
                    <<"finish", "capture">>, <<"capture", "bury">>, <<"use", "terminate">>}
              /\ call.op = calls[c].op /\ call.id = calls[c].id
              /\ calls[c].pc \in {"finish", "use"} => calls[c].op = "kill"
           \/ /\ calls[c].pc \in LookPcs \cup {"idle"} /\ pc \in LookPcs
              /\ call.op \in LookupOps
    PROVE  Move(c) /\ \A d \in Clients \ {c} : calls'[d] = calls[d]
BY GotoEffect DEF Move

\* So does one that looks a session up (session.rs:678).
LEMMA ResolveMoves ==
    ASSUME TypeOK, NEW c \in Clients, calls[c].pc \in LookPcs \cup {"idle"},
           NEW call \in Call, call.op \in LookupOps, Resolve(c, call)
    PROVE  Move(c) /\ \A d \in Clients \ {c} : calls'[d] = calls[d]
<1>1. CASE Goto(c, call, "tomb")
  BY <1>1, GotoMoves DEF TypeOK, CallPcs, LookPcs
<1>2. ASSUME NEW id \in Matches(call.ident), Goto(c, [call EXCEPT !.id = id], "use")
      PROVE  Move(c) /\ \A d \in Clients \ {c} : calls'[d] = calls[d]
  <2> DEFINE found == [call EXCEPT !.id = id]
  <2>1. found \in Call /\ found.op = call.op
    BY <1>2 DEF Matches, TypeOK, Call
  <2> HIDE DEF found
  <2>2. Goto(c, found, "use")
    BY <1>2 DEF found
  <2>3. QED BY <2>1, <2>2, GotoMoves DEF TypeOK, CallPcs, LookPcs
<1>3. QED BY <1>1, <1>2 DEF Resolve

\* The shape of every request (session.rs:517, 627, 678).
LEMMA CallMoves ==
    ASSUME TypeOK, RegistryOK, Paths, NEW c \in Clients, Moves(c)
    PROVE  Move(c) /\ \A d \in Clients \ {c} : calls'[d] = calls[d]
<1> DEFINE Goal == Move(c) /\ \A d \in Clients \ {c} : calls'[d] = calls[d]
<1>a. calls \in [Clients -> Call] /\ calls[c] \in Call /\ PathOK(c)
  BY DEF TypeOK, Paths
<1>0. ASSUME NEW reply \in Replies, Answer(c, reply) PROVE Goal
  BY <1>a, <1>0, AnswerEffect DEF Move
<1>1. ASSUME NEW n \in Names, CheckSpawn(c, n) PROVE Goal
  <2> DEFINE call == [IdleCall EXCEPT !.op = "spawn", !.ident = n]
  <2>1. call \in Call /\ call.op = "spawn" /\ call.id = NoId
    BY DEF IdleCall, Call, CallPcs, LookupOps, EvidenceOps, Replies
  <2>2. CASE Refusal(n) = "none"
    <3>1. Goto(c, call, "spawn") /\ calls[c].pc = "idle"
      BY <1>1, <2>2 DEF CheckSpawn, Ready, At
    <3> HIDE DEF call
    <3>2. QED BY <1>a, <2>1, <3>1, GotoEffect DEF Move, CallPcs
  <2>3. CASE Refusal(n) # "none"
    BY <1>0, <1>1, <2>3, RefusalType DEF CheckSpawn, Replies
  <2>4. QED BY <2>2, <2>3
<1>2. ASSUME NEW op \in LookupOps, NEW ident \in Ids \cup Names, Request(c, op, ident) PROVE Goal
  <2> DEFINE call == [IdleCall EXCEPT !.op = op, !.ident = ident]
  <2>1. call \in Call /\ call.op = op
    BY DEF IdleCall, Call, CallPcs, LookupOps, EvidenceOps, Replies
  <2>2. Resolve(c, call) /\ calls[c].pc = "idle"
    BY <1>2 DEF Request, Ready, At
  <2> HIDE DEF call
  <2>3. QED BY <2>1, <2>2, ResolveMoves
<1>3. CASE SpawnProcess(c)
  <2>1. PICK id \in Ids :
          /\ process[id] = "none"
          /\ process' = [process EXCEPT ![id] = "running"]
          /\ Goto(c, [calls[c] EXCEPT !.id = id], "insert")
    BY <1>3 DEF SpawnProcess
  <2> DEFINE call == [calls[c] EXCEPT !.id = id]
  <2>2. call \in Call /\ call.op = "spawn" /\ call.id = id /\ calls[c].pc = "spawn"
    BY <1>3, <1>a DEF SpawnProcess, At, Call, PathOK
  <2>3. name[id] = NoName
    BY <2>1 DEF RegistryOK
  <2> HIDE DEF call
  <2>4. Goto(c, call, "insert")
    BY <2>1 DEF call
  <2>5. QED BY <1>a, <2>1, <2>2, <2>3, <2>4, GotoEffect DEF Move, CallPcs
<1>4. CASE SpawnFails(c) \/ HandleFails(c)
  BY <1>0, <1>4 DEF SpawnFails, HandleFails, Replies
<1>5. CASE InsertSession(c)
  <2>1. CASE Answer(c, "ok")
    BY <1>0, <2>1 DEF Replies
  <2>2. CASE Goto(c, [calls[c] EXCEPT !.reply = Refusal(calls[c].ident)], "terminate")
    <3> DEFINE call == [calls[c] EXCEPT !.reply = Refusal(calls[c].ident)]
    <3>1. call \in Call /\ call.op = calls[c].op /\ call.id = calls[c].id /\ calls[c].pc = "insert"
      BY <1>5, <1>a, RefusalType DEF InsertSession, At, Call, Replies
    <3> HIDE DEF call
    <3>2. Goto(c, call, "terminate")
      BY <2>2 DEF call
    <3>3. QED BY <1>a, <3>1, <3>2, GotoMoves DEF CallPcs
  <2>3. QED BY <1>5, <2>1, <2>2 DEF InsertSession
<1>6. CASE Terminate(c)
  BY <1>a, <1>6, GotoMoves DEF Terminate, At, CallPcs
<1>7. CASE DrainToClose(c) \/ DrainGivesUp(c)
  <2> DEFINE drained == [calls[c] EXCEPT !.complete = TRUE]
  <2>1. /\ drained \in Call /\ drained.op = calls[c].op /\ drained.id = calls[c].id
        /\ calls[c].pc = "drain"
    BY <1>7, <1>a DEF DrainToClose, DrainGivesUp, At, Call
  <2>2. Goto(c, drained, "finish") \/ Goto(c, calls[c], "finish")
    BY <1>7 DEF DrainToClose, DrainGivesUp
  <2> HIDE DEF drained
  <2>3. QED BY <1>a, <2>1, <2>2, GotoMoves DEF CallPcs
<1>8. CASE FinishShutdown(c)
  <2>1. CASE calls[c].op = "kill"
    BY <1>a, <1>8, <2>1, GotoMoves DEF FinishShutdown, At, CallPcs
  <2>2. CASE calls[c].op # "kill"
    BY <1>a, <1>0, <1>8, <2>2 DEF FinishShutdown, Call
  <2>3. QED BY <2>1, <2>2
<1>9. CASE KillRemove(c)
  <2>1. CASE calls[c].id \in sessions
    BY <1>a, <1>9, <2>1, GotoMoves DEF KillRemove, At, CallPcs
  <2>2. CASE calls[c].id \notin sessions
    BY <1>0, <1>9, <2>2 DEF KillRemove, Replies
  <2>3. QED BY <2>1, <2>2
<1>10. CASE KillCapture(c)
  <2> DEFINE tomb == FinalTombstone(calls[c].id, calls[c].complete, TRUE)
  <2>1. /\ calls[c].pc = "capture"
        /\ calls' = [calls EXCEPT ![c] =
                        [[calls[c] EXCEPT !.tomb = tomb] EXCEPT !.pc = "bury"]]
    BY <1>10 DEF KillCapture, At, Goto
  <2> HIDE DEF tomb
  <2>2. calls'[c] = [[calls[c] EXCEPT !.tomb = tomb] EXCEPT !.pc = "bury"]
    BY <1>a, <2>1
  <2>3. calls'[c].pc = "bury" /\ calls'[c].op = calls[c].op /\ calls'[c].id = calls[c].id
    BY <1>a, <2>2 DEF Call
  <2>4. QED BY <1>a, <2>1, <2>3 DEF Move
<1>11. CASE KillBury(c)
  BY <1>0, <1>11 DEF KillBury, Replies
<1>12. CASE Retry(c)
  BY <1>a, <1>12, ResolveMoves DEF Retry, At, PathOK, LookPcs
<1>13. CASE ReadTombstone(c) \/ ReadEvidence(c)
  <2>1. calls[c].pc \in {"tomb", "evidence"}
    BY <1>13 DEF ReadTombstone, ReadEvidence, At
  <2>2. \/ \E reply \in Replies : Answer(c, reply)
        \/ Goto(c, calls[c], "evidence")
    BY <1>13 DEF ReadTombstone, ReadEvidence, Replies
  <2>3. QED BY <1>a, <1>0, <2>1, <2>2, GotoMoves DEF CallPcs, LookPcs, PathOK
<1>14. CASE UseLive(c)
  <2> DEFINE again == [calls[c] EXCEPT !.retry = TRUE]
             evidenceOnly == [again EXCEPT !.ident = calls[c].id]
  <2>1. calls[c].pc = "use" /\ again \in Call /\ again.op = calls[c].op
    BY <1>a, <1>14 DEF UseLive, At, Call
  <2>2. evidenceOnly \in Call /\ evidenceOnly.op = calls[c].op
    BY <1>a, <2>1 DEF Call
  <2>3. \/ \E reply \in Replies : Answer(c, reply)
        \/ Goto(c, again, "lookup") \/ Goto(c, evidenceOnly, "lookup")
    BY <1>14 DEF UseLive, Replies
  <2> HIDE DEF again, evidenceOnly
  <2>4. QED BY <1>a, <1>0, <2>1, <2>2, <2>3, GotoMoves DEF CallPcs, LookPcs, PathOK
<1>15. QED BY <1>1, <1>2, <1>3, <1>4, <1>5, <1>6, <1>7, <1>8, <1>9, <1>10, <1>11, <1>12,
              <1>13, <1>14 DEF Moves, Step

\* Such a move ends where its operation can be.
LEMMA MoveKeepsPath ==
    ASSUME NEW c \in Clients, PathOK(c), Move(c)
    PROVE  PathOK(c)'
BY DEF PathOK, Move, LookPcs, LookupOps, EvidenceOps

\* Every step is a request's, or leaves the requests alone.
LEMMA WhoMoves ==
    ASSUME TypeOK, [Next]_vars
    PROVE  \/ \E c \in Clients : Moves(c)
           \/ calls' = calls /\ (CleanerStep \/ UNCHANGED vars \/ Tick
                \/ \E id \in Ids : ProcessExits(id) \/ OutputCloses(id) \/ DrainElapses(id))
<1>1. CASE UNCHANGED vars
  BY <1>1 DEF vars
<1>2. CASE CleanerStep
  BY <1>2 DEF CleanerStep, CleanerScan, CleanerFinish, CleanerCapture, CleanerLock,
     CleanerPublish, CleanerPurge
<1>3. CASE Tick \/ \E id \in Ids : ProcessExits(id) \/ OutputCloses(id) \/ DrainElapses(id)
  BY <1>3 DEF Tick, ProcessExits, OutputCloses, DrainElapses
<1>4. ASSUME NEW c \in Clients,
             \/ "spawn" \in OpsOf[c] /\ \E n \in Names : CheckSpawn(c, n)
             \/ \E op \in OpsOf[c] \cap LookupOps, ident \in Ids \cup Names : Request(c, op, ident)
             \/ Step(c)
      PROVE  Moves(c)
  BY <1>4 DEF Moves
<1>5. QED BY <1>1, <1>2, <1>3, <1>4 DEF Next

\* Every request stays on its path.
LEMMA PathsKept ==
    ASSUME TypeOK, RegistryOK, Paths, [Next]_vars
    PROVE  Paths'
<1>1. ASSUME NEW c \in Clients, Moves(c) PROVE Paths'
  <2>1. Move(c) /\ \A d \in Clients \ {c} : calls'[d] = calls[d]
    BY <1>1, CallMoves
  <2>2. QED BY <2>1, MoveKeepsPath DEF Paths, PathOK
<1>2. CASE calls' = calls
  BY <1>2 DEF Paths, PathOK
<1>3. QED BY <1>1, <1>2, WhoMoves
-----------------------------------------------------------------------------
(* What a lookup misses: nothing that is live or recorded.                 *)

\* The session was spawned and its spawn has let go of it; it left the map.
Born(id) == name[id] # NoName /\ ~Spawning(id)
Left(id) == Born(id) /\ id \notin sessions

\* What status and snapshot know of the session they look for: it was there,
\* and once they look for its evidence it has left the map.
KnownOK(c) ==
    calls[c].op \in {"status", "snapshot"} =>
       /\ calls[c].pc \in LookPcs
       /\ calls[c].pc = "use" => calls[c].id \in Ids /\ Born(calls[c].id)
       /\ calls[c].op = "snapshot" /\ calls[c].retry => calls[c].ident \in Ids
       /\ calls[c].pc = "lookup" => calls[c].retry
       /\ calls[c].ident \in Ids =>
            /\ Born(calls[c].ident)
            /\ calls[c].pc \in {"tomb", "evidence"} \/ calls[c].retry => Left(calls[c].ident)
            /\ calls[c].pc = "use" => ~calls[c].retry /\ calls[c].id = calls[c].ident

LookInv == Paths /\ \A c \in Clients : KnownOK(c)

\* A live session is nobody's spawn any more (session.rs:591).
LEMMA LiveIsBorn ==
    ASSUME IInv, Paths, NEW id \in sessions
    PROVE  id \in Ids /\ Born(id)
<1>1. id \in Ids /\ name[id] # NoName
  BY DEF IInv, TypeOK, RegistryOK
<1>2. ASSUME NEW c \in Clients, calls[c].op = "spawn", calls[c].id = id, ~Ready(c) PROVE FALSE
  <2>1. calls[c].pc \in {"spawn", "insert", "terminate", "drain", "finish"}
    BY <1>2 DEF Paths, PathOK, Ready, At, IInv, TypeOK, Call, CallPcs, LookupOps, EvidenceOps
  <2>2. calls[c].pc # "spawn"
    BY <1>1, <1>2, SessionManagerAssumption DEF Paths, PathOK
  <2>3. QED BY <1>2, <2>1, <2>2 DEF IInv, CallsOK, CallOK, Holding, HoldingPcs
<1>3. QED BY <1>1, <1>2 DEF Born, Spawning

\* A spawned session stays spawned.
LEMMA SpawnedStays ==
    ASSUME IInv, [Next]_vars, NEW id \in Ids, name[id] # NoName
    PROVE  name'[id] # NoName
<1>1. \/ UNCHANGED name
      \/ \E c \in Clients : SpawnProcess(c)
  BY DEF Next, Step, CleanerStep, vars, runtime, CheckSpawn, SpawnFails, HandleFails, InsertSession,
     DrainToClose, DrainGivesUp, FinishShutdown, KillRemove, KillCapture, KillBury,
     Request, Retry, Resolve, ReadTombstone, ReadEvidence, UseLive, CleanerScan, CleanerFinish,
     CleanerCapture, CleanerLock, CleanerPublish, CleanerPurge, OutputCloses, DrainElapses, Tick,
     Terminate, ProcessExits
<1>2. QED BY <1>1 DEF SpawnProcess, IInv, TypeOK, RegistryOK

\* Once its spawn is answered, no spawn has a session again.
LEMMA BornLasts ==
    ASSUME IInv, Paths, [Next]_vars, NEW id \in Ids, Born(id)
    PROVE  Born(id)'
<1>1. name'[id] # NoName
  BY SpawnedStays DEF Born
<1>2. ASSUME NEW c \in Clients, Moves(c) PROVE ~Spawning(id)'
  <2>1. Move(c) /\ \A d \in Clients \ {c} : calls'[d] = calls[d]
    BY <1>2, CallMoves DEF IInv
  <2> SUFFICES ASSUME NEW d \in Clients, calls'[d].op = "spawn", calls'[d].id = id,
                      calls'[d].pc # "idle"
               PROVE  FALSE
    BY DEF Spawning, Ready, At
  <2>2. ~(calls[d].op = "spawn" /\ calls[d].id = id /\ calls[d].pc # "idle")
    BY DEF Born, Spawning, Ready, At
  <2>3. d = c
    BY <2>1, <2>2
  <2>4. id # NoId /\ name[id] # NoName
    BY SessionManagerAssumption DEF Born
  <2>5. QED BY <2>1, <2>2, <2>3, <2>4 DEF Move, LookupOps, EvidenceOps
<1>3. CASE calls' = calls
  BY <1>1, <1>3 DEF Born, Spawning, Ready, At
<1>4. QED BY <1>1, <1>2, <1>3, WhoMoves DEF Born, IInv

\* Only a spawn puts a session into the map, and only its own.
LEMMA LeftLasts ==
    ASSUME IInv, Paths, [Next]_vars, NEW id \in Ids, Left(id)
    PROVE  Left(id)'
<1>1. \/ sessions' \subseteq sessions
      \/ \E c \in Clients : At(c, "insert") /\ sessions' = sessions \cup {calls[c].id}
  BY DEF Next, Step, CleanerStep, vars, CheckSpawn, SpawnProcess, SpawnFails, HandleFails, InsertSession,
     Terminate, DrainToClose, DrainGivesUp, FinishShutdown, KillRemove, KillCapture, KillBury,
     Request, Retry, Resolve, ReadTombstone, ReadEvidence, UseLive, CleanerScan, CleanerFinish,
     CleanerCapture, CleanerLock, CleanerPublish, CleanerPurge, ProcessExits, OutputCloses,
     DrainElapses, Tick
<1>2. id \notin sessions'
  BY <1>1 DEF Left, Born, Spawning, Paths, PathOK, Ready, At
<1>3. QED BY <1>2, BornLasts DEF Left

\* A request that others' steps pass by.
LEMMA KnownLasts ==
    ASSUME IInv, Paths, [Next]_vars, NEW c \in Clients, KnownOK(c), calls'[c] = calls[c]
    PROVE  KnownOK(c)'
<1>1. \A id \in Ids : (Born(id) => Born(id)') /\ (Left(id) => Left(id)')
  BY BornLasts, LeftLasts
<1>2. QED BY <1>1 DEF KnownOK, Born, Left, Spawning

\* A session that a lookup finds, or does not find.
LEMMA ResolveKnown ==
    ASSUME IInv, LookInv, [Next]_vars, NEW c \in Clients, NEW call \in Call,
           call.op \in LookupOps,
           call.ident \in Ids => Born(call.ident),
           call.ident \in Ids /\ call.retry => Left(call.ident),
           call.op = "snapshot" /\ call.retry => call.ident \in Ids,
           Resolve(c, call)
    PROVE  KnownOK(c)'
<1>1. \A id \in Ids : (Born(id) => Born(id)') /\ (Left(id) => Left(id)')
  BY BornLasts, LeftLasts DEF LookInv
<1>2. \A id \in sessions : id \in Ids /\ Born(id) /\ name[id] \in Names
  BY LiveIsBorn DEF LookInv, IInv, TypeOK, RegistryOK
<1>3. CASE Matches(call.ident) = {} /\ Goto(c, call, "tomb")
  <2>1. /\ calls'[c].pc = "tomb" /\ calls'[c].op = call.op /\ calls'[c].ident = call.ident
        /\ calls'[c].retry = call.retry
    BY <1>3, GotoEffect DEF IInv, TypeOK, CallPcs
  <2>2. call.ident \notin sessions
    BY <1>3 DEF Matches
  <2>3. call.ident \in Ids => Born(call.ident)' /\ Left(call.ident)'
    BY <1>1, <2>2 DEF Left
  <2>4. QED BY <2>1, <2>3 DEF KnownOK, LookPcs, Born, Left, Spawning
<1>4. ASSUME NEW id \in Matches(call.ident), Goto(c, [call EXCEPT !.id = id], "use")
      PROVE  KnownOK(c)'
  <2> DEFINE found == [call EXCEPT !.id = id]
  <2>1. id \in sessions /\ id \in Ids /\ Born(id) /\ name[id] \in Names
    BY <1>2, <1>4 DEF Matches
  <2>2. /\ found \in Call /\ found.op = call.op /\ found.ident = call.ident
        /\ found.retry = call.retry /\ found.id = id
    BY <2>1 DEF Call
  <2> HIDE DEF found
  <2>3. Goto(c, found, "use")
    BY <1>4 DEF found
  <2>4. /\ calls'[c].pc = "use" /\ calls'[c].op = call.op /\ calls'[c].ident = call.ident
        /\ calls'[c].retry = call.retry /\ calls'[c].id = id
    BY <2>2, <2>3, GotoEffect DEF IInv, TypeOK, CallPcs
  <2>5. call.ident \in Ids => call.ident = id
    BY <1>4, <2>1, SessionManagerAssumption DEF Matches
  <2>6. ~(call.ident \in Ids /\ call.retry)
    BY <2>1, <2>5 DEF Left
  <2>7. Born(id)'
    BY <1>1, <2>1
  <2>8. QED BY <2>1, <2>4, <2>5, <2>6, <2>7 DEF KnownOK, LookPcs, Born, Left, Spawning
<1>5. QED BY <1>3, <1>4 DEF Resolve

\* A session that vanished under status or snapshot has left the map
\* (server.rs:846, 1129).
LEMMA UseLiveKnown ==
    ASSUME IInv, LookInv, [Next]_vars, NEW c \in Clients, UseLive(c)
    PROVE  KnownOK(c)'
<1> DEFINE call == calls[c]
           again == [call EXCEPT !.retry = TRUE]
           evidenceOnly == [again EXCEPT !.ident = call.id]
<1>a. call \in Call /\ call.pc = "use" /\ PathOK(c) /\ KnownOK(c)
  BY DEF UseLive, At, IInv, TypeOK, LookInv, Paths
<1>b. \A id \in Ids : (Born(id) => Born(id)') /\ (Left(id) => Left(id)')
  BY BornLasts, LeftLasts DEF LookInv
<1>1. ASSUME NEW reply \in Replies, Answer(c, reply) PROVE KnownOK(c)'
  BY <1>1, AnswerEffect DEF IInv, TypeOK, KnownOK
<1>2. CASE call.op = "status" /\ call.id \notin sessions /\ Goto(c, again, "lookup")
  <2>1. again \in Call /\ again.op = "status" /\ again.ident = call.ident /\ again.retry
    BY <1>a, <1>2 DEF Call
  <2> HIDE DEF again
  <2>2. /\ calls'[c].pc = "lookup" /\ calls'[c].op = "status" /\ calls'[c].ident = call.ident
        /\ calls'[c].retry = again.retry
    <3>1. calls \in [Clients -> Call] /\ "lookup" \in CallPcs
      BY DEF IInv, TypeOK, CallPcs
    <3>2. Goto(c, again, "lookup")
      BY <1>2
    <3> HIDE DEF call
    <3> QED
      BY <2>1, <3>1, <3>2, GotoEffect
  <2>3. call.ident \in Ids => Left(call.ident)
    BY <1>a, <1>2 DEF KnownOK, Left
  <2>4. \A i \in Ids : i = call.ident => Left(i)' /\ Born(i)'
    BY <1>b, <2>3 DEF Left
  <2>5. QED BY <2>1, <2>2, <2>4 DEF KnownOK, LookPcs, Born, Left, Spawning
<1>3. CASE call.op = "snapshot" /\ call.id \notin sessions /\ Goto(c, evidenceOnly, "lookup")
  <2>1. call.id \in Ids /\ Left(call.id)
    BY <1>a, <1>3 DEF KnownOK, Left
  <2>2. again \in Call /\ again.op = "snapshot" /\ again.retry
    BY <1>a, <1>3 DEF Call
  <2>3. evidenceOnly \in Call /\ evidenceOnly.op = "snapshot" /\ evidenceOnly.ident = call.id
        /\ evidenceOnly.retry
    BY <2>1, <2>2 DEF Call
  <2> HIDE DEF evidenceOnly
  <2>4. /\ calls'[c].pc = "lookup" /\ calls'[c].op = "snapshot" /\ calls'[c].ident = call.id
        /\ calls'[c].retry = evidenceOnly.retry
    <3>1. calls \in [Clients -> Call] /\ "lookup" \in CallPcs
      BY DEF IInv, TypeOK, CallPcs
    <3>2. Goto(c, evidenceOnly, "lookup")
      BY <1>3
    <3> HIDE DEF call
    <3> QED
      BY <2>3, <3>1, <3>2, GotoEffect
  <2>5. \A i \in Ids : i = call.id => Left(i)' /\ Born(i)'
    BY <1>b, <2>1 DEF Left
  <2>6. QED BY <2>1, <2>3, <2>4, <2>5 DEF KnownOK, LookPcs, Born, Left, Spawning
<1>4. QED BY <1>1, <1>2, <1>3 DEF UseLive, Replies

\* c's own step keeps what status and snapshot know (session.rs:678, 735).
LEMMA OwnStepKnown ==
    ASSUME IInv, LookInv, [Next]_vars, NEW c \in Clients, Moves(c)
    PROVE  KnownOK(c)'
<1>a. calls[c] \in Call /\ PathOK(c) /\ KnownOK(c)
  BY DEF IInv, TypeOK, LookInv, Paths
<1>b. Move(c)
  BY CallMoves DEF IInv, LookInv
<1>c. \A id \in Ids : (Born(id) => Born(id)') /\ (Left(id) => Left(id)')
  BY BornLasts, LeftLasts DEF LookInv
<1>1. ASSUME calls'[c].op \notin {"status", "snapshot"} PROVE KnownOK(c)'
  BY <1>1 DEF KnownOK
<1>2. ASSUME NEW n \in Names, CheckSpawn(c, n) PROVE KnownOK(c)'
  <2> DEFINE call == [IdleCall EXCEPT !.op = "spawn", !.ident = n]
  <2>1. call \in Call /\ call.op = "spawn"
    BY DEF IdleCall, Call, CallPcs, LookupOps, EvidenceOps, Replies
  <2>2. Goto(c, call, "spawn") \/ \E reply \in Replies : Answer(c, reply)
    BY <1>2, RefusalType DEF CheckSpawn, Replies
  <2> HIDE DEF call
  <2>3. calls'[c].op \in {"spawn", "none"}
    BY <2>1, <2>2, GotoEffect, AnswerEffect DEF IInv, TypeOK, CallPcs
  <2>4. QED BY <1>1, <2>3
<1>3. ASSUME NEW op \in LookupOps, NEW ident \in Ids \cup Names, Request(c, op, ident)
      PROVE  KnownOK(c)'
  <2> DEFINE call == [IdleCall EXCEPT !.op = op, !.ident = ident]
  <2>1. call \in Call /\ call.op = op /\ call.ident = ident /\ ~call.retry
    BY DEF IdleCall, Call, CallPcs, LookupOps, EvidenceOps, Replies
  <2>2. Resolve(c, call)
    BY <1>3 DEF Request
  <2>3. ident \in Ids => Born(ident)
    BY <1>3, SessionManagerAssumption DEF Request, Spawned, Born
  <2> HIDE DEF call
  <2>4. QED BY <2>1, <2>2, <2>3, ResolveKnown
<1>4. CASE Retry(c)
  <2>1. Resolve(c, calls[c]) /\ calls[c].pc = "lookup"
    BY <1>4 DEF Retry, At
  <2>2. CASE calls[c].op \in {"status", "snapshot"}
    BY <1>a, <2>1, <2>2, ResolveKnown DEF KnownOK, LookupOps, EvidenceOps
  <2>3. CASE calls[c].op \notin {"status", "snapshot"}
    <3>1. \A id \in sessions : id \in Ids
      BY DEF IInv, TypeOK
    <3>2. calls'[c].op = calls[c].op
      <4>1. CASE Goto(c, calls[c], "tomb")
        BY <1>a, <4>1, GotoEffect DEF IInv, TypeOK, CallPcs
      <4>2. ASSUME NEW id \in sessions, Goto(c, [calls[c] EXCEPT !.id = id], "use")
            PROVE  calls'[c].op = calls[c].op
        <5> DEFINE found == [calls[c] EXCEPT !.id = id]
        <5>1. found \in Call /\ found.op = calls[c].op
          BY <1>a, <3>1 DEF Call
        <5> HIDE DEF found
        <5>2. Goto(c, found, "use")
          BY <4>2 DEF found
        <5>3. QED BY <5>1, <5>2, GotoEffect DEF IInv, TypeOK, CallPcs
      <4>3. QED BY <2>1, <4>1, <4>2 DEF Resolve, Matches
    <3>3. QED BY <1>1, <2>3, <3>2
  <2>4. QED BY <2>2, <2>3
<1>5. CASE ReadTombstone(c) \/ ReadEvidence(c)
  <2>1. \/ \E reply \in Replies : Answer(c, reply)
        \/ calls[c].pc = "tomb" /\ Goto(c, calls[c], "evidence")
    BY <1>5 DEF ReadTombstone, ReadEvidence, Replies, At
  <2>2. CASE \E reply \in Replies : Answer(c, reply)
    BY <1>1, <2>2, AnswerEffect DEF IInv, TypeOK
  <2>3. CASE calls[c].pc = "tomb" /\ Goto(c, calls[c], "evidence")
    <3>1. /\ calls'[c].pc = "evidence" /\ calls'[c].op = calls[c].op
          /\ calls'[c].ident = calls[c].ident /\ calls'[c].retry = calls[c].retry
      BY <1>a, <2>3, GotoEffect DEF IInv, TypeOK, CallPcs
    <3>2. QED BY <1>a, <1>c, <2>3, <3>1 DEF KnownOK, LookPcs, Born, Left, Spawning
  <2>4. QED BY <2>1, <2>2, <2>3
<1>6. CASE UseLive(c)
  BY <1>6, UseLiveKnown
<1>7. CASE KillRemove(c)
  <2>1. calls[c].op = "kill"
    BY <1>7 DEF KillRemove
  <2>2. calls'[c].op \in {"kill", "none"}
    BY <1>7, <1>a, <2>1, GotoEffect, AnswerEffect DEF KillRemove, IInv, TypeOK, CallPcs, Replies
  <2>3. QED BY <1>1, <2>2
<1>8. CASE \/ SpawnProcess(c) \/ SpawnFails(c) \/ HandleFails(c) \/ InsertSession(c) \/ Terminate(c)
           \/ DrainToClose(c) \/ DrainGivesUp(c) \/ FinishShutdown(c)
           \/ KillCapture(c) \/ KillBury(c)
  <2>1. calls[c].pc \in {"spawn", "insert", "terminate", "drain", "finish", "capture", "bury"}
    BY <1>8 DEF SpawnProcess, SpawnFails, HandleFails, InsertSession, Terminate, DrainToClose, DrainGivesUp,
       FinishShutdown, KillCapture, KillBury, At
  <2>2. calls[c].op \in {"spawn", "kill"}
    BY <1>a, <2>1 DEF PathOK
  <2>3. calls'[c].op \in {"spawn", "kill", "none"}
    BY <1>b, <2>1, <2>2 DEF Move, LookPcs
  <2>4. QED BY <1>1, <2>3
<1>9. QED BY <1>2, <1>3, <1>4, <1>5, <1>6, <1>7, <1>8 DEF Moves, Step

\* The requests' invariant is inductive beside the registry's.
LEMMA LookInvKept ==
    ASSUME IInv, LookInv, [Next]_vars
    PROVE  LookInv'
<1>1. Paths'
  BY PathsKept DEF LookInv, IInv
<1>2. ASSUME NEW c \in Clients, Moves(c), NEW d \in Clients PROVE KnownOK(d)'
  <2>1. \A e \in Clients \ {c} : calls'[e] = calls[e]
    BY <1>2, CallMoves DEF IInv, LookInv
  <2>2. QED BY <1>2, <2>1, OwnStepKnown, KnownLasts DEF LookInv
<1>3. ASSUME calls' = calls, NEW d \in Clients PROVE KnownOK(d)'
  BY <1>3, KnownLasts DEF LookInv
<1>4. QED BY <1>1, <1>2, <1>3, WhoMoves DEF LookInv, IInv

\* It holds of every reachable state.
LEMMA LookInvHolds == Spec => []LookInv
<1>1. Init => LookInv
  BY DEF Init, IdleCall, LookInv, Paths, PathOK, KnownOK
<1>2. IInv /\ LookInv /\ [Next]_vars => LookInv'
  BY LookInvKept
<1>3. QED BY <1>1, <1>2, RegistryInvariant, PTL DEF Spec

\* A lookup that finds nothing: nothing is there.
LEMMA NothingFound ==
    ASSUME TypeOK, NEW s, NEW ident \in DOMAIN s.entries,
           \A id \in DOMAIN s.entries : s.entries[id] \in Tombstone
    PROVE  ResolveTombstone(s, ident) # NoTombstone
BY SessionManagerAssumption DEF ResolveTombstone, Get

\* status and snapshot of a session id answer not_found only when the session
\* is neither live nor recorded, whatever the cleaner and the kills did
\* between their lock sections (session.rs:735, server.rs:846, 1129).
THEOREM EvidenceIsNotMissed == Spec => EvidenceNotMissed
<1> DEFINE Sure == \A c \in Clients, op \in {"status", "snapshot"} :
                     Answers(c, op, "not_found") /\ calls[c].ident \in Ids
                       => calls[c].ident \notin sessions' \cup DOMAIN store'.entries
<1>1. IInv /\ LookInv /\ IInv' /\ [Next]_vars => [Sure]_vars
  <2> SUFFICES ASSUME IInv, LookInv, IInv', [Next]_vars,
                      NEW c \in Clients, NEW op \in {"status", "snapshot"},
                      Answers(c, op, "not_found"), calls[c].ident \in Ids
               PROVE  calls[c].ident \notin sessions' \cup DOMAIN store'.entries
    OBVIOUS
  <2>1. /\ calls[c] \in Call /\ PathOK(c) /\ KnownOK(c) /\ calls[c].op = op
        /\ calls'[c].pc = "idle" /\ calls'[c].reply = "not_found" /\ calls[c].pc # "idle"
    BY DEF IInv, TypeOK, LookInv, Paths, PathOK, Answers
  <2>2. Moves(c)
    <3>1. PICK d \in Clients : Moves(d)
      BY <2>1, WhoMoves DEF IInv
    <3>2. c = d
      BY <2>1, <3>1, CallMoves DEF IInv, LookInv
    <3>3. QED BY <3>1, <3>2
  <2>3. calls[c].pc \in LookPcs
    BY <2>1 DEF KnownOK
  <2>4. Retry(c) \/ ReadTombstone(c) \/ ReadEvidence(c) \/ UseLive(c)
    BY <2>1, <2>2, <2>3 DEF Moves, Step, CheckSpawn, Request, Ready, At, SpawnProcess, SpawnFails,
       HandleFails, InsertSession, Terminate, DrainToClose, DrainGivesUp, FinishShutdown,
       KillRemove, KillCapture, KillBury, LookPcs
  <2>5. ~Retry(c)
    <3> SUFFICES ASSUME Resolve(c, calls[c]) PROVE calls'[c].pc # "idle"
      BY <2>1 DEF Retry
    <3>1. CASE Goto(c, calls[c], "tomb")
      BY <2>1, <3>1, GotoEffect DEF IInv, TypeOK, CallPcs
    <3>2. ASSUME NEW id \in Ids, Goto(c, [calls[c] EXCEPT !.id = id], "use")
          PROVE  calls'[c].pc # "idle"
      <4> DEFINE found == [calls[c] EXCEPT !.id = id]
      <4>1. found \in Call
        BY <2>1 DEF Call
      <4> HIDE DEF found
      <4>2. Goto(c, found, "use")
        BY <3>2 DEF found
      <4>3. QED BY <4>1, <4>2, GotoEffect DEF IInv, TypeOK, CallPcs
    <3>3. QED BY <3>1, <3>2 DEF Resolve, Matches, IInv, TypeOK
  <2>6. CASE ReadTombstone(c) \/ ReadEvidence(c)
    <3>1. calls[c].pc \in {"tomb", "evidence"} /\ sessions' = sessions
      BY <2>6 DEF ReadTombstone, ReadEvidence, At
    <3>2. calls[c].ident \notin sessions'
      BY <2>1, <3>1 DEF KnownOK, Left
    <3>3. ResolveTombstone(store', calls[c].ident) = NoTombstone
      <4> SUFFICES ASSUME ResolveTombstone(store', calls[c].ident) # NoTombstone PROVE FALSE
        OBVIOUS
      <4>1. \/ \E reply \in {"exited", "evidence"} : Answer(c, reply)
            \/ Goto(c, calls[c], "evidence")
        BY <2>6 DEF ReadTombstone, ReadEvidence
      <4>2. calls'[c].reply \in {"exited", "evidence"} \/ calls'[c].pc = "evidence"
        BY <2>1, <4>1, AnswerEffect, GotoEffect DEF IInv, TypeOK, CallPcs, Replies
      <4>3. QED BY <2>1, <4>2
    <3>4. \A id \in DOMAIN store'.entries : store'.entries[id] \in Tombstone
      BY DEF IInv, TypeOK
    <3>5. QED BY <3>2, <3>3, <3>4, NothingFound DEF IInv
  <2>7. CASE UseLive(c)
    <3>1. calls[c].pc = "use" /\ ~calls[c].retry
      BY <2>1, <2>7 DEF UseLive, At, KnownOK
    <3> DEFINE again == [calls[c] EXCEPT !.retry = TRUE]
               evidenceOnly == [again EXCEPT !.ident = calls[c].id]
    <3>2. again \in Call /\ evidenceOnly \in Call
      BY <2>1 DEF Call
    <3>3. Answer(c, "ok") \/ Goto(c, again, "lookup") \/ Goto(c, evidenceOnly, "lookup")
      BY <2>1, <2>7, <3>1 DEF UseLive
    <3> HIDE DEF again, evidenceOnly
    <3>4. calls'[c].reply = "ok" \/ calls'[c].pc = "lookup"
      BY <3>2, <3>3, AnswerEffect, GotoEffect DEF IInv, TypeOK, CallPcs, Replies
    <3>5. QED BY <2>1, <3>4
  <2>8. QED BY <2>4, <2>5, <2>6, <2>7
<1>2. QED BY <1>1, RegistryInvariant, LookInvHolds, PTL DEF Spec, EvidenceNotMissed
-----------------------------------------------------------------------------
(* The registry implements the life cycle that SessionLifecycle.tla states:  *)
(* the steps clients see, one by one, and the rest, which only let evidence *)
(* expire.                                                                 *)

\* Where SessionLifecycle's phases ending and unborn come from.
Ending(id) == \E c \in Clients : Killing(c, id)
Unborn(id) == name[id] = NoName \/ Spawning(id)

\* A session with a tombstone is nobody's to end or to spawn any more.
LEMMA RecordedIsExited ==
    ASSUME IInv, Paths, NEW id \in DOMAIN store.entries
    PROVE  Phase(id) = "exited" /\ ~Ending(id) /\ ~Unborn(id) /\ id \notin sessions
<1>1. id \notin sessions /\ name[id] # NoName /\ id # NoId
  BY SessionManagerAssumption DEF IInv, TypeOK, RegistryOK
<1>2. ~Ending(id)
  BY DEF Ending, Killing, IInv, CallsOK, CallOK, Holding, HoldingPcs
<1>3. ~Spawning(id)
  BY <1>1 DEF Spawning, Ready, At, Paths, PathOK, LookupOps, EvidenceOps, IInv, TypeOK,
     Call, CallPcs, CallsOK, CallOK, Holding, HoldingPcs
<1>4. QED BY <1>1, <1>2, <1>3 DEF Phase, Unborn

\* Nothing but evidence goes, so nothing else changes for clients.
LEMMA Forgetting ==
    ASSUME IInv, Paths, UNCHANGED sessions,
           \A id \in sessions : name'[id] = name[id],
           DOMAIN store'.entries \subseteq DOMAIN store.entries,
           \A id \in Ids : (Ending(id)' <=> Ending(id)) /\ (Unborn(id)' <=> Unborn(id))
    PROVE  Lifecycle!EvidenceForgotten
<1> DEFINE out == DOMAIN store.entries \ DOMAIN store'.entries
<1>1. \A id \in DOMAIN store.entries :
         Phase(id) = "exited" /\ ~Ending(id) /\ ~Unborn(id) /\ id \notin sessions
  BY RecordedIsExited
<1>2. \A id \in Ids : Phase(id)' = IF id \in out THEN "gone" ELSE Phase(id)
  BY <1>1 DEF Phase, Ending, Unborn
<1>3. out \in SUBSET Lifecycle!InPhase("exited")
  BY <1>1 DEF Lifecycle!InPhase, IInv, TypeOK
<1> DEFINE was == [id \in Ids |-> Phase(id)]
           named == [id \in Ids |-> IF id \in sessions THEN name[id] ELSE NoName]
<1>4. was' = [i \in Ids |-> IF i \in out THEN "gone" ELSE was[i]]
  BY <1>2
<1>5. named' = named
  OBVIOUS
<1>6. QED BY <1>3, <1>4, <1>5 DEF Lifecycle!EvidenceForgotten

\* At the start no session is born.
LEMMA InitMaps == Init => Lifecycle!LifecycleInit
<1> SUFFICES ASSUME Init PROVE Lifecycle!LifecycleInit
  OBVIOUS
<1>1. DOMAIN store.entries = {}
  BY DEF Init, EmptyStore, Store
<1>2. \A id \in Ids : Phase(id) = "unborn"
  BY <1>1 DEF Init, Phase, Killing, IdleCall
<1>3. QED BY <1>2 DEF Init, Lifecycle!LifecycleInit

\* A request's step that neither begins nor ends a kill, nor ends a spawn that
\* has its process.
LEMMA QuietStep ==
    ASSUME IInv, Paths, NEW c \in Clients, Move(c),
           \A d \in Clients \ {c} : calls'[d] = calls[d],
           calls'[c].pc = "idle" => calls[c].pc \in LookPcs \cup {"idle", "spawn"},
           calls[c].pc = "use" => calls'[c].pc \in LookPcs \cup {"idle"},
           \A id \in Ids : \/ name'[id] = NoName <=> name[id] = NoName
                           \/ calls'[c].pc = "insert" /\ calls'[c].id = id
    PROVE  \A id \in Ids : (Ending(id)' <=> Ending(id)) /\ (Unborn(id)' <=> Unborn(id))
<1> SUFFICES ASSUME NEW id \in Ids
             PROVE  (Ending(id)' <=> Ending(id)) /\ (Unborn(id)' <=> Unborn(id))
  OBVIOUS
<1>1. PathOK(c) /\ id # NoId
  BY SessionManagerAssumption DEF Paths
<1>2. Killing(c, id)' <=> Killing(c, id)
  BY <1>1 DEF Killing, Move, PathOK, LookPcs
<1>3. \A d \in Clients \ {c} : Killing(d, id)' <=> Killing(d, id)
  BY DEF Killing
<1> DEFINE SpawnOf(d) == calls[d].op = "spawn" /\ calls[d].id = id /\ calls[d].pc # "idle"
<1>4. \A d \in Clients \ {c} : SpawnOf(d)' <=> SpawnOf(d)
  OBVIOUS
<1>5. CASE calls[c].pc = "spawn" /\ calls'[c].pc = "insert"
  <2>1. ~SpawnOf(c) /\ calls'[c].op = "spawn"
    BY <1>1, <1>5 DEF PathOK, Move, LookPcs
  <2>2. CASE calls'[c].id = id
    <3>1. Unborn(id)'
      BY <1>5, <2>1, <2>2 DEF Unborn, Spawning, Ready, At
    <3>2. Unborn(id)
      BY <1>5, <2>2 DEF Move, LookPcs, Unborn
    <3>3. QED BY <1>2, <1>3, <3>1, <3>2 DEF Ending
  <2>3. CASE calls'[c].id # id
    <3>1. ~SpawnOf(c)'
      BY <2>3
    <3>2. name'[id] = NoName <=> name[id] = NoName
      BY <2>3
    <3>3. QED BY <1>2, <1>3, <1>4, <2>1, <3>1, <3>2 DEF Ending, Unborn, Spawning, Ready, At
  <2>4. QED BY <2>2, <2>3
<1>6. CASE ~(calls[c].pc = "spawn" /\ calls'[c].pc = "insert")
  <2>1. calls'[c].pc # "insert"
    BY <1>6 DEF Move, LookPcs
  <2>2. SpawnOf(c)' <=> SpawnOf(c)
    BY <1>1, <1>6 DEF Move, PathOK, LookPcs, LookupOps, EvidenceOps
  <2>3. name'[id] = NoName <=> name[id] = NoName
    BY <2>1
  <2>4. QED BY <1>2, <1>3, <1>4, <2>2, <2>3 DEF Ending, Unborn, Spawning, Ready, At
<1>7. QED BY <1>5, <1>6

\* A session that c has to itself is in no other request's hands.
LEMMA HeldAlone ==
    ASSUME IInv, Paths, NEW c \in Clients, Holding(c), NEW d \in Clients, d # c
    PROVE  /\ ~Killing(d, calls[c].id)
           /\ ~(calls[d].op = "spawn" /\ calls[d].id = calls[c].id /\ ~Ready(d))
<1>1. ~(Holding(d) /\ calls[d].id = calls[c].id)
  BY DEF IInv, Alone
<1>2. calls[c].id # NoId
  BY SessionManagerAssumption DEF IInv, CallsOK, CallOK
<1>3. PathOK(d) /\ calls[d] \in Call
  BY DEF Paths, IInv, TypeOK
<1>4. QED BY <1>1, <1>2, <1>3 DEF Killing, Holding, HoldingPcs, Ready, At, PathOK, Call, CallPcs,
              LookupOps, EvidenceOps

\* What changes for clients when c's request lets go of, or takes, a session.
LEMMA OthersStay ==
    ASSUME IInv, Paths, NEW c \in Clients, \A d \in Clients \ {c} : calls'[d] = calls[d],
           NEW held \in Ids, calls[c].id = held,
           calls'[c].pc = "idle" \/ calls'[c].id = held, UNCHANGED name
    PROVE  \A id \in Ids \ {held} : (Ending(id)' <=> Ending(id)) /\ (Unborn(id)' <=> Unborn(id))
BY DEF Ending, Killing, Unborn, Spawning, Ready, At

\* SessionLifecycle counts as the registry does.
LEMMA SameCardinality == \A S : Lifecycle!Cardinality(S) = Cardinality(S)
BY DEF Lifecycle!Cardinality, Cardinality

\* A spawn is answered ok under the write lock: a free name and room in the
\* map (session.rs:591).
LEMMA AdmitStep ==
    ASSUME IInv, Paths, Limited, NEW c \in Clients, InsertSession(c),
           Refusal(calls[c].ident) = "none",
           NEW id, calls[c].id = id, NEW n, calls[c].ident = n
    PROVE  Lifecycle!LifecycleNext
<1> DEFINE was == [i \in Ids |-> Phase(i)]
           named == [i \in Ids |-> IF i \in sessions THEN name[i] ELSE NoName]
<1>1. /\ calls[c].pc = "insert" /\ Holding(c) /\ calls[c].op = "spawn"
      /\ sessions' = sessions \cup {id} /\ Answer(c, "ok")
      /\ UNCHANGED <<name, process, store>>
  BY DEF InsertSession, At, Holding, HoldingPcs, runtime, Paths, PathOK
<1>2. /\ id \in Ids /\ id \notin sessions /\ id \notin DOMAIN store.entries
      /\ name[id] = n /\ n \in Names
  BY <1>1 DEF IInv, TypeOK, CallsOK, CallOK, RegistryOK
<1>3. calls'[c].pc = "idle" /\ \A d \in Clients \ {c} : calls'[d] = calls[d]
  BY <1>1, AnswerEffect DEF IInv, TypeOK, Replies
<1>4. Phase(id) = "unborn"
  <2>1. ~Killing(c, id) /\ Spawning(id)
    BY <1>1 DEF Killing, Spawning, Ready, At
  <2>2. \A d \in Clients : ~Killing(d, id)
    BY <1>1, <2>1, HeldAlone
  <2>3. QED BY <1>2, <2>1, <2>2 DEF Phase
<1>5. \A i \in Ids \ {id} : (Ending(i)' <=> Ending(i)) /\ (Unborn(i)' <=> Unborn(i))
  BY <1>1, <1>2, <1>3, OthersStay
<1>6. \A i \in Ids : Phase(i)' = IF i = id THEN "live" ELSE Phase(i)
  BY <1>1, <1>5 DEF Phase, Ending, Unborn
<1>7. was' = [was EXCEPT ![id] = "live"]
  BY <1>6
<1>8. named' = [named EXCEPT ![id] = n]
  BY <1>1, <1>2
<1>9. Lifecycle!InPhase("live") = sessions
  BY DEF Lifecycle!InPhase, Phase, IInv, TypeOK
<1>10. Lifecycle!Cardinality(Lifecycle!InPhase("live")) < MaxSessions
  <2>1. ~(Cardinality(sessions) >= MaxSessions)
    BY DEF Refusal
  <2>2. Cardinality(sessions) \in Nat /\ MaxSessions \in Nat
    BY FS_CardinalityType, SessionManagerAssumption DEF Limited
  <2>3. QED BY <1>9, <2>1, <2>2, SameCardinality
<1>11. \A other \in Lifecycle!InPhase("live") : named[other] # n
  BY <1>9, RefusalNone DEF IInv, TypeOK
<1>12. Lifecycle!Admit(id, n)
  <2>1. was[id] = "unborn"
    BY <1>2, <1>4
  <2> HIDE DEF was, named
  <2>2. QED BY <1>7, <1>8, <1>10, <1>11, <2>1 DEF Lifecycle!Admit, was, named
<1>13. QED BY <1>2, <1>12 DEF Lifecycle!LifecycleNext

\* The loser of a race for a name or for room is shut down and never was
\* (session.rs:592, 598).
LEMMA AbandonStep ==
    ASSUME IInv, Paths, NEW c \in Clients, FinishShutdown(c), calls[c].op # "kill",
           NEW id, calls[c].id = id
    PROVE  Lifecycle!LifecycleNext
<1> DEFINE was == [i \in Ids |-> Phase(i)]
           named == [i \in Ids |-> IF i \in sessions THEN name[i] ELSE NoName]
<1>1. /\ calls[c].pc = "finish" /\ Holding(c) /\ calls[c].op = "spawn" /\ calls[c] \in Call
      /\ Answer(c, calls[c].reply)
      /\ UNCHANGED <<sessions, name, process, store>>
  BY DEF FinishShutdown, At, Holding, HoldingPcs, Paths, PathOK, IInv, TypeOK
<1>2. /\ id \in Ids /\ id \notin sessions /\ id \notin DOMAIN store.entries
      /\ name[id] # NoName
  BY <1>1 DEF IInv, CallsOK, CallOK
<1>3. calls'[c].pc = "idle" /\ \A d \in Clients \ {c} : calls'[d] = calls[d]
  BY <1>1, AnswerEffect DEF IInv, TypeOK, Call
<1>4. Phase(id) = "unborn"
  <2>1. ~Killing(c, id) /\ Spawning(id)
    BY <1>1 DEF Killing, Spawning, Ready, At
  <2>2. \A d \in Clients : ~Killing(d, id)
    BY <1>1, <2>1, HeldAlone
  <2>3. QED BY <1>2, <2>1, <2>2 DEF Phase
<1>5. \A i \in Ids : i = id => Phase(i)' = "gone"
  <2> SUFFICES ASSUME NEW i \in Ids, i = id PROVE Phase(i)' = "gone"
    OBVIOUS
  <2>1. \A d \in Clients :
           /\ ~Killing(d, i)'
           /\ ~(calls'[d].op = "spawn" /\ calls'[d].id = i /\ calls'[d].pc # "idle")
    BY <1>1, <1>3, HeldAlone DEF Killing, Ready, At
  <2>2. ~Spawning(i)'
    BY <2>1 DEF Spawning, Ready, At
  <2>3. QED BY <1>1, <1>2, <2>1, <2>2 DEF Phase
<1>6. \A i \in Ids \ {id} : (Ending(i)' <=> Ending(i)) /\ (Unborn(i)' <=> Unborn(i))
  BY <1>1, <1>2, <1>3, OthersStay
<1>7. \A i \in Ids : Phase(i)' = IF i = id THEN "gone" ELSE Phase(i)
  BY <1>1, <1>5, <1>6 DEF Phase, Ending, Unborn
<1>8. was' = [was EXCEPT ![id] = "gone"] /\ named' = named
  BY <1>1, <1>7
<1>9. Lifecycle!Abandon(id)
  BY <1>2, <1>4, <1>8 DEF Lifecycle!Abandon
<1>10. QED BY <1>2, <1>9 DEF Lifecycle!LifecycleNext

\* A kill takes a live session out of the map (session.rs:627).
LEMMA KillStep ==
    ASSUME IInv, Paths, NEW c \in Clients, KillRemove(c), calls[c].id \in sessions,
           NEW id, calls[c].id = id
    PROVE  Lifecycle!LifecycleNext
<1> DEFINE was == [i \in Ids |-> Phase(i)]
           named == [i \in Ids |-> IF i \in sessions THEN name[i] ELSE NoName]
<1>1. /\ calls[c].pc = "use" /\ calls[c].op = "kill" /\ calls[c] \in Call
      /\ sessions' = sessions \ {id} /\ Goto(c, calls[c], "terminate")
      /\ UNCHANGED <<name, process, store>>
  BY DEF KillRemove, At, runtime, IInv, TypeOK
<1>2. id \in Ids /\ id \notin DOMAIN store.entries
  BY DEF IInv, TypeOK, RegistryOK
<1>3. /\ calls'[c].pc = "terminate" /\ calls'[c].op = "kill" /\ calls'[c].id = id
      /\ \A d \in Clients \ {c} : calls'[d] = calls[d]
  BY <1>1, GotoEffect DEF IInv, TypeOK, CallPcs
<1>4. \A i \in Ids \ {id} : (Ending(i)' <=> Ending(i)) /\ (Unborn(i)' <=> Unborn(i))
  BY <1>1, <1>2, <1>3, OthersStay
<1>5. \A i \in Ids : i = id => Phase(i)' = "ending"
  BY <1>1, <1>2, <1>3 DEF Phase, Killing
<1>6. \A i \in Ids : Phase(i)' = IF i = id THEN "ending" ELSE Phase(i)
  BY <1>1, <1>4, <1>5 DEF Phase, Ending, Unborn
<1>7. was' = [was EXCEPT ![id] = "ending"] /\ named' = [named EXCEPT ![id] = NoName]
  BY <1>1, <1>2, <1>6
<1>8. Phase(id) = "live"
  BY DEF Phase
<1>9. Lifecycle!Kill(id)
  BY <1>2, <1>7, <1>8 DEF Lifecycle!Kill
<1>10. QED BY <1>2, <1>9 DEF Lifecycle!LifecycleNext

\* A session's evidence is recorded: it leaves the phase it was in, and what
\* the insertion pushed out is gone.
LEMMA ExitMaps ==
    ASSUME IInv, Paths, NEW id \in Ids, NEW tomb, tomb.id = id,
           Phase(id) \in {"live", "ending"},
           store' = Insert(store, tomb, now), sessions' = sessions \ {id},
           id \notin DOMAIN store.entries, UNCHANGED name,
           \A i \in Ids \ {id} : (Ending(i)' <=> Ending(i)) /\ (Unborn(i)' <=> Unborn(i))
    PROVE  Lifecycle!LifecycleNext
<1> DEFINE was == [i \in Ids |-> Phase(i)]
           named == [i \in Ids |-> IF i \in sessions THEN name[i] ELSE NoName]
           out == DOMAIN store.entries \ DOMAIN store'.entries
<1>1. /\ id \in DOMAIN store'.entries
      /\ DOMAIN store'.entries \subseteq DOMAIN store.entries \cup {id}
  <2>1. store.capacity # 0
    BY SessionManagerAssumption DEF IInv, TypeOK
  <2>2. QED BY <2>1, InsertAdds
<1>2. \A i \in DOMAIN store.entries :
         i \in Ids /\ i # id /\ Phase(i) = "exited" /\ ~Ending(i) /\ ~Unborn(i)
  BY RecordedIsExited DEF IInv, TypeOK
<1>3. \A i \in Ids \ {id} : Phase(i)' = IF i \in out THEN "gone" ELSE Phase(i)
  BY <1>1, <1>2 DEF Phase, Ending, Unborn
<1>4. \A i \in Ids : i = id => Phase(i)' = "exited"
  BY <1>1 DEF Phase
<1>5. was' = [i \in Ids |-> IF i = id THEN "exited" ELSE IF i \in out THEN "gone" ELSE was[i]]
  BY <1>3, <1>4
<1>6. named' = [named EXCEPT ![id] = NoName]
  OBVIOUS
<1>7. out \in SUBSET Lifecycle!InPhase("exited")
  BY <1>2 DEF Lifecycle!InPhase, IInv, TypeOK
<1>8. Lifecycle!Exit(id, "live") \/ Lifecycle!Exit(id, "ending")
  BY <1>5, <1>6, <1>7 DEF Lifecycle!Exit
<1>9. QED BY <1>8 DEF Lifecycle!LifecycleNext

\* The kill records its evidence (session.rs:634).
LEMMA BuryStep ==
    ASSUME IInv, Paths, NEW c \in Clients, KillBury(c)
    PROVE  Lifecycle!LifecycleNext
<1> DEFINE id == calls[c].id
<1>1. /\ calls[c].pc = "bury" /\ calls[c].op = "kill" /\ Holding(c)
      /\ store' = Insert(store, calls[c].tomb, now) /\ Answer(c, "ok")
      /\ UNCHANGED <<sessions, name, process>>
  BY DEF KillBury, At, runtime, Paths, PathOK, Holding, HoldingPcs
<1>2. /\ id \in Ids /\ id \notin sessions /\ id \notin DOMAIN store.entries
      /\ calls[c].tomb.id = id
  BY <1>1 DEF IInv, CallsOK, CallOK, TombstoneOf
<1>3. calls'[c].pc = "idle" /\ \A d \in Clients \ {c} : calls'[d] = calls[d]
  BY <1>1, AnswerEffect DEF IInv, TypeOK, Replies
<1>4. \A i \in Ids \ {id} : (Ending(i)' <=> Ending(i)) /\ (Unborn(i)' <=> Unborn(i))
  BY <1>1, <1>2, <1>3, OthersStay
<1>5. Phase(id) = "ending"
  BY <1>1, <1>2 DEF Phase, Killing
<1>6. sessions' = sessions \ {id}
  BY <1>1, <1>2
<1>7. QED BY <1>1, <1>2, <1>4, <1>5, <1>6, ExitMaps

\* The cleaner records a session that ended by itself as it leaves the map
\* (session.rs:899).
LEMMA PublishStep ==
    ASSUME IInv, Paths, CleanerPublish, cleaner.id \in sessions
    PROVE  Lifecycle!LifecycleNext
<1> DEFINE id == cleaner.id
<1>1. /\ cleaner.pc = "publish" /\ sessions' = sessions \ {id}
      /\ store' = Insert(store, cleaner.tomb, now)
      /\ UNCHANGED <<calls, name, process>>
  BY DEF CleanerPublish, runtime
<1>2. id \in Ids /\ id \notin DOMAIN store.entries /\ cleaner.tomb.id = id
  BY <1>1 DEF IInv, TypeOK, RegistryOK, CleanerOK, TombstoneOf
<1>3. \A i \in Ids \ {id} : (Ending(i)' <=> Ending(i)) /\ (Unborn(i)' <=> Unborn(i))
  BY <1>1 DEF Ending, Killing, Unborn, Spawning, Ready, At
<1>4. Phase(id) = "live"
  BY DEF Phase
<1>5. QED BY <1>1, <1>2, <1>3, <1>4, ExitMaps

\* The steps a client sees nothing of, but for evidence that expires.
LEMMA ForgetfulStep ==
    ASSUME IInv, Paths, [Next]_vars,
           \A c \in Clients : InsertSession(c) => Refusal(calls[c].ident) # "none",
           \A c \in Clients : FinishShutdown(c) => calls[c].op = "kill",
           \A c \in Clients : KillRemove(c) => calls[c].id \notin sessions,
           \A c \in Clients : ~KillBury(c),
           CleanerPublish => cleaner.id \notin sessions
    PROVE  Lifecycle!EvidenceForgotten
<1>1. ASSUME NEW c \in Clients, Moves(c) PROVE Lifecycle!EvidenceForgotten
  <2> DEFINE call == calls[c]
  <2>a. Move(c) /\ \A d \in Clients \ {c} : calls'[d] = calls[d]
    BY <1>1, CallMoves DEF IInv
  <2>b. PathOK(c) /\ calls[c] \in Call
    BY DEF Paths, IInv, TypeOK
  <2>1. UNCHANGED sessions
    BY <1>1 DEF Moves, Step, CheckSpawn, SpawnProcess, SpawnFails, HandleFails, InsertSession,
       Terminate, DrainToClose, DrainGivesUp, FinishShutdown, KillRemove, KillCapture,
       Request, Retry, Resolve, ReadTombstone, ReadEvidence, UseLive
  <2>2. DOMAIN store'.entries \subseteq DOMAIN store.entries
    BY <1>1, PurgeShrinks DEF Shrinks, Moves, Step, CheckSpawn, SpawnProcess, SpawnFails, HandleFails,
       InsertSession, Terminate, DrainToClose, DrainGivesUp, FinishShutdown, KillRemove, KillCapture,
       Request, Retry, Resolve, ReadTombstone, ReadEvidence, UseLive
  <2>3. /\ calls'[c].pc = "idle" => calls[c].pc \in LookPcs \cup {"idle", "spawn"}
        /\ calls[c].pc = "use" => calls'[c].pc \in LookPcs \cup {"idle"}
    <3>1. CASE InsertSession(c)
      <4>1. Goto(c, [calls[c] EXCEPT !.reply = Refusal(calls[c].ident)], "terminate")
        BY <3>1 DEF InsertSession
      <4>2. [calls[c] EXCEPT !.reply = Refusal(calls[c].ident)] \in Call
        BY <2>b, RefusalType DEF Call, Replies
      <4>3. calls'[c].pc = "terminate" /\ calls[c].pc = "insert"
        BY <3>1, <4>1, <4>2, GotoEffect DEF InsertSession, At, IInv, TypeOK, CallPcs
      <4>4. QED BY <4>3
    <3>2. CASE FinishShutdown(c)
      <4>1. calls'[c].pc = "capture" /\ calls[c].pc = "finish"
        BY <3>2, <2>b, GotoEffect DEF FinishShutdown, At, IInv, TypeOK, CallPcs
      <4>2. QED BY <4>1
    <3>3. CASE KillRemove(c)
      <4>1. calls'[c].pc = "idle" /\ calls[c].pc = "use"
        BY <3>3, AnswerEffect DEF KillRemove, At, IInv, TypeOK, Replies
      <4>2. QED BY <4>1 DEF LookPcs
    <3>4. CASE Terminate(c)
      <4>1. calls'[c].pc = "drain" /\ calls[c].pc = "terminate"
        BY <3>4, <2>b, GotoEffect DEF Terminate, At, IInv, TypeOK, CallPcs
      <4>2. QED BY <4>1
    <3>5. CASE DrainToClose(c) \/ DrainGivesUp(c)
      <4> DEFINE drained == [calls[c] EXCEPT !.complete = TRUE]
      <4>1. drained \in Call /\ calls[c].pc = "drain"
        BY <3>5, <2>b DEF DrainToClose, DrainGivesUp, At, Call
      <4>2. Goto(c, drained, "finish") \/ Goto(c, calls[c], "finish")
        BY <3>5 DEF DrainToClose, DrainGivesUp
      <4> HIDE DEF drained
      <4>3. calls'[c].pc = "finish"
        BY <2>b, <4>1, <4>2, GotoEffect DEF IInv, TypeOK, CallPcs
      <4>4. QED BY <4>1, <4>3
    <3>6. CASE KillCapture(c)
      <4> DEFINE tomb == FinalTombstone(calls[c].id, calls[c].complete, TRUE)
      <4>1. /\ calls[c].pc = "capture"
            /\ calls' = [calls EXCEPT ![c] =
                            [[calls[c] EXCEPT !.tomb = tomb] EXCEPT !.pc = "bury"]]
        BY <3>6 DEF KillCapture, At, Goto
      <4> HIDE DEF tomb
      <4>2. calls'[c] = [[calls[c] EXCEPT !.tomb = tomb] EXCEPT !.pc = "bury"]
        BY <4>1 DEF IInv, TypeOK
      <4>3. calls'[c].pc = "bury"
        BY <2>b, <4>2 DEF Call
      <4>4. QED BY <4>1, <4>3
    <3>7. CASE calls[c].pc \in LookPcs \cup {"idle", "spawn"} /\ ~KillRemove(c)
      BY <1>1, <2>a, <2>b, <3>7 
         DEF Moves, Step, Move, LookPcs, PathOK, LookupOps, EvidenceOps, Ready, At, CheckSpawn,
             Request, SpawnProcess, SpawnFails, HandleFails, InsertSession, Terminate, DrainToClose,
             DrainGivesUp, FinishShutdown, KillRemove, KillCapture, Retry, ReadTombstone,
             ReadEvidence, UseLive
    <3>8. QED BY <1>1, <3>1, <3>2, <3>3, <3>4, <3>5, <3>6, <3>7
         DEF Moves, Step, CheckSpawn, Request, Ready, At, SpawnProcess, SpawnFails, HandleFails,
             Retry, ReadTombstone, ReadEvidence, UseLive, LookPcs
  <2>4. /\ \A id \in sessions : name'[id] = name[id]
        /\ \A id \in Ids : \/ name'[id] = NoName <=> name[id] = NoName
                           \/ calls'[c].pc = "insert" /\ calls'[c].id = id
    <3>1. CASE SpawnProcess(c)
      <4>1. PICK id \in Ids :
              /\ process[id] = "none"
              /\ process' = [process EXCEPT ![id] = "running"]
              /\ name' = [name EXCEPT ![id] = calls[c].ident]
              /\ Goto(c, [calls[c] EXCEPT !.id = id], "insert")
        BY <3>1 DEF SpawnProcess
      <4> DEFINE given == [calls[c] EXCEPT !.id = id]
      <4>2. given \in Call /\ given.id = id
        BY <2>b DEF Call
      <4> HIDE DEF given
      <4>3. Goto(c, given, "insert")
        BY <4>1 DEF given
      <4>4. calls'[c].pc = "insert" /\ calls'[c].id = id
        BY <4>2, <4>3, GotoEffect DEF IInv, TypeOK, CallPcs
      <4>5. id \notin sessions
        BY <4>1 DEF IInv, RegistryOK
      <4>6. QED BY <4>1, <4>4, <4>5 DEF IInv, TypeOK
    <3>2. CASE Terminate(c)
      BY <3>2 DEF Terminate, IInv, TypeOK
    <3>3. CASE ~SpawnProcess(c) /\ ~Terminate(c)
      BY <1>1, <3>3 DEF Moves, Step, CheckSpawn, SpawnFails, HandleFails, InsertSession, runtime,
       DrainToClose, DrainGivesUp, FinishShutdown, KillRemove, KillCapture,
       Request, Retry, Resolve, ReadTombstone, ReadEvidence, UseLive
    <3>4. QED BY <3>1, <3>2, <3>3
  <2>5. \A id \in Ids : (Ending(id)' <=> Ending(id)) /\ (Unborn(id)' <=> Unborn(id))
    BY <2>a, <2>3, <2>4, QuietStep
  <2>6. QED BY <2>1, <2>2, <2>4, <2>5, Forgetting
<1>2. CASE calls' = calls /\ (CleanerStep \/ UNCHANGED vars \/ Tick
                \/ \E id \in Ids : ProcessExits(id) \/ OutputCloses(id) \/ DrainElapses(id))
  <2>1. UNCHANGED sessions /\ UNCHANGED name
    BY <1>2 DEF CleanerStep, CleanerScan, CleanerFinish, CleanerCapture, CleanerLock,
       CleanerPublish, CleanerPurge, runtime, vars, Tick, ProcessExits, OutputCloses, DrainElapses
  <2>2. DOMAIN store'.entries \subseteq DOMAIN store.entries
    BY <1>2, PurgeShrinks DEF Shrinks, CleanerStep, CleanerScan, CleanerFinish,
       CleanerCapture, CleanerLock, CleanerPublish, CleanerPurge, vars, Tick, ProcessExits, OutputCloses, DrainElapses
  <2>3. \A id \in Ids : name'[id] = NoName <=> name[id] = NoName
    BY <1>2 DEF CleanerStep, CleanerScan, CleanerFinish, CleanerCapture, CleanerLock,
       CleanerPublish, CleanerPurge, runtime, vars, Tick, ProcessExits, OutputCloses, DrainElapses,
       IInv, TypeOK
  <2>4. \A id \in Ids : (Ending(id)' <=> Ending(id)) /\ (Unborn(id)' <=> Unborn(id))
    BY <1>2, <2>3 DEF Ending, Killing, Unborn, Spawning, Ready, At
  <2>5. QED BY <2>1, <2>2, <2>4, Forgetting
<1>3. QED BY <1>1, <1>2, WhoMoves DEF IInv

\* Whatever the interleaving of spawns, kills and the cleaner, clients see each
\* session admitted once under a free name while there is room, ended once, and
\* its evidence appear and go: SessionLifecycle's behaviours and no others
\* (session.rs:517, 627, 898).
THEOREM RegistryImplementsLifecycle == Spec => ImplementsLifecycle
<1>1. IInv /\ LookInv /\ Limited /\ [Next]_vars => [Lifecycle!LifecycleNext]_(Lifecycle!lvars)
  <2> SUFFICES ASSUME IInv, Paths, Limited, [Next]_vars PROVE Lifecycle!LifecycleNext
    BY DEF LookInv
  <2>1. CASE CleanerPublish /\ cleaner.id \in sessions
    BY <2>1, PublishStep
  <2>2. ASSUME NEW c \in Clients,
               \/ InsertSession(c) /\ Refusal(calls[c].ident) = "none"
               \/ FinishShutdown(c) /\ calls[c].op # "kill"
               \/ KillRemove(c) /\ calls[c].id \in sessions
               \/ KillBury(c)
        PROVE  Lifecycle!LifecycleNext
    BY <2>2, AdmitStep, AbandonStep, KillStep, BuryStep
  <2>3. QED BY <2>1, <2>2, ForgetfulStep DEF Lifecycle!LifecycleNext
<1>2. QED BY <1>1, InitMaps, RegistryInvariant, LookInvHolds, LimitedHolds, PTL
          DEF Spec, ImplementsLifecycle, Lifecycle!LifecycleSpec
=============================================================================
