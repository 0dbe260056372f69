---------------------------- MODULE Services_proofs ----------------------------
(***************************************************************************)
(* Proofs about the services, for any number of calls, instances, topics   *)
(* and requests.  The parts share no variable, so each invariant is proved *)
(* of one part alone and holds of the composition.                         *)
(***************************************************************************)
EXTENDS MCServices, OrderLemmas, SequenceTheorems, TLAPS

\* The parts count with their own copy of Cardinality, which is this one.
LEMMA Sizes ==
    \A S : /\ Pulls!Cardinality(S) = Cardinality(S)
          /\ Link!Cardinality(S) = Cardinality(S)
          /\ Activity!Cardinality(S) = Cardinality(S)
BY DEF Pulls!Cardinality, Link!Cardinality, Activity!Cardinality, Cardinality

-----------------------------------------------------------------------------
(* Topology pulls *)

\* A call that is past its start pulls some base's mesh.
StagesHaveBases == \A c \in Calls : call[c].at # "idle" => call[c].base \in Bases

\* The gate is right only while each call in progress has a base and no
\* two are in progress: neither follows from the gate alone.
GateInv == Pulls!TypeOK /\ Pulls!GateMatchesCalls /\ StagesHaveBases
           /\ IsFiniteSet(Pulls!Asking)

\* At the start no call is in progress and the gate is open.
LEMMA GateInit == Pulls!Init => GateInv
<1> SUFFICES ASSUME Pulls!Init PROVE GateInv
  OBVIOUS
<1>1. Pulls!TypeOK
  BY PullAssumption
     DEF Pulls!Init, Pulls!TypeOK, Pulls!Idle, Pulls!Stages, Pulls!PullAssumption
<1>2. Pulls!Asking = {} /\ StagesHaveBases
  BY DEF StagesHaveBases, Pulls!Init, Pulls!Asking, Pulls!Idle
<1>3. QED
  <2>1. IsFiniteSet(Pulls!Asking) /\ Cardinality(Pulls!Asking) <= 1
    BY <1>2, AtMostOne
  <2>2. QED
    BY <1>1, <1>2, <2>1, Sizes DEF Pulls!Init, Pulls!GateMatchesCalls, GateInv

\* Every step of a pull keeps the gate in order: an answer that comes late, a
\* publish that fails and a timeout each clear it once, for their own call.
LEMMA GateStep == GateInv /\ [Pulls!Next]_pulls => GateInv'
<1> SUFFICES ASSUME GateInv, [Pulls!Next]_pulls PROVE GateInv'
  OBVIOUS
<1> USE Sizes, PullAssumption DEF Pulls!PullAssumption
<1>0. /\ Pulls!TypeOK /\ Pulls!GateMatchesCalls /\ StagesHaveBases
      /\ \A c, d \in Pulls!Asking : c = d
  <2>1. /\ Pulls!TypeOK /\ Pulls!GateMatchesCalls /\ StagesHaveBases
        /\ IsFiniteSet(Pulls!Asking) /\ Cardinality(Pulls!Asking) <= 1
    BY Sizes DEF GateInv, Pulls!GateMatchesCalls
  <2>2. QED
    BY <2>1, AtMostOne
<1>t. ASSUME NEW c \in Calls
      PROVE  /\ call[c].at \in Pulls!Stages /\ call[c].base \in Bases \cup {None}
             /\ call[c].ok \in BOOLEAN
             /\ (c \in Pulls!Asking => call[c].base \in Bases /\ scanning = call[c].base)
             /\ c \in Pulls!Asking <=> call[c].at \in {"publish", "early", "wait", "answered"}
  BY <1>0 DEF StagesHaveBases, Pulls!TypeOK, Pulls!GateMatchesCalls, Pulls!Asking
<1>a. ASSUME UNCHANGED <<pending, scanning>>, Pulls!TypeOK',
             Pulls!Asking' = Pulls!Asking,
             \A c \in Pulls!Asking : call'[c].base = call[c].base,
             StagesHaveBases'
      PROVE  GateInv'
  BY <1>0, <1>a DEF GateInv, Pulls!GateMatchesCalls
<1>b. ASSUME NEW c \in Pulls!Asking, Pulls!ClearGate(c), Pulls!TypeOK',
             Pulls!Asking' = Pulls!Asking \ {c}, StagesHaveBases'
      PROVE  GateInv'
  <2>1. Pulls!Asking = {c} /\ Pulls!Asking' = {}
    BY <1>0, <1>b
  <2>2. scanning' = None /\ \A b \in Bases : pending'[b] = None
    BY <1>0, <1>b, <2>1 DEF Pulls!ClearGate, Pulls!GateMatchesCalls, Pulls!TypeOK
  <2>3. QED
    <3>1. IsFiniteSet(Pulls!Asking') /\ Cardinality(Pulls!Asking') <= 1
      BY <2>1, AtMostOne
    <3>2. QED
      BY <1>b, <2>1, <2>2, <3>1 DEF GateInv, Pulls!GateMatchesCalls
<1>1. ASSUME NEW c \in Calls, NEW b \in Bases, Pulls!Pull(c, b) PROVE GateInv'
  <2>1. Pulls!TypeOK'
    BY <1>0, <1>1 DEF StagesHaveBases, Pulls!TypeOK, Pulls!Pull, Pulls!Idle, Pulls!Stages
  <2>2. Pulls!Asking = {}
    BY <1>0, <1>1 DEF Pulls!Pull, Pulls!MayPull, Pulls!GateMatchesCalls
  <2>3. Pulls!Asking' = {c} /\ call'[c].base = b
    BY <1>0, <1>1, <2>2 DEF StagesHaveBases, Pulls!TypeOK, Pulls!Pull, Pulls!Idle, Pulls!Asking
  <2>4. /\ scanning' = b /\ pending'[b] = c
        /\ \A d \in Bases : d # b => pending'[d] = None
    BY <1>0, <1>1, <2>2 DEF StagesHaveBases, Pulls!TypeOK, Pulls!Pull, Pulls!GateMatchesCalls
  <2>5. QED
    <3>1. IsFiniteSet(Pulls!Asking') /\ Cardinality(Pulls!Asking') <= 1
      BY <2>3, AtMostOne
    <3>2. StagesHaveBases'
      BY <1>0, <1>1 DEF StagesHaveBases, Pulls!Pull, Pulls!Idle, Pulls!TypeOK
    <3>3. QED
      BY <3>2, <2>1, <2>3, <2>4, <3>1 DEF GateInv, Pulls!GateMatchesCalls
<1>2. ASSUME NEW c \in Calls, Pulls!Publish(c) PROVE GateInv'
  <2>1. Pulls!TypeOK'
    BY <1>0, <1>t, <1>2 DEF StagesHaveBases, Pulls!TypeOK, Pulls!Publish, Pulls!Stages
  <2>2. QED
    BY <1>0, <1>a, <1>2, <2>1 DEF StagesHaveBases, Pulls!TypeOK, Pulls!Publish, Pulls!Asking
<1>3. ASSUME NEW c \in Calls, Pulls!PublishFails(c) PROVE GateInv'
  <2>1. Pulls!TypeOK'
    BY <1>0, <1>t, <1>3 DEF StagesHaveBases, Pulls!TypeOK, Pulls!PublishFails, Pulls!PublishFailed,
       Pulls!ClearGate, Pulls!Stages, Pulls!Idle
  <2>2. QED
    BY <1>0, <1>b, <1>3, <2>1 DEF StagesHaveBases, Pulls!TypeOK, Pulls!PublishFails, Pulls!PublishFailed,
       Pulls!Asking, Pulls!Idle
<1>4. ASSUME NEW b \in Bases, Pulls!OnResponse(b) PROVE GateInv'
  <2>1. mesh' = [mesh EXCEPT ![b] = @ - 1] /\ UNCHANGED <<pending, scanning, recent>>
    BY <1>4 DEF Pulls!OnResponse
  <2>2. CASE UNCHANGED call
    BY <1>0, <1>a, <1>4, <2>1, <2>2 DEF StagesHaveBases, Pulls!TypeOK, Pulls!Asking, Pulls!OnResponse
  <2>3. CASE ~ UNCHANGED call
    <3>1. PICK ok \in BOOLEAN :
            call' = [call EXCEPT ![pending[b]].ok = ok, ![pending[b]].at =
                       IF @ = "wait" THEN "answered" ELSE "early"]
      BY <1>4, <2>3 DEF Pulls!OnResponse
    <3>2. pending[b] \in Calls /\ call[pending[b]].at \in {"publish", "wait"}
      BY <1>0, <1>4, <2>3 DEF Pulls!OnResponse, Pulls!TypeOK
    <3>3. Pulls!TypeOK'
      <4>1. mesh' \in [Bases -> 0 .. MaxAnswers]
        BY <1>0, <1>4 DEF Pulls!TypeOK, Pulls!OnResponse
      <4>2. call' \in [Calls -> [at : Pulls!Stages, base : Bases \cup {None}, ok : BOOLEAN]]
        BY <1>0, <3>1, <3>2 DEF StagesHaveBases, Pulls!TypeOK, Pulls!Stages
      <4>3. QED
        BY <1>0, <2>1, <4>1, <4>2 DEF Pulls!TypeOK
    <3>4. QED
      BY <1>0, <1>a, <2>1, <3>1, <3>2, <3>3 DEF StagesHaveBases, Pulls!TypeOK, Pulls!Asking
  <2>4. QED
    BY <2>2, <2>3
<1>5. ASSUME NEW c \in Calls, Pulls!PublishAnswered(c) PROVE GateInv'
  <2>1. Pulls!TypeOK'
    BY <1>0, <1>t, <1>5 DEF StagesHaveBases, Pulls!TypeOK, Pulls!PublishAnswered, Pulls!Stages
  <2>2. QED
    BY <1>0, <1>a, <1>5, <2>1 DEF StagesHaveBases, Pulls!TypeOK, Pulls!PublishAnswered, Pulls!Asking
<1>6. ASSUME NEW c \in Calls, Pulls!Timeout(c) PROVE GateInv'
  <2>1. Pulls!TypeOK'
    BY <1>0, <1>t, <1>6 DEF StagesHaveBases, Pulls!TypeOK, Pulls!Timeout, Pulls!ClearGate, Pulls!Stages,
       Pulls!Idle
  <2>2. QED
    BY <1>0, <1>b, <1>6, <2>1 DEF StagesHaveBases, Pulls!TypeOK, Pulls!Timeout, Pulls!Asking, Pulls!Idle
<1>7. ASSUME NEW c \in Calls, Pulls!Answered(c) PROVE GateInv'
  <2>1. Pulls!TypeOK'
    BY <1>0, <1>t, <1>7 DEF StagesHaveBases, Pulls!TypeOK, Pulls!Answered, Pulls!ClearGate, Pulls!Stages,
       Pulls!Idle
  <2>2. QED
    BY <1>0, <1>b, <1>7, <2>1 DEF StagesHaveBases, Pulls!TypeOK, Pulls!Answered, Pulls!Asking, Pulls!Idle
<1>8. ASSUME NEW c \in Calls, Pulls!Store(c) PROVE GateInv'
  <2>1. Pulls!Asking' = Pulls!Asking
    BY <1>0, <1>8 DEF StagesHaveBases, Pulls!TypeOK, Pulls!Store, Pulls!Asking, Pulls!Idle
  <2>2. Pulls!TypeOK'
    <3>1. call[c].base \in Bases
      BY <1>0, <1>8 DEF Pulls!Store, StagesHaveBases
    <3>2. QED
      BY <1>0, <1>8, <3>1 DEF StagesHaveBases, Pulls!TypeOK, Pulls!Store, Pulls!Stages, Pulls!Idle
  <2>3. StagesHaveBases'
    BY <1>0, <1>8 DEF StagesHaveBases, Pulls!TypeOK, Pulls!Store, Pulls!Idle
  <2>4. \A d \in Pulls!Asking : call'[d].base = call[d].base
    BY <1>0, <1>8 DEF Pulls!TypeOK, Pulls!Store, Pulls!Asking
  <2>5. UNCHANGED <<pending, scanning>>
    BY <1>8 DEF Pulls!Store
  <2>6. QED
    BY <1>a, <2>1, <2>2, <2>3, <2>4, <2>5
<1>9. ASSUME NEW b \in Bases, Pulls!IntervalPasses(b) PROVE GateInv'
  BY <1>0, <1>a, <1>9 DEF StagesHaveBases, Pulls!TypeOK, Pulls!IntervalPasses, Pulls!Asking
<1>10. CASE UNCHANGED pulls
  BY <1>0, <1>a, <1>10 DEF pulls, StagesHaveBases, Pulls!TypeOK, Pulls!Asking
<1>11. QED
  BY <1>1, <1>2, <1>3, <1>4, <1>5, <1>6, <1>7, <1>8, <1>9, <1>10
     DEF Pulls!Next, Pulls!Proceeds

-----------------------------------------------------------------------------
(* Home Assistant's discovery topics *)

\* A task that removes topics has on its list all that is still retained.
Cleaner(task) ==
    /\ task.at = "empty" => retained \subseteq task.todo
    /\ task.at = "forget" => retained = {}

\* What is retained on the broker is on record, and a task about to drop the
\* record has nothing retained left: so a crash between two steps forgets nothing.
ClaimsRecorded ==
    /\ retained \subseteq recorded
    /\ recorded = {} \/ recorded = Discovery!AllTopics(prefix)
    /\ Discovery!Publishing => loop.prefix = prefix /\ ~Discovery!Cleaning(request)
    /\ loop.at \in {"configs", "states"} =>
         recorded = Discovery!AllTopics(prefix) /\ loop.todo \subseteq recorded
    /\ Cleaner(loop) /\ Cleaner(request)

\* A publish in progress is for some prefix.
PublishesFor == Discovery!Publishing => loop.prefix \in Prefixes

\* The record covers the broker unless two tasks raced (the flag that the
\* model raises at the one interleaving in which it cannot).
TopicInv == Discovery!TypeOK /\ PublishesFor /\ (~raced => ClaimsRecorded)

\* The topics of a prefix are topics.
LEMMA TopicsOf ==
    ASSUME NEW p \in Prefixes
    PROVE  /\ Discovery!AllTopics(p) \subseteq Discovery!Topics
           /\ Discovery!ConfigTopics(p) \subseteq Discovery!AllTopics(p)
           /\ Discovery!StateTopics \subseteq Discovery!AllTopics(p)
BY DEF Discovery!Topics, Discovery!AllTopics

\* At the start nothing is retained.
LEMMA TopicInit == Discovery!Init => TopicInv
<1> SUFFICES ASSUME Discovery!Init PROVE TopicInv
  OBVIOUS
<1>1. Discovery!TypeOK
  BY DEF Discovery!Init, Discovery!TypeOK, Discovery!Idle, Discovery!Tasks
<1>2. ClaimsRecorded /\ PublishesFor
  BY DEF Discovery!Init, Discovery!Idle, ClaimsRecorded, PublishesFor, Cleaner,
     Discovery!Publishing
<1>3. QED
  BY <1>1, <1>2 DEF TopicInv

\* The types are kept by every step, raced or not.
LEMMA TopicTypes ==
    Discovery!TypeOK /\ PublishesFor /\ [Discovery!Next]_discovery
        => Discovery!TypeOK' /\ PublishesFor'
<1> SUFFICES ASSUME Discovery!TypeOK, PublishesFor, [Discovery!Next]_discovery
             PROVE  Discovery!TypeOK' /\ PublishesFor'
  OBVIOUS
<1> USE DEF Discovery!world, Discovery!bounds
<1>0. /\ granted \in BOOLEAN /\ registered \in BOOLEAN /\ online \in BOOLEAN
      /\ prefix \in Prefixes /\ published \in Prefixes \cup {None}
      /\ recorded \in SUBSET Discovery!Topics /\ retained \in SUBSET Discovery!Topics
      /\ loop \in Discovery!Tasks /\ request \in Discovery!Tasks
      /\ raced \in BOOLEAN
  BY DEF Discovery!TypeOK
<1>t. \A p \in Prefixes :
        /\ Discovery!AllTopics(p) \in SUBSET Discovery!Topics
        /\ Discovery!ConfigTopics(p) \in SUBSET Discovery!Topics
        /\ Discovery!StateTopics \in SUBSET Discovery!Topics
  BY TopicsOf
<1>a. ASSUME NEW at \in {"idle", "record", "configs", "states", "empty", "forget",
                         "cleaned"},
             NEW todo \in SUBSET Discovery!Topics, NEW p \in Prefixes \cup {None}
      PROVE  [at |-> at, todo |-> todo, prefix |-> p] \in Discovery!Tasks
  BY DEF Discovery!Tasks
<1>b. ASSUME NEW p \in Prefixes, Discovery!Send(p)
      PROVE  loop' \in Discovery!Tasks /\ loop'.prefix = p
  <2>1. PICK values \in SUBSET Discovery!StateTopics :
          loop' = IF Discovery!SendStates(p)
                  THEN [at |-> "states", todo |-> values, prefix |-> p]
                  ELSE [at |-> "configs", todo |-> Discovery!ConfigTopics(p), prefix |-> p]
    BY <1>b DEF Discovery!Send
  <2>2. values \in SUBSET Discovery!Topics
    BY <1>t
  <2>3. QED
    BY <1>a, <1>b, <1>t, <2>1, <2>2
<1>c. Discovery!Idle \in Discovery!Tasks
  BY <1>a DEF Discovery!Idle
<1>e. ASSUME loop' \in Discovery!Tasks, request' \in Discovery!Tasks,
             loop'.at \in {"record", "configs", "states"} => loop'.prefix \in Prefixes,
             recorded' \in SUBSET Discovery!Topics, retained' \in SUBSET Discovery!Topics,
             published' \in Prefixes \cup {None}, granted' \in BOOLEAN,
             registered' \in BOOLEAN, online' \in BOOLEAN, raced' \in BOOLEAN,
             prefix' \in Prefixes
      PROVE  Discovery!TypeOK' /\ PublishesFor'
  BY <1>e DEF Discovery!TypeOK, PublishesFor, Discovery!Publishing
<1>1. CASE Discovery!CycleCleans
  <2>1. loop' \in Discovery!Tasks /\ loop'.at \in {"empty", "forget"}
    BY <1>0, <1>a, <1>1 DEF Discovery!CycleCleans, Discovery!BeginCleanup
  <2>2. QED
    BY <1>0, <1>e, <1>1, <2>1 DEF Discovery!CycleCleans, Discovery!BeginCleanup,
       Discovery!Unpublished
<1>2. CASE Discovery!CyclePublishes
  <2>1. loop' \in Discovery!Tasks /\ loop'.prefix = prefix
    <3>1. CASE recorded # Discovery!AllTopics(prefix)
      <4>1. loop' = [at |-> "record", todo |-> {}, prefix |-> prefix]
        BY <1>2, <3>1 DEF Discovery!CyclePublishes, Discovery!BeginPublish, Discovery!Idle
      <4>2. QED
        BY <1>0, <1>a, <4>1
    <3>2. CASE recorded = Discovery!AllTopics(prefix)
      <4>1. Discovery!Send(prefix)
        BY <1>2, <3>2 DEF Discovery!CyclePublishes, Discovery!BeginPublish
      <4>2. QED
        BY <1>0, <1>b, <4>1
    <3>3. QED
      BY <3>1, <3>2
  <2>2. QED
    BY <1>0, <1>e, <1>2, <2>1 DEF Discovery!CyclePublishes, Discovery!Overlap
<1>3. CASE Discovery!CycleEnds
  <2>1. loop' = Discovery!Idle /\ Discovery!Idle.at = "idle"
    BY <1>3 DEF Discovery!CycleEnds, Discovery!Idle
  <2>2. QED
    BY <1>0, <1>c, <1>e, <1>3, <2>1 DEF Discovery!CycleEnds
<1>4. CASE Discovery!Record
  <2>1. loop.prefix \in Prefixes /\ Discovery!Send(loop.prefix)
    BY <1>4 DEF Discovery!Record, PublishesFor, Discovery!Publishing
  <2>2. loop' \in Discovery!Tasks /\ loop'.prefix \in Prefixes
    BY <1>b, <2>1
  <2>3. QED
    BY <1>0, <1>e, <1>t, <1>4, <2>1, <2>2 DEF Discovery!Record
<1>5. ASSUME NEW topic, Discovery!Publish(topic) PROVE Discovery!TypeOK' /\ PublishesFor'
  <2>1. topic \in Discovery!Topics /\ loop.prefix \in Prefixes
    BY <1>0, <1>5 DEF Discovery!Publish, Discovery!Tasks, PublishesFor, Discovery!Publishing
  <2>2. /\ loop' = [loop EXCEPT !.todo = @ \ {topic}] /\ loop'.at = loop.at
        /\ loop' \in Discovery!Tasks /\ loop'.prefix = loop.prefix
    BY <1>0, <1>5 DEF Discovery!Publish, Discovery!Tasks
  <2>3. QED
    BY <1>0, <1>e, <1>5, <2>1, <2>2 DEF Discovery!Publish
<1>6. CASE Discovery!ConfigsDone
  <2>1. PICK values \in SUBSET Discovery!StateTopics :
          loop' = [loop EXCEPT !.at = "states", !.todo = values]
    BY <1>6 DEF Discovery!ConfigsDone
  <2>2. loop.prefix \in Prefixes /\ values \in SUBSET Discovery!Topics
    BY <1>0, <1>6, <1>t DEF Discovery!ConfigsDone, PublishesFor, Discovery!Publishing
  <2>3. loop' \in Discovery!Tasks /\ loop'.prefix = loop.prefix
    BY <1>0, <2>1, <2>2 DEF Discovery!Tasks
  <2>4. QED
    BY <1>0, <1>e, <1>6, <2>2, <2>3 DEF Discovery!ConfigsDone
<1>7. CASE Discovery!StatesDone
  <2>1. loop' = Discovery!Idle /\ Discovery!Idle.at = "idle"
    BY <1>7 DEF Discovery!StatesDone, Discovery!Idle
  <2>2. QED
    BY <1>0, <1>c, <1>e, <1>7, <2>1 DEF Discovery!StatesDone
<1>8. CASE Discovery!CycleFails
  <2>1. loop' = Discovery!Idle /\ Discovery!Idle.at = "idle"
    BY <1>8 DEF Discovery!CycleFails, Discovery!Idle
  <2>2. QED
    BY <1>0, <1>c, <1>e, <1>8, <2>1 DEF Discovery!CycleFails
<1>9. ASSUME NEW topic, Discovery!LoopEmpties(topic)
      PROVE  Discovery!TypeOK' /\ PublishesFor'
  <2>1. loop' \in Discovery!Tasks /\ loop'.at \in {"empty", "forget"}
    BY <1>0, <1>9 DEF Discovery!LoopEmpties, Discovery!EmptyFor, Discovery!Left,
       Discovery!Tasks
  <2>2. QED
    BY <1>0, <1>e, <1>9, <2>1 DEF Discovery!LoopEmpties, Discovery!EmptyFor
<1>10. ASSUME NEW topic, Discovery!RequestEmpties(topic)
       PROVE  Discovery!TypeOK' /\ PublishesFor'
  <2>1. request' \in Discovery!Tasks
    BY <1>0, <1>10 DEF Discovery!RequestEmpties, Discovery!EmptyFor, Discovery!Left,
       Discovery!Tasks
  <2>2. QED
    BY <1>0, <1>e, <1>10, <2>1 DEF Discovery!RequestEmpties, Discovery!EmptyFor,
       PublishesFor, Discovery!Publishing
<1>11. CASE Discovery!LoopForgets
  <2>1. loop' = [at |-> "cleaned", todo |-> {}, prefix |-> None]
    BY <1>11 DEF Discovery!LoopForgets, Discovery!Idle
  <2>2. loop' \in Discovery!Tasks /\ loop'.at = "cleaned"
    BY <1>a, <2>1
  <2>3. QED
    BY <1>0, <1>e, <1>11, <2>2 DEF Discovery!LoopForgets
<1>12. CASE Discovery!RequestForgets
  BY <1>0, <1>c, <1>e, <1>12 DEF Discovery!RequestForgets, PublishesFor,
     Discovery!Publishing
<1>13. CASE Discovery!RequestFails
  BY <1>0, <1>c, <1>e, <1>13 DEF Discovery!RequestFails, PublishesFor,
     Discovery!Publishing
<1>14. CASE Discovery!Revoke
  <2>1. request' \in Discovery!Tasks
    BY <1>0, <1>a, <1>14 DEF Discovery!Revoke, Discovery!BeginCleanup
  <2>2. QED
    BY <1>0, <1>e, <1>14, <2>1 DEF Discovery!Revoke, Discovery!BeginCleanup,
       Discovery!Unpublished, Discovery!Overlap, PublishesFor, Discovery!Publishing
<1>15. CASE Discovery!Grant \/ Discovery!Outage \/ Discovery!Reconnect \/ Discovery!Register
  BY <1>0, <1>e, <1>15 DEF Discovery!Grant, Discovery!Outage, Discovery!Reconnect,
     Discovery!Register, PublishesFor, Discovery!Publishing
<1>16. CASE Discovery!Rename
  BY <1>0, <1>e, <1>16 DEF Discovery!Rename, PublishesFor, Discovery!Publishing
<1>17. CASE Discovery!Restart
  <2>1. loop' = Discovery!Idle /\ request' = Discovery!Idle /\ Discovery!Idle.at = "idle"
    BY <1>17 DEF Discovery!Restart, Discovery!Idle
  <2>2. QED
    BY <1>0, <1>c, <1>e, <1>17, <2>1 DEF Discovery!Restart
<1>18. CASE UNCHANGED discovery
  BY <1>18 DEF discovery, Discovery!TypeOK, PublishesFor, Discovery!Publishing
<1>19. QED
  BY <1>1, <1>2, <1>3, <1>4, <1>5, <1>6, <1>7, <1>8, <1>9, <1>10, <1>11, <1>12, <1>13,
     <1>14, <1>15, <1>16, <1>17, <1>18
     DEF Discovery!Next, Discovery!Loop, Discovery!Request

\* The record is written before each publish and cleared after the last
\* removal, so every step keeps it ahead of the broker.
LEMMA TopicStep == TopicInv /\ [Discovery!Next]_discovery => TopicInv'
<1> SUFFICES ASSUME TopicInv, [Discovery!Next]_discovery PROVE TopicInv'
  OBVIOUS
<1> USE DEF Discovery!world, Discovery!bounds
<1>0. Discovery!TypeOK' /\ PublishesFor'
  BY TopicTypes DEF TopicInv
<1> SUFFICES ASSUME ~raced' PROVE ClaimsRecorded'
  BY <1>0 DEF TopicInv
<1>1. /\ prefix \in Prefixes /\ loop \in Discovery!Tasks /\ request \in Discovery!Tasks
      /\ raced \in BOOLEAN
  BY DEF TopicInv, Discovery!TypeOK
<1>2. ~raced
  <2>1. UNCHANGED raced \/ (\E x \in BOOLEAN : raced' = (raced \/ x))
    BY DEF Discovery!Next, Discovery!Loop, Discovery!Request, discovery,
       Discovery!CycleCleans, Discovery!CyclePublishes, Discovery!CycleEnds,
       Discovery!Record, Discovery!Publish, Discovery!ConfigsDone, Discovery!StatesDone,
       Discovery!CycleFails, Discovery!LoopEmpties, Discovery!RequestEmpties,
       Discovery!EmptyFor, Discovery!LoopForgets, Discovery!RequestForgets,
       Discovery!RequestFails, Discovery!Revoke, Discovery!Grant, Discovery!Outage,
       Discovery!Reconnect, Discovery!Register, Discovery!Rename, Discovery!Restart,
       Discovery!Overlap
  <2>2. QED
    BY <1>1, <2>1
<1>3. ClaimsRecorded
  BY <1>2 DEF TopicInv
<1>t. /\ Discovery!ConfigTopics(prefix) \subseteq Discovery!AllTopics(prefix)
      /\ Discovery!StateTopics \subseteq Discovery!AllTopics(prefix)
  BY <1>1, TopicsOf
<1>i. /\ Discovery!Idle.at = "idle"
  BY DEF Discovery!Idle
<1> USE DEF ClaimsRecorded, Cleaner, Discovery!Publishing, Discovery!Cleaning
<1>s. ASSUME Discovery!Send(prefix), recorded' = Discovery!AllTopics(prefix)
      PROVE  /\ loop'.at \in {"configs", "states"} /\ loop'.prefix = prefix
             /\ loop'.todo \subseteq recorded'
  <2>1. PICK values \in SUBSET Discovery!StateTopics :
          loop' = IF Discovery!SendStates(prefix)
                  THEN [at |-> "states", todo |-> values, prefix |-> prefix]
                  ELSE [at |-> "configs", todo |-> Discovery!ConfigTopics(prefix),
                        prefix |-> prefix]
    BY <1>s DEF Discovery!Send
  <2>2. QED
    BY <1>s, <1>t, <2>1
<1>4. CASE Discovery!CycleCleans
  BY <1>3, <1>4 DEF Discovery!CycleCleans, Discovery!BeginCleanup
<1>5. CASE Discovery!CyclePublishes
  <2>1. /\ UNCHANGED <<recorded, retained, request, prefix>>
        /\ ~(Discovery!Publishing' /\ Discovery!Cleaning(request'))
    BY <1>5 DEF Discovery!CyclePublishes, Discovery!Overlap
  <2>2. CASE recorded # Discovery!AllTopics(prefix)
    <3>1. loop' = [at |-> "record", todo |-> {}, prefix |-> prefix]
      BY <1>5, <2>2 DEF Discovery!CyclePublishes, Discovery!BeginPublish, Discovery!Idle
    <3>2. QED
      BY <1>3, <2>1, <3>1
  <2>3. CASE recorded = Discovery!AllTopics(prefix)
    <3>1. Discovery!Send(prefix)
      BY <1>5, <2>3 DEF Discovery!CyclePublishes, Discovery!BeginPublish
    <3>2. QED
      BY <1>3, <1>s, <2>1, <2>3, <3>1
  <2>4. QED
    BY <2>2, <2>3
<1>6. CASE Discovery!CycleEnds
  BY <1>3, <1>6, <1>i DEF Discovery!CycleEnds
<1>7. CASE Discovery!Record
  <2>1. /\ UNCHANGED <<retained, request, prefix>> /\ ~Discovery!Cleaning(request)
        /\ loop.prefix = prefix
    BY <1>3, <1>7 DEF Discovery!Record
  <2>2. recorded' = Discovery!AllTopics(prefix) /\ Discovery!Send(prefix)
    BY <1>7, <2>1 DEF Discovery!Record
  <2>3. QED
    BY <1>3, <1>s, <2>1, <2>2
<1>8. ASSUME NEW topic, Discovery!Publish(topic) PROVE ClaimsRecorded'
  <2>1. /\ loop' = [loop EXCEPT !.todo = @ \ {topic}] /\ retained' = retained \cup {topic}
        /\ UNCHANGED <<prefix, recorded, request>>
        /\ loop.at \in {"configs", "states"} /\ topic \in loop.todo
    BY <1>8 DEF Discovery!Publish
  <2>2. /\ loop'.at = loop.at /\ loop'.prefix = loop.prefix
        /\ loop'.todo = loop.todo \ {topic}
    BY <1>1, <2>1 DEF Discovery!Tasks
  <2>3. QED
    BY <1>3, <2>1, <2>2
<1>9. CASE Discovery!ConfigsDone
  <2>1. PICK values \in SUBSET Discovery!StateTopics :
          loop' = [loop EXCEPT !.at = "states", !.todo = values]
    BY <1>9 DEF Discovery!ConfigsDone
  <2>2. loop'.at = "states" /\ loop'.prefix = loop.prefix /\ loop'.todo = values
    BY <1>1, <2>1 DEF Discovery!Tasks
  <2>3. QED
    BY <1>3, <1>9, <1>t, <2>2 DEF Discovery!ConfigsDone
<1>10. CASE Discovery!StatesDone
  BY <1>3, <1>10, <1>i DEF Discovery!StatesDone
<1>11. CASE Discovery!CycleFails
  BY <1>3, <1>11, <1>i DEF Discovery!CycleFails
<1>12. ASSUME NEW topic, Discovery!LoopEmpties(topic) PROVE ClaimsRecorded'
  <2>1. /\ loop.at = "empty" /\ retained' = retained \ {topic}
        /\ loop' = [loop EXCEPT !.todo = Discovery!Left(@, topic),
                                !.at = IF Discovery!Left(loop.todo, topic) = {}
                                       THEN "forget" ELSE @]
        /\ UNCHANGED <<prefix, recorded, request>>
    BY <1>12 DEF Discovery!LoopEmpties, Discovery!EmptyFor
  <2>2. /\ loop'.todo = loop.todo \ {topic} /\ loop'.prefix = loop.prefix
        /\ loop'.at = IF loop.todo \ {topic} = {} THEN "forget" ELSE "empty"
    BY <1>1, <2>1 DEF Discovery!Tasks, Discovery!Left
  <2>3. QED
    BY <1>3, <2>1, <2>2
<1>13. ASSUME NEW topic, Discovery!RequestEmpties(topic) PROVE ClaimsRecorded'
  <2>1. /\ request.at = "empty" /\ retained' = retained \ {topic}
        /\ request' = [request EXCEPT !.todo = Discovery!Left(@, topic),
                                      !.at = IF Discovery!Left(request.todo, topic) = {}
                                             THEN "forget" ELSE @]
        /\ UNCHANGED <<prefix, recorded, loop>>
    BY <1>13 DEF Discovery!RequestEmpties, Discovery!EmptyFor
  <2>2. /\ request'.todo = request.todo \ {topic}
        /\ request'.at = IF request.todo \ {topic} = {} THEN "forget" ELSE "empty"
    BY <1>1, <2>1 DEF Discovery!Tasks, Discovery!Left
  <2>3. QED
    BY <1>3, <2>1, <2>2
<1>14. CASE Discovery!LoopForgets
  <2>1. loop'.at = "cleaned" /\ recorded' = {} /\ UNCHANGED <<prefix, retained, request>>
    BY <1>14 DEF Discovery!LoopForgets, Discovery!Idle
  <2>2. QED
    BY <1>3, <1>14, <2>1 DEF Discovery!LoopForgets
<1>15. CASE Discovery!RequestForgets
  BY <1>3, <1>15, <1>i DEF Discovery!RequestForgets
<1>16. CASE Discovery!RequestFails
  BY <1>3, <1>16, <1>i DEF Discovery!RequestFails
<1>17. CASE Discovery!Revoke
  <2>1. /\ UNCHANGED <<recorded, retained, loop, prefix>>
        /\ ~(Discovery!Publishing' /\ Discovery!Cleaning(request'))
        /\ request'.todo = recorded
        /\ request'.at = IF recorded = {} THEN "forget" ELSE "empty"
    BY <1>17 DEF Discovery!Revoke, Discovery!BeginCleanup, Discovery!Overlap
  <2>2. QED
    BY <1>3, <2>1
<1>18. CASE Discovery!Grant \/ Discovery!Outage \/ Discovery!Reconnect \/ Discovery!Register
  BY <1>3, <1>18 DEF Discovery!Grant, Discovery!Outage, Discovery!Reconnect,
     Discovery!Register
<1>19. CASE Discovery!Rename
  BY <1>3, <1>19 DEF Discovery!Rename
<1>20. CASE Discovery!Restart
  BY <1>3, <1>20, <1>i DEF Discovery!Restart
<1>21. CASE UNCHANGED discovery
  BY <1>3, <1>21 DEF discovery
<1>22. QED
  BY <1>4, <1>5, <1>6, <1>7, <1>8, <1>9, <1>10, <1>11, <1>12, <1>13, <1>14, <1>15,
     <1>16, <1>17, <1>18, <1>19, <1>20, <1>21
     DEF Discovery!Next, Discovery!Loop, Discovery!Request

-----------------------------------------------------------------------------
(* The extension tile *)

\* The calls with a request or a response on its way.
InFlight == Range(requests) \cup responses

\* No call has two messages in flight, and one with a message is waiting for
\* its answer or has given up.
EachOnce ==
    /\ IsInjective(requests)
    /\ Range(requests) \cap responses = {}
    /\ \A c \in InFlight :
         /\ c \in Calls /\ action[c] \in Tile!Actions
         /\ pc[c] = "over" \/ (c \in byTx /\ pc[c] # "new")

\* A call that has been answered has some call's response.
AnsweredBy == \A c \in Calls : pc[c] = "answered" => answer[c] \in Calls

\* The table of pending requests is sound only because each transaction has at
\* most one message in flight: a second response would be matched to nobody.
CallInv ==
    /\ Tile!TypeOK /\ Tile!PendingSound /\ Tile!StrangersHaveGivenUp
    /\ EachOnce /\ AnsweredBy

\* At the start no call is made and nothing is in flight.
LEMMA CallInit == Tile!Init => CallInv
<1> SUFFICES ASSUME Tile!Init PROVE CallInv
  OBVIOUS
<1>1. requests = << >> /\ DOMAIN requests = {}
  BY EmptySeq DEF Tile!Init
<1>2. Range(requests) = {} /\ IsInjective(requests)
  BY <1>1 DEF Range, IsInjective
<1>3. Tile!TypeOK
  <2>1. requests \in Seq(Calls)
    BY <1>1, EmptySeq
  <2>2. lost \in 0 .. MaxLost /\ boots \in 0 .. MaxRestarts
    BY TileAssumption DEF Tile!TileAssumption, Tile!Init
  <2>3. tile \in Tile!Statuses /\ worker \in {"idle"} \cup Tile!Deployable
    BY DEF Tile!Init, Tile!Statuses
  <2>4. QED
    BY <2>1, <2>2, <2>3 DEF Tile!Init, Tile!TypeOK
<1>4. Tile!PendingSound /\ Tile!StrangersHaveGivenUp
  BY DEF Tile!Init, Tile!PendingSound, Tile!StrangersHaveGivenUp
<1>5. EachOnce
  BY <1>2 DEF Tile!Init, EachOnce, InFlight
<1>6. AnsweredBy
  BY DEF Tile!Init, AnsweredBy
<1>7. QED
  BY <1>3, <1>4, <1>5, <1>6 DEF CallInv

\* Deploys, revokes, timeouts, losses, retained heartbeats and restarts all keep
\* the table, whatever their order.
LEMMA CallStep == CallInv /\ [Tile!Next]_tiles => CallInv'
<1> SUFFICES ASSUME CallInv, [Tile!Next]_tiles PROVE CallInv'
  OBVIOUS
<1> USE DEF Tile!callVars, Tile!remoteVars, Tile!beatVars, Tile!Actions
<1>0. /\ Tile!TypeOK /\ Tile!PendingSound /\ Tile!StrangersHaveGivenUp /\ EachOnce
      /\ AnsweredBy /\ NoCall \notin Calls /\ MaxLost \in Nat /\ MaxRestarts \in Nat
  BY TileAssumption DEF CallInv, Tile!TileAssumption
<1>t. /\ tile \in Tile!Statuses
      /\ action \in [Calls -> Tile!Actions \cup {"none"}]
      /\ pc \in [Calls -> {"new", "waiting", "answered", "over"}]
      /\ verdict \in [Calls -> {"none", "ok", "absent", "error"}]
      /\ answer \in [Calls -> Calls \cup {NoCall}]
      /\ byTx \in SUBSET Calls
      /\ byAction \in [Tile!Actions -> Calls \cup {NoCall}]
      /\ requests \in Seq(Calls) /\ responses \in SUBSET Calls
      /\ lost \in 0 .. MaxLost /\ boots \in 0 .. MaxRestarts
  BY <1>0 DEF Tile!TypeOK
<1>1. ASSUME NEW c \in Calls, NEW a \in Tile!Actions, Tile!Request(c, a),
             tile' \in Tile!Statuses
      PROVE  CallInv'
  <2>1. /\ pc[c] = "new" /\ requests' = Append(requests, c)
        /\ action' = [action EXCEPT ![c] = a] /\ pc' = [pc EXCEPT ![c] = "waiting"]
        /\ byTx' = byTx \cup {c} /\ byAction' = [byAction EXCEPT ![a] = c]
        /\ UNCHANGED <<answer, verdict, responses, installed, buffered, worker, lost, boots>>
    BY <1>1 DEF Tile!Request
  <2>2. c \notin InFlight
    BY <1>0, <2>1 DEF EachOnce
  <2>3. /\ requests' \in Seq(Calls) /\ IsInjective(requests')
        /\ Range(requests') = Range(requests) \cup {c}
    BY <1>0, <1>t, <2>1, <2>2, OneSent DEF EachOnce, InFlight
  <2>4. Tile!TypeOK'
    BY <1>0, <1>1, <2>1, <2>3 DEF Tile!TypeOK
  <2>5. Tile!PendingSound'
    BY <1>0, <1>t, <2>1 DEF Tile!PendingSound
  <2>6. Tile!StrangersHaveGivenUp'
    BY <1>0, <1>t, <2>1 DEF Tile!StrangersHaveGivenUp, AnsweredBy
  <2>7. EachOnce'
    BY <1>0, <1>t, <2>1, <2>2, <2>3 DEF EachOnce, InFlight
  <2>8. AnsweredBy'
    BY <1>0, <1>t, <2>1 DEF AnsweredBy
  <2>9. QED
    BY <2>4, <2>5, <2>6, <2>7, <2>8 DEF CallInv
<1>f. ASSUME NEW c \in Calls, NEW a, Tile!Forget(c, a),
             \A b \in Tile!Actions : byAction[b] = c => b = a,
             tile' \in Tile!Statuses,
             UNCHANGED <<action, answer, verdict, requests, responses, installed,
                         buffered, worker, lost, boots>>
      PROVE  CallInv'
  <2>1. /\ pc' = [pc EXCEPT ![c] = "over"] /\ byTx' = byTx \ {c}
        /\ byAction' = [byAction EXCEPT ![a] = NoCall]
    BY <1>f DEF Tile!Forget
  <2>2. Tile!TypeOK'
    BY <1>0, <1>f, <2>1 DEF Tile!TypeOK
  <2>3. Tile!PendingSound'
    BY <1>0, <1>t, <1>f, <2>1 DEF Tile!PendingSound
  <2>4. Tile!StrangersHaveGivenUp'
    BY <1>0, <1>t, <1>f, <2>1 DEF Tile!StrangersHaveGivenUp, AnsweredBy
  <2>5. EachOnce'
    BY <1>0, <1>t, <1>f, <2>1 DEF EachOnce, InFlight
  <2>6. AnsweredBy'
    BY <1>0, <1>t, <1>f, <2>1 DEF AnsweredBy
  <2>7. QED
    BY <2>2, <2>3, <2>4, <2>5, <2>6 DEF CallInv
<1>2. ASSUME NEW c \in Calls, NEW a \in Tile!Actions, Tile!Refused(c, a) PROVE CallInv'
  <2>1. \A b \in Tile!Actions : byAction[b] # c
    BY <1>0, <1>t, <1>2 DEF Tile!Refused, Tile!PendingSound
  <2>2. tile' \in Tile!Statuses
    BY <1>t, <1>2 DEF Tile!Refused, Tile!Statuses
  <2>3. QED
    BY <1>f, <1>2, <2>1, <2>2 DEF Tile!Refused
<1>3. ASSUME NEW c \in Calls, Tile!TimesOut(c) PROVE CallInv'
  <2>1. \A b \in Tile!Actions : byAction[b] = c => b = action[c]
    BY <1>0, <1>t DEF Tile!PendingSound
  <2>2. tile' \in Tile!Statuses
    BY <1>3 DEF Tile!TimesOut, Tile!Statuses
  <2>3. QED
    BY <1>f, <1>3, <2>1, <2>2 DEF Tile!TimesOut
<1>4. ASSUME NEW c \in Calls, Tile!Resumes(c) PROVE CallInv'
  <2>1. \A b \in Tile!Actions : byAction[b] = c => b = action[c]
    BY <1>0, <1>t DEF Tile!PendingSound
  <2>2. tile' \in Tile!Statuses
    BY <1>4 DEF Tile!Resumes, Tile!Outcome, Tile!Statuses
  <2>3. QED
    BY <1>f, <1>4, <2>1, <2>2 DEF Tile!Resumes
<1>5. ASSUME NEW tx \in Calls, Tile!OnBridgeResponse(tx) PROVE CallInv'
  <2>1. /\ tx \in responses /\ responses' = responses \ {tx} /\ byTx' = byTx \ {tx}
        /\ byAction' = IF tx \in byTx THEN byAction
                       ELSE [byAction EXCEPT ![action[tx]] = NoCall]
        /\ UNCHANGED <<tile, action, verdict, requests, installed, buffered, worker,
                       lost, boots>>
    BY <1>5 DEF Tile!OnBridgeResponse
  <2>2. /\ action[tx] \in Tile!Actions /\ tx \notin Range(requests)
        /\ pc[tx] = "over" \/ (tx \in byTx /\ pc[tx] # "new")
    BY <1>0, <2>1 DEF EachOnce, InFlight
  <2> DEFINE c == Tile!Addressee(tx)
  <2>3. c = IF tx \in byTx THEN tx ELSE byAction[action[tx]]
    BY DEF Tile!Addressee
  <2>4. c \in Calls \cup {NoCall}
    BY <1>t, <2>2, <2>3
  <2>5. IF c # NoCall /\ pc[c] = "waiting"
        THEN /\ pc' = [pc EXCEPT ![c] = "answered"]
             /\ answer' = [answer EXCEPT ![c] = tx]
        ELSE UNCHANGED <<pc, answer>>
    BY <1>5 DEF Tile!OnBridgeResponse
  <2>6. c # tx => tx \notin byTx /\ (c # NoCall => action[c] = action[tx]) /\ pc[tx] = "over"
    BY <1>0, <1>t, <2>2, <2>3 DEF Tile!PendingSound
  <2>7. c = tx => tx \in byTx \/ pc[c] # "waiting"
    BY <1>0 DEF Tile!PendingSound
  <2>8. c \notin byTx /\ tx \notin byTx => byAction'[action[tx]] = NoCall
    BY <1>t, <2>1, <2>2
  <2> HIDE DEF c
  <2>9. Tile!TypeOK'
    BY <1>0, <1>t, <2>1, <2>2, <2>4, <2>5 DEF Tile!TypeOK
  <2>10. Tile!PendingSound'
    <3>1. \A d \in Calls : pc'[d] = "waiting" => pc[d] = "waiting" /\ d # tx
      BY <1>0, <1>t, <2>2, <2>3, <2>4, <2>5 DEF Tile!PendingSound
    <3>2. \A d \in Calls : pc[d] \in {"waiting", "answered"}
                             => pc'[d] \in {"waiting", "answered"}
      BY <1>t, <2>4, <2>5
    <3>3. \A b \in Tile!Actions : byAction'[b] # NoCall => byAction'[b] = byAction[b]
      BY <1>t, <2>1, <2>2
    <3>4. QED
      BY <1>0, <1>t, <2>1, <3>1, <3>2, <3>3 DEF Tile!PendingSound
  <2>11. Tile!StrangersHaveGivenUp'
    <3>1. ASSUME NEW d \in Calls, pc'[d] = "answered", answer'[d] # d
          PROVE  action'[answer'[d]] = action'[d] /\ pc'[answer'[d]] = "over"
      <4>1. CASE c # NoCall /\ pc[c] = "waiting" /\ d = c
        <5>1. answer'[d] = tx /\ tx # d
          BY <1>t, <2>4, <2>5, <3>1, <4>1
        <5>2. pc'[tx] = pc[tx]
          BY <1>t, <2>4, <2>5, <4>1, <5>1
        <5>3. QED
          BY <2>1, <2>6, <4>1, <5>1, <5>2
      <4>2. CASE ~(c # NoCall /\ pc[c] = "waiting" /\ d = c)
        <5>1. pc[d] = "answered" /\ answer'[d] = answer[d]
          BY <1>t, <2>4, <2>5, <3>1, <4>2
        <5>2. /\ answer[d] \in Calls /\ pc[answer[d]] = "over"
              /\ action[answer[d]] = action[d]
          BY <1>0, <3>1, <5>1 DEF AnsweredBy, Tile!StrangersHaveGivenUp
        <5>3. pc'[answer[d]] = "over"
          BY <1>t, <2>4, <2>5, <5>2
        <5>4. QED
          BY <2>1, <5>1, <5>2, <5>3
      <4>3. QED
        BY <4>1, <4>2
    <3>2. QED
      BY <3>1 DEF Tile!StrangersHaveGivenUp
  <2>12. EachOnce'
    <3>1. InFlight' \subseteq InFlight /\ tx \notin InFlight'
      BY <2>1, <2>2 DEF InFlight
    <3>2. ASSUME NEW d \in InFlight' PROVE pc'[d] = "over" \/ (d \in byTx' /\ pc'[d] # "new")
      <4>1. d \in Calls /\ d # tx /\ (pc[d] = "over" \/ (d \in byTx /\ pc[d] # "new"))
        BY <1>0, <3>1 DEF EachOnce
      <4>2. QED
        BY <1>t, <2>1, <2>4, <2>5, <4>1
    <3>3. QED
      BY <1>0, <2>1, <3>1, <3>2 DEF EachOnce
  <2>13. AnsweredBy'
    BY <1>0, <1>t, <2>4, <2>5 DEF AnsweredBy
  <2>14. QED
    BY <2>9, <2>10, <2>11, <2>12, <2>13 DEF CallInv
<1>r. ASSUME UNCHANGED <<action, pc, answer, byTx, byAction>>, Tile!TypeOK', EachOnce'
      PROVE  CallInv'
  BY <1>0, <1>r DEF CallInv, Tile!PendingSound, Tile!StrangersHaveGivenUp, AnsweredBy
<1>l. ASSUME UNCHANGED <<action, pc, answer, byTx, byAction, requests, responses>>,
             Tile!TypeOK'
      PROVE  CallInv'
  BY <1>0, <1>l DEF CallInv, Tile!PendingSound, Tile!StrangersHaveGivenUp, EachOnce,
     InFlight, AnsweredBy
<1>6. CASE Tile!Beat
  BY <1>0, <1>l, <1>6 DEF Tile!Beat, Tile!TypeOK
<1>7. CASE Tile!WorkerReads
  BY <1>0, <1>l, <1>7 DEF Tile!WorkerReads, Tile!TypeOK
<1>8. CASE Tile!WorkerWrites
  BY <1>0, <1>l, <1>8 DEF Tile!WorkerWrites, Tile!Promoted, Tile!TypeOK, Tile!Statuses
<1>9. ASSUME NEW c \in Calls, NEW status \in {"ok", "absent", "error"},
             NEW runs \in BOOLEAN, Tile!Answers(c, status, runs)
      PROVE  CallInv'
  <2>1. /\ requests # << >> /\ c = Head(requests) /\ requests' = Tail(requests)
        /\ verdict' = [verdict EXCEPT ![c] = status] /\ responses' = responses \cup {c}
        /\ installed' = runs
        /\ UNCHANGED <<tile, action, pc, answer, byTx, byAction, buffered, worker, lost,
                       boots>>
    BY <1>9 DEF Tile!Answers
  <2>2. /\ c \in Range(requests) /\ requests' \in Seq(Calls) /\ IsInjective(requests')
        /\ Range(requests') = Range(requests) \ {c}
    BY <1>0, <1>t, <2>1, OneTaken DEF EachOnce
  <2>3. Tile!TypeOK'
    BY <1>0, <2>1, <2>2 DEF Tile!TypeOK
  <2>4. EachOnce'
    BY <1>0, <2>1, <2>2 DEF EachOnce, InFlight
  <2>5. QED
    BY <1>r, <2>1, <2>3, <2>4
<1>10. ASSUME NEW c \in Calls,
              Tile!Saves(c) \/ Tile!Removes(c) \/ Tile!FindsNothing(c) \/ Tile!Fails(c)
       PROVE  CallInv'
  <2>1. installed \in BOOLEAN
    BY <1>0 DEF Tile!TypeOK
  <2>2. QED
    BY <1>9, <1>10, <2>1 DEF Tile!Saves, Tile!Removes, Tile!FindsNothing, Tile!Fails
<1>11. CASE Tile!LosesRequest
  <2>1. /\ requests # << >> /\ requests' = Tail(requests) /\ lost < MaxLost
        /\ lost' = lost + 1
        /\ UNCHANGED <<tile, action, pc, answer, byTx, byAction, verdict, responses,
                       installed, buffered, worker, boots>>
    BY <1>11 DEF Tile!LosesRequest
  <2>2. /\ requests' \in Seq(Calls) /\ IsInjective(requests')
        /\ Range(requests') \subseteq Range(requests)
    BY <1>0, <1>t, <2>1, OneTaken DEF EachOnce
  <2>3. lost' \in 0 .. MaxLost
    BY <1>0, <1>t, <2>1
  <2>4. Tile!TypeOK'
    BY <1>0, <2>1, <2>2, <2>3 DEF Tile!TypeOK
  <2>5. EachOnce'
    BY <1>0, <2>1, <2>2 DEF EachOnce, InFlight
  <2>6. QED
    BY <1>r, <2>1, <2>4, <2>5
<1>12. ASSUME NEW tx \in Calls, Tile!LosesResponse(tx) PROVE CallInv'
  <2>1. lost' \in 0 .. MaxLost
    BY <1>0, <1>t, <1>12 DEF Tile!LosesResponse
  <2>2. Tile!TypeOK'
    BY <1>0, <1>12, <2>1 DEF Tile!LosesResponse, Tile!TypeOK
  <2>3. EachOnce'
    BY <1>0, <1>12 DEF Tile!LosesResponse, EachOnce, InFlight
  <2>4. QED
    BY <1>r, <1>12, <2>2, <2>3 DEF Tile!LosesResponse
<1>13. CASE Tile!Restart
  <2>1. /\ boots < MaxRestarts /\ boots' = boots + 1
        /\ pc' = [c \in Calls |-> IF pc[c] = "new" THEN "new" ELSE "over"]
        /\ byTx' = {} /\ byAction' = [a \in Tile!Actions |-> NoCall]
        /\ buffered' = FALSE /\ worker' = "idle"
        /\ UNCHANGED <<tile, action, answer, verdict, requests, responses, installed, lost>>
    BY <1>13 DEF Tile!Restart
  <2>2. boots' \in 0 .. MaxRestarts
    BY <1>0, <1>t, <2>1
  <2>3. Tile!TypeOK'
    BY <1>0, <2>1, <2>2 DEF Tile!TypeOK
  <2>4. Tile!PendingSound' /\ Tile!StrangersHaveGivenUp' /\ AnsweredBy'
    BY <1>0, <1>t, <2>1 DEF Tile!PendingSound, Tile!StrangersHaveGivenUp, AnsweredBy
  <2>5. EachOnce'
    BY <1>0, <1>t, <2>1 DEF EachOnce, InFlight
  <2>6. QED
    BY <2>3, <2>4, <2>5 DEF CallInv
<1>14. ASSUME NEW c \in Calls, Tile!Deploy(c) \/ Tile!Revoke(c) PROVE CallInv'
  BY <1>t, <1>1, <1>14 DEF Tile!Deploy, Tile!Revoke, Tile!Statuses
<1>15. CASE UNCHANGED tiles
  BY <1>0, <1>l, <1>15 DEF tiles, Tile!TypeOK
<1>16. QED
  BY <1>2, <1>3, <1>4, <1>5, <1>6, <1>7, <1>8, <1>10, <1>11, <1>12, <1>13, <1>14, <1>15
     DEF Tile!Next, Tile!CallStep, Tile!Worker

\* A revoked row becomes deployed by a deploy's own answer, or by the worker
\* that found an attempt or a failure.
DeployedOnly ==
    tile = "revoked" /\ tile' = "deployed" =>
      \/ \E c \in Calls : action[c] = "save" /\ pc[c] # pc'[c]
      \/ worker \in {"error", "deploying"}

\* The step formula of StaysRevoked.
OnlyADeployDeploys ==
    /\ DeployedOnly
    /\ tile = "revoked" /\ worker = "idle" => worker' = "idle"

\* The worker takes up no heartbeat of a revoked row.
LEMMA NoBeatTakenUp ==
    [Tile!Next]_tiles /\ tile = "revoked" /\ worker = "idle" => worker' = "idle"
BY DEF Tile!Next, Tile!CallStep, Tile!Worker, Tile!Deploy, Tile!Revoke, Tile!Request, Tile!Refused,
   Tile!TimesOut, Tile!Resumes, Tile!Forget, Tile!OnBridgeResponse, Tile!LosesResponse,
   Tile!Saves, Tile!Removes, Tile!FindsNothing, Tile!Fails, Tile!Answers,
   Tile!LosesRequest, Tile!Beat, Tile!WorkerReads, Tile!WorkerWrites, Tile!Restart,
   Tile!Deployable, Tile!beatVars, tiles

\* No other step brings a revoked row back.
LEMMA DeployedBy == Tile!TypeOK /\ [Tile!Next]_tiles => DeployedOnly
<1> SUFFICES ASSUME Tile!TypeOK, [Tile!Next]_tiles, tile = "revoked", tile' = "deployed"
             PROVE  \/ \E c \in Calls : action[c] = "save" /\ pc[c] # pc'[c]
                    \/ worker \in {"error", "deploying"}
  BY DEF DeployedOnly
<1>0. /\ pc \in [Calls -> {"new", "waiting", "answered", "over"}]
      /\ worker \in {"idle"} \cup Tile!Deployable
  BY DEF Tile!TypeOK
<1>1. ASSUME NEW c \in Calls, Tile!Resumes(c)
      PROVE  action[c] = "save" /\ pc[c] # pc'[c]
  BY <1>0, <1>1 DEF Tile!Resumes, Tile!Forget, Tile!Outcome
<1>2. CASE Tile!WorkerWrites
  BY <1>0, <1>2 DEF Tile!WorkerWrites, Tile!Promoted, Tile!Deployable
<1>3. ASSUME NEW c \in Calls, Tile!Deploy(c) \/ Tile!Revoke(c) \/ Tile!TimesOut(c) PROVE FALSE
  BY <1>3 DEF Tile!Deploy, Tile!Revoke, Tile!TimesOut
<1>4. ASSUME NEW c \in Calls, NEW a \in Tile!Actions, Tile!Refused(c, a) PROVE FALSE
  BY <1>4 DEF Tile!Refused
<1>5. ASSUME NEW tx \in Calls, Tile!OnBridgeResponse(tx) \/ Tile!LosesResponse(tx)
      PROVE  FALSE
  BY <1>5 DEF Tile!OnBridgeResponse, Tile!LosesResponse
<1>6. ASSUME NEW c \in Calls,
             Tile!Saves(c) \/ Tile!Removes(c) \/ Tile!FindsNothing(c) \/ Tile!Fails(c)
      PROVE  FALSE
  BY <1>6 DEF Tile!Saves, Tile!Removes, Tile!FindsNothing, Tile!Fails, Tile!Answers
<1>7. ASSUME Tile!LosesRequest \/ Tile!Beat \/ Tile!WorkerReads \/ Tile!Restart
             \/ UNCHANGED tiles
      PROVE  FALSE
  BY <1>7 DEF Tile!LosesRequest, Tile!Beat, Tile!WorkerReads, Tile!Restart, tiles
<1>8. QED
  BY <1>1, <1>2, <1>3, <1>4, <1>5, <1>6, <1>7 DEF Tile!Next, Tile!CallStep, Tile!Worker

-----------------------------------------------------------------------------
(* The alert evaluator *)

\* The evaluator's position in a pass.
Ticks ==
    [at : {"idle", "next", "judge", "insert", "assign", "close", "renew", "sweep"},
     on : BOOLEAN, values : [Instances -> Alerts!Silent \cup Alerts!Levels],
     todo : SUBSET Instances, cur : Instances \cup {All}, event : 0 .. MaxEvents]

\* The types, and that no event has a number not yet given.
AlertTypes ==
    /\ Alerts!TypeOK /\ tick \in Ticks
    /\ events \in 0 .. MaxEvents
    /\ \A e \in open : e.id <= events

\* The pass has an object's state in its hands.
AtWork == tick.at \in {"judge", "insert", "assign", "close"}

\* A pass that was interrupted by a reset holds the state it took, not the one
\* in the map; else the map has the object it works on.
WorkerHasAnObject ==
    /\ held # Attached => held \in Alerts!PairStates
    /\ AtWork /\ held = Attached => states[tick.cur] # NoState

\* A state that is given an event had none, the event it is given is the
\* object's own, and a state to be renewed has no open event: without these
\* a step of the pass could leave an event that nobody closes.
OwnEvents ==
    /\ tick.at \in {"insert", "assign"} /\ held = Attached =>
         states[tick.cur].event = Alerts!NoEvent
    /\ tick.at = "assign" =>
         /\ tick.event \in 1 .. MaxEvents
         /\ \A e \in open : e.id = tick.event => e.instance = tick.cur
    /\ tick.at = "renew" /\ held = Attached /\ states[tick.cur] # NoState =>
         \A e \in open : e.id # states[tick.cur].event

\* The strengthening with which one step of the worker is shown to strand
\* nothing.
AlertInv == AlertTypes /\ WorkerHasAnObject /\ OwnEvents

\* StrandedOnlyByEdits, of one step.
OnlyEditsStrand ==
    edit' = edit /\ restarts' = restarts /\ held = Attached
        => Alerts!Stranded' \subseteq Alerts!Stranded

\* The evaluator's Min and Max are those of the library.
LEMMA AlertBounds == \A S : Alerts!Min(S) = Min(S) /\ Alerts!Max(S) = Max(S)
BY DEF Alerts!Min, Min, Alerts!Max, Max

\* At the start there are no events.
LEMMA AlertInit == Alerts!Init => AlertInv
<1> SUFFICES ASSUME Alerts!Init PROVE AlertInv
  OBVIOUS
<1>0. Sustain \in Nat /\ ClearSustain \in Nat /\ MaxTotal \in Nat /\ MaxEvents \in Nat
  BY AlertAssumption DEF Alerts!AlertAssumption
<1>1. tick \in Ticks /\ tick.at = "idle"
  BY <1>0 DEF Alerts!Init, Alerts!Idle, Ticks, Alerts!Silent, Alerts!NoEvent
<1>2. Alerts!TypeOK
  BY <1>0, <1>1 DEF Alerts!Init, Alerts!TypeOK, Alerts!Never, Alerts!Absent
<1>3. AlertTypes
  BY <1>0, <1>1, <1>2 DEF Alerts!Init, AlertTypes
<1>4. WorkerHasAnObject /\ OwnEvents
  BY <1>1 DEF Alerts!Init, WorkerHasAnObject, AtWork, OwnEvents
<1>5. QED
  BY <1>3, <1>4 DEF AlertInv

\* A fresh state, one aged by a pass and one whose timer starts are states, and
\* none is one of the two marks that stand for the absence of one.
LEMMA Objects ==
    /\ Alerts!Fresh \in Alerts!PairStates
    /\ Alerts!Fresh.event = Alerts!NoEvent
    /\ \A s \in Alerts!PairStates :
         /\ Alerts!Aged(s) \in Alerts!PairStates /\ Alerts!Aged(s).event = s.event
         /\ Alerts!Started(s.breach) \in 0 .. Sustain
         /\ Alerts!Started(s.ok) \in 0 .. ClearSustain
    /\ Alerts!Aged(NoState) = NoState
    /\ NoState \notin Alerts!PairStates /\ Attached \notin Alerts!PairStates
<1>0. /\ Sustain \in Nat /\ ClearSustain \in Nat /\ MaxEvents \in Nat
      /\ NoState \notin Alerts!PairStates /\ Attached \notin Alerts!PairStates
  BY AlertAssumption, PairAssumption DEF Alerts!AlertAssumption, Alerts!PairAssumption
<1>1. Alerts!Fresh \in Alerts!PairStates /\ Alerts!Fresh.event = Alerts!NoEvent
  BY <1>0 DEF Alerts!Fresh, Alerts!PairStates, Alerts!Never, Alerts!NoEvent, Alerts!Ids
<1>2. ASSUME NEW limit \in Nat, NEW age \in -1 .. limit
      PROVE  Alerts!Older(age, limit) \in -1 .. limit /\ Alerts!Started(age) \in 0 .. limit
  <2>1. CASE age = -1
    BY <2>1 DEF Alerts!Older, Alerts!Started, Alerts!Never
  <2>2. CASE age # -1
    <3>1. age + 1 \in Nat /\ age \in Nat
      BY <2>2
    <3>2. Alerts!Min({age + 1, limit}) = IF age + 1 <= limit THEN age + 1 ELSE limit
      BY <3>1, MinOfTwo, AlertBounds
    <3>3. QED
      BY <2>2, <3>1, <3>2 DEF Alerts!Older, Alerts!Started, Alerts!Never
  <2>3. QED
    BY <2>1, <2>2
<1>3. ASSUME NEW s \in Alerts!PairStates
      PROVE  /\ Alerts!Aged(s) \in Alerts!PairStates /\ Alerts!Aged(s).event = s.event
             /\ Alerts!Started(s.breach) \in 0 .. Sustain
             /\ Alerts!Started(s.ok) \in 0 .. ClearSustain
  <2>1. s.breach \in -1 .. Sustain /\ s.ok \in -1 .. ClearSustain
    BY DEF Alerts!PairStates, Alerts!Never
  <2>2. /\ Alerts!Older(s.breach, Sustain) \in -1 .. Sustain
        /\ Alerts!Older(s.ok, ClearSustain) \in -1 .. ClearSustain
        /\ Alerts!Started(s.breach) \in 0 .. Sustain
        /\ Alerts!Started(s.ok) \in 0 .. ClearSustain
    BY <1>0, <1>2, <2>1
  <2>3. Alerts!Aged(s) = [s EXCEPT !.breach = Alerts!Older(s.breach, Sustain),
                                   !.ok = Alerts!Older(s.ok, ClearSustain)]
    BY <1>0 DEF Alerts!Aged, Alerts!PairStates
  <2>4. QED
    BY <2>2, <2>3 DEF Alerts!PairStates, Alerts!Never
<1>4. QED
  BY <1>0, <1>1, <1>3 DEF Alerts!Aged

\* A pass, the requests that interrupt it, the failures that end it early and a
\* restart all keep the invariant.
LEMMA AlertStep == AlertInv /\ [Alerts!Next]_alerts => AlertInv'
<1> SUFFICES ASSUME AlertInv, [Alerts!Next]_alerts PROVE AlertInv'
  OBVIOUS
<1> USE DEF Alerts!workerVars, Alerts!apiVars, Alerts!metricVars, Alerts!bounds,
            Alerts!NoEvent, AtWork
<1>0. /\ AlertTypes /\ WorkerHasAnObject /\ OwnEvents
      /\ MaxTotal \in Nat /\ MaxEvents \in Nat
  BY AlertAssumption DEF AlertInv, Alerts!AlertAssumption
<1>t. /\ kind \in {"gauge", "counter"}
      /\ rule \in [status : {"absent", "on", "off", "deleted"}, watch : Instances \cup {All}]
      /\ open \in SUBSET [id : 1 .. MaxEvents, instance : Instances]
      /\ states \in [Instances -> Alerts!PairStates \cup {NoState}]
      /\ total \in [Instances -> 0 .. MaxTotal]
      /\ baseline \in [Instances -> -1 .. MaxTotal]
      /\ tick \in Ticks
      /\ (tick.at \in {"judge", "insert", "assign", "close", "renew"} => tick.cur \in Instances)
      /\ held \in Alerts!PairStates \cup {Attached}
      /\ edit \in {"idle", "disabling", "deleting", "resetting", "forgetting"}
      /\ events \in 0 .. MaxEvents /\ \A e \in open : e.id <= events
  BY <1>0 DEF AlertTypes, Alerts!TypeOK, Alerts!Ids, Alerts!Never, Alerts!Absent
<1>y. ASSUME kind' \in {"gauge", "counter"},
             rule' \in [status : {"absent", "on", "off", "deleted"},
                        watch : Instances \cup {All}],
             open' \in SUBSET [id : 1 .. MaxEvents, instance : Instances],
             states' \in [Instances -> Alerts!PairStates \cup {NoState}],
             total' \in [Instances -> 0 .. MaxTotal],
             baseline' \in [Instances -> -1 .. MaxTotal],
             tick' \in Ticks,
             tick'.at \in {"judge", "insert", "assign", "close", "renew"}
               => tick'.cur \in Instances,
             held' \in Alerts!PairStates \cup {Attached},
             edit' \in {"idle", "disabling", "deleting", "resetting", "forgetting"},
             events' \in 0 .. MaxEvents, \A e \in open' : e.id <= events'
      PROVE  AlertTypes'
  BY <1>y DEF AlertTypes, Alerts!TypeOK, Alerts!Ids, Alerts!Never, Alerts!Absent, Ticks
<1>o. Alerts!Fresh \in Alerts!PairStates /\ Alerts!Fresh.event = 0
  BY Objects
<1>m. ASSUME AtWork
      PROVE  /\ tick.cur \in Instances /\ Alerts!Mine \in Alerts!PairStates
             /\ Alerts!Mine.event \in 0 .. MaxEvents
             /\ Alerts!Started(Alerts!Mine.breach) \in 0 .. Sustain
             /\ Alerts!Started(Alerts!Mine.ok) \in 0 .. ClearSustain
  <2>1. tick.cur \in Instances /\ Alerts!Mine \in Alerts!PairStates
    BY <1>0, <1>t, <1>m DEF WorkerHasAnObject, Alerts!Mine
  <2>2. QED
    <3>1. \A s \in Alerts!PairStates : s.event \in 0 .. MaxEvents
      BY <1>0 DEF Alerts!PairStates, Alerts!Ids
    <3>2. QED
      BY <2>1, <3>1, Objects
<1>b. ASSUME AtWork, NEW s \in Alerts!PairStates, Alerts!Becomes(s)
      PROVE  /\ states' \in [Instances -> Alerts!PairStates \cup {NoState}]
             /\ held' \in Alerts!PairStates \cup {Attached}
             /\ held' = Attached <=> held = Attached
             /\ held = Attached => states'[tick.cur] = s
  BY <1>t, <1>b, <1>m, Objects DEF Alerts!Becomes
<1>g. ASSUME NEW at \in {"idle", "next", "judge", "insert", "assign", "close", "renew",
                         "sweep"}, Alerts!GoTo(at)
      PROVE  /\ tick' \in Ticks /\ tick'.at = at /\ tick'.cur = tick.cur
             /\ tick'.event = tick.event
  BY <1>t, <1>g DEF Alerts!GoTo, Ticks
<1>i. Alerts!Idle \in Ticks /\ Alerts!Idle.at = "idle"
  BY <1>0 DEF Alerts!Idle, Ticks, Alerts!Silent
<1>q. ASSUME tick'.at \notin {"judge", "insert", "assign", "close", "renew"},
             held' \in Alerts!PairStates \cup {Attached}
      PROVE  WorkerHasAnObject' /\ OwnEvents'
  BY <1>q DEF WorkerHasAnObject, OwnEvents
<1>1. CASE Alerts!Edit \/ Alerts!Delete
  <2>1. /\ rule' \in [status : {"absent", "on", "off", "deleted"},
                      watch : Instances \cup {All}]
        /\ edit' \in {"idle", "disabling", "deleting", "resetting", "forgetting"}
    BY <1>t, <1>1 DEF Alerts!Edit, Alerts!Delete
  <2>2. UNCHANGED <<kind, open, states, total, baseline, tick, held, events>>
    BY <1>1 DEF Alerts!Edit, Alerts!Delete
  <2>3. AlertTypes'
    BY <1>t, <1>y, <2>1, <2>2
  <2>4. QED
    BY <1>0, <2>2, <2>3 DEF AlertInv, WorkerHasAnObject, OwnEvents
<1>2. CASE Alerts!CloseRows
  <2>1. /\ open' = {} /\ UNCHANGED <<kind, rule, states, total, baseline, tick, held, events>>
        /\ edit' \in {"idle", "disabling", "deleting", "resetting", "forgetting"}
    BY <1>2 DEF Alerts!CloseRows
  <2>2. AlertTypes'
    BY <1>t, <1>y, <2>1
  <2>3. QED
    BY <1>0, <2>1, <2>2 DEF AlertInv, WorkerHasAnObject, OwnEvents
<1>r. ASSUME NEW new \in [Instances -> Alerts!PairStates \cup {NoState}],
             \A i \in Instances : new[i] \in {states[i], Alerts!Fresh, NoState},
             Alerts!Replace(new), edit' = "idle",
             UNCHANGED <<kind, rule, open, total, baseline, tick, events>>
      PROVE  AlertInv'
  <2>1. held' \in Alerts!PairStates \cup {Attached}
    BY <1>0, <1>t, <1>r DEF Alerts!Replace, WorkerHasAnObject
  <2>2. AlertTypes'
    BY <1>t, <1>y, <1>r, <2>1 DEF Alerts!Replace
  <2>3. WorkerHasAnObject'
    BY <1>0, <1>t, <1>r, <2>1, Objects DEF Alerts!Replace, WorkerHasAnObject
  <2>4. OwnEvents'
    <3>1. ASSUME tick'.at \in {"insert", "assign"}, held' = Attached
          PROVE  states'[tick'.cur].event = 0
      BY <1>0, <1>t, <1>r, <3>1, Objects DEF Alerts!Replace, OwnEvents, WorkerHasAnObject
    <3>2. ASSUME tick'.at = "renew", held' = Attached, states'[tick'.cur] # NoState,
                 NEW e \in open'
          PROVE  e.id # states'[tick'.cur].event
      <4>1. held = Attached /\ tick.cur \in Instances /\ e.id \in 1 .. MaxEvents
        BY <1>t, <1>r, <3>2 DEF Alerts!Replace
      <4>2. CASE new[tick.cur] = states[tick.cur]
        BY <1>0, <1>r, <3>2, <4>1, <4>2 DEF Alerts!Replace, OwnEvents
      <4>3. CASE new[tick.cur] = Alerts!Fresh
        BY <1>o, <1>r, <3>2, <4>1, <4>3 DEF Alerts!Replace
      <4>4. QED
        BY <1>r, <3>2, <4>1, <4>2, <4>3 DEF Alerts!Replace
    <3>3. tick'.at = "assign" =>
            /\ tick'.event \in 1 .. MaxEvents
            /\ \A e \in open' : e.id = tick'.event => e.instance = tick'.cur
      BY <1>0, <1>r DEF OwnEvents
    <3>4. QED
      BY <3>1, <3>2, <3>3 DEF OwnEvents
  <2>5. QED
    BY <2>2, <2>3, <2>4 DEF AlertInv
<1>3. CASE Alerts!ResetStates \/ Alerts!ResetRaises
  <2>1. /\ edit' = "idle"
        /\ UNCHANGED <<kind, rule, open, total, baseline, tick, events>>
    BY <1>3 DEF Alerts!ResetStates, Alerts!ResetRaises
  <2>2. \A keys : /\ Alerts!Emptied(keys) \in [Instances -> Alerts!PairStates \cup {NoState}]
                  /\ \A i \in Instances :
                       Alerts!Emptied(keys)[i] \in {states[i], Alerts!Fresh, NoState}
    BY <1>o, <1>t DEF Alerts!Emptied
  <2>3. CASE Alerts!ResetStates
    <3>1. CASE Alerts!Replace([i \in Instances |-> NoState])
      BY <1>r, <2>1, <3>1
    <3>2. CASE \E keys : Alerts!Replace(Alerts!Emptied(keys))
      BY <1>r, <2>1, <2>2, <3>2
    <3>3. QED
      BY <2>3, <3>1, <3>2 DEF Alerts!ResetStates
  <2>4. CASE Alerts!ResetRaises
    <3>1. PICK keys : Alerts!Replace(Alerts!Emptied(keys))
      BY <2>4 DEF Alerts!ResetRaises
    <3>2. QED
      BY <1>r, <2>1, <2>2, <3>1
  <2>5. QED
    BY <1>3, <2>3, <2>4
<1>4. CASE Alerts!StartPass
  <2>1. PICK report \in IF rule.status = "on" THEN Alerts!Reports ELSE {Alerts!Idle.values} :
          /\ tick' = [Alerts!Idle EXCEPT
               !.at = "next", !.on = rule.status = "on",
               !.values = [i \in Instances |-> Alerts!Value(report, i)],
               !.todo = IF rule.status # "on" THEN {}
                        ELSE {i \in Alerts!Watched : rule.watch # All \/ report[i] # "absent"}]
          /\ baseline' = [i \in Instances |->
               IF report[i] = "total" THEN total[i] ELSE baseline[i]]
    BY <1>4 DEF Alerts!StartPass
  <2>2. /\ states' = [i \in Instances |-> Alerts!Aged(states[i])] /\ held' = Attached
        /\ UNCHANGED <<kind, rule, open, total, edit, events>>
    BY <1>4 DEF Alerts!StartPass
  <2>3. \A i \in Instances :
          Alerts!Value(report, i) \in Alerts!Silent \cup Alerts!Levels
    <3>1. \A i \in Instances :
            report[i] \in Alerts!Silent \cup Alerts!Levels \cup {"total"}
      BY DEF Alerts!Reports, Alerts!Idle, Alerts!Silent, Alerts!Levels
    <3>2. QED
      BY <3>1 DEF Alerts!Value, Alerts!Delta, Alerts!Silent, Alerts!Levels
  <2>4. tick' \in Ticks /\ tick'.at = "next"
    <3>1. {i \in Alerts!Watched : rule.watch # All \/ report[i] # "absent"}
            \in SUBSET Instances
      BY <1>t DEF Alerts!Watched
    <3>2. [i \in Instances |-> Alerts!Value(report, i)]
            \in [Instances -> Alerts!Silent \cup Alerts!Levels]
      BY <2>3
    <3> DEFINE on == rule.status = "on"
               values == [i \in Instances |-> Alerts!Value(report, i)]
               todo == IF rule.status # "on" THEN {}
                       ELSE {i \in Alerts!Watched : rule.watch # All \/ report[i] # "absent"}
    <3>3. on \in BOOLEAN /\ todo \in SUBSET Instances
          /\ values \in [Instances -> Alerts!Silent \cup Alerts!Levels]
      BY <3>1, <3>2
    <3>4. tick' = [Alerts!Idle EXCEPT !.at = "next", !.on = on, !.values = values,
                                      !.todo = todo]
      BY <2>1
    <3> HIDE DEF on, values, todo
    <3>5. QED
      BY <1>i, <3>3, <3>4 DEF Ticks
  <2>5. baseline' \in [Instances -> -1 .. MaxTotal]
    BY <1>t, <2>1
  <2>6. states' \in [Instances -> Alerts!PairStates \cup {NoState}]
    BY <1>t, <2>2, Objects
  <2>7. AlertTypes'
    BY <1>t, <1>y, <2>2, <2>4, <2>5, <2>6
  <2>8. QED
    BY <1>q, <2>2, <2>4, <2>7 DEF AlertInv
<1>5. ASSUME NEW i \in Instances, Alerts!Take(i) PROVE AlertInv'
  <2>1. /\ i \in tick.todo
        /\ tick' = [tick EXCEPT !.todo = @ \ {i}, !.cur = i,
                      !.at = IF tick.values[i] \in Alerts!Silent THEN "next" ELSE "judge"]
        /\ states' = [states EXCEPT ![i] = IF @ = NoState THEN Alerts!Fresh ELSE @]
        /\ held' = Attached
        /\ UNCHANGED <<kind, rule, open, total, baseline, edit, events>>
    BY <1>5 DEF Alerts!Take
  <2>2. tick' \in Ticks /\ tick'.at \in {"next", "judge"} /\ tick'.cur = i
    BY <1>t, <2>1 DEF Ticks
  <2>3. /\ states' \in [Instances -> Alerts!PairStates \cup {NoState}]
        /\ states'[i] # NoState
    BY <1>t, <2>1, Objects
  <2>4. AlertTypes'
    BY <1>t, <1>y, <2>1, <2>2, <2>3
  <2>5. QED
    BY <2>1, <2>2, <2>3, <2>4 DEF AlertInv, WorkerHasAnObject, OwnEvents
<1>6. CASE Alerts!JudgeQuiet
  <2>1. /\ AtWork /\ Alerts!Mine.event = 0
        /\ UNCHANGED <<kind, rule, open, total, baseline, edit, events>>
    BY <1>6 DEF Alerts!JudgeQuiet
  <2>2. PICK s \in Alerts!PairStates, at \in {"next", "insert"} :
          Alerts!Becomes(s) /\ Alerts!GoTo(at) /\ s.event = 0
    <3>1. CASE tick.values[tick.cur] # "breached"
      BY <1>6, <1>o, <3>1 DEF Alerts!JudgeQuiet
    <3>2. CASE tick.values[tick.cur] = "breached"
      <4> DEFINE s == [Alerts!Fresh EXCEPT !.breach = Alerts!Started(Alerts!Mine.breach)]
      <4>1. s \in Alerts!PairStates /\ s.event = 0
        BY <1>m, <1>o, <2>1 DEF Alerts!PairStates, Alerts!Never
      <4>2. /\ Alerts!Becomes(s)
            /\ Alerts!GoTo(IF Alerts!Due(Alerts!Mine) THEN "insert" ELSE "next")
        BY <1>6, <3>2 DEF Alerts!JudgeQuiet
      <4> HIDE DEF s
      <4>3. QED
        BY <4>1, <4>2
    <3>3. QED
      BY <3>1, <3>2
  <2>3. AlertTypes'
    BY <1>b, <1>g, <1>m, <1>t, <1>y, <2>1, <2>2
  <2>4. WorkerHasAnObject' /\ OwnEvents'
    BY <1>b, <1>g, <2>1, <2>2, Objects DEF WorkerHasAnObject, OwnEvents
  <2>5. QED
    BY <2>3, <2>4 DEF AlertInv
<1>7. CASE Alerts!JudgeOpen
  <2>1. /\ AtWork /\ UNCHANGED <<kind, rule, open, total, baseline, edit, events>>
    BY <1>7 DEF Alerts!JudgeOpen
  <2>2. PICK s \in Alerts!PairStates, at \in {"next", "close"} :
          Alerts!Becomes(s) /\ Alerts!GoTo(at)
    <3>1. /\ [Alerts!Mine EXCEPT !.ok = Alerts!Never] \in Alerts!PairStates
          /\ [Alerts!Mine EXCEPT !.ok = Alerts!Started(@)] \in Alerts!PairStates
      BY <1>m, <2>1, AlertAssumption
         DEF Alerts!PairStates, Alerts!Never, Alerts!AlertAssumption
    <3>2. QED
      BY <1>7, <3>1 DEF Alerts!JudgeOpen
  <2>3. AlertTypes'
    BY <1>b, <1>g, <1>m, <1>t, <1>y, <2>1, <2>2
  <2>4. WorkerHasAnObject' /\ OwnEvents'
    BY <1>b, <1>g, <2>1, <2>2, Objects DEF WorkerHasAnObject, OwnEvents
  <2>5. QED
    BY <2>3, <2>4 DEF AlertInv
<1>8. CASE Alerts!Insert
  <2>1. /\ tick.at = "insert" /\ events < MaxEvents /\ events' = events + 1
        /\ open' = open \cup {[id |-> events', instance |-> tick.cur]}
        /\ tick' = [tick EXCEPT !.at = "assign", !.event = events']
        /\ UNCHANGED <<kind, rule, states, total, baseline, held, edit>>
    BY <1>8 DEF Alerts!Insert
  <2>2. events' \in 1 .. MaxEvents /\ events' \in 0 .. MaxEvents /\ tick.cur \in Instances
    BY <1>0, <1>t, <2>1
  <2>3. /\ tick' \in Ticks /\ tick'.at = "assign" /\ tick'.cur = tick.cur
        /\ tick'.event = events'
    BY <1>t, <2>1, <2>2 DEF Ticks
  <2>4. \A e \in open : e.id \in 1 .. MaxEvents /\ e.id <= events
    BY <1>t
  <2>5. \A e \in open : e.id # events' /\ e.id <= events'
    BY <1>t, <2>1, <2>4
  <2>6. open' \in SUBSET [id : 1 .. MaxEvents, instance : Instances]
        /\ \A e \in open' : e.id <= events'
    BY <1>t, <2>1, <2>2, <2>5
  <2>7. AlertTypes'
    BY <1>t, <1>y, <2>1, <2>2, <2>3, <2>6
  <2>8. WorkerHasAnObject' /\ OwnEvents'
    BY <1>0, <2>1, <2>2, <2>3, <2>5 DEF WorkerHasAnObject, OwnEvents
  <2>9. QED
    BY <2>7, <2>8 DEF AlertInv
<1>9. CASE Alerts!Assign
  <2>1. /\ AtWork /\ Alerts!GoTo("next")
        /\ Alerts!Becomes([Alerts!Mine EXCEPT !.event = tick.event, !.breach = Alerts!Never])
        /\ UNCHANGED <<kind, rule, open, total, baseline, edit, events>>
    BY <1>9 DEF Alerts!Assign
  <2>2. [Alerts!Mine EXCEPT !.event = tick.event, !.breach = Alerts!Never]
          \in Alerts!PairStates
    <3>1. tick.event \in {0} \cup 1 .. MaxEvents /\ -1 \in -1 .. Sustain
      BY <1>0, <1>9, AlertAssumption DEF Alerts!Assign, OwnEvents, Alerts!AlertAssumption
    <3>2. Alerts!Mine \in Alerts!PairStates
      BY <1>m, <2>1
    <3>3. QED
      BY <3>1, <3>2 DEF Alerts!PairStates, Alerts!Ids, Alerts!Never
  <2>3. AlertTypes'
    BY <1>b, <1>g, <1>t, <1>y, <2>1, <2>2
  <2>4. QED
    BY <1>b, <1>g, <1>q, <2>1, <2>2, <2>3 DEF AlertInv
<1>10. CASE Alerts!CloseEvent
  <2>1. /\ tick.at = "close" /\ open' = {e \in open : e.id # Alerts!Mine.event}
        /\ Alerts!GoTo("renew")
        /\ UNCHANGED <<kind, rule, states, total, baseline, held, edit, events>>
    BY <1>10 DEF Alerts!CloseEvent, Alerts!ClosedOf
  <2>2. /\ tick' \in Ticks /\ tick'.at = "renew" /\ tick'.cur = tick.cur
        /\ tick.cur \in Instances
    BY <1>g, <1>t, <2>1
  <2>3. AlertTypes'
    BY <1>t, <1>y, <2>1, <2>2
  <2>4. WorkerHasAnObject' /\ OwnEvents'
    BY <1>0, <2>1, <2>2 DEF WorkerHasAnObject, OwnEvents, Alerts!Mine
  <2>5. QED
    BY <2>3, <2>4 DEF AlertInv
<1>11. CASE Alerts!Renew
  <2>1. /\ states' = [states EXCEPT ![tick.cur] = Alerts!Fresh] /\ held' = Attached
        /\ Alerts!GoTo(IF tick.todo = {} /\ ~tick.on THEN "sweep" ELSE "next")
        /\ UNCHANGED <<kind, rule, open, total, baseline, edit, events>>
    BY <1>11 DEF Alerts!Renew
  <2>2. tick' \in Ticks /\ tick'.at \in {"sweep", "next"}
    BY <1>g, <2>1
  <2>3. AlertTypes'
    BY <1>o, <1>t, <1>y, <2>1, <2>2
  <2>4. QED
    BY <1>q, <2>1, <2>2, <2>3 DEF AlertInv
<1>12. ASSUME NEW i \in Instances, Alerts!Sweep(i) PROVE AlertInv'
  <2>1. /\ tick' = [tick EXCEPT !.at = "close", !.cur = i] /\ held' = Attached
        /\ states[i] # NoState
        /\ UNCHANGED <<kind, rule, open, states, total, baseline, edit, events>>
    BY <1>12 DEF Alerts!Sweep, Alerts!Leftover, Alerts!HasEvent
  <2>2. tick' \in Ticks /\ tick'.at = "close" /\ tick'.cur = i
    BY <1>t, <2>1 DEF Ticks
  <2>3. AlertTypes'
    BY <1>t, <1>y, <2>1, <2>2
  <2>4. QED
    BY <2>1, <2>2, <2>3 DEF AlertInv, WorkerHasAnObject, OwnEvents
<1>13. CASE Alerts!EndPass \/ Alerts!PassFails
  <2>1. /\ tick' = Alerts!Idle /\ held' = Attached
        /\ UNCHANGED <<kind, rule, open, states, total, baseline, edit, events>>
    BY <1>13 DEF Alerts!EndPass, Alerts!PassFails
  <2>2. AlertTypes'
    BY <1>i, <1>t, <1>y, <2>1
  <2>3. QED
    BY <1>i, <1>q, <2>1, <2>2 DEF AlertInv
<1>14. ASSUME NEW i \in Instances, Alerts!Counts(i) PROVE AlertInv'
  <2>1. /\ total' = [total EXCEPT ![i] = @ + 1] /\ total[i] < MaxTotal
        /\ UNCHANGED <<kind, rule, open, states, baseline, tick, held, edit, events>>
    BY <1>14 DEF Alerts!Counts
  <2>2. total' \in [Instances -> 0 .. MaxTotal]
    BY <1>0, <1>t, <2>1
  <2>3. AlertTypes'
    BY <1>t, <1>y, <2>1, <2>2
  <2>4. QED
    BY <1>0, <2>1, <2>3 DEF AlertInv, WorkerHasAnObject, OwnEvents
<1>15. CASE Alerts!Restart
  <2>1. /\ states' = [i \in Instances |->
             LET mine == {e.id : e \in {e \in open : e.instance = i}}
             IN IF mine = {} THEN NoState
                ELSE [Alerts!Fresh EXCEPT !.event = Alerts!Max(mine)]]
        /\ total' = [i \in Instances |-> 0] /\ baseline' = [i \in Instances |-> -1]
        /\ tick' = Alerts!Idle /\ held' = Attached /\ edit' = "idle"
        /\ UNCHANGED <<kind, rule, open, events>>
    BY <1>15 DEF Alerts!Restart, Alerts!Never
  <2>2. ASSUME NEW i \in Instances PROVE states'[i] \in Alerts!PairStates \cup {NoState}
    <3> DEFINE mine == {e.id : e \in {e \in open : e.instance = i}}
    <3>1. states'[i] = IF mine = {} THEN NoState
                       ELSE [Alerts!Fresh EXCEPT !.event = Alerts!Max(mine)]
      BY <2>1
    <3>2. \A n \in mine : n \in 1 .. MaxEvents /\ n \in 0 .. MaxEvents
      BY <1>t
    <3> HIDE DEF mine
    <3>3. mine # {} => Alerts!Max(mine) \in mine
      BY <1>0, <3>2, MaxOf, AlertBounds
    <3>4. QED
      BY <1>o, <3>1, <3>2, <3>3 DEF Alerts!PairStates, Alerts!Ids
  <2>3. states' \in [Instances -> Alerts!PairStates \cup {NoState}]
    BY <2>1, <2>2
  <2>4. AlertTypes'
    <3>1. total' \in [Instances -> 0 .. MaxTotal]
          /\ baseline' \in [Instances -> -1 .. MaxTotal]
      BY <1>0, <2>1
    <3>2. QED
      BY <1>i, <1>t, <1>y, <2>1, <2>3, <3>1
  <2>5. QED
    BY <1>i, <1>q, <2>1, <2>4 DEF AlertInv
<1>16. CASE UNCHANGED alerts
  <2>1. UNCHANGED <<kind, rule, open, states, total, baseline, tick, held, edit, events>>
    BY <1>16 DEF alerts
  <2>2. AlertTypes'
    BY <1>t, <1>y, <2>1
  <2>3. QED
    BY <1>0, <2>1, <2>2 DEF AlertInv, WorkerHasAnObject, OwnEvents
<1>17. QED
  BY <1>1, <1>2, <1>3, <1>4, <1>5, <1>6, <1>7, <1>8, <1>9, <1>10, <1>11, <1>12, <1>13,
     <1>14, <1>15, <1>16 DEF Alerts!Next, Alerts!Worker, Alerts!Api

\* The number of restarts stays a number.
LEMMA RestartsCounted == restarts \in Nat /\ [Alerts!Next]_alerts => restarts' \in Nat
<1> SUFFICES ASSUME restarts \in Nat, [Alerts!Next]_alerts PROVE restarts' \in Nat
  OBVIOUS
<1>1. restarts' = restarts \/ restarts' = restarts + 1
  BY DEF Alerts!Next, Alerts!Worker, Alerts!Api, alerts, Alerts!bounds,
     Alerts!Edit, Alerts!Delete, Alerts!CloseRows, Alerts!ResetStates, Alerts!ResetRaises,
     Alerts!StartPass, Alerts!Take, Alerts!JudgeQuiet, Alerts!JudgeOpen, Alerts!Insert,
     Alerts!Assign, Alerts!CloseEvent, Alerts!Renew, Alerts!Sweep, Alerts!EndPass,
     Alerts!PassFails, Alerts!Counts, Alerts!Restart
<1>2. QED
  BY <1>1

\* The count of restarts, by which a step that restarts differs from a stutter.
Counted == restarts \in Nat

\* One case per step of the evaluator: each that closes or forgets a state also
\* closes its event, unless an edit took the state from the map.
LEMMA StrandedBy ==
    AlertInv /\ Counted /\ [Alerts!Next]_alerts => OnlyEditsStrand
<1> SUFFICES ASSUME AlertInv, Counted, [Alerts!Next]_alerts,
                    edit' = edit, restarts' = restarts, held = Attached
             PROVE  Alerts!Stranded' \subseteq Alerts!Stranded
  BY DEF OnlyEditsStrand
<1> USE DEF Alerts!workerVars, Alerts!apiVars, Alerts!metricVars, Alerts!bounds,
            Alerts!NoEvent, AtWork
<1>t. /\ open \in SUBSET [id : 1 .. MaxEvents, instance : Instances]
      /\ states \in [Instances -> Alerts!PairStates \cup {NoState}]
      /\ tick \in Ticks
      /\ (tick.at \in {"judge", "insert", "assign", "close", "renew"} => tick.cur \in Instances)
      /\ WorkerHasAnObject /\ OwnEvents
  BY DEF AlertInv, AlertTypes, Alerts!TypeOK, Alerts!Ids
<1>k. ASSUME \A e \in open' : e \in open /\ (Alerts!Referenced(e) => Alerts!Referenced(e)')
      PROVE  Alerts!Stranded' \subseteq Alerts!Stranded
  BY <1>k DEF Alerts!Stranded
<1>e. \A e \in open : e.instance \in Instances /\ e.id \in 1 .. MaxEvents
  BY <1>t
<1>r. ASSUME NEW e \in open
      PROVE  Alerts!Referenced(e) <=>
               \/ states[e.instance] # NoState /\ states[e.instance].event = e.id
               \/ tick.at = "assign" /\ tick.event = e.id
  BY DEF Alerts!Referenced
<1>i. Alerts!Idle.at = "idle"
  BY DEF Alerts!Idle
<1>u. ASSUME NEW e, states[e.instance] # NoState, states[e.instance].event = e.id,
             states'[e.instance] # NoState,
             states'[e.instance].event = states[e.instance].event
      PROVE  Alerts!Referenced(e)'
  BY <1>u DEF Alerts!Referenced
<1>o. Alerts!Fresh.event = 0 /\ Alerts!Fresh # NoState
  BY Objects
<1>j. ASSUME tick.at \in {"judge", "insert", "assign", "close"}
      PROVE  /\ Alerts!Mine = states[tick.cur] /\ tick.cur \in Instances
             /\ states[tick.cur] \in Alerts!PairStates
  BY <1>t, <1>j DEF Alerts!Mine, WorkerHasAnObject
<1>b. ASSUME tick.at \in {"judge", "assign"}, NEW s \in Alerts!PairStates,
             Alerts!Becomes(s)
      PROVE  states' = [states EXCEPT ![tick.cur] = s] /\ s # NoState
  BY <1>b, Objects DEF Alerts!Becomes
<1>1. CASE Alerts!StartPass
  <2>1. /\ states' = [i \in Instances |-> Alerts!Aged(states[i])] /\ open' = open
        /\ tick.at = "idle"
    BY <1>1 DEF Alerts!StartPass
  <2>2. ASSUME NEW e \in open, Alerts!Referenced(e) PROVE Alerts!Referenced(e)'
    <3>1. /\ states[e.instance] \in Alerts!PairStates /\ states[e.instance].event = e.id
          /\ states'[e.instance] = Alerts!Aged(states[e.instance])
      BY <1>e, <1>r, <1>t, <2>1, <2>2
    <3>2. QED
      BY <1>u, <3>1, Objects
  <2>3. QED
    BY <1>k, <2>1, <2>2
<1>2. ASSUME NEW i \in Instances, Alerts!Take(i)
      PROVE  Alerts!Stranded' \subseteq Alerts!Stranded
  <2>1. /\ states' = [states EXCEPT ![i] = IF @ = NoState THEN Alerts!Fresh ELSE @]
        /\ open' = open /\ tick.at = "next"
    BY <1>2 DEF Alerts!Take
  <2>2. ASSUME NEW e \in open, Alerts!Referenced(e) PROVE Alerts!Referenced(e)'
    <3>1. /\ states[e.instance] # NoState /\ states[e.instance].event = e.id
          /\ states'[e.instance] = states[e.instance]
      BY <1>e, <1>r, <1>t, <2>1, <2>2
    <3>2. QED
      BY <1>u, <3>1
  <2>3. QED
    BY <1>k, <2>1, <2>2
<1>3. ASSUME tick.at = "judge", open' = open, NEW s \in Alerts!PairStates,
             Alerts!Becomes(s), s.event = Alerts!Mine.event
      PROVE  Alerts!Stranded' \subseteq Alerts!Stranded
  <2>1. /\ states' = [states EXCEPT ![tick.cur] = s] /\ s # NoState
        /\ s.event = states[tick.cur].event
    BY <1>b, <1>j, <1>3
  <2>2. ASSUME NEW e \in open, Alerts!Referenced(e) PROVE Alerts!Referenced(e)'
    <3>1. /\ states[e.instance] # NoState /\ states[e.instance].event = e.id
          /\ states'[e.instance] # NoState
          /\ states'[e.instance].event = states[e.instance].event
      BY <1>e, <1>j, <1>r, <1>t, <1>3, <2>1, <2>2
    <3>2. QED
      BY <1>u, <3>1
  <2>3. QED
    BY <1>k, <1>3, <2>2
<1>4. CASE Alerts!JudgeQuiet
  <2> DEFINE s == [Alerts!Fresh EXCEPT !.breach = Alerts!Started(Alerts!Mine.breach)]
  <2>1. tick.at = "judge" /\ open' = open /\ Alerts!Mine.event = 0
    BY <1>4 DEF Alerts!JudgeQuiet
  <2>2. s \in Alerts!PairStates /\ s.event = 0
    BY <1>j, <2>1, Objects DEF Alerts!PairStates, Alerts!Never
  <2>3. Alerts!Becomes(Alerts!Fresh) \/ Alerts!Becomes(s)
    BY <1>4 DEF Alerts!JudgeQuiet
  <2> HIDE DEF s
  <2>4. QED
    BY <1>3, <1>o, <2>1, <2>2, <2>3, Objects
<1>5. CASE Alerts!JudgeOpen
  <2> DEFINE r == [Alerts!Mine EXCEPT !.ok = Alerts!Never]
             s == [Alerts!Mine EXCEPT !.ok = Alerts!Started(@)]
  <2>1. tick.at = "judge" /\ open' = open
    BY <1>5 DEF Alerts!JudgeOpen
  <2>2. /\ r \in Alerts!PairStates /\ r.event = Alerts!Mine.event
        /\ s \in Alerts!PairStates /\ s.event = Alerts!Mine.event
    BY <1>j, <2>1, Objects, AlertAssumption
       DEF Alerts!PairStates, Alerts!Never, Alerts!AlertAssumption
  <2>3. Alerts!Becomes(r) \/ Alerts!Becomes(s)
    BY <1>5 DEF Alerts!JudgeOpen
  <2> HIDE DEF r, s
  <2>4. QED
    BY <1>3, <2>1, <2>2, <2>3
<1>6. CASE Alerts!Insert
  <2>1. /\ tick.at = "insert" /\ UNCHANGED <<states, held>>
        /\ open' = open \cup {[id |-> events', instance |-> tick.cur]}
        /\ tick' = [tick EXCEPT !.at = "assign", !.event = events']
    BY <1>6 DEF Alerts!Insert
  <2>2. tick'.at = "assign" /\ tick'.event = events'
    BY <1>t, <2>1 DEF Ticks
  <2>3. ASSUME NEW e \in open', ~Alerts!Referenced(e)'
        PROVE  e \in open /\ ~Alerts!Referenced(e)
    BY <1>r, <2>1, <2>2, <2>3 DEF Alerts!Referenced
  <2>4. QED
    BY <2>3 DEF Alerts!Stranded
<1>7. CASE Alerts!Assign
  <2> DEFINE s == [Alerts!Mine EXCEPT !.event = tick.event, !.breach = Alerts!Never]
  <2>1. tick.at = "assign" /\ open' = open /\ Alerts!Becomes(s)
    BY <1>7 DEF Alerts!Assign
  <2>2. s \in Alerts!PairStates /\ s.event = tick.event
    <3>1. tick.event \in {0} \cup 1 .. MaxEvents /\ -1 \in -1 .. Sustain
      BY <1>t, <2>1, AlertAssumption DEF OwnEvents, Alerts!AlertAssumption
    <3>2. Alerts!Mine \in Alerts!PairStates
      BY <1>j, <2>1
    <3>3. QED
      BY <3>1, <3>2 DEF Alerts!PairStates, Alerts!Ids, Alerts!Never
  <2> HIDE DEF s
  <2>3. states' = [states EXCEPT ![tick.cur] = s] /\ s # NoState
    BY <1>b, <2>1, <2>2
  <2>4. ASSUME NEW e \in open, Alerts!Referenced(e) PROVE Alerts!Referenced(e)'
    <3>1. CASE tick.event = e.id
      <4>1. e.instance = tick.cur /\ tick.cur \in Instances
        BY <1>e, <1>t, <2>1, <3>1 DEF OwnEvents
      <4>2. states'[e.instance] = s
        BY <1>t, <2>3, <4>1
      <4>3. QED
        BY <2>2, <2>3, <3>1, <4>2 DEF Alerts!Referenced
    <3>2. CASE tick.event # e.id
      <4>1. states[e.instance] # NoState /\ states[e.instance].event = e.id
        BY <1>r, <2>4, <3>2
      <4>2. e.instance # tick.cur
        BY <1>e, <1>t, <2>1, <4>1 DEF OwnEvents
      <4>3. states'[e.instance] = states[e.instance]
        BY <1>e, <1>t, <2>3, <4>2
      <4>4. QED
        BY <1>u, <4>1, <4>3
    <3>3. QED
      BY <3>1, <3>2
  <2>5. QED
    BY <1>k, <2>1, <2>4
<1>s. ASSUME open' \subseteq open, states' = states, tick.at # "assign"
      PROVE  Alerts!Stranded' \subseteq Alerts!Stranded
  <2>1. ASSUME NEW e \in open', Alerts!Referenced(e) PROVE Alerts!Referenced(e)'
    BY <1>r, <1>s, <1>u, <2>1
  <2>2. QED
    BY <1>k, <1>s, <2>1
<1>8. CASE Alerts!CloseEvent
  BY <1>s, <1>8 DEF Alerts!CloseEvent
<1>9. CASE Alerts!Renew
  <2>1. /\ tick.at = "renew" /\ states' = [states EXCEPT ![tick.cur] = Alerts!Fresh]
        /\ open' = open
    BY <1>9 DEF Alerts!Renew
  <2>2. ASSUME NEW e \in open, Alerts!Referenced(e) PROVE Alerts!Referenced(e)'
    <3>1. states[e.instance] # NoState /\ states[e.instance].event = e.id
      BY <1>r, <2>1, <2>2
    <3>2. e.instance # tick.cur
      BY <1>t, <2>1, <3>1 DEF OwnEvents
    <3>3. states'[e.instance] = states[e.instance]
      BY <1>e, <1>t, <2>1, <3>2
    <3>4. QED
      BY <1>u, <3>1, <3>3
  <2>3. QED
    BY <1>k, <2>1, <2>2
<1>10. ASSUME NEW i \in Instances, Alerts!Sweep(i)
       PROVE  Alerts!Stranded' \subseteq Alerts!Stranded
  BY <1>s, <1>10 DEF Alerts!Sweep
<1>11. CASE Alerts!EndPass \/ Alerts!PassFails
  BY <1>s, <1>11 DEF Alerts!EndPass, Alerts!PassFails
<1>v. ASSUME UNCHANGED <<open, states, tick, held>>
      PROVE  Alerts!Stranded' \subseteq Alerts!Stranded
  BY <1>v DEF Alerts!Stranded, Alerts!Referenced
<1>12. CASE Alerts!Edit \/ (\E i \in Instances : Alerts!Counts(i)) \/ UNCHANGED alerts
  BY <1>v, <1>12 DEF Alerts!Edit, Alerts!Counts, alerts
<1>13. CASE Alerts!Delete \/ Alerts!CloseRows \/ Alerts!ResetStates \/ Alerts!ResetRaises
  BY <1>13 DEF Alerts!Delete, Alerts!CloseRows, Alerts!ResetStates, Alerts!ResetRaises
<1>14. CASE Alerts!Restart
  <2>1. restarts' = restarts + 1
    BY <1>14 DEF Alerts!Restart
  <2>2. QED
    BY <2>1 DEF Counted
<1>15. QED
  BY <1>1, <1>2, <1>4, <1>5, <1>6, <1>7, <1>8, <1>9, <1>10, <1>11, <1>12, <1>13, <1>14
     DEF Alerts!Next, Alerts!Worker, Alerts!Api

-----------------------------------------------------------------------------
(* The recommendation store *)

\* Between its read and its write the pass has the row as it is, up to its
\* status: only the user writes in between, and never the fingerprint.
SyncSawTheRow ==
    pass.at = "sync" =>
        /\ row = None <=> pass.saw = None
        /\ row # None => row.fp = pass.saw.fp

\* The bound on the applications is checked before a request is made.
RoomToApply ==
    /\ pass.at = "judge" => pass.saw # None
    /\ user # None /\ user = "applied" => applications < MaxApplications

\* The row a dismissal stands for is dismissed, if there is one.  A dismissal
\* that met no pass under way is in the row, with the magnitude it was of, and
\* no pass is to write by a reading of the row as open.
DismissalStands ==
    dismissal # None =>
        /\ row # None => row.state = "dismissed"
        /\ \/ dismissal.raced
           \/ /\ row # None /\ row.fp = dismissal.of
              /\ pass.at = "sync" => pass.saw.state # "open"

\* What the pass read is still true of the row where it writes by it.
StoreInv == Store!TypeOK /\ SyncSawTheRow /\ RoomToApply /\ DismissalStands

\* DismissalHolds, of one step.
OnlyTheUserOrTheSize ==
    Store!ShownAgain =>
        \/ Store!Reopened \/ Store!HalfAgain(dismissal.of, row'.fp)
        \/ dismissal.raced /\ (row = None \/ Store!HalfAgain(row.fp, row'.fp))

\* At the start there is no row and no pass.
LEMMA StoreInit == Store!Init => StoreInv
<1> SUFFICES ASSUME Store!Init PROVE StoreInv
  OBVIOUS
<1>1. Store!TypeOK
  BY StoreAssumption
     DEF Store!StoreAssumption, Store!Init, Store!TypeOK, Store!Idle, Store!Boundaries
<1>2. SyncSawTheRow /\ RoomToApply /\ DismissalStands
  BY DEF Store!Init, SyncSawTheRow, RoomToApply, DismissalStands, Store!Idle
<1>3. QED
  BY <1>1, <1>2 DEF StoreInv

\* One case per step: a pass that read a dismissed row writes by a comparison
\* of the sizes, and that comparison is of the row it is about to replace.
LEMMA StoreStep == StoreInv /\ [Store!Next]_store => StoreInv' /\ OnlyTheUserOrTheSize
<1> SUFFICES ASSUME StoreInv, [Store!Next]_store PROVE StoreInv' /\ OnlyTheUserOrTheSize
  OBVIOUS
<1> USE DEF Store!world, Store!Boundaries, Store!Settable
<1>0. /\ Store!TypeOK /\ SyncSawTheRow /\ RoomToApply /\ DismissalStands
      /\ Fingerprints \subseteq Nat /\ MaxApplications \in Nat /\ None \notin Store!Rows
  BY StoreAssumption, RowAssumption DEF StoreInv, Store!StoreAssumption, Store!RowAssumption
<1>t. /\ row # None => row \in Store!Rows
      /\ emits \in Fingerprints \cup {None}
      /\ pass \in [at : {"idle", "sync", "moves", "mark", "applied", "judge"},
                   found : Fingerprints \cup {None}, saw : Store!Rows \cup {None}]
      /\ user \in {"open", "dismissed", "applied"} \cup {None}
      /\ applications \in 0 .. MaxApplications
      /\ (pass.at = "sync" => (row = None <=> pass.saw = None)
                              /\ (row # None => row.fp = pass.saw.fp))
      /\ (pass.at = "judge" => pass.saw # None)
      /\ (user # None /\ user = "applied" => applications < MaxApplications)
      /\ dismissal \in [of : Fingerprints, raced : BOOLEAN] \cup {None}
      /\ (dismissal # None => \/ dismissal.raced
                              \/ /\ row # None /\ row.fp = dismissal.of
                                 /\ pass.at = "sync" => pass.saw.state # "open")
      /\ (dismissal # None /\ row # None => row.state = "dismissed")
  BY <1>0 DEF Store!TypeOK, SyncSawTheRow, RoomToApply, DismissalStands
<1>i. Store!Idle.at = "idle"
      /\ Store!Idle \in [at : {"idle", "sync", "moves", "mark", "applied", "judge"},
                   found : Fingerprints \cup {None}, saw : Store!Rows \cup {None}]
  BY DEF Store!Idle
<1>a. ASSUME row' = row, emits' \in Fingerprints \cup {None},
             pass' \in [at : {"idle", "sync", "moves", "mark", "applied", "judge"},
                        found : Fingerprints \cup {None}, saw : Store!Rows \cup {None}],
             user' \in {"open", "dismissed", "applied"} \cup {None},
             UNCHANGED <<applications, dismissal>>,
             SyncSawTheRow', RoomToApply', DismissalStands'
      PROVE  StoreInv' /\ OnlyTheUserOrTheSize
  BY <1>0, <1>t, <1>a DEF StoreInv, Store!TypeOK, OnlyTheUserOrTheSize, Store!ShownAgain
<1>1. CASE Store!Detect
  <2>1. pass' = [at |-> "sync", found |-> emits, saw |-> row]
        /\ UNCHANGED <<row, emits, user, applications, dismissal>>
    BY <1>1 DEF Store!Detect
  <2>2. SyncSawTheRow' /\ RoomToApply' /\ DismissalStands'
    BY <1>t, <2>1 DEF SyncSawTheRow, RoomToApply, DismissalStands
  <2>3. QED
    BY <1>a, <1>t, <2>1, <2>2
<1>2. CASE Store!DetectorRaises \/ Store!PassRaises \/ Store!VerificationRaises
  <2>1. PICK next \in {"moves", "idle"} : pass' = [pass EXCEPT !.at = next, !.saw = None]
    BY <1>2 DEF Store!DetectorRaises, Store!PassRaises, Store!VerificationRaises,
       Store!Crashes
  <2>2. UNCHANGED <<row, emits, user, applications, dismissal>>
    BY <1>2 DEF Store!DetectorRaises, Store!PassRaises, Store!VerificationRaises,
       Store!Crashes
  <2>3. SyncSawTheRow' /\ RoomToApply' /\ DismissalStands'
    BY <1>t, <2>1, <2>2 DEF SyncSawTheRow, RoomToApply, DismissalStands
  <2>4. QED
    BY <1>a, <1>t, <2>1, <2>2, <2>3
<1>r. ASSUME row' # None => row' \in Store!Rows, emits' = emits,
             pass' \in [at : {"idle", "moves", "mark", "applied", "judge"},
                        found : Fingerprints \cup {None}, saw : {None}],
             pass'.at # "judge", UNCHANGED <<user, applications>>,
             dismissal' \in {dismissal, None},
             dismissal' # None =>
               /\ row' # None => row'.state = "dismissed"
               /\ dismissal.raced \/ (row' # None /\ row'.fp = dismissal.of)
      PROVE  StoreInv'
  BY <1>0, <1>t, <1>r DEF StoreInv, Store!TypeOK, SyncSawTheRow, RoomToApply, DismissalStands
<1>3. CASE Store!Sync
  <2>1. /\ pass.at = "sync" /\ row' = Store!Synced(pass.saw, pass.found)
        /\ pass' = [pass EXCEPT !.at = "moves", !.saw = None]
        /\ UNCHANGED <<emits, user, applications>>
        /\ dismissal' = IF row' # None /\ row'.state = "open" THEN None ELSE dismissal
    BY <1>3 DEF Store!Sync
  <2> DEFINE saw == pass.saw
             found == pass.found
  <2>2. /\ saw # None => saw \in Store!Rows
        /\ found \in Fingerprints \cup {None}
        /\ row = None <=> saw = None
        /\ row # None => row.fp = saw.fp
    BY <1>t, <2>1
  <2>3. row' = IF saw # None /\ saw.state = "open" /\ found = None THEN None
               ELSE IF found = None THEN row
               ELSE IF saw = None THEN Store!Opened(found)
               ELSE IF saw.state = "open" THEN [row EXCEPT !.fp = found]
               ELSE IF saw.state = "dismissed" /\ Store!Material(saw.fp, found)
                    THEN [row EXCEPT !.fp = found, !.state = "open"]
               ELSE row
    BY <2>1, <2>2 DEF Store!Synced, Store!Withdrawn
  <2> HIDE DEF saw, found
  <2>4. found # None => Store!Opened(found) \in Store!Rows
    BY <2>2 DEF Store!Opened, Store!Rows, Store!NoReceipts, Store!States
  <2>5. ASSUME row # None, found # None
        PROVE  /\ [row EXCEPT !.fp = found] \in Store!Rows
               /\ [row EXCEPT !.fp = found, !.state = "open"] \in Store!Rows
               /\ [row EXCEPT !.fp = found].state = row.state
               /\ [row EXCEPT !.fp = found, !.state = "open"].fp = found
    BY <1>t, <2>2, <2>5 DEF Store!Rows, Store!States
  <2>6. row' # None => row' \in Store!Rows
    BY <1>t, <2>2, <2>3, <2>4, <2>5
  <2>7. dismissal' # None =>
          /\ row' # None => row'.state = "dismissed"
          /\ dismissal.raced \/ (row' # None /\ row'.fp = dismissal.of)
    <3>0. dismissal' # None => dismissal' = dismissal /\ (row' # None => row'.state # "open")
      BY <2>1
    <3>5. dismissal' # None /\ row' # None => row'.state = "dismissed"
      <4> SUFFICES ASSUME dismissal' # None, row' # None PROVE row'.state = "dismissed"
        OBVIOUS
      <4>1. row # None
        <5>1. Store!Opened(found).state = "open"
          BY DEF Store!Opened
        <5>2. QED
          BY <2>2, <2>3, <3>0, <5>1
      <4>2. row.state = "dismissed"
        BY <1>t, <3>0, <4>1
      <4>3. QED
        BY <2>2, <2>3, <2>5, <3>0, <4>1, <4>2
    <3> SUFFICES ASSUME dismissal' # None, ~dismissal.raced
                 PROVE  row' # None /\ row'.fp = dismissal.of
      BY <3>5
    <3>1. row # None /\ row.fp = dismissal.of /\ saw # None /\ saw.state # "open"
      BY <1>t, <2>1, <2>2, <3>0 DEF saw
    <3>2. ~(found # None /\ saw.state = "dismissed" /\ Store!Material(saw.fp, found))
      <4> SUFFICES ASSUME found # None, saw.state = "dismissed", Store!Material(saw.fp, found)
                   PROVE  FALSE
        OBVIOUS
      <4>1. row' = [row EXCEPT !.fp = found, !.state = "open"] /\ row \in Store!Rows
        BY <1>t, <2>3, <3>1
      <4>2. row' # None /\ row'.state = "open"
        BY <1>0, <2>2, <4>1 DEF Store!Rows, Store!States
      <4>3. QED
        BY <3>0, <4>2
    <3>3. QED
      BY <2>3, <3>1, <3>2
  <2>8. StoreInv'
    <3>1. dismissal' \in {dismissal, None}
      BY <2>1
    <3>2. /\ pass' \in [at : {"idle", "moves", "mark", "applied", "judge"},
                        found : Fingerprints \cup {None}, saw : {None}]
          /\ pass'.at # "judge"
      BY <1>t, <2>1
    <3>3. QED
      BY <1>r, <2>1, <2>6, <2>7, <3>1, <3>2
  <2>9. OnlyTheUserOrTheSize
    <3> SUFFICES ASSUME dismissal # None, row = None \/ row.state = "dismissed",
                        row' # None, row'.state = "open"
                 PROVE  \/ Store!HalfAgain(dismissal.of, row'.fp)
                        \/ dismissal.raced /\ (row = None \/ Store!HalfAgain(row.fp, row'.fp))
      BY DEF OnlyTheUserOrTheSize, Store!ShownAgain
    <3>1. CASE row = None
      BY <1>t, <3>1
    <3>2. CASE row # None
      <4>1. found # None /\ row'.fp = found /\ Store!Material(row.fp, found)
        BY <2>2, <2>3, <2>5, <3>2
      <4>2. row.fp \in Nat /\ row'.fp \in Nat
        BY <1>0, <1>t, <2>2, <3>2, <4>1 DEF Store!Rows
      <4>3. Store!HalfAgain(row.fp, row'.fp)
        BY <4>1, <4>2 DEF Store!Material, Store!HalfAgain
      <4>4. dismissal.raced \/ row.fp = dismissal.of
        BY <1>t
      <4>5. QED
        BY <3>2, <4>3, <4>4
    <3>3. QED
      BY <3>1, <3>2
  <2>10. QED
    BY <2>8, <2>9
<1>4. CASE Store!ReadOpen
  <2>1. /\ pass' = [pass EXCEPT !.at = pass'.at] /\ pass'.at \in {"mark", "applied"}
        /\ UNCHANGED <<row, emits, user, applications, dismissal>>
    BY <1>t, <1>4 DEF Store!ReadOpen
  <2>2. SyncSawTheRow' /\ RoomToApply' /\ DismissalStands'
    BY <1>t, <2>1 DEF SyncSawTheRow, RoomToApply, DismissalStands
  <2>3. QED
    BY <1>a, <1>t, <2>1, <2>2
<1>5. CASE Store!MarkAppliedAuto
  <2>1. /\ pass' = [pass EXCEPT !.at = "applied"] /\ UNCHANGED <<emits, user, applications, dismissal>>
        /\ row' = IF row # None /\ row.state = "open"
                  THEN [row EXCEPT !.state = "applied", !.boundary = 0] ELSE row
    BY <1>5 DEF Store!MarkAppliedAuto
  <2>2. /\ row' # None => row' \in Store!Rows
        /\ row' = row \/ (row # None /\ row' # None /\ row'.state = "applied" /\ row'.fp = row.fp)
    <3>1. 0 \in 0 .. MaxApplications
      BY <1>0
    <3>2. ASSUME row # None
          PROVE  LET marked == [row EXCEPT !.state = "applied", !.boundary = 0] IN
                 marked \in Store!Rows /\ marked.state = "applied" /\ marked.fp = row.fp
      BY <1>t, <3>1, <3>2 DEF Store!Rows, Store!States
    <3>3. QED
      BY <1>0, <1>t, <2>1, <3>2
  <2>3. QED
    BY <1>0, <1>t, <2>1, <2>2 DEF StoreInv, Store!TypeOK, SyncSawTheRow, RoomToApply,
       DismissalStands, OnlyTheUserOrTheSize, Store!ShownAgain
<1>6. CASE Store!ReadApplied
  <2>1. /\ pass' = IF row # None /\ row.state = "applied" /\ ~row.receipts.finalized
                   THEN [pass EXCEPT !.at = "judge", !.saw = row] ELSE Store!Idle
        /\ UNCHANGED <<row, emits, user, applications, dismissal>>
    BY <1>6 DEF Store!ReadApplied
  <2>2. SyncSawTheRow' /\ RoomToApply' /\ DismissalStands'
    BY <1>i, <1>t, <2>1 DEF SyncSawTheRow, RoomToApply, DismissalStands
  <2>3. QED
    BY <1>a, <1>i, <1>t, <2>1, <2>2
<1>7. CASE Store!Judge
  <2>1. /\ pass' = Store!Idle /\ UNCHANGED <<emits, user, applications, dismissal>>
        /\ pass.saw \in Store!Rows
    BY <1>t, <1>7 DEF Store!Judge
  <2>2. pass.saw.boundary \in 0 .. MaxApplications \cup {None}
    BY <2>1 DEF Store!Rows
  <2>3. /\ row' # None => row' \in Store!Rows
        /\ \/ row' = row
           \/ /\ row # None /\ row' # None /\ row'.fp = row.fp
              /\ \/ row'.state = row.state
                 \/ row.state # "dismissed" /\ row'.state # "open"
    <3>1. CASE \E final \in BOOLEAN :
                 row # None /\ row' = [row EXCEPT !.receipts =
                                         [of |-> pass.saw.boundary, finalized |-> final]]
      <4>1. PICK final \in BOOLEAN : row' = [row EXCEPT !.receipts =
                                           [of |-> pass.saw.boundary, finalized |-> final]]
        BY <3>1
      <4>2. /\ row \in Store!Rows
            /\ [of |-> pass.saw.boundary, finalized |-> final]
                 \in [of : 0 .. MaxApplications \cup {None}, finalized : BOOLEAN]
        BY <1>t, <2>2, <3>1
      <4>3. row' \in Store!Rows /\ row'.fp = row.fp /\ row'.state = row.state
        BY <4>1, <4>2 DEF Store!Rows
      <4>4. QED
        BY <1>0, <3>1, <4>3
    <3>2. CASE /\ row # None /\ row.state = "applied"
               /\ \E judged \in {"verified", "regressed"} :
                    row' = [row EXCEPT !.state = judged, !.receipts =
                              [of |-> pass.saw.boundary, finalized |-> FALSE]]
      <4>1. PICK judged \in {"verified", "regressed"} :
              row' = [row EXCEPT !.state = judged, !.receipts =
                        [of |-> pass.saw.boundary, finalized |-> FALSE]]
        BY <3>2
      <4>2. /\ row \in Store!Rows /\ judged \in Store!States
            /\ [of |-> pass.saw.boundary, finalized |-> FALSE]
                 \in [of : 0 .. MaxApplications \cup {None}, finalized : BOOLEAN]
        BY <1>t, <2>2, <3>2 DEF Store!States
      <4>3. row' \in Store!Rows /\ row'.fp = row.fp /\ row'.state = judged
        BY <4>1, <4>2 DEF Store!Rows
      <4>4. QED
        BY <1>0, <3>2, <4>3
    <3>3. CASE UNCHANGED row
      BY <1>t, <3>3
    <3>4. QED
      BY <1>7, <3>1, <3>2, <3>3 DEF Store!Judge
  <2>4. QED
    BY <1>0, <1>i, <1>t, <2>1, <2>3 DEF StoreInv, Store!TypeOK, SyncSawTheRow,
       RoomToApply, DismissalStands, OnlyTheUserOrTheSize, Store!ShownAgain
<1>8. ASSUME NEW to \in Store!Settable, Store!ReadState(to)
      PROVE  StoreInv' /\ OnlyTheUserOrTheSize
  <2>1. SyncSawTheRow' /\ RoomToApply' /\ DismissalStands'
    BY <1>0, <1>t, <1>8 DEF Store!ReadState, SyncSawTheRow, RoomToApply, DismissalStands
  <2>2. QED
    BY <1>a, <1>t, <1>8, <2>1 DEF Store!ReadState
<1>9. CASE Store!WriteState
  <2>1. /\ user # None /\ user' = None /\ pass' = pass /\ emits' = emits
        /\ applications' = IF user = "applied" THEN applications + 1 ELSE applications
        /\ row' = IF row = None THEN None
                  ELSE [row EXCEPT !.state = user, !.boundary = applications']
        /\ dismissal' = IF row = None THEN dismissal
                        ELSE IF user = "dismissed"
                             THEN [of |-> row.fp, raced |-> Store!ReadItOpen]
                        ELSE None
    BY <1>9 DEF Store!WriteState
  <2>2. applications' \in 0 .. MaxApplications
    BY <1>0, <1>t, <2>1
  <2>3. /\ row = None => row' = None
        /\ row # None => row' \in Store!Rows /\ row'.fp = row.fp /\ row'.state = user
    BY <1>t, <2>1, <2>2 DEF Store!Rows, Store!States
  <2>4. row' = None <=> row = None
    BY <1>0, <2>3
  <2>5. /\ dismissal' \in [of : Fingerprints, raced : BOOLEAN] \cup {None}
        /\ DismissalStands'
    <3>1. CASE row = None
      BY <1>t, <2>1, <2>3, <3>1 DEF DismissalStands
    <3>2. CASE row # None /\ user = "dismissed"
      <4>1. dismissal' = [of |-> row.fp, raced |-> Store!ReadItOpen] /\ row.fp \in Fingerprints
        BY <1>t, <2>1, <3>2 DEF Store!Rows
      <4>2. Store!ReadItOpen \in BOOLEAN
        BY DEF Store!ReadItOpen
      <4>3. dismissal'.of = row'.fp /\ row' # None /\ dismissal'.raced = Store!ReadItOpen
        BY <2>3, <2>4, <3>2, <4>1
      <4>4. pass'.at = "sync" /\ ~Store!ReadItOpen => pass'.saw.state # "open"
        BY <1>t, <2>1, <3>2 DEF Store!ReadItOpen
      <4>5. QED
        BY <2>3, <3>2, <4>1, <4>2, <4>3, <4>4 DEF DismissalStands
    <3>3. CASE row # None /\ user # "dismissed"
      BY <2>1, <3>3 DEF DismissalStands
    <3>4. QED
      BY <3>1, <3>2, <3>3
  <2>6. OnlyTheUserOrTheSize
    BY <1>0, <2>1, <2>3, <2>4 DEF OnlyTheUserOrTheSize, Store!ShownAgain, Store!Reopened
  <2>7. QED
    BY <1>0, <1>t, <2>1, <2>2, <2>3, <2>4, <2>5, <2>6 DEF StoreInv, Store!TypeOK, SyncSawTheRow,
       RoomToApply, DismissalStands, OnlyTheUserOrTheSize, Store!ShownAgain
<1>10. CASE Store!Change
  <2>1. UNCHANGED <<row, pass, user, applications, dismissal>> /\ emits' \in Fingerprints \cup {None}
    BY <1>t, <1>10 DEF Store!Change
  <2>2. SyncSawTheRow' /\ RoomToApply' /\ DismissalStands'
    BY <1>t, <2>1 DEF SyncSawTheRow, RoomToApply, DismissalStands
  <2>3. QED
    BY <1>a, <1>t, <2>1, <2>2
<1>11. CASE UNCHANGED store
  <2>1. UNCHANGED <<row, emits, pass, user, applications, dismissal>>
    BY <1>11 DEF store
  <2>2. SyncSawTheRow' /\ RoomToApply' /\ DismissalStands'
    BY <1>t, <2>1 DEF SyncSawTheRow, RoomToApply, DismissalStands
  <2>3. QED
    BY <1>a, <1>t, <2>1, <2>2
<1>12. QED
  BY <1>1, <1>2, <1>3, <1>4, <1>5, <1>6, <1>7, <1>8, <1>9, <1>10, <1>11
     DEF Store!Next, Store!Pass

-----------------------------------------------------------------------------
(* The broker's task *)

\* The requests that have cancelled the task and wait for its end.
Waiting == {r \in Requests : awaits[r] # 0}

\* The types; config counts the settings saved.
LinkTypes ==
    /\ config \in Nat /\ current \in Link!Tasks
    /\ link \in [Link!Tasks ->
         [at : {"none", "connecting", "connected", "backoff", "closing", "ended"},
          config : 0 .. MaxTasks]]
    /\ awaits \in [Requests -> Link!Tasks \cup {0}]
    /\ drops \in 0 .. MaxDrops /\ errors \in 0 .. MaxErrors

\* Tasks are started in order, and each setting saved has a task or a request
\* that will start one.
UsedInOrder ==
    /\ \A t \in Link!Tasks : link[t].at = "none" <=> t > current
    /\ \A r \in Requests : awaits[r] <= current
    /\ IsFiniteSet(Waiting)
    /\ Cardinality(Waiting) <= MaxTasks - current
    /\ config = current + Cardinality(Waiting)

\* While no two requests overlap, only the current task runs and only one
\* request waits, for that task.
OneAtATime ==
    /\ \A t \in Link!Tasks : link[t].at \notin {"none", "ended"} => t = current
    /\ \A r \in Waiting : awaits[r] = current
    /\ \A q, r \in Waiting : q = r

\* NoneAstray holds of a step only if the next task is started after the last
\* one ended, which is what the waiting request stands for.
LinkInv == LinkTypes /\ UsedInOrder /\ (~overlapped => OneAtATime)

\* The tasks not started yet are those after the current one.
LEMMA UnusedAreLater ==
    ASSUME LinkTypes, UsedInOrder
    PROVE  /\ Link!Unused = current + 1 .. MaxTasks
           /\ Cardinality(Link!Unused) = MaxTasks - current
           /\ current < MaxTasks => Link!Min(Link!Unused) = current + 1
<1>1. MaxTasks \in Nat /\ current \in 1 .. MaxTasks
  BY LinkAssumption DEF LinkTypes, Link!LinkAssumption, Link!Tasks
<1>2. Link!Unused = current + 1 .. MaxTasks
  BY <1>1 DEF UsedInOrder, Link!Unused, Link!Tasks
<1>3. Cardinality(current + 1 .. MaxTasks) = MaxTasks - current
  BY <1>1, FS_Interval
<1>4. ASSUME current < MaxTasks
      PROVE  (CHOOSE x \in current + 1 .. MaxTasks :
                \A y \in current + 1 .. MaxTasks : x <= y) = current + 1
  BY <1>1, <1>4
<1>5. QED
  BY <1>2, <1>3, <1>4 DEF Link!Min

\* At the start one task runs.
LEMMA LinkInit == Link!Init => LinkInv
<1> SUFFICES ASSUME Link!Init PROVE LinkInv
  OBVIOUS
<1>0. MaxTasks \in Nat \ {0} /\ MaxDrops \in Nat /\ MaxErrors \in Nat
  BY LinkAssumption DEF Link!LinkAssumption
<1>1. LinkTypes
  BY <1>0 DEF Link!Init, LinkTypes, Link!Tasks, Link!NoTask, Link!Fresh
<1>2. Waiting = {}
  BY DEF Waiting, Link!Init, Link!NoTask
<1>3. IsFiniteSet(Waiting) /\ Cardinality(Waiting) = 0
  BY <1>2, FS_EmptySet
<1>4. UsedInOrder
  BY <1>0, <1>3 DEF UsedInOrder, Link!Init, Link!Tasks, Link!NoTask, Link!Fresh
<1>5. OneAtATime
  BY <1>0, <1>2 DEF OneAtATime, Link!Init, Link!Tasks, Link!Fresh
<1>6. QED
  BY <1>1, <1>4, <1>5 DEF LinkInv

\* Saved settings, lost connections, handlers that raise and tasks that end
\* keep the order of the tasks.
LEMMA LinkStep == LinkInv /\ [Link!Next]_broker => LinkInv'
<1> SUFFICES ASSUME LinkInv, [Link!Next]_broker PROVE LinkInv'
  OBVIOUS
<1>0. /\ LinkTypes /\ UsedInOrder /\ (~overlapped => OneAtATime)
      /\ MaxTasks \in Nat \ {0} /\ MaxDrops \in Nat /\ MaxErrors \in Nat
  BY LinkAssumption DEF LinkInv, Link!LinkAssumption
<1>t. /\ config \in Nat /\ current \in 1 .. MaxTasks
      /\ link \in [1 .. MaxTasks ->
           [at : {"none", "connecting", "connected", "backoff", "closing", "ended"},
            config : 0 .. MaxTasks]]
      /\ awaits \in [Requests -> 1 .. MaxTasks \cup {0}]
      /\ drops \in 0 .. MaxDrops /\ errors \in 0 .. MaxErrors
  BY <1>0 DEF LinkTypes, Link!Tasks
<1>a. ASSUME UNCHANGED <<config, current, awaits>>, overlapped' = overlapped,
             drops' \in 0 .. MaxDrops, errors' \in 0 .. MaxErrors,
             link' \in [Link!Tasks ->
               [at : {"none", "connecting", "connected", "backoff", "closing", "ended"},
                config : 0 .. MaxTasks]],
             \A t \in Link!Tasks :
               /\ link'[t].at = "none" <=> link[t].at = "none"
               /\ link'[t].at \notin {"none", "ended"} => link[t].at \notin {"none", "ended"}
      PROVE  LinkInv'
  <2>1. LinkTypes'
    BY <1>0, <1>a DEF LinkTypes, Link!Tasks
  <2>2. Waiting' = Waiting
    BY <1>a DEF Waiting
  <2>3. UsedInOrder'
    BY <1>0, <1>a, <2>2 DEF UsedInOrder
  <2>4. ~overlapped => OneAtATime'
    BY <1>0, <1>a, <2>2 DEF OneAtATime
  <2>5. QED
    BY <1>a, <2>1, <2>3, <2>4 DEF LinkInv
<1>b. ASSUME NEW t \in Link!Tasks, link[t].at \notin {"none", "ended"},
             NEW where \in {"connecting", "connected", "backoff", "closing", "ended"},
             link' = Link!To(t, where),
             UNCHANGED <<config, current, awaits>>, overlapped' = overlapped,
             drops' \in 0 .. MaxDrops, errors' \in 0 .. MaxErrors
      PROVE  LinkInv'
  BY <1>a, <1>b, <1>t DEF Link!To, Link!Tasks
<1>d. drops < MaxDrops /\ drops' = drops + 1 => drops' \in 0 .. MaxDrops
  BY <1>0, <1>t
<1>1. ASSUME NEW t \in Link!Tasks, Link!Connect(t) PROVE LinkInv'
  <2>1. link' = [u \in 1 .. MaxTasks |->
                   IF u = t THEN [link[u] EXCEPT !.at = "connected"]
                   ELSE IF link[u].at = "connected" /\ link[u].config = link[t].config
                   THEN [link[u] EXCEPT !.at = "backoff"] ELSE link[u]]
    BY <1>1 DEF Link!Connect, Link!TakenOver, Link!Tasks
  <2>2. \A u \in 1 .. MaxTasks :
          /\ link'[u] \in [at : {"none", "connecting", "connected", "backoff", "closing", "ended"},
                           config : 0 .. MaxTasks]
          /\ link'[u].at = "none" <=> link[u].at = "none"
          /\ link'[u].at \notin {"none", "ended"} => link[u].at \notin {"none", "ended"}
    BY <1>t, <1>1, <2>1 DEF Link!Connect, Link!Tasks
  <2>3. QED
    BY <1>a, <1>t, <1>1, <2>1, <2>2 DEF Link!Connect, Link!Tasks
<1>2. ASSUME NEW t \in Link!Tasks, Link!Drop(t) PROVE LinkInv'
  BY <1>b, <1>d, <1>t, <1>2 DEF Link!Drop
<1>3. ASSUME NEW t \in Link!Tasks, Link!HandlerRaises(t) PROVE LinkInv'
  <2>1. errors' \in 0 .. MaxErrors
    BY <1>0, <1>t, <1>3 DEF Link!HandlerRaises
  <2>2. QED
    BY <1>a, <1>t, <1>3, <2>1 DEF Link!HandlerRaises, Link!Tasks
<1>4. ASSUME NEW t \in Link!Tasks, Link!Wake(t) \/ Link!Close(t) PROVE LinkInv'
  BY <1>b, <1>t, <1>4 DEF Link!Wake, Link!Close
<1>5. ASSUME NEW t \in Link!Tasks, Link!CloseFails(t) PROVE LinkInv'
  BY <1>b, <1>d, <1>t, <1>5 DEF Link!CloseFails
<1>6. ASSUME NEW r \in Requests, Link!Apply(r) PROVE LinkInv'
  <2>1. /\ awaits[r] = 0 /\ config' = config + 1 /\ current' = current
        /\ awaits' = [awaits EXCEPT ![r] = current]
        /\ UNCHANGED <<drops, errors>>
        /\ overlapped' = (overlapped \/ Waiting # {})
        /\ Cardinality(Link!Unused) > Cardinality(Waiting)
    BY <1>6, Sizes DEF Link!Apply, Link!NoTask, Waiting
  <2>2. IsFiniteSet(Waiting) /\ Cardinality(Waiting) \in Nat
    BY <1>0, FS_CardinalityType DEF UsedInOrder
  <2>3. Waiting' = Waiting \cup {r} /\ r \notin Waiting
    BY <1>t, <2>1 DEF Waiting
  <2>4. IsFiniteSet(Waiting') /\ Cardinality(Waiting') = Cardinality(Waiting) + 1
    BY <2>2, <2>3, FS_AddElement
  <2>5. PICK where \in {"closing", "ended"} : link' = [link EXCEPT ![current].at = where]
    BY <1>6 DEF Link!Apply, Link!Cancelled, Link!To
  <2>6. LinkTypes'
    BY <1>t, <2>1, <2>5 DEF LinkTypes, Link!Tasks
  <2>7. UsedInOrder'
    <3>1. Cardinality(Waiting) + 1 <= MaxTasks - current
      BY <1>0, <1>t, <2>1, <2>2, UnusedAreLater
    <3>2. \A t \in 1 .. MaxTasks : link'[t].at = "none" <=> t > current
      BY <1>0, <1>t, <2>5 DEF UsedInOrder, Link!Tasks
    <3>3. \A q \in Requests : awaits'[q] <= current
      BY <1>0, <1>t, <2>1 DEF UsedInOrder
    <3> DEFINE before == Cardinality(Waiting)
               after == Cardinality(Waiting')
    <3>4. /\ before \in Nat /\ after = before + 1 /\ before + 1 <= MaxTasks - current
          /\ config = current + before /\ config' = config + 1 /\ current' = current
      BY <1>0, <2>1, <2>2, <2>4, <3>1 DEF UsedInOrder
    <3> HIDE DEF before, after
    <3>5. after <= MaxTasks - current' /\ config' = current' + after
      BY <1>t, <3>4
    <3>6. QED
      BY <2>1, <2>4, <3>2, <3>3, <3>5 DEF UsedInOrder, Link!Tasks, after
  <2>8. ~overlapped' => OneAtATime'
    <3> SUFFICES ASSUME ~overlapped' PROVE OneAtATime'
      OBVIOUS
    <3>1. OneAtATime /\ Waiting' = {r} /\ awaits'[r] = current
      BY <1>0, <1>t, <2>1, <2>3
    <3>2. \A t \in 1 .. MaxTasks : link'[t].at \notin {"none", "ended"} => t = current
      BY <1>t, <2>5, <3>1 DEF OneAtATime, Link!Tasks
    <3>3. QED
      BY <2>1, <3>1, <3>2 DEF OneAtATime, Link!Tasks
  <2>9. QED
    BY <2>6, <2>7, <2>8 DEF LinkInv
<1>7. ASSUME NEW r \in Requests, Link!Replace(r) PROVE LinkInv'
  <2>1. /\ r \in Waiting /\ link[awaits[r]].at = "ended"
        /\ UNCHANGED <<config, drops, errors, overlapped>>
        /\ awaits' = [awaits EXCEPT ![r] = 0]
    BY <1>7 DEF Link!Replace, Link!Awaited, Link!NoTask, Waiting
  <2>2. IsFiniteSet(Waiting) /\ Cardinality(Waiting) \in Nat /\ Cardinality(Waiting) # 0
    BY <1>0, <2>1, FS_CardinalityType, FS_EmptySet DEF UsedInOrder
  <2>3. Waiting' = Waiting \ {r}
    BY <1>t, <2>1 DEF Waiting
  <2>4. IsFiniteSet(Waiting') /\ Cardinality(Waiting') = Cardinality(Waiting) - 1
    BY <2>1, <2>2, <2>3, FS_RemoveElement
  <2> DEFINE before == Cardinality(Waiting)
             after == Cardinality(Waiting')
  <2>5. /\ before \in Nat \ {0} /\ after = before - 1 /\ before <= MaxTasks - current
        /\ config = current + before
    BY <1>0, <2>2, <2>4 DEF UsedInOrder
  <2> HIDE DEF before, after
  <2>6. current < MaxTasks
    BY <1>0, <1>t, <2>5
  <2>7. /\ current' = current + 1 /\ current' \in 1 .. MaxTasks /\ config \in 0 .. MaxTasks
        /\ link' = [link EXCEPT ![current + 1] = [at |-> "connecting", config |-> config]]
    <3>1. Link!Min(Link!Unused) = current + 1
      BY <1>0, <2>6, UnusedAreLater
    <3>2. config \in 0 .. MaxTasks /\ current + 1 \in 1 .. MaxTasks
      BY <1>0, <1>t, <2>5, <2>6
    <3>3. QED
      BY <1>7, <3>1, <3>2 DEF Link!Replace
  <2>8. LinkTypes'
    BY <1>t, <2>1, <2>7 DEF LinkTypes, Link!Tasks
  <2>9. UsedInOrder'
    <3>1. \A t \in 1 .. MaxTasks : link'[t].at = "none" <=> t > current'
      BY <1>0, <1>t, <2>7 DEF UsedInOrder, Link!Tasks
    <3>2. \A q \in Requests : awaits'[q] <= current'
      BY <1>0, <1>t, <2>1, <2>7 DEF UsedInOrder
    <3>3. after <= MaxTasks - current' /\ config' = current' + after
      BY <1>0, <1>t, <2>1, <2>5, <2>7
    <3>4. QED
      BY <2>4, <3>1, <3>2, <3>3 DEF UsedInOrder, Link!Tasks, after
  <2>10. ~overlapped' => OneAtATime'
    <3> SUFFICES ASSUME ~overlapped' PROVE OneAtATime'
      OBVIOUS
    <3>1. OneAtATime
      BY <1>0, <2>1
    <3>2. Waiting' = {}
      BY <2>1, <2>3, <3>1 DEF OneAtATime
    <3>3. link[current].at = "ended"
      BY <2>1, <3>1 DEF OneAtATime
    <3>4. \A t \in 1 .. MaxTasks : link[t].at \in {"none", "ended"}
      BY <1>t, <3>1, <3>3 DEF OneAtATime, Link!Tasks
    <3>5. \A t \in 1 .. MaxTasks : link'[t].at \notin {"none", "ended"} => t = current'
      BY <1>t, <2>7, <3>4
    <3>6. QED
      BY <3>2, <3>5 DEF OneAtATime, Link!Tasks
  <2>11. QED
    BY <2>8, <2>9, <2>10 DEF LinkInv
<1>8. CASE UNCHANGED broker
  <2>1. UNCHANGED <<config, link, current, awaits, drops, errors, overlapped>>
    BY <1>8 DEF broker
  <2>2. QED
    BY <1>a, <1>t, <2>1 DEF Link!Tasks
<1>9. QED
  BY <1>1, <1>2, <1>3, <1>4, <1>5, <1>6, <1>7, <1>8 DEF Link!Next, Link!Run

\* The invariant gives the types and that no task runs astray.
LEMMA LinkTyped == LinkInv => Link!TypeOK /\ Link!NoneAstray
<1> SUFFICES ASSUME LinkInv PROVE Link!TypeOK /\ Link!NoneAstray
  OBVIOUS
<1>1. /\ MaxTasks \in Nat /\ current \in 1 .. MaxTasks /\ config \in Nat
      /\ IsFiniteSet(Waiting) /\ Cardinality(Waiting) <= MaxTasks - current
      /\ config = current + Cardinality(Waiting)
  BY LinkAssumption DEF LinkInv, LinkTypes, UsedInOrder, Link!LinkAssumption, Link!Tasks
<1>2. Cardinality(Waiting) \in Nat
  BY <1>1, FS_CardinalityType
<1>3. config \in 1 .. MaxTasks
  BY <1>1, <1>2
<1>4. QED
  BY <1>3 DEF LinkInv, LinkTypes, OneAtATime, Waiting, Link!TypeOK, Link!NoneAstray,
     Link!NoTask

-----------------------------------------------------------------------------
(* The activity log *)

\* What the ring holds: a label and the number of its slow note.
Entries == Activity!Labels \X Nat

\* A sequence of entries of labels already counted.
Known(s) ==
    s \in Seq(Entries) /\ \A i \in 1 .. Len(s) : s[i][1] \in Activity!Seen

\* The last entry of a label in a sequence is the one with this number.
Newest(s, l, number) ==
    \E i \in 1 .. Len(s) :
        s[i] = <<l, number>> /\ \A j \in i + 1 .. Len(s) : s[j][1] # l

\* A sequence has the newest entry of a label after all the label's others.
Keeps(s, l) == Newest(s, l, totals[l].slow)

\* What the assumption on the constants gives, with the library's operators.
LEMMA ActivityFacts ==
    /\ ACTIVITY_ENTRIES_KEPT \in Nat
    /\ IsFiniteSet(Activity!Labels) /\ IsFiniteSet(Activity!Seen)
    /\ Cardinality(Activity!Seen) \in Nat
    /\ Activity!Seen \subseteq Activity!Labels
    /\ Activity!SpanLabels \subseteq Activity!Labels
    /\ Activity!SpanLabels \cap Activity!Collections = {}
    /\ Activity!Labels = Activity!SpanLabels \cup Activity!Collections
    /\ None \notin Activity!Threads
<1>1. Activity!IsFiniteSet(Activity!Labels) => IsFiniteSet(Activity!Labels)
  BY DEF Activity!IsFiniteSet, IsFiniteSet
<1>2. /\ ACTIVITY_ENTRIES_KEPT \in Nat /\ IsFiniteSet(Activity!Labels)
      /\ Activity!SpanLabels \cap Activity!Collections = {} /\ None \notin Activity!Threads
  BY <1>1, ActivityAssumption DEF Activity!ActivityAssumption
<1>3. Activity!Seen \in SUBSET Activity!Labels
  BY DEF Activity!Seen
<1>4. QED
  BY <1>2, <1>3, FS_Subset, FS_CardinalityType DEF Activity!Labels

\* While the labels are no more than the cap, what the trim leaves fits: each
\* label has at most its share and the shares do not exceed the cap.
LEMMA AmongFits ==
    ASSUME Known(ring), Cardinality(Activity!Seen) <= ACTIVITY_ENTRIES_KEPT, Len(ring) # 0
    PROVE  Cardinality(Activity!Among) <= ACTIVITY_ENTRIES_KEPT
<1> DEFINE n == Len(ring)
           k == Cardinality(Activity!Seen)
           cap == ACTIVITY_ENTRIES_KEPT
           share == cap \div k
<1>1. n \in Nat \ {0} /\ k \in Nat /\ cap \in Nat /\ k <= cap
  BY ActivityFacts, LenProperties DEF Known
<1>2. k # 0
  <2>1. ring[1][1] \in Activity!Seen
    BY <1>1 DEF Known
  <2>2. QED
    BY <2>1, ActivityFacts, FS_EmptySet
<1>3. share \in Nat /\ share >= 1 /\ k * share <= cap
  <2> HIDE DEF k, cap
  <2>1. share \in Int /\ k * share <= cap /\ cap < k * share + k
    BY <1>1, <1>2
  <2>2. QED
    <3> HIDE DEF share
    <3>1. ASSUME share < 1 PROVE FALSE
      <4>1. k * share <= 0
        BY <1>1, <1>2, <2>1, <3>1
      <4>2. QED
        BY <1>1, <1>2, <2>1, <4>1
    <3>2. QED
      BY <2>1, <3>1
<1>4. Activity!PerLabel = share
  BY <1>3, Sizes DEF Activity!PerLabel
<1> DEFINE later(i) == Cardinality(Activity!Newer(i))
<1>5. \A i \in 1 .. n : IsFiniteSet(Activity!Newer(i)) /\ later(i) \in Nat
  <2> TAKE i \in 1 .. n
  <2>1. IsFiniteSet(i + 1 .. n)
    BY <1>1, FS_Interval
  <2>2. Activity!Newer(i) \in SUBSET (i + 1 .. n)
    BY DEF Activity!Newer
  <2>3. QED
    BY <2>1, <2>2, FS_Subset, FS_CardinalityType
<1>6. \A i \in Activity!Among : i \in 1 .. n /\ later(i) \in 0 .. share - 1
  <2>1. \A i \in Activity!Among : i \in 1 .. n /\ later(i) < share
    BY <1>4, Sizes DEF Activity!Among
  <2>2. QED
    <3> HIDE DEF later, share, n
    <3> QED
      BY <1>3, <1>5, <2>1
<1>7. ASSUME NEW i \in 1 .. n, NEW j \in 1 .. n, i < j, ring[i][1] = ring[j][1]
      PROVE  later(j) < later(i)
  <2>1. j \notin Activity!Newer(j) /\ Activity!Newer(j) \cup {j} \in SUBSET Activity!Newer(i)
    BY <1>1, <1>7 DEF Activity!Newer
  <2>2. Cardinality(Activity!Newer(j) \cup {j}) = later(j) + 1
    BY <1>5, <2>1, FS_AddElement
  <2>3. Cardinality(Activity!Newer(j) \cup {j}) <= later(i)
    BY <1>5, <2>1, FS_Subset
  <2>4. QED
    <3> HIDE DEF later
    <3> QED
      BY <1>5, <2>2, <2>3
<1> DEFINE f == [i \in Activity!Among |-> <<ring[i][1], later(i)>>]
           T == Activity!Seen \X (0 .. share - 1)
<1>8. f \in Injection(Activity!Among, T)
  <2>1. f \in [Activity!Among -> T]
    <3> HIDE DEF later, share, n
    <3> QED
      BY <1>6 DEF Known, n
  <2>2. ASSUME NEW i \in Activity!Among, NEW j \in Activity!Among, f[i] = f[j] PROVE i = j
    <3>1. i \in 1 .. n /\ j \in 1 .. n
      BY <1>6
    <3>2. ring[i][1] = ring[j][1] /\ later(i) = later(j)
      BY <2>2
    <3>3. ~(i < j) /\ ~(j < i)
      <4> HIDE DEF later
      <4> QED
        BY <1>5, <1>7, <3>1, <3>2
    <3>4. QED
      BY <1>1, <3>1, <3>3
  <2>3. QED
    BY <2>1, <2>2 DEF Injection, IsInjective
<1>9. IsFiniteSet(T) /\ Cardinality(T) = k * share
  <2>1. IsFiniteSet(0 .. share - 1) /\ Cardinality(0 .. share - 1) = share
    <3> HIDE DEF share
    <3> QED
      BY <1>3, FS_Interval
  <2>2. QED
    BY <2>1, ActivityFacts, FS_Product
<1>10. Cardinality(Activity!Among) <= k * share /\ Cardinality(Activity!Among) \in Nat
  BY <1>8, <1>9, FS_Injection, FS_CardinalityType
<1>11. QED
  <2> HIDE DEF k, share, cap
  <2>1. k * share \in Nat
    BY <1>1, <1>3
  <2>2. QED
    BY <1>1, <1>3, <1>10, <2>1 DEF cap

\* The trim returns entries of known labels, never more than the cap, and
\* drops no label's newest entry while the labels are no more than the cap.
LEMMA TrimKeeps ==
    ASSUME Known(ring)
    PROVE  /\ Known(Activity!Trimmed)
           /\ Len(Activity!Trimmed) <= ACTIVITY_ENTRIES_KEPT
           /\ \A l \in Activity!SpanLabels :
                Cardinality(Activity!Seen) <= ACTIVITY_ENTRIES_KEPT /\ Keeps(ring, l)
                  => Keeps(Activity!Trimmed, l)
<1> DEFINE n == Len(ring)
           S == Activity!Among
           c == Cardinality(S)
           cap == ACTIVITY_ENTRIES_KEPT
           rank(i) == Cardinality({k \in S : k < i})
           at(m) == Activity!Nth(m)
           s == [m \in 1 .. c |-> ring[at(m)]]
<1>1. n \in Nat /\ cap \in Nat /\ S \in SUBSET (1 .. n)
  BY ActivityFacts, LenProperties DEF Known, Activity!Among
<1>2. /\ IsFiniteSet(S) /\ c \in Nat
      /\ \A i, j \in S : i < j => rank(i) < rank(j)
      /\ \A i \in S : rank(i) \in 0 .. c - 1
      /\ \A m \in 1 .. c : \E i \in S : rank(i) = m - 1
  <2> HIDE DEF n, S
  <2> QED
    BY <1>1, Ranks
<1>3. \A m \in 1 .. c : at(m) \in S /\ rank(at(m)) = m - 1
  BY <1>2, Sizes DEF Activity!Nth
<1>4. Activity!Trimmed = Activity!LastOf(s)
  BY Sizes DEF Activity!Trimmed
<1>5. s \in Seq(Entries) /\ Len(s) = c /\ \A m \in 1 .. c : s[m] = ring[at(m)]
  <2>1. \A m \in 1 .. c : ring[at(m)] \in Entries
    <3> HIDE DEF at, c, rank, S, n
    <3>1. \A i \in 1 .. n : ring[i] \in Entries
      BY ElementOfSeq DEF Known, n
    <3>2. QED
      BY <1>1, <1>3, <3>1
  <2>2. QED
    <3> HIDE DEF at, c, rank, S, n
    <3> QED
      BY <1>2, <2>1, IsASeq
<1>6. \A m \in 1 .. c : s[m][1] \in Activity!Seen
  <2> HIDE DEF at, c, rank, S, n, s
  <2>1. \A i \in 1 .. n : ring[i][1] \in Activity!Seen
    BY DEF Known, n
  <2>2. QED
    BY <1>1, <1>3, <1>5, <2>1
<1>7. ASSUME c > cap
      PROVE  Known(Activity!Trimmed) /\ Len(Activity!Trimmed) = cap
  <2> HIDE DEF at, c, rank, S, n, s, cap
  <2>1. Activity!Trimmed = SubSeq(s, c - cap + 1, c)
    <3>1. Len(s) = c /\ ~(c <= cap)
      BY <1>1, <1>2, <1>5, <1>7
    <3>2. Activity!LastOf(s) = IF Len(s) <= cap THEN s
                               ELSE SubSeq(s, Len(s) - cap + 1, Len(s))
      BY DEF Activity!LastOf, cap
    <3>3. QED
      BY <1>4, <3>1, <3>2
  <2>2. /\ c - cap + 1 \in Int /\ c \in Int /\ c - cap + 1 \in 1 .. c + 1
        /\ \A i \in c - cap + 1 .. c : i \in 1 .. c /\ s[i] \in Entries
    <3>1. c - cap + 1 \in 2 .. c + 1
      BY <1>1, <1>2, <1>7
    <3>2. \A i \in c - cap + 1 .. c : i \in 1 .. c
      BY <1>1, <1>2, <3>1
    <3>3. QED
      BY <1>2, <1>5, <3>1, <3>2, ElementOfSeq
  <2>3. /\ SubSeq(s, c - cap + 1, c) \in Seq(Entries)
        /\ Len(SubSeq(s, c - cap + 1, c))
             = IF c - cap + 1 <= c THEN c - (c - cap + 1) + 1 ELSE 0
        /\ \A i \in 1 .. c - (c - cap + 1) + 1 :
             SubSeq(s, c - cap + 1, c)[i] = s[c - cap + 1 + i - 1]
    BY <2>2, SubSeqProperties
  <2>4. Len(SubSeq(s, c - cap + 1, c)) = cap
    BY <1>1, <1>2, <2>3
  <2>5. \A i \in 1 .. cap : SubSeq(s, c - cap + 1, c)[i] = s[c - cap + i]
                             /\ c - cap + i \in 1 .. c
    BY <1>1, <1>2, <1>7, <2>3
  <2>6. QED
    BY <1>6, <2>1, <2>3, <2>4, <2>5 DEF Known
<1>8. ASSUME c <= cap PROVE Activity!Trimmed = s
  <2> HIDE DEF at, rank, S, n, s
  <2> QED
    BY <1>4, <1>5, <1>8 DEF Activity!LastOf
<1>9. Known(Activity!Trimmed) /\ Len(Activity!Trimmed) <= cap
  <2> HIDE DEF at, c, rank, S, n, s, cap
  <2>1. CASE c > cap
    BY <1>1, <1>7, <2>1
  <2>2. CASE c <= cap
    BY <1>5, <1>6, <1>8, <2>2 DEF Known
  <2>3. QED
    BY <1>1, <1>2, <2>1, <2>2
<1>10. ASSUME NEW l \in Activity!SpanLabels, Cardinality(Activity!Seen) <= cap,
              Keeps(ring, l)
       PROVE  Keeps(Activity!Trimmed, l)
  <2>1. PICK i \in 1 .. n :
          ring[i] = <<l, totals[l].slow>> /\ \A j \in i + 1 .. n : ring[j][1] # l
    BY <1>10 DEF Keeps, Newest
  <2>2. i \in S
    <3>1. Activity!Newer(i) = {}
      BY <2>1 DEF Activity!Newer
    <3>2. Cardinality(Activity!Newer(i)) = 0
      BY <3>1, FS_EmptySet
    <3>3. 0 < Activity!PerLabel
      <4>1. CASE ACTIVITY_ENTRIES_KEPT \div Activity!Cardinality(Activity!Seen) > 1
        <5> DEFINE d == ACTIVITY_ENTRIES_KEPT \div Activity!Cardinality(Activity!Seen)
        <5>1. Activity!PerLabel = d /\ d > 1
          BY <4>1 DEF Activity!PerLabel
        <5>2. Cardinality(Activity!Seen) # 0
          <6>1. ring[i][1] \in Activity!Seen
            BY DEF Known
          <6>2. QED
            BY <6>1, ActivityFacts, FS_EmptySet
        <5>3. d \in Int
          BY <5>2, ActivityFacts, Sizes
        <5> HIDE DEF d
        <5>4. QED
          BY <5>1, <5>3
      <4>2. CASE ~(ACTIVITY_ENTRIES_KEPT \div Activity!Cardinality(Activity!Seen) > 1)
        BY <4>2 DEF Activity!PerLabel
      <4>3. QED
        BY <4>1, <4>2
    <3>4. QED
      BY <3>2, <3>3, Sizes DEF Activity!Among
  <2>3. c <= cap
    <3>1. Len(ring) # 0
      BY <2>1, <1>1
    <3>2. QED
      BY <1>10, <3>1, AmongFits
  <2> DEFINE m == rank(i) + 1
  <2>4. m \in 1 .. c /\ rank(i) = m - 1
    <3>1. rank(i) \in 0 .. c - 1
      BY <1>2, <2>2
    <3> HIDE DEF rank, c
    <3>2. QED
      BY <1>2, <3>1
  <2> HIDE DEF at, c, rank, S, s, m, cap
  <2>5. /\ at(m) = i
        /\ \A j \in m + 1 .. c : at(j) \in i + 1 .. n
    <3>1. \A j \in 1 .. c : at(j) \in S /\ at(j) \in 1 .. n /\ rank(at(j)) = j - 1
      BY <1>1, <1>3
    <3>2. \A j \in 1 .. c : at(j) < i => j < m
      BY <1>2, <2>2, <2>4, <3>1
    <3>3. \A j \in 1 .. c : i < at(j) => m < j
      BY <1>2, <2>2, <2>4, <3>1
    <3>4. at(m) = i
      BY <1>1, <2>2, <2>4, <3>1, <3>2, <3>3
    <3>5. \A j \in m + 1 .. c : j \in 1 .. c /\ ~(j < m) /\ j # m
      BY <1>2, <2>4
    <3>6. \A j \in m + 1 .. c : at(j) # i
      BY <2>4, <3>1, <3>5
    <3>7. QED
      BY <1>1, <2>1, <3>1, <3>2, <3>4, <3>5, <3>6
  <2>6. s[m] = <<l, totals[l].slow>>
    BY <1>5, <2>1, <2>4, <2>5
  <2>7. \A j \in m + 1 .. c : s[j][1] # l
    <3>1. \A j \in m + 1 .. c : j \in 1 .. c
      BY <1>2, <2>4
    <3>2. QED
      BY <1>5, <2>1, <2>5, <3>1
  <2>8. QED
    BY <1>5, <1>8, <2>3, <2>4, <2>6, <2>7 DEF Keeps, Newest
<1>11. QED
  BY <1>9, <1>10

\* The steps of a note.
Stages == {"acquire", "count", "append", "trim", "store", "release"}

\* A note in progress.
Frame == [stage : Stages, label : Activity!Labels, slow : BOOLEAN, kept : Seq(Entries)]

\* The types of the log.
ActivityTypes ==
    /\ stack \in [Activity!Threads -> Seq(Frame)]
    /\ owner \in [by : Activity!Threads \cup {None}, depth : 0 .. 2]
    /\ totals \in [Activity!Labels -> [count : Nat, slow : Nat]]
    /\ window \in [Activity!Labels -> Nat]
    /\ drained \in [Activity!Labels -> Nat] /\ holding \in [Activity!Labels -> Nat]
    /\ Known(ring)

\* A thread is in one note, or in one that the note of a collection interrupts.
OnlyCollectionsInterrupt ==
    \A t \in Activity!Threads :
        /\ Len(stack[t]) <= 2
        /\ Len(stack[t]) = 2 =>
             stack[t][1].label \in Activity!SpanLabels
             /\ stack[t][2].label \in Activity!Collections

\* The i-th note of a thread is past its acquire.
Inside(t, i) == i <= Len(stack[t]) /\ stack[t][i].stage # "acquire"

\* How many of a thread's notes hold the lock.
Taken(t) == (IF Inside(t, 1) THEN 1 ELSE 0) + (IF Inside(t, 2) THEN 1 ELSE 0)

\* The lock's depth is the number of its owner's notes that hold it, and no
\* other thread's note does: what a lock that may be taken again promises.
LockCounts ==
    /\ owner.depth = 0 <=> owner.by = None
    /\ \A t \in Activity!Threads : Taken(t) = IF owner.by = t THEN owner.depth ELSE 0

\* A note that is past its count is of a counted label, and one about to store
\* has what a trim returned.
NotesKnown ==
    \A t \in Activity!Threads : \A i \in 1 .. Len(stack[t]) :
        /\ stack[t][i].stage \in {"append", "trim", "store", "release"} =>
             stack[t][i].label \in Activity!Seen
        /\ stack[t][i].stage = "store" =>
             Known(stack[t][i].kept) /\ Len(stack[t][i].kept) <= ACTIVITY_ENTRIES_KEPT

\* The ring is longer than its cap only between an append and a store.
RingBounded ==
    (\A t \in Activity!Threads : \A i \in 1 .. Len(stack[t]) :
        stack[t][i].stage \notin {"trim", "store"})
    => Len(ring) <= ACTIVITY_ENTRIES_KEPT

\* A slow note of a label is between its count and its append.
Noting(l) ==
    \E t \in Activity!Threads : \E i \in 1 .. Len(stack[t]) :
        stack[t][i].label = l /\ stack[t][i].stage = "append"

\* The newest entry of a span is in the ring, and in each list that a note is
\* about to store over the ring: the collection that interrupts a note must not
\* bring back a ring without the entry, nor the note after it.
NewestKept ==
    \A l \in Activity!SpanLabels :
        totals[l].slow > 0 /\ ~Noting(l)
            /\ Cardinality(Activity!Seen) <= ACTIVITY_ENTRIES_KEPT =>
          /\ Keeps(ring, l)
          /\ \A t \in Activity!Threads : \A i \in 1 .. Len(stack[t]) :
               stack[t][i].stage = "store" => Keeps(stack[t][i].kept, l)

\* EvidenceKept and HeldOnce with what makes them inductive.
ActivityInv ==
    /\ ActivityTypes /\ OnlyCollectionsInterrupt /\ LockCounts
    /\ NotesKnown /\ RingBounded /\ NewestKept /\ Activity!HeldOnce

\* At the start no note is in progress.
LEMMA ActivityInit == Activity!Init => ActivityInv
<1> SUFFICES ASSUME Activity!Init PROVE ActivityInv
  OBVIOUS
<1>0. ring = << >> /\ Len(ring) = 0 /\ \A t \in Activity!Threads : stack[t] = << >>
  BY DEF Activity!Init
<1>1. ActivityTypes
  <2>1. Known(ring)
    BY <1>0 DEF Known
  <2>2. stack \in [Activity!Threads -> Seq(Frame)]
    BY DEF Activity!Init
  <2>3. QED
    BY <2>1, <2>2 DEF Activity!Init, ActivityTypes
<1>2. \A t \in Activity!Threads : Len(stack[t]) = 0
  BY <1>0
<1>3. OnlyCollectionsInterrupt /\ LockCounts /\ NotesKnown /\ RingBounded
  BY <1>0, <1>2, ActivityFacts
     DEF Activity!Init, OnlyCollectionsInterrupt, LockCounts, Taken, Inside, NotesKnown,
         RingBounded
<1>4. NewestKept
  BY ActivityFacts DEF Activity!Init, NewestKept
<1>5. Activity!HeldOnce
  BY DEF Activity!Init, Activity!HeldOnce
<1>6. QED
  BY <1>1, <1>3, <1>4, <1>5 DEF ActivityInv

\* A thread in a note has an innermost one.
LEMMA TopFrame ==
    ASSUME ActivityTypes, NEW t \in Activity!Threads, stack[t] # << >>
    PROVE  /\ Len(stack[t]) \in Nat \ {0} /\ Activity!Top(t) \in Frame
           /\ Activity!Top(t) = stack[t][Len(stack[t])]
<1>1. stack[t] \in Seq(Frame)
  BY DEF ActivityTypes
<1>2. Len(stack[t]) \in Nat \ {0}
  BY <1>1, EmptySeq, LenProperties
<1>3. QED
  BY <1>1, <1>2, ElementOfSeq DEF Activity!Top

\* What a change of a thread's innermost note leaves alone.
LEMMA TopChanged ==
    ASSUME ActivityTypes, NEW t \in Activity!Threads, stack[t] # << >>, NEW f \in Frame,
           stack' = [stack EXCEPT ![t] = [stack[t] EXCEPT ![Len(stack[t])] = f]]
    PROVE  /\ stack' \in [Activity!Threads -> Seq(Frame)]
           /\ \A u \in Activity!Threads : Len(stack'[u]) = Len(stack[u])
           /\ stack'[t][Len(stack[t])] = f
           /\ \A u \in Activity!Threads : \A i \in 1 .. Len(stack[u]) :
                ~(u = t /\ i = Len(stack[t])) => stack'[u][i] = stack[u][i]
<1>1. stack[t] \in Seq(Frame) /\ Len(stack[t]) \in 1 .. Len(stack[t])
  BY TopFrame DEF ActivityTypes
<1> DEFINE s == [stack[t] EXCEPT ![Len(stack[t])] = f]
<1>2. /\ s \in Seq(Frame) /\ Len(s) = Len(stack[t])
      /\ \A j \in 1 .. Len(stack[t]) : s[j] = IF j = Len(stack[t]) THEN f ELSE stack[t][j]
  BY <1>1, ExceptSeq
<1> HIDE DEF s
<1>3. \A u \in Activity!Threads : stack'[u] = IF u = t THEN s ELSE stack[u]
  BY DEF ActivityTypes, s
<1>4. stack' \in [Activity!Threads -> Seq(Frame)]
  BY <1>2 DEF ActivityTypes, s
<1>5. QED
  BY <1>1, <1>2, <1>3, <1>4

\* A note past its acquire owns the lock, no other thread is past its own, and
\* a span's note that is innermost is the only one past it at all.
LEMMA Alone ==
    ASSUME ActivityTypes, OnlyCollectionsInterrupt, LockCounts,
           NEW t \in Activity!Threads, stack[t] # << >>,
           Activity!Top(t).stage # "acquire"
    PROVE  /\ owner.by = t /\ owner.depth \in 1 .. 2
           /\ \A u \in Activity!Threads : \A i \in 1 .. Len(stack[u]) :
                stack[u][i].stage # "acquire" => u = t
           /\ Activity!Top(t).label \in Activity!SpanLabels =>
                \A u \in Activity!Threads : \A i \in 1 .. Len(stack[u]) :
                  stack[u][i].stage # "acquire" => u = t /\ i = Len(stack[t])
<1>1. /\ Len(stack[t]) \in 1 .. 2 /\ Activity!Top(t) = stack[t][Len(stack[t])]
      /\ \A u \in Activity!Threads : Len(stack[u]) \in Nat /\ Len(stack[u]) <= 2
  <2>1. \A u \in Activity!Threads : Len(stack[u]) <= 2
    BY DEF OnlyCollectionsInterrupt
  <2>2. \A u \in Activity!Threads : stack[u] \in Seq(Frame)
    BY DEF ActivityTypes
  <2>3. \A u \in Activity!Threads : Len(stack[u]) \in Nat
    BY <2>2, LenProperties
  <2>4. Len(stack[t]) \in Nat \ {0} /\ Activity!Top(t) = stack[t][Len(stack[t])]
    BY TopFrame
  <2>5. Len(stack[t]) \in 1 .. 2
    <3>1. Len(stack[t]) <= 2
      BY <2>1, Zenon
    <3> DEFINE n == Len(stack[t])
    <3>2. n \in Nat \ {0} /\ n <= 2
      BY <2>4, <3>1
    <3> HIDE DEF n
    <3>3. n \in 1 .. 2
      BY <3>2
    <3>4. QED
      BY <3>3 DEF n
  <2>6. QED
    BY <2>1, <2>3, <2>4, <2>5, Zenon
<1>2. Inside(t, Len(stack[t]))
  BY <1>1 DEF Inside
<1>3. Taken(t) \in 1 .. 2
  BY <1>1, <1>2 DEF Taken
<1>4. owner.by = t /\ owner.depth \in 1 .. 2
  BY <1>3 DEF LockCounts
<1>5. ASSUME NEW u \in Activity!Threads, u # t, NEW i \in 1 .. Len(stack[u])
      PROVE  stack[u][i].stage = "acquire"
  <2>1. Taken(u) = 0
    BY <1>4, <1>5 DEF LockCounts
  <2>2. i \in 1 .. 2
    BY <1>1
  <2>3. ~Inside(u, i)
    BY <2>1, <2>2 DEF Taken
  <2>4. QED
    BY <2>3 DEF Inside
<1>6. Activity!Top(t).label \in Activity!SpanLabels => Len(stack[t]) = 1
  BY <1>1, ActivityFacts DEF OnlyCollectionsInterrupt
<1>7. QED
  BY <1>1, <1>4, <1>5, <1>6

\* After a step the n-th note of a thread is f and every other is as it was.
Replaced(t, n, f) ==
    /\ stack' \in [Activity!Threads -> Seq(Frame)]
    /\ n \in 1 .. Len(stack'[t]) /\ stack'[t][n] = f
    /\ \A u \in Activity!Threads : \A i \in 1 .. Len(stack'[u]) :
         (u = t /\ i = n) \/ (i \in 1 .. Len(stack[u]) /\ stack'[u][i] = stack[u][i])
    /\ \A u \in Activity!Threads : \A i \in 1 .. Len(stack[u]) :
         (u = t /\ i = n) \/ (i \in 1 .. Len(stack'[u]) /\ stack'[u][i] = stack[u][i])

\* A step that changes the innermost note, but not its label, replaces it.
LEMMA TopReplaced ==
    ASSUME ActivityTypes, OnlyCollectionsInterrupt,
           NEW t \in Activity!Threads, stack[t] # << >>, NEW f \in Frame,
           f.label = Activity!Top(t).label,
           stack' = [stack EXCEPT ![t] = [stack[t] EXCEPT ![Len(stack[t])] = f]]
    PROVE  /\ Replaced(t, Len(stack[t]), f) /\ OnlyCollectionsInterrupt'
           /\ Len(stack[t]) \in 1 .. 2 /\ Activity!Top(t) = stack[t][Len(stack[t])]
           /\ Activity!Top(t) \in Frame
<1>1. \A u \in Activity!Threads : stack[u] \in Seq(Frame) /\ Len(stack[u]) \in Nat
  BY LenProperties DEF ActivityTypes
<1>2. /\ Len(stack[t]) \in Nat \ {0} /\ Activity!Top(t) = stack[t][Len(stack[t])]
      /\ Activity!Top(t) \in Frame
  BY TopFrame
<1>3. Len(stack[t]) \in 1 .. 2
  <2>1. Len(stack[t]) <= 2
    BY DEF OnlyCollectionsInterrupt
  <2> DEFINE n == Len(stack[t])
  <2>2. n \in Nat \ {0} /\ n <= 2
    BY <1>2, <2>1
  <2> HIDE DEF n
  <2>3. n \in 1 .. 2
    BY <2>2
  <2>4. QED
    BY <2>3 DEF n
<1>4. /\ stack' \in [Activity!Threads -> Seq(Frame)]
      /\ \A u \in Activity!Threads : Len(stack'[u]) = Len(stack[u])
      /\ stack'[t][Len(stack[t])] = f
      /\ \A u \in Activity!Threads : \A i \in 1 .. Len(stack[u]) :
           ~(u = t /\ i = Len(stack[t])) => stack'[u][i] = stack[u][i]
  BY TopChanged
<1>5. Replaced(t, Len(stack[t]), f)
  BY <1>2, <1>4 DEF Replaced
<1>6. OnlyCollectionsInterrupt'
  <2>1. \A u \in Activity!Threads : \A i \in 1 .. Len(stack[u]) :
          stack'[u][i].label = stack[u][i].label
    BY <1>2, <1>4
  <2>2. ASSUME NEW u \in Activity!Threads, Len(stack'[u]) = 2
        PROVE  /\ stack'[u][1].label \in Activity!SpanLabels
               /\ stack'[u][2].label \in Activity!Collections
    <3>1. Len(stack[u]) = 2 /\ 1 \in 1 .. Len(stack[u]) /\ 2 \in 1 .. Len(stack[u])
      <4>1. Len(stack[u]) = 2
        BY <1>4, <2>2, Zenon
      <4>2. 1 \in 1 .. 2 /\ 2 \in 1 .. 2
        OBVIOUS
      <4>3. QED
        BY <4>1, <4>2
    <3>2. QED
      BY <2>1, <3>1 DEF OnlyCollectionsInterrupt
  <2>3. QED
    BY <1>4, <2>2 DEF OnlyCollectionsInterrupt
<1>7. QED
  BY <1>2, <1>3, <1>5, <1>6

\* The same of a step that only moves on.
LEMMA GotoReplaces ==
    ASSUME ActivityTypes, OnlyCollectionsInterrupt,
           NEW t \in Activity!Threads, stack[t] # << >>, NEW stage \in Stages,
           stack' = Activity!Goto(t, stage)
    PROVE  /\ Replaced(t, Len(stack[t]), [Activity!Top(t) EXCEPT !.stage = stage])
           /\ OnlyCollectionsInterrupt'
           /\ Len(stack[t]) \in 1 .. 2 /\ Activity!Top(t) = stack[t][Len(stack[t])]
           /\ Activity!Top(t) \in Frame
           /\ stack'[t][Len(stack[t])].stage = stage
<1> DEFINE f == [Activity!Top(t) EXCEPT !.stage = stage]
<1>1. Activity!Top(t) \in Frame
  BY TopFrame
<1>2. f \in Frame /\ f.label = Activity!Top(t).label /\ f.stage = stage
  BY <1>1 DEF Frame
<1>3. stack' = [stack EXCEPT ![t] = [stack[t] EXCEPT ![Len(stack[t])] = f]]
  BY DEF Activity!Goto, Activity!Top
<1> HIDE DEF f
<1>4. QED
  BY <1>2, <1>3, TopReplaced DEF f, Replaced

\* A note that does not cross its acquire leaves the lock as it is.
LEMMA LockKept ==
    ASSUME ActivityTypes, LockCounts, NEW t \in Activity!Threads, NEW n \in 1 .. 2,
           NEW f \in Frame, Replaced(t, n, f), owner' = owner,
           f.stage = "acquire" <=> ~Inside(t, n)
    PROVE  LockCounts'
<1>1. \A u \in Activity!Threads : Len(stack[u]) \in Nat /\ Len(stack'[u]) \in Nat
  BY LenProperties DEF ActivityTypes, Replaced
<1>2. \A u \in Activity!Threads : \A i \in 1 .. 2 : Inside(u, i)' <=> Inside(u, i)
  <2> TAKE u \in Activity!Threads
  <2> TAKE i \in 1 .. 2
  <2>1. CASE u = t /\ i = n
    BY <1>1, <2>1 DEF Inside, Replaced
  <2>2. CASE ~(u = t /\ i = n)
    <3>1. i \in 1 .. Len(stack'[u]) <=> i \in 1 .. Len(stack[u])
      BY <2>2 DEF Replaced
    <3>2. i \in 1 .. Len(stack[u]) => stack'[u][i] = stack[u][i]
      BY <2>2 DEF Replaced
    <3>3. /\ i \in 1 .. Len(stack'[u]) <=> i <= Len(stack'[u])
          /\ i \in 1 .. Len(stack[u]) <=> i <= Len(stack[u])
      BY <1>1
    <3>4. QED
      BY <3>1, <3>2, <3>3 DEF Inside
  <2>3. QED
    BY <2>1, <2>2
<1>3. \A u \in Activity!Threads : Taken(u)' = Taken(u)
  BY <1>2 DEF Taken
<1>4. QED
  BY <1>3 DEF LockCounts

\* The labels counted depend on the totals alone.
LEMMA SeenKept == totals' = totals => Activity!Seen' = Activity!Seen
BY DEF Activity!Seen

\* The replacement of one note by one that is known keeps the others known.
LEMMA NotesKept ==
    ASSUME ActivityTypes, NotesKnown, totals' = totals, NEW t \in Activity!Threads, NEW n,
           NEW f \in Frame, Replaced(t, n, f),
           f.stage \in {"append", "trim", "store", "release"} => f.label \in Activity!Seen,
           f.stage = "store" => Known(f.kept) /\ Len(f.kept) <= ACTIVITY_ENTRIES_KEPT
    PROVE  NotesKnown'
<1>1. Activity!Seen' = Activity!Seen
  BY SeenKept
<1>2. ASSUME NEW u \in Activity!Threads, NEW i \in 1 .. Len(stack'[u])
      PROVE  /\ stack'[u][i].stage \in {"append", "trim", "store", "release"} =>
                  stack'[u][i].label \in Activity!Seen
             /\ stack'[u][i].stage = "store" =>
                  Known(stack'[u][i].kept) /\ Len(stack'[u][i].kept) <= ACTIVITY_ENTRIES_KEPT
  <2>1. CASE u = t /\ i = n
    BY <2>1 DEF Replaced
  <2>2. CASE ~(u = t /\ i = n)
    <3>1. i \in 1 .. Len(stack[u]) /\ stack'[u][i] = stack[u][i]
      BY <2>2 DEF Replaced
    <3>2. QED
      BY <3>1 DEF NotesKnown
  <2>3. QED
    BY <2>1, <2>2
<1>3. QED
  BY <1>1, <1>2 DEF NotesKnown, Known

\* A step to and from stages that do not touch the ring keeps what the ring has.
LEMMA QuietStep ==
    ASSUME ActivityInv, NEW t \in Activity!Threads, NEW n \in 1 .. 2, NEW f \in Frame,
           Replaced(t, n, f), f.stage \notin {"append", "trim", "store"},
           n \in 1 .. Len(stack[t]) =>
             stack[t][n].stage \notin {"append", "trim", "store"},
           UNCHANGED <<totals, ring>>
    PROVE  RingBounded' /\ NewestKept'
<1>1. RingBounded'
  <2> SUFFICES ASSUME \A u \in Activity!Threads : \A i \in 1 .. Len(stack'[u]) :
                        stack'[u][i].stage \notin {"trim", "store"}
               PROVE  Len(ring) <= ACTIVITY_ENTRIES_KEPT
    BY DEF RingBounded
  <2>1. ASSUME NEW u \in Activity!Threads, NEW i \in 1 .. Len(stack[u])
        PROVE  stack[u][i].stage \notin {"trim", "store"}
    <3>1. CASE u = t /\ i = n
      BY <3>1
    <3>2. CASE ~(u = t /\ i = n)
      BY <3>2 DEF Replaced
    <3>3. QED
      BY <3>1, <3>2
  <2>2. QED
    BY <2>1 DEF ActivityInv, RingBounded
<1>2. ASSUME NEW l \in Activity!SpanLabels, totals[l].slow > 0, ~Noting(l)',
             Cardinality(Activity!Seen) <= ACTIVITY_ENTRIES_KEPT
      PROVE  /\ Keeps(ring, l)
             /\ \A u \in Activity!Threads : \A i \in 1 .. Len(stack'[u]) :
                  stack'[u][i].stage = "store" => Keeps(stack'[u][i].kept, l)
  <2>1. ~Noting(l)
    <3> SUFFICES ASSUME NEW u \in Activity!Threads, NEW i \in 1 .. Len(stack[u]),
                        stack[u][i].label = l /\ stack[u][i].stage = "append"
                 PROVE  FALSE
      BY DEF Noting
    <3>1. ~(u = t /\ i = n)
      OBVIOUS
    <3>2. i \in 1 .. Len(stack'[u]) /\ stack'[u][i] = stack[u][i]
      BY <3>1 DEF Replaced
    <3>3. QED
      BY <1>2, <3>2 DEF Noting
  <2>2. /\ Keeps(ring, l)
        /\ \A u \in Activity!Threads : \A i \in 1 .. Len(stack[u]) :
             stack[u][i].stage = "store" => Keeps(stack[u][i].kept, l)
    BY <1>2, <2>1 DEF ActivityInv, NewestKept
  <2>3. QED
    BY <2>2 DEF Replaced
<1>3. NewestKept'
  <2>1. Activity!Seen' = Activity!Seen
    BY SeenKept
  <2>2. QED
    BY <1>2, <2>1 DEF NewestKept, Keeps
<1>4. QED
  BY <1>1, <1>3

\* A note that begins, or that a collection puts on top of another.
LEMMA PushStep ==
    ASSUME ActivityInv, NEW t \in Activity!Threads, NEW l \in Activity!Labels,
           NEW slow \in BOOLEAN,
           \/ Len(stack[t]) = 0
           \/ /\ Len(stack[t]) = 1 /\ stack[t][1].label \in Activity!SpanLabels
              /\ l \in Activity!Collections,
           stack' = [stack EXCEPT ![t] = Append(stack[t], Activity!Note(l, slow))],
           UNCHANGED <<owner, totals, window, ring, relabel, drained, holding, samples>>
    PROVE  ActivityInv'
<1> DEFINE f == Activity!Note(l, slow)
           n == Len(stack[t]) + 1
<1>1. f \in Frame /\ f.stage = "acquire" /\ f.label = l
  BY DEF Activity!Note, Frame, Stages
<1> HIDE DEF f
<1>2. \A u \in Activity!Threads : stack[u] \in Seq(Frame) /\ Len(stack[u]) \in Nat
  BY LenProperties DEF ActivityInv, ActivityTypes
<1>3. /\ Append(stack[t], f) \in Seq(Frame) /\ Len(Append(stack[t], f)) = n
      /\ \A i \in 1 .. Len(stack[t]) : Append(stack[t], f)[i] = stack[t][i]
      /\ Append(stack[t], f)[n] = f
  BY <1>1, <1>2, AppendProperties
<1>4. /\ stack' \in [Activity!Threads -> Seq(Frame)]
      /\ stack'[t] = Append(stack[t], f)
      /\ \A u \in Activity!Threads : u # t => stack'[u] = stack[u]
  <2>1. stack' = [stack EXCEPT ![t] = Append(stack[t], f)]
    BY DEF f
  <2>2. QED
    BY <1>3, <2>1 DEF ActivityInv, ActivityTypes
<1>5. n \in 1 .. 2
  <2>1. Len(stack[t]) = 0 \/ Len(stack[t]) = 1
    OBVIOUS
  <2>2. \A m \in Nat : m = 0 \/ m = 1 => m + 1 \in 1 .. 2
    OBVIOUS
  <2>3. QED
    BY <1>2, <2>1, <2>2
<1>6. Replaced(t, n, f)
  <2>1. n \in 1 .. Len(stack'[t]) /\ stack'[t][n] = f
    BY <1>3, <1>4, <1>5
  <2>2. ASSUME NEW u \in Activity!Threads, NEW i \in 1 .. Len(stack'[u])
        PROVE  (u = t /\ i = n) \/ (i \in 1 .. Len(stack[u]) /\ stack'[u][i] = stack[u][i])
    <3>1. CASE u = t
      <4>1. i \in 1 .. Len(stack[t]) + 1
        BY <1>3, <1>4, <3>1
      <4>2. i = n \/ i \in 1 .. Len(stack[t])
        BY <1>2, <4>1
      <4>3. QED
        BY <1>3, <1>4, <3>1, <4>2
    <3>2. CASE u # t
      BY <1>4, <3>2
    <3>3. QED
      BY <3>1, <3>2
  <2>3. ASSUME NEW u \in Activity!Threads, NEW i \in 1 .. Len(stack[u])
        PROVE  (u = t /\ i = n) \/ (i \in 1 .. Len(stack'[u]) /\ stack'[u][i] = stack[u][i])
    <3>1. CASE u = t
      <4>1. i \in 1 .. Len(Append(stack[t], f)) /\ Append(stack[t], f)[i] = stack[t][i]
        BY <1>2, <1>3, <3>1
      <4>2. QED
        BY <1>4, <3>1, <4>1
    <3>2. CASE u # t
      BY <1>4, <3>2
    <3>3. QED
      BY <3>1, <3>2
  <2>4. QED
    BY <1>4, <2>1, <2>2, <2>3 DEF Replaced
<1>7. n \notin 1 .. Len(stack[t]) /\ ~(n <= Len(stack[t]))
  BY <1>2
<1> HIDE DEF n
<1>8. Activity!Seen' = Activity!Seen
  BY SeenKept
<1>9. ActivityTypes'
  BY <1>4, <1>8 DEF ActivityInv, ActivityTypes, Known
<1>10. OnlyCollectionsInterrupt'
  <2>1. ASSUME NEW u \in Activity!Threads, u # t
        PROVE  /\ Len(stack'[u]) <= 2
               /\ Len(stack'[u]) = 2 => stack'[u][1].label \in Activity!SpanLabels
                                        /\ stack'[u][2].label \in Activity!Collections
    BY <1>4, <2>1 DEF ActivityInv, OnlyCollectionsInterrupt
  <2>2. Len(stack'[t]) = n /\ Len(stack'[t]) <= 2
    BY <1>3, <1>4, <1>5
  <2>3. ASSUME Len(stack'[t]) = 2
        PROVE  stack'[t][1].label \in Activity!SpanLabels
               /\ stack'[t][2].label \in Activity!Collections
    <3>1. Len(stack[t]) = 1 /\ n = 2
      BY <1>2, <2>2, <2>3 DEF n
    <3>2. stack'[t][1] = stack[t][1] /\ stack'[t][2] = f
      BY <1>3, <1>4, <3>1
    <3>3. QED
      BY <1>1, <3>1, <3>2
  <2>4. QED
    BY <2>1, <2>2, <2>3 DEF OnlyCollectionsInterrupt
<1>11. LockCounts'
  BY <1>1, <1>5, <1>6, <1>7, LockKept DEF ActivityInv, Inside
<1>12. NotesKnown'
  BY <1>1, <1>6, NotesKept DEF ActivityInv
<1>13. RingBounded' /\ NewestKept'
  BY <1>1, <1>5, <1>6, <1>7, QuietStep
<1>14. Activity!HeldOnce'
  BY DEF ActivityInv, Activity!HeldOnce
<1>15. QED
  BY <1>9, <1>10, <1>11, <1>12, <1>13, <1>14 DEF ActivityInv

\* The end of a span, and of a collection on any thread, between any two steps.
LEMMA BeginStep ==
    ASSUME ActivityInv, NEW t \in Activity!Threads, NEW slow \in BOOLEAN,
           \/ Activity!Collect(t, slow)
           \/ \E l \in Activity!SpanLabels : Activity!EndSpan(t, l, slow)
    PROVE  ActivityInv'
<1>1. stack[t] \in Seq(Frame) /\ Len(stack[t]) \in Nat /\ Len(stack[t]) <= 2
  BY LenProperties DEF ActivityInv, ActivityTypes, OnlyCollectionsInterrupt
<1>2. CASE Activity!Collect(t, slow)
  <2> DEFINE l == IF relabel /\ t = LoopThread THEN "gc_maintenance" ELSE "gc_gen2"
  <2>1. l \in Activity!Collections /\ l \in Activity!Labels
    BY DEF Activity!Collections, Activity!Labels
  <2> HIDE DEF l
  <2>2. /\ stack' = [stack EXCEPT ![t] = Append(stack[t], Activity!Note(l, slow))]
        /\ UNCHANGED <<owner, totals, window, ring, relabel, drained, holding, samples>>
    BY <1>2 DEF Activity!Collect, l
  <2>3. \A i \in 1 .. Len(stack[t]) : stack[t][i].label \notin Activity!Collections
    BY <1>2 DEF Activity!Collect, Activity!Collecting
  <2>4. Len(stack[t]) # 2
    BY <2>3 DEF ActivityInv, OnlyCollectionsInterrupt
  <2>5. \/ Len(stack[t]) = 0
        \/ Len(stack[t]) = 1 /\ stack[t][1].label \in Activity!SpanLabels
    <3>1. Len(stack[t]) = 0 \/ Len(stack[t]) = 1
      <4> DEFINE m == Len(stack[t])
      <4>1. m \in Nat /\ m <= 2 /\ m # 2
        BY <1>1, <2>4
      <4> HIDE DEF m
      <4>2. m = 0 \/ m = 1
        BY <4>1
      <4>3. QED
        BY <4>2 DEF m
    <3>2. ASSUME Len(stack[t]) = 1 PROVE stack[t][1].label \in Activity!SpanLabels
      <4>1. 1 \in 1 .. Len(stack[t])
        BY <3>2
      <4>2. stack[t][1] \in Frame
        BY <1>1, <4>1, ElementOfSeq
      <4>3. stack[t][1].label \in Activity!Labels
        BY <4>2 DEF Frame
      <4>4. QED
        BY <2>3, <4>1, <4>3 DEF Activity!Labels
    <3>3. QED
      BY <3>1, <3>2
  <2>6. QED
    BY <2>1, <2>2, <2>5, PushStep
<1>3. CASE \E l \in Activity!SpanLabels : Activity!EndSpan(t, l, slow)
  <2>1. PICK l \in Activity!SpanLabels : Activity!EndSpan(t, l, slow)
    BY <1>3
  <2>2. stack[t] = << >> /\ Len(stack[t]) = 0 /\ l \in Activity!Labels
    BY <2>1, ActivityFacts DEF Activity!EndSpan
  <2>3. Append(stack[t], Activity!Note(l, slow)) = <<Activity!Note(l, slow)>>
    BY <2>2
  <2>4. /\ stack' = [stack EXCEPT ![t] = Append(stack[t], Activity!Note(l, slow))]
        /\ UNCHANGED <<owner, totals, window, ring, relabel, drained, holding, samples>>
    BY <2>1, <2>3 DEF Activity!EndSpan
  <2>5. QED
    BY <2>2, <2>4, PushStep
<1>4. QED
  BY <1>2, <1>3

\* A note that takes the lock, for the first or for the second time.
LEMMA AcquireStep ==
    ASSUME ActivityInv, NEW t \in Activity!Threads, Activity!Acquire(t) PROVE ActivityInv'
<1> DEFINE f == [Activity!Top(t) EXCEPT !.stage = "count"]
<1>1. /\ stack[t] # << >> /\ Activity!Top(t).stage = "acquire"
      /\ stack' = Activity!Goto(t, "count") /\ owner.by \in {None, t}
      /\ owner' = [by |-> t, depth |-> owner.depth + 1]
      /\ UNCHANGED <<totals, window, ring, relabel, drained, holding, samples>>
  BY DEF Activity!Acquire, Activity!At, Activity!MayAcquire
<1>2. PICK n \in 1 .. 2 :
        /\ n = Len(stack[t]) /\ Replaced(t, n, f) /\ OnlyCollectionsInterrupt'
        /\ Activity!Top(t) = stack[t][n] /\ Activity!Top(t) \in Frame
  <2>1. "count" \in Stages
    BY DEF Stages
  <2>2. QED
    BY <1>1, <2>1, GotoReplaces DEF ActivityInv
<1>3. f \in Frame /\ f.stage = "count"
  <2>1. "count" \in Stages
    BY DEF Stages
  <2>2. QED
    BY <1>2, <2>1 DEF Frame
<1>4. \A u \in Activity!Threads : Len(stack[u]) \in Nat /\ Len(stack'[u]) \in Nat
  BY <1>2, LenProperties DEF ActivityInv, ActivityTypes, Replaced
<1> HIDE DEF f
<1>5. ASSUME NEW u \in Activity!Threads, NEW i \in 1 .. 2, ~(u = t /\ i = n)
      PROVE  Inside(u, i)' <=> Inside(u, i)
  <2>1. i \in 1 .. Len(stack'[u]) <=> i \in 1 .. Len(stack[u])
    BY <1>2, <1>5 DEF Replaced
  <2>2. i \in 1 .. Len(stack[u]) => stack'[u][i] = stack[u][i]
    BY <1>2, <1>5 DEF Replaced
  <2>3. /\ i \in 1 .. Len(stack'[u]) <=> i <= Len(stack'[u])
        /\ i \in 1 .. Len(stack[u]) <=> i <= Len(stack[u])
    BY <1>4
  <2>4. QED
    BY <2>1, <2>2, <2>3 DEF Inside
<1>6. ~Inside(t, n) /\ Inside(t, n)'
  <2>1. n \in 1 .. Len(stack'[t]) /\ stack'[t][n] = f
    BY <1>2 DEF Replaced
  <2>2. n <= Len(stack'[t])
    BY <1>4, <2>1
  <2>3. QED
    BY <1>1, <1>2, <1>3, <2>1, <2>2 DEF Inside
<1>7. \A u \in Activity!Threads \ {t} : Taken(u)' = Taken(u)
  BY <1>5 DEF Taken
<1>8. Taken(t)' = Taken(t) + 1 /\ Taken(t) \in 0 .. 1
  <2>1. CASE n = 1
    BY <1>5, <1>6, <2>1 DEF Taken
  <2>2. CASE n = 2
    BY <1>5, <1>6, <2>2 DEF Taken
  <2>3. QED
    BY <1>2, <2>1, <2>2
<1>9. /\ owner.depth \in 0 .. 2 /\ (owner.depth = 0 <=> owner.by = None)
      /\ \A u \in Activity!Threads : Taken(u) = IF owner.by = u THEN owner.depth ELSE 0
      /\ None \notin Activity!Threads
  BY ActivityFacts DEF ActivityInv, ActivityTypes, LockCounts
<1>10. owner.depth = Taken(t)
  <2>1. CASE owner.by = None
    BY <1>9, <2>1
  <2>2. CASE owner.by = t
    BY <1>9, <2>2
  <2>3. QED
    BY <1>1, <2>1, <2>2
<1>11. \A u \in Activity!Threads \ {t} : Taken(u) = 0
  BY <1>1, <1>9
<1>12. owner'.by = t /\ owner'.depth = Taken(t) + 1
  BY <1>1, <1>10
<1>13. LockCounts'
  <2>1. \A u \in Activity!Threads :
          Taken(u)' = IF owner'.by = u THEN owner'.depth ELSE 0
    BY <1>7, <1>8, <1>11, <1>12
  <2>2. owner'.depth = 0 <=> owner'.by = None
    BY <1>8, <1>9, <1>12
  <2>3. QED
    BY <2>1, <2>2 DEF LockCounts
<1>14. ActivityTypes'
  <2>1. owner' \in [by : Activity!Threads \cup {None}, depth : 0 .. 2]
    BY <1>1, <1>8, <1>10
  <2>2. Activity!Seen' = Activity!Seen
    BY <1>1, SeenKept
  <2>3. QED
    BY <1>1, <1>2, <2>1, <2>2 DEF ActivityInv, ActivityTypes, Known, Replaced
<1>15. NotesKnown'
  BY <1>1, <1>2, <1>3, NotesKept DEF ActivityInv
<1>16. RingBounded' /\ NewestKept'
  BY <1>1, <1>2, <1>3, QuietStep
<1>17. Activity!HeldOnce'
  BY <1>1 DEF ActivityInv, Activity!HeldOnce
<1>18. QED
  BY <1>2, <1>13, <1>14, <1>15, <1>16, <1>17 DEF ActivityInv

\* A step between two stages past the acquire leaves the lock as it is.
LEMMA LockHeld ==
    ASSUME ActivityTypes, LockCounts, NEW t \in Activity!Threads, NEW n \in 1 .. 2,
           NEW f \in Frame, Replaced(t, n, f), owner' = owner,
           n = Len(stack[t]), stack[t][n].stage # "acquire", f.stage # "acquire"
    PROVE  LockCounts'
<1>1. Inside(t, n)
  BY DEF Inside
<1>2. QED
  BY <1>1, LockKept

\* A count: a slow note's entry is due from here, in no ring yet.
LEMMA CountStep ==
    ASSUME ActivityInv, NEW t \in Activity!Threads, Activity!Count(t) PROVE ActivityInv'
<1> DEFINE top == Activity!Top(t)
           after == IF top.slow THEN "append" ELSE "release"
           more == IF Activity!HoldsLoop(t) THEN 1 ELSE 0
<1>1. /\ stack[t] # << >> /\ top.stage = "count"
      /\ stack' = Activity!Goto(t, after)
      /\ totals' = [totals EXCEPT ![top.label] =
            [count |-> totals[top.label].count + 1,
             slow |-> totals[top.label].slow + (IF top.slow THEN 1 ELSE 0)]]
      /\ window' = [window EXCEPT ![top.label] = window[top.label] + more]
      /\ holding' = [holding EXCEPT ![top.label] = holding[top.label] + more]
      /\ UNCHANGED <<owner, ring, relabel, drained, samples>>
  BY DEF Activity!Count, Activity!At
<1>2. PICK f : f = [top EXCEPT !.stage = after]
  OBVIOUS
<1>3. PICK n \in 1 .. 2 :
        /\ n = Len(stack[t]) /\ Replaced(t, n, f) /\ OnlyCollectionsInterrupt'
        /\ top = stack[t][n] /\ top \in Frame
  <2>1. after \in Stages
    BY DEF Stages
  <2>2. QED
    BY <1>1, <1>2, <2>1, GotoReplaces DEF ActivityInv
<1>4. PICK x : x = top.label
  OBVIOUS
<1>5. /\ f \in Frame /\ f.label = x /\ f.stage = after /\ x \in Activity!Labels
      /\ top.slow \in BOOLEAN /\ after \in {"append", "release"}
  BY <1>2, <1>3, <1>4 DEF Frame, Stages
<1>6. /\ totals \in [Activity!Labels -> [count : Nat, slow : Nat]]
      /\ totals' = [totals EXCEPT ![x] =
            [count |-> totals[x].count + 1,
             slow |-> totals[x].slow + (IF top.slow THEN 1 ELSE 0)]]
  BY <1>1, <1>4 DEF ActivityInv, ActivityTypes
<1>7. PICK rise \in {0, 1} : rise = (IF top.slow THEN 1 ELSE 0)
  OBVIOUS
<1>8. PICK extra \in {0, 1} : extra = more
  OBVIOUS
<1>9. /\ window \in [Activity!Labels -> Nat] /\ holding \in [Activity!Labels -> Nat]
      /\ drained \in [Activity!Labels -> Nat]
      /\ window' = [window EXCEPT ![x] = window[x] + extra]
      /\ holding' = [holding EXCEPT ![x] = holding[x] + extra]
  BY <1>1, <1>4, <1>8 DEF ActivityInv, ActivityTypes
<1> HIDE DEF more
<1>10. /\ totals' \in [Activity!Labels -> [count : Nat, slow : Nat]]
       /\ totals'[x].count > 0 /\ totals'[x].slow = totals[x].slow + rise
       /\ \A l \in Activity!Labels : l # x => totals'[l] = totals[l]
       /\ totals[x].slow \in Nat
  <2>1. totals' = [totals EXCEPT ![x] =
                     [count |-> totals[x].count + 1, slow |-> totals[x].slow + rise]]
    BY <1>6, <1>7
  <2>2. totals[x] \in [count : Nat, slow : Nat]
    BY <1>5, <1>6
  <2>3. totals[x].count + 1 \in Nat /\ totals[x].slow + rise \in Nat
        /\ totals[x].count + 1 > 0 /\ totals[x].slow \in Nat
    BY <2>2
  <2>4. QED
    BY <1>5, <1>6, <2>1, <2>3
<1>11. Activity!Seen' = Activity!Seen \cup {x}
  BY <1>5, <1>10 DEF Activity!Seen
<1>12. ActivityTypes'
  <2>1. window' \in [Activity!Labels -> Nat] /\ holding' \in [Activity!Labels -> Nat]
    BY <1>5, <1>9
  <2>2. QED
    BY <1>1, <1>3, <1>10, <1>11, <2>1 DEF ActivityInv, ActivityTypes, Known, Replaced
<1>13. LockCounts'
  BY <1>1, <1>3, <1>5, LockHeld DEF ActivityInv
<1>14. NotesKnown'
  <2>1. ASSUME NEW u \in Activity!Threads, NEW i \in 1 .. Len(stack'[u])
        PROVE  /\ stack'[u][i].stage \in {"append", "trim", "store", "release"} =>
                    stack'[u][i].label \in Activity!Seen \cup {x}
               /\ stack'[u][i].stage = "store" =>
                    Known(stack'[u][i].kept) /\ Len(stack'[u][i].kept) <= ACTIVITY_ENTRIES_KEPT
    <3>1. CASE u = t /\ i = n
      BY <1>3, <1>5, <3>1 DEF Replaced
    <3>2. CASE ~(u = t /\ i = n)
      <4>1. i \in 1 .. Len(stack[u]) /\ stack'[u][i] = stack[u][i]
        BY <1>3, <3>2 DEF Replaced
      <4>2. QED
        BY <4>1 DEF ActivityInv, NotesKnown
    <3>3. QED
      BY <3>1, <3>2
  <2>2. QED
    BY <1>11, <2>1 DEF NotesKnown, Known
<1>15. RingBounded'
  <2> SUFFICES ASSUME \A u \in Activity!Threads : \A i \in 1 .. Len(stack'[u]) :
                        stack'[u][i].stage \notin {"trim", "store"}
               PROVE  Len(ring) <= ACTIVITY_ENTRIES_KEPT
    BY <1>1 DEF RingBounded
  <2>1. ASSUME NEW u \in Activity!Threads, NEW i \in 1 .. Len(stack[u])
        PROVE  stack[u][i].stage \notin {"trim", "store"}
    <3>1. CASE u = t /\ i = n
      BY <1>1, <1>3, <3>1
    <3>2. CASE ~(u = t /\ i = n)
      BY <1>3, <3>2 DEF Replaced
    <3>3. QED
      BY <3>1, <3>2
  <2>2. QED
    BY <2>1 DEF ActivityInv, RingBounded
<1>16. NewestKept'
  <2>1. Cardinality(Activity!Seen) <= Cardinality(Activity!Seen \cup {x})
        /\ Cardinality(Activity!Seen) \in Nat /\ Cardinality(Activity!Seen \cup {x}) \in Nat
    <3>1. IsFiniteSet(Activity!Seen \cup {x})
      BY ActivityFacts, FS_AddElement
    <3>2. QED
      BY <3>1, FS_Subset, FS_CardinalityType, ActivityFacts
  <2>2. ASSUME NEW l \in Activity!SpanLabels, totals'[l].slow > 0, ~Noting(l)',
               Cardinality(Activity!Seen \cup {x}) <= ACTIVITY_ENTRIES_KEPT
        PROVE  /\ Newest(ring, l, totals'[l].slow)
               /\ \A u \in Activity!Threads : \A i \in 1 .. Len(stack'[u]) :
                    stack'[u][i].stage = "store" =>
                      Newest(stack'[u][i].kept, l, totals'[l].slow)
    <3>1. ~Noting(l)
      <4> SUFFICES ASSUME NEW u \in Activity!Threads, NEW i \in 1 .. Len(stack[u]),
                          stack[u][i].label = l /\ stack[u][i].stage = "append"
                   PROVE  FALSE
        BY DEF Noting
      <4>1. ~(u = t /\ i = n)
        BY <1>1, <1>3
      <4>2. i \in 1 .. Len(stack'[u]) /\ stack'[u][i] = stack[u][i]
        BY <1>3, <4>1 DEF Replaced
      <4>3. QED
        BY <2>2, <4>2 DEF Noting
    <3>2. totals'[l].slow = totals[l].slow
      <4>1. CASE l # x
        BY <1>10, <4>1, ActivityFacts
      <4>2. CASE l = x
        <5>1. ~(after = "append")
          <6> SUFFICES ASSUME after = "append" PROVE FALSE
            OBVIOUS
          <6>1. n \in 1 .. Len(stack'[t]) /\ stack'[t][n] = f
            BY <1>3 DEF Replaced
          <6>2. QED
            BY <1>5, <2>2, <4>2, <6>1 DEF Noting
        <5>2. rise = 0
          BY <1>7, <5>1
        <5>3. QED
          BY <1>10, <4>2, <5>2
      <4>3. QED
        BY <4>1, <4>2
    <3>3. Cardinality(Activity!Seen) <= ACTIVITY_ENTRIES_KEPT
      <4>1. ACTIVITY_ENTRIES_KEPT \in Nat
        BY ActivityFacts
      <4>2. QED
        BY <2>1, <2>2, <4>1
    <3>4. /\ Keeps(ring, l)
          /\ \A u \in Activity!Threads : \A i \in 1 .. Len(stack[u]) :
               stack[u][i].stage = "store" => Keeps(stack[u][i].kept, l)
      BY <2>2, <3>1, <3>2, <3>3 DEF ActivityInv, NewestKept
    <3>5. QED
      <4>1. Newest(ring, l, totals'[l].slow)
        BY <3>2, <3>4 DEF Keeps
      <4>2. ASSUME NEW u \in Activity!Threads, NEW i \in 1 .. Len(stack'[u]),
                   stack'[u][i].stage = "store"
            PROVE  Newest(stack'[u][i].kept, l, totals'[l].slow)
        <5>1. ~(u = t /\ i = n)
          BY <1>3, <1>5, <4>2 DEF Replaced
        <5>2. i \in 1 .. Len(stack[u]) /\ stack'[u][i] = stack[u][i]
          BY <1>3, <5>1 DEF Replaced
        <5>3. QED
          BY <3>2, <3>4, <4>2, <5>2 DEF Keeps
      <4>3. QED
        BY <4>1, <4>2
  <2>3. QED
    BY <1>1, <1>11, <2>2 DEF NewestKept, Keeps
<1>17. Activity!HeldOnce'
  <2>1. ASSUME NEW l \in Activity!Labels
        PROVE  drained'[l] + window'[l] = holding'[l]
    <3>1. drained[l] + window[l] = holding[l]
      BY DEF ActivityInv, Activity!HeldOnce
    <3>2. drained[l] \in Nat /\ window[l] \in Nat /\ holding[l] \in Nat
      BY <1>9
    <3>3. /\ window'[l] = IF l = x THEN window[l] + extra ELSE window[l]
          /\ holding'[l] = IF l = x THEN holding[l] + extra ELSE holding[l]
      BY <1>9
    <3>4. QED
      BY <1>1, <3>1, <3>2, <3>3
  <2>2. QED
    BY <2>1 DEF Activity!HeldOnce
<1>18. QED
  BY <1>3, <1>12, <1>13, <1>14, <1>15, <1>16, <1>17 DEF ActivityInv

\* An append: by Alone, no older list is about to be stored over it.
LEMMA AppendStep ==
    ASSUME ActivityInv, NEW t \in Activity!Threads, Activity!AppendSlow(t)
    PROVE  ActivityInv'
<1> DEFINE top == Activity!Top(t)
<1>1. /\ stack[t] # << >> /\ top.stage = "append"
      /\ stack' = Activity!Goto(t, "trim")
      /\ ring' = Append(ring, <<top.label, totals[top.label].slow>>)
      /\ UNCHANGED <<owner, totals, window, relabel, drained, holding, samples>>
  BY DEF Activity!AppendSlow, Activity!At
<1>2. PICK f : f = [top EXCEPT !.stage = "trim"]
  OBVIOUS
<1>3. PICK n \in 1 .. 2 :
        /\ n = Len(stack[t]) /\ Replaced(t, n, f) /\ OnlyCollectionsInterrupt'
        /\ top = stack[t][n] /\ top \in Frame
  <2>1. "trim" \in Stages
    BY DEF Stages
  <2>2. QED
    BY <1>1, <1>2, <2>1, GotoReplaces DEF ActivityInv
<1>4. PICK x : x = top.label
  OBVIOUS
<1>5. /\ f \in Frame /\ f.label = x /\ f.stage = "trim" /\ x \in Activity!Labels
      /\ x \in Activity!Seen
  <2>1. f \in Frame /\ f.label = x /\ f.stage = "trim" /\ x \in Activity!Labels
    BY <1>2, <1>3, <1>4 DEF Frame, Stages
  <2>2. n \in 1 .. Len(stack[t])
    BY <1>3
  <2>3. QED
    BY <1>1, <1>3, <1>4, <2>1, <2>2 DEF ActivityInv, NotesKnown
<1>6. PICK e : e = <<x, totals[x].slow>>
  OBVIOUS
<1>7. e \in Entries /\ e[1] = x /\ e = <<x, totals[x].slow>>
  BY <1>5, <1>6 DEF Entries, ActivityInv, ActivityTypes
<1>8. ring' = Append(ring, e)
  BY <1>1, <1>4, <1>6
<1>9. /\ Len(ring) \in Nat /\ Len(ring') = Len(ring) + 1 /\ ring' \in Seq(Entries)
      /\ \A i \in 1 .. Len(ring) : ring'[i] = ring[i]
      /\ ring'[Len(ring) + 1] = e
  BY <1>7, <1>8, AppendProperties, LenProperties DEF ActivityInv, ActivityTypes, Known
<1>10. Activity!Seen' = Activity!Seen
  BY <1>1, SeenKept
<1>11. ActivityTypes'
  <2>1. \A i \in 1 .. Len(ring') : ring'[i][1] \in Activity!Seen
    <3> TAKE i \in 1 .. Len(ring')
    <3>1. i \in 1 .. Len(ring) \/ i = Len(ring) + 1
      BY <1>9
    <3>2. QED
      BY <1>5, <1>7, <1>9, <3>1 DEF ActivityInv, ActivityTypes, Known
  <2>2. Known(ring)'
    BY <1>9, <1>10, <2>1 DEF Known
  <2>3. QED
    BY <1>1, <1>3, <2>2 DEF ActivityInv, ActivityTypes, Replaced
<1>12. LockCounts'
  BY <1>1, <1>3, <1>5, LockHeld DEF ActivityInv
<1>13. NotesKnown'
  BY <1>1, <1>3, <1>5, NotesKept DEF ActivityInv
<1>14. RingBounded'
  BY <1>3, <1>5 DEF RingBounded, Replaced
<1>15. ASSUME NEW u \in Activity!Threads, NEW i \in 1 .. Len(stack'[u]),
              stack'[u][i].stage = "store"
       PROVE  ~(u = t /\ i = n) /\ i \in 1 .. Len(stack[u]) /\ stack'[u][i] = stack[u][i]
  <2>1. ~(u = t /\ i = n)
    BY <1>3, <1>5, <1>15 DEF Replaced
  <2>2. QED
    BY <1>3, <2>1 DEF Replaced
<1>16. ASSUME NEW l \in Activity!SpanLabels, totals[l].slow > 0, ~Noting(l)',
              Cardinality(Activity!Seen) <= ACTIVITY_ENTRIES_KEPT
       PROVE  /\ Newest(ring', l, totals[l].slow)
              /\ \A u \in Activity!Threads : \A i \in 1 .. Len(stack'[u]) :
                   stack'[u][i].stage = "store" => Newest(stack'[u][i].kept, l, totals[l].slow)
  <2>1. CASE l = x
    <3>1. Newest(ring', l, totals[l].slow)
      <4>1. \A j \in Len(ring) + 1 + 1 .. Len(ring') : FALSE
        BY <1>9
      <4>2. Len(ring) + 1 \in 1 .. Len(ring')
        BY <1>9
      <4>3. QED
        BY <1>7, <1>9, <2>1, <4>1, <4>2 DEF Newest
    <3>2. \A u \in Activity!Threads : \A i \in 1 .. Len(stack[u]) :
            stack[u][i].stage # "acquire" => u = t /\ i = n
      BY <1>1, <1>3, <1>4, <2>1, Alone DEF ActivityInv
    <3>3. QED
      BY <1>15, <3>1, <3>2
  <2>2. CASE l # x
    <3>1. ~Noting(l)
      <4> SUFFICES ASSUME NEW u \in Activity!Threads, NEW i \in 1 .. Len(stack[u]),
                          stack[u][i].label = l /\ stack[u][i].stage = "append"
                   PROVE  FALSE
        BY DEF Noting
      <4>1. ~(u = t /\ i = n)
        BY <1>3, <1>4, <2>2
      <4>2. i \in 1 .. Len(stack'[u]) /\ stack'[u][i] = stack[u][i]
        BY <1>3, <4>1 DEF Replaced
      <4>3. QED
        BY <1>16, <4>2 DEF Noting
    <3>2. /\ Newest(ring, l, totals[l].slow)
          /\ \A u \in Activity!Threads : \A i \in 1 .. Len(stack[u]) :
               stack[u][i].stage = "store" => Newest(stack[u][i].kept, l, totals[l].slow)
      BY <1>16, <3>1 DEF ActivityInv, NewestKept, Keeps
    <3>3. Newest(ring', l, totals[l].slow)
      <4>1. PICK i \in 1 .. Len(ring) : ring[i] = <<l, totals[l].slow>>
              /\ \A j \in i + 1 .. Len(ring) : ring[j][1] # l
        BY <3>2 DEF Newest
      <4>2. i \in 1 .. Len(ring') /\ ring'[i] = <<l, totals[l].slow>>
        BY <1>9, <4>1
      <4>3. ASSUME NEW j \in i + 1 .. Len(ring') PROVE ring'[j][1] # l
        <5>1. j \in i + 1 .. Len(ring) \/ j = Len(ring) + 1
          BY <1>9
        <5>2. \A k \in i + 1 .. Len(ring) : ring'[k] = ring[k]
          BY <1>9
        <5>3. QED
          BY <1>7, <1>9, <2>2, <4>1, <5>1, <5>2
      <4>4. QED
        BY <4>2, <4>3 DEF Newest
    <3>4. QED
      BY <1>15, <3>2, <3>3
  <2>3. QED
    BY <2>1, <2>2
<1>17. NewestKept'
  BY <1>1, <1>10, <1>16 DEF NewestKept, Keeps
<1>18. Activity!HeldOnce'
  BY <1>1 DEF ActivityInv, Activity!HeldOnce
<1>19. QED
  BY <1>3, <1>11, <1>12, <1>13, <1>14, <1>17, <1>18 DEF ActivityInv

\* A trim: by TrimKeeps the list it returns has what the ring had.
LEMMA TrimStep ==
    ASSUME ActivityInv, NEW t \in Activity!Threads, Activity!Trim(t) PROVE ActivityInv'
<1> DEFINE top == Activity!Top(t)
<1>1. /\ stack[t] # << >> /\ top.stage = "trim"
      /\ UNCHANGED <<owner, totals, window, ring, relabel, drained, holding, samples>>
  BY DEF Activity!Trim, Activity!At
<1>2. PICK f : f = [top EXCEPT !.stage = "store", !.kept = Activity!Trimmed]
  OBVIOUS
<1>3. stack' = [stack EXCEPT ![t] = [stack[t] EXCEPT ![Len(stack[t])] = f]]
  BY <1>2 DEF Activity!Trim, Activity!Top
<1>4. /\ Known(Activity!Trimmed) /\ Len(Activity!Trimmed) <= ACTIVITY_ENTRIES_KEPT
      /\ \A l \in Activity!SpanLabels :
           Cardinality(Activity!Seen) <= ACTIVITY_ENTRIES_KEPT /\ Keeps(ring, l)
             => Keeps(Activity!Trimmed, l)
  BY TrimKeeps DEF ActivityInv, ActivityTypes
<1>5. top \in Frame
  BY <1>1, TopFrame DEF ActivityInv
<1>6. /\ f \in Frame /\ f.label = top.label /\ f.stage = "store"
      /\ f.kept = Activity!Trimmed
  <2>1. Activity!Trimmed \in Seq(Entries)
    BY <1>4 DEF Known
  <2>2. QED
    BY <1>2, <1>5, <2>1 DEF Frame, Stages
<1>7. PICK n \in 1 .. 2 :
        /\ n = Len(stack[t]) /\ Replaced(t, n, f) /\ OnlyCollectionsInterrupt'
        /\ top = stack[t][n]
  BY <1>1, <1>3, <1>6, TopReplaced DEF ActivityInv
<1>8. Activity!Seen' = Activity!Seen
  BY <1>1, SeenKept
<1>9. ActivityTypes'
  BY <1>1, <1>7, <1>8 DEF ActivityInv, ActivityTypes, Known, Replaced
<1>10. LockCounts'
  BY <1>1, <1>6, <1>7, LockHeld DEF ActivityInv
<1>11. NotesKnown'
  <2>1. n \in 1 .. Len(stack[t])
    <3>1. n \in 1 .. n
      OBVIOUS
    <3>2. QED
      BY <1>7, <3>1
  <2>2. top.label \in Activity!Seen
    BY <1>1, <1>7, <2>1 DEF ActivityInv, NotesKnown
  <2>3. QED
    BY <1>1, <1>4, <1>6, <1>7, <2>2, NotesKept DEF ActivityInv
<1>12. RingBounded'
  BY <1>6, <1>7 DEF RingBounded, Replaced
<1>13. ASSUME NEW l \in Activity!SpanLabels, totals[l].slow > 0, ~Noting(l)',
              Cardinality(Activity!Seen) <= ACTIVITY_ENTRIES_KEPT
       PROVE  /\ Keeps(ring, l)
              /\ \A u \in Activity!Threads : \A i \in 1 .. Len(stack'[u]) :
                   stack'[u][i].stage = "store" => Keeps(stack'[u][i].kept, l)
  <2>1. ~Noting(l)
    <3> SUFFICES ASSUME NEW u \in Activity!Threads, NEW i \in 1 .. Len(stack[u]),
                        stack[u][i].label = l /\ stack[u][i].stage = "append"
                 PROVE  FALSE
      BY DEF Noting
    <3>1. ~(u = t /\ i = n)
      BY <1>1, <1>7
    <3>2. i \in 1 .. Len(stack'[u]) /\ stack'[u][i] = stack[u][i]
      BY <1>7, <3>1 DEF Replaced
    <3>3. QED
      BY <1>13, <3>2 DEF Noting
  <2>2. /\ Keeps(ring, l)
        /\ \A u \in Activity!Threads : \A i \in 1 .. Len(stack[u]) :
             stack[u][i].stage = "store" => Keeps(stack[u][i].kept, l)
    BY <1>13, <2>1 DEF ActivityInv, NewestKept
  <2>3. ASSUME NEW u \in Activity!Threads, NEW i \in 1 .. Len(stack'[u]),
               stack'[u][i].stage = "store"
        PROVE  Keeps(stack'[u][i].kept, l)
    <3>1. CASE u = t /\ i = n
      <4>1. stack'[u][i].kept = Activity!Trimmed
        BY <1>6, <1>7, <3>1 DEF Replaced
      <4>2. Keeps(Activity!Trimmed, l)
        BY <1>4, <1>13, <2>2
      <4>3. QED
        BY <4>1, <4>2
    <3>2. CASE ~(u = t /\ i = n)
      <4>1. i \in 1 .. Len(stack[u]) /\ stack'[u][i] = stack[u][i]
        BY <1>7, <3>2 DEF Replaced
      <4>2. QED
        BY <2>2, <2>3, <4>1
    <3>3. QED
      BY <3>1, <3>2
  <2>4. QED
    BY <2>2, <2>3
<1>14. NewestKept'
  BY <1>1, <1>8, <1>13 DEF NewestKept, Keeps
<1>15. Activity!HeldOnce'
  BY <1>1 DEF ActivityInv, Activity!HeldOnce
<1>16. QED
  BY <1>7, <1>9, <1>10, <1>11, <1>12, <1>14, <1>15 DEF ActivityInv

\* A store: the list has each span's newest entry, and fits.
LEMMA StoreKept ==
    ASSUME ActivityInv, NEW t \in Activity!Threads, Activity!Store(t) PROVE ActivityInv'
<1> DEFINE top == Activity!Top(t)
<1>1. /\ stack[t] # << >> /\ top.stage = "store"
      /\ stack' = Activity!Goto(t, "release") /\ ring' = top.kept
      /\ UNCHANGED <<owner, totals, window, relabel, drained, holding, samples>>
  BY DEF Activity!Store, Activity!At
<1>2. PICK f : f = [top EXCEPT !.stage = "release"]
  OBVIOUS
<1>3. PICK n \in 1 .. 2 :
        /\ n = Len(stack[t]) /\ Replaced(t, n, f) /\ OnlyCollectionsInterrupt'
        /\ top = stack[t][n] /\ top \in Frame
  <2>1. "release" \in Stages
    BY DEF Stages
  <2>2. QED
    BY <1>1, <1>2, <2>1, GotoReplaces DEF ActivityInv
<1>4. f \in Frame /\ f.label = top.label /\ f.stage = "release"
  BY <1>2, <1>3 DEF Frame, Stages
<1>5. n \in 1 .. Len(stack[t])
  BY <1>3
<1>6. /\ Known(top.kept) /\ Len(top.kept) <= ACTIVITY_ENTRIES_KEPT
      /\ top.label \in Activity!Seen
  BY <1>1, <1>3, <1>5 DEF ActivityInv, NotesKnown
<1>7. Activity!Seen' = Activity!Seen
  BY <1>1, SeenKept
<1>8. ActivityTypes'
  <2>1. Known(ring)'
    BY <1>1, <1>6, <1>7 DEF Known
  <2>2. QED
    BY <1>1, <1>3, <2>1 DEF ActivityInv, ActivityTypes, Replaced
<1>9. LockCounts'
  BY <1>1, <1>3, <1>4, LockHeld DEF ActivityInv
<1>10. NotesKnown'
  BY <1>1, <1>3, <1>4, <1>6, NotesKept DEF ActivityInv
<1>11. RingBounded'
  BY <1>1, <1>6 DEF RingBounded
<1>12. ASSUME NEW l \in Activity!SpanLabels, totals[l].slow > 0, ~Noting(l)',
              Cardinality(Activity!Seen) <= ACTIVITY_ENTRIES_KEPT
       PROVE  /\ Keeps(top.kept, l)
              /\ \A u \in Activity!Threads : \A i \in 1 .. Len(stack'[u]) :
                   stack'[u][i].stage = "store" => Keeps(stack'[u][i].kept, l)
  <2>1. ~Noting(l)
    <3> SUFFICES ASSUME NEW u \in Activity!Threads, NEW i \in 1 .. Len(stack[u]),
                        stack[u][i].label = l /\ stack[u][i].stage = "append"
                 PROVE  FALSE
      BY DEF Noting
    <3>1. ~(u = t /\ i = n)
      BY <1>1, <1>3
    <3>2. i \in 1 .. Len(stack'[u]) /\ stack'[u][i] = stack[u][i]
      BY <1>3, <3>1 DEF Replaced
    <3>3. QED
      BY <1>12, <3>2 DEF Noting
  <2>2. \A u \in Activity!Threads : \A i \in 1 .. Len(stack[u]) :
           stack[u][i].stage = "store" => Keeps(stack[u][i].kept, l)
    BY <1>12, <2>1 DEF ActivityInv, NewestKept
  <2>3. Keeps(top.kept, l)
    BY <1>1, <1>3, <1>5, <2>2
  <2>4. ASSUME NEW u \in Activity!Threads, NEW i \in 1 .. Len(stack'[u]),
               stack'[u][i].stage = "store"
        PROVE  Keeps(stack'[u][i].kept, l)
    <3>1. ~(u = t /\ i = n)
      BY <1>3, <1>4, <2>4 DEF Replaced
    <3>2. i \in 1 .. Len(stack[u]) /\ stack'[u][i] = stack[u][i]
      BY <1>3, <3>1 DEF Replaced
    <3>3. QED
      BY <2>2, <2>4, <3>2
  <2>5. QED
    BY <2>3, <2>4
<1>13. NewestKept'
  BY <1>1, <1>7, <1>12 DEF NewestKept, Keeps
<1>14. Activity!HeldOnce'
  BY <1>1 DEF ActivityInv, Activity!HeldOnce
<1>15. QED
  BY <1>3, <1>8, <1>9, <1>10, <1>11, <1>13, <1>14 DEF ActivityInv

\* A release: the lock is free when the outermost note ends.
LEMMA ReleaseStep ==
    ASSUME ActivityInv, NEW t \in Activity!Threads, Activity!Release(t) PROVE ActivityInv'
<1> DEFINE top == Activity!Top(t)
<1>1. /\ stack[t] # << >> /\ top.stage = "release"
      /\ stack' = [stack EXCEPT ![t] = SubSeq(stack[t], 1, Len(stack[t]) - 1)]
      /\ owner' = [by |-> IF owner.depth = 1 THEN None ELSE t, depth |-> owner.depth - 1]
      /\ UNCHANGED <<totals, window, ring, relabel, drained, holding, samples>>
  BY DEF Activity!Release, Activity!At
<1>2. \A u \in Activity!Threads : stack[u] \in Seq(Frame) /\ Len(stack[u]) \in Nat
  BY LenProperties DEF ActivityInv, ActivityTypes
<1>3. PICK n \in 1 .. 2 : n = Len(stack[t]) /\ top = stack[t][n]
  <2>1. Len(stack[t]) <= 2
    BY DEF ActivityInv, OnlyCollectionsInterrupt
  <2>2. Len(stack[t]) \in Nat \ {0} /\ top = stack[t][Len(stack[t])]
    BY <1>1, TopFrame DEF ActivityInv
  <2> DEFINE m == Len(stack[t])
  <2>3. m \in Nat \ {0} /\ m <= 2
    BY <2>1, <2>2
  <2> HIDE DEF m
  <2>4. m \in 1 .. 2
    BY <2>3
  <2>5. QED
    BY <2>2, <2>4 DEF m
<1>4. /\ stack' \in [Activity!Threads -> Seq(Frame)]
      /\ Len(stack'[t]) = n - 1
      /\ \A i \in 1 .. n - 1 : stack'[t][i] = stack[t][i]
      /\ \A u \in Activity!Threads : u # t => stack'[u] = stack[u]
  <2> DEFINE s == SubSeq(stack[t], 1, n - 1)
  <2>1. /\ 1 \in Int /\ n - 1 \in Int /\ 1 \in 1 .. n - 1 + 1
        /\ \A i \in 1 .. n - 1 : i \in 1 .. n
    OBVIOUS
  <2>2. \A i \in 1 .. n - 1 : stack[t][i] \in Frame
    BY <1>2, <1>3, <2>1, ElementOfSeq
  <2>3. /\ s \in Seq(Frame)
        /\ Len(s) = IF 1 <= n - 1 THEN n - 1 - 1 + 1 ELSE 0
        /\ \A i \in 1 .. n - 1 - 1 + 1 : s[i] = stack[t][1 + i - 1]
    BY <2>1, <2>2, SubSeqProperties
  <2> HIDE DEF s
  <2>4. Len(s) = n - 1 /\ \A i \in 1 .. n - 1 : s[i] = stack[t][i]
    BY <2>3
  <2>5. stack' = [stack EXCEPT ![t] = s]
    BY <1>1, <1>3 DEF s
  <2>6. QED
    BY <2>3, <2>4, <2>5 DEF ActivityInv, ActivityTypes
<1>5. ASSUME NEW u \in Activity!Threads, NEW i \in 1 .. Len(stack'[u])
      PROVE  i \in 1 .. Len(stack[u]) /\ stack'[u][i] = stack[u][i]
  <2>1. CASE u = t
    <3>1. i \in 1 .. n - 1
      BY <1>4, <2>1
    <3>2. i \in 1 .. n
      BY <3>1
    <3>3. QED
      BY <1>3, <1>4, <2>1, <3>1, <3>2
  <2>2. CASE u # t
    BY <1>4, <2>2
  <2>3. QED
    BY <2>1, <2>2
<1>6. ASSUME NEW u \in Activity!Threads, NEW i \in 1 .. Len(stack[u]), ~(u = t /\ i = n)
      PROVE  i \in 1 .. Len(stack'[u]) /\ stack'[u][i] = stack[u][i]
  <2>1. CASE u = t
    <3>1. i \in 1 .. n /\ i # n
      BY <1>3, <1>6, <2>1
    <3>2. i \in 1 .. n - 1
      BY <3>1
    <3>3. QED
      BY <1>4, <2>1, <3>2
  <2>2. CASE u # t
    BY <1>4, <2>2
  <2>3. QED
    BY <2>1, <2>2
<1>7. Activity!Seen' = Activity!Seen
  BY <1>1, SeenKept
<1>8. /\ owner.by = t /\ owner.depth \in 1 .. 2
      /\ \A u \in Activity!Threads : \A i \in 1 .. Len(stack[u]) :
           stack[u][i].stage # "acquire" => u = t
  BY <1>1, Alone DEF ActivityInv
<1>9. LockCounts'
  <2>1. \A u \in Activity!Threads : u # t => Taken(u)' = Taken(u)
    BY <1>4 DEF Taken, Inside
  <2>2. Taken(t) = Taken(t)' + 1 /\ Taken(t)' \in 0 .. 1
    <3>1. Inside(t, n)
      BY <1>1, <1>3 DEF Inside
    <3>2. Len(stack'[t]) = n - 1 /\ Len(stack[t]) = n
      BY <1>3, <1>4
    <3>3. CASE n = 1
      <4>1. ~(1 <= Len(stack'[t])) /\ ~(2 <= Len(stack'[t])) /\ ~(2 <= Len(stack[t]))
        BY <3>2, <3>3
      <4>2. ~Inside(t, 1)' /\ ~Inside(t, 2)' /\ ~Inside(t, 2)
        BY <4>1 DEF Inside
      <4>3. QED
        BY <3>1, <3>3, <4>2 DEF Taken
    <3>4. CASE n = 2
      <4>1. 1 <= Len(stack'[t]) /\ ~(2 <= Len(stack'[t])) /\ 1 <= Len(stack[t])
        BY <3>2, <3>4
      <4>2. stack'[t][1] = stack[t][1]
        BY <1>4, <3>4
      <4>3. ~Inside(t, 2)' /\ (Inside(t, 1)' <=> Inside(t, 1))
        BY <4>1, <4>2 DEF Inside
      <4>4. QED
        BY <3>1, <3>4, <4>3 DEF Taken
    <3>5. QED
      BY <3>3, <3>4
  <2>3. Taken(t) = owner.depth /\ \A u \in Activity!Threads : u # t => Taken(u) = 0
    BY <1>8 DEF ActivityInv, LockCounts
  <2>4. /\ owner'.depth = Taken(t)'
        /\ owner'.by = IF owner'.depth = 0 THEN None ELSE t
    <3>1. owner'.depth = owner.depth - 1
          /\ owner'.by = IF owner.depth = 1 THEN None ELSE t
      BY <1>1
    <3>2. QED
      BY <1>8, <2>2, <2>3, <3>1
  <2>5. None \notin Activity!Threads
    BY ActivityFacts
  <2>6. \A u \in Activity!Threads :
          Taken(u)' = IF owner'.by = u THEN owner'.depth ELSE 0
    BY <2>1, <2>3, <2>4, <2>5
  <2>7. owner'.depth = 0 <=> owner'.by = None
    BY <2>4, <2>5
  <2>8. QED
    BY <2>6, <2>7 DEF LockCounts
<1>10. ActivityTypes'
  <2>1. owner' \in [by : Activity!Threads \cup {None}, depth : 0 .. 2]
    BY <1>1, <1>8
  <2>2. QED
    BY <1>1, <1>4, <1>7, <2>1 DEF ActivityInv, ActivityTypes, Known
<1>11. OnlyCollectionsInterrupt'
  <2>1. ASSUME NEW u \in Activity!Threads, u # t
        PROVE  /\ Len(stack'[u]) <= 2
               /\ Len(stack'[u]) = 2 => stack'[u][1].label \in Activity!SpanLabels
                                        /\ stack'[u][2].label \in Activity!Collections
    BY <1>4, <2>1 DEF ActivityInv, OnlyCollectionsInterrupt
  <2>2. Len(stack'[t]) <= 2 /\ Len(stack'[t]) # 2
    BY <1>4
  <2>3. QED
    BY <2>1, <2>2 DEF OnlyCollectionsInterrupt
<1>12. NotesKnown'
  BY <1>5, <1>7 DEF ActivityInv, NotesKnown, Known
<1>13. RingBounded'
  <2> SUFFICES ASSUME \A u \in Activity!Threads : \A i \in 1 .. Len(stack'[u]) :
                        stack'[u][i].stage \notin {"trim", "store"}
               PROVE  Len(ring) <= ACTIVITY_ENTRIES_KEPT
    BY <1>1 DEF RingBounded
  <2>1. ASSUME NEW u \in Activity!Threads, NEW i \in 1 .. Len(stack[u])
        PROVE  stack[u][i].stage \notin {"trim", "store"}
    <3>1. CASE u = t /\ i = n
      BY <1>1, <1>3, <3>1
    <3>2. CASE ~(u = t /\ i = n)
      <4>1. i \in 1 .. Len(stack'[u]) /\ stack'[u][i] = stack[u][i]
        BY <1>6, <3>2
      <4>2. QED
        BY <4>1
    <3>3. QED
      BY <3>1, <3>2
  <2>2. QED
    BY <2>1 DEF ActivityInv, RingBounded
<1>14. ASSUME NEW l \in Activity!SpanLabels, totals[l].slow > 0, ~Noting(l)',
              Cardinality(Activity!Seen) <= ACTIVITY_ENTRIES_KEPT
       PROVE  /\ Keeps(ring, l)
              /\ \A u \in Activity!Threads : \A i \in 1 .. Len(stack'[u]) :
                   stack'[u][i].stage = "store" => Keeps(stack'[u][i].kept, l)
  <2>1. ~Noting(l)
    <3> SUFFICES ASSUME NEW u \in Activity!Threads, NEW i \in 1 .. Len(stack[u]),
                        stack[u][i].label = l /\ stack[u][i].stage = "append"
                 PROVE  FALSE
      BY DEF Noting
    <3>1. ~(u = t /\ i = n)
      BY <1>1, <1>3
    <3>2. i \in 1 .. Len(stack'[u]) /\ stack'[u][i] = stack[u][i]
      BY <1>6, <3>1
    <3>3. QED
      BY <1>14, <3>2 DEF Noting
  <2>2. /\ Keeps(ring, l)
        /\ \A u \in Activity!Threads : \A i \in 1 .. Len(stack[u]) :
             stack[u][i].stage = "store" => Keeps(stack[u][i].kept, l)
    BY <1>14, <2>1 DEF ActivityInv, NewestKept
  <2>3. QED
    BY <1>5, <2>2
<1>15. NewestKept'
  BY <1>1, <1>7, <1>14 DEF NewestKept, Keeps
<1>16. Activity!HeldOnce'
  BY <1>1 DEF ActivityInv, Activity!HeldOnce
<1>17. QED
  BY <1>9, <1>10, <1>11, <1>12, <1>13, <1>15, <1>16 DEF ActivityInv

\* A drain moves what the window has to the sample's account.
LEMMA DrainStep == ActivityInv /\ Activity!Drain => ActivityInv'
<1> SUFFICES ASSUME ActivityInv, Activity!Drain PROVE ActivityInv'
  OBVIOUS
<1>1. /\ drained' = [l \in Activity!Labels |-> drained[l] + window[l]]
      /\ window' = [l \in Activity!Labels |-> 0]
      /\ UNCHANGED <<stack, owner, totals, ring, relabel, holding, notes>>
  BY DEF Activity!Drain, Activity!Remaining
<1>2. Activity!Seen' = Activity!Seen
  BY <1>1, SeenKept
<1>3. ActivityTypes'
  BY <1>1, <1>2 DEF ActivityInv, ActivityTypes, Known
<1>4. OnlyCollectionsInterrupt' /\ LockCounts'
  BY <1>1 DEF ActivityInv, OnlyCollectionsInterrupt, LockCounts, Taken, Inside
<1>5. NotesKnown' /\ RingBounded' /\ NewestKept'
  BY <1>1, <1>2 DEF ActivityInv, NotesKnown, RingBounded, NewestKept, Known, Keeps, Noting
<1>6. Activity!HeldOnce'
  <2>1. ASSUME NEW l \in Activity!Labels
        PROVE  drained'[l] + window'[l] = holding'[l]
    <3>1. drained[l] + window[l] = holding[l]
      BY DEF ActivityInv, Activity!HeldOnce
    <3>2. drained[l] \in Nat /\ window[l] \in Nat /\ holding[l] \in Nat
      BY DEF ActivityInv, ActivityTypes
    <3>3. /\ drained'[l] = drained[l] + window[l] /\ window'[l] = 0
          /\ holding'[l] = holding[l]
      BY <1>1
    <3>4. QED
      BY <3>1, <3>2, <3>3
  <2>2. QED
    BY <2>1 DEF Activity!HeldOnce
<1>7. QED
  BY <1>3, <1>4, <1>5, <1>6 DEF ActivityInv

\* A step that leaves what the invariant reads alone.
LEMMA RelabelStep ==
    ActivityInv /\ UNCHANGED <<stack, owner, totals, window, ring, drained, holding>>
      => ActivityInv'
<1> SUFFICES ASSUME ActivityInv,
                    UNCHANGED <<stack, owner, totals, window, ring, drained, holding>>
             PROVE  ActivityInv'
  OBVIOUS
<1>1. Activity!Seen' = Activity!Seen
  BY SeenKept
<1>2. ActivityTypes'
  BY <1>1 DEF ActivityInv, ActivityTypes, Known
<1>3. OnlyCollectionsInterrupt' /\ LockCounts'
  BY DEF ActivityInv, OnlyCollectionsInterrupt, LockCounts, Taken, Inside
<1>4. NotesKnown' /\ RingBounded' /\ NewestKept'
  BY <1>1 DEF ActivityInv, NotesKnown, RingBounded, NewestKept, Known, Keeps, Noting
<1>5. Activity!HeldOnce'
  BY DEF ActivityInv, Activity!HeldOnce
<1>6. QED
  BY <1>2, <1>3, <1>4, <1>5 DEF ActivityInv

\* Every step of a thread, of the sampler and of the maintenance keeps it.
LEMMA ActivityStep == ActivityInv /\ [Activity!Next]_activity => ActivityInv'
<1> SUFFICES ASSUME ActivityInv, [Activity!Next]_activity PROVE ActivityInv'
  OBVIOUS
<1>1. CASE \E t \in Activity!Threads, slow \in BOOLEAN :
             \/ Activity!Collect(t, slow)
             \/ \E l \in Activity!SpanLabels : Activity!EndSpan(t, l, slow)
  BY <1>1, BeginStep
<1>2. CASE \E t \in Activity!Threads : Activity!Step(t)
  <2>1. PICK t \in Activity!Threads : Activity!Step(t)
    BY <1>2
  <2>2. CASE Activity!Acquire(t)
    BY <2>2, AcquireStep
  <2>3. CASE Activity!Count(t)
    BY <2>3, CountStep
  <2>4. CASE Activity!AppendSlow(t)
    BY <2>4, AppendStep
  <2>5. CASE Activity!Trim(t)
    BY <2>5, TrimStep
  <2>6. CASE Activity!Store(t)
    BY <2>6, StoreKept
  <2>7. CASE Activity!Release(t)
    BY <2>7, ReleaseStep
  <2>8. QED
    BY <2>1, <2>2, <2>3, <2>4, <2>5, <2>6, <2>7 DEF Activity!Step
<1>3. CASE Activity!Relabel
  BY <1>3, RelabelStep DEF Activity!Relabel
<1>4. CASE Activity!Drain
  BY <1>4, DrainStep
<1>5. CASE UNCHANGED activity
  BY <1>5, RelabelStep DEF activity
<1>6. QED
  BY <1>1, <1>2, <1>3, <1>4, <1>5 DEF Activity!Next, Activity!SpanLabels

\* The invariant gives the types and the evidence.
LEMMA ActivityTyped == ActivityInv => Activity!TypeOK /\ Activity!EvidenceKept
<1> SUFFICES ASSUME ActivityInv PROVE Activity!TypeOK /\ Activity!EvidenceKept
  OBVIOUS
<1>1. /\ owner.depth \in 0 .. 2 /\ (owner.depth = 0 <=> owner.by = None)
      /\ \A t \in Activity!Threads : Len(stack[t]) <= 2
  BY DEF ActivityInv, ActivityTypes, LockCounts, OnlyCollectionsInterrupt
<1>2. ASSUME owner.depth = 0 PROVE Len(ring) <= ACTIVITY_ENTRIES_KEPT
  <2>1. ASSUME NEW t \in Activity!Threads, NEW i \in 1 .. Len(stack[t])
        PROVE  stack[t][i].stage \notin {"trim", "store"}
    <3>1. Taken(t) = 0
      BY <1>2 DEF ActivityInv, LockCounts
    <3>2. i \in 1 .. 2 /\ i <= Len(stack[t])
      <4>1. Len(stack[t]) \in Nat /\ Len(stack[t]) <= 2
        BY <1>1, LenProperties DEF ActivityInv, ActivityTypes
      <4> DEFINE n == Len(stack[t])
      <4>2. n \in Nat /\ n <= 2 /\ i \in 1 .. n
        BY <4>1
      <4> HIDE DEF n
      <4>3. i \in 1 .. 2 /\ i <= n
        BY <4>2
      <4>4. QED
        BY <4>3 DEF n
    <3>3. ~Inside(t, i)
      BY <3>1, <3>2 DEF Taken
    <3>4. stack[t][i].stage = "acquire"
      BY <3>2, <3>3 DEF Inside
    <3>5. QED
      BY <3>4
  <2>2. QED
    BY <2>1 DEF ActivityInv, RingBounded
<1>3. Activity!EvidenceKept
  <2>1. ASSUME NEW l \in Activity!SpanLabels, totals[l].slow > 0, ~Noting(l),
               Cardinality(Activity!Seen) <= ACTIVITY_ENTRIES_KEPT
        PROVE  \E i \in 1 .. Len(ring) : ring[i] = <<l, totals[l].slow>>
    <3>1. Keeps(ring, l)
      BY <2>1 DEF ActivityInv, NewestKept
    <3>2. QED
      BY <3>1 DEF Keeps, Newest
  <2>2. QED
    BY <2>1, Sizes DEF Activity!EvidenceKept, Noting
<1>4. QED
  BY <1>1, <1>2, <1>3 DEF Activity!TypeOK

-----------------------------------------------------------------------------
(* The services together *)

\* The services share no variable: a step of all is a step, or a stutter, of
\* each.
LEMMA Apart ==
    [Next]_vars =>
        /\ [Alerts!Next]_alerts /\ [Store!Next]_store /\ [Discovery!Next]_discovery
        /\ [Tile!Next]_tiles /\ [Pulls!Next]_pulls /\ [Activity!Next]_activity
        /\ [Link!Next]_broker
BY DEF Next, vars, AlertsMove, StoreMoves, DiscoveryMoves, TileMoves, PullsMove,
   ActivityMoves, LinkMoves

\* The services' invariants, each proved of its part alone.
ServicesInv ==
    /\ AlertInv /\ Counted /\ StoreInv /\ TopicInv /\ CallInv /\ GateInv /\ ActivityInv
    /\ LinkInv

\* Whatever the services do, in any order, each keeps its invariant
\* (mqtt.py, alerts.py, topology.py, tiles.py, ha_discovery.py, engine.py,
\* recommend/store.py).
THEOREM InductiveInvariant == Spec => []ServicesInv
<1>1. Init => ServicesInv
  BY AlertInit, StoreInit, TopicInit, CallInit, GateInit, ActivityInit, LinkInit
     DEF Init, ServicesInv, Counted, Alerts!Init
<1>2. ServicesInv /\ [Next]_vars => ServicesInv'
  <2> SUFFICES ASSUME ServicesInv, [Next]_vars PROVE ServicesInv'
    OBVIOUS
  <2>1. AlertInv' /\ Counted'
    BY AlertStep, RestartsCounted, Apart DEF ServicesInv, Counted
  <2>2. StoreInv' /\ TopicInv' /\ CallInv'
    BY StoreStep, TopicStep, CallStep, Apart DEF ServicesInv
  <2>3. GateInv' /\ ActivityInv' /\ LinkInv'
    BY GateStep, ActivityStep, LinkStep, Apart DEF ServicesInv
  <2>4. QED
    BY <2>1, <2>2, <2>3 DEF ServicesInv
<1>3. QED
  BY <1>1, <1>2, PTL DEF Spec

\* The variables have their types; the log's ring is within its cap whenever the
\* lock is free (engine.py:290-311).
THEOREM Typed == Spec => []TypeOK
<1>1. ServicesInv => TypeOK
  BY ActivityTyped, LinkTyped
     DEF ServicesInv, TypeOK, AlertInv, AlertTypes, StoreInv, TopicInv, GateInv
<1>2. QED
  BY <1>1, InductiveInvariant, PTL

\* One mesh scan at a time, and the gate is closed exactly while a call asks,
\* for any number of calls and bases (topology.py:6-7).
THEOREM GateStaysRight == Spec => []GateMatchesCalls
<1>1. ServicesInv => GateMatchesCalls
  BY DEF ServicesInv, GateInv, GateMatchesCalls
<1>2. QED
  BY <1>1, InductiveInvariant, PTL

\* What is retained on the broker is on record, through crashes, outages and
\* renames, unless two tasks raced (ha_discovery.py:246-251).
THEOREM RecordOutlivesTopics == Spec => []Remembered
<1>1. ServicesInv => Remembered
  BY DEF ServicesInv, TopicInv, ClaimsRecorded, Remembered, Discovery!Remembered
<1>2. QED
  BY <1>1, InductiveInvariant, PTL

\* A call is answered by its own response, or by that of a call of the same
\* action that has given up, and the table has no entry that nobody waits for,
\* for any number of deploys and revokes (tiles.py:140-173).
THEOREM CallsStayApart == Spec => []CallsApart
<1>1. ServicesInv => CallsApart
  BY DEF ServicesInv, CallInv, CallsApart, Tile!CallsApart
<1>2. QED
  BY <1>1, InductiveInvariant, PTL

\* The work that held the loop is in one window, and a span's newest slow entry
\* stays, for any number of labels, any cap and any run of collections
\* (engine.py:268-326).
THEOREM WorkIsToldOnce == Spec => []HeldOnceWithEvidence
<1>1. ServicesInv => HeldOnceWithEvidence
  BY ActivityTyped DEF ServicesInv, ActivityInv, HeldOnceWithEvidence
<1>2. QED
  BY <1>1, InductiveInvariant, PTL

\* Unless two requests overlap, the only broker task that runs is the one the
\* engine can cancel, for any number of requests and tasks (mqtt.py:1-11).
THEOREM NoTaskAstray == Spec => []Link!NoneAstray
<1>1. ServicesInv => Link!NoneAstray
  BY LinkTyped DEF ServicesInv
<1>2. QED
  BY <1>1, InductiveInvariant, PTL

\* The row of a revoked tile becomes deployed again only when a deploy ends, or
\* by the write of a heartbeat that the worker had checked before the revoke was
\* confirmed (tiles.py:285), and no heartbeat is let through after it.
THEOREM RevokedStaysRevoked == Spec => Tile!StaysRevoked
<1>1. ServicesInv /\ [Next]_vars => [OnlyADeployDeploys]_tiles
  BY DeployedBy, NoBeatTakenUp, Apart DEF ServicesInv, CallInv, OnlyADeployDeploys
<1>2. [OnlyADeployDeploys]_tiles =>
        [tile = "revoked" =>
           /\ tile' = "deployed" =>
                \/ \E c \in Calls : action[c] = "save" /\ pc[c] # pc'[c]
                \/ worker \in {"error", "deploying"}
           /\ worker = "idle" => worker' = "idle"]_Tile!vars
  BY DEF OnlyADeployDeploys, DeployedOnly, tiles, Tile!vars, Tile!callVars, Tile!remoteVars, Tile!beatVars
<1>3. QED
  BY <1>1, <1>2, InductiveInvariant, PTL DEF Spec, Tile!StaysRevoked

\* A dismissed recommendation is shown again, in its row or in a new one, only
\* by its user or because its size has changed by half, unless it was dismissed
\* between the read and the write of a pass (recommend/store.py:10-16): such a
\* dismissal is lost with the row, or goes by the size that pass has written.
THEOREM DismissalIsDurable == Spec => Store!DismissalHolds
<1>1. ServicesInv /\ [Next]_vars =>
        [Store!ShownAgain =>
           \/ Store!Reopened \/ Store!HalfAgain(dismissal.of, row'.fp)
           \/ dismissal.raced /\ (row = None \/ Store!HalfAgain(row.fp, row'.fp))]_Store!vars
  BY StoreStep, Apart DEF ServicesInv, OnlyTheUserOrTheSize
<1>2. QED
  BY <1>1, InductiveInvariant, PTL DEF Spec, Store!DismissalHolds

\* An open alert event that no pass will close was left by an edit or a restart,
\* for any number of instances and events (alerts.py:601-612).
THEOREM OnlyEditsStrandEvents == Spec => Alerts!StrandedOnlyByEdits
<1>1. ServicesInv /\ [Next]_vars =>
        [edit' = edit /\ restarts' = restarts /\ held = Attached
           => Alerts!Stranded' \subseteq Alerts!Stranded]_Alerts!vars
  BY StrandedBy, Apart DEF ServicesInv, OnlyEditsStrand
<1>2. QED
  BY <1>1, InductiveInvariant, PTL DEF Spec, Alerts!StrandedOnlyByEdits

=============================================================================
