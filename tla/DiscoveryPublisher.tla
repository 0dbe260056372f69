-------------------------- MODULE DiscoveryPublisher --------------------------
(***************************************************************************)
(* The Home Assistant discovery tile of one instance (ha_discovery.py):    *)
(* the publish loop, the revoke request, the record of claimed topics in   *)
(* the settings and the topics retained on the broker.  Both run on the    *)
(* event loop and give way at each await: every publish, and the writes of *)
(* the record, which go to a thread.                                       *)
(*                                                                         *)
(* A topic is <<prefix, name>>; the state topics have no prefix.  Of a     *)
(* payload only whether it is empty is kept, and of the payloads'          *)
(* signature the prefix they were made with.                               *)
(***************************************************************************)
EXTENDS Integers, FiniteSets

CONSTANTS
    Configs,     \* names of the discovery topics
    Sensors,     \* names of the state topics; a sensor may have no value
    Prefixes,    \* discovery prefixes the instance may announce
    None,
    MaxGrants, MaxOutages, MaxRenames, MaxRestarts  \* bounds of the model

PrefixAssumption == None \notin Prefixes

VARIABLES
    granted,     \* the tile's row
    registered,  \* the registry knows the instance
    prefix,      \* discovery_prefix(base)
    recorded,    \* settings["discovery_topics:<base>"]; {} where there is none
    published,   \* _configs_published[base]
    retained,    \* topics with a retained payload on the broker
    online,      \* publish does not raise
    loop,        \* the publish loop's task
    request,     \* the revoke request's task
    raced,       \* ghost: a cleanup and a publish cycle have overlapped, or the
                 \* prefix has changed under a record
    grants, outages, renames, restarts

world == <<granted, registered, prefix, online>>
bounds == <<grants, outages, renames, restarts>>
vars == <<granted, registered, prefix, recorded, published, retained, online,
          loop, request, raced, grants, outages, renames, restarts>>

-----------------------------------------------------------------------------

ConfigTopics(p) == {p} \X Configs
StateTopics == {None} \X Sensors

\* _all_topics: also of the sensors that have no value yet.
AllTopics(p) == ConfigTopics(p) \cup StateTopics

Idle == [at |-> "idle", todo |-> {}, prefix |-> None]

Granted == granted /\ registered     \* _discovery_granted

Init ==
    /\ granted = FALSE /\ registered = TRUE /\ prefix \in Prefixes
    /\ recorded = {} /\ published = None /\ retained = {} /\ online = TRUE
    /\ loop = Idle /\ request = Idle /\ raced = FALSE
    /\ grants = 0 /\ outages = 0 /\ renames = 0 /\ restarts = 0

Publishing == loop.at \in {"record", "configs", "states"}
Cleaning(p) == p.at \in {"empty", "forget"}

-----------------------------------------------------------------------------
(* publish_cycle *)

\* The configurations, unless these were published already in this process;
\* then the states of the sensors that have a value.
SendStates(p) == published = p
Send(p) ==
    \E values \in SUBSET StateTopics :
      loop' = IF SendStates(p) THEN [at |-> "states", todo |-> values, prefix |-> p]
              ELSE [at |-> "configs", todo |-> ConfigTopics(p), prefix |-> p]

\* _publish_instance up to its first await.
BeginPublish ==
    IF recorded # AllTopics(prefix)
    THEN loop' = [Idle EXCEPT !.at = "record", !.prefix = prefix]
    ELSE Send(prefix)

Unpublished == None

\* revoke_cleanup up to its first await.
BeginCleanup(task) ==
    /\ task' = [at |-> IF recorded = {} THEN "forget" ELSE "empty",
                todo |-> recorded, prefix |-> None]
    /\ published' = Unpublished

Overlap == raced' = (raced \/ (Publishing' /\ Cleaning(request')))

V_SweptOfThisProcess == ~Granted /\ published # None
Swept == ~Granted /\ recorded # {}

\* cleanup_revoked of a base that is recorded and not granted; a base that is
\* not registered counts as not granted.
CycleCleans ==
    /\ loop.at = "idle" /\ Swept
    /\ BeginCleanup(loop)
    /\ UNCHANGED <<world, recorded, retained, request, raced, bounds>>

CyclePublishes ==
    /\ loop.at \in {"idle", "cleaned"} /\ Granted
    /\ BeginPublish
    /\ UNCHANGED <<world, recorded, published, retained, request, bounds>>
    /\ Overlap

CycleEnds ==
    /\ loop.at = "cleaned" /\ ~Granted
    /\ loop' = Idle
    /\ UNCHANGED <<world, recorded, published, retained, request, raced, bounds>>

\* The topics are recorded before any of them is published.
Record ==
    /\ loop.at = "record"
    /\ recorded' = AllTopics(loop.prefix)
    /\ Send(loop.prefix)
    /\ UNCHANGED <<world, published, retained, request, raced, bounds>>

Publish(t) ==
    /\ loop.at \in {"configs", "states"} /\ t \in loop.todo /\ online
    /\ retained' = retained \cup {t}
    /\ loop' = [loop EXCEPT !.todo = @ \ {t}]
    /\ UNCHANGED <<world, recorded, published, request, raced, bounds>>

\* The configurations are out; the states are read and published.
ConfigsDone ==
    /\ loop.at = "configs" /\ loop.todo = {}
    /\ published' = loop.prefix
    /\ \E values \in SUBSET StateTopics :
         loop' = [loop EXCEPT !.at = "states", !.todo = values]
    /\ UNCHANGED <<world, recorded, retained, request, raced, bounds>>

StatesDone ==
    /\ loop.at = "states" /\ loop.todo = {}
    /\ loop' = Idle
    /\ UNCHANGED <<world, recorded, published, retained, request, raced, bounds>>

\* publish raises: the cycle is over.
CycleFails ==
    /\ loop.at \in {"configs", "states", "empty"} /\ loop.todo # {} /\ ~online
    /\ loop' = Idle
    /\ UNCHANGED <<world, recorded, published, retained, request, raced, bounds>>

-----------------------------------------------------------------------------
(* revoke_cleanup, of the loop or of the request *)

\* What is left to empty; the record goes last, once it is all out.
V_LeftEarly(todo, t) == {}
Left(todo, t) == todo \ {t}

EmptyFor(task, t) ==
    /\ task.at = "empty" /\ t \in task.todo /\ online
    /\ retained' = retained \ {t}
    /\ task' = [task EXCEPT !.todo = Left(@, t),
                            !.at = IF Left(task.todo, t) = {} THEN "forget" ELSE @]
    /\ UNCHANGED <<world, recorded, published, raced, bounds>>

LoopEmpties(t) == EmptyFor(loop, t) /\ UNCHANGED request
RequestEmpties(t) == EmptyFor(request, t) /\ UNCHANGED loop

LoopForgets ==
    /\ loop.at = "forget"
    /\ recorded' = {}
    /\ loop' = [Idle EXCEPT !.at = "cleaned"]
    /\ UNCHANGED <<world, published, retained, request, raced, bounds>>

RequestForgets ==
    /\ request.at = "forget"
    /\ recorded' = {}
    /\ request' = Idle
    /\ UNCHANGED <<world, published, retained, loop, raced, bounds>>

\* The request swallows the error: the sweep finishes it.
RequestFails ==
    /\ request.at = "empty" /\ ~online
    /\ request' = Idle
    /\ UNCHANGED <<world, recorded, published, retained, loop, raced, bounds>>

\* tiles/revoke: the grant goes first.
Revoke ==
    /\ granted /\ request.at = "idle"
    /\ granted' = FALSE
    /\ BeginCleanup(request)
    /\ UNCHANGED <<registered, prefix, online, recorded, retained, loop, bounds>>
    /\ Overlap

Grant ==
    /\ ~granted /\ grants < MaxGrants /\ grants' = grants + 1
    /\ granted' = TRUE
    /\ UNCHANGED <<registered, prefix, online, recorded, published, retained,
                   loop, request, raced, outages, renames, restarts>>

-----------------------------------------------------------------------------
(* Broker, registry, process *)

Outage ==
    /\ online /\ outages < MaxOutages /\ outages' = outages + 1
    /\ online' = FALSE
    /\ UNCHANGED <<granted, registered, prefix, recorded, published, retained,
                   loop, request, raced, grants, renames, restarts>>

Reconnect ==
    /\ ~online /\ online' = TRUE
    /\ UNCHANGED <<granted, registered, prefix, recorded, published, retained,
                   loop, request, raced, bounds>>

\* Zigbee2MQTT announces another discovery topic (or another version of the
\* program has other sensors).
Rename ==
    /\ renames < MaxRenames /\ renames' = renames + 1
    /\ prefix' \in Prefixes \ {prefix}
    /\ raced' = (raced \/ recorded # {} \/ Publishing)
    /\ UNCHANGED <<granted, registered, online, recorded, published, retained,
                   loop, request, grants, outages, restarts>>

\* A new process knows the instance once its retained topics have come.
Restart ==
    /\ restarts < MaxRestarts /\ restarts' = restarts + 1
    /\ loop' = Idle /\ request' = Idle /\ published' = None
    /\ registered' = FALSE
    /\ UNCHANGED <<granted, prefix, online, recorded, retained, raced, grants,
                   outages, renames>>

Register ==
    /\ ~registered /\ registered' = TRUE
    /\ UNCHANGED <<granted, prefix, online, recorded, published, retained,
                   loop, request, raced, bounds>>

Loop ==
    \/ CycleCleans \/ CyclePublishes \/ CycleEnds \/ Record \/ ConfigsDone
    \/ StatesDone \/ CycleFails \/ LoopForgets
    \/ \E t \in (Prefixes \cup {None}) \X (Configs \cup Sensors) :
         Publish(t) \/ LoopEmpties(t)

Request ==
    \/ RequestForgets \/ RequestFails
    \/ \E t \in (Prefixes \cup {None}) \X (Configs \cup Sensors) : RequestEmpties(t)

Next ==
    \/ Loop \/ Request \/ Revoke \/ Grant \/ Outage \/ Reconnect \/ Rename
    \/ Restart \/ Register

Spec == Init /\ [][Next]_vars

\* The tasks go on, the client reconnects, and retained topics arrive.
FairSpec ==
    /\ Spec /\ WF_vars(Loop) /\ WF_vars(Request)
    /\ WF_vars(Reconnect) /\ WF_vars(Register)

-----------------------------------------------------------------------------
(* What the discovery tile promises. *)

Topics == UNION {AllTopics(p) : p \in Prefixes}
Tasks == [at : {"idle", "record", "configs", "states", "empty", "forget", "cleaned"},
          todo : SUBSET Topics, prefix : Prefixes \cup {None}]

TypeOK ==
    /\ granted \in BOOLEAN /\ registered \in BOOLEAN /\ online \in BOOLEAN
    /\ prefix \in Prefixes /\ published \in Prefixes \cup {None}
    /\ recorded \in SUBSET Topics /\ retained \in SUBSET Topics
    /\ loop \in Tasks /\ request \in Tasks /\ raced \in BOOLEAN

\* Every topic the tile has retained on the broker is on record, through
\* outages, failed cleanups and restarts (ha_discovery.py:246-251), as long as no cleanup
\* overlapped a publish cycle and the prefix did not change under a record.
Remembered == ~raced => retained \subseteq recorded

\* A revoke that met an outage or a restart is finished by the sweep of the
\* publish loop (ha_discovery.py:18-20): the record goes, and with it what it names.
RevokeFinished ==
    ~granted ~> (granted \/ (recorded = {} /\ (raced \/ retained = {})))

\* A granted instance gets its configurations, after a revoke and a new grant,
\* an outage or a restart too.
GrantPublishes ==
    granted ~> (~granted \/ raced \/ ConfigTopics(prefix) \subseteq retained)

\* "revoking deletes every retained topic the tile ever claimed" (ha_discovery.py:5-6).
RevokeClears == ~granted ~> (granted \/ retained = {})

=============================================================================
