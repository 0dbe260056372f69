------------------------- MODULE CommandAttribution -------------------------
(***************************************************************************)
(* Whose command was that?  Zigbee2MQTT's broker shows the collector a     *)
(* command, Home Assistant's event stream tells it what its automations    *)
(* did, and the two arrive in either order.  A command that comes second   *)
(* is named when its chain opens (HaAttribution.name_for, entity_name_for);*)
(* one that comes first is named by the event, while its chain is open     *)
(* (ChainTracker.attribute_client, attribute_entity_call).  A command an   *)
(* extension sends is named by the message that made it send it            *)
(* (CauseRing, attribute_cause).                                           *)
(*                                                                         *)
(* One lamp.  A payload is the state it asks for; an act is a publish to   *)
(* the lamp ("set"), to the extension ("ext"), or a service call on the    *)
(* lamp's entity, whose event has no payload.                              *)
(***************************************************************************)
EXTENDS Integers, SequencesExt, FiniteSetsExt

CONSTANTS
    None, Ambiguous, Unresolved,
    Commanders, Payloads,
    CORRELATION_TOLERANCE_SECONDS, CONTEXT_TTL_SECONDS, CAUSE_TTL_SECONDS,
    CHAIN_SECONDS,                    \* the window of a chain and its lateness
    MaxTime, MaxActs, MaxReconnects   \* bounds of the model

AttributionAssumption ==
    /\ {CORRELATION_TOLERANCE_SECONDS, CONTEXT_TTL_SECONDS, CAUSE_TTL_SECONDS, CHAIN_SECONDS,
        MaxTime, MaxActs, MaxReconnects} \subseteq Nat
    /\ None \notin Commanders \cup Payloads \cup Nat \cup {Ambiguous, Unresolved}
    /\ {Ambiguous, Unresolved} \cap Commanders = {}

VARIABLES
    now,
    acts,       \* ghost: what the commanders did, in order, and when its event came
    wire,       \* messages on their way from the broker
    events,     \* events on their way from Home Assistant
    contexts,   \* _context_names, in the order of the dictionary
    recent,     \* _recent
    entities,   \* _recent_entities
    causes,     \* CauseRing._entries
    chains,     \* the lamp's open chains, the oldest first
    late,       \* ghost: a command came more than the tolerance after its event
    reconnects

remembered == <<contexts, recent, entities>>
vars == <<now, acts, wire, events, remembered, causes, chains, late, reconnects>>

Kinds == {"publish", "publish unseen", "call", "call toggle"}

Init ==
    /\ now = 0 /\ acts = << >> /\ wire = << >> /\ events = << >>
    /\ contexts = << >> /\ recent = << >> /\ entities = << >>
    /\ causes = << >> /\ chains = << >> /\ late = FALSE /\ reconnects = 0

\* An automation runs and does one thing.  The event of a publish may lack the
\* payload, and a toggle does not say what it asks for.
Act(who, kind, topic, payload) ==
    /\ Len(acts) < MaxActs
    /\ kind \in {"call", "call toggle"} => topic = "set"
    /\ acts' = Append(acts, [by |-> who, kind |-> kind, topic |-> topic, payload |-> payload,
                             heard |-> None])
    /\ wire' = Append(wire, [topic |-> topic, act |-> Len(acts) + 1])
    /\ events' = events \o <<[what |-> "run", act |-> Len(acts) + 1],
                             [what |-> "act", act |-> Len(acts) + 1]>>
    /\ UNCHANGED <<now, remembered, causes, chains, late, reconnects>>

Tick ==
    /\ now < MaxTime /\ now' = now + 1
    /\ UNCHANGED <<acts, wire, events, remembered, causes, chains, late, reconnects>>

\* The connection to Home Assistant is lost, and what it would have told with it.
Reconnect ==
    /\ reconnects < MaxReconnects /\ reconnects' = reconnects + 1
    /\ events' = << >>
    /\ UNCHANGED <<now, acts, wire, remembered, causes, chains, late>>

-----------------------------------------------------------------------------
(* Queues and dictionaries, in the order of their entries *)

\* What is left when entries are popped from the front until one is kept.
PoppedUntil(s, kept) == IF kept = {} THEN << >> ELSE SubSeq(s, Min(kept), Len(s))

\* dict.pop: the entry of a key, of which there is at most one.
PoppedAt(s, places) == IF places = {} THEN s ELSE RemoveAt(s, Min(places))

-----------------------------------------------------------------------------
(* The names a command may get when it is seen *)

Within(entry, at) == at - entry.at <= CORRELATION_TOLERANCE_SECONDS

\* name_for: of the publishes to the topic in the window, those of the same
\* bytes name the command if they agree and none is without its payload.
Candidates(topic, payload, at) ==
    {e \in ToSet(recent) : /\ e.topic = topic /\ e.payload \in {payload, None}
                           /\ Within(e, at) /\ e.at - at <= CORRELATION_TOLERANCE_SECONDS}

NameFor(topic, payload, at) ==
    LET seen == Candidates(topic, payload, at)
        names == {e.name : e \in seen}
    IN CASE seen = {} -> None
         [] seen # {} /\ Cardinality(names) = 1 /\ (\A e \in seen : e.payload # None) ->
              CHOOSE n \in names : TRUE
         [] OTHER -> Ambiguous

\* entity_name_for
EntityNameFor(payload) ==
    LET names == {e.name : e \in {e \in ToSet(entities) : Within(e, now) /\ e.want \in {None, payload}}}
    IN IF names = {} THEN None
       ELSE IF Cardinality(names) = 1 THEN CHOOSE n \in names : TRUE ELSE Ambiguous

Named(name, other) == IF name # None THEN name ELSE other

-----------------------------------------------------------------------------
(* The wire *)

\* ChainTracker._expire, of a queue whose chains have one window.
Remaining ==
    PoppedUntil(chains, {i \in 1..Len(chains) : chains[i].opened + CHAIN_SECONDS > now})
Opened(payload, client, cause, act) ==
    Append(Remaining,
           [opened |-> now, payload |-> payload, client |-> client, cause |-> cause, act |-> act])

\* A state of the lamp, or the worker that drains what is over.
Expire ==
    /\ chains' = Remaining /\ chains' # chains
    /\ UNCHANGED <<now, acts, wire, events, remembered, causes, late, reconnects>>

\* CauseRing._prune and note
Fresh == PoppedUntil(causes, {i \in 1..Len(causes) : causes[i].at >= now - CAUSE_TTL_SECONDS})
Noted(payload) ==
    Append(PoppedAt(Fresh, {i \in 1..Len(Fresh) : Fresh[i].payload = payload}),
           [at |-> now, payload |-> payload])

SetSeen(m) ==
    /\ m.topic = "set"
    /\ LET payload == acts[m.act].payload
       IN chains' = Opened(payload, Named(NameFor("set", payload, now), EntityNameFor(payload)),
                           None, m.act)
    /\ wire' = Tail(wire) /\ UNCHANGED causes

\* A message to the extension: it sends a command, and reports it first.
CauseSeen(m) ==
    /\ m.topic = "ext"
    /\ causes' = Noted(acts[m.act].payload)
    /\ wire' = Append(Tail(wire), [topic |-> "report", act |-> m.act])
    /\ UNCHANGED chains

ReportSeen(m) ==
    /\ m.topic = "report"
    /\ LET payload == acts[m.act].payload
           found == {c \in ToSet(Fresh) : c.payload = payload}
       IN /\ causes' = Fresh
          /\ chains' = IF found = {} THEN Opened(payload, None, None, m.act)
                       ELSE Opened(payload, NameFor("ext", payload, (CHOOSE c \in found : TRUE).at),
                                   payload, m.act)
    /\ wire' = Tail(wire)

WireMessage ==
    /\ wire # << >>
    /\ LET m == Head(wire)
           heard == acts[m.act].heard
       IN /\ SetSeen(m) \/ CauseSeen(m) \/ ReportSeen(m)
          /\ late' = (late \/ (heard # None /\ now - heard > CORRELATION_TOLERANCE_SECONDS))
    /\ UNCHANGED <<now, acts, events, remembered, reconnects>>

-----------------------------------------------------------------------------
(* Home Assistant's events *)

\* _prune: the contexts that are over are the first of the dictionary.
Pruned ==
    PoppedUntil(contexts, {i \in 1..Len(contexts) : contexts[i].at >= now - CONTEXT_TTL_SECONDS})

\* _remember_context moves a context to the end.
Run(who) ==
    /\ contexts' = Append(PoppedAt(Pruned, {i \in 1..Len(Pruned) : Pruned[i].who = who}),
                         [who |-> who, at |-> now])
    /\ UNCHANGED <<recent, entities, chains>>

Resolved(who) == IF \E c \in ToSet(contexts') : c.who = who THEN who ELSE Unresolved

Nameless == {i \in 1..Len(chains) : chains[i].client = None}
Oldest(places) == IF places = {} THEN None ELSE Min(places)
Newest(places) == IF places = {} THEN None ELSE Max(places)
Credited(i, name) == IF i = None THEN chains ELSE [chains EXCEPT ![i].client = name]

\* attribute_client: the oldest nameless chain of these bytes, or the newest
\* nameless one when there are no bytes to match.
V_AnyChain(payload) == Oldest(Nameless)
ChainOf(payload) ==
    IF payload = None THEN Newest(Nameless)
    ELSE Oldest({i \in Nameless : chains[i].payload = payload})

\* attribute_cause: every nameless chain of the message.
CausedBy(payload, name) ==
    [i \in 1..Len(chains) |->
       IF chains[i].client = None /\ chains[i].cause = payload THEN [chains[i] EXCEPT !.client = name]
       ELSE chains[i]]

\* handle_event of a publish, and _on_ha_publish.
Published(a) ==
    /\ contexts' = Pruned
    /\ LET name == Resolved(a.by)
           payload == IF a.kind = "publish" THEN a.payload ELSE None
       IN /\ recent' = Append(recent, [at |-> now, topic |-> a.topic, payload |-> payload, name |-> name])
          /\ chains' = CASE a.topic = "set" -> Credited(ChainOf(payload), name)
                         [] a.topic = "ext" /\ payload # None -> CausedBy(payload, name)
                         [] OTHER -> chains
    /\ UNCHANGED entities

\* _note_entity_call and attribute_entity_call: the newest nameless chain that
\* is not too old and does not ask for something else.
Called(a) ==
    /\ contexts' = Pruned
    /\ LET name == Resolved(a.by)
           want == IF a.kind = "call" THEN a.payload ELSE None
       IN /\ entities' = Append(entities, [at |-> now, want |-> want, name |-> name])
          /\ chains' = Credited(Newest({i \in Nameless :
                          /\ chains[i].opened >= now - CORRELATION_TOLERANCE_SECONDS
                          /\ want \in {None, chains[i].payload}}), name)
    /\ UNCHANGED recent

Event ==
    /\ events # << >> /\ events' = Tail(events)
    /\ LET e == Head(events)
           a == acts[e.act]
       IN \/ e.what = "run" /\ Run(a.by) /\ UNCHANGED acts
          \/ /\ e.what = "act"
             /\ IF a.kind \in {"call", "call toggle"} THEN Called(a) ELSE Published(a)
             /\ acts' = [acts EXCEPT ![e.act].heard = now]
    /\ UNCHANGED <<now, wire, causes, late, reconnects>>

Next ==
    \/ \E who \in Commanders, kind \in Kinds, topic \in {"set", "ext"}, payload \in Payloads :
         Act(who, kind, topic, payload)
    \/ Tick \/ Reconnect \/ WireMessage \/ Expire \/ Event

Spec == Init /\ [][Next]_vars

-----------------------------------------------------------------------------

TypeOK ==
    /\ \A i \in 1..Len(chains) :
         /\ chains[i].client \in Commanders \cup {None, Ambiguous, Unresolved}
         /\ chains[i].payload \in Payloads /\ chains[i].cause \in Payloads \cup {None}
         /\ chains[i].opened \in 0..now /\ chains[i].act \in 1..Len(acts)
    /\ \A i \in 1..Len(contexts) - 1 : contexts[i].at <= contexts[i + 1].at
    /\ late \in BOOLEAN

\* An act that may be the command of a chain: its bytes where they are known.
\* A publish to the lamp may take an extension's command of the same bytes.
Sent(a, c) ==
    \/ /\ a.kind = "publish" /\ a.payload = c.payload
       /\ a.topic = "ext" => c.cause # None
    \/ a.kind = "call" /\ a.payload = c.payload
    \/ a.kind = "call toggle"
SentUnseen(a) == a.kind = "publish unseen" /\ a.topic = "set"

\* A command is never credited to an automation that did not send it, or the
\* same bytes, or called the lamp's entity for it (hacontrol.py:11-14, 287-293),
\* but for a publish whose bytes the event does not have, which is credited
\* with the newest nameless command (chains.py:316-321).
CreditedToASender ==
    \A i \in 1..Len(chains) : chains[i].client \in Commanders =>
      \E j \in 1..Len(acts) :
        acts[j].by = chains[i].client /\ (Sent(acts[j], chains[i]) \/ SentUnseen(acts[j]))

\* Publishes to the lamp leave no command nameless, in whichever order command
\* and event come, while each command came within the tolerance of its event,
\* unless a service call, a publish without its bytes or an extension's took a
\* chain that was not its own, or events were lost: the names of equal commands
\* then move up by one.
OnlyPublishes == \A j \in 1..Len(acts) : acts[j].kind = "publish" /\ acts[j].topic = "set"
NobodyNameless ==
    reconnects = 0 /\ ~late /\ OnlyPublishes =>
      \A i \in 1..Len(chains) :
        acts[chains[i].act].heard # None => chains[i].client # None

\* hacontrol.py:69-72: a publish whose payload is not known makes a command
\* ambiguous, it does not name it.
NeverGuessed ==
    \A i \in 1..Len(chains) : chains[i].client \in Commanders =>
      \E j \in 1..Len(acts) : acts[j].by = chains[i].client /\ Sent(acts[j], chains[i])
=============================================================================
