------------------------- MODULE Attribution_proofs -------------------------
(***************************************************************************)
(* Proofs about three of the parts of MCEvidence: who a command is         *)
(* credited to (CommandAttribution), for any commanders, payloads, windows *)
(* and bounds; whether it changed anything (NoopVerdicts), for any lamps,  *)
(* commands, caps and bounds; and the mesh graph with its depths           *)
(* (MeshGraph), for any nodes and rows.  Each invariant is over its part's *)
(* own variables; Apart says that a step of the whole is a step of the     *)
(* part or leaves it alone.                                                *)
(***************************************************************************)
EXTENDS MCEvidence, OrderLemmas, TLAPS

\* An instance has its own copies of the library's operators.
LEMMA Copies ==
    \A s, S, i : /\ Attribution!Min(S) = Min(S) /\ Attribution!Max(S) = Max(S)
                 /\ Attribution!ToSet(s) = {s[j] : j \in DOMAIN s}
                 /\ Attribution!RemoveAt(s, i) = SubSeq(s, 1, i - 1) \o SubSeq(s, i + 1, Len(s))
BY DEF Attribution!Min, Attribution!Max, Attribution!ToSet, Attribution!RemoveAt, Min, Max

\* A step of the whole is one of a part, or leaves it alone.
LEMMA Apart == [Next]_vars => [Attribution!Next]_attribution /\ [Noops!Next]_noops
                            /\ [Graph!Next]_graph
BY DEF Next, vars, FusionMoves, RollupsMove, TapMoves, GraphMoves,
       AttributionMoves, ReceiptsMove, NoopsMove, JournalMoves

-----------------------------------------------------------------------------
(* Entries of queues and dictionaries *)

\* What the sequences hold.
Acts == [by : Automations, kind : Attribution!Kinds, topic : {"set", "ext"},
         payload : Payloads, heard : Nat \cup {None}]
Messages == [topic : {"set", "ext", "report"}, act : Nat]
Events == [what : {"run", "act"}, act : Nat]
Contexts == [who : Automations, at : Nat]
Publishes == [at : Nat, topic : {"set", "ext"}, payload : Payloads \cup {None},
              name : Automations \cup {Unresolved}]
Calls == [at : Nat, want : Payloads \cup {None}, name : Automations \cup {Unresolved}]
Causes == [at : Nat, payload : Payloads]
Clients == Automations \cup {None, Ambiguous, Unresolved}
Chains == [opened : Nat, payload : Payloads, client : Clients, cause : Payloads \cup {None},
           act : Nat]

\* What is popped from the front is a prefix (_expire, both _prune).
LEMMA Popping ==
    ASSUME NEW S, NEW s \in Seq(S), NEW kept, kept \subseteq 1 .. Len(s)
    PROVE  /\ Attribution!PoppedUntil(s, kept) \in Seq(S)
           /\ Len(Attribution!PoppedUntil(s, kept)) \in 0 .. Len(s)
           /\ \A i \in 1 .. Len(Attribution!PoppedUntil(s, kept)) :
                Attribution!PoppedUntil(s, kept)[i]
                  = s[i + (Len(s) - Len(Attribution!PoppedUntil(s, kept)))]
<1> DEFINE r == Attribution!PoppedUntil(s, kept)
<1>1. CASE kept = {}
  <2>1. r = << >>
    BY <1>1 DEF Attribution!PoppedUntil
  <2>2. Len(r) = 0 /\ r \in Seq(S)
    BY <2>1
  <2>3. QED
    BY <2>2
<1>2. CASE kept # {}
  <2> DEFINE m == Min(kept)
  <2>1. kept \in SUBSET Nat
    OBVIOUS
  <2>2. m \in 1 .. Len(s)
    BY <1>2, <2>1, MinOf
  <2>3. r = SubSeq(s, m, Len(s))
    BY <1>2, Copies DEF Attribution!PoppedUntil
  <2> HIDE DEF m, r
  <2>4. \A i \in m .. Len(s) : s[i] \in S
    BY <2>2
  <2>5. /\ r \in Seq(S) /\ Len(r) = Len(s) - m + 1
        /\ \A i \in 1 .. Len(s) - m + 1 : r[i] = s[m + i - 1]
    BY <2>2, <2>3, <2>4, SubSeqProperties
  <2>6. Len(r) \in 0 .. Len(s) /\ Len(s) - Len(r) = m - 1
    BY <2>2, <2>5
  <2>7. \A i \in 1 .. Len(r) : r[i] = s[i + (Len(s) - Len(r))]
    BY <2>2, <2>5, <2>6
  <2>8. QED
    BY <2>5, <2>6, <2>7 DEF r
<1>3. QED
  BY <1>1, <1>2

\* The entries of r are of s, in the order of s.
Drawn(r, s) ==
    /\ \A i \in 1 .. Len(r) :
         \/ i \in 1 .. Len(s) /\ r[i] = s[i]
         \/ i + 1 \in 1 .. Len(s) /\ r[i] = s[i + 1]
    /\ \A i, j \in 1 .. Len(r) : i < j =>
         \E k, l \in 1 .. Len(s) : k < l /\ r[i] = s[k] /\ r[j] = s[l]

\* The entry of a key goes and the others keep their order (dict.pop).
LEMMA PoppedKey ==
    ASSUME NEW S, NEW s \in Seq(S), NEW places, places \subseteq 1 .. Len(s)
    PROVE  /\ Attribution!PoppedAt(s, places) \in Seq(S)
           /\ Drawn(Attribution!PoppedAt(s, places), s)
<1> DEFINE r == Attribution!PoppedAt(s, places)
<1>1. CASE places = {}
  BY <1>1 DEF Attribution!PoppedAt, Drawn
<1>2. CASE places # {}
  <2> DEFINE m == Min(places)
             u == SubSeq(s, 1, m - 1)
             v == SubSeq(s, m + 1, Len(s))
  <2>1. places \in SUBSET Nat
    OBVIOUS
  <2>2. m \in 1 .. Len(s)
    BY <1>2, <2>1, MinOf
  <2>3. r = u \o v
    BY <1>2, Copies DEF Attribution!PoppedAt
  <2> HIDE DEF m, r
  <2>4. /\ u \in Seq(S) /\ Len(u) = m - 1 /\ \A i \in 1 .. m - 1 : u[i] = s[i]
    <3>1. \A i \in 1 .. m - 1 : s[i] \in S
      BY <2>2
    <3>2. /\ u \in Seq(S) /\ Len(u) = (IF 1 <= m - 1 THEN m - 1 - 1 + 1 ELSE 0)
          /\ \A i \in 1 .. m - 1 - 1 + 1 : u[i] = s[1 + i - 1]
      BY <2>2, <3>1, SubSeqProperties
    <3>3. QED
      BY <2>2, <3>2
  <2>5. /\ v \in Seq(S) /\ Len(v) = Len(s) - m
        /\ \A i \in 1 .. Len(s) - m : v[i] = s[m + i]
    <3>1. \A i \in m + 1 .. Len(s) : s[i] \in S
      BY <2>2
    <3>2. /\ v \in Seq(S)
          /\ Len(v) = (IF m + 1 <= Len(s) THEN Len(s) - (m + 1) + 1 ELSE 0)
          /\ \A i \in 1 .. Len(s) - (m + 1) + 1 : v[i] = s[m + 1 + i - 1]
      BY <2>2, <3>1, SubSeqProperties
    <3>3. QED
      BY <2>2, <3>2
  <2> HIDE DEF u, v
  <2>6. /\ r \in Seq(S) /\ Len(r) = Len(s) - 1
        /\ \A i \in 1 .. Len(s) - 1 : r[i] = IF i < m THEN s[i] ELSE s[i + 1]
    <3>1. /\ r \in Seq(S) /\ Len(r) = Len(u) + Len(v)
          /\ \A i \in 1 .. Len(u) + Len(v) : r[i] = IF i <= Len(u) THEN u[i] ELSE v[i - Len(u)]
      <4>1. u \in Seq(S) /\ v \in Seq(S)
        BY <2>4, <2>5
      <4>2. /\ u \o v \in Seq(S) /\ Len(u \o v) = Len(u) + Len(v)
            /\ \A i \in 1 .. Len(u) + Len(v) :
                 (u \o v)[i] = IF i <= Len(u) THEN u[i] ELSE v[i - Len(u)]
        BY <4>1, ConcatProperties, Zenon
      <4>3. QED
        BY <4>2, <2>3
    <3>2. Len(r) = Len(s) - 1 /\ Len(u) + Len(v) = Len(s) - 1
      BY <3>1, <2>2, <2>4, <2>5
    <3>3. ASSUME NEW i \in 1 .. Len(s) - 1 PROVE r[i] = IF i < m THEN s[i] ELSE s[i + 1]
      <4>1. CASE i < m
        BY <4>1, <3>1, <3>2, <2>2, <2>4
      <4>2. CASE ~(i < m)
        <5>1. i - (m - 1) \in 1 .. Len(s) - m /\ m + (i - (m - 1)) = i + 1
          BY <4>2, <2>2
        <5>2. v[i - (m - 1)] = s[i + 1]
          BY <5>1, <2>5
        <5>3. QED
          BY <4>2, <5>2, <3>1, <3>2, <2>2, <2>4
      <4>3. QED
        BY <4>1, <4>2
    <3>4. QED
      BY <3>1, <3>2, <3>3
  <2>7. \A i \in 1 .. Len(r) : \/ i \in 1 .. Len(s) /\ r[i] = s[i]
                               \/ i + 1 \in 1 .. Len(s) /\ r[i] = s[i + 1]
    BY <2>6
  <2>8. ASSUME NEW i \in 1 .. Len(r), NEW j \in 1 .. Len(r), i < j
        PROVE  \E k, l \in 1 .. Len(s) : k < l /\ r[i] = s[k] /\ r[j] = s[l]
    <3> DEFINE k == IF i < m THEN i ELSE i + 1
               l == IF j < m THEN j ELSE j + 1
    <3>1. k \in 1 .. Len(s) /\ l \in 1 .. Len(s) /\ k < l /\ r[i] = s[k] /\ r[j] = s[l]
      BY <2>6, <2>2, <2>8
    <3>2. QED
      BY <3>1
  <2>9. QED
    BY <2>6, <2>7, <2>8 DEF r, Drawn
<1>3. QED
  BY <1>1, <1>2

-----------------------------------------------------------------------------
(* The invariant *)

\* The types of the part's variables: what names an act names one that was
\* done, nothing is of a later time, and the contexts are in the order of time.
Typed ==
    /\ moment \in Nat /\ late \in BOOLEAN /\ reconnects \in Nat
    /\ acts \in Seq(Acts)
    /\ broker \in Seq(Messages) /\ \A i \in 1 .. Len(broker) : broker[i].act \in 1 .. Len(acts)
    /\ events \in Seq(Events) /\ \A i \in 1 .. Len(events) : events[i].act \in 1 .. Len(acts)
    /\ contexts \in Seq(Contexts) /\ \A i \in 1 .. Len(contexts) : contexts[i].at <= moment
    /\ \A i, j \in 1 .. Len(contexts) : i < j => contexts[i].at <= contexts[j].at
    /\ recent \in Seq(Publishes) /\ entities \in Seq(Calls) /\ causes \in Seq(Causes)
    /\ chains \in Seq(Chains)
    /\ \A i \in 1 .. Len(chains) : chains[i].opened <= moment /\ chains[i].act \in 1 .. Len(acts)

\* Of the acts told: the one a remembered publish is, the one a remembered call
\* is, and one that may have sent the command of a chain.
PublishedBy(told, e) ==
    \E j \in 1 .. Len(told) :
        /\ told[j].by = e.name /\ told[j].topic = e.topic
        /\ e.payload # None => told[j].kind = "publish" /\ told[j].payload = e.payload
CalledBy(told, e) ==
    \E j \in 1 .. Len(told) :
        /\ told[j].by = e.name
        /\ \/ told[j].kind = "call" /\ told[j].payload = e.want
           \/ told[j].kind = "call toggle" /\ e.want = None
SentBy(told, c) ==
    \E j \in 1 .. Len(told) :
        /\ told[j].by = c.client
        /\ Attribution!Sent(told[j], c) \/ Attribution!SentUnseen(told[j])

\* What is remembered under a name was done under that name.
Told ==
    /\ \A i \in 1 .. Len(recent) : recent[i].name \in Automations => PublishedBy(acts, recent[i])
    /\ \A i \in 1 .. Len(entities) : entities[i].name \in Automations => CalledBy(acts, entities[i])

\* A chain an extension's message opened has that message's payload, and one
\* with a name was sent by its bearer.
Credit ==
    \A i \in 1 .. Len(chains) :
        /\ chains[i].cause # None => chains[i].cause = chains[i].payload
        /\ chains[i].client \in Automations => SentBy(acts, chains[i])

\* No event was lost, and all acts are publishes to the lamp: commands and
\* events are then those of the acts, each in the order of the acts.
Undisturbed == reconnects = 0 /\ Attribution!OnlyPublishes
CommandsInOrder ==
    /\ \A i \in 1 .. Len(broker) : broker[i].topic = "set"
    /\ \A i, j \in 1 .. Len(broker) : i < j => broker[i].act < broker[j].act
    /\ \A i, j \in 1 .. Len(chains) : i < j => chains[i].act < chains[j].act
    /\ \A i \in 1 .. Len(chains), k \in 1 .. Len(broker) : chains[i].act < broker[k].act
    /\ \A i \in 1 .. Len(chains) : chains[i].payload = acts[chains[i].act].payload
EventsInOrder ==
    /\ \A i, j \in 1 .. Len(events) : i < j => events[i].act <= events[j].act
    /\ \A k \in 1 .. Len(acts) : acts[k].heard = None =>
         \E i \in 1 .. Len(events) : events[i].what = "act" /\ events[i].act = k
    /\ \A k \in 1 .. Len(acts) : acts[k].heard # None =>
         /\ acts[k].heard <= moment
         /\ \E i \in 1 .. Len(recent) :
              /\ recent[i].at = acts[k].heard /\ recent[i].topic = "set"
              /\ recent[i].payload = acts[k].payload

\* A command whose event has come has a name, unless one was late.
HeardAreNamed ==
    ~late => \A i \in 1 .. Len(chains) :
                acts[chains[i].act].heard # None => chains[i].client # None

\* The inductive invariant.
Paired == Undisturbed => CommandsInOrder /\ EventsInOrder /\ HeardAreNamed
AttributionInv == Typed /\ Told /\ Credit /\ Paired

\* At the start nothing was done.
LEMMA AttributionInit == Attribution!Init => AttributionInv
<1> SUFFICES ASSUME Attribution!Init PROVE AttributionInv
  OBVIOUS
<1>1. /\ acts = << >> /\ broker = << >> /\ events = << >> /\ contexts = << >> /\ recent = << >>
      /\ entities = << >> /\ causes = << >> /\ chains = << >>
      /\ moment = 0 /\ late = FALSE /\ reconnects = 0
  BY DEF Attribution!Init
<1>2. /\ << >> \in Seq(Acts) /\ << >> \in Seq(Messages) /\ << >> \in Seq(Events)
      /\ << >> \in Seq(Contexts) /\ << >> \in Seq(Publishes) /\ << >> \in Seq(Calls)
      /\ << >> \in Seq(Causes) /\ << >> \in Seq(Chains) /\ 1 .. Len(<< >>) = {}
  OBVIOUS
<1>3. Typed
  BY <1>1, <1>2 DEF Typed
<1>4. Told /\ Credit /\ Paired
  BY <1>1 DEF Told, Credit, Paired, CommandsInOrder, EventsInOrder, HeardAreNamed
<1>5. QED
  BY <1>3, <1>4 DEF AttributionInv

-----------------------------------------------------------------------------
(* What the operators give *)

\* The entries of the sequences, one by one.
LEMMA Entries ==
    ASSUME Typed
    PROVE  /\ Len(acts) \in Nat /\ \A j \in 1 .. Len(acts) : acts[j] \in Acts
           /\ Len(broker) \in Nat /\ \A i \in 1 .. Len(broker) : broker[i] \in Messages
           /\ Len(events) \in Nat /\ \A i \in 1 .. Len(events) : events[i] \in Events
           /\ Len(contexts) \in Nat /\ \A i \in 1 .. Len(contexts) : contexts[i] \in Contexts
           /\ Len(recent) \in Nat /\ \A i \in 1 .. Len(recent) : recent[i] \in Publishes
           /\ Len(entities) \in Nat /\ \A i \in 1 .. Len(entities) : entities[i] \in Calls
           /\ Len(causes) \in Nat /\ \A i \in 1 .. Len(causes) : causes[i] \in Causes
           /\ Len(chains) \in Nat /\ \A i \in 1 .. Len(chains) : chains[i] \in Chains
           /\ DOMAIN recent = 1 .. Len(recent) /\ DOMAIN entities = 1 .. Len(entities)
           /\ None \notin Payloads \cup Automations \cup Nat \cup {Ambiguous, Unresolved}
           /\ Ambiguous \notin Automations /\ Unresolved \notin Automations
<1>1. /\ acts \in Seq(Acts) /\ broker \in Seq(Messages) /\ events \in Seq(Events)
      /\ contexts \in Seq(Contexts) /\ recent \in Seq(Publishes) /\ entities \in Seq(Calls)
      /\ causes \in Seq(Causes) /\ chains \in Seq(Chains)
  BY DEF Typed
<1>2. \A S : \A s \in Seq(S) : /\ Len(s) \in Nat /\ DOMAIN s = 1 .. Len(s)
                              /\ \A i \in 1 .. Len(s) : s[i] \in S
  BY LenProperties, ElementOfSeq
<1>3. QED
  BY <1>1, <1>2, AttributionAssumption DEF Attribution!AttributionAssumption

\* The acts keep what they are when one is added or heard of.
Grown(told) ==
    /\ Len(acts) <= Len(told)
    /\ \A j \in 1 .. Len(acts) : /\ told[j].by = acts[j].by /\ told[j].kind = acts[j].kind
                                 /\ told[j].topic = acts[j].topic
                                 /\ told[j].payload = acts[j].payload

\* Who published, called or sent, still did when more is told.
LEMMA StillTold ==
    ASSUME Typed, NEW told, told \in Seq(Acts), Grown(told)
    PROVE  /\ \A e : PublishedBy(acts, e) => PublishedBy(told, e)
           /\ \A e : CalledBy(acts, e) => CalledBy(told, e)
           /\ \A c : SentBy(acts, c) => SentBy(told, c)
<1>1. \A j \in 1 .. Len(acts) : j \in 1 .. Len(told)
  BY DEF Typed, Grown
<1>2. QED
  BY <1>1 DEF Grown, PublishedBy, CalledBy, SentBy, Attribution!Sent, Attribution!SentUnseen

\* name_for names one who published these bytes to the topic, and names
\* somebody, or says that it is ambiguous, if such a publish is in the window.
LEMMA NameForFacts ==
    ASSUME Typed, Told, NEW topic \in {"set", "ext"}, NEW payload \in Payloads, NEW at \in Nat
    PROVE  /\ Attribution!NameFor(topic, payload, at) \in Clients
           /\ Attribution!NameFor(topic, payload, at) \in Automations =>
                \E j \in 1 .. Len(acts) :
                   /\ acts[j].by = Attribution!NameFor(topic, payload, at)
                   /\ acts[j].topic = topic
                   /\ acts[j].kind = "publish" /\ acts[j].payload = payload
           /\ (\E i \in 1 .. Len(recent) :
                  /\ recent[i].topic = topic /\ recent[i].payload = payload
                  /\ Attribution!Within(recent[i], at)
                  /\ recent[i].at - at <= CORRELATION_TOLERANCE_SECONDS) =>
                Attribution!NameFor(topic, payload, at) # None
<1> DEFINE fits == Attribution!Candidates(topic, payload, at)
           names == {e.name : e \in fits}
           picked == CHOOSE n \in names : TRUE
           name == Attribution!NameFor(topic, payload, at)
<1>1. /\ fits = {} => name = None
      /\ fits # {} => \/ name = picked /\ \A e \in fits : e.payload # None
                      \/ name = Ambiguous
  BY DEF Attribution!NameFor
<1>2. fits = {e \in {recent[i] : i \in DOMAIN recent} :
                /\ e.topic = topic /\ e.payload \in {payload, None}
                /\ Attribution!Within(e, at) /\ e.at - at <= CORRELATION_TOLERANCE_SECONDS}
  BY Copies DEF Attribution!Candidates
<1>3. /\ \A e \in fits : \E i \in 1 .. Len(recent) :
           e = recent[i] /\ e.topic = topic /\ e.payload \in {payload, None}
      /\ \A i \in 1 .. Len(recent) :
           (/\ recent[i].topic = topic /\ recent[i].payload = payload
            /\ Attribution!Within(recent[i], at)
            /\ recent[i].at - at <= CORRELATION_TOLERANCE_SECONDS) => recent[i] \in fits
  <2>1. DOMAIN recent = 1 .. Len(recent)
    BY Entries
  <2>2. QED
    <3> HIDE DEF fits
    <3> QED BY <1>2, <2>1
<1>4. fits # {} => \E e \in fits : picked = e.name
  <2>1. fits # {} => picked \in names
    OBVIOUS
  <2>2. QED
    BY <2>1
<1> HIDE DEF fits, names, picked, name
<1>5. \A e \in fits : e.name \in Automations \cup {Unresolved}
  BY <1>3, Entries DEF Publishes
<1>6. /\ None \notin Automations \cup {Unresolved} /\ Ambiguous # None
      /\ Ambiguous \notin Automations
  BY Entries
<1>7. name \in Clients /\ (fits # {} => name # None)
  BY <1>1, <1>4, <1>5, <1>6 DEF Clients
<1>8. ASSUME name \in Automations
      PROVE  \E j \in 1 .. Len(acts) : /\ acts[j].by = name /\ acts[j].topic = topic
                                       /\ acts[j].kind = "publish" /\ acts[j].payload = payload
  <2>1. fits # {} /\ name = picked /\ \A e \in fits : e.payload # None
    BY <1>1, <1>6, <1>8
  <2>2. PICK e \in fits : name = e.name
    BY <1>4, <2>1
  <2>3. PICK i \in 1 .. Len(recent) :
          e = recent[i] /\ e.topic = topic /\ e.payload \in {payload, None}
    BY <1>3, <2>2
  <2>4. e.payload = payload /\ e.payload # None
    BY <2>1, <2>2, <2>3
  <2>5. PublishedBy(acts, e)
    BY <1>8, <2>2, <2>3 DEF Told
  <2>6. QED
    BY <2>2, <2>3, <2>4, <2>5 DEF PublishedBy
<1>9. QED
  BY <1>3, <1>7, <1>8 DEF fits, name

\* entity_name_for names one who called the lamp for this state or a toggle.
LEMMA EntityFacts ==
    ASSUME Typed, Told, NEW payload \in Payloads
    PROVE  /\ Attribution!EntityNameFor(payload) \in Clients
           /\ Attribution!EntityNameFor(payload) \in Automations =>
                \E j \in 1 .. Len(acts) :
                   /\ acts[j].by = Attribution!EntityNameFor(payload)
                   /\ \/ acts[j].kind = "call" /\ acts[j].payload = payload
                      \/ acts[j].kind = "call toggle"
<1> DEFINE fits == {e \in Attribution!ToSet(entities) :
                      Attribution!Within(e, moment) /\ e.want \in {None, payload}}
           names == {e.name : e \in fits}
           picked == CHOOSE n \in names : TRUE
           name == Attribution!EntityNameFor(payload)
<1>1. name = None \/ name = Ambiguous \/ (names # {} /\ name = picked)
  BY DEF Attribution!EntityNameFor
<1>2. \A e \in fits : \E i \in 1 .. Len(entities) : e = entities[i] /\ e.want \in {None, payload}
  <2>1. DOMAIN entities = 1 .. Len(entities)
    BY Entries
  <2>2. QED
    BY <2>1, Copies
<1>3. names # {} => \E e \in fits : picked = e.name
  <2>1. names # {} => picked \in names
    OBVIOUS
  <2>2. QED
    BY <2>1
<1> HIDE DEF fits, names, picked, name
<1>4. \A e \in fits : e.name \in Automations \cup {Unresolved}
  BY <1>2, Entries DEF Calls
<1>5. None \notin Automations /\ Ambiguous \notin Automations
  BY Entries
<1>6. name \in Clients
  BY <1>1, <1>3, <1>4 DEF Clients
<1>7. ASSUME name \in Automations
      PROVE  \E j \in 1 .. Len(acts) :
               /\ acts[j].by = name
               /\ \/ acts[j].kind = "call" /\ acts[j].payload = payload
                  \/ acts[j].kind = "call toggle"
  <2>1. PICK e \in fits : name = e.name
    BY <1>1, <1>3, <1>5, <1>7
  <2>2. PICK i \in 1 .. Len(entities) : e = entities[i] /\ e.want \in {None, payload}
    BY <1>2, <2>1
  <2>3. CalledBy(acts, e)
    BY <1>7, <2>1, <2>2 DEF Told
  <2>4. PICK j \in 1 .. Len(acts) :
          /\ acts[j].by = e.name
          /\ \/ acts[j].kind = "call" /\ acts[j].payload = e.want
             \/ acts[j].kind = "call toggle" /\ e.want = None
    BY <2>3 DEF CalledBy
  <2>5. acts[j].payload # None
    <3>1. acts[j] \in Acts /\ None \notin Payloads
      BY <2>4, Entries
    <3>2. QED
      BY <3>1 DEF Acts
  <2>6. QED
    BY <2>1, <2>2, <2>4, <2>5
<1>8. QED
  BY <1>6, <1>7 DEF name

\* _expire drops the oldest chains, if any.
LEMMA RemainingFacts ==
    ASSUME Typed
    PROVE  /\ Attribution!Remaining \in Seq(Chains)
           /\ Len(Attribution!Remaining) \in 0 .. Len(chains)
           /\ \A i \in 1 .. Len(Attribution!Remaining) :
                Attribution!Remaining[i] = chains[i + (Len(chains) - Len(Attribution!Remaining))]
<1> DEFINE kept == {i \in 1 .. Len(chains) : chains[i].opened + CHAIN_SECONDS > moment}
<1>1. Attribution!Remaining = Attribution!PoppedUntil(chains, kept)
  BY DEF Attribution!Remaining
<1>2. kept \subseteq 1 .. Len(chains) /\ chains \in Seq(Chains)
  BY DEF Typed
<1> HIDE DEF kept
<1>3. QED
  BY <1>1, <1>2, Popping

\* _expire leaves what is true of each chain, and their order.
LEMMA ExpiryKeeps ==
    ASSUME AttributionInv
    PROVE  LET left == Attribution!Remaining
           IN /\ left \in Seq(Chains)
              /\ \A i \in 1 .. Len(left) :
                   /\ left[i].opened <= moment /\ left[i].act \in 1 .. Len(acts)
                   /\ left[i].cause # None => left[i].cause = left[i].payload
                   /\ left[i].client \in Automations => SentBy(acts, left[i])
              /\ Undisturbed =>
                   /\ \A i, j \in 1 .. Len(left) : i < j => left[i].act < left[j].act
                   /\ \A i \in 1 .. Len(left), k \in 1 .. Len(broker) : left[i].act < broker[k].act
                   /\ \A i \in 1 .. Len(left) : left[i].payload = acts[left[i].act].payload
                   /\ ~late => \A i \in 1 .. Len(left) :
                        acts[left[i].act].heard # None => left[i].client # None
<1> DEFINE left == Attribution!Remaining
<1>1. /\ Typed /\ Credit /\ (Undisturbed => CommandsInOrder /\ HeardAreNamed)
  BY DEF AttributionInv, Paired
<1> DEFINE d == Len(chains) - Len(left)
<1>2. Len(left) \in 0 .. Len(chains) /\ \A i \in 1 .. Len(left) : left[i] = chains[i + d]
  BY <1>1, RemainingFacts
<1>3. left \in Seq(Chains)
  BY <1>1, RemainingFacts
<1> HIDE DEF left
<1>4. /\ d \in Nat
      /\ \A i \in 1 .. Len(left) : i + d \in 1 .. Len(chains) /\ left[i] = chains[i + d]
  BY <1>1, <1>2, Entries
<1> HIDE DEF d
<1>5. \A i \in 1 .. Len(left) :
        /\ left[i].opened <= moment /\ left[i].act \in 1 .. Len(acts)
        /\ left[i].cause # None => left[i].cause = left[i].payload
        /\ left[i].client \in Automations => SentBy(acts, left[i])
  BY <1>1, <1>4 DEF Typed, Credit
<1>6. ASSUME Undisturbed
      PROVE  /\ \A i, j \in 1 .. Len(left) : i < j => left[i].act < left[j].act
             /\ \A i \in 1 .. Len(left), k \in 1 .. Len(broker) : left[i].act < broker[k].act
             /\ \A i \in 1 .. Len(left) : left[i].payload = acts[left[i].act].payload
             /\ ~late => \A i \in 1 .. Len(left) :
                  acts[left[i].act].heard # None => left[i].client # None
  <2>1. CommandsInOrder /\ HeardAreNamed
    BY <1>1, <1>6
  <2>2. \A i, j \in 1 .. Len(left) : i < j => i + d < j + d
    BY <1>4
  <2>3. QED
    BY <1>4, <2>1, <2>2 DEF CommandsInOrder, HeardAreNamed
<1>7. QED
  BY <1>3, <1>5, <1>6 DEF left

-----------------------------------------------------------------------------
(* The steps *)

\* A tick and a lost connection: what was sent and told stays, and after the
\* second no order is claimed.
LEMMA TickStep ==
    ASSUME AttributionInv, Attribution!Tick \/ Attribution!Reconnect
    PROVE  AttributionInv'
<1>1. /\ Typed /\ Told /\ Credit /\ Paired
      /\ moment \in Nat /\ moment' \in Nat /\ moment <= moment'
      /\ reconnects \in Nat /\ reconnects' \in Nat
      /\ UNCHANGED <<acts, broker, contexts, recent, entities, causes, chains, late>>
  BY DEF AttributionInv, Typed, Attribution!Tick, Attribution!Reconnect, Attribution!remembered
<1>2. Told' /\ Credit'
  BY <1>1 DEF Told, Credit
<1>3. events' = events \/ (events' = << >> /\ reconnects' # 0)
  BY <1>1 DEF Attribution!Tick, Attribution!Reconnect
<1>4. Typed'
  <2>1. events' \in Seq(Events) /\ \A k \in 1 .. Len(events') : events'[k].act \in 1 .. Len(acts)
    <3>1. CASE events' = events
      BY <1>1, <3>1 DEF Typed
    <3>2. CASE events' = << >>
      BY <3>2
    <3>3. QED
      BY <1>3, <3>1, <3>2
  <2>2. \A k \in 1 .. Len(contexts) : contexts[k].at <= moment'
    <3>1. \A k \in 1 .. Len(contexts) : contexts[k].at \in Nat /\ contexts[k].at <= moment
      BY <1>1, Entries DEF Typed, Contexts
    <3>2. QED
      BY <1>1, <3>1
  <2>3. \A k \in 1 .. Len(chains) : chains[k].opened <= moment'
    <3>1. \A k \in 1 .. Len(chains) : chains[k].opened \in Nat /\ chains[k].opened <= moment
      BY <1>1, Entries DEF Typed, Chains
    <3>2. QED
      BY <1>1, <3>1
  <2>4. QED
    BY <1>1, <2>1, <2>2, <2>3 DEF Typed
<1>5. Paired'
  <2>1. SUFFICES ASSUME Undisturbed' PROVE (CommandsInOrder /\ EventsInOrder /\ HeardAreNamed)'
    BY DEF Paired
  <2>2. events' = events /\ reconnects' = reconnects
    BY <1>1, <1>3, <2>1 DEF Undisturbed, Attribution!Tick, Attribution!Reconnect
  <2>3. CommandsInOrder /\ EventsInOrder /\ HeardAreNamed
    BY <1>1, <2>1, <2>2 DEF Undisturbed, Attribution!OnlyPublishes, Paired
  <2>4. \A k \in 1 .. Len(acts) : acts[k].heard # None => acts[k].heard <= moment'
    <3>1. \A k \in 1 .. Len(acts) : acts[k].heard # None =>
            acts[k].heard \in Nat /\ acts[k].heard <= moment
      BY <1>1, <2>3, Entries DEF EventsInOrder, Acts
    <3>2. QED
      BY <1>1, <3>1
  <2>5. QED
    BY <1>1, <2>2, <2>3, <2>4 DEF CommandsInOrder, EventsInOrder, HeardAreNamed
<1>6. QED
  BY <1>2, <1>4, <1>5 DEF AttributionInv

\* Expiry alone, by a state of the lamp or by the worker.
LEMMA ExpireStep ==
    ASSUME AttributionInv, Attribution!Expire
    PROVE  AttributionInv'
<1> DEFINE left == Attribution!Remaining
<1>1. /\ left \in Seq(Chains)
      /\ \A i \in 1 .. Len(left) :
           /\ left[i].opened <= moment /\ left[i].act \in 1 .. Len(acts)
           /\ left[i].cause # None => left[i].cause = left[i].payload
           /\ left[i].client \in Automations => SentBy(acts, left[i])
      /\ Undisturbed =>
           /\ \A i, j \in 1 .. Len(left) : i < j => left[i].act < left[j].act
           /\ \A i \in 1 .. Len(left), k \in 1 .. Len(broker) : left[i].act < broker[k].act
           /\ \A i \in 1 .. Len(left) : left[i].payload = acts[left[i].act].payload
           /\ ~late => \A i \in 1 .. Len(left) :
                acts[left[i].act].heard # None => left[i].client # None
  BY ExpiryKeeps
<1>2. /\ chains' = left /\ Typed /\ Told /\ Paired
      /\ UNCHANGED <<moment, acts, broker, events, contexts, recent, entities, causes, late,
                     reconnects>>
  BY DEF Attribution!Expire, Attribution!remembered, AttributionInv
<1> HIDE DEF left
<1>3. Typed'
  BY <1>1, <1>2 DEF Typed
<1>4. Told' /\ Credit'
  BY <1>1, <1>2 DEF Told, Credit
<1>5. Paired'
  <2>1. SUFFICES ASSUME Undisturbed' PROVE (CommandsInOrder /\ EventsInOrder /\ HeardAreNamed)'
    BY DEF Paired
  <2>2. Undisturbed /\ CommandsInOrder /\ EventsInOrder
    BY <1>2, <2>1 DEF Undisturbed, Attribution!OnlyPublishes, Paired
  <2>3. CommandsInOrder'
    BY <1>1, <1>2, <2>2 DEF CommandsInOrder
  <2>4. EventsInOrder' /\ HeardAreNamed'
    BY <1>1, <1>2, <2>2 DEF EventsInOrder, HeardAreNamed
  <2>5. QED
    BY <2>3, <2>4
<1>6. QED
  BY <1>3, <1>4, <1>5 DEF AttributionInv

\* An automation acts: its command and its events are the last on their ways.
LEMMA ActStep ==
    ASSUME AttributionInv, NEW who \in Automations, NEW what \in Attribution!Kinds,
           NEW topic \in {"set", "ext"}, NEW payload \in Payloads,
           Attribution!Act(who, what, topic, payload)
    PROVE  AttributionInv'
<1> DEFINE n == Len(acts) + 1
           new == [by |-> who, kind |-> what, topic |-> topic, payload |-> payload, heard |-> None]
           run == [what |-> "run", act |-> n]
           act == [what |-> "act", act |-> n]
           sending == [topic |-> topic, act |-> n]
<1>1. /\ acts' = Append(acts, new) /\ broker' = Append(broker, sending)
      /\ events' = events \o <<run, act>>
      /\ UNCHANGED <<moment, contexts, recent, entities, causes, chains, late, reconnects>>
  BY DEF Attribution!Act, Attribution!remembered
<1>2. Typed /\ Told /\ Credit /\ Paired
  BY DEF AttributionInv
<1>3. /\ new \in Acts /\ run \in Events /\ act \in Events /\ sending \in Messages
      /\ n \in Nat /\ n = Len(acts) + 1 /\ Len(acts) \in Nat
  BY <1>2, Entries DEF Acts, Events, Messages
<1>4. /\ new.heard = None /\ new.kind = what /\ new.topic = topic /\ new.payload = payload
      /\ run.act = n /\ act.act = n /\ act.what = "act" /\ sending.act = n
      /\ sending.topic = topic
  OBVIOUS
<1> HIDE DEF n, new, run, act, sending
<1>5. /\ acts' \in Seq(Acts) /\ Len(acts') = n /\ acts'[n] = new
      /\ \A j \in 1 .. Len(acts) : acts'[j] = acts[j]
  BY <1>1, <1>2, <1>3, AppendProperties DEF Typed
<1>6. /\ broker' \in Seq(Messages) /\ Len(broker') = Len(broker) + 1 /\ Len(broker) \in Nat
      /\ broker'[Len(broker) + 1] = sending
      /\ \A i \in 1 .. Len(broker) : broker'[i] = broker[i]
  BY <1>1, <1>2, <1>3, AppendProperties, Entries DEF Typed
<1>7. /\ events' \in Seq(Events) /\ Len(events') = Len(events) + 2 /\ Len(events) \in Nat
      /\ events'[Len(events) + 1] = run /\ events'[Len(events) + 2] = act
      /\ \A i \in 1 .. Len(events) : events'[i] = events[i]
  <2>1. /\ events \in Seq(Events) /\ Len(events) \in Nat
        /\ <<run, act>> \in Seq(Events) /\ Len(<<run, act>>) = 2
        /\ <<run, act>>[1] = run /\ <<run, act>>[2] = act
    BY <1>2, <1>3, Entries DEF Typed
  <2> DEFINE two == <<run, act>>
  <2> HIDE DEF two
  <2>2. /\ two \in Seq(Events) /\ Len(two) = 2 /\ two[1] = run /\ two[2] = act
        /\ events' = events \o two
    BY <1>1, <2>1 DEF two
  <2>3. /\ events \o two \in Seq(Events) /\ Len(events \o two) = Len(events) + Len(two)
        /\ \A i \in 1 .. Len(events) + Len(two) :
             (events \o two)[i] = IF i <= Len(events) THEN events[i] ELSE two[i - Len(events)]
    BY <2>1, <2>2, ConcatProperties
  <2>4. /\ Len(events) + 1 - Len(events) = 1 /\ Len(events) + 2 - Len(events) = 2
        /\ Len(events) + 1 \in 1 .. Len(events) + Len(two)
        /\ Len(events) + 2 \in 1 .. Len(events) + Len(two)
        /\ ~(Len(events) + 1 <= Len(events)) /\ ~(Len(events) + 2 <= Len(events))
    BY <2>1, <2>2
  <2>5. QED
    BY <2>1, <2>2, <2>3, <2>4
<1>8. Grown(acts')
  BY <1>3, <1>5 DEF Grown
<1>9. Typed'
  <2>5. /\ \A i \in 1 .. Len(broker) : broker[i].act \in 1 .. n
        /\ \A i \in 1 .. Len(events) : events[i].act \in 1 .. n
        /\ n \in 1 .. n /\ Len(acts') = n
    <3>1. /\ \A i \in 1 .. Len(broker) : broker[i].act \in 1 .. Len(acts)
          /\ \A i \in 1 .. Len(events) : events[i].act \in 1 .. Len(acts)
      BY <1>2 DEF Typed
    <3>2. QED
      BY <1>3, <1>5, <3>1
  <2>1. \A i \in 1 .. Len(broker') : broker'[i].act \in 1 .. Len(acts')
    <3>1. \A i \in 1 .. Len(broker') : i \in 1 .. Len(broker) \/ i = Len(broker) + 1
      BY <1>6
    <3>2. QED
      BY <1>4, <1>6, <2>5, <3>1
  <2>2. \A i \in 1 .. Len(events') : events'[i].act \in 1 .. Len(acts')
    <3>1. \A i \in 1 .. Len(events') :
            i \in 1 .. Len(events) \/ i = Len(events) + 1 \/ i = Len(events) + 2
      BY <1>7
    <3>2. QED
      BY <1>4, <1>7, <2>5, <3>1
  <2>3. \A i \in 1 .. Len(chains) : chains[i].act \in 1 .. Len(acts')
    BY <1>2, <1>3, <1>5 DEF Typed
  <2>4. QED
    BY <1>1, <1>2, <1>5, <1>6, <1>7, <2>1, <2>2, <2>3 DEF Typed
<1>10. Told' /\ Credit'
  BY <1>1, <1>2, <1>5, <1>8, StillTold DEF Told, Credit
<1>11. Paired'
  <2>1. SUFFICES ASSUME Undisturbed' PROVE (CommandsInOrder /\ EventsInOrder /\ HeardAreNamed)'
    BY DEF Paired
  <2>2. /\ Undisturbed /\ topic = "set"
    <3>1. /\ \A j \in 1 .. Len(acts') : acts'[j].kind = "publish" /\ acts'[j].topic = "set"
          /\ reconnects = 0
      BY <1>1, <2>1 DEF Undisturbed, Attribution!OnlyPublishes
    <3>2. n \in 1 .. Len(acts') /\ \A j \in 1 .. Len(acts) : j \in 1 .. Len(acts')
      BY <1>3, <1>5
    <3>3. QED
      BY <1>4, <1>5, <3>1, <3>2 DEF Undisturbed, Attribution!OnlyPublishes
  <2>3. CommandsInOrder /\ EventsInOrder /\ HeardAreNamed
    BY <1>2, <2>2 DEF Paired
  <2>4. /\ \A i \in 1 .. Len(broker) : broker[i].act \in Nat /\ broker[i].act < n
        /\ \A i \in 1 .. Len(chains) : chains[i].act \in 1 .. Len(acts) /\ chains[i].act < n
        /\ \A i \in 1 .. Len(events) : events[i].act \in Nat /\ events[i].act <= n
    BY <1>2, <1>3 DEF Typed
  <2>5. CommandsInOrder'
    <3>1. \A i \in 1 .. Len(broker') : i \in 1 .. Len(broker) \/ i = Len(broker) + 1
      BY <1>6
    <3>2. \A i \in 1 .. Len(broker') : broker'[i].topic = "set"
      BY <1>4, <1>6, <2>2, <2>3, <3>1 DEF CommandsInOrder
    <3>3. \A i, j \in 1 .. Len(broker') : i < j => broker'[i].act < broker'[j].act
      <4>1. \A i, j \in 1 .. Len(broker') :
              i < j => i \in 1 .. Len(broker) /\ (j \in 1 .. Len(broker) \/ j = Len(broker) + 1)
        BY <1>6
      <4>2. QED
        BY <1>4, <1>6, <2>3, <2>4, <4>1 DEF CommandsInOrder
    <3>4. \A i \in 1 .. Len(chains), k \in 1 .. Len(broker') : chains[i].act < broker'[k].act
      BY <1>4, <1>6, <2>3, <2>4, <3>1 DEF CommandsInOrder
    <3>5. \A i \in 1 .. Len(chains) : chains[i].payload = acts'[chains[i].act].payload
      BY <1>5, <2>3, <2>4 DEF CommandsInOrder
    <3>6. QED
      BY <1>1, <2>3, <3>2, <3>3, <3>4, <3>5 DEF CommandsInOrder
  <2>6. \A i, j \in 1 .. Len(events') : i < j => events'[i].act <= events'[j].act
    <3>1. \A i, j \in 1 .. Len(events') : i < j =>
            \/ i \in 1 .. Len(events) /\ j \in 1 .. Len(events)
            \/ i \in 1 .. Len(events) /\ (j = Len(events) + 1 \/ j = Len(events) + 2)
            \/ i = Len(events) + 1 /\ j = Len(events) + 2
      BY <1>7
    <3>2. \A i, j \in 1 .. Len(events) : i < j => events[i].act <= events[j].act
      BY <2>3 DEF EventsInOrder
    <3>3. n <= n
      BY <1>3
    <3>4. QED
      BY <1>4, <1>7, <2>4, <3>1, <3>2, <3>3
  <2>7. ASSUME NEW k \in 1 .. Len(acts'), acts'[k].heard = None
        PROVE  \E i \in 1 .. Len(events') : events'[i].what = "act" /\ events'[i].act = k
    <3>1. CASE k = n
      <4>1. Len(events) + 2 \in 1 .. Len(events')
        BY <1>7
      <4>2. QED
        BY <1>4, <1>7, <3>1, <4>1
    <3>2. CASE k \in 1 .. Len(acts)
      <4>1. PICK i \in 1 .. Len(events) : events[i].what = "act" /\ events[i].act = k
        BY <1>5, <2>3, <2>7, <3>2 DEF EventsInOrder
      <4>2. i \in 1 .. Len(events') /\ events'[i] = events[i]
        BY <1>7
      <4>3. QED
        BY <4>1, <4>2
    <3>3. QED
      BY <1>3, <1>5, <3>1, <3>2
  <2>8. ASSUME NEW k \in 1 .. Len(acts'), acts'[k].heard # None
        PROVE  /\ acts'[k].heard <= moment
               /\ \E i \in 1 .. Len(recent) :
                    /\ recent[i].at = acts'[k].heard /\ recent[i].topic = "set"
                    /\ recent[i].payload = acts'[k].payload
    <3>1. k \in 1 .. Len(acts) /\ acts'[k] = acts[k]
      BY <1>3, <1>4, <1>5, <2>8
    <3>2. QED
      BY <2>3, <2>8, <3>1 DEF EventsInOrder
  <2>9. EventsInOrder'
    <3>1. recent' = recent /\ moment' = moment
      BY <1>1
    <3>2. \A k \in 1 .. Len(acts') : acts'[k].heard # None =>
            /\ acts'[k].heard <= moment'
            /\ \E i \in 1 .. Len(recent') :
                 /\ recent'[i].at = acts'[k].heard /\ recent'[i].topic = "set"
                 /\ recent'[i].payload = acts'[k].payload
      BY <2>8, <3>1
    <3>3. QED
      BY <2>6, <2>7, <3>2, Zenon DEF EventsInOrder
  <2>10. HeardAreNamed'
    BY <1>1, <1>5, <2>3, <2>4 DEF HeardAreNamed
  <2>11. QED
    BY <2>5, <2>9, <2>10
<1>12. QED
  BY <1>9, <1>10, <1>11 DEF AttributionInv

\* What comes first off a queue, and what stays on it.
LEMMA FirstOff ==
    ASSUME NEW S, NEW s \in Seq(S), s # << >>
    PROVE  /\ Len(s) \in Nat \ {0} /\ Head(s) = s[1] /\ s[1] \in S
           /\ Tail(s) \in Seq(S) /\ Len(Tail(s)) = Len(s) - 1
           /\ \A i \in 1 .. Len(Tail(s)) : i + 1 \in 1 .. Len(s) /\ Tail(s)[i] = s[i + 1]
<1>1. Len(s) \in Nat \ {0} /\ Head(s) = s[1]
  BY EmptySeq, LenProperties
<1>2. /\ Head(s) \in S /\ Tail(s) \in Seq(S) /\ Len(Tail(s)) = Len(s) - 1
      /\ \A i \in 1 .. Len(Tail(s)) : Tail(s)[i] = s[i + 1]
  BY HeadTailProperties
<1>3. QED
  BY <1>1, <1>2

\* A command opens the newest chain, behind those that are not over.
LEMMA OpenedFacts ==
    ASSUME Typed, NEW payload \in Payloads, NEW client \in Clients,
           NEW cause \in Payloads \cup {None}, NEW act \in Nat
    PROVE  LET left == Attribution!Remaining
               after == Attribution!Opened(payload, client, cause, act)
           IN /\ after \in Seq(Chains) /\ Len(after) = Len(left) + 1 /\ Len(left) \in Nat
              /\ after[Len(left) + 1] = [opened |-> moment, payload |-> payload, client |-> client,
                                         cause |-> cause, act |-> act]
              /\ \A i \in 1 .. Len(left) : after[i] = left[i]
<1> DEFINE left == Attribution!Remaining
           new == [opened |-> moment, payload |-> payload, client |-> client,
                   cause |-> cause, act |-> act]
<1>1. left \in Seq(Chains)
  BY RemainingFacts
<1>2. new \in Chains
  BY DEF Chains, Typed
<1>3. Attribution!Opened(payload, client, cause, act) = Append(left, new)
  BY DEF Attribution!Opened
<1> HIDE DEF left, new
<1>4. Len(left) \in Nat
  BY <1>1, LenProperties
<1>5. /\ Append(left, new) \in Seq(Chains) /\ Len(Append(left, new)) = Len(left) + 1
      /\ Append(left, new)[Len(left) + 1] = new
      /\ \A i \in 1 .. Len(left) : Append(left, new)[i] = left[i]
  BY <1>1, <1>2, AppendProperties
<1>6. QED
  BY <1>3, <1>4, <1>5 DEF left, new

\* Who may be named as the sender of these bytes: one who published them, or
\* called the lamp's entity for them.
Earned(payload, client, cause) ==
    /\ cause # None => cause = payload
    /\ client \in Automations =>
         \E j \in 1 .. Len(acts) :
            /\ acts[j].by = client
            /\ \/ /\ acts[j].kind = "publish" /\ acts[j].payload = payload
                  /\ acts[j].topic = "ext" => cause # None
               \/ acts[j].kind = "call" /\ acts[j].payload = payload
               \/ acts[j].kind = "call toggle"

\* Whoever a command is credited to when its chain opens, the types stay right
\* and so does the credit.
LEMMA OpeningKeeps ==
    ASSUME AttributionInv, NEW payload \in Payloads, NEW client \in Clients,
           NEW cause \in Payloads \cup {None}, NEW act \in 1 .. Len(acts),
           Earned(payload, client, cause)
    PROVE  LET after == Attribution!Opened(payload, client, cause, act)
           IN /\ after \in Seq(Chains)
              /\ \A i \in 1 .. Len(after) :
                   /\ after[i].opened <= moment /\ after[i].act \in 1 .. Len(acts)
                   /\ after[i].cause # None => after[i].cause = after[i].payload
                   /\ after[i].client \in Automations => SentBy(acts, after[i])
<1> DEFINE left == Attribution!Remaining
           after == Attribution!Opened(payload, client, cause, act)
           new == [opened |-> moment, payload |-> payload, client |-> client,
                   cause |-> cause, act |-> act]
<1>1. Typed /\ moment \in Nat /\ Len(acts) \in Nat /\ act \in Nat
  <2>1. Typed
    BY DEF AttributionInv
  <2>2. moment \in Nat
    BY <2>1 DEF Typed
  <2>3. QED
    BY <2>1, <2>2, Entries
<1>2. /\ after \in Seq(Chains) /\ Len(after) = Len(left) + 1 /\ Len(left) \in Nat
      /\ after[Len(left) + 1] = new
      /\ \A i \in 1 .. Len(left) : after[i] = left[i]
  BY <1>1, OpenedFacts
<1>3. \A i \in 1 .. Len(left) :
         /\ left[i].opened <= moment /\ left[i].act \in 1 .. Len(acts)
         /\ left[i].cause # None => left[i].cause = left[i].payload
         /\ left[i].client \in Automations => SentBy(acts, left[i])
  BY ExpiryKeeps
<1>4. /\ new.opened <= moment /\ new.act \in 1 .. Len(acts)
      /\ new.cause # None => new.cause = new.payload
  <2>1. cause # None => cause = payload
    BY DEF Earned
  <2>2. QED
    BY <1>1, <2>1
<1>5. new.client \in Automations => SentBy(acts, new)
  BY DEF Earned, SentBy, Attribution!Sent
<1> HIDE DEF left, after, new
<1>6. \A i \in 1 .. Len(after) : i \in 1 .. Len(left) \/ i = Len(left) + 1
  BY <1>2
<1>7. \A i \in 1 .. Len(after) :
         /\ after[i].opened <= moment /\ after[i].act \in 1 .. Len(acts)
         /\ after[i].cause # None => after[i].cause = after[i].payload
         /\ after[i].client \in Automations => SentBy(acts, after[i])
  BY <1>2, <1>3, <1>4, <1>5, <1>6
<1>8. QED
  BY <1>2, <1>7 DEF after

\* The command to the lamp is seen: name_for, or else entity_name_for, names its
\* chain, and name_for does so if its event came first and not too long ago.
LEMMA SetSeenStep ==
    ASSUME AttributionInv, Attribution!WireMessage, Attribution!SetSeen(Head(broker))
    PROVE  AttributionInv'
<1> DEFINE m == Head(broker)
           payload == acts[m.act].payload
           name == Attribution!NameFor("set", payload, moment)
           other == Attribution!EntityNameFor(payload)
           client == Attribution!Named(name, other)
           left == Attribution!Remaining
           after == Attribution!Opened(payload, client, None, m.act)
           new == [opened |-> moment, payload |-> payload, client |-> client,
                   cause |-> None, act |-> m.act]
<1>1. /\ broker # << >> /\ broker' = Tail(broker) /\ chains' = after /\ m.topic = "set"
      /\ late' = (late \/ (acts[m.act].heard # None
                           /\ moment - acts[m.act].heard > CORRELATION_TOLERANCE_SECONDS))
      /\ UNCHANGED <<moment, acts, events, contexts, recent, entities, causes, reconnects>>
  BY DEF Attribution!WireMessage, Attribution!SetSeen, Attribution!remembered
<1>2. /\ Typed /\ Told /\ Credit /\ Paired /\ moment \in Nat /\ late \in BOOLEAN
      /\ broker \in Seq(Messages)
  BY DEF AttributionInv, Typed
<1>3. /\ Len(broker) \in Nat \ {0} /\ m = broker[1]
      /\ Tail(broker) \in Seq(Messages) /\ Len(Tail(broker)) = Len(broker) - 1
      /\ \A i \in 1 .. Len(Tail(broker)) : i + 1 \in 1 .. Len(broker) /\ Tail(broker)[i] = broker[i + 1]
  BY <1>1, <1>2, FirstOff
<1>4. m.act \in 1 .. Len(acts) /\ acts[m.act] \in Acts /\ payload \in Payloads
  <2>1. 1 \in 1 .. Len(broker)
    BY <1>3
  <2>2. m.act \in 1 .. Len(acts)
    BY <1>2, <1>3, <2>1 DEF Typed
  <2>3. acts[m.act] \in Acts
    BY <1>2, <2>2, Entries
  <2>4. QED
    BY <2>2, <2>3 DEF Acts
<1>5. name \in Clients /\ other \in Clients /\ client \in Clients
  BY <1>2, <1>4, NameForFacts, EntityFacts DEF Attribution!Named
<1>6. Earned(payload, client, None)
  <2>1. CASE name # None
    <3>1. client = name
      BY <2>1 DEF Attribution!Named
    <3>2. name \in Automations =>
            \E j \in 1 .. Len(acts) : /\ acts[j].by = name /\ acts[j].topic = "set"
                                      /\ acts[j].kind = "publish" /\ acts[j].payload = payload
      BY <1>2, <1>4, NameForFacts
    <3> HIDE DEF name, client, payload
    <3>3. QED
      BY <3>1, <3>2, <1>4 DEF Earned
  <2>2. CASE name = None
    <3>1. client = other
      BY <2>2 DEF Attribution!Named
    <3>2. other \in Automations =>
            \E j \in 1 .. Len(acts) :
               /\ acts[j].by = other
               /\ \/ acts[j].kind = "call" /\ acts[j].payload = payload
                  \/ acts[j].kind = "call toggle"
      BY <1>2, <1>4, EntityFacts
    <3> HIDE DEF other, client, payload
    <3>3. QED
      BY <3>1, <3>2, <1>4 DEF Earned
  <2>3. QED
    BY <2>1, <2>2
<1>7. /\ after \in Seq(Chains) /\ Len(after) = Len(left) + 1 /\ Len(left) \in Nat
      /\ after[Len(left) + 1] = new
      /\ \A i \in 1 .. Len(left) : after[i] = left[i]
  <2>1. m.act \in Nat
    BY <1>4
  <2> HIDE DEF m, payload, client
  <2>2. QED
    BY <1>2, <1>4, <1>5, <2>1, OpenedFacts
<1>8. /\ after \in Seq(Chains)
      /\ \A i \in 1 .. Len(after) :
           /\ after[i].opened <= moment /\ after[i].act \in 1 .. Len(acts)
           /\ after[i].cause # None => after[i].cause = after[i].payload
           /\ after[i].client \in Automations => SentBy(acts, after[i])
  <2> HIDE DEF payload, client
  <2>1. QED
    BY <1>4, <1>5, <1>6, OpeningKeeps
<1>9. /\ new.act = m.act /\ new.payload = acts[m.act].payload /\ new.client = client
  OBVIOUS
<1>10. name # None => client # None
  BY DEF Attribution!Named
<1> HIDE DEF m, name, other, client, left, after, new
<1>11. Typed'
  <2>1. \A i \in 1 .. Len(broker') : broker'[i].act \in 1 .. Len(acts)
    BY <1>1, <1>2, <1>3 DEF Typed
  <2>2. late' \in BOOLEAN
    BY <1>1, <1>2
  <2>3. QED
    BY <1>1, <1>2, <1>3, <1>8, <2>1, <2>2 DEF Typed
<1>12. Told' /\ Credit'
  BY <1>1, <1>2, <1>8 DEF Told, Credit
<1>13. Paired'
  <2>1. SUFFICES ASSUME Undisturbed' PROVE (CommandsInOrder /\ EventsInOrder /\ HeardAreNamed)'
    BY DEF Paired
  <2>2. Undisturbed /\ CommandsInOrder /\ EventsInOrder
    BY <1>1, <1>2, <2>1 DEF Undisturbed, Attribution!OnlyPublishes, Paired
  <2>3. /\ \A i, j \in 1 .. Len(left) : i < j => left[i].act < left[j].act
        /\ \A i \in 1 .. Len(left), k \in 1 .. Len(broker) : left[i].act < broker[k].act
        /\ \A i \in 1 .. Len(left) : left[i].payload = acts[left[i].act].payload
        /\ ~late => \A i \in 1 .. Len(left) :
             acts[left[i].act].heard # None => left[i].client # None
    BY <2>2, ExpiryKeeps DEF left
  <2>4. /\ \A i \in 1 .. Len(chains') : i \in 1 .. Len(left) \/ i = Len(left) + 1
        /\ \A i, j \in 1 .. Len(chains') : i < j => i \in 1 .. Len(left)
    BY <1>1, <1>7
  <2>5. CommandsInOrder'
    <3>1. 1 \in 1 .. Len(broker) /\ \A i \in 1 .. Len(left) : left[i].act < m.act
      BY <1>3, <2>3
    <3>2. \A i, j \in 1 .. Len(chains') : i < j => chains'[i].act < chains'[j].act
      BY <1>1, <1>7, <1>9, <2>3, <2>4, <3>1
    <3>3. \A i \in 1 .. Len(chains'), k \in 1 .. Len(broker') : chains'[i].act < broker'[k].act
      <4>1. \A k \in 1 .. Len(broker') :
              /\ broker'[k] = broker[k + 1] /\ k + 1 \in 1 .. Len(broker) /\ 1 < k + 1
        BY <1>1, <1>3
      <4>2. \A k \in 1 .. Len(broker') : m.act < broker'[k].act
        BY <1>3, <2>2, <3>1, <4>1 DEF CommandsInOrder
      <4>3. QED
        BY <1>1, <1>7, <1>9, <2>3, <2>4, <4>1, <4>2
    <3>4. \A i \in 1 .. Len(chains') : chains'[i].payload = acts[chains'[i].act].payload
      BY <1>1, <1>7, <1>9, <2>3, <2>4
    <3>5. /\ \A i \in 1 .. Len(broker') : broker'[i].topic = "set"
          /\ \A i, j \in 1 .. Len(broker') : i < j => broker'[i].act < broker'[j].act
      <4>1. \A i \in 1 .. Len(broker') : broker'[i] = broker[i + 1] /\ i + 1 \in 1 .. Len(broker)
        BY <1>1, <1>3
      <4>2. \A i, j \in 1 .. Len(broker') : i < j => i + 1 < j + 1
        BY <1>1, <1>3
      <4>3. QED
        BY <2>2, <4>1, <4>2 DEF CommandsInOrder
    <3>6. QED
      BY <1>1, <3>2, <3>3, <3>4, <3>5 DEF CommandsInOrder
  <2>6. EventsInOrder'
    BY <1>1, <2>2 DEF EventsInOrder
  <2>7. ASSUME ~late', acts[m.act].heard # None PROVE client # None
    <3>1. /\ acts[m.act].heard \in Nat /\ acts[m.act].heard <= moment
          /\ moment - acts[m.act].heard <= CORRELATION_TOLERANCE_SECONDS
          /\ CORRELATION_TOLERANCE_SECONDS \in Nat
      <4>1. acts[m.act].heard \in Nat /\ CORRELATION_TOLERANCE_SECONDS \in Nat
        BY <1>4, <2>7, AttributionAssumption DEF Acts, Attribution!AttributionAssumption
      <4>2. acts[m.act].heard <= moment
        BY <1>4, <2>2, <2>7 DEF EventsInOrder
      <4>3. QED
        <5>1. ~(moment - acts[m.act].heard > CORRELATION_TOLERANCE_SECONDS)
          BY <1>1, <2>7
        <5>2. QED
          BY <1>2, <4>1, <4>2, <5>1
    <3>2. PICK i \in 1 .. Len(recent) :
             /\ recent[i].at = acts[m.act].heard /\ recent[i].topic = "set"
             /\ recent[i].payload = acts[m.act].payload
      BY <1>4, <2>2, <2>7 DEF EventsInOrder
    <3>3. /\ Attribution!Within(recent[i], moment)
          /\ recent[i].at - moment <= CORRELATION_TOLERANCE_SECONDS
      BY <1>2, <3>1, <3>2 DEF Attribution!Within
    <3>4. name # None
      BY <1>2, <1>4, <3>2, <3>3, NameForFacts DEF name
    <3>5. QED
      BY <1>10, <3>4
  <2>8. HeardAreNamed'
    <3>1. ~late' => ~late
      BY <1>1
    <3>2. QED
      BY <1>1, <1>7, <1>9, <2>3, <2>4, <2>7, <3>1 DEF HeardAreNamed
  <2>9. QED
    BY <2>5, <2>6, <2>8
<1>14. QED
  BY <1>11, <1>12, <1>13 DEF AttributionInv

\* The causes that are not over, and one more.
LEMMA CauseFacts ==
    ASSUME Typed, NEW payload \in Payloads
    PROVE  /\ Attribution!Fresh \in Seq(Causes)
           /\ \A c \in Attribution!ToSet(Attribution!Fresh) : c \in Causes
           /\ Attribution!Noted(payload) \in Seq(Causes)
<1> DEFINE fresh == Attribution!Fresh
           kept == {i \in 1 .. Len(causes) : causes[i].at >= moment - CAUSE_TTL_SECONDS}
           places == {i \in 1 .. Len(fresh) : fresh[i].payload = payload}
           new == [at |-> moment, payload |-> payload]
<1>1. fresh \in Seq(Causes)
  <2>1. fresh = Attribution!PoppedUntil(causes, kept)
    BY DEF Attribution!Fresh
  <2>2. kept \subseteq 1 .. Len(causes) /\ causes \in Seq(Causes)
    BY DEF Typed
  <2> HIDE DEF kept, fresh
  <2>3. QED
    BY <2>1, <2>2, Popping
<1>2. \A c \in Attribution!ToSet(fresh) : c \in Causes
  <2> HIDE DEF fresh
  <2>1. DOMAIN fresh = 1 .. Len(fresh) /\ \A i \in 1 .. Len(fresh) : fresh[i] \in Causes
    BY <1>1, LenProperties, ElementOfSeq
  <2>2. QED
    BY <2>1, Copies
<1>3. Attribution!PoppedAt(fresh, places) \in Seq(Causes)
  <2>1. places \subseteq 1 .. Len(fresh)
    OBVIOUS
  <2> HIDE DEF fresh, places
  <2>2. QED
    BY <1>1, <2>1, PoppedKey
<1>4. new \in Causes
  BY DEF Causes, Typed
<1>5. Attribution!Noted(payload) = Append(Attribution!PoppedAt(fresh, places), new)
  BY DEF Attribution!Noted
<1> HIDE DEF places, new
<1>6. Attribution!Noted(payload) \in Seq(Causes)
  BY <1>3, <1>4, <1>5, AppendProperties
<1>7. QED
  BY <1>1, <1>2, <1>6

\* A message to the extension, or its report, is seen: neither is there when
\* nothing disturbs, and the report names its chain by its cause.
LEMMA ExtensionStep ==
    ASSUME AttributionInv, Attribution!WireMessage,
           Attribution!CauseSeen(Head(broker)) \/ Attribution!ReportSeen(Head(broker))
    PROVE  AttributionInv'
<1> DEFINE m == Head(broker)
           payload == acts[m.act].payload
           report == [topic |-> "report", act |-> m.act]
<1>1. /\ broker # << >> /\ m.topic \in {"ext", "report"}
      /\ broker' = Tail(broker) \/ broker' = Append(Tail(broker), report)
      /\ late' = (late \/ (acts[m.act].heard # None
                           /\ moment - acts[m.act].heard > CORRELATION_TOLERANCE_SECONDS))
      /\ UNCHANGED <<moment, acts, events, contexts, recent, entities, reconnects>>
  BY DEF Attribution!WireMessage, Attribution!CauseSeen, Attribution!ReportSeen,
         Attribution!remembered
<1>2. /\ Typed /\ Told /\ Credit /\ Paired /\ moment \in Nat /\ late \in BOOLEAN
      /\ broker \in Seq(Messages)
  BY DEF AttributionInv, Typed
<1>3. /\ Len(broker) \in Nat \ {0} /\ m = broker[1]
      /\ Tail(broker) \in Seq(Messages) /\ Len(Tail(broker)) = Len(broker) - 1
      /\ \A i \in 1 .. Len(Tail(broker)) : i + 1 \in 1 .. Len(broker) /\ Tail(broker)[i] = broker[i + 1]
  BY <1>1, <1>2, FirstOff
<1>4. m.act \in 1 .. Len(acts) /\ payload \in Payloads /\ payload # None
  <2>1. 1 \in 1 .. Len(broker)
    BY <1>3
  <2>2. m.act \in 1 .. Len(acts)
    BY <1>2, <1>3, <2>1 DEF Typed
  <2>3. acts[m.act] \in Acts
    BY <1>2, <2>2, Entries
  <2>4. payload \in Payloads
    BY <2>3 DEF Acts
  <2>5. QED
    BY <1>2, <2>2, <2>4, Entries
<1>5. ~Undisturbed
  <2>1. SUFFICES ASSUME Undisturbed PROVE FALSE
    OBVIOUS
  <2>2. CommandsInOrder
    BY <1>2, <2>1 DEF Paired
  <2>3. broker[1].topic = "set"
    BY <1>3, <2>2 DEF CommandsInOrder
  <2>4. QED
    BY <1>1, <1>3, <2>3
<1>6. Paired'
  BY <1>1, <1>5 DEF Paired, Undisturbed, Attribution!OnlyPublishes
<1>7. broker' \in Seq(Messages) /\ \A i \in 1 .. Len(broker') : broker'[i].act \in 1 .. Len(acts)
  <2>1. CASE broker' = Tail(broker)
    BY <1>2, <1>3, <2>1 DEF Typed
  <2>2. CASE broker' = Append(Tail(broker), report)
    <3> DEFINE rest == Tail(broker)
    <3>1. rest \in Seq(Messages) /\ Len(rest) \in Nat
      BY <1>3
    <3>2. report \in Messages /\ report.act = m.act
      BY <1>4 DEF Messages
    <3>3. \A i \in 1 .. Len(rest) : rest[i].act \in 1 .. Len(acts)
      BY <1>2, <1>3 DEF Typed
    <3> HIDE DEF rest, report
    <3>4. /\ Append(rest, report) \in Seq(Messages)
          /\ Len(Append(rest, report)) = Len(rest) + 1
          /\ Append(rest, report)[Len(rest) + 1] = report
          /\ \A i \in 1 .. Len(rest) : Append(rest, report)[i] = rest[i]
      BY <3>1, <3>2, AppendProperties
    <3>5. broker' = Append(rest, report)
      BY <2>2 DEF rest
    <3>6. \A i \in 1 .. Len(broker') : i \in 1 .. Len(rest) \/ i = Len(rest) + 1
      BY <3>1, <3>4, <3>5
    <3>7. QED
      BY <1>4, <3>2, <3>3, <3>4, <3>5, <3>6
  <2>3. QED
    BY <1>1, <2>1, <2>2
<1>8. /\ chains' \in Seq(Chains) /\ causes' \in Seq(Causes)
      /\ \A i \in 1 .. Len(chains') :
           /\ chains'[i].opened <= moment /\ chains'[i].act \in 1 .. Len(acts)
           /\ chains'[i].cause # None => chains'[i].cause = chains'[i].payload
           /\ chains'[i].client \in Automations => SentBy(acts, chains'[i])
  <2>1. CASE Attribution!CauseSeen(m)
    <3>1. chains' = chains /\ causes' = Attribution!Noted(payload)
      BY <2>1 DEF Attribution!CauseSeen
    <3>2. causes' \in Seq(Causes)
      BY <1>2, <1>4, <3>1, CauseFacts
    <3>3. QED
      BY <1>2, <3>1, <3>2 DEF Typed, Credit
  <2>2. CASE Attribution!ReportSeen(m)
    <3> DEFINE found == {c \in Attribution!ToSet(Attribution!Fresh) : c.payload = payload}
               picked == CHOOSE c \in found : TRUE
               name == Attribution!NameFor("ext", payload, picked.at)
    <3>1. /\ causes' = Attribution!Fresh
          /\ chains' = IF found = {} THEN Attribution!Opened(payload, None, None, m.act)
                       ELSE Attribution!Opened(payload, name, payload, m.act)
      BY <2>2 DEF Attribution!ReportSeen
    <3>2. causes' \in Seq(Causes) /\ found \subseteq Causes
      BY <1>2, <1>4, <3>1, CauseFacts
    <3>3. CASE found = {}
      <4>1. Earned(payload, None, None) /\ None \in Clients /\ None \in Payloads \cup {None}
        BY <1>2, Entries DEF Earned, Clients
      <4>2. chains' = Attribution!Opened(payload, None, None, m.act)
        BY <3>1, <3>3
      <4> HIDE DEF m, payload
      <4>3. QED
        BY <1>4, <3>2, <4>1, <4>2, OpeningKeeps
    <3>4. CASE found # {}
      <4>1. picked \in Causes
        BY <3>2, <3>4
      <4> HIDE DEF picked
      <4>2. picked.at \in Nat
        BY <4>1 DEF Causes
      <4>3. /\ name \in Clients
            /\ name \in Automations =>
                 \E j \in 1 .. Len(acts) : /\ acts[j].by = name /\ acts[j].topic = "ext"
                                           /\ acts[j].kind = "publish" /\ acts[j].payload = payload
        BY <1>2, <1>4, <4>2, NameForFacts
      <4>4. chains' = Attribution!Opened(payload, name, payload, m.act)
        BY <3>1, <3>4
      <4> HIDE DEF m, payload, name
      <4>5. Earned(payload, name, payload)
        BY <1>4, <4>3 DEF Earned
      <4>6. QED
        BY <1>4, <3>2, <4>3, <4>4, <4>5, OpeningKeeps
    <3>5. QED
      BY <3>3, <3>4
  <2>3. QED
    BY <2>1, <2>2
<1> HIDE DEF m, payload, report
<1>9. Typed'
  <2>1. late' \in BOOLEAN
    BY <1>1, <1>2
  <2>2. QED
    BY <1>1, <1>2, <1>7, <1>8, <2>1 DEF Typed
<1>10. Told' /\ Credit'
  BY <1>1, <1>2, <1>8 DEF Told, Credit
<1>11. QED
  BY <1>6, <1>9, <1>10 DEF AttributionInv

\* Contexts in the order of time, none of them later than now.
InTime(c) ==
    /\ c \in Seq(Contexts) /\ \A i \in 1 .. Len(c) : c[i].at <= moment
    /\ \A i, j \in 1 .. Len(c) : i < j => c[i].at <= c[j].at

\* _prune and _remember_context leave the contexts in the order of time.
LEMMA ContextFacts ==
    ASSUME Typed
    PROVE  /\ InTime(Attribution!Pruned)
           /\ \A who \in Automations :
                InTime(Append(Attribution!PoppedAt(Attribution!Pruned,
                                {i \in 1 .. Len(Attribution!Pruned) : Attribution!Pruned[i].who = who}),
                              [who |-> who, at |-> moment]))
<1> DEFINE kept == {i \in 1 .. Len(contexts) : contexts[i].at >= moment - CONTEXT_TTL_SECONDS}
           pruned == Attribution!Pruned
           d == Len(contexts) - Len(pruned)
<1>1. pruned = Attribution!PoppedUntil(contexts, kept)
  BY DEF Attribution!Pruned
<1>2. /\ kept \subseteq 1 .. Len(contexts) /\ contexts \in Seq(Contexts) /\ moment \in Nat
      /\ Len(contexts) \in Nat
      /\ \A i \in 1 .. Len(contexts) : contexts[i].at <= moment
      /\ \A i, j \in 1 .. Len(contexts) : i < j => contexts[i].at <= contexts[j].at
  BY Entries DEF Typed
<1> HIDE DEF kept, pruned
<1>3. /\ pruned \in Seq(Contexts) /\ Len(pruned) \in 0 .. Len(contexts)
      /\ \A i \in 1 .. Len(pruned) : pruned[i] = contexts[i + d]
  BY <1>1, <1>2, Popping
<1>4. /\ d \in Nat /\ Len(pruned) \in Nat
      /\ \A i \in 1 .. Len(pruned) : i + d \in 1 .. Len(contexts)
      /\ \A i, j \in 1 .. Len(pruned) : i < j => i + d < j + d
  BY <1>2, <1>3
<1> HIDE DEF d
<1>5. /\ \A i \in 1 .. Len(pruned) : pruned[i].at <= moment
      /\ \A i, j \in 1 .. Len(pruned) : i < j => pruned[i].at <= pruned[j].at
  BY <1>2, <1>3, <1>4
<1>6. ASSUME NEW who \in Automations
      PROVE  InTime(Append(Attribution!PoppedAt(pruned,
                             {i \in 1 .. Len(pruned) : pruned[i].who = who}),
                           [who |-> who, at |-> moment]))
  <2> DEFINE places == {i \in 1 .. Len(pruned) : pruned[i].who = who}
             rest == Attribution!PoppedAt(pruned, places)
             new == [who |-> who, at |-> moment]
             after == Append(rest, new)
  <2>1. places \subseteq 1 .. Len(pruned)
    OBVIOUS
  <2>2. new \in Contexts /\ new.at = moment
    BY <1>2 DEF Contexts
  <2> HIDE DEF places, new
  <2>3. rest \in Seq(Contexts) /\ Drawn(rest, pruned)
    BY <1>3, <2>1, PoppedKey
  <2> HIDE DEF rest
  <2>4. /\ Len(rest) \in Nat /\ \A i \in 1 .. Len(rest) : rest[i].at <= moment
    BY <1>5, <2>3, LenProperties DEF Drawn
  <2>5. \A i, j \in 1 .. Len(rest) : i < j => rest[i].at <= rest[j].at
    BY <1>5, <2>3 DEF Drawn
  <2>6. /\ after \in Seq(Contexts) /\ Len(after) = Len(rest) + 1
        /\ after[Len(rest) + 1] = new
        /\ \A i \in 1 .. Len(rest) : after[i] = rest[i]
    BY <2>2, <2>3, AppendProperties
  <2> HIDE DEF after
  <2>7. /\ \A i \in 1 .. Len(after) : i \in 1 .. Len(rest) \/ i = Len(rest) + 1
        /\ \A i, j \in 1 .. Len(after) : i < j => i \in 1 .. Len(rest)
    BY <2>4, <2>6
  <2>8. moment <= moment
    BY <1>2
  <2>9. \A i \in 1 .. Len(after) : after[i].at <= moment
    BY <2>2, <2>4, <2>6, <2>7, <2>8
  <2>10. \A i, j \in 1 .. Len(after) : i < j => after[i].at <= after[j].at
    BY <2>2, <2>4, <2>5, <2>6, <2>7
  <2>11. InTime(after)
    BY <2>6, <2>9, <2>10 DEF InTime
  <2>12. QED
    BY <2>11 DEF after, rest, places, new
<1>7. QED
  BY <1>3, <1>5, <1>6 DEF InTime, pruned

\* Of the acts told, this one is heard of now, the others when they were.
HeardNow(told, act) ==
    \A k \in 1 .. Len(acts) : told[k].heard = IF k = act THEN moment ELSE acts[k].heard

\* An act is heard of: it is the same act, and its time is now.
LEMMA HeardFacts ==
    ASSUME Typed, NEW act \in 1 .. Len(acts), NEW told,
           told = [acts EXCEPT ![act].heard = moment]
    PROVE  /\ told \in Seq(Acts) /\ Len(told) = Len(acts) /\ Grown(told)
           /\ HeardNow(told, act)
<1> DEFINE new == [acts[act] EXCEPT !.heard = moment]
<1>1. acts \in Seq(Acts) /\ acts[act] \in Acts /\ moment \in Nat /\ Len(acts) \in Nat
  <2>1. acts \in Seq(Acts) /\ moment \in Nat
    BY DEF Typed
  <2>2. QED
    BY <2>1, Entries
<1>2. /\ new \in Acts /\ new.heard = moment /\ new.by = acts[act].by /\ new.kind = acts[act].kind
      /\ new.topic = acts[act].topic /\ new.payload = acts[act].payload
  BY <1>1 DEF Acts
<1>3. told = [acts EXCEPT ![act] = new]
  OBVIOUS
<1> HIDE DEF new
<1>4. /\ told \in Seq(Acts) /\ Len(told) = Len(acts)
      /\ \A k \in 1 .. Len(acts) : told[k] = IF k = act THEN new ELSE acts[k]
  BY <1>1, <1>2, <1>3, ExceptSeq
<1>5. \A k \in 1 .. Len(acts) : /\ told[k].by = acts[k].by /\ told[k].kind = acts[k].kind
                                /\ told[k].topic = acts[k].topic
                                /\ told[k].payload = acts[k].payload
                                /\ told[k].heard = IF k = act THEN moment ELSE acts[k].heard
  <2>1. ASSUME NEW k \in 1 .. Len(acts)
        PROVE  /\ told[k].by = acts[k].by /\ told[k].kind = acts[k].kind
               /\ told[k].topic = acts[k].topic /\ told[k].payload = acts[k].payload
               /\ told[k].heard = IF k = act THEN moment ELSE acts[k].heard
    <3>1. CASE k = act
      BY <1>2, <1>4, <3>1
    <3>2. CASE k # act
      BY <1>4, <3>2
    <3>3. QED
      BY <3>1, <3>2
  <2>2. QED
    BY <2>1
<1>6. Grown(told)
  BY <1>1, <1>4, <1>5 DEF Grown
<1>7. QED
  BY <1>4, <1>5, <1>6 DEF HeardNow

\* The chains at these places are given a name, nothing else of any chain changes.
Renamed(after, name, places) ==
    /\ after \in Seq(Chains) /\ Len(after) = Len(chains)
    /\ \A k \in 1 .. Len(chains) :
         /\ after[k].opened = chains[k].opened /\ after[k].payload = chains[k].payload
         /\ after[k].cause = chains[k].cause /\ after[k].act = chains[k].act
         /\ after[k].client = IF k \in places THEN name ELSE chains[k].client

\* attribute_client and attribute_entity_call name one chain, or none.
LEMMA CreditedFacts ==
    ASSUME Typed, NEW name \in Clients, NEW i, i = None \/ i \in 1 .. Len(chains)
    PROVE  Renamed(Attribution!Credited(i, name), name, {i} \cap (1 .. Len(chains)))
<1>1. /\ chains \in Seq(Chains) /\ Len(chains) \in Nat /\ None \notin Nat
      /\ \A k \in 1 .. Len(chains) : chains[k] \in Chains
  BY Entries DEF Typed
<1>2. CASE i \in 1 .. Len(chains)
  <2> DEFINE new == [chains[i] EXCEPT !.client = name]
             after == Attribution!Credited(i, name)
  <2>1. /\ new \in Chains /\ new.client = name /\ new.opened = chains[i].opened
        /\ new.payload = chains[i].payload /\ new.cause = chains[i].cause
        /\ new.act = chains[i].act
    BY <1>1, <1>2 DEF Chains
  <2>2. after = [chains EXCEPT ![i] = new]
    BY <1>1, <1>2 DEF Attribution!Credited
  <2> HIDE DEF new, after
  <2>3. /\ after \in Seq(Chains) /\ Len(after) = Len(chains)
        /\ \A k \in 1 .. Len(chains) : after[k] = IF k = i THEN new ELSE chains[k]
    BY <1>1, <1>2, <2>1, <2>2, ExceptSeq
  <2>4. ASSUME NEW k \in 1 .. Len(chains)
        PROVE  /\ after[k].opened = chains[k].opened /\ after[k].payload = chains[k].payload
               /\ after[k].cause = chains[k].cause /\ after[k].act = chains[k].act
               /\ after[k].client = IF k \in {i} \cap (1 .. Len(chains)) THEN name
                                    ELSE chains[k].client
    <3>1. CASE k = i
      BY <2>1, <2>3, <3>1
    <3>2. CASE k # i
      BY <2>3, <3>2
    <3>3. QED
      BY <3>1, <3>2
  <2>5. QED
    BY <2>3, <2>4 DEF Renamed, after
<1>3. CASE i = None
  <2>1. {i} \cap (1 .. Len(chains)) = {}
    BY <1>1, <1>3
  <2>2. Attribution!Credited(i, name) = chains
    BY <1>3 DEF Attribution!Credited
  <2>3. QED
    BY <1>1, <2>1, <2>2 DEF Renamed
<1>4. QED
  BY <1>2, <1>3

\* attribute_cause names every nameless chain of a message.
LEMMA CausedFacts ==
    ASSUME Typed, NEW name \in Clients, NEW payload
    PROVE  Renamed(Attribution!CausedBy(payload, name), name,
                   {k \in Attribution!Nameless : chains[k].cause = payload})
<1> DEFINE after == Attribution!CausedBy(payload, name)
           places == {k \in Attribution!Nameless : chains[k].cause = payload}
<1>1. /\ chains \in Seq(Chains) /\ Len(chains) \in Nat
      /\ \A k \in 1 .. Len(chains) : chains[k] \in Chains
  BY Entries DEF Typed
<1>2. \A k \in 1 .. Len(chains) : k \in places <=> chains[k].client = None /\ chains[k].cause = payload
  BY DEF Attribution!Nameless
<1>3. \A c \in Chains : /\ [c EXCEPT !.client = name] \in Chains
                        /\ [c EXCEPT !.client = name].client = name
                        /\ [c EXCEPT !.client = name].opened = c.opened
                        /\ [c EXCEPT !.client = name].payload = c.payload
                        /\ [c EXCEPT !.client = name].cause = c.cause
                        /\ [c EXCEPT !.client = name].act = c.act
  BY DEF Chains
<1>4. after = [i \in 1 .. Len(chains) |->
                 IF chains[i].client = None /\ chains[i].cause = payload
                 THEN [chains[i] EXCEPT !.client = name] ELSE chains[i]]
  BY DEF Attribution!CausedBy
<1> HIDE DEF after, places
<1>5. \A k \in 1 .. Len(chains) :
         after[k] = IF k \in places THEN [chains[k] EXCEPT !.client = name] ELSE chains[k]
  BY <1>2, <1>4
<1>6. \A k \in 1 .. Len(chains) : after[k] \in Chains
  BY <1>1, <1>3, <1>5
<1>7. after \in Seq(Chains) /\ Len(after) = Len(chains)
  <2>1. after \in [1 .. Len(chains) -> Chains]
    BY <1>4, <1>6
  <2>2. after \in Seq(Chains)
    BY <1>1, <2>1, SeqDef
  <2>3. QED
    BY <1>1, <2>1, <2>2, LenProperties
<1>8. ASSUME NEW k \in 1 .. Len(chains)
      PROVE  /\ after[k].opened = chains[k].opened /\ after[k].payload = chains[k].payload
             /\ after[k].cause = chains[k].cause /\ after[k].act = chains[k].act
             /\ after[k].client = IF k \in places THEN name ELSE chains[k].client
  <2>1. CASE k \in places
    <3> DEFINE new == [chains[k] EXCEPT !.client = name]
    <3>1. /\ new.client = name /\ new.opened = chains[k].opened /\ new.cause = chains[k].cause
          /\ new.payload = chains[k].payload /\ new.act = chains[k].act
      BY <1>1, <1>3
    <3>2. after[k] = new
      BY <1>5, <2>1
    <3> HIDE DEF new
    <3>3. QED
      BY <2>1, <3>1, <3>2
  <2>2. CASE k \notin places
    BY <1>5, <2>2
  <2>3. QED
    BY <2>1, <2>2
<1>9. QED
  BY <1>7, <1>8 DEF Renamed, after, places

\* The oldest and the newest of some chains.
LEMMA ChosenFacts ==
    ASSUME Typed, NEW places, places \subseteq 1 .. Len(chains)
    PROVE  /\ places = {} => Attribution!Oldest(places) = None /\ Attribution!Newest(places) = None
           /\ places # {} => /\ Attribution!Oldest(places) \in places
                             /\ Attribution!Newest(places) \in places
                             /\ \A k \in places : Attribution!Oldest(places) <= k
<1>1. Len(chains) \in Nat /\ places \in SUBSET Nat /\ places \in SUBSET (0 .. Len(chains))
  BY Entries
<1>2. places # {} => /\ Min(places) \in places /\ \A k \in places : Min(places) <= k
                     /\ Max(places) \in places
  BY <1>1, MinOf, MaxOf
<1>3. QED
  BY <1>2, Copies DEF Attribution!Oldest, Attribution!Newest

\* A name given to chains whose commands its bearer may have sent keeps the types
\* and the credit.
LEMMA NamingKeeps ==
    ASSUME AttributionInv, NEW told, told \in Seq(Acts), Grown(told),
           NEW name \in Automations \cup {Unresolved}, NEW places, NEW after,
           Renamed(after, name, places),
           \A k \in places : k \in 1 .. Len(chains) /\ name \in Automations =>
             SentBy(told, after[k])
    PROVE  \A k \in 1 .. Len(after) :
              /\ after[k].opened <= moment /\ after[k].act \in 1 .. Len(acts)
              /\ after[k].cause # None => after[k].cause = after[k].payload
              /\ after[k].client \in Automations => SentBy(told, after[k])
<1>1. Typed /\ Credit
  BY DEF AttributionInv
<1>2. /\ Len(after) = Len(chains)
      /\ \A k \in 1 .. Len(chains) :
           /\ after[k].opened = chains[k].opened /\ after[k].payload = chains[k].payload
           /\ after[k].cause = chains[k].cause /\ after[k].act = chains[k].act
           /\ after[k].client = IF k \in places THEN name ELSE chains[k].client
  BY DEF Renamed
<1>3. SUFFICES ASSUME NEW k \in 1 .. Len(chains)
               PROVE  /\ after[k].opened <= moment /\ after[k].act \in 1 .. Len(acts)
                      /\ after[k].cause # None => after[k].cause = after[k].payload
                      /\ after[k].client \in Automations => SentBy(told, after[k])
  BY <1>2
<1>4. /\ after[k].opened <= moment /\ after[k].act \in 1 .. Len(acts)
      /\ after[k].cause # None => after[k].cause = after[k].payload
  <2>1. /\ chains[k].opened <= moment /\ chains[k].act \in 1 .. Len(acts)
        /\ chains[k].cause # None => chains[k].cause = chains[k].payload
    BY <1>1 DEF Typed, Credit
  <2>2. QED
    BY <1>2, <2>1
<1>5. ASSUME after[k].client \in Automations PROVE SentBy(told, after[k])
  <2>1. CASE k \in places
    <3>1. after[k].client = name
      BY <1>2, <2>1
    <3>2. QED
      BY <1>5, <2>1, <3>1
  <2>2. CASE k \notin places
    <3>1. after[k].client = chains[k].client
      BY <1>2, <2>2
    <3>2. SentBy(acts, chains[k])
      BY <1>1, <1>5, <3>1 DEF Credit
    <3>3. SentBy(told, chains[k])
      BY <1>1, <3>2, StillTold
    <3>4. QED
      BY <1>2, <3>1, <3>3 DEF SentBy, Attribution!Sent
  <2>3. QED
    BY <2>1, <2>2
<1>6. QED
  BY <1>4, <1>5

\* The first event leaves the queue; the act it tells of was done.
LEMMA EventStart ==
    ASSUME AttributionInv, Attribution!Event
    PROVE  /\ events \in Seq(Events) /\ Len(events) \in Nat \ {0} /\ Head(events) = events[1]
           /\ events[1] \in Events /\ events[1].act \in 1 .. Len(acts)
           /\ acts[events[1].act] \in Acts
           /\ events' \in Seq(Events)
           /\ \A i \in 1 .. Len(events') :
                /\ i + 1 \in 1 .. Len(events) /\ events'[i] = events[i + 1]
                /\ events'[i].act \in 1 .. Len(acts)
           /\ \A i \in 1 .. Len(events) : i # 1 =>
                i - 1 \in 1 .. Len(events') /\ events'[i - 1] = events[i]
           /\ UNCHANGED <<moment, broker, causes, late, reconnects>>
<1>1. Typed /\ events # << >> /\ events' = Tail(events)
      /\ UNCHANGED <<moment, broker, causes, late, reconnects>>
  BY DEF AttributionInv, Attribution!Event
<1>2. events \in Seq(Events) /\ \A i \in 1 .. Len(events) : events[i].act \in 1 .. Len(acts)
  BY <1>1 DEF Typed
<1>3. /\ Len(events) \in Nat \ {0} /\ Head(events) = events[1] /\ events[1] \in Events
      /\ events' \in Seq(Events) /\ Len(events') = Len(events) - 1
      /\ \A i \in 1 .. Len(events') : i + 1 \in 1 .. Len(events) /\ events'[i] = events[i + 1]
  BY <1>1, <1>2, FirstOff
<1>4. events[1].act \in 1 .. Len(acts)
  BY <1>2, <1>3
<1>5. acts[events[1].act] \in Acts
  BY <1>1, <1>4, Entries
<1>6. \A i \in 1 .. Len(events) : i # 1 =>
        i - 1 \in 1 .. Len(events') /\ events'[i - 1] = events[i]
  <2>1. ASSUME NEW i \in 1 .. Len(events), i # 1
        PROVE  i - 1 \in 1 .. Len(events') /\ (i - 1) + 1 = i
    BY <1>3, <2>1
  <2>2. QED
    BY <1>3, <2>1
<1>7. QED
  BY <1>1, <1>2, <1>3, <1>4, <1>5, <1>6

\* What the first event tells: a run, a service call, a publish.
Calling == {"call", "call toggle"}
RunComes == Head(events).what = "run"
CallComes == Head(events).what = "act" /\ acts[Head(events).act].kind \in Calling
PublishComes == Head(events).what = "act" /\ acts[Head(events).act].kind \notin Calling

\* An automation has run: its context is remembered, and told under its name.
LEMMA RunStep ==
    ASSUME AttributionInv, Attribution!Event, RunComes
    PROVE  AttributionInv'
<1> DEFINE who == acts[events[1].act].by
<1>1. /\ events \in Seq(Events) /\ Len(events) \in Nat \ {0} /\ Head(events) = events[1]
      /\ acts[events[1].act] \in Acts
      /\ events' \in Seq(Events)
      /\ \A i \in 1 .. Len(events') :
           /\ i + 1 \in 1 .. Len(events) /\ events'[i] = events[i + 1]
           /\ events'[i].act \in 1 .. Len(acts)
      /\ \A i \in 1 .. Len(events) : i # 1 =>
           i - 1 \in 1 .. Len(events') /\ events'[i - 1] = events[i]
      /\ UNCHANGED <<moment, broker, causes, late, reconnects>>
  BY EventStart
<1>2. Attribution!Run(who) /\ acts' = acts
  BY <1>1 DEF Attribution!Event, RunComes
<1>3. /\ Typed /\ Told /\ Credit /\ Paired
      /\ UNCHANGED <<moment, acts, broker, causes, chains, recent, entities, late, reconnects>>
  BY <1>1, <1>2 DEF AttributionInv, Attribution!Run
<1>4. who \in Automations
  BY <1>1 DEF Acts
<1>5. InTime(contexts')
  <2>1. contexts' = Append(Attribution!PoppedAt(Attribution!Pruned,
                             {i \in 1 .. Len(Attribution!Pruned) : Attribution!Pruned[i].who = who}),
                           [who |-> who, at |-> moment])
    BY <1>2 DEF Attribution!Run
  <2> HIDE DEF who
  <2>2. QED
    BY <1>3, <1>4, <2>1, ContextFacts
<1>6. Typed'
  BY <1>1, <1>3, <1>5 DEF Typed, InTime
<1>7. Told' /\ Credit'
  BY <1>3 DEF Told, Credit
<1>8. Paired'
  <2>1. SUFFICES ASSUME Undisturbed' PROVE (CommandsInOrder /\ EventsInOrder /\ HeardAreNamed)'
    BY DEF Paired
  <2>2. CommandsInOrder /\ EventsInOrder /\ HeardAreNamed
    BY <1>3, <2>1 DEF Undisturbed, Attribution!OnlyPublishes, Paired
  <2>3. CommandsInOrder' /\ HeardAreNamed'
    BY <1>3, <2>2 DEF CommandsInOrder, HeardAreNamed
  <2>4. \A i, j \in 1 .. Len(events') : i < j => events'[i].act <= events'[j].act
    <3>1. ASSUME NEW i \in 1 .. Len(events'), NEW j \in 1 .. Len(events'), i < j
          PROVE  events'[i].act <= events'[j].act
      <4>1. i + 1 < j + 1
        BY <3>1
      <4>2. events[i + 1].act <= events[j + 1].act
        BY <1>1, <2>2, <4>1 DEF EventsInOrder
      <4>3. QED
        BY <1>1, <4>2
    <3>2. QED
      BY <3>1
  <2>5. ASSUME NEW k \in 1 .. Len(acts), acts[k].heard = None
        PROVE  \E i \in 1 .. Len(events') : events'[i].what = "act" /\ events'[i].act = k
    <3>1. PICK i \in 1 .. Len(events) : events[i].what = "act" /\ events[i].act = k
      BY <2>2, <2>5 DEF EventsInOrder
    <3>2. i # 1
      BY <1>1, <3>1 DEF RunComes
    <3>3. i - 1 \in 1 .. Len(events') /\ events'[i - 1] = events[i]
      BY <1>1, <3>2
    <3>4. QED
      BY <3>1, <3>3
  <2>6. EventsInOrder'
    BY <1>3, <2>2, <2>4, <2>5 DEF EventsInOrder
  <2>7. QED
    BY <2>3, <2>6
<1>9. QED
  BY <1>6, <1>7, <1>8 DEF AttributionInv

\* The name an event is told under is its automation's, or it has none.
LEMMA ResolvedFacts ==
    ASSUME NEW who \in Automations
    PROVE  Attribution!Resolved(who) \in {who, Unresolved}
BY DEF Attribution!Resolved

\* A service call is told: remembered for the lamp's entity, and for the newest
\* nameless chain it may have commanded.
LEMMA CalledStep ==
    ASSUME AttributionInv, Attribution!Event, CallComes
    PROVE  AttributionInv'
<1> DEFINE n == events[1].act
           a == acts[n]
           name == Attribution!Resolved(a.by)
           want == IF a.kind = "call" THEN a.payload ELSE None
           new == [at |-> moment, want |-> want, name |-> name]
           places == {i \in Attribution!Nameless :
                        /\ chains[i].opened >= moment - CORRELATION_TOLERANCE_SECONDS
                        /\ want \in {None, chains[i].payload}}
           chosen == Attribution!Newest(places)
<1>1. /\ events \in Seq(Events) /\ Head(events) = events[1]
      /\ n \in 1 .. Len(acts) /\ a \in Acts
      /\ events' \in Seq(Events)
      /\ \A i \in 1 .. Len(events') : events'[i].act \in 1 .. Len(acts)
      /\ UNCHANGED <<moment, broker, causes, late, reconnects>>
  BY EventStart
<1>2. a.kind \in {"call", "call toggle"} /\ events[1].what = "act"
  BY <1>1 DEF CallComes, Calling
<1>3. Attribution!Called(a) /\ acts' = [acts EXCEPT ![n].heard = moment]
  BY <1>1, <1>2 DEF Attribution!Event
<1>4. /\ contexts' = Attribution!Pruned /\ entities' = Append(entities, new)
      /\ chains' = Attribution!Credited(chosen, name) /\ recent' = recent
  BY <1>3 DEF Attribution!Called
<1>5. Typed /\ Told /\ Credit /\ Paired
  BY DEF AttributionInv
<1>6. /\ acts' \in Seq(Acts) /\ Len(acts') = Len(acts) /\ Grown(acts')
  BY <1>1, <1>3, <1>5, HeardFacts
<1>7. /\ a.by \in Automations /\ a.payload \in Payloads /\ name \in {a.by, Unresolved}
      /\ name \in Automations \cup {Unresolved} /\ name \in Clients
      /\ Unresolved \notin Automations /\ None \notin Payloads
  <2>1. a.by \in Automations /\ a.payload \in Payloads
    BY <1>1 DEF Acts
  <2>2. name \in {a.by, Unresolved}
    BY <2>1, ResolvedFacts
  <2>3. QED
    BY <1>5, <2>1, <2>2, Entries DEF Clients
<1>8. /\ acts'[n].by = a.by /\ acts'[n].kind = a.kind /\ acts'[n].payload = a.payload
      /\ n \in 1 .. Len(acts')
  BY <1>1, <1>6 DEF Grown
<1>9. /\ new \in Calls /\ new.name = name /\ new.want = want
  BY <1>5, <1>7 DEF Calls, Typed
<1>10. name \in Automations => CalledBy(acts', new)
  BY <1>2, <1>7, <1>8, <1>9 DEF CalledBy
<1>11. places \subseteq 1 .. Len(chains)
  BY DEF Attribution!Nameless
<1>12. /\ \A k \in places : want = None \/ want = chains[k].payload
       /\ a.kind = "call" => want = a.payload
  OBVIOUS
<1> HIDE DEF n, a, name, want, new, places
<1>13. /\ chosen = None \/ chosen \in places
  BY <1>5, <1>11, ChosenFacts
<1> HIDE DEF chosen
<1>14. Renamed(chains', name, {chosen} \cap (1 .. Len(chains)))
  BY <1>4, <1>5, <1>7, <1>11, <1>13, CreditedFacts
<1>15. \A k \in {chosen} \cap (1 .. Len(chains)) :
          k \in 1 .. Len(chains) /\ name \in Automations => SentBy(acts', chains'[k])
  <2>1. SUFFICES ASSUME NEW k \in 1 .. Len(chains), k = chosen, name \in Automations
                 PROVE  SentBy(acts', chains'[k])
    OBVIOUS
  <2>2. k \in places
    <3>1. None \notin Nat
      BY <1>5, Entries
    <3>2. QED
      BY <1>13, <2>1, <3>1
  <2>3. chains'[k].client = name /\ chains'[k].payload = chains[k].payload
    BY <1>14, <2>1 DEF Renamed
  <2>4. acts'[n].by = chains'[k].client
    BY <1>7, <1>8, <2>1, <2>3
  <2>5. \/ acts'[n].kind = "call" /\ acts'[n].payload = chains'[k].payload
        \/ acts'[n].kind = "call toggle"
    <3>1. CASE a.kind = "call"
      <4>1. want = a.payload
        BY <1>12, <3>1
      <4>2. QED
        BY <1>7, <1>8, <1>12, <2>2, <2>3, <3>1, <4>1
    <3>2. CASE a.kind = "call toggle"
      BY <1>8, <3>2
    <3>3. QED
      BY <1>2, <3>1, <3>2
  <2>6. QED
    BY <1>8, <2>4, <2>5 DEF SentBy, Attribution!Sent
<1>16. \A k \in 1 .. Len(chains') :
          /\ chains'[k].opened <= moment /\ chains'[k].act \in 1 .. Len(acts)
          /\ chains'[k].cause # None => chains'[k].cause = chains'[k].payload
          /\ chains'[k].client \in Automations => SentBy(acts', chains'[k])
  BY <1>6, <1>7, <1>14, <1>15, NamingKeeps
<1>17. /\ entities' \in Seq(Calls) /\ Len(entities') = Len(entities) + 1 /\ Len(entities) \in Nat
       /\ entities'[Len(entities) + 1] = new
       /\ \A i \in 1 .. Len(entities) : entities'[i] = entities[i]
  <2>1. entities \in Seq(Calls) /\ Len(entities) \in Nat
    BY <1>5, Entries DEF Typed
  <2>2. QED
    BY <1>4, <1>9, <2>1, AppendProperties
<1>18. Typed'
  <2>1. InTime(contexts')
    BY <1>4, <1>5, ContextFacts
  <2>2. chains' \in Seq(Chains)
    BY <1>14 DEF Renamed
  <2>3. /\ \A k \in 1 .. Len(chains') : chains'[k].opened <= moment /\ chains'[k].act \in 1 .. Len(acts)
    BY <1>16
  <2>4. QED
    BY <1>1, <1>4, <1>5, <1>6, <1>17, <2>1, <2>2, <2>3 DEF Typed, InTime
<1>19. Told'
  <2>1. \A i \in 1 .. Len(recent') : recent'[i].name \in Automations => PublishedBy(acts', recent'[i])
    BY <1>4, <1>5, <1>6, StillTold DEF Told
  <2>2. ASSUME NEW i \in 1 .. Len(entities'), entities'[i].name \in Automations
        PROVE  CalledBy(acts', entities'[i])
    <3>1. i \in 1 .. Len(entities) \/ i = Len(entities) + 1
      BY <1>17
    <3>2. CASE i \in 1 .. Len(entities)
      <4>1. CalledBy(acts, entities[i])
        BY <1>5, <1>17, <2>2, <3>2 DEF Told
      <4>2. QED
        BY <1>5, <1>6, <1>17, <3>2, <4>1, StillTold
    <3>3. CASE i = Len(entities) + 1
      BY <1>9, <1>10, <1>17, <2>2, <3>3
    <3>4. QED
      BY <3>1, <3>2, <3>3
  <2>3. QED
    BY <2>1, <2>2 DEF Told
<1>20. Credit'
  BY <1>16 DEF Credit
<1>21. ~Undisturbed'
  <2>1. acts'[n].kind # "publish"
    BY <1>2, <1>8
  <2>2. QED
    BY <1>8, <2>1 DEF Undisturbed, Attribution!OnlyPublishes
<1>22. QED
  BY <1>18, <1>19, <1>20, <1>21 DEF AttributionInv, Paired

\* When the act a queue of events starts with is not told yet, those before it are.
LEMMA EarlierAreHeard ==
    ASSUME AttributionInv, Attribution!Event, Undisturbed, NEW k \in 1 .. Len(acts),
           k < events[1].act
    PROVE  acts[k].heard # None
<1>1. /\ \A i \in 1 .. Len(events) : events[i].act \in 1 .. Len(acts)
      /\ Len(events) \in Nat \ {0} /\ events[1].act \in 1 .. Len(acts)
  BY EventStart DEF AttributionInv, Typed
<1>2. EventsInOrder
  BY DEF AttributionInv, Paired
<1>3. SUFFICES ASSUME acts[k].heard = None PROVE FALSE
  OBVIOUS
<1>4. PICK i \in 1 .. Len(events) : events[i].what = "act" /\ events[i].act = k
  BY <1>2, <1>3 DEF EventsInOrder
<1>5. 1 \in 1 .. Len(events) /\ (i = 1 \/ 1 < i)
  BY <1>1
<1>6. i = 1 \/ events[1].act <= events[i].act
  BY <1>2, <1>5 DEF EventsInOrder
<1>7. events[1].act <= k
  BY <1>1, <1>4, <1>6
<1>8. QED
  BY <1>1, <1>7

\* A publish is told: remembered for its topic, and for the chains it may have
\* commanded.
LEMMA PublishedStep ==
    ASSUME AttributionInv, Attribution!Event, PublishComes
    PROVE  AttributionInv'
<1> DEFINE n == events[1].act
           a == acts[n]
           name == Attribution!Resolved(a.by)
           payload == IF a.kind = "publish" THEN a.payload ELSE None
           new == [at |-> moment, topic |-> a.topic, payload |-> payload, name |-> name]
           fitting == {i \in Attribution!Nameless : chains[i].payload = payload}
           chosen == Attribution!ChainOf(payload)
           caused == {k \in Attribution!Nameless : chains[k].cause = payload}
<1>1. /\ events \in Seq(Events) /\ Head(events) = events[1] /\ Len(events) \in Nat \ {0}
      /\ n \in 1 .. Len(acts) /\ a \in Acts
      /\ events' \in Seq(Events)
      /\ \A i \in 1 .. Len(events') : /\ i + 1 \in 1 .. Len(events) /\ events'[i] = events[i + 1]
                                      /\ events'[i].act \in 1 .. Len(acts)
      /\ \A i \in 1 .. Len(events) : i # 1 =>
           i - 1 \in 1 .. Len(events') /\ events'[i - 1] = events[i]
      /\ UNCHANGED <<moment, broker, causes, late, reconnects>>
  BY EventStart
<1>2. /\ a.kind \notin {"call", "call toggle"} /\ events[1].what = "act"
      /\ a.kind \in {"publish", "publish unseen"} /\ a.topic \in {"set", "ext"}
  BY <1>1 DEF PublishComes, Calling, Acts, Attribution!Kinds
<1>3. Attribution!Published(a) /\ acts' = [acts EXCEPT ![n].heard = moment]
  BY <1>1, <1>2 DEF Attribution!Event
<1>4. /\ contexts' = Attribution!Pruned /\ recent' = Append(recent, new)
      /\ entities' = entities
      /\ a.topic = "set" => chains' = Attribution!Credited(chosen, name)
      /\ a.topic = "ext" /\ payload # None => chains' = Attribution!CausedBy(payload, name)
      /\ a.topic = "ext" /\ payload = None => chains' = chains
  BY <1>3 DEF Attribution!Published
<1>5. Typed /\ Told /\ Credit /\ Paired
  BY DEF AttributionInv
<1>6. /\ acts' \in Seq(Acts) /\ Len(acts') = Len(acts) /\ Grown(acts')
      /\ \A k \in 1 .. Len(acts) : acts'[k].heard = IF k = n THEN moment ELSE acts[k].heard
  <2>1. Typed /\ n \in 1 .. Len(acts) /\ acts' = [acts EXCEPT ![n].heard = moment]
    BY <1>1, <1>3, <1>5
  <2> HIDE DEF n, a, name, payload, new, fitting, chosen, caused
  <2>2. acts' \in Seq(Acts) /\ Len(acts') = Len(acts) /\ Grown(acts') /\ HeardNow(acts', n)
    BY <2>1, HeardFacts
  <2>3. QED
    BY <2>2 DEF HeardNow
<1>7. /\ a.by \in Automations /\ a.payload \in Payloads /\ name \in {a.by, Unresolved}
      /\ name \in Automations \cup {Unresolved} /\ name \in Clients /\ name # None
      /\ Unresolved \notin Automations /\ None \notin Payloads
  <2>1. a.by \in Automations /\ a.payload \in Payloads
    BY <1>1 DEF Acts
  <2>2. name \in {a.by, Unresolved}
    BY <2>1, ResolvedFacts
  <2>3. QED
    BY <1>5, <2>1, <2>2, Entries DEF Clients
<1>8. /\ acts'[n].by = a.by /\ acts'[n].kind = a.kind /\ acts'[n].payload = a.payload
      /\ acts'[n].topic = a.topic /\ n \in 1 .. Len(acts')
  BY <1>1, <1>6 DEF Grown
<1>9. /\ payload \in Payloads \cup {None}
      /\ payload # None => a.kind = "publish" /\ payload = a.payload
      /\ a.kind = "publish" => payload # None
  BY <1>7
<1>10. /\ new \in Publishes /\ new.name = name /\ new.payload = payload /\ new.topic = a.topic
       /\ new.at = moment
  BY <1>1, <1>5, <1>7 DEF Publishes, Typed, Acts
<1>11. /\ fitting \subseteq 1 .. Len(chains) /\ Attribution!Nameless \subseteq 1 .. Len(chains)
       /\ \A k \in fitting : chains[k].client = None /\ chains[k].payload = payload
       /\ \A k \in 1 .. Len(chains) : chains[k].client = None /\ chains[k].payload = payload =>
            k \in fitting
       /\ \A k \in caused : chains[k].client = None /\ chains[k].cause = payload
       /\ payload # None => chosen = Attribution!Oldest(fitting)
       /\ payload = None => chosen = Attribution!Newest(Attribution!Nameless)
  BY DEF Attribution!Nameless, Attribution!ChainOf
<1> HIDE DEF n, a, name, payload, new, fitting, chosen, caused
<1>12. name \in Automations => PublishedBy(acts', new)
  BY <1>7, <1>8, <1>9, <1>10 DEF PublishedBy
<1>13. /\ chosen = None \/ chosen \in 1 .. Len(chains)
       /\ payload # None => chosen = None \/ chosen \in fitting
       /\ payload # None /\ fitting # {} => chosen \in fitting /\ \A k \in fitting : chosen <= k
  BY <1>5, <1>11, ChosenFacts
<1>14. /\ a.topic = "set" => Renamed(chains', name, {chosen} \cap (1 .. Len(chains)))
       /\ a.topic = "ext" /\ payload # None => Renamed(chains', name, caused)
       /\ a.topic = "ext" /\ payload = None => Renamed(chains', name, {})
  <2>1. a.topic = "set" => Renamed(chains', name, {chosen} \cap (1 .. Len(chains)))
    BY <1>4, <1>5, <1>7, <1>13, CreditedFacts
  <2>2. a.topic = "ext" /\ payload # None => Renamed(chains', name, caused)
    BY <1>4, <1>5, <1>7, CausedFacts DEF caused
  <2>3. a.topic = "ext" /\ payload = None => Renamed(chains', name, {})
    BY <1>4, <1>5 DEF Renamed, Typed
  <2>4. QED
    BY <2>1, <2>2, <2>3
<1>15. \A k \in 1 .. Len(chains') :
          /\ chains'[k].opened <= moment /\ chains'[k].act \in 1 .. Len(acts)
          /\ chains'[k].cause # None => chains'[k].cause = chains'[k].payload
          /\ chains'[k].client \in Automations => SentBy(acts', chains'[k])
  <2>1. CASE a.topic = "set"
    <3>1. ASSUME NEW k \in {chosen} \cap (1 .. Len(chains)),
                 k \in 1 .. Len(chains), name \in Automations
          PROVE  SentBy(acts', chains'[k])
      <4>1. chains'[k].client = name /\ chains'[k].payload = chains[k].payload
        BY <1>14, <2>1, <3>1 DEF Renamed
      <4>2. acts'[n].by = chains'[k].client
        BY <1>7, <1>8, <3>1, <4>1
      <4>3. CASE payload # None
        <5>1. chains[k].payload = a.payload
          <6>1. k \in fitting
            <7>1. None \notin Nat
              BY <1>5, Entries
            <7>2. QED
              BY <1>13, <3>1, <4>3, <7>1
          <6>2. QED
            BY <1>9, <1>11, <4>3, <6>1
        <5>2. acts'[n].kind = "publish" /\ acts'[n].topic = "set"
          BY <1>8, <1>9, <2>1, <4>3
        <5>3. acts'[n].payload = chains'[k].payload
          BY <1>8, <4>1, <5>1
        <5>4. Attribution!Sent(acts'[n], chains'[k])
          BY <5>2, <5>3 DEF Attribution!Sent
        <5>5. QED
          BY <1>8, <4>2, <5>4 DEF SentBy
      <4>4. CASE payload = None
        BY <1>2, <1>8, <1>9, <2>1, <4>2, <4>4 DEF SentBy, Attribution!SentUnseen
      <4>5. QED
        BY <4>3, <4>4
    <3>2. QED
      BY <1>6, <1>7, <1>14, <2>1, <3>1, NamingKeeps
  <2>2. CASE a.topic = "ext" /\ payload # None
    <3>1. ASSUME NEW k \in caused, k \in 1 .. Len(chains), name \in Automations
          PROVE  SentBy(acts', chains'[k])
      <4>1. /\ chains'[k].client = name /\ chains'[k].payload = chains[k].payload
            /\ chains'[k].cause = chains[k].cause
        BY <1>14, <2>2, <3>1 DEF Renamed
      <4>2. acts'[n].by = chains'[k].client
        BY <1>7, <1>8, <3>1, <4>1
      <4>3. chains[k].cause = payload /\ chains[k].payload = payload
        BY <1>5, <1>11, <2>2, <3>1 DEF Credit
      <4>4. acts'[n].kind = "publish"
        BY <1>8, <1>9, <2>2
      <4>5. chains'[k].cause # None
        BY <2>2, <4>1, <4>3
      <4>6. acts'[n].payload = chains'[k].payload
        BY <1>8, <1>9, <2>2, <4>1, <4>3
      <4>7. Attribution!Sent(acts'[n], chains'[k])
        BY <4>4, <4>5, <4>6 DEF Attribution!Sent
      <4>8. QED
        BY <1>8, <4>2, <4>7 DEF SentBy
    <3>2. QED
      BY <1>6, <1>7, <1>14, <2>2, <3>1, NamingKeeps
  <2>3. CASE a.topic = "ext" /\ payload = None
    BY <1>6, <1>7, <1>14, <2>3, NamingKeeps
  <2>4. QED
    BY <1>2, <2>1, <2>2, <2>3
<1>16. /\ recent' \in Seq(Publishes) /\ Len(recent') = Len(recent) + 1 /\ Len(recent) \in Nat
       /\ recent'[Len(recent) + 1] = new
       /\ \A i \in 1 .. Len(recent) : recent'[i] = recent[i]
  <2>1. recent \in Seq(Publishes) /\ Len(recent) \in Nat
    BY <1>5, Entries DEF Typed
  <2>2. QED
    BY <1>4, <1>10, <2>1, AppendProperties
<1>17. Typed'
  <2>1. InTime(contexts')
    BY <1>4, <1>5, ContextFacts
  <2>2. chains' \in Seq(Chains)
    BY <1>2, <1>14 DEF Renamed
  <2>3. \A k \in 1 .. Len(chains') : chains'[k].opened <= moment /\ chains'[k].act \in 1 .. Len(acts)
    BY <1>15
  <2>4. QED
    BY <1>1, <1>4, <1>5, <1>6, <1>16, <2>1, <2>2, <2>3 DEF Typed, InTime
<1>18. Told'
  <2>1. \A i \in 1 .. Len(entities') :
           entities'[i].name \in Automations => CalledBy(acts', entities'[i])
    BY <1>4, <1>5, <1>6, StillTold DEF Told
  <2>2. ASSUME NEW i \in 1 .. Len(recent'), recent'[i].name \in Automations
        PROVE  PublishedBy(acts', recent'[i])
    <3>1. i \in 1 .. Len(recent) \/ i = Len(recent) + 1
      BY <1>16
    <3>2. CASE i \in 1 .. Len(recent)
      <4>1. PublishedBy(acts, recent[i])
        BY <1>5, <1>16, <2>2, <3>2 DEF Told
      <4>2. QED
        BY <1>5, <1>6, <1>16, <3>2, <4>1, StillTold
    <3>3. CASE i = Len(recent) + 1
      BY <1>10, <1>12, <1>16, <2>2, <3>3
    <3>4. QED
      BY <3>1, <3>2, <3>3
  <2>3. QED
    BY <2>1, <2>2 DEF Told
<1>19. Credit'
  BY <1>15 DEF Credit
<1>20. Paired'
  <2>1. SUFFICES ASSUME Undisturbed' PROVE (CommandsInOrder /\ EventsInOrder /\ HeardAreNamed)'
    BY DEF Paired
  <2>2. /\ Undisturbed /\ a.kind = "publish" /\ a.topic = "set"
    BY <1>1, <1>6, <1>8, <2>1 DEF Undisturbed, Attribution!OnlyPublishes, Grown
  <2>3. CommandsInOrder /\ EventsInOrder /\ HeardAreNamed
    BY <1>5, <2>2 DEF Paired
  <2>4. /\ payload = a.payload /\ payload # None
        /\ Renamed(chains', name, {chosen} \cap (1 .. Len(chains)))
    BY <1>9, <1>14, <2>2
  <2>5. /\ Len(chains') = Len(chains)
        /\ \A k \in 1 .. Len(chains) :
             /\ chains'[k].payload = chains[k].payload /\ chains'[k].act = chains[k].act
             /\ chains'[k].client = IF k = chosen THEN name ELSE chains[k].client
             /\ chains[k].act \in 1 .. Len(acts)
    BY <1>5, <2>4 DEF Renamed, Typed
  <2>6. \A k \in 1 .. Len(acts) : acts'[k].payload = acts[k].payload
    BY <1>6 DEF Grown
  <2>7. CommandsInOrder'
    <3>1. /\ \A i \in 1 .. Len(broker') : broker'[i].topic = "set"
          /\ \A i, j \in 1 .. Len(broker') : i < j => broker'[i].act < broker'[j].act
      BY <1>1, <2>3 DEF CommandsInOrder
    <3>2. /\ \A i, j \in 1 .. Len(chains) : i < j => chains[i].act < chains[j].act
          /\ \A i \in 1 .. Len(chains), k \in 1 .. Len(broker) : chains[i].act < broker[k].act
          /\ \A i \in 1 .. Len(chains) : chains[i].payload = acts[chains[i].act].payload
      BY <2>3 DEF CommandsInOrder
    <3>3. \A i, j \in 1 .. Len(chains') : i < j => chains'[i].act < chains'[j].act
      BY <2>5, <3>2
    <3>4. \A i \in 1 .. Len(chains'), k \in 1 .. Len(broker') : chains'[i].act < broker'[k].act
      BY <1>1, <2>5, <3>2
    <3>5. \A i \in 1 .. Len(chains') : chains'[i].payload = acts'[chains'[i].act].payload
      BY <2>5, <2>6, <3>2
    <3>6. QED
      BY <3>1, <3>3, <3>4, <3>5 DEF CommandsInOrder
  <2>8. EventsInOrder'
    <3>1. ASSUME NEW i \in 1 .. Len(events'), NEW j \in 1 .. Len(events'), i < j
          PROVE  events'[i].act <= events'[j].act
      <4>1. i + 1 < j + 1
        BY <3>1
      <4>2. events[i + 1].act <= events[j + 1].act
        BY <1>1, <2>3, <4>1 DEF EventsInOrder
      <4>3. QED
        BY <1>1, <4>2
    <3>2. ASSUME NEW k \in 1 .. Len(acts), acts'[k].heard = None
          PROVE  \E i \in 1 .. Len(events') : events'[i].what = "act" /\ events'[i].act = k
      <4>1. k # n /\ acts[k].heard = None
        <5>1. moment # None
          BY <1>5, Entries DEF Typed
        <5>2. QED
          BY <1>6, <3>2, <5>1
      <4>2. PICK i \in 1 .. Len(events) : events[i].what = "act" /\ events[i].act = k
        BY <2>3, <4>1 DEF EventsInOrder
      <4>3. i # 1
        BY <4>1, <4>2 DEF n
      <4>4. i - 1 \in 1 .. Len(events') /\ events'[i - 1] = events[i]
        BY <1>1, <4>3
      <4>5. QED
        BY <4>2, <4>4
    <3>3. ASSUME NEW k \in 1 .. Len(acts), acts'[k].heard # None
          PROVE  /\ acts'[k].heard <= moment
                 /\ \E i \in 1 .. Len(recent') :
                      /\ recent'[i].at = acts'[k].heard /\ recent'[i].topic = "set"
                      /\ recent'[i].payload = acts'[k].payload
      <4>1. CASE k = n
        <5>1. Len(recent) + 1 \in 1 .. Len(recent') /\ moment <= moment
          BY <1>5, <1>16 DEF Typed
        <5>2. acts'[k].heard = moment /\ acts'[k].payload = payload
          BY <1>6, <1>8, <2>4, <4>1
        <5>3. QED
          BY <1>10, <1>16, <2>2, <5>1, <5>2
      <4>2. CASE k # n
        <5>1. acts'[k].heard = acts[k].heard
          BY <1>6, <4>2
        <5>2. PICK i \in 1 .. Len(recent) :
                 /\ recent[i].at = acts[k].heard /\ recent[i].topic = "set"
                 /\ recent[i].payload = acts[k].payload
          BY <2>3, <3>3, <5>1 DEF EventsInOrder
        <5>3. i \in 1 .. Len(recent') /\ recent'[i] = recent[i]
          BY <1>16
        <5>4. acts[k].heard <= moment
          BY <2>3, <3>3, <5>1 DEF EventsInOrder
        <5>5. QED
          BY <2>6, <5>1, <5>2, <5>3, <5>4
      <4>3. QED
        BY <4>1, <4>2
    <3>4. QED
      BY <1>1, <1>6, <3>1, <3>2, <3>3 DEF EventsInOrder
  <2>9. ASSUME ~late, NEW k \in 1 .. Len(chains), acts'[chains[k].act].heard # None
        PROVE  chains'[k].client # None
    <3>1. CASE chains[k].client # None
      BY <1>7, <2>5, <3>1
    <3>2. CASE chains[k].client = None
      <4>1. chains[k].act = n
        <5>1. acts[chains[k].act].heard = None
          BY <2>3, <2>9, <3>2 DEF HeardAreNamed
        <5>2. QED
          BY <1>6, <2>5, <2>9, <5>1
      <4>2. k \in fitting
        <5>1. chains[k].payload = a.payload
          BY <2>3, <4>1 DEF CommandsInOrder, a
        <5>2. QED
          BY <1>11, <2>4, <3>2, <5>1
      <4>3. chosen \in fitting /\ chosen <= k /\ chosen \in 1 .. Len(chains)
        BY <1>11, <1>13, <2>4, <4>2
      <4>4. chosen = k
        <5>1. SUFFICES ASSUME chosen < k PROVE FALSE
          BY <4>3
        <5>2. chains[chosen].act < n /\ chains[chosen].act \in 1 .. Len(acts)
          BY <2>3, <2>5, <4>1, <4>3, <5>1 DEF CommandsInOrder
        <5>3. acts[chains[chosen].act].heard # None
          BY <2>2, <5>2, EarlierAreHeard DEF n
        <5>4. chains[chosen].client # None
          BY <2>3, <2>9, <4>3, <5>3 DEF HeardAreNamed
        <5>5. QED
          BY <1>11, <4>3, <5>4
      <4>5. QED
        BY <1>7, <2>5, <4>4
    <3>3. QED
      BY <3>1, <3>2
  <2>10. HeardAreNamed'
    BY <1>1, <2>5, <2>9 DEF HeardAreNamed
  <2>11. QED
    BY <2>7, <2>8, <2>10
<1>21. QED
  BY <1>17, <1>18, <1>19, <1>20 DEF AttributionInv

\* Every step of the part keeps the invariant.
LEMMA AttributionStep ==
    ASSUME AttributionInv, [Attribution!Next]_attribution
    PROVE  AttributionInv'
<1>1. CASE UNCHANGED attribution
  <2>1. /\ Typed /\ Told /\ Credit /\ Paired
        /\ UNCHANGED <<moment, acts, broker, events, contexts, recent, entities, causes, chains,
                       late, reconnects>>
    BY <1>1 DEF attribution, AttributionInv
  <2>2. Typed'
    BY <2>1 DEF Typed
  <2>3. Told' /\ Credit'
    BY <2>1 DEF Told, Credit
  <2>4. Paired'
    BY <2>1 DEF Paired, Undisturbed, Attribution!OnlyPublishes, CommandsInOrder, EventsInOrder,
                HeardAreNamed
  <2>5. QED
    BY <2>2, <2>3, <2>4 DEF AttributionInv
<1>2. ASSUME NEW who \in Automations, NEW what \in Attribution!Kinds,
             NEW topic \in {"set", "ext"}, NEW payload \in Payloads,
             Attribution!Act(who, what, topic, payload)
      PROVE  AttributionInv'
  BY <1>2, ActStep
<1>3. CASE Attribution!Tick \/ Attribution!Reconnect
  BY <1>3, TickStep
<1>4. CASE Attribution!WireMessage
  <2>1. \/ Attribution!SetSeen(Head(broker)) \/ Attribution!CauseSeen(Head(broker))
        \/ Attribution!ReportSeen(Head(broker))
    BY <1>4 DEF Attribution!WireMessage
  <2>2. QED
    BY <1>4, <2>1, SetSeenStep, ExtensionStep
<1>5. CASE Attribution!Expire
  BY <1>5, ExpireStep
<1>6. CASE Attribution!Event
  <2>1. RunComes \/ CallComes \/ PublishComes
    BY <1>6 DEF Attribution!Event, RunComes, CallComes, PublishComes
  <2>2. QED
    BY <1>6, <2>1, RunStep, CalledStep, PublishedStep
<1>7. QED
  BY <1>1, <1>2, <1>3, <1>4, <1>5, <1>6 DEF Attribution!Next

\* The invariant gives the type correctness and the two promises of the part.
LEMMA AttributionPromises ==
    ASSUME AttributionInv
    PROVE  Attribution!TypeOK /\ Attribution!CreditedToASender /\ Attribution!NobodyNameless
<1>1. Typed /\ Credit /\ Paired
  BY DEF AttributionInv
<1>2. /\ Len(chains) \in Nat /\ Len(contexts) \in Nat /\ moment \in Nat /\ late \in BOOLEAN
      /\ \A i \in 1 .. Len(chains) : chains[i] \in Chains
      /\ \A i \in 1 .. Len(chains) : chains[i].opened <= moment /\ chains[i].act \in 1 .. Len(acts)
      /\ \A i, j \in 1 .. Len(contexts) : i < j => contexts[i].at <= contexts[j].at
  BY <1>1, Entries DEF Typed
<1>3. Attribution!TypeOK
  <2>1. \A i \in 1 .. Len(contexts) - 1 : contexts[i].at <= contexts[i + 1].at
    <3>1. \A i \in 1 .. Len(contexts) - 1 :
            i \in 1 .. Len(contexts) /\ i + 1 \in 1 .. Len(contexts) /\ i < i + 1
      BY <1>2
    <3>2. QED
      BY <1>2, <3>1
  <2>2. \A i \in 1 .. Len(chains) :
           /\ chains[i].client \in Automations \cup {None, Ambiguous, Unresolved}
           /\ chains[i].payload \in Payloads /\ chains[i].cause \in Payloads \cup {None}
           /\ chains[i].opened \in 0 .. moment /\ chains[i].act \in 1 .. Len(acts)
    BY <1>2 DEF Chains, Clients
  <2>3. QED
    BY <1>2, <2>1, <2>2 DEF Attribution!TypeOK
<1>4. Attribution!CreditedToASender
  BY <1>1 DEF Credit, SentBy, Attribution!CreditedToASender
<1>5. Attribution!NobodyNameless
  BY <1>1 DEF Paired, Undisturbed, HeardAreNamed, Attribution!NobodyNameless
<1>6. QED
  BY <1>3, <1>4, <1>5

\* A command is never credited to an automation that did not send it, and, while
\* nothing disturbs, none whose event has come stays nameless: for any number of
\* automations, payloads and acts, and any windows.
THEOREM CommandsAreCredited == Spec => []CreditedToASender
<1>1. Init => AttributionInv
  BY AttributionInit DEF Init
<1>2. AttributionInv /\ [Next]_vars => AttributionInv'
  BY AttributionStep, Apart
<1>3. AttributionInv => CreditedToASender
  BY AttributionPromises DEF CreditedToASender
<1>4. QED
  BY <1>1, <1>2, <1>3, PTL DEF Spec

-----------------------------------------------------------------------------
(* Whether a command changed anything: the lists and the messages *)

\* What lamps hold, what they are asked for and what is said.
Held == Nat \cup Noops!ColorKeys
Assignments == UNION {[K -> Held] : K \in SUBSET Noops!Keys}
Asks == [key : Noops!ColorKeys, value : Nat]
Sayings == [kind : {"state", "devices", "groups", "action"}, about : Noops!Names,
            content : (SUBSET Lamps) \cup Assignments, answers : Noops!ColorKeys \cup {None}]

\* A message says what its kind says.
WellSaid(m) ==
    /\ m.kind = "state" /\ m.about \in Lamps => m.content \in [Noops!Keys -> Held]
    /\ m.answers # None =>
         m.kind = "state" /\ m.about \in Lamps /\ m.content["color_mode"] = m.answers
    /\ m.kind = "state" => m.content \in Assignments
    /\ m.kind = "devices" => m.content = Lamps
    /\ m.kind = "groups" => m.content \in SUBSET Lamps

\* What the constants are, and the copies of the library's operators.
LEMMA NoopConstants ==
    /\ IsFiniteSet(Lamps) /\ Group \notin Lamps /\ Commanded \subseteq Noops!Names
    /\ Settings \subseteq Asks
    /\ MAX_TRACKED_DEVICES \in Nat /\ MAX_TRACKED_KEYS \in Nat
    /\ None \notin Noops!ColorKeys /\ None \notin SUBSET Lamps
    /\ None \notin {"noop", "changing", "unknown"}
    /\ Noops!Names = Lamps \cup {Group}
    /\ Noops!ColorKeys = {"color_temp", "color"}
    /\ Noops!Keys = {"color_temp", "color", "color_mode"}
    /\ \A S : Noops!Cardinality(S) = Cardinality(S)
<1>1. \A S : Noops!Cardinality(S) = Cardinality(S) /\ Noops!IsFiniteSet(S) = IsFiniteSet(S)
  BY DEF Noops!Cardinality, Cardinality, Noops!IsFiniteSet, IsFiniteSet
<1>2. QED
  BY <1>1, NoopAssumption DEF Noops!NoopAssumption, Noops!Names, Noops!ColorKeys, Noops!Keys, Asks

\* The sequence t is s with m at its end.
Appended(s, t, m) ==
    /\ Len(s) \in Nat /\ Len(t) = Len(s) + 1
    /\ \A i \in 1..Len(s) : t[i] = s[i]
    /\ t[Len(s) + 1] = m

\* The sequence t is s without its head.
Shifted(s, t) ==
    /\ Len(s) \in Nat /\ Len(s) >= 1 /\ Len(t) = Len(s) - 1
    /\ \A i \in 1..Len(t) : t[i] = s[i + 1]

\* Append and Tail, by position.
LEMMA Positions ==
    ASSUME NEW S, NEW s \in Seq(S)
    PROVE  /\ \A m \in S : Appended(s, Append(s, m), m) /\ Append(s, m) \in Seq(S)
           /\ s # << >> => Shifted(s, Tail(s)) /\ Tail(s) \in Seq(S) /\ Head(s) = s[1]
BY DEF Appended, Shifted

\* The group of the messages before i, or of the list that is in, has d.
ListedAt(s, known, i, d) ==
    \/ \E g \in 1..i - 1 : /\ s[g].kind = "groups" /\ d \in s[g].content
                           /\ \A h \in g + 1..i - 1 : s[h].kind # "groups"
    \/ /\ \A h \in 1..i - 1 : s[h].kind # "groups"
       /\ known # None /\ d \in known

\* The devices are known before i.
NamedAt(s, known, i) == known = Lamps \/ \E h \in 1..i - 1 : s[h].kind = "devices"

\* The message at i brings what d holds, or has it forgotten.
Renews(s, known, i, d) ==
    \/ s[i].about = d /\ s[i].answers # None
    \/ s[i].kind = "action" /\ ListedAt(s, known, i, d)
Renewed(s, known, from, d) == \E j \in from..Len(s) : Renews(s, known, j, d)

\* A message at the end leaves the lists before it as they were.
LEMMA AppendLists ==
    ASSUME NEW s, NEW t, NEW m, Appended(s, t, m), NEW known, NEW d
    PROVE  /\ \A i \in 1..Len(s) + 1 : ListedAt(t, known, i, d) <=> ListedAt(s, known, i, d)
           /\ m.kind # "groups" =>
                (ListedAt(t, known, Len(t) + 1, d) <=> ListedAt(s, known, Len(s) + 1, d))
           /\ m.kind = "groups" => (ListedAt(t, known, Len(t) + 1, d) <=> d \in m.content)
<1> DEFINE n == Len(s)
<1>1. n \in Nat /\ Len(t) = n + 1 /\ t[n + 1] = m /\ \A i \in 1..n : t[i] = s[i]
  BY DEF Appended
<1>2. ASSUME NEW i \in 1..n + 1 PROVE ListedAt(t, known, i, d) <=> ListedAt(s, known, i, d)
  <2>1. \A h \in 1..i - 1 : h \in 1..n /\ t[h] = s[h]
    BY <1>1
  <2>2. \A g \in 1..i - 1 : \A h \in g + 1..i - 1 : h \in 1..i - 1
    BY <1>1
  <2>3. QED
    BY <2>1, <2>2 DEF ListedAt
<1>3. ASSUME m.kind # "groups"
      PROVE  ListedAt(t, known, n + 2, d) <=> ListedAt(s, known, n + 1, d)
  <2>1. 1..(n + 2) - 1 = (1..(n + 1) - 1) \cup {n + 1} /\ t[n + 1].kind # "groups"
    BY <1>1, <1>3
  <2>2. \A h \in 1..(n + 1) - 1 : t[h] = s[h] /\ h # n + 1
    BY <1>1
  <2>3. \A g \in 1..(n + 1) - 1 : g + 1..(n + 2) - 1 = (g + 1..(n + 1) - 1) \cup {n + 1}
    BY <1>1
  <2>4. \A g \in 1..(n + 1) - 1 : \A h \in g + 1..(n + 1) - 1 : t[h] = s[h]
    BY <1>1
  <2>5. ASSUME ListedAt(t, known, n + 2, d) PROVE ListedAt(s, known, n + 1, d)
    <3>1. CASE \E g \in 1..(n + 2) - 1 : /\ t[g].kind = "groups" /\ d \in t[g].content
                                         /\ \A h \in g + 1..(n + 2) - 1 : t[h].kind # "groups"
      <4>1. PICK g \in 1..(n + 2) - 1 : /\ t[g].kind = "groups" /\ d \in t[g].content
                                        /\ \A h \in g + 1..(n + 2) - 1 : t[h].kind # "groups"
        BY <3>1
      <4>2. g \in 1..(n + 1) - 1
        BY <2>1, <4>1
      <4>3. s[g].kind = "groups" /\ d \in s[g].content
            /\ \A h \in g + 1..(n + 1) - 1 : s[h].kind # "groups"
        BY <2>2, <2>3, <2>4, <4>1, <4>2
      <4>4. QED
        BY <4>2, <4>3 DEF ListedAt
    <3>2. CASE (\A h \in 1..(n + 2) - 1 : t[h].kind # "groups") /\ known # None /\ d \in known
      BY <2>1, <2>2, <3>2 DEF ListedAt
    <3>3. QED
      BY <2>5, <3>1, <3>2 DEF ListedAt
  <2>6. ASSUME ListedAt(s, known, n + 1, d) PROVE ListedAt(t, known, n + 2, d)
    <3>1. CASE \E g \in 1..(n + 1) - 1 : /\ s[g].kind = "groups" /\ d \in s[g].content
                                         /\ \A h \in g + 1..(n + 1) - 1 : s[h].kind # "groups"
      <4>1. PICK g \in 1..(n + 1) - 1 : /\ s[g].kind = "groups" /\ d \in s[g].content
                                        /\ \A h \in g + 1..(n + 1) - 1 : s[h].kind # "groups"
        BY <3>1
      <4>2. g \in 1..(n + 2) - 1
        BY <2>1
      <4>3. t[g].kind = "groups" /\ d \in t[g].content
            /\ \A h \in g + 1..(n + 2) - 1 : t[h].kind # "groups"
        BY <2>1, <2>2, <2>3, <2>4, <4>1
      <4>4. QED
        BY <4>2, <4>3 DEF ListedAt
    <3>2. CASE (\A h \in 1..(n + 1) - 1 : s[h].kind # "groups") /\ known # None /\ d \in known
      BY <2>1, <2>2, <3>2 DEF ListedAt
    <3>3. QED
      BY <2>6, <3>1, <3>2 DEF ListedAt
  <2>7. QED
    BY <2>5, <2>6
<1>4. ASSUME m.kind = "groups"
      PROVE  ListedAt(t, known, n + 2, d) <=> d \in m.content
  <2>1. n + 1 \in 1..(n + 2) - 1 /\ t[n + 1] = m
    BY <1>1
  <2>2. \A g \in 1..(n + 2) - 1 : g # n + 1 => n + 1 \in g + 1..(n + 2) - 1
    BY <1>1
  <2>3. \A h : ~(h \in (n + 1) + 1..(n + 2) - 1)
    BY <1>1
  <2>4. QED
    BY <1>4, <2>1, <2>2, <2>3 DEF ListedAt
<1>5. Len(t) + 1 = n + 2
  BY <1>1
<1>6. QED
  BY <1>2, <1>3, <1>4, <1>5

\* The head is taken away, and a list that it brought is in.
LEMMA ShiftLists ==
    ASSUME NEW s, NEW t, Shifted(s, t), NEW known, NEW then, NEW d,
           then = IF s[1].kind = "groups" THEN s[1].content ELSE known,
           s[1].kind = "groups" => s[1].content # None
    PROVE  \A i \in 1..Len(s) : ListedAt(t, then, i, d) <=> ListedAt(s, known, i + 1, d)
<1>1. SUFFICES ASSUME NEW i \in 1..Len(s)
               PROVE  ListedAt(t, then, i, d) <=> ListedAt(s, known, i + 1, d)
  OBVIOUS
<1>2. Len(s) \in Nat /\ Len(t) = Len(s) - 1 /\ \A h \in 1..Len(t) : t[h] = s[h + 1]
  BY DEF Shifted
<1>3. \A h \in 1..i - 1 : t[h] = s[h + 1] /\ h + 1 \in 1..(i + 1) - 1
  BY <1>2
<1>4. \A h \in 1..(i + 1) - 1 : h = 1 \/ (h - 1 \in 1..i - 1 /\ s[h] = t[h - 1])
  <2>1. ASSUME NEW h \in 1..(i + 1) - 1, h # 1
        PROVE  h - 1 \in 1..i - 1 /\ s[h] = t[h - 1]
    <3>1. h - 1 \in 1..Len(t) /\ (h - 1) + 1 = h /\ h - 1 \in 1..i - 1
      BY <1>2, <2>1
    <3>2. QED
      BY <1>2, <3>1
  <2>2. QED
    BY <2>1
<1>5. \A g \in 1..i - 1 : \A h \in (g + 1) + 1..(i + 1) - 1 :
        h - 1 \in g + 1..i - 1 /\ s[h] = t[h - 1]
  <2>1. ASSUME NEW g \in 1..i - 1, NEW h \in (g + 1) + 1..(i + 1) - 1
        PROVE  h - 1 \in g + 1..i - 1 /\ s[h] = t[h - 1]
    <3>1. h - 1 \in g + 1..i - 1 /\ h \in 1..(i + 1) - 1 /\ h # 1
      BY <1>2
    <3>2. QED
      BY <1>4, <3>1
  <2>2. QED
    BY <2>1
<1>6. \A g \in 1..i - 1 : \A h \in g + 1..i - 1 :
        h + 1 \in (g + 1) + 1..(i + 1) - 1 /\ t[h] = s[h + 1]
  <2>1. ASSUME NEW g \in 1..i - 1, NEW h \in g + 1..i - 1
        PROVE  h + 1 \in (g + 1) + 1..(i + 1) - 1 /\ t[h] = s[h + 1]
    <3>1. h \in 1..i - 1 /\ h + 1 \in (g + 1) + 1..(i + 1) - 1
      BY <1>2
    <3>2. QED
      BY <1>3, <3>1
  <2>2. QED
    BY <2>1
<1>7. ASSUME ListedAt(t, then, i, d) PROVE ListedAt(s, known, i + 1, d)
  <2>1. CASE \E g \in 1..i - 1 : /\ t[g].kind = "groups" /\ d \in t[g].content
                                 /\ \A h \in g + 1..i - 1 : t[h].kind # "groups"
    <3>1. PICK g \in 1..i - 1 : /\ t[g].kind = "groups" /\ d \in t[g].content
                                /\ \A h \in g + 1..i - 1 : t[h].kind # "groups"
      BY <2>1
    <3>2. s[g + 1].kind = "groups" /\ d \in s[g + 1].content /\ g + 1 \in 1..(i + 1) - 1
      BY <1>3, <3>1
    <3>3. \A h \in (g + 1) + 1..(i + 1) - 1 : s[h].kind # "groups"
      BY <1>5, <3>1
    <3>4. QED
      BY <3>2, <3>3 DEF ListedAt
  <2>2. CASE (\A h \in 1..i - 1 : t[h].kind # "groups") /\ then # None /\ d \in then
    <3>1. \A h \in 1..(i + 1) - 1 : h # 1 => s[h].kind # "groups"
      BY <1>4, <2>2
    <3>2. 1 \in 1..(i + 1) - 1 /\ \A h \in 1 + 1..(i + 1) - 1 : h \in 1..(i + 1) - 1 /\ h # 1
      BY <1>2
    <3>3. CASE s[1].kind = "groups"
      BY <2>2, <3>1, <3>2, <3>3 DEF ListedAt
    <3>4. CASE s[1].kind # "groups"
      BY <2>2, <3>1, <3>4 DEF ListedAt
    <3>5. QED
      BY <3>3, <3>4
  <2>3. QED
    BY <1>7, <2>1, <2>2 DEF ListedAt
<1>8. ASSUME ListedAt(s, known, i + 1, d) PROVE ListedAt(t, then, i, d)
  <2>1. CASE \E g \in 1..(i + 1) - 1 : /\ s[g].kind = "groups" /\ d \in s[g].content
                                       /\ \A h \in g + 1..(i + 1) - 1 : s[h].kind # "groups"
    <3>1. PICK g \in 1..(i + 1) - 1 : /\ s[g].kind = "groups" /\ d \in s[g].content
                                      /\ \A h \in g + 1..(i + 1) - 1 : s[h].kind # "groups"
      BY <2>1
    <3>2. CASE g = 1
      <4>1. \A h \in 1..i - 1 : h + 1 \in 1 + 1..(i + 1) - 1
        BY <1>2
      <4>2. \A h \in 1..i - 1 : t[h].kind # "groups"
        BY <1>3, <3>1, <3>2, <4>1
      <4>3. QED
        BY <3>1, <3>2, <4>2 DEF ListedAt
    <3>3. CASE g # 1
      <4>1. g - 1 \in 1..i - 1 /\ s[g] = t[g - 1] /\ (g - 1) + 1 = g
        BY <1>4, <3>3
      <4>2. \A h \in (g - 1) + 1..i - 1 : t[h].kind # "groups"
        BY <1>6, <3>1, <4>1
      <4>3. QED
        BY <3>1, <4>1, <4>2 DEF ListedAt
    <3>4. QED
      BY <3>2, <3>3
  <2>2. CASE (\A h \in 1..(i + 1) - 1 : s[h].kind # "groups") /\ known # None /\ d \in known
    <3>1. 1 \in 1..(i + 1) - 1
      BY <1>2
    <3>2. \A h \in 1..i - 1 : t[h].kind # "groups"
      BY <1>3, <2>2
    <3>3. QED
      BY <2>2, <3>1, <3>2 DEF ListedAt
  <2>3. QED
    BY <1>8, <2>1, <2>2 DEF ListedAt
<1>9. QED
  BY <1>7, <1>8

\* A message at the end may renew; those before it renew as they did.
LEMMA AppendRenews ==
    ASSUME NEW s, NEW t, NEW m, Appended(s, t, m), NEW known, NEW d
    PROVE  \A from \in 1..Len(s) + 1 :
             Renewed(t, known, from, d) <=>
               Renewed(s, known, from, d) \/ Renews(t, known, Len(t), d)
<1>1. SUFFICES ASSUME NEW from \in 1..Len(s) + 1
               PROVE  Renewed(t, known, from, d) <=>
                        Renewed(s, known, from, d) \/ Renews(t, known, Len(t), d)
  OBVIOUS
<1>2. Len(s) \in Nat /\ Len(t) = Len(s) + 1 /\ \A i \in 1..Len(s) : t[i] = s[i]
  BY DEF Appended
<1>3. \A j \in 1..Len(s) : Renews(t, known, j, d) <=> Renews(s, known, j, d)
  <2>1. \A j \in 1..Len(s) : j \in 1..Len(s) + 1
    BY <1>2
  <2>2. QED
    BY <1>2, <2>1, AppendLists DEF Renews
<1>4. \A j \in from..Len(t) : (j \in 1..Len(s) /\ j \in from..Len(s)) \/ j = Len(t)
  BY <1>2
<1>5. Len(t) \in from..Len(t) /\ \A j \in from..Len(s) : j \in from..Len(t) /\ j \in 1..Len(s)
  BY <1>2
<1>6. QED
  BY <1>3, <1>4, <1>5 DEF Renewed

\* What renews behind the head renews as it did.
LEMMA ShiftRenews ==
    ASSUME NEW s, NEW t, Shifted(s, t), NEW known, NEW then, NEW d,
           then = IF s[1].kind = "groups" THEN s[1].content ELSE known,
           s[1].kind = "groups" => s[1].content # None
    PROVE  \A from \in 1..Len(s) : Renewed(t, then, from, d) <=> Renewed(s, known, from + 1, d)
<1>1. SUFFICES ASSUME NEW from \in 1..Len(s)
               PROVE  Renewed(t, then, from, d) <=> Renewed(s, known, from + 1, d)
  OBVIOUS
<1>2. Len(s) \in Nat /\ Len(t) = Len(s) - 1 /\ \A h \in 1..Len(t) : t[h] = s[h + 1]
  BY DEF Shifted
<1>3. \A j \in 1..Len(t) : Renews(t, then, j, d) <=> Renews(s, known, j + 1, d)
  <2>1. \A j \in 1..Len(t) : j \in 1..Len(s)
    BY <1>2
  <2>2. \A j \in 1..Len(s) : ListedAt(t, then, j, d) <=> ListedAt(s, known, j + 1, d)
    BY ShiftLists
  <2>3. QED
    BY <1>2, <2>1, <2>2 DEF Renews
<1>4. \A j \in from..Len(t) : j \in 1..Len(t) /\ j + 1 \in from + 1..Len(s)
  BY <1>2
<1>5. \A j \in from + 1..Len(s) : j - 1 \in 1..Len(t) /\ j - 1 \in from..Len(t) /\ (j - 1) + 1 = j
  BY <1>2
<1>6. ASSUME Renewed(t, then, from, d) PROVE Renewed(s, known, from + 1, d)
  <2>1. PICK j \in from..Len(t) : Renews(t, then, j, d)
    BY <1>6 DEF Renewed
  <2>2. j + 1 \in from + 1..Len(s) /\ Renews(s, known, j + 1, d)
    BY <1>3, <1>4, <2>1
  <2>3. QED
    BY <2>2 DEF Renewed
<1>7. ASSUME Renewed(s, known, from + 1, d) PROVE Renewed(t, then, from, d)
  <2>1. PICK j \in from + 1..Len(s) : Renews(s, known, j, d)
    BY <1>7 DEF Renewed
  <2>2. j - 1 \in from..Len(t) /\ Renews(t, then, j - 1, d)
    BY <1>3, <1>5, <2>1
  <2>3. QED
    BY <2>2 DEF Renewed
<1>8. QED
  BY <1>6, <1>7

\* What the lists in s will make of the collector's: the group is the roster,
\* and every device is named, before an action is looked at.
Lists(s, known, names, group) ==
    /\ \A d \in Lamps : ListedAt(s, known, Len(s) + 1, d) <=> d \in group
    /\ NamedAt(s, names, Len(s) + 1)
    /\ \A i \in 1..Len(s) : s[i].kind = "action" => NamedAt(s, names, i)
    /\ known = None => \E h \in 1..Len(s) : s[h].kind = "groups"

\* What is known of d is what it holds, or something comes that renews it; and
\* so is what is said of it.
Current(s, known, d, had, holds) ==
    /\ \A k \in DOMAIN had : had[k] = holds[k] \/ Renewed(s, known, 1, d)
    /\ \A i \in 1..Len(s) : s[i].kind = "state" /\ s[i].about = d =>
         s[i].content = holds \/ Renewed(s, known, i + 1, d)

\* A message at the end: the lists.
LEMMA AppendKeepsLists ==
    ASSUME NEW s, NEW t, NEW m, Appended(s, t, m), NEW known, NEW names, NEW group, NEW later,
           Lists(s, known, names, group),
           later = IF m.kind = "groups" THEN m.content ELSE group
    PROVE  Lists(t, known, names, later)
<1>1. Len(s) \in Nat /\ Len(t) = Len(s) + 1 /\ t[Len(t)] = m /\ \A i \in 1..Len(s) : t[i] = s[i]
  BY DEF Appended
<1>2. ASSUME NEW d \in Lamps
      PROVE  ListedAt(t, known, Len(t) + 1, d) <=> d \in later
  BY AppendLists DEF Lists
<1>3. \A i \in 1..Len(s) + 1 : NamedAt(s, names, i) => NamedAt(t, names, i)
  <2>1. SUFFICES ASSUME NEW i \in 1..Len(s) + 1, NEW h \in 1..i - 1, s[h].kind = "devices"
                 PROVE  t[h].kind = "devices"
    BY DEF NamedAt
  <2>2. h \in 1..Len(s)
    BY <1>1
  <2>3. QED
    BY <1>1, <2>1, <2>2
<1>4. NamedAt(t, names, Len(s) + 1)
  BY <1>1, <1>3 DEF Lists
<1>5. NamedAt(t, names, Len(t) + 1)
  <2>1. \A h \in 1..(Len(s) + 1) - 1 : h \in 1..(Len(t) + 1) - 1
    BY <1>1
  <2>2. QED
    BY <1>4, <2>1 DEF NamedAt
<1>6. ASSUME NEW i \in 1..Len(t), t[i].kind = "action" PROVE NamedAt(t, names, i)
  <2>1. CASE i \in 1..Len(s)
    BY <1>1, <1>3, <1>6, <2>1 DEF Lists
  <2>2. CASE i = Len(s) + 1
    BY <1>4, <2>2
  <2>3. QED
    BY <1>1, <2>1, <2>2
<1>7. ASSUME known = None PROVE \E h \in 1..Len(t) : t[h].kind = "groups"
  <2>1. PICK h \in 1..Len(s) : s[h].kind = "groups"
    BY <1>7 DEF Lists
  <2>2. h \in 1..Len(t) /\ t[h] = s[h]
    BY <1>1
  <2>3. QED
    BY <2>1, <2>2
<1>8. QED
  BY <1>2, <1>5, <1>6, <1>7 DEF Lists

\* The head is taken in: the lists.
LEMMA ShiftKeepsLists ==
    ASSUME NEW s, NEW t, Shifted(s, t), NEW known, NEW names, NEW group, NEW then, NEW called,
           Lists(s, known, names, group),
           then = IF s[1].kind = "groups" THEN s[1].content ELSE known,
           s[1].kind = "groups" => s[1].content # None,
           called = IF s[1].kind = "devices" THEN Lamps ELSE names
    PROVE  Lists(t, then, called, group)
<1>1. Len(s) \in Nat /\ 1 <= Len(s) /\ Len(t) = Len(s) - 1 /\ \A h \in 1..Len(t) : t[h] = s[h + 1]
  BY DEF Shifted
<1>2. ASSUME NEW d \in Lamps
      PROVE  ListedAt(t, then, Len(t) + 1, d) <=> d \in group
  <2>1. Len(t) + 1 = Len(s) /\ Len(s) \in 1..Len(s)
    BY <1>1
  <2>2. ListedAt(t, then, Len(s), d) <=> ListedAt(s, known, Len(s) + 1, d)
    BY <2>1, ShiftLists
  <2>3. QED
    BY <2>1, <2>2 DEF Lists
<1>3. ASSUME NEW i \in 1..Len(s), NamedAt(s, names, i + 1) PROVE NamedAt(t, called, i)
  <2>1. CASE names = Lamps
    BY <2>1 DEF NamedAt
  <2>2. CASE \E h \in 1..(i + 1) - 1 : s[h].kind = "devices"
    <3>1. PICK h \in 1..(i + 1) - 1 : s[h].kind = "devices"
      BY <2>2
    <3>2. CASE h = 1
      BY <3>1, <3>2 DEF NamedAt
    <3>3. CASE h # 1
      <4>1. h - 1 \in 1..i - 1 /\ h - 1 \in 1..Len(t) /\ (h - 1) + 1 = h
        BY <1>1, <3>3
      <4>2. t[h - 1].kind = "devices"
        BY <1>1, <3>1, <4>1
      <4>3. QED
        BY <4>1, <4>2 DEF NamedAt
    <3>4. QED
      BY <3>2, <3>3
  <2>3. QED
    BY <1>3, <2>1, <2>2 DEF NamedAt
<1>4. NamedAt(t, called, Len(t) + 1)
  <2>1. Len(t) + 1 = Len(s) /\ Len(s) \in 1..Len(s)
    BY <1>1
  <2>2. QED
    BY <1>3, <2>1 DEF Lists
<1>5. ASSUME NEW i \in 1..Len(t), t[i].kind = "action" PROVE NamedAt(t, called, i)
  <2>1. i \in 1..Len(s) /\ i + 1 \in 1..Len(s) /\ s[i + 1].kind = "action"
    BY <1>1, <1>5
  <2>2. QED
    BY <1>3, <2>1 DEF Lists
<1>6. ASSUME then = None PROVE \E h \in 1..Len(t) : t[h].kind = "groups"
  <2>1. s[1].kind # "groups" /\ known = None
    BY <1>6
  <2>2. PICK h \in 1..Len(s) : s[h].kind = "groups"
    BY <2>1 DEF Lists
  <2>3. h - 1 \in 1..Len(t) /\ (h - 1) + 1 = h
    BY <1>1, <2>1, <2>2
  <2>4. QED
    BY <1>1, <2>2, <2>3
<1>7. QED
  BY <1>2, <1>4, <1>5, <1>6 DEF Lists

\* A message at the end: what is known of d.
LEMMA AppendKeepsCurrent ==
    ASSUME NEW s, NEW t, NEW m, Appended(s, t, m), NEW known, NEW d, NEW had, NEW holds,
           NEW later, Current(s, known, d, had, holds),
           later = holds \/ Renews(t, known, Len(t), d),
           m.kind = "state" /\ m.about = d => m.content = later
    PROVE  Current(t, known, d, had, later)
<1>1. Len(s) \in Nat /\ Len(t) = Len(s) + 1 /\ t[Len(t)] = m /\ \A i \in 1..Len(s) : t[i] = s[i]
  BY DEF Appended
<1>2. \A from \in 1..Len(s) + 1 :
        Renewed(t, known, from, d) <=> Renewed(s, known, from, d) \/ Renews(t, known, Len(t), d)
  BY AppendRenews
<1>3. ASSUME NEW k \in DOMAIN had
      PROVE  had[k] = later[k] \/ Renewed(t, known, 1, d)
  <2>1. 1 \in 1..Len(s) + 1
    BY <1>1
  <2>2. had[k] = holds[k] \/ Renewed(s, known, 1, d)
    BY DEF Current
  <2>3. QED
    BY <1>2, <2>1, <2>2
<1>4. ASSUME NEW i \in 1..Len(t), t[i].kind = "state", t[i].about = d
      PROVE  t[i].content = later \/ Renewed(t, known, i + 1, d)
  <2>1. CASE i \in 1..Len(s)
    <3>1. i + 1 \in 1..Len(s) + 1 /\ t[i] = s[i]
      BY <1>1, <2>1
    <3>2. s[i].content = holds \/ Renewed(s, known, i + 1, d)
      BY <1>4, <2>1, <3>1 DEF Current
    <3>3. QED
      BY <1>2, <3>1, <3>2
  <2>2. CASE i = Len(t)
    BY <1>1, <1>4, <2>2
  <2>3. QED
    BY <1>1, <2>1, <2>2
<1>5. QED
  BY <1>3, <1>4 DEF Current

\* The head is taken in: what is known of d is what the head says, or what was
\* known, if the head does not renew it.
LEMMA ShiftKeepsCurrent ==
    ASSUME NEW s, NEW t, Shifted(s, t), NEW known, NEW d, NEW had, NEW holds, NEW then, NEW has,
           Current(s, known, d, had, holds),
           then = IF s[1].kind = "groups" THEN s[1].content ELSE known,
           s[1].kind = "groups" => s[1].content # None,
           \A k \in DOMAIN has :
             \/ s[1].kind = "state" /\ s[1].about = d /\ has[k] = s[1].content[k]
             \/ k \in DOMAIN had /\ has[k] = had[k] /\ ~Renews(s, known, 1, d)
    PROVE  Current(t, then, d, has, holds)
<1>1. Len(s) \in Nat /\ 1 <= Len(s) /\ Len(t) = Len(s) - 1 /\ \A h \in 1..Len(t) : t[h] = s[h + 1]
  BY DEF Shifted
<1>2. \A from \in 1..Len(s) : Renewed(t, then, from, d) <=> Renewed(s, known, from + 1, d)
  BY ShiftRenews
<1>3. ASSUME NEW k \in DOMAIN has
      PROVE  has[k] = holds[k] \/ Renewed(t, then, 1, d)
  <2>1. 1 \in 1..Len(s) /\ 1 + 1 = 2 /\ \A j \in 1..Len(s) : j = 1 \/ j \in 2..Len(s)
    BY <1>1
  <2>2. Renewed(t, then, 1, d) <=> Renewed(s, known, 2, d)
    BY <1>2, <2>1
  <2>3. CASE s[1].kind = "state" /\ s[1].about = d /\ has[k] = s[1].content[k]
    <3>1. s[1].content = holds \/ Renewed(s, known, 1 + 1, d)
      BY <2>1, <2>3 DEF Current
    <3>2. QED
      BY <2>1, <2>2, <2>3, <3>1
  <2>4. CASE k \in DOMAIN had /\ has[k] = had[k] /\ ~Renews(s, known, 1, d)
    <3>1. had[k] = holds[k] \/ Renewed(s, known, 1, d)
      BY <2>4 DEF Current
    <3>2. Renewed(s, known, 1, d) => Renewed(s, known, 2, d)
      BY <2>1, <2>4 DEF Renewed
    <3>3. QED
      BY <2>2, <2>4, <3>1, <3>2
  <2>5. QED
    BY <2>3, <2>4
<1>4. ASSUME NEW i \in 1..Len(t), t[i].kind = "state", t[i].about = d
      PROVE  t[i].content = holds \/ Renewed(t, then, i + 1, d)
  <2>1. i + 1 \in 1..Len(s) /\ t[i] = s[i + 1]
    BY <1>1
  <2>2. s[i + 1].content = holds \/ Renewed(s, known, (i + 1) + 1, d)
    BY <1>4, <2>1 DEF Current
  <2>3. QED
    BY <1>2, <2>1, <2>2
<1>5. QED
  BY <1>3, <1>4 DEF Current

-----------------------------------------------------------------------------
(* Whether a command changed anything: what is in flight *)

\* A report that answers a command of key k to d.
Answers(m, d, k) == m.about = d /\ m.answers = k

\* A command of key k is in d's inbox, or its answer is on its way.
Awaited(box, s, d, k) ==
    \/ \E i \in 1..Len(box) : box[i].key = k
    \/ \E i \in 1..Len(s) : Answers(s[i], d, k)

\* The newest of these asked for v.
Newest(box, s, d, k, v) ==
    /\ \A i \in 1..Len(box) :
         box[i].key = k /\ (\A j \in i + 1..Len(box) : box[j].key # k) => box[i].value = v
    /\ (\A j \in 1..Len(box) : box[j].key # k) =>
         \A i \in 1..Len(s) :
           Answers(s[i], d, k) /\ (\A j \in i + 1..Len(s) : ~Answers(s[j], d, k)) =>
             s[i].content[k] = v

\* A command that is sent is the newest of its key.
LEMMA SendNewest ==
    ASSUME NEW box, NEW after, NEW c, Appended(box, after, c), NEW s, NEW d, NEW k
    PROVE  /\ k = c.key => Newest(after, s, d, k, c.value)
           /\ k # c.key => \A v : Newest(box, s, d, k, v) => Newest(after, s, d, k, v)
           /\ Awaited(after, s, d, k) => k = c.key \/ Awaited(box, s, d, k)
<1>1. /\ Len(box) \in Nat /\ Len(after) = Len(box) + 1 /\ after[Len(after)] = c
      /\ \A i \in 1..Len(box) : after[i] = box[i]
  BY DEF Appended
<1>2. \A i \in 1..Len(after) : i \in 1..Len(box) \/ i = Len(after)
  BY <1>1
<1>3. \A i \in 1..Len(box) : i \in 1..Len(after) /\ Len(after) \in i + 1..Len(after)
  BY <1>1
<1>4. Len(after) \in 1..Len(after)
  BY <1>1
<1>5. ASSUME k = c.key PROVE Newest(after, s, d, k, c.value)
  BY <1>1, <1>2, <1>3, <1>4, <1>5 DEF Newest
<1>6. ASSUME k # c.key, NEW v, Newest(box, s, d, k, v) PROVE Newest(after, s, d, k, v)
  <2>1. ASSUME NEW i \in 1..Len(after), after[i].key = k,
               \A j \in i + 1..Len(after) : after[j].key # k
        PROVE  after[i].value = v
    <3>1. i \in 1..Len(box) /\ after[i] = box[i]
      BY <1>1, <1>2, <1>6, <2>1
    <3>2. \A j \in i + 1..Len(box) : j \in 1..Len(box) /\ j \in i + 1..Len(after)
      BY <1>1
    <3>3. \A j \in i + 1..Len(box) : box[j].key # k
      BY <1>1, <2>1, <3>2
    <3>4. QED
      BY <1>6, <2>1, <3>1, <3>3 DEF Newest
  <2>2. (\A j \in 1..Len(after) : after[j].key # k) => \A j \in 1..Len(box) : box[j].key # k
    BY <1>1, <1>3
  <2>3. QED
    BY <1>6, <2>1, <2>2 DEF Newest
<1>7. Awaited(after, s, d, k) => k = c.key \/ Awaited(box, s, d, k)
  BY <1>1, <1>2 DEF Awaited
<1>8. QED
  BY <1>5, <1>6, <1>7

\* Something else is said.
LEMMA SayNewest ==
    ASSUME NEW box, NEW s, NEW t, NEW m, Appended(s, t, m), NEW d, NEW k, ~Answers(m, d, k)
    PROVE  /\ \A v : Newest(box, s, d, k, v) => Newest(box, t, d, k, v)
           /\ Awaited(box, t, d, k) => Awaited(box, s, d, k)
<1>1. /\ Len(s) \in Nat /\ Len(t) = Len(s) + 1 /\ t[Len(t)] = m
      /\ \A i \in 1..Len(s) : t[i] = s[i]
  BY DEF Appended
<1>2. \A i \in 1..Len(t) : i \in 1..Len(s) \/ i = Len(t)
  BY <1>1
<1>3. ASSUME NEW v, Newest(box, s, d, k, v) PROVE Newest(box, t, d, k, v)
  <2>1. ASSUME \A j \in 1..Len(box) : box[j].key # k,
               NEW i \in 1..Len(t), Answers(t[i], d, k),
               \A j \in i + 1..Len(t) : ~Answers(t[j], d, k)
        PROVE  t[i].content[k] = v
    <3>1. i \in 1..Len(s) /\ t[i] = s[i]
      BY <1>1, <1>2, <2>1
    <3>2. \A j \in i + 1..Len(s) : j \in 1..Len(s) /\ j \in i + 1..Len(t)
      BY <1>1
    <3>3. \A j \in i + 1..Len(s) : ~Answers(s[j], d, k)
      BY <1>1, <2>1, <3>2
    <3>4. QED
      BY <1>3, <2>1, <3>1, <3>3 DEF Newest
  <2>2. QED
    BY <1>3, <2>1 DEF Newest
<1>4. Awaited(box, t, d, k) => Awaited(box, s, d, k)
  BY <1>1, <1>2 DEF Awaited
<1>5. QED
  BY <1>3, <1>4

\* A command is carried out, and its answer is said.
LEMMA CarryNewest ==
    ASSUME NEW box, NEW after, Shifted(box, after), NEW s, NEW t, NEW m, Appended(s, t, m),
           NEW d, NEW k, m.about = d, m.answers = box[1].key,
           m.content[box[1].key] = box[1].value
    PROVE  /\ \A v : Newest(box, s, d, k, v) => Newest(after, t, d, k, v)
           /\ Awaited(after, t, d, k) => Awaited(box, s, d, k)
<1>1. /\ Len(s) \in Nat /\ Len(t) = Len(s) + 1 /\ t[Len(t)] = m
      /\ \A i \in 1..Len(s) : t[i] = s[i]
  BY DEF Appended
<1>2. /\ Len(box) \in Nat /\ 1 <= Len(box) /\ Len(after) = Len(box) - 1
      /\ \A i \in 1..Len(after) : after[i] = box[i + 1]
  BY DEF Shifted
<1>3. \A i \in 1..Len(t) : i \in 1..Len(s) \/ i = Len(t)
  BY <1>1
<1>4. \A i \in 1..Len(after) : i + 1 \in 1..Len(box)
  BY <1>2
<1>5. \A i \in 1..Len(box) : i = 1 \/ (i - 1 \in 1..Len(after) /\ after[i - 1] = box[i])
  <2>1. ASSUME NEW i \in 1..Len(box), i # 1
        PROVE  i - 1 \in 1..Len(after) /\ after[i - 1] = box[i]
    <3>1. i - 1 \in 1..Len(after) /\ (i - 1) + 1 = i
      BY <1>2, <2>1
    <3>2. QED
      BY <1>2, <3>1
  <2>2. QED
    BY <2>1
<1>6. ASSUME NEW v, Newest(box, s, d, k, v) PROVE Newest(after, t, d, k, v)
  <2>1. ASSUME NEW i \in 1..Len(after), after[i].key = k,
               \A j \in i + 1..Len(after) : after[j].key # k
        PROVE  after[i].value = v
    <3>1. i + 1 \in 1..Len(box) /\ after[i] = box[i + 1]
      BY <1>2, <1>4
    <3>2. \A j \in (i + 1) + 1..Len(box) : j \in 1..Len(box) /\ j # 1 /\ j - 1 \in i + 1..Len(after)
      BY <1>2
    <3>3. \A j \in (i + 1) + 1..Len(box) : box[j].key # k
      BY <1>5, <2>1, <3>2
    <3>4. QED
      BY <1>6, <2>1, <3>1, <3>3 DEF Newest
  <2>2. ASSUME \A j \in 1..Len(after) : after[j].key # k,
               NEW i \in 1..Len(t), Answers(t[i], d, k),
               \A j \in i + 1..Len(t) : ~Answers(t[j], d, k)
        PROVE  t[i].content[k] = v
    <3>1. \A j \in 1..Len(box) : j # 1 => box[j].key # k
      BY <1>5, <2>2
    <3>2. CASE box[1].key = k
      <4>1. 1 \in 1..Len(box) /\ \A j \in 1 + 1..Len(box) : j \in 1..Len(box) /\ j # 1
        BY <1>2
      <4>2. box[1].value = v
        BY <1>6, <3>1, <3>2, <4>1 DEF Newest
      <4>3. i = Len(t)
        <5>1. Answers(t[Len(t)], d, k)
          BY <1>1, <3>2 DEF Answers
        <5>2. i \in 1..Len(s) => Len(t) \in i + 1..Len(t)
          BY <1>1
        <5>3. QED
          BY <1>3, <2>2, <5>1, <5>2
      <4>4. QED
        BY <1>1, <3>2, <4>2, <4>3
    <3>3. CASE box[1].key # k
      <4>1. ~Answers(t[Len(t)], d, k)
        BY <1>1, <3>3 DEF Answers
      <4>2. i \in 1..Len(s) /\ t[i] = s[i]
        BY <1>1, <1>3, <2>2, <4>1
      <4>3. \A j \in i + 1..Len(s) : j \in 1..Len(s) /\ j \in i + 1..Len(t)
        BY <1>1
      <4>4. \A j \in i + 1..Len(s) : ~Answers(s[j], d, k)
        BY <1>1, <2>2, <4>3
      <4>5. \A j \in 1..Len(box) : box[j].key # k
        BY <3>1, <3>3
      <4>6. QED
        BY <1>6, <2>2, <4>2, <4>4, <4>5 DEF Newest
    <3>4. QED
      BY <3>2, <3>3
  <2>3. QED
    BY <2>1, <2>2 DEF Newest
<1>7. ASSUME Awaited(after, t, d, k) PROVE Awaited(box, s, d, k)
  <2>1. CASE \E i \in 1..Len(after) : after[i].key = k
    BY <1>2, <1>4, <2>1 DEF Awaited
  <2>2. CASE \E i \in 1..Len(t) : Answers(t[i], d, k)
    <3>1. PICK i \in 1..Len(t) : Answers(t[i], d, k)
      BY <2>2
    <3>2. CASE i \in 1..Len(s)
      BY <1>1, <3>1, <3>2 DEF Awaited
    <3>3. CASE i = Len(t)
      <4>1. box[1].key = k /\ 1 \in 1..Len(box)
        BY <1>1, <1>2, <3>1, <3>3 DEF Answers
      <4>2. QED
        BY <4>1 DEF Awaited
    <3>4. QED
      BY <1>3, <3>2, <3>3
  <2>3. QED
    BY <1>7, <2>1, <2>2 DEF Awaited
<1>8. QED
  BY <1>6, <1>7

\* The head is heard.
LEMMA HearNewest ==
    ASSUME NEW box, NEW s, NEW t, Shifted(s, t), NEW d, NEW k
    PROVE  /\ \A v : Newest(box, s, d, k, v) => Newest(box, t, d, k, v)
           /\ Awaited(box, t, d, k) => Awaited(box, s, d, k)
<1>1. /\ Len(s) \in Nat /\ 1 <= Len(s) /\ Len(t) = Len(s) - 1
      /\ \A i \in 1..Len(t) : t[i] = s[i + 1]
  BY DEF Shifted
<1>2. \A i \in 1..Len(t) : i + 1 \in 1..Len(s)
  BY <1>1
<1>3. ASSUME NEW v, Newest(box, s, d, k, v) PROVE Newest(box, t, d, k, v)
  <2>1. ASSUME \A j \in 1..Len(box) : box[j].key # k,
               NEW i \in 1..Len(t), Answers(t[i], d, k),
               \A j \in i + 1..Len(t) : ~Answers(t[j], d, k)
        PROVE  t[i].content[k] = v
    <3>1. i + 1 \in 1..Len(s) /\ t[i] = s[i + 1]
      BY <1>1, <1>2
    <3>2. ASSUME NEW j \in (i + 1) + 1..Len(s) PROVE ~Answers(s[j], d, k)
      <4>1. j - 1 \in i + 1..Len(t) /\ j - 1 \in 1..Len(t) /\ (j - 1) + 1 = j
        BY <1>1
      <4>2. QED
        BY <1>1, <2>1, <4>1
    <3>3. QED
      BY <1>3, <2>1, <3>1, <3>2 DEF Newest
  <2>2. QED
    BY <1>3, <2>1 DEF Newest
<1>4. Awaited(box, t, d, k) => Awaited(box, s, d, k)
  BY <1>1, <1>2 DEF Awaited
<1>5. QED
  BY <1>3, <1>4

-----------------------------------------------------------------------------
(* Whether a command changed anything: the invariant *)

\* The keys that a table t of tracked names has for n.
Keeps(t, n) == IF n \in DOMAIN t THEN t[n] ELSE {}

\* The table is full for n and k: the key will not be tracked any more.
Never(t, n, k) ==
    IF n \in DOMAIN t THEN k \notin t[n] /\ MAX_TRACKED_KEYS <= Cardinality(t[n])
    ELSE MAX_TRACKED_DEVICES <= Cardinality(DOMAIN t)

\* What a table of tracked names is.
Table(t) ==
    /\ DOMAIN t \in SUBSET Noops!Names /\ t \in [DOMAIN t -> SUBSET Noops!Keys]
    /\ Cardinality(DOMAIN t) <= MAX_TRACKED_DEVICES
    /\ \A n \in DOMAIN t : Cardinality(t[n]) <= MAX_TRACKED_KEYS

\* What is reported and what is in flight are kept for tracked names and keys.
Kept(t, had, flight) ==
    /\ DOMAIN had = Noops!Names /\ DOMAIN flight = Noops!Names
    /\ \A n \in Noops!Names : DOMAIN had[n] \subseteq Keeps(t, n) /\ DOMAIN flight[n] \subseteq Keeps(t, n)

\* The types of the mesh and of what the collector has heard.
NoopTypes ==
    /\ actual \in [Lamps -> [Noops!Keys -> Held]]
    /\ inbox \in [Lamps -> Seq(Asks)]
    /\ roster \in SUBSET Lamps
    /\ spoken \in Seq(Sayings) /\ \A i \in 1..Len(spoken) : WellSaid(spoken[i])
    /\ named \in SUBSET Lamps /\ members \in (SUBSET Lamps) \cup {None}
    /\ unseen \in SUBSET Lamps

\* A command that is awaited from d is in flight, unless its key cannot be.
InTheAir(box, s, d, k, flight, t) ==
    Awaited(box, s, d, k) =>
      \/ Never(t, d, k)
      \/ k \in DOMAIN flight /\ Newest(box, s, d, k, flight[k])

\* The invariant of the verdicts: what is known of a lamp is what it holds, or
\* what will renew it is on its way, and the newest command of each key is held
\* as in flight for every lamp that is not marked.
NoopInv ==
    /\ NoopTypes /\ Table(tracked) /\ Kept(tracked, values, inflight)
    /\ Lists(spoken, members, named, roster)
    /\ \A d \in Lamps : Current(spoken, members, d, values[d], actual[d])
    /\ \A d \in Lamps, k \in Noops!ColorKeys :
         d \notin unseen => InTheAir(inbox[d], spoken, d, k, inflight[d], tracked)
    /\ asked.verdict \in {None, "noop", "changing", "unknown"} /\ Noops!NoopIsTrue

\* Finite sets of names and of keys.
LEMMA FiniteNames ==
    /\ IsFiniteSet(Noops!Names) /\ IsFiniteSet(Noops!Keys)
    /\ \A S \in SUBSET Noops!Names : IsFiniteSet(S) /\ Cardinality(S) \in Nat
    /\ \A S \in SUBSET Noops!Keys : IsFiniteSet(S) /\ Cardinality(S) \in Nat
<1>1. IsFiniteSet(Noops!Names)
  BY NoopConstants, FS_AddElement
<1>2. IsFiniteSet(Noops!Keys)
  <2>1. Noops!Keys = (({} \cup {"color_temp"}) \cup {"color"}) \cup {"color_mode"}
    BY NoopConstants
  <2>2. QED
    BY <2>1, FS_EmptySet, FS_AddElement
<1>3. QED
  BY <1>1, <1>2, FS_Subset, FS_CardinalityType

\* What is tracked of one name: no less than before, the key if there is room.
LEMMA KeysTracked ==
    ASSUME Table(tracked), NEW n, NEW k \in Noops!ColorKeys
    PROVE  /\ Keeps(tracked, n) \subseteq Noops!TrackedKeys(n, k)
           /\ Noops!TrackedKeys(n, k) \in SUBSET Noops!Keys
           /\ Cardinality(Noops!TrackedKeys(n, k)) <= MAX_TRACKED_KEYS
           /\ \/ k \in Noops!TrackedKeys(n, k)
              \/ MAX_TRACKED_KEYS <= Cardinality(Keeps(tracked, n))
           /\ MAX_TRACKED_KEYS <= Cardinality(Keeps(tracked, n)) =>
                Noops!TrackedKeys(n, k) = Keeps(tracked, n)
<1> DEFINE had == Keeps(tracked, n)
           own == IF Cardinality(had) < MAX_TRACKED_KEYS THEN had \cup {k} ELSE had
           all == IF own \cap Noops!ColorKeys # {} /\ Cardinality(own) < MAX_TRACKED_KEYS
                  THEN own \cup {"color_mode"} ELSE own
<1>1. Noops!TrackedKeys(n, k) = all
  BY NoopConstants DEF Noops!TrackedKeys, Keeps
<1>2. had \in SUBSET Noops!Keys /\ Cardinality(had) <= MAX_TRACKED_KEYS
  BY FS_EmptySet, NoopConstants DEF Table, Keeps
<1>3. k \in Noops!Keys /\ "color_mode" \in Noops!Keys /\ MAX_TRACKED_KEYS \in Nat
  BY NoopConstants
<1> HIDE DEF had
<1>4. own \in SUBSET Noops!Keys /\ had \subseteq own
  BY <1>2, <1>3
<1>5. Cardinality(own) <= MAX_TRACKED_KEYS
  <2>1. IsFiniteSet(had) /\ Cardinality(had) \in Nat
    BY <1>2, FiniteNames
  <2>2. Cardinality(had \cup {k}) = Cardinality(had) \/ Cardinality(had \cup {k}) = Cardinality(had) + 1
    BY <2>1, FS_AddElement
  <2>3. QED
    BY <1>2, <1>3, <2>1, <2>2
<1>6. k \in own \/ MAX_TRACKED_KEYS <= Cardinality(had)
  BY <1>2, <1>3, FiniteNames
<1>7. MAX_TRACKED_KEYS <= Cardinality(had) => own = had
  BY <1>2, <1>3, FiniteNames
<1> HIDE DEF own
<1>8. all \in SUBSET Noops!Keys /\ own \subseteq all
  BY <1>3, <1>4
<1>9. Cardinality(all) <= MAX_TRACKED_KEYS
  <2>1. IsFiniteSet(own) /\ Cardinality(own) \in Nat
    BY <1>4, FiniteNames
  <2>2. \/ Cardinality(own \cup {"color_mode"}) = Cardinality(own)
        \/ Cardinality(own \cup {"color_mode"}) = Cardinality(own) + 1
    BY <2>1, FS_AddElement
  <2>3. QED
    BY <1>3, <1>5, <2>1, <2>2
<1>10. MAX_TRACKED_KEYS <= Cardinality(had) => all = had
  <2>1. SUFFICES ASSUME MAX_TRACKED_KEYS <= Cardinality(had) PROVE all = had
    OBVIOUS
  <2>2. own = had /\ Cardinality(own) \in Nat
    BY <1>4, <1>7, <2>1, FiniteNames
  <2>3. QED
    BY <1>3, <2>1, <2>2
<1> HIDE DEF all
<1>11. QED
  BY <1>1, <1>4, <1>6, <1>8, <1>9, <1>10 DEF had

\* Names that are tracked: no key is lost, the key commanded is tracked or never
\* will be, and what never will be stays so.
LEMMA NamesTracked ==
    ASSUME Table(tracked), NEW who \in SUBSET Noops!Names, NEW k \in Noops!ColorKeys,
           Noops!Track(who, k)
    PROVE  /\ Table(tracked')
           /\ \A n \in Noops!Names : Keeps(tracked, n) \subseteq Keeps(tracked', n)
           /\ \A n \in who : (n \in DOMAIN tracked' /\ k \in tracked'[n]) \/ Never(tracked', n, k)
           /\ \A n \in Noops!Names, q \in Noops!ColorKeys :
                Never(tracked, n, q) => Never(tracked', n, q)
<1> DEFINE fresh == who \ DOMAIN tracked
<1>1. PICK new \in SUBSET fresh :
        /\ Cardinality(DOMAIN tracked \cup new) <= MAX_TRACKED_DEVICES
        /\ new = fresh \/ Cardinality(DOMAIN tracked \cup new) = MAX_TRACKED_DEVICES
        /\ tracked' = [n \in DOMAIN tracked \cup new |->
                         IF n \in who THEN Noops!TrackedKeys(n, k) ELSE tracked[n]]
  BY NoopConstants DEF Noops!Track
<1> DEFINE all == DOMAIN tracked \cup new
<1>2. /\ DOMAIN tracked' = all /\ all \in SUBSET Noops!Names
      /\ \A n \in all : tracked'[n] = IF n \in who THEN Noops!TrackedKeys(n, k) ELSE tracked[n]
  BY <1>1 DEF Table
<1>3. \A n : /\ Keeps(tracked, n) \subseteq Noops!TrackedKeys(n, k)
             /\ Noops!TrackedKeys(n, k) \in SUBSET Noops!Keys
             /\ Cardinality(Noops!TrackedKeys(n, k)) <= MAX_TRACKED_KEYS
             /\ \/ k \in Noops!TrackedKeys(n, k)
                \/ MAX_TRACKED_KEYS <= Cardinality(Keeps(tracked, n))
             /\ MAX_TRACKED_KEYS <= Cardinality(Keeps(tracked, n)) =>
                  Noops!TrackedKeys(n, k) = Keeps(tracked, n)
  BY KeysTracked
<1>4. DOMAIN tracked \in SUBSET Noops!Names /\ Cardinality(DOMAIN tracked) \in Nat
      /\ MAX_TRACKED_DEVICES \in Nat /\ IsFiniteSet(DOMAIN tracked)
  BY FiniteNames, NoopConstants DEF Table
<1>5. Cardinality(all) \in Nat /\ Cardinality(DOMAIN tracked) <= Cardinality(all)
  BY <1>2, FiniteNames, FS_Subset
<1>6. ASSUME NEW n \in new PROVE Cardinality(DOMAIN tracked) + 1 <= Cardinality(all)
  <2>1. n \notin DOMAIN tracked /\ DOMAIN tracked \cup {n} \subseteq all
    BY <1>1, <1>6
  <2>2. Cardinality(DOMAIN tracked \cup {n}) = Cardinality(DOMAIN tracked) + 1
    BY <1>4, <2>1, FS_AddElement
  <2>3. Cardinality(DOMAIN tracked \cup {n}) <= Cardinality(all)
    BY <1>2, <2>1, FiniteNames, FS_Subset
  <2>4. QED
    BY <2>2, <2>3
<1>7. \A n \in DOMAIN tracked : Keeps(tracked, n) = tracked[n] /\ tracked[n] \in SUBSET Noops!Keys
                                /\ Cardinality(tracked[n]) <= MAX_TRACKED_KEYS
  BY DEF Table, Keeps
<1>8. \A n \in all : n \notin who => n \in DOMAIN tracked
  BY <1>1
<1>9. Table(tracked')
  <2>1. \A n \in all : tracked'[n] \in SUBSET Noops!Keys /\ Cardinality(tracked'[n]) <= MAX_TRACKED_KEYS
    BY <1>2, <1>3, <1>7, <1>8
  <2>2. tracked' \in [DOMAIN tracked' -> SUBSET Noops!Keys]
    BY <1>1, <1>2, <2>1
  <2>3. QED
    BY <1>1, <1>2, <2>1, <2>2 DEF Table
<1>10. ASSUME NEW n \in Noops!Names PROVE Keeps(tracked, n) \subseteq Keeps(tracked', n)
  <2>1. CASE n \in DOMAIN tracked
    BY <1>2, <1>3, <1>7, <2>1 DEF Keeps
  <2>2. CASE n \notin DOMAIN tracked
    BY <2>2 DEF Keeps
  <2>3. QED
    BY <2>1, <2>2
<1>11. ASSUME NEW n \in who
       PROVE  (n \in DOMAIN tracked' /\ k \in tracked'[n]) \/ Never(tracked', n, k)
  <2>1. CASE n \in all
    <3>1. tracked'[n] = Noops!TrackedKeys(n, k) /\ n \in DOMAIN tracked'
      BY <1>2, <2>1
    <3>2. k \in tracked'[n] \/ MAX_TRACKED_KEYS <= Cardinality(tracked'[n])
      BY <1>3, <3>1
    <3>3. QED
      BY <3>1, <3>2 DEF Never
  <2>2. CASE n \notin all
    <3>1. n \in fresh /\ n \notin new
      BY <2>2
    <3>2. Cardinality(all) = MAX_TRACKED_DEVICES
      BY <1>1, <3>1
    <3>3. QED
      BY <1>2, <1>4, <2>2, <3>2 DEF Never
  <2>3. QED
    BY <2>1, <2>2
<1>12. ASSUME NEW n \in Noops!Names, NEW q \in Noops!ColorKeys, Never(tracked, n, q)
       PROVE  Never(tracked', n, q)
  <2>1. CASE n \in DOMAIN tracked
    <3>1. q \notin tracked[n] /\ MAX_TRACKED_KEYS <= Cardinality(tracked[n])
      BY <1>12, <2>1 DEF Never
    <3>2. tracked'[n] = tracked[n] /\ n \in DOMAIN tracked'
      BY <1>2, <1>3, <1>7, <2>1, <3>1
    <3>3. QED
      BY <3>1, <3>2 DEF Never
  <2>2. CASE n \notin DOMAIN tracked
    <3>1. MAX_TRACKED_DEVICES <= Cardinality(DOMAIN tracked)
      BY <1>12, <2>2 DEF Never
    <3>2. n \notin new
      <4>1. SUFFICES ASSUME n \in new PROVE FALSE
        OBVIOUS
      <4>2. Cardinality(DOMAIN tracked) + 1 <= Cardinality(all)
        BY <1>6, <4>1
      <4>3. Cardinality(all) <= MAX_TRACKED_DEVICES
        BY <1>1
      <4> HIDE DEF all
      <4>4. QED
        BY <1>4, <1>5, <3>1, <4>2, <4>3
    <3>3. n \notin DOMAIN tracked' /\ MAX_TRACKED_DEVICES <= Cardinality(DOMAIN tracked')
      BY <1>2, <1>4, <1>5, <2>2, <3>1, <3>2
    <3>4. QED
      BY <3>3 DEF Never
  <2>3. QED
    BY <2>1, <2>2
<1>13. QED
  BY <1>9, <1>10, <1>11, <1>12

-----------------------------------------------------------------------------
(* Whether a command changed anything: the steps *)

\* The keys that are awaited from a lamp.
AwaitedKeys(box, s, d) ==
    {box[i].key : i \in DOMAIN box} \cup
    {s[i].answers : i \in {j \in DOMAIN s : s[j].about = d /\ s[j].answers # None}}

\* They are those of the commands in the inbox and of the answers on their way.
LEMMA AwaitedIs ==
    ASSUME NEW box \in Seq(Asks), NEW s \in Seq(Sayings), NEW d
    PROVE  AwaitedKeys(box, s, d) = {k \in Noops!ColorKeys : Awaited(box, s, d, k)}
<1>1. DOMAIN box = 1..Len(box) /\ DOMAIN s = 1..Len(s)
  OBVIOUS
<1>2. ASSUME NEW i \in 1..Len(box) PROVE box[i].key \in Noops!ColorKeys
  <2>1. box[i] \in Asks
    OBVIOUS
  <2>2. QED
    BY <2>1 DEF Asks
<1>3. ASSUME NEW i \in 1..Len(s) PROVE s[i].answers \in Noops!ColorKeys \cup {None}
  <2>1. s[i] \in Sayings
    OBVIOUS
  <2>2. QED
    BY <2>1 DEF Sayings
<1>4. ASSUME NEW k \in AwaitedKeys(box, s, d)
      PROVE  k \in Noops!ColorKeys /\ Awaited(box, s, d, k)
  BY <1>1, <1>2, <1>3, <1>4 DEF AwaitedKeys, Awaited, Answers
<1>5. ASSUME NEW k \in Noops!ColorKeys, Awaited(box, s, d, k)
      PROVE  k \in AwaitedKeys(box, s, d)
  <2>1. CASE \E i \in 1..Len(box) : box[i].key = k
    BY <1>1, <2>1 DEF AwaitedKeys
  <2>2. CASE \E i \in 1..Len(s) : Answers(s[i], d, k)
    <3>1. PICK i \in 1..Len(s) : Answers(s[i], d, k)
      BY <2>2
    <3>2. s[i].about = d /\ s[i].answers = k /\ k # None
      BY <3>1, NoopConstants DEF Answers
    <3>3. QED
      BY <1>1, <3>2 DEF AwaitedKeys
  <2>3. QED
    BY <1>5, <2>1, <2>2 DEF Awaited
<1>6. QED
  BY <1>4, <1>5

\* The ghost's keys are those awaited.
LEMMA UnheardIs ==
    ASSUME NoopTypes
    PROVE  \A d \in Lamps : Noops!Unheard(d) = {k \in Noops!ColorKeys : Awaited(inbox[d], spoken, d, k)}
<1>1. \A d \in Lamps : inbox[d] \in Seq(Asks) /\ spoken \in Seq(Sayings)
  BY DEF NoopTypes
<1>2. \A d : Noops!Unheard(d) = AwaitedKeys(inbox[d], spoken, d)
  BY DEF Noops!Unheard, AwaitedKeys
<1>3. QED
  BY <1>1, <1>2, AwaitedIs

\* The keys of a state are keys.
LEMMA StatesAssign ==
    /\ \A f \in [Noops!Keys -> Held] : f \in Assignments /\ f \in (SUBSET Lamps) \cup Assignments
    /\ \A c \in Asks : [k \in {c.key, "color_mode"} |-> IF k = c.key THEN c.value ELSE c.key]
                         \in Assignments
<1>1. [Noops!Keys -> Held] \subseteq Assignments
  BY DEF Assignments
<1>2. ASSUME NEW c \in Asks
      PROVE  [k \in {c.key, "color_mode"} |-> IF k = c.key THEN c.value ELSE c.key] \in Assignments
  <2>1. {c.key, "color_mode"} \in SUBSET Noops!Keys /\ c.key \in Held /\ c.value \in Held
    BY NoopConstants DEF Asks, Held
  <2>2. [k \in {c.key, "color_mode"} |-> IF k = c.key THEN c.value ELSE c.key]
          \in [{c.key, "color_mode"} -> Held]
    BY <2>1
  <2>3. QED
    BY <2>1, <2>2 DEF Assignments
<1>3. QED
  BY <1>1, <1>2

\* A command carried out.
LEMMA CarriedIs ==
    ASSUME NEW f \in [Noops!Keys -> Held], NEW c \in Asks
    PROVE  /\ Noops!Carried(f, c) \in [Noops!Keys -> Held]
           /\ Noops!Carried(f, c)[c.key] = c.value
           /\ Noops!Carried(f, c)["color_mode"] = c.key
<1>1. c.key \in Noops!Keys /\ "color_mode" \in Noops!Keys /\ c.key # "color_mode"
      /\ c.key \in Held /\ c.value \in Held
  BY NoopConstants DEF Asks, Held
<1>2. QED
  BY <1>1 DEF Noops!Carried

\* A message at the end is one of those that are said.
LEMMA SaidTypes ==
    ASSUME NoopTypes, NEW m \in Sayings, WellSaid(m), spoken' = Append(spoken, m)
    PROVE  /\ spoken' \in Seq(Sayings) /\ \A i \in 1..Len(spoken') : WellSaid(spoken'[i])
           /\ Appended(spoken, spoken', m)
<1>1. spoken \in Seq(Sayings) /\ \A i \in 1..Len(spoken) : WellSaid(spoken[i])
  BY DEF NoopTypes
<1>2. Appended(spoken, spoken', m) /\ spoken' \in Seq(Sayings)
  BY <1>1, Positions
<1>3. ASSUME NEW i \in 1..Len(spoken') PROVE WellSaid(spoken'[i])
  BY <1>1, <1>2 DEF Appended
<1>4. QED
  BY <1>2, <1>3

\* Something is said that answers no command, of a mesh that may have been
\* moved by hand, while what the collector has stays as it is.
LEMMA SaidStep ==
    ASSUME NoopInv, NEW m \in Sayings, WellSaid(m), spoken' = Append(spoken, m), m.answers = None,
           actual' \in [Lamps -> [Noops!Keys -> Held]],
           \A d \in Lamps :
             /\ actual'[d] = actual[d] \/ (m.kind = "action" /\ d \in roster)
             /\ (m.kind = "state" /\ m.about = d) => m.content = actual'[d],
           roster' = IF m.kind = "groups" THEN m.content ELSE roster,
           UNCHANGED <<inbox, named, members, tracked, values, inflight, asked, unseen>>
    PROVE  NoopInv'
<1>1. /\ spoken' \in Seq(Sayings) /\ \A i \in 1..Len(spoken') : WellSaid(spoken'[i])
      /\ Appended(spoken, spoken', m)
  BY SaidTypes DEF NoopInv
<1>2. NoopTypes'
  <2>1. roster' \in SUBSET Lamps
    BY DEF NoopInv, NoopTypes, WellSaid
  <2>2. QED
    BY <1>1, <2>1 DEF NoopInv, NoopTypes
<1>3. Lists(spoken', members, named, roster')
  BY <1>1, AppendKeepsLists DEF NoopInv
<1>4. ASSUME NEW d \in Lamps
      PROVE  Current(spoken', members, d, values[d], actual'[d])
  <2>1. Current(spoken, members, d, values[d], actual[d])
    BY DEF NoopInv
  <2>2. m.kind = "action" /\ d \in roster => Renews(spoken', members, Len(spoken'), d)
    <3>1. SUFFICES ASSUME m.kind = "action", d \in roster
                   PROVE  Renews(spoken', members, Len(spoken'), d)
      OBVIOUS
    <3>2. ListedAt(spoken, members, Len(spoken) + 1, d)
      BY <3>1 DEF NoopInv, Lists
    <3>3. Len(spoken') = Len(spoken) + 1 /\ Len(spoken) + 1 \in 1..Len(spoken) + 1
          /\ spoken'[Len(spoken')] = m
      BY <1>1 DEF Appended
    <3>4. ListedAt(spoken', members, Len(spoken) + 1, d)
      BY <1>1, <3>2, <3>3, AppendLists
    <3>5. QED
      BY <3>1, <3>3, <3>4 DEF Renews
  <2>3. actual'[d] = actual[d] \/ Renews(spoken', members, Len(spoken'), d)
    BY <2>2
  <2>4. m.kind = "state" /\ m.about = d => m.content = actual'[d]
    OBVIOUS
  <2> DEFINE later == actual'[d]
  <2> HIDE DEF later
  <2>5. Current(spoken', members, d, values[d], later)
    BY <1>1, <2>1, <2>3, <2>4, AppendKeepsCurrent DEF later
  <2>6. QED
    BY <2>5 DEF later
<1>5. ASSUME NEW d \in Lamps, NEW k \in Noops!ColorKeys, d \notin unseen
      PROVE  InTheAir(inbox[d], spoken', d, k, inflight[d], tracked)
  <2>1. ~Answers(m, d, k)
    BY NoopConstants DEF Answers
  <2>2. InTheAir(inbox[d], spoken, d, k, inflight[d], tracked)
    BY <1>5 DEF NoopInv
  <2>3. QED
    BY <1>1, <2>1, <2>2, SayNewest DEF InTheAir
<1>6. Noops!NoopIsTrue'
  BY DEF NoopInv, Noops!NoopIsTrue
<1>7. QED
  BY <1>2, <1>3, <1>4, <1>5, <1>6 DEF NoopInv

\* A report that was not asked for, a press and a regrouping.
LEMMA ReportStep ==
    ASSUME NoopInv, NEW d \in Lamps, Noops!Report(d)
    PROVE  NoopInv'
<1> DEFINE m == Noops!Message("state", d, actual[d], None)
<1>1. actual[d] \in [Noops!Keys -> Held]
  BY DEF NoopInv, NoopTypes
<1>2. m.kind = "state" /\ m.about = d /\ m.content = actual[d] /\ m.answers = None
  BY DEF Noops!Message
<1>3. m \in Sayings
  BY <1>1, StatesAssign, NoopConstants DEF Noops!Message, Sayings
<1>4. WellSaid(m)
  BY <1>1, <1>2, StatesAssign DEF WellSaid
<1>5. /\ spoken' = Append(spoken, m) /\ roster' = roster /\ actual' = actual
      /\ UNCHANGED <<inbox, named, members, tracked, values, inflight, asked, unseen>>
  BY DEF Noops!Report, Noops!mesh, Noops!echoes
<1>6. actual' \in [Lamps -> [Noops!Keys -> Held]]
  BY <1>5 DEF NoopInv, NoopTypes
<1>7. \A e \in Lamps : /\ actual'[e] = actual[e]
                       /\ m.kind = "state" /\ m.about = e => m.content = actual'[e]
  BY <1>2, <1>5
<1> HIDE DEF m
<1>8. QED
  BY <1>2, <1>3, <1>4, <1>5, <1>6, <1>7, SaidStep

\* A press moves the lamps of the group.
LEMMA PressStep ==
    ASSUME NoopInv, NEW c \in Settings, Noops!Press(c)
    PROVE  NoopInv'
<1> DEFINE m == Noops!Message("action", Group, {}, None)
<1>1. m.kind = "action" /\ m.answers = None
  BY DEF Noops!Message
<1>2. m \in Sayings
  BY NoopConstants DEF Noops!Message, Sayings
<1>3. WellSaid(m)
  BY <1>1 DEF WellSaid
<1>4. /\ spoken' = Append(spoken, m) /\ roster' = roster
      /\ actual' = [d \in Lamps |-> IF d \in roster THEN Noops!Carried(actual[d], c) ELSE actual[d]]
      /\ UNCHANGED <<inbox, named, members, tracked, values, inflight, asked, unseen>>
  BY DEF Noops!Press, Noops!echoes
<1>5. \A d \in Lamps : actual[d] \in [Noops!Keys -> Held]
  BY DEF NoopInv, NoopTypes
<1>6. c \in Asks
  BY NoopConstants
<1>7. actual' \in [Lamps -> [Noops!Keys -> Held]]
  BY <1>4, <1>5, <1>6, CarriedIs
<1>8. \A e \in Lamps : actual'[e] = actual[e] \/ (m.kind = "action" /\ e \in roster)
  BY <1>1, <1>4
<1> HIDE DEF m
<1>9. QED
  BY <1>1, <1>2, <1>3, <1>4, <1>7, <1>8, SaidStep

\* A regrouping changes who is in the group, and says so.
LEMMA RegroupStep ==
    ASSUME NoopInv, NEW devices \in SUBSET Lamps, Noops!Regroup(devices)
    PROVE  NoopInv'
<1> DEFINE m == Noops!Message("groups", Group, devices, None)
<1>1. m.kind = "groups" /\ m.answers = None /\ m.content = devices
  BY DEF Noops!Message
<1>2. m \in Sayings
  BY NoopConstants DEF Noops!Message, Sayings
<1>3. WellSaid(m)
  BY <1>1 DEF WellSaid
<1>4. /\ spoken' = Append(spoken, m) /\ roster' = devices /\ actual' = actual
      /\ UNCHANGED <<inbox, named, members, tracked, values, inflight, asked, unseen>>
  BY DEF Noops!Regroup, Noops!echoes
<1>5. actual' \in [Lamps -> [Noops!Keys -> Held]]
  BY <1>4 DEF NoopInv, NoopTypes
<1> HIDE DEF m
<1>6. QED
  BY <1>1, <1>2, <1>3, <1>4, <1>5, SaidStep

\* The collector starts with nothing, and the lists on their way, or with what
\* the lamps hold.
LEMMA InitNoop == Noops!Init => NoopInv
<1>1. SUFFICES ASSUME Noops!Init PROVE NoopInv
  OBVIOUS
<1>2. Noops!Start \in [Noops!Keys -> Held] /\ DOMAIN Noops!Start = Noops!Keys
  BY NoopConstants DEF Noops!Start, Held
<1>3. DOMAIN Noops!Nothing = {}
  BY DEF Noops!Nothing
<1>4. /\ actual = [d \in Lamps |-> Noops!Start] /\ roster = Lamps
      /\ inbox = [d \in Lamps |-> << >>]
      /\ inflight = [n \in Noops!Names |-> Noops!Nothing] /\ unseen = {}
      /\ asked.verdict = None
  BY <1>1 DEF Noops!Init
<1>5. /\ actual \in [Lamps -> [Noops!Keys -> Held]] /\ inbox \in [Lamps -> Seq(Asks)]
      /\ roster \in SUBSET Lamps /\ unseen \in SUBSET Lamps
  BY <1>2, <1>4
<1>6. asked.verdict \in {None, "noop", "changing", "unknown"} /\ Noops!NoopIsTrue
  BY <1>4, NoopConstants DEF Noops!NoopIsTrue
<1> DEFINE devices == Noops!Message("devices", Group, Lamps, None)
           lists == Noops!Message("groups", Group, Lamps, None)
<1>7. CASE /\ spoken \in {<<devices, lists>>, <<lists, devices>>}
           /\ named = {} /\ members = None
           /\ tracked = Noops!Nothing /\ values = [n \in Noops!Names |-> Noops!Nothing]
  <2>1. /\ devices.kind = "devices" /\ devices.answers = None /\ devices.content = Lamps
        /\ lists.kind = "groups" /\ lists.answers = None /\ lists.content = Lamps
    BY DEF Noops!Message
  <2>2. devices \in Sayings /\ lists \in Sayings
    BY NoopConstants DEF Noops!Message, Sayings
  <2>3. WellSaid(devices) /\ WellSaid(lists)
    BY <2>1 DEF WellSaid
  <2> HIDE DEF devices, lists
  <2>4. /\ spoken \in Seq(Sayings) /\ Len(spoken) = 2
        /\ \/ spoken[1] = devices /\ spoken[2] = lists
           \/ spoken[1] = lists /\ spoken[2] = devices
    <3>1. CASE spoken = <<devices, lists>>
      BY <2>2, <3>1
    <3>2. CASE spoken = <<lists, devices>>
      BY <2>2, <3>2
    <3>3. QED
      BY <1>7, <3>1, <3>2
  <2>5. \A i \in 1..Len(spoken) : spoken[i] \in {devices, lists}
    BY <2>4
  <2>6. NoopTypes
    <3>1. named \in SUBSET Lamps /\ members \in (SUBSET Lamps) \cup {None}
      BY <1>7
    <3>2. \A i \in 1..Len(spoken) : WellSaid(spoken[i])
      BY <2>3, <2>5
    <3>3. QED
      BY <1>5, <2>4, <3>1, <3>2 DEF NoopTypes
  <2>7. Table(tracked)
    <3>1. DOMAIN tracked = {} /\ tracked \in [{} -> SUBSET Noops!Keys]
      BY <1>7 DEF Noops!Nothing
    <3>2. QED
      BY <3>1, FS_EmptySet, NoopConstants DEF Table
  <2>8. Kept(tracked, values, inflight)
    BY <1>3, <1>4, <1>7 DEF Kept, Keeps
  <2>9. Lists(spoken, members, named, roster)
    <3>1. 1 \in 1..2 /\ 2 \in 1..2 /\ (2 + 1) - 1 = 2 /\ \A i \in 1..2 : i = 1 \/ i = 2
      OBVIOUS
    <3>2. ASSUME NEW d \in Lamps PROVE ListedAt(spoken, members, 2 + 1, d)
      <4>1. CASE spoken[1] = devices /\ spoken[2] = lists
        <5>1. \A h : ~(h \in 2 + 1..(2 + 1) - 1)
          OBVIOUS
        <5>2. QED
          BY <2>1, <3>1, <4>1, <5>1 DEF ListedAt
      <4>2. CASE spoken[1] = lists /\ spoken[2] = devices
        <5>1. \A h \in 1 + 1..(2 + 1) - 1 : h = 2
          OBVIOUS
        <5>2. QED
          BY <2>1, <3>1, <4>2, <5>1 DEF ListedAt
      <4>3. QED
        BY <2>4, <4>1, <4>2
    <3>3. NamedAt(spoken, named, 2 + 1)
      BY <2>1, <2>4, <3>1 DEF NamedAt
    <3>4. \A i \in 1..2 : spoken[i].kind # "action"
      BY <2>1, <2>4, <2>5
    <3>5. \E h \in 1..2 : spoken[h].kind = "groups"
      BY <2>1, <2>4, <3>1
    <3>6. QED
      BY <1>4, <2>4, <3>2, <3>3, <3>4, <3>5 DEF Lists
  <2>10. ASSUME NEW d \in Lamps PROVE Current(spoken, members, d, values[d], actual[d])
    <3>1. DOMAIN values[d] = {}
      BY <1>3, <1>7, NoopConstants
    <3>2. \A i \in 1..Len(spoken) : spoken[i].kind # "state"
      BY <2>1, <2>5
    <3>3. QED
      BY <3>1, <3>2 DEF Current
  <2>11. ASSUME NEW d \in Lamps, NEW k \in Noops!ColorKeys
         PROVE  ~Awaited(inbox[d], spoken, d, k)
    BY <1>4, <2>1, <2>5, NoopConstants DEF Awaited, Answers
  <2>12. QED
    BY <1>6, <2>6, <2>7, <2>8, <2>9, <2>10, <2>11 DEF NoopInv, InTheAir
<1>8. CASE /\ Noops!Cardinality(Lamps) <= MAX_TRACKED_DEVICES
           /\ Noops!Cardinality(Noops!Keys) <= MAX_TRACKED_KEYS
           /\ spoken = << >> /\ named = Lamps /\ members = Lamps
           /\ tracked = [d \in Lamps |-> Noops!Keys]
           /\ values = [n \in Noops!Names |-> IF n \in Lamps THEN Noops!Start ELSE Noops!Nothing]
  <2>1. spoken \in Seq(Sayings) /\ Len(spoken) = 0
    BY <1>8
  <2>2. NoopTypes
    BY <1>5, <1>8, <2>1 DEF NoopTypes
  <2>3. Table(tracked)
    BY <1>8, NoopConstants DEF Table
  <2>4. Kept(tracked, values, inflight)
    <3>1. ASSUME NEW n \in Noops!Names
          PROVE  DOMAIN values[n] \subseteq Keeps(tracked, n) /\ DOMAIN inflight[n] \subseteq Keeps(tracked, n)
      BY <1>2, <1>3, <1>4, <1>8 DEF Keeps
    <3>2. QED
      BY <1>4, <1>8, <3>1 DEF Kept
  <2>5. Lists(spoken, members, named, roster)
    <3>1. \A h : ~(h \in 1..(0 + 1) - 1) /\ ~(h \in 1..0)
      OBVIOUS
    <3>2. members # None
      BY <1>8, NoopConstants
    <3>3. QED
      BY <1>4, <1>8, <2>1, <3>1, <3>2 DEF Lists, ListedAt, NamedAt
  <2>6. ASSUME NEW d \in Lamps PROVE Current(spoken, members, d, values[d], actual[d])
    <3>1. values[d] = Noops!Start /\ actual[d] = Noops!Start
      BY <1>4, <1>8, NoopConstants
    <3>2. QED
      BY <2>1, <3>1 DEF Current
  <2>7. ASSUME NEW d \in Lamps, NEW k \in Noops!ColorKeys
        PROVE  ~Awaited(inbox[d], spoken, d, k)
    BY <1>4, <2>1 DEF Awaited
  <2>8. QED
    BY <1>6, <2>2, <2>3, <2>4, <2>5, <2>6, <2>7 DEF NoopInv, InTheAir
<1>9. QED
  BY <1>1, <1>7, <1>8 DEF Noops!Init

\* A lamp carries out its oldest command, and says what it holds.
LEMMA ExecuteStep ==
    ASSUME NoopInv, NEW d \in Lamps, Noops!Execute(d)
    PROVE  NoopInv'
<1> DEFINE c == Head(inbox[d])
           m == Noops!Message("state", d, Noops!Carried(actual[d], c), c.key)
<1>1. inbox[d] \in Seq(Asks) /\ inbox[d] # << >> /\ actual[d] \in [Noops!Keys -> Held]
  BY DEF NoopInv, NoopTypes, Noops!Execute
<1>2. c \in Asks /\ c = inbox[d][1]
  BY <1>1
<1>3. /\ Noops!Carried(actual[d], c) \in [Noops!Keys -> Held]
      /\ Noops!Carried(actual[d], c)[c.key] = c.value
      /\ Noops!Carried(actual[d], c)["color_mode"] = c.key
  BY <1>1, <1>2, CarriedIs
<1>4. /\ m.kind = "state" /\ m.about = d /\ m.content = Noops!Carried(actual[d], c)
      /\ m.answers = c.key
  BY DEF Noops!Message
<1>5. c.key \in Noops!ColorKeys /\ c.key # None
  BY <1>2, NoopConstants DEF Asks
<1>6. m \in Sayings
  BY <1>3, <1>5, StatesAssign, NoopConstants DEF Noops!Message, Sayings
<1>7. WellSaid(m)
  BY <1>3, <1>4, StatesAssign DEF WellSaid
<1>8. /\ spoken' = Append(spoken, m) /\ roster' = roster
      /\ actual' = [actual EXCEPT ![d] = Noops!Carried(actual[d], c)]
      /\ inbox' = [inbox EXCEPT ![d] = Tail(inbox[d])]
      /\ UNCHANGED <<named, members, tracked, values, inflight, asked, unseen>>
  BY DEF Noops!Execute, Noops!echoes
<1>9. /\ actual \in [Lamps -> [Noops!Keys -> Held]] /\ inbox \in [Lamps -> Seq(Asks)]
  BY DEF NoopInv, NoopTypes
<1> HIDE DEF m
<1>10. /\ spoken' \in Seq(Sayings) /\ \A i \in 1..Len(spoken') : WellSaid(spoken'[i])
       /\ Appended(spoken, spoken', m)
  BY <1>6, <1>7, <1>8, SaidTypes DEF NoopInv
<1>11. Shifted(inbox[d], Tail(inbox[d])) /\ Tail(inbox[d]) \in Seq(Asks)
  BY <1>1, Positions
<1>12. /\ actual'[d] = Noops!Carried(actual[d], c) /\ inbox'[d] = Tail(inbox[d])
       /\ \A e \in Lamps : e # d => actual'[e] = actual[e] /\ inbox'[e] = inbox[e]
  BY <1>8, <1>9
<1>13. NoopTypes'
  <2>1. actual' \in [Lamps -> [Noops!Keys -> Held]] /\ inbox' \in [Lamps -> Seq(Asks)]
    BY <1>3, <1>8, <1>9, <1>11
  <2>2. QED
    BY <1>8, <1>10, <2>1 DEF NoopInv, NoopTypes
<1>14. Lists(spoken', members, named, roster)
  BY <1>4, <1>10, AppendKeepsLists DEF NoopInv
<1>15. ASSUME NEW e \in Lamps
       PROVE  Current(spoken', members, e, values[e], actual'[e])
  <2> DEFINE later == actual'[e]
  <2>1. Current(spoken, members, e, values[e], actual[e])
    BY DEF NoopInv
  <2>2. (m.kind = "state" /\ m.about = e) => m.content = later
    BY <1>4, <1>12
  <2>3. later = actual[e] \/ Renews(spoken', members, Len(spoken'), e)
    <3>1. spoken'[Len(spoken')] = m
      BY <1>10 DEF Appended
    <3>2. QED
      BY <1>4, <1>5, <1>12, <3>1 DEF Renews
  <2> HIDE DEF later
  <2>4. Current(spoken', members, e, values[e], later)
    BY <1>10, <2>1, <2>2, <2>3, AppendKeepsCurrent
  <2>5. QED
    BY <2>4 DEF later
<1>16. ASSUME NEW e \in Lamps, NEW k \in Noops!ColorKeys, e \notin unseen
       PROVE  InTheAir(inbox'[e], spoken', e, k, inflight[e], tracked)
  <2>1. InTheAir(inbox[e], spoken, e, k, inflight[e], tracked)
    BY <1>16 DEF NoopInv
  <2>2. CASE e = d
    <3> DEFINE box == inbox[d]
               after == Tail(inbox[d])
    <3>1. Shifted(box, after) /\ m.about = d /\ m.answers = box[1].key
          /\ m.content[box[1].key] = box[1].value
      BY <1>2, <1>3, <1>4, <1>11
    <3> HIDE DEF box, after
    <3>2. /\ \A v : Newest(box, spoken, d, k, v) => Newest(after, spoken', d, k, v)
          /\ Awaited(after, spoken', d, k) => Awaited(box, spoken, d, k)
      BY <1>10, <3>1, CarryNewest
    <3>3. QED
      BY <1>12, <2>1, <2>2, <3>2 DEF InTheAir, box, after
  <2>3. CASE e # d
    <3>1. ~Answers(m, e, k)
      BY <1>4, <2>3 DEF Answers
    <3>2. /\ \A v : Newest(inbox[e], spoken, e, k, v) => Newest(inbox[e], spoken', e, k, v)
          /\ Awaited(inbox[e], spoken', e, k) => Awaited(inbox[e], spoken, e, k)
      BY <1>10, <3>1, SayNewest
    <3>3. QED
      BY <1>12, <2>1, <2>3, <3>2 DEF InTheAir
  <2>4. QED
    BY <2>2, <2>3
<1>17. Noops!NoopIsTrue'
  BY <1>8 DEF NoopInv, Noops!NoopIsTrue
<1>18. QED
  BY <1>8, <1>13, <1>14, <1>15, <1>16, <1>17 DEF NoopInv

\* A deadline passes: a lamp of which something is unheard is marked.
LEMMA LapseStep ==
    ASSUME NoopInv, NEW n \in Noops!Names, NEW k, Noops!Lapse(n, k)
    PROVE  NoopInv'
<1>1. /\ inflight' = [inflight EXCEPT ![n] = [q \in DOMAIN inflight[n] \ {k} |-> inflight[n][q]]]
      /\ unseen' = unseen \cup {d \in Lamps : d = n /\ Noops!Unheard(d) # {}}
      /\ UNCHANGED <<actual, inbox, roster, spoken, named, members, tracked, values, asked>>
  BY DEF Noops!Lapse, Noops!mesh, Noops!Restrict
<1>2. Kept(tracked, values, inflight)
  BY DEF NoopInv
<1>3. Kept(tracked, values, inflight')
  <2>1. DOMAIN inflight' = Noops!Names
    BY <1>1, <1>2 DEF Kept
  <2>2. \A e \in Noops!Names : DOMAIN inflight'[e] \subseteq DOMAIN inflight[e]
    BY <1>1, <1>2 DEF Kept
  <2>3. QED
    BY <1>2, <2>1, <2>2 DEF Kept
<1>4. NoopTypes'
  BY <1>1 DEF NoopInv, NoopTypes
<1>5. ASSUME NEW d \in Lamps, NEW q \in Noops!ColorKeys, d \notin unseen'
      PROVE  InTheAir(inbox[d], spoken, d, q, inflight'[d], tracked)
  <2>1. InTheAir(inbox[d], spoken, d, q, inflight[d], tracked)
    BY <1>1, <1>5 DEF NoopInv
  <2>2. CASE d = n
    <3>1. Noops!Unheard(d) = {}
      BY <1>1, <1>5, <2>2
    <3>2. ~Awaited(inbox[d], spoken, d, q)
      BY <3>1, UnheardIs DEF NoopInv
    <3>3. QED
      BY <3>2 DEF InTheAir
  <2>3. CASE d # n
    <3>1. inflight'[d] = inflight[d]
      BY <1>1, <1>2, <2>3, NoopConstants DEF Kept
    <3>2. QED
      BY <2>1, <3>1
  <2>4. QED
    BY <2>2, <2>3
<1>6. Noops!NoopIsTrue'
  BY <1>1 DEF NoopInv, Noops!NoopIsTrue
<1>7. QED
  BY <1>1, <1>3, <1>4, <1>5, <1>6 DEF NoopInv

\* The head is taken in, whatever becomes of it: what is known after it is what
\* it says or was known before, and no command comes to be in flight.
LEMMA TakenStep ==
    ASSUME NoopInv, Noops!Receive, Kept(tracked, values', inflight'), tracked' = tracked,
           members' = IF spoken[1].kind = "groups" THEN spoken[1].content ELSE members,
           named' = IF spoken[1].kind = "devices" THEN spoken[1].content ELSE named,
           \A d \in Lamps : \A k \in DOMAIN values'[d] :
             \/ /\ spoken[1].kind = "state" /\ spoken[1].about = d
                /\ values'[d][k] = spoken[1].content[k]
             \/ /\ k \in DOMAIN values[d] /\ values'[d][k] = values[d][k]
                /\ ~Renews(spoken, members, 1, d),
           \A d \in Lamps : \A k \in DOMAIN inflight'[d] :
             k \in DOMAIN inflight[d] /\ inflight'[d][k] = inflight[d][k]
    PROVE  NoopInv'
<1>1. /\ spoken # << >> /\ spoken' = Tail(spoken)
      /\ UNCHANGED <<actual, inbox, roster, asked>>
      /\ unseen' = {d \in Lamps :
           \/ d \in unseen /\ Noops!Unheard(d)' # {}
           \/ Noops!Unheard(d)' \cap (DOMAIN inflight[d] \ DOMAIN inflight'[d]) # {}}
  BY DEF Noops!Receive, Noops!mesh
<1>2. spoken \in Seq(Sayings) /\ \A i \in 1..Len(spoken) : WellSaid(spoken[i])
  BY DEF NoopInv, NoopTypes
<1>3. Shifted(spoken, spoken') /\ spoken' \in Seq(Sayings)
  BY <1>1, <1>2, Positions
<1>4. /\ Len(spoken) \in Nat /\ 1 <= Len(spoken) /\ Len(spoken') = Len(spoken) - 1
      /\ \A i \in 1..Len(spoken') : spoken'[i] = spoken[i + 1]
  BY <1>3 DEF Shifted
<1>5. WellSaid(spoken[1])
  BY <1>2, <1>4
<1>6. /\ spoken[1].kind = "groups" => spoken[1].content \in SUBSET Lamps /\ spoken[1].content # None
      /\ spoken[1].kind = "devices" => spoken[1].content = Lamps
  BY <1>5, NoopConstants DEF WellSaid
<1>7. \A i \in 1..Len(spoken') : WellSaid(spoken'[i])
  <2>1. \A i \in 1..Len(spoken') : i + 1 \in 1..Len(spoken)
    BY <1>4
  <2>2. QED
    BY <1>2, <1>4, <2>1
<1>8. NoopTypes'
  <2>1. named' \in SUBSET Lamps /\ members' \in (SUBSET Lamps) \cup {None}
    BY <1>6 DEF NoopInv, NoopTypes
  <2>2. unseen' \in SUBSET Lamps
    BY <1>1
  <2>3. QED
    BY <1>1, <1>3, <1>7, <2>1, <2>2 DEF NoopInv, NoopTypes
<1>9. Lists(spoken', members', named', roster)
  <2> DEFINE then == members'
             called == named'
             t == spoken'
  <2>1. /\ then = IF spoken[1].kind = "groups" THEN spoken[1].content ELSE members
        /\ called = IF spoken[1].kind = "devices" THEN Lamps ELSE named
        /\ Shifted(spoken, t)
    BY <1>3, <1>6
  <2> HIDE DEF then, called, t
  <2>2. Lists(t, then, called, roster)
    BY <1>6, <2>1, ShiftKeepsLists DEF NoopInv
  <2>3. QED
    BY <2>2 DEF then, called, t
<1>10. ASSUME NEW d \in Lamps
       PROVE  Current(spoken', members', d, values'[d], actual[d])
  <2> DEFINE then == members'
             has == values'[d]
             had == values[d]
             holds == actual[d]
             t == spoken'
  <2>1. /\ then = IF spoken[1].kind = "groups" THEN spoken[1].content ELSE members
        /\ \A k \in DOMAIN has :
             \/ spoken[1].kind = "state" /\ spoken[1].about = d /\ has[k] = spoken[1].content[k]
             \/ k \in DOMAIN had /\ has[k] = had[k] /\ ~Renews(spoken, members, 1, d)
        /\ Current(spoken, members, d, had, holds) /\ Shifted(spoken, t)
    BY <1>3 DEF NoopInv
  <2> HIDE DEF then, has, had, holds, t
  <2>2. Current(t, then, d, has, holds)
    BY <1>6, <2>1, ShiftKeepsCurrent
  <2>3. QED
    BY <2>2 DEF then, has, holds, t
<1>11. \A d \in Lamps : Noops!Unheard(d)' = {k \in Noops!ColorKeys : Awaited(inbox'[d], spoken', d, k)}
  <2>1. \A d : Noops!Unheard(d)' = AwaitedKeys(inbox'[d], spoken', d)
    BY DEF Noops!Unheard, AwaitedKeys
  <2>2. \A d \in Lamps : inbox'[d] \in Seq(Asks)
    BY <1>8 DEF NoopTypes
  <2>3. ASSUME NEW d \in Lamps
        PROVE  AwaitedKeys(inbox'[d], spoken', d) = {k \in Noops!ColorKeys : Awaited(inbox'[d], spoken', d, k)}
    <3> DEFINE box == inbox'[d]
               t == spoken'
    <3>1. box \in Seq(Asks) /\ t \in Seq(Sayings)
      BY <1>3, <2>2
    <3> HIDE DEF box, t
    <3>2. AwaitedKeys(box, t, d) = {k \in Noops!ColorKeys : Awaited(box, t, d, k)}
      BY <3>1, AwaitedIs
    <3>3. QED
      BY <3>2 DEF box, t
  <2>4. QED
    BY <2>1, <2>3
<1>12. ASSUME NEW d \in Lamps, NEW k \in Noops!ColorKeys, d \notin unseen'
       PROVE  InTheAir(inbox[d], spoken', d, k, inflight'[d], tracked)
  <2>1. SUFFICES ASSUME Awaited(inbox[d], spoken', d, k)
                 PROVE  \/ Never(tracked, d, k)
                        \/ /\ k \in DOMAIN inflight'[d]
                           /\ Newest(inbox[d], spoken', d, k, inflight'[d][k])
    BY DEF InTheAir
  <2>2. k \in Noops!Unheard(d)'
    BY <1>1, <1>11, <2>1
  <2>3. d \notin unseen /\ ~(k \in DOMAIN inflight[d] \ DOMAIN inflight'[d])
    BY <1>1, <1>12, <2>2
  <2>4. InTheAir(inbox[d], spoken, d, k, inflight[d], tracked)
    BY <2>3 DEF NoopInv
  <2>5. /\ \A v : Newest(inbox[d], spoken, d, k, v) => Newest(inbox[d], spoken', d, k, v)
        /\ Awaited(inbox[d], spoken', d, k) => Awaited(inbox[d], spoken, d, k)
    BY <1>3, HearNewest
  <2>6. k \in DOMAIN inflight'[d] => inflight'[d][k] = inflight[d][k]
    OBVIOUS
  <2>7. QED
    BY <2>1, <2>3, <2>4, <2>5, <2>6 DEF InTheAir
<1>13. Noops!NoopIsTrue'
  BY <1>1 DEF NoopInv, Noops!NoopIsTrue
<1>14. QED
  BY <1>1, <1>8, <1>9, <1>10, <1>12, <1>13 DEF NoopInv

\* A message comes in: a report, an action or a list.
LEMMA ReceiveStep ==
    ASSUME NoopInv, Noops!Receive
    PROVE  NoopInv'
<1>1. /\ spoken # << >> /\ spoken' = Tail(spoken)
      /\ Noops!Heard(Head(spoken)) \/ Noops!Forgotten(Head(spoken)) \/ Noops!Listed(Head(spoken))
  BY DEF Noops!Receive
<1>2. spoken \in Seq(Sayings) /\ \A i \in 1..Len(spoken) : WellSaid(spoken[i])
  BY DEF NoopInv, NoopTypes
<1>3. Head(spoken) = spoken[1] /\ 1 \in 1..Len(spoken) /\ spoken[1] \in Sayings
  BY <1>1, <1>2
<1> DEFINE m == spoken[1]
<1>4. WellSaid(m) /\ m.about \in Noops!Names
  BY <1>2, <1>3 DEF Sayings
<1>5. Kept(tracked, values, inflight) /\ Table(tracked)
  BY DEF NoopInv
<1>6. \A h : ~(h \in 1..1 - 1)
  OBVIOUS
<1>7. CASE Noops!Heard(Head(spoken))
  <2> DEFINE n == m.about
             wanted == IF n \in DOMAIN tracked THEN tracked[n] \cap DOMAIN m.content ELSE {}
             confirmed == {k \in wanted \cap DOMAIN inflight[n] : inflight[n][k] = m.content[k]}
  <2>1. /\ m.kind = "state"
        /\ values' = [values EXCEPT ![n] =
             [k \in DOMAIN values[n] \cup wanted |-> IF k \in wanted THEN m.content[k] ELSE values[n][k]]]
        /\ inflight' = [inflight EXCEPT ![n] = [k \in DOMAIN inflight[n] \ confirmed |-> inflight[n][k]]]
        /\ UNCHANGED <<named, members, tracked>>
    BY <1>3, <1>7 DEF Noops!Heard, Noops!Restrict
  <2>2. wanted \subseteq Keeps(tracked, n)
    BY DEF Keeps
  <2>3. n \in DOMAIN values /\ n \in DOMAIN inflight
    BY <1>4, <1>5 DEF Kept
  <2>4. /\ values'[n] = [k \in DOMAIN values[n] \cup wanted |->
                           IF k \in wanted THEN m.content[k] ELSE values[n][k]]
        /\ inflight'[n] = [k \in DOMAIN inflight[n] \ confirmed |-> inflight[n][k]]
        /\ \A d \in Noops!Names : d # n => values'[d] = values[d] /\ inflight'[d] = inflight[d]
        /\ DOMAIN values' = DOMAIN values /\ DOMAIN inflight' = DOMAIN inflight
    <3> HIDE DEF wanted, confirmed
    <3>1. QED
      BY <2>1, <2>3, <1>5 DEF Kept
  <2>5. Kept(tracked, values', inflight')
    <3>1. DOMAIN values'[n] = DOMAIN values[n] \cup wanted
      BY <2>4
    <3>2. DOMAIN inflight'[n] \subseteq DOMAIN inflight[n]
      BY <2>4
    <3> HIDE DEF wanted, confirmed
    <3>3. ASSUME NEW d \in Noops!Names
          PROVE  /\ DOMAIN values'[d] \subseteq Keeps(tracked, d)
                 /\ DOMAIN inflight'[d] \subseteq Keeps(tracked, d)
      <4>1. CASE d = n
        BY <1>5, <2>2, <3>1, <3>2, <4>1 DEF Kept
      <4>2. CASE d # n
        BY <1>5, <2>4, <4>2 DEF Kept
      <4>3. QED
        BY <4>1, <4>2
    <3>4. QED
      BY <1>5, <2>4, <3>3 DEF Kept
  <2>6. ASSUME NEW d \in Lamps, NEW k \in DOMAIN values'[d]
        PROVE  \/ m.kind = "state" /\ m.about = d /\ values'[d][k] = m.content[k]
               \/ /\ k \in DOMAIN values[d] /\ values'[d][k] = values[d][k]
                  /\ ~Renews(spoken, members, 1, d)
    <3>1. CASE d = n
      <4>1. k \in DOMAIN values[n] \cup wanted
        BY <2>4, <2>6, <3>1
      <4>2. k \in wanted
        <5>1. SUFFICES ASSUME k \in DOMAIN values[n] PROVE k \in wanted
          BY <4>1
        <5>2. k \in Keeps(tracked, n)
          BY <1>4, <1>5, <5>1 DEF Kept
        <5>3. n \in DOMAIN tracked /\ k \in tracked[n]
          BY <5>2 DEF Keeps
        <5>4. k \in Noops!Keys
          BY <1>5, <5>3 DEF Table
        <5>5. DOMAIN m.content = Noops!Keys
          BY <1>4, <2>1, <3>1 DEF WellSaid
        <5>6. QED
          BY <5>3, <5>4, <5>5
      <4> HIDE DEF wanted
      <4>3. values'[n][k] = m.content[k]
        BY <2>4, <4>1, <4>2
      <4>4. QED
        BY <2>1, <3>1, <4>3
    <3>2. CASE d # n
      <4>1. values'[d] = values[d]
        BY <2>4, <3>2, NoopConstants
      <4>2. ~Renews(spoken, members, 1, d)
        BY <2>1, <3>2 DEF Renews
      <4>3. QED
        BY <2>6, <4>1, <4>2
    <3>3. QED
      BY <3>1, <3>2
  <2>7. ASSUME NEW d \in Lamps, NEW k \in DOMAIN inflight'[d]
        PROVE  k \in DOMAIN inflight[d] /\ inflight'[d][k] = inflight[d][k]
    <3>1. CASE d = n
      <4> HIDE DEF confirmed
      <4>1. QED
        BY <2>4, <2>7, <3>1
    <3>2. CASE d # n
      BY <2>4, <2>7, <3>2, NoopConstants
    <3>3. QED
      BY <3>1, <3>2
  <2>8. QED
    BY <2>1, <2>5, <2>6, <2>7, TakenStep
<1>8. CASE Noops!Forgotten(Head(spoken))
  <2> DEFINE bound == IF members = None THEN {} ELSE members \cap named
  <2>1. /\ m.kind = "action"
        /\ values' = [n \in Noops!Names |-> IF n \in bound THEN Noops!Nothing ELSE values[n]]
        /\ inflight' = [n \in Noops!Names |-> IF n \in bound THEN Noops!Nothing ELSE inflight[n]]
        /\ UNCHANGED <<named, members, tracked>>
    BY <1>3, <1>8 DEF Noops!Forgotten
  <2>2. DOMAIN Noops!Nothing = {}
    BY DEF Noops!Nothing
  <2>3. Kept(tracked, values', inflight')
    <3> HIDE DEF bound
    <3>1. QED
      BY <1>5, <2>1, <2>2 DEF Kept
  <2>4. ASSUME NEW d \in Lamps, d \notin bound PROVE ~Renews(spoken, members, 1, d)
    <3>1. m.answers = None
      BY <1>4, <2>1 DEF WellSaid
    <3>2. ListedAt(spoken, members, 1, d) => members # None /\ d \in members
      BY <1>6 DEF ListedAt
    <3>3. named = Lamps
      <4>1. NamedAt(spoken, named, 1)
        BY <1>3, <2>1 DEF NoopInv, Lists
      <4>2. QED
        BY <1>6, <4>1 DEF NamedAt
    <3>4. QED
      BY <2>4, <3>1, <3>2, <3>3 DEF Renews
  <2>5. ASSUME NEW d \in Lamps, NEW k \in DOMAIN values'[d]
        PROVE  k \in DOMAIN values[d] /\ values'[d][k] = values[d][k] /\ ~Renews(spoken, members, 1, d)
    <3>1. d \notin bound
      BY <2>1, <2>2, <2>5, NoopConstants
    <3>2. values'[d] = values[d]
      BY <2>1, <3>1, NoopConstants
    <3>3. QED
      BY <2>4, <2>5, <3>1, <3>2
  <2>6. ASSUME NEW d \in Lamps, NEW k \in DOMAIN inflight'[d]
        PROVE  k \in DOMAIN inflight[d] /\ inflight'[d][k] = inflight[d][k]
    <3>1. d \notin bound
      BY <2>1, <2>2, <2>6, NoopConstants
    <3>2. inflight'[d] = inflight[d]
      BY <2>1, <3>1, NoopConstants
    <3>3. QED
      BY <2>6, <3>2
  <2>7. QED
    BY <2>1, <2>3, <2>5, <2>6, TakenStep
<1>9. CASE Noops!Listed(Head(spoken))
  <2>1. /\ \/ m.kind = "devices" /\ named' = m.content /\ members' = members
           \/ m.kind = "groups" /\ members' = m.content /\ named' = named
        /\ UNCHANGED <<tracked, values, inflight>>
    BY <1>3, <1>9 DEF Noops!Listed, Noops!echoes
  <2>2. ASSUME NEW d \in Lamps PROVE ~Renews(spoken, members, 1, d)
    <3>1. m.answers = None /\ m.kind # "action"
      BY <1>4, <2>1 DEF WellSaid
    <3>2. QED
      BY <3>1 DEF Renews
  <2>3. QED
    BY <1>5, <2>1, <2>2, TakenStep
<1>10. QED
  BY <1>1, <1>7, <1>8, <1>9

\* What the targets of a command are, and the devices it is judged by.
LEMMA TargetsAre ==
    ASSUME NoopInv, NEW target \in Noops!Names
    PROVE  /\ Noops!Targets(target) \in SUBSET Lamps
           /\ Noops!Judged(target) \in SUBSET Noops!Names
<1>1. roster \in SUBSET Lamps /\ members \in (SUBSET Lamps) \cup {None} /\ named \in SUBSET Lamps
  BY DEF NoopInv, NoopTypes
<1>2. Noops!Targets(target) \in SUBSET Lamps
  BY <1>1, NoopConstants DEF Noops!Targets
<1>3. Noops!Roster(target) \in SUBSET Noops!Names
  BY <1>1, NoopConstants DEF Noops!Roster
<1>4. QED
  BY <1>2, <1>3 DEF Noops!Judged

\* With no list on its way, a command is judged by every device it goes to.
LEMMA TargetsJudged ==
    ASSUME NoopInv, NEW target \in Noops!Names, ~Noops!Blind(target)
    PROVE  Noops!Targets(target) \subseteq Noops!Judged(target)
<1>1. CASE target # Group
  BY <1>1 DEF Noops!Targets, Noops!Judged, Noops!Roster, Noops!IsGroup
<1>2. CASE target = Group
  <2>1. \A i \in 1..Len(spoken) : spoken[i].kind # "groups" /\ spoken[i].kind # "devices"
    BY <1>2 DEF Noops!Blind
  <2>2. Len(spoken) \in Nat /\ (Len(spoken) + 1) - 1 = Len(spoken)
    BY DEF NoopInv, NoopTypes
  <2>3. members # None
    BY <2>1 DEF NoopInv, Lists
  <2>4. named = Lamps
    BY <2>1, <2>2 DEF NoopInv, Lists, NamedAt
  <2>5. \A d \in Lamps : ListedAt(spoken, members, Len(spoken) + 1, d) <=> d \in members
    BY <2>1, <2>2, <2>3 DEF ListedAt
  <2>6. roster \subseteq members \cap named
    BY <2>4, <2>5 DEF NoopInv, NoopTypes, Lists
  <2>7. QED
    BY <1>2, <2>3, <2>6 DEF Noops!Targets, Noops!Judged, Noops!Roster, Noops!IsGroup
<1>3. QED
  BY <1>1, <1>2

\* A verdict of no-op has every device reported and in flight as the command
\* asks.
LEMMA NoopSays ==
    ASSUME NEW target, NEW c, Noops!Assess(target, c) = "noop"
    PROVE  \A n \in Noops!Judged(target) :
             /\ c.key \in DOMAIN values[n] /\ values[n][c.key] = c.value
             /\ "color_mode" \in DOMAIN values[n] /\ values[n]["color_mode"] = c.key
             /\ c.key \in DOMAIN inflight[n] => inflight[n][c.key] = c.value
<1>1. ~Noops!Differs(Noops!Judged(target), c) /\ Noops!Reported(Noops!Judged(target), c)
  BY DEF Noops!Assess
<1>2. QED
  BY <1>1 DEF Noops!Differs, Noops!Reported, Noops!Known, Noops!InFlight

\* A no-op is one, but for what no collector could see and for a command of the
\* other key.
LEMMA NoopMeans ==
    ASSUME NoopInv, NEW target \in Noops!Names, NEW c \in Asks,
           Noops!Assess(target, c) = "noop", ~Noops!Blind(target),
           \A d \in Noops!Targets(target) : \A k \in Noops!Unheard(d) : k = c.key
    PROVE  \A d \in Noops!Targets(target) : Noops!WillHold(d, c)
<1>1. SUFFICES ASSUME NEW d \in Noops!Targets(target) PROVE Noops!WillHold(d, c)
  OBVIOUS
<1>2. d \in Lamps /\ d \in Noops!Judged(target)
  BY TargetsAre, TargetsJudged
<1>3. /\ c.key \in DOMAIN values[d] /\ values[d][c.key] = c.value
      /\ "color_mode" \in DOMAIN values[d] /\ values[d]["color_mode"] = c.key
      /\ c.key \in DOMAIN inflight[d] => inflight[d][c.key] = c.value
  BY <1>2, NoopSays
<1>4. d \notin unseen /\ \A i \in 1..Len(spoken) : spoken[i].kind # "action"
  BY DEF Noops!Blind
<1>5. \A k \in Noops!ColorKeys : Awaited(inbox[d], spoken, d, k) => k = c.key
  BY <1>2, UnheardIs DEF NoopInv
<1>6. c.key \in Noops!ColorKeys
  BY DEF Asks
<1>7. ~Never(tracked, d, c.key)
  <2>1. c.key \in Keeps(tracked, d)
    BY <1>2, <1>3, NoopConstants DEF NoopInv, Kept
  <2>2. QED
    BY <2>1 DEF Keeps, Never
<1>8. Awaited(inbox[d], spoken, d, c.key) => Newest(inbox[d], spoken, d, c.key, c.value)
  BY <1>2, <1>3, <1>4, <1>6, <1>7 DEF NoopInv, InTheAir
<1>9. inbox[d] \in Seq(Asks) /\ spoken \in Seq(Sayings)
  BY <1>2 DEF NoopInv, NoopTypes
<1>10. CASE inbox[d] # << >>
  <2> DEFINE box == inbox[d]
             n == Len(box)
  <2>1. n \in Nat /\ n \in 1..n /\ box[n] \in Asks /\ \A j : ~(j \in n + 1..n)
    BY <1>9, <1>10
  <2>2. box[n].key \in Noops!ColorKeys
    BY <2>1 DEF Asks
  <2>3. Awaited(box, spoken, d, box[n].key)
    BY <2>1 DEF Awaited
  <2>4. box[n].key = c.key
    BY <1>5, <2>2, <2>3
  <2>5. box[n].value = c.value
    BY <1>8, <2>1, <2>3, <2>4 DEF Newest
  <2>6. box[n] = c
    BY <2>1, <2>4, <2>5 DEF Asks
  <2>7. QED
    BY <1>10, <2>6 DEF Noops!WillHold, Noops!Last
<1>11. CASE inbox[d] = << >>
  <2> DEFINE told == {i \in 1..Len(spoken) : spoken[i].about = d /\ spoken[i].answers # None}
  <2>1. Current(spoken, members, d, values[d], actual[d])
    BY <1>2 DEF NoopInv
  <2>2. Len(spoken) \in Nat /\ \A i \in 1..Len(spoken) : spoken[i] \in Sayings
    BY <1>9
  <2>3. \A j \in 1..Len(spoken) : Renews(spoken, members, j, d) => j \in told
    BY <1>4 DEF Renews
  <2>4. CASE told = {}
    <3>1. ~Renewed(spoken, members, 1, d)
      BY <2>3, <2>4 DEF Renewed
    <3>2. QED
      BY <1>3, <1>11, <2>1, <3>1 DEF Current, Noops!WillHold
  <2>5. CASE told # {}
    <3>1. told \in SUBSET (0..Len(spoken))
      BY <2>2
    <3> DEFINE i == Max(told)
    <3>2. i \in told /\ \A j \in told : i >= j
      BY <2>2, <2>5, <3>1, MaxOf
    <3> HIDE DEF i
    <3>3. i \in 1..Len(spoken) /\ spoken[i].about = d /\ spoken[i].answers # None
      BY <3>2
    <3>4. \A j \in i + 1..Len(spoken) : j \in 1..Len(spoken) /\ j \notin told
      BY <2>2, <3>2, <3>3
    <3>5. spoken[i].answers \in Noops!ColorKeys
      BY <2>2, <3>3 DEF Sayings
    <3>6. Answers(spoken[i], d, spoken[i].answers)
      BY <3>3 DEF Answers
    <3>7. Awaited(inbox[d], spoken, d, spoken[i].answers)
      BY <3>3, <3>6 DEF Awaited
    <3>8. spoken[i].answers = c.key
      BY <1>5, <3>5, <3>7
    <3>9. spoken[i].kind = "state" /\ spoken[i].content["color_mode"] = c.key
      BY <3>3, <3>8 DEF NoopInv, NoopTypes, WellSaid
    <3>10. spoken[i].content[c.key] = c.value
      <4>1. \A j \in i + 1..Len(spoken) : ~Answers(spoken[j], d, c.key)
        BY <1>6, <3>4, NoopConstants DEF Answers
      <4>2. \A j \in 1..Len(inbox[d]) : inbox[d][j].key # c.key
        BY <1>11
      <4>3. QED
        BY <1>8, <3>3, <3>6, <3>7, <3>8, <4>1, <4>2 DEF Newest
    <3>11. ~Renewed(spoken, members, i + 1, d)
      BY <2>3, <3>4 DEF Renewed
    <3>12. spoken[i].content = actual[d]
      BY <2>1, <3>3, <3>9, <3>11 DEF Current
    <3>13. QED
      BY <1>11, <3>9, <3>10, <3>12 DEF Noops!WillHold
  <2>6. QED
    BY <2>4, <2>5
<1>12. QED
  BY <1>10, <1>11

-----------------------------------------------------------------------------
(* Whether a command changed anything: a command *)

\* What a command adds to what is said: nothing, or a state of the group's.
LEMMA CommandSays ==
    ASSUME NoopInv, NEW target \in Noops!Names, NEW c \in Asks, Noops!Command(target, c)
    PROVE  \/ spoken' = spoken
           \/ \E m \in Sayings : /\ WellSaid(m) /\ m.answers = None /\ m.about = Group
                                 /\ m.kind = "state" /\ spoken' = Append(spoken, m)
<1> DEFINE state == [k \in {c.key, "color_mode"} |-> IF k = c.key THEN c.value ELSE c.key]
           m == Noops!Message("state", Group, state, None)
<1>1. spoken' = spoken \/ spoken' = Append(spoken, m)
  BY DEF Noops!Command
<1>2. state \in Assignments
  BY StatesAssign
<1> HIDE DEF state
<1>3. m.kind = "state" /\ m.about = Group /\ m.content = state /\ m.answers = None
  BY DEF Noops!Message
<1>4. m \in Sayings
  BY <1>2, NoopConstants DEF Noops!Message, Sayings
<1>5. WellSaid(m)
  BY <1>2, <1>3, NoopConstants DEF WellSaid
<1>6. QED
  BY <1>1, <1>3, <1>4, <1>5

\* The names for which a command to target is held as in flight.
HeldAs(target) == IF Noops!Complete(target) THEN Noops!Judged(target) ELSE {}

\* What a command makes of what is tracked and in flight.
LEMMA CommandTracks ==
    ASSUME NoopInv, NEW target \in Noops!Names, NEW c \in Asks, Noops!Command(target, c)
    PROVE  /\ Table(tracked') /\ Kept(tracked', values, inflight')
           /\ \A d \in Lamps, k \in Noops!ColorKeys : Never(tracked, d, k) => Never(tracked', d, k)
           /\ \A d \in Lamps : d \notin HeldAs(target) => inflight'[d] = inflight[d]
           /\ \A d \in HeldAs(target) \cap Lamps : \A k \in DOMAIN inflight[d] :
                k # c.key => k \in DOMAIN inflight'[d] /\ inflight'[d][k] = inflight[d][k]
           /\ \A d \in HeldAs(target) \cap Lamps :
                Never(tracked', d, c.key) \/ (c.key \in DOMAIN inflight'[d] /\ inflight'[d][c.key] = c.value)
<1>1. Table(tracked) /\ Kept(tracked, values, inflight)
  BY DEF NoopInv
<1>2. CASE ~Noops!Complete(target)
  <2>1. tracked' = tracked /\ inflight' = inflight /\ HeldAs(target) = {}
    BY <1>2 DEF HeldAs, Noops!Command
  <2>2. QED
    BY <1>1, <2>1
<1>3. CASE Noops!Complete(target)
  <2> DEFINE who == Noops!Judged(target)
  <2>1. who \in SUBSET Noops!Names /\ c.key \in Noops!ColorKeys /\ HeldAs(target) = who
    BY <1>3, TargetsAre DEF HeldAs, Asks
  <2>2. /\ Noops!Track(who, c.key)
        /\ inflight' = [n \in Noops!Names |->
             IF n \in who \cap DOMAIN tracked' /\ c.key \in tracked'[n]
             THEN [k \in DOMAIN inflight[n] \cup {c.key} |-> IF k = c.key THEN c.value ELSE inflight[n][k]]
             ELSE inflight[n]]
    BY <1>3 DEF Noops!Command
  <2> HIDE DEF who
  <2>3. /\ Table(tracked')
        /\ \A n \in Noops!Names : Keeps(tracked, n) \subseteq Keeps(tracked', n)
        /\ \A n \in who : (n \in DOMAIN tracked' /\ c.key \in tracked'[n]) \/ Never(tracked', n, c.key)
        /\ \A n \in Noops!Names, q \in Noops!ColorKeys : Never(tracked, n, q) => Never(tracked', n, q)
    BY <1>1, <2>1, <2>2, NamesTracked
  <2>4. Kept(tracked', values, inflight')
    <3>1. ASSUME NEW n \in Noops!Names
          PROVE  /\ DOMAIN values[n] \subseteq Keeps(tracked', n)
                 /\ DOMAIN inflight'[n] \subseteq Keeps(tracked', n)
      <4>1. DOMAIN values[n] \subseteq Keeps(tracked', n) /\ DOMAIN inflight[n] \subseteq Keeps(tracked', n)
        BY <1>1, <2>3 DEF Kept
      <4>2. CASE n \in who \cap DOMAIN tracked' /\ c.key \in tracked'[n]
        <5>1. DOMAIN inflight'[n] = DOMAIN inflight[n] \cup {c.key} /\ c.key \in Keeps(tracked', n)
          BY <2>2, <4>2 DEF Keeps
        <5>2. QED
          BY <4>1, <5>1
      <4>3. CASE ~(n \in who \cap DOMAIN tracked' /\ c.key \in tracked'[n])
        <5>1. inflight'[n] = inflight[n]
          BY <2>2, <4>3
        <5>2. QED
          BY <4>1, <5>1
      <4>4. QED
        BY <4>2, <4>3
    <3>2. QED
      BY <1>1, <2>2, <3>1 DEF Kept
  <2>5. ASSUME NEW d \in Lamps, d \notin HeldAs(target) PROVE inflight'[d] = inflight[d]
    BY <2>1, <2>2, <2>5, NoopConstants
  <2>6. ASSUME NEW d \in HeldAs(target) \cap Lamps, NEW k \in DOMAIN inflight[d], k # c.key
        PROVE  k \in DOMAIN inflight'[d] /\ inflight'[d][k] = inflight[d][k]
    BY <2>2, <2>6, NoopConstants
  <2>7. ASSUME NEW d \in HeldAs(target) \cap Lamps, ~Never(tracked', d, c.key)
        PROVE  c.key \in DOMAIN inflight'[d] /\ inflight'[d][c.key] = c.value
    <3>1. d \in who \cap DOMAIN tracked' /\ c.key \in tracked'[d] /\ d \in Noops!Names
      BY <2>1, <2>3, <2>7, NoopConstants
    <3>2. QED
      BY <2>2, <3>1
  <2>8. QED
    BY <2>3, <2>4, <2>5, <2>6, <2>7, NoopConstants
<1>4. QED
  BY <1>2, <1>3

\* The verdict that a command gets.
LEMMA CommandAsks ==
    ASSUME NoopInv, NEW target \in Noops!Names, NEW c \in Asks, Noops!Command(target, c)
    PROVE  /\ asked'.verdict \in {None, "noop", "changing", "unknown"}
           /\ asked'.verdict = "noop" => asked'.holds \/ asked'.blind \/ asked'.crossing
<1> DEFINE verdict == Noops!Assess(target, c)
           holds == \A d \in Noops!Targets(target) : Noops!WillHold(d, c)
           blind == Noops!Blind(target)
           crossing == \E d \in Noops!Targets(target) : \E k \in Noops!Unheard(d) : k # c.key
<1>1. asked' = [verdict |-> verdict, holds |-> holds, blind |-> blind, crossing |-> crossing]
  BY DEF Noops!Command
<1>2. verdict \in {"noop", "changing", "unknown"}
  BY DEF Noops!Assess
<1>3. verdict = "noop" => holds \/ blind \/ crossing
  BY NoopMeans
<1> HIDE DEF verdict, holds, blind, crossing
<1>4. QED
  BY <1>1, <1>2, <1>3

\* A command is judged and sent.
LEMMA CommandStep ==
    ASSUME NoopInv, NEW target \in Noops!Names, NEW c \in Asks, Noops!Command(target, c)
    PROVE  NoopInv'
<1> DEFINE held == HeldAs(target)
           targets == Noops!Targets(target)
<1>1. /\ inbox' = [d \in Lamps |-> IF d \in targets THEN Append(inbox[d], c) ELSE inbox[d]]
      /\ unseen' = unseen \cup (targets \ held)
                          \cup {d \in Lamps : d \in held \ targets /\ Noops!Unheard(d) # {}}
      /\ UNCHANGED <<actual, roster, named, members, values>>
  BY DEF HeldAs, Noops!Command
<1>2. targets \in SUBSET Lamps
  BY TargetsAre
<1>3. /\ Table(tracked') /\ Kept(tracked', values, inflight')
      /\ \A d \in Lamps, k \in Noops!ColorKeys : Never(tracked, d, k) => Never(tracked', d, k)
      /\ \A d \in Lamps : d \notin held => inflight'[d] = inflight[d]
      /\ \A d \in held \cap Lamps : \A k \in DOMAIN inflight[d] :
           k # c.key => k \in DOMAIN inflight'[d] /\ inflight'[d][k] = inflight[d][k]
      /\ \A d \in held \cap Lamps :
           Never(tracked', d, c.key) \/ (c.key \in DOMAIN inflight'[d] /\ inflight'[d][c.key] = c.value)
  BY CommandTracks
<1>4. \A d \in Lamps : Noops!Unheard(d) = {k \in Noops!ColorKeys : Awaited(inbox[d], spoken, d, k)}
  BY UnheardIs DEF NoopInv
<1> HIDE DEF held, targets
<1>5. \/ spoken' = spoken
      \/ \E m \in Sayings : /\ WellSaid(m) /\ m.answers = None /\ m.about = Group
                            /\ m.kind = "state" /\ spoken' = Append(spoken, m)
  BY CommandSays
<1>6. \A d \in Lamps : inbox[d] \in Seq(Asks)
  BY DEF NoopInv, NoopTypes
<1>7. \A d \in Lamps : /\ d \in targets => inbox'[d] = Append(inbox[d], c)
                       /\ d \notin targets => inbox'[d] = inbox[d]
  BY <1>1
<1>8. NoopTypes'
  <2>1. inbox' \in [Lamps -> Seq(Asks)]
    BY <1>1, <1>6
  <2>2. spoken' \in Seq(Sayings) /\ \A i \in 1..Len(spoken') : WellSaid(spoken'[i])
    BY <1>5, SaidTypes DEF NoopInv, NoopTypes
  <2>3. unseen' \in SUBSET Lamps
    BY <1>1, <1>2 DEF NoopInv, NoopTypes
  <2>4. QED
    BY <1>1, <2>1, <2>2, <2>3 DEF NoopInv, NoopTypes
<1>9. /\ Lists(spoken', members, named, roster)
      /\ \A d \in Lamps : Current(spoken', members, d, values[d], actual[d])
      /\ \A d \in Lamps, k \in Noops!ColorKeys :
           /\ \A v : Newest(inbox[d], spoken, d, k, v) => Newest(inbox[d], spoken', d, k, v)
           /\ Awaited(inbox[d], spoken', d, k) => Awaited(inbox[d], spoken, d, k)
  <2>1. CASE spoken' = spoken
    BY <2>1 DEF NoopInv
  <2>2. CASE \E m \in Sayings : /\ WellSaid(m) /\ m.answers = None /\ m.about = Group
                                /\ m.kind = "state" /\ spoken' = Append(spoken, m)
    <3>1. PICK m \in Sayings : /\ WellSaid(m) /\ m.answers = None /\ m.about = Group
                               /\ m.kind = "state" /\ spoken' = Append(spoken, m)
      BY <2>2
    <3>2. Appended(spoken, spoken', m)
      BY <3>1, SaidTypes DEF NoopInv
    <3>3. Lists(spoken', members, named, roster)
      BY <3>1, <3>2, AppendKeepsLists DEF NoopInv
    <3>4. ASSUME NEW d \in Lamps PROVE Current(spoken', members, d, values[d], actual[d])
      <4>1. m.about # d
        BY <3>1, NoopConstants
      <4>2. Current(spoken, members, d, values[d], actual[d])
        BY DEF NoopInv
      <4>3. QED
        BY <3>2, <4>1, <4>2, AppendKeepsCurrent
    <3>5. ASSUME NEW d \in Lamps, NEW k \in Noops!ColorKeys
          PROVE  /\ \A v : Newest(inbox[d], spoken, d, k, v) => Newest(inbox[d], spoken', d, k, v)
                 /\ Awaited(inbox[d], spoken', d, k) => Awaited(inbox[d], spoken, d, k)
      <4>1. ~Answers(m, d, k)
        BY <3>1, NoopConstants DEF Answers
      <4>2. QED
        BY <3>2, <4>1, SayNewest
    <3>6. QED
      BY <3>3, <3>4, <3>5
  <2>3. QED
    BY <1>5, <2>1, <2>2
<1>10. ASSUME NEW d \in Lamps, NEW k \in Noops!ColorKeys, d \notin unseen'
       PROVE  InTheAir(inbox'[d], spoken', d, k, inflight'[d], tracked')
  <2>1. InTheAir(inbox[d], spoken, d, k, inflight[d], tracked) /\ d \notin unseen
    BY <1>1, <1>10 DEF NoopInv
  <2>2. CASE d \in targets
    <3> DEFINE box == inbox[d]
               after == Append(inbox[d], c)
    <3>1. d \in held
      BY <1>1, <1>10, <2>2
    <3>2. Appended(box, after, c)
      BY <1>6, Positions
    <3> HIDE DEF box, after
    <3>3. /\ k = c.key => Newest(after, spoken', d, k, c.value)
          /\ k # c.key => \A v : Newest(box, spoken', d, k, v) => Newest(after, spoken', d, k, v)
          /\ Awaited(after, spoken', d, k) => k = c.key \/ Awaited(box, spoken', d, k)
      BY <3>2, SendNewest
    <3>4. inbox'[d] = after
      BY <1>7, <2>2 DEF after
    <3>5. CASE k = c.key
      BY <1>3, <3>1, <3>3, <3>4, <3>5 DEF InTheAir
    <3>6. CASE k # c.key
      <4>1. SUFFICES ASSUME Awaited(after, spoken', d, k), ~Never(tracked', d, k)
                     PROVE  k \in DOMAIN inflight'[d] /\ Newest(after, spoken', d, k, inflight'[d][k])
        BY <3>4 DEF InTheAir
      <4>2. Awaited(box, spoken, d, k) /\ ~Never(tracked, d, k)
        BY <1>3, <1>9, <3>3, <3>6, <4>1 DEF box
      <4>3. k \in DOMAIN inflight[d] /\ Newest(box, spoken, d, k, inflight[d][k])
        BY <2>1, <4>2 DEF InTheAir, box
      <4>4. Newest(after, spoken', d, k, inflight[d][k])
        BY <1>9, <3>3, <3>6, <4>3 DEF box
      <4>5. QED
        BY <1>3, <3>1, <3>6, <4>3, <4>4
    <3>7. QED
      BY <3>5, <3>6
  <2>3. CASE d \notin targets
    <3>1. inbox'[d] = inbox[d]
      BY <1>7, <2>3
    <3>2. CASE d \in held
      <4>1. Noops!Unheard(d) = {}
        BY <1>1, <1>10, <2>3, <3>2
      <4>2. ~Awaited(inbox[d], spoken', d, k)
        BY <1>4, <1>9, <4>1
      <4>3. QED
        BY <3>1, <4>2 DEF InTheAir
    <3>3. CASE d \notin held
      BY <1>3, <1>9, <2>1, <3>1, <3>3 DEF InTheAir
    <3>4. QED
      BY <3>2, <3>3
  <2>4. QED
    BY <2>2, <2>3
<1>11. asked'.verdict \in {None, "noop", "changing", "unknown"} /\ Noops!NoopIsTrue'
  BY CommandAsks DEF Noops!NoopIsTrue
<1>12. QED
  BY <1>1, <1>3, <1>8, <1>9, <1>10, <1>11 DEF NoopInv

\* Every step of the part keeps the invariant.
LEMMA NoopStep ==
    ASSUME NoopInv, [Noops!Next]_noops
    PROVE  NoopInv'
<1>1. CASE UNCHANGED noops
  BY <1>1 DEF noops, NoopInv, NoopTypes, Noops!NoopIsTrue
<1>2. ASSUME NEW target \in Commanded, NEW c \in Settings, Noops!Command(target, c) PROVE NoopInv'
  <2>1. target \in Noops!Names /\ c \in Asks
    BY NoopConstants
  <2>2. QED
    BY <1>2, <2>1, CommandStep
<1>3. ASSUME NEW d \in Lamps, Noops!Execute(d) \/ Noops!Report(d) PROVE NoopInv'
  BY <1>3, ExecuteStep, ReportStep
<1>4. ASSUME NEW c \in Settings, Noops!Press(c) PROVE NoopInv'
  BY <1>4, PressStep
<1>5. ASSUME NEW devices \in SUBSET Lamps, Noops!Regroup(devices) PROVE NoopInv'
  BY <1>5, RegroupStep
<1>6. ASSUME NEW n \in Noops!Names, NEW k \in Noops!ColorKeys, Noops!Lapse(n, k) PROVE NoopInv'
  BY <1>6, LapseStep
<1>7. CASE Noops!Receive
  BY <1>7, ReceiveStep
<1>8. QED
  BY <1>1, <1>2, <1>3, <1>4, <1>5, <1>6, <1>7 DEF Noops!Next

\* What the invariant says of the types and of the verdicts.
LEMMA NoopInvHolds == NoopInv => Noops!TypeOK /\ Noops!NoopIsTrue
<1>1. SUFFICES ASSUME NoopInv PROVE Noops!TypeOK
  BY DEF NoopInv
<1>2. Table(tracked) /\ Kept(tracked, values, inflight)
      /\ asked.verdict \in {None, "noop", "changing", "unknown"}
  BY <1>1 DEF NoopInv
<1>3. ASSUME NEW n \in Noops!Names
      PROVE  \/ DOMAIN values[n] = {} /\ DOMAIN inflight[n] = {}
             \/ n \in DOMAIN tracked /\ DOMAIN values[n] \cup DOMAIN inflight[n] \subseteq tracked[n]
  BY <1>2 DEF Kept, Keeps
<1>4. QED
  BY <1>2, <1>3, NoopConstants DEF Table, Noops!TypeOK

\* A command that is called a no-op asks every device it goes to for what that
\* device will hold when the commands before it are carried out, but for what
\* no collector could see and for a command of the other colour key that is
\* still in flight (noop.py:28-52): for any lamps, any number of commands and
\* of reports, presses and regroupings, any caps of the tables.
THEOREM NoopsAreTrue == Spec => []NoopIsTrue
<1>1. Init => NoopInv
  BY InitNoop DEF Init
<1>2. NoopInv /\ [Next]_vars => NoopInv'
  BY NoopStep, Apart
<1>3. NoopInv => NoopIsTrue
  BY NoopInvHolds DEF NoopIsTrue
<1>4. QED
  BY <1>1, <1>2, <1>3, PTL DEF Spec

-----------------------------------------------------------------------------
(* The mesh graph and the depths *)

\* An instance has its own copies of the library's operators.
LEMMA GraphCopies ==
    \A s, S, f : /\ Graph!Min(S) = Min(S) /\ Graph!Cardinality(S) = Cardinality(S)
                 /\ Graph!IsFiniteSet(S) = IsFiniteSet(S)
                 /\ Graph!IsInjective(f) = \A a, b \in DOMAIN f : f[a] = f[b] => a = b
BY DEF Graph!Min, Graph!Cardinality, Graph!IsFiniteSet, Graph!IsInjective, Min, Cardinality, IsFiniteSet

\* What the model's constants are.
LEMMA GraphConstants ==
    /\ IsFiniteSet(Nodes) /\ Coordinator \in Nodes
    /\ Qualities \subseteq Nat /\ None \notin Nat /\ None \notin Seq(Nodes)
BY GraphAssumption, GraphCopies DEF Graph!GraphAssumption

\* A row of a neighbour table, the rows between two nodes, and their qualities.
RowsOfMap == [link : Links, lqi : Qualities \cup {None}]
RowsOf(e) == {r \in rows : {r.link.source, r.link.target} = e}
LqisOf(e) == {r.lqi : r \in RowsOf(e)} \ {None}
Pairs == {e \in SUBSET Nodes : Cardinality(e) = 2}

\* The edges of a node, and the routes through it.
EdgesAt(n) == {e \in DOMAIN edges : n \in e}
RoutesThrough(n) == {r \in rows : r.link.hop = n}

\* The graph that the rows read so far make.
GraphBuilt ==
    /\ rows \subseteq RowsOfMap /\ IsFiniteSet(rows)
    /\ edges = [e \in DOMAIN edges |-> edges[e]]
    /\ DOMAIN edges = {e \in Pairs : RowsOf(e) # {}}
    /\ \A e \in DOMAIN edges : edges[e] = IF LqisOf(e) = {} THEN None ELSE Min(LqisOf(e))
    /\ degree \in [Nodes -> Nat] /\ tableDegree \in [Nodes -> Nat] /\ routesVia \in [Nodes -> Nat]
    /\ \A n \in Nodes : /\ degree[n] = Cardinality(EdgesAt(n))
                        /\ degree[n] <= tableDegree[n]
                        /\ routesVia[n] = Cardinality(RoutesThrough(n))

\* The nodes that wait to be visited.
Waits(n) == \E i \in 1..Len(queue) : queue[i] = n

\* The search so far: a node reached has a parent one step nearer; a visited
\* node has its peers reached, none more than a step further, and those that
\* wait are in order, none nearer than a visited one.
Searched ==
    /\ depths = [n \in DOMAIN depths |-> depths[n]]
    /\ DOMAIN depths \in SUBSET Nodes /\ Graph!Root \in DOMAIN depths
    /\ \A n \in DOMAIN depths : /\ depths[n] \in Nat /\ depths[n] < Cardinality(DOMAIN depths)
                                /\ depths[n] = 0 <=> n = Graph!Root
    /\ queue \in Seq(DOMAIN depths)
    /\ \A n \in DOMAIN depths \ {Graph!Root} :
         \E m \in DOMAIN depths : n \in Graph!Peers(m) /\ depths[n] = depths[m] + 1
    /\ \A n \in DOMAIN depths : ~Waits(n) =>
         \A m \in Graph!Peers(n) : m \in DOMAIN depths /\ depths[m] <= depths[n] + 1
    /\ \A n \in DOMAIN depths : \A i \in 1..Len(queue) : ~Waits(n) => depths[n] <= depths[queue[i]]
    /\ \A i, j \in 1..Len(queue) : i <= j =>
         depths[queue[i]] <= depths[queue[j]] /\ depths[queue[j]] <= depths[queue[i]] + 1

\* The invariant: no depth before the search, and then those of it.
GraphInv ==
    /\ GraphBuilt
    /\ queue = None => DOMAIN depths = {}
    /\ queue # None => Searched

\* Two nodes that differ are a pair, and one node is none.
LEMMA PairIs ==
    ASSUME NEW a, NEW b
    PROVE  {a, b} \in Pairs <=> {a, b} \subseteq Nodes /\ a # b
<1>1. a # b => Cardinality({a, b}) = 2
  <2>1. IsFiniteSet({a}) /\ Cardinality({a}) = 1
    BY FS_Singleton
  <2>2. a # b => Cardinality({a} \cup {b}) = 2
    BY <2>1, FS_AddElement
  <2>3. {a} \cup {b} = {a, b}
    OBVIOUS
  <2>4. QED
    BY <2>2, <2>3
<1>2. a = b => Cardinality({a, b}) = 1
  <2>1. a = b => {a, b} = {a}
    OBVIOUS
  <2>2. QED
    BY <2>1, FS_Singleton
<1>3. QED
  BY <1>1, <1>2 DEF Pairs

\* What there is to be read is finite, and the graph of no rows is empty.
LEMMA GraphInit == Graph!Init => GraphInv
<1> SUFFICES ASSUME Graph!Init PROVE GraphInv
  OBVIOUS
<1> USE DEF Graph!Init
<1>1. DOMAIN edges = {} /\ DOMAIN depths = {}
  OBVIOUS
<1>2. \A e : RowsOf(e) = {}
  BY DEF RowsOf
<1>3. \A n : EdgesAt(n) = {} /\ RoutesThrough(n) = {}
  BY <1>1 DEF EdgesAt, RoutesThrough
<1>4. GraphBuilt
  <2>1. rows \subseteq RowsOfMap /\ IsFiniteSet(rows)
    BY FS_EmptySet
  <2>2. edges = [e \in DOMAIN edges |-> edges[e]]
    OBVIOUS
  <2>3. DOMAIN edges = {e \in Pairs : RowsOf(e) # {}}
    BY <1>1, <1>2
  <2>4. \A n \in Nodes : degree[n] = Cardinality(EdgesAt(n)) /\ routesVia[n] = Cardinality(RoutesThrough(n))
    BY <1>3, FS_EmptySet
  <2>5. QED
    BY <1>1, <2>1, <2>2, <2>3, <2>4 DEF GraphBuilt
<1>5. QED
  BY <1>1, <1>4 DEF GraphInv

\* Whom a row concerns, and the row with its quality.
Joins(l) == {l.source, l.target}
Entry(l, q) == [link |-> l, lqi |-> q]

\* What a row read changes.
LEMMA ReadFacts ==
    ASSUME NEW l \in Links, NEW q \in Qualities \cup {None}, GraphBuilt, Graph!Read(l, q)
    PROVE  /\ Entry(l, q) \notin rows /\ rows' = rows \cup {Entry(l, q)}
           /\ Entry(l, q) \in RowsOfMap
           /\ \A d : (RowsOf(d))' = IF d = Joins(l) THEN RowsOf(d) \cup {Entry(l, q)} ELSE RowsOf(d)
           /\ Joins(l) \notin Pairs => edges' = edges /\ degree' = degree
           /\ Joins(l) \in Pairs =>
                /\ edges' = [d \in DOMAIN edges \cup {Joins(l)} |->
                               IF d # Joins(l) THEN edges[d]
                               ELSE IF Joins(l) \in DOMAIN edges THEN Graph!Worst(Joins(l), q) ELSE q]
                /\ degree' = [n \in Nodes |->
                     degree[n] + IF Joins(l) \notin DOMAIN edges /\ n \in Joins(l) THEN 1 ELSE 0]
           /\ tableDegree' = [n \in Nodes |->
                tableDegree[n] + (IF n = l.source THEN 1 ELSE 0) + (IF n = l.target THEN 1 ELSE 0)]
           /\ routesVia' = [n \in Nodes |-> routesVia[n] + (IF n = l.hop THEN 1 ELSE 0)]
           /\ queue = None /\ queue' = None /\ depths' = depths
<1>1. Joins(l) \in Pairs <=> Joins(l) \subseteq Nodes /\ l.source # l.target
  BY PairIs DEF Joins
<1>2. /\ Entry(l, q) \notin rows /\ rows' = rows \cup {Entry(l, q)}
      /\ Entry(l, q) \in RowsOfMap
  BY DEF Graph!Read, Entry, RowsOfMap
<1>3. \A d : (RowsOf(d))' = IF d = Joins(l) THEN RowsOf(d) \cup {Entry(l, q)} ELSE RowsOf(d)
  BY <1>2 DEF RowsOf, Entry, Joins
<1>4. Joins(l) \notin Pairs => edges' = edges /\ degree' = degree
  <2>1. Joins(l) \notin Pairs => degree' = [n \in Nodes |-> degree[n] + 0] /\ edges' = edges
    BY <1>1 DEF Graph!Read, Joins
  <2>2. degree \in [Nodes -> Nat]
    BY DEF GraphBuilt
  <2>3. QED
    BY <2>1, <2>2
<1>5. Joins(l) \in Pairs =>
        /\ edges' = [d \in DOMAIN edges \cup {Joins(l)} |->
                       IF d # Joins(l) THEN edges[d]
                       ELSE IF Joins(l) \in DOMAIN edges THEN Graph!Worst(Joins(l), q) ELSE q]
        /\ degree' = [n \in Nodes |->
             degree[n] + IF Joins(l) \notin DOMAIN edges /\ n \in Joins(l) THEN 1 ELSE 0]
  BY <1>1 DEF Graph!Read, Joins
<1>6. QED
  BY <1>2, <1>3, <1>4, <1>5 DEF Graph!Read

\* The worst quality of an edge with one row more.
LEMMA WorstOf ==
    ASSUME NEW l \in Links, NEW q \in Qualities \cup {None}, GraphBuilt, Graph!Read(l, q),
           Joins(l) \in Pairs
    PROVE  edges'[Joins(l)] = IF (LqisOf(Joins(l)))' = {} THEN None ELSE Min((LqisOf(Joins(l)))')
<1> DEFINE e == Joins(l)
           old == LqisOf(e)
           new == (LqisOf(e))'
<1>1. new = old \cup ({q} \ {None})
  <2>1. (RowsOf(e))' = RowsOf(e) \cup {Entry(l, q)}
    BY ReadFacts
  <2>2. \A R : {r.lqi : r \in R \cup {Entry(l, q)}} = {r.lqi : r \in R} \cup {q}
    <3>1. Entry(l, q).lqi = q
      BY DEF Entry
    <3>2. \A R, x : {r.lqi : r \in R \cup {x}} = {r.lqi : r \in R} \cup {x.lqi}
      OBVIOUS
    <3>3. QED
      BY <3>1, <3>2
  <2>3. new = {r.lqi : r \in RowsOf(e) \cup {Entry(l, q)}} \ {None}
    BY <2>1 DEF LqisOf, Joins
  <2>4. old = {r.lqi : r \in RowsOf(e)} \ {None}
    BY DEF LqisOf
  <2>5. new = ({r.lqi : r \in RowsOf(e)} \cup {q}) \ {None}
    BY <2>2, <2>3
  <2> HIDE DEF old, new, e
  <2>6. QED
    BY <2>4, <2>5
<1>2. old \in SUBSET Nat /\ (q # None => q \in Nat) /\ None \notin Nat
  <2>1. \A r \in RowsOf(e) : r.lqi \in Qualities \cup {None}
    BY DEF GraphBuilt, RowsOf, RowsOfMap
  <2>2. QED
    BY <2>1, GraphConstants DEF LqisOf
<1>3. edges'[e] = IF e \in DOMAIN edges THEN Graph!Worst(e, q) ELSE q
  <2>1. edges' = [d \in DOMAIN edges \cup {e} |->
                    IF d # e THEN edges[d]
                    ELSE IF e \in DOMAIN edges THEN Graph!Worst(e, q) ELSE q]
    BY ReadFacts
  <2>2. QED
    BY <2>1
<1>4. e \in DOMAIN edges => edges[e] = IF old = {} THEN None ELSE Min(old)
  BY DEF GraphBuilt
<1>5. e \notin DOMAIN edges => old = {}
  <2>1. e \notin DOMAIN edges => RowsOf(e) = {}
    BY DEF GraphBuilt
  <2>2. QED
    BY <2>1 DEF LqisOf
<1>6. old # {} => Min(old) \in old /\ \A y \in old : Min(old) <= y
  <2> HIDE DEF old
  <2> QED BY <1>2, MinOf
<1>7. new # {} => Min(new) \in new /\ \A y \in new : Min(new) <= y
  <2>1. new \in SUBSET Nat
    BY <1>1, <1>2
  <2> HIDE DEF new
  <2> QED BY <2>1, MinOf
<1>8. CASE q = None
  <2>1. new = old
    BY <1>1, <1>8
  <2>2. edges'[e] = IF e \in DOMAIN edges THEN edges[e] ELSE None
    BY <1>3, <1>8 DEF Graph!Worst
  <2> HIDE DEF old, new, e
  <2>3. QED
    BY <2>1, <2>2, <1>4, <1>5 DEF old, new, e
<1>9. CASE q # None
  <2>1. new = old \cup {q} /\ q \in Nat
    BY <1>1, <1>2, <1>9
  <2>2. old = {} => Min(new) = q
    <3> HIDE DEF old, new, e
    <3> QED BY <2>1, <1>7
  <2>3. old # {} => Min(new) = IF q < Min(old) THEN q ELSE Min(old)
    <3> HIDE DEF old, new, e
    <3>1. old # {} => Min(old) \in Nat /\ Min(new) \in Nat
      BY <1>2, <1>6, <1>7, <2>1
    <3>2. QED
      BY <2>1, <1>6, <1>7, <3>1
  <2>4. e \in DOMAIN edges => edges'[e] = IF edges[e] = None \/ q < edges[e] THEN q ELSE edges[e]
    BY <1>3, <1>9 DEF Graph!Worst
  <2>5. old # {} => Min(old) # None
    <3> HIDE DEF old
    <3> QED BY <1>2, <1>6
  <2> HIDE DEF old, new, e
  <2>6. CASE e \in DOMAIN edges
    BY <2>1, <2>2, <2>3, <2>4, <2>5, <2>6, <1>4 DEF old, new, e
  <2>7. CASE e \notin DOMAIN edges
    BY <2>1, <2>2, <2>7, <1>3, <1>5 DEF old, new, e
  <2>8. QED
    BY <2>6, <2>7
<1>10. QED
  BY <1>8, <1>9
\* The edges after a row are those of the pairs that the rows are of.
LEMMA ReadEdges ==
    ASSUME NEW l \in Links, NEW q \in Qualities \cup {None}, GraphBuilt, Graph!Read(l, q)
    PROVE  /\ edges' = [e \in DOMAIN edges' |-> edges'[e]]
           /\ DOMAIN edges' = {e \in Pairs : (RowsOf(e))' # {}}
           /\ \A e \in DOMAIN edges' :
                edges'[e] = IF (LqisOf(e))' = {} THEN None ELSE Min((LqisOf(e))')
<1>1. DOMAIN edges' = IF Joins(l) \in Pairs THEN DOMAIN edges \cup {Joins(l)} ELSE DOMAIN edges
  BY ReadFacts
<1>2. edges' = [e \in DOMAIN edges' |-> edges'[e]]
  <2>1. CASE Joins(l) \in Pairs
    BY <2>1, ReadFacts
  <2>2. CASE Joins(l) \notin Pairs
    <3>1. edges' = edges
      BY <2>2, ReadFacts
    <3>2. edges = [e \in DOMAIN edges |-> edges[e]]
      BY DEF GraphBuilt
    <3>3. QED
      BY <3>1, <3>2
  <2>3. QED
    BY <2>1, <2>2
<1>3. DOMAIN edges = {e \in Pairs : RowsOf(e) # {}}
  BY DEF GraphBuilt
<1>4. \A e : (RowsOf(e))' = IF e = Joins(l) THEN RowsOf(e) \cup {Entry(l, q)} ELSE RowsOf(e)
  BY ReadFacts
<1>5. DOMAIN edges' = {e \in Pairs : (RowsOf(e))' # {}}
  BY <1>1, <1>3, <1>4
<1>6. ASSUME NEW e \in DOMAIN edges'
      PROVE  edges'[e] = IF (LqisOf(e))' = {} THEN None ELSE Min((LqisOf(e))')
  <2>1. CASE e = Joins(l)
    <3>1. Joins(l) \in Pairs
      BY <1>5, <2>1
    <3>2. edges'[Joins(l)] = IF (LqisOf(Joins(l)))' = {} THEN None ELSE Min((LqisOf(Joins(l)))')
      BY <3>1, WorstOf
    <3>3. QED
      BY <2>1, <3>2 DEF Joins
  <2>2. CASE e # Joins(l)
    <3>1. e \in DOMAIN edges
      BY <1>1, <2>2
    <3>2. edges'[e] = edges[e]
      <4>1. CASE Joins(l) \in Pairs
        <5>1. edges' = [d \in DOMAIN edges \cup {Joins(l)} |->
                          IF d # Joins(l) THEN edges[d]
                          ELSE IF Joins(l) \in DOMAIN edges THEN Graph!Worst(Joins(l), q) ELSE q]
          BY <4>1, ReadFacts
        <5>2. QED
          BY <2>2, <3>1, <5>1
      <4>2. CASE Joins(l) \notin Pairs
        BY <4>2, ReadFacts
      <4>3. QED
        BY <4>1, <4>2
    <3>3. (LqisOf(e))' = LqisOf(e)
      BY <1>4, <2>2 DEF LqisOf
    <3>4. edges[e] = IF LqisOf(e) = {} THEN None ELSE Min(LqisOf(e))
      BY <3>1 DEF GraphBuilt
    <3>5. QED
      BY <3>2, <3>3, <3>4
  <2>3. QED
    BY <2>1, <2>2
<1>7. QED
  BY <1>2, <1>5, <1>6

\* The edges of a node are finitely many, for the nodes are.
LEMMA EdgesFinite ==
    ASSUME GraphBuilt, NEW n
    PROVE  IsFiniteSet(EdgesAt(n)) /\ IsFiniteSet(RoutesThrough(n))
<1>1. IsFiniteSet(SUBSET Nodes)
  BY GraphConstants, FS_SUBSET
<1>2. EdgesAt(n) \in SUBSET (SUBSET Nodes)
  BY DEF GraphBuilt, EdgesAt, Pairs
<1>3. RoutesThrough(n) \in SUBSET rows /\ IsFiniteSet(rows)
  BY DEF GraphBuilt, RoutesThrough
<1>4. QED
  BY <1>1, <1>2, <1>3, FS_Subset

\* The counts after a row are those of the edges and routes that then are.
LEMMA ReadCounts ==
    ASSUME NEW l \in Links, NEW q \in Qualities \cup {None}, GraphBuilt, Graph!Read(l, q)
    PROVE  /\ degree' \in [Nodes -> Nat] /\ tableDegree' \in [Nodes -> Nat]
           /\ routesVia' \in [Nodes -> Nat]
           /\ \A n \in Nodes : /\ degree'[n] = Cardinality((EdgesAt(n))')
                               /\ degree'[n] <= tableDegree'[n]
                               /\ routesVia'[n] = Cardinality((RoutesThrough(n))')
<1>1. degree \in [Nodes -> Nat] /\ tableDegree \in [Nodes -> Nat] /\ routesVia \in [Nodes -> Nat]
  BY DEF GraphBuilt
<1>2. \A n \in Nodes : /\ degree[n] = Cardinality(EdgesAt(n))
                       /\ degree[n] <= tableDegree[n]
                       /\ routesVia[n] = Cardinality(RoutesThrough(n))
  BY DEF GraphBuilt
<1>3. DOMAIN edges' = IF Joins(l) \in Pairs THEN DOMAIN edges \cup {Joins(l)} ELSE DOMAIN edges
  BY ReadFacts
<1>4. /\ tableDegree' = [n \in Nodes |->
           tableDegree[n] + (IF n = l.source THEN 1 ELSE 0) + (IF n = l.target THEN 1 ELSE 0)]
      /\ routesVia' = [n \in Nodes |-> routesVia[n] + (IF n = l.hop THEN 1 ELSE 0)]
  BY ReadFacts
<1>5. \A n \in Nodes : degree'[n] = degree[n] + IF /\ Joins(l) \in Pairs
                                                   /\ Joins(l) \notin DOMAIN edges
                                                   /\ n \in Joins(l) THEN 1 ELSE 0
  <2>1. CASE Joins(l) \in Pairs
    <3>1. degree' = [n \in Nodes |->
            degree[n] + IF Joins(l) \notin DOMAIN edges /\ n \in Joins(l) THEN 1 ELSE 0]
      BY <2>1, ReadFacts
    <3>2. QED
      BY <2>1, <3>1
  <2>2. CASE Joins(l) \notin Pairs
    <3>1. degree' = degree
      BY <2>2, ReadFacts
    <3>2. QED
      BY <1>1, <2>2, <3>1
  <2>3. QED
    BY <2>1, <2>2
<1>6. degree' \in [Nodes -> Nat]
  <2>1. CASE Joins(l) \in Pairs
    <3>1. degree' = [n \in Nodes |->
            degree[n] + IF Joins(l) \notin DOMAIN edges /\ n \in Joins(l) THEN 1 ELSE 0]
      BY <2>1, ReadFacts
    <3>2. QED
      BY <1>1, <3>1
  <2>2. CASE Joins(l) \notin Pairs
    <3>1. degree' = degree
      BY <2>2, ReadFacts
    <3>2. QED
      BY <1>1, <3>1
  <2>3. QED
    BY <2>1, <2>2
<1>7. \A n \in Nodes : tableDegree'[n] =
        tableDegree[n] + (IF n = l.source THEN 1 ELSE 0) + (IF n = l.target THEN 1 ELSE 0)
  BY <1>4
<1>8. \A n \in Nodes : routesVia'[n] = routesVia[n] + (IF n = l.hop THEN 1 ELSE 0)
  BY <1>4
<1>9. tableDegree' \in [Nodes -> Nat] /\ routesVia' \in [Nodes -> Nat]
  BY <1>4, <1>1
<1>10. ASSUME NEW n \in Nodes
      PROVE  degree'[n] = Cardinality((EdgesAt(n))')
  <2>1. IsFiniteSet(EdgesAt(n))
    BY EdgesFinite
  <2>2. CASE Joins(l) \in Pairs /\ Joins(l) \notin DOMAIN edges /\ n \in Joins(l)
    <3>1. (EdgesAt(n))' = EdgesAt(n) \cup {Joins(l)} /\ Joins(l) \notin EdgesAt(n)
      BY <1>3, <2>2 DEF EdgesAt
    <3>2. Cardinality((EdgesAt(n))') = Cardinality(EdgesAt(n)) + 1
      BY <2>1, <3>1, FS_AddElement
    <3>3. QED
      BY <1>2, <1>5, <2>2, <3>2
  <2>3. CASE ~(Joins(l) \in Pairs /\ Joins(l) \notin DOMAIN edges /\ n \in Joins(l))
    <3>1. (EdgesAt(n))' = EdgesAt(n)
      BY <1>3, <2>3 DEF EdgesAt
    <3>2. degree'[n] = degree[n]
      BY <1>1, <1>5, <2>3
    <3>3. QED
      BY <1>2, <3>1, <3>2
  <2>4. QED
    BY <2>2, <2>3
<1>11. ASSUME NEW n \in Nodes
       PROVE  routesVia'[n] = Cardinality((RoutesThrough(n))')
  <2>1. IsFiniteSet(RoutesThrough(n))
    BY EdgesFinite
  <2>2. Entry(l, q) \notin rows /\ rows' = rows \cup {Entry(l, q)} /\ Entry(l, q).link.hop = l.hop
    BY ReadFacts DEF Entry
  <2>3. CASE n = l.hop
    <3>1. (RoutesThrough(n))' = RoutesThrough(n) \cup {Entry(l, q)} /\ Entry(l, q) \notin RoutesThrough(n)
      BY <2>2, <2>3 DEF RoutesThrough
    <3>2. Cardinality((RoutesThrough(n))') = Cardinality(RoutesThrough(n)) + 1
      BY <2>1, <3>1, FS_AddElement
    <3>3. QED
      BY <1>2, <1>8, <2>3, <3>2
  <2>4. CASE n # l.hop
    <3>1. (RoutesThrough(n))' = RoutesThrough(n)
      BY <2>2, <2>4 DEF RoutesThrough
    <3>2. QED
      BY <1>1, <1>2, <1>8, <2>4, <3>1
  <2>5. QED
    BY <2>3, <2>4
<1>12. \A n \in Nodes : degree'[n] <= tableDegree'[n]
  BY <1>1, <1>2, <1>5, <1>7 DEF Joins
<1>13. QED
  BY <1>6, <1>9, <1>10, <1>11, <1>12

\* A row read keeps the graph that of the rows.
LEMMA ReadStep ==
    ASSUME NEW l \in Links, NEW q \in Qualities \cup {None}, GraphInv, Graph!Read(l, q)
    PROVE  GraphInv'
<1>1. GraphBuilt
  BY DEF GraphInv
<1>2. rows' \subseteq RowsOfMap /\ IsFiniteSet(rows')
  <2>1. rows' = rows \cup {Entry(l, q)} /\ Entry(l, q) \in RowsOfMap
    BY <1>1, ReadFacts
  <2>2. rows \subseteq RowsOfMap /\ IsFiniteSet(rows)
    BY <1>1 DEF GraphBuilt
  <2>3. QED
    BY <2>1, <2>2, FS_AddElement
<1>3. GraphBuilt'
  BY <1>1, <1>2, ReadEdges, ReadCounts DEF GraphBuilt
<1>4. queue = None /\ queue' = None /\ depths' = depths
  BY <1>1, ReadFacts
<1>5. QED
  BY <1>3, <1>4 DEF GraphInv

\* The search leaves the graph alone.
LEMMA BuiltStays ==
    GraphBuilt /\ UNCHANGED <<rows, edges, degree, routesVia, tableDegree>> => GraphBuilt'
<1> SUFFICES ASSUME GraphBuilt, UNCHANGED <<rows, edges, degree, routesVia, tableDegree>>
             PROVE  GraphBuilt'
  OBVIOUS
<1>1. /\ \A e : (RowsOf(e))' = RowsOf(e) /\ (LqisOf(e))' = LqisOf(e) /\ (EdgesAt(e))' = EdgesAt(e)
      /\ \A n : (RoutesThrough(n))' = RoutesThrough(n)
  BY DEF RowsOf, LqisOf, EdgesAt, RoutesThrough
<1>2. QED
  BY <1>1 DEF GraphBuilt
\* The search begins at a root that the map has, and that waits.
LEMMA SearchStep ==
    ASSUME GraphInv, Graph!Search
    PROVE  GraphInv'
<1>1. PICK r : r = Graph!Root'
  OBVIOUS
<1>2. r \in Nodes
  BY <1>1, GraphConstants DEF Graph!Root
<1>3. depths' = [n \in {r} |-> 0] /\ queue' = <<r>>
  BY <1>1 DEF Graph!Search
<1>4. GraphBuilt'
  BY BuiltStays DEF GraphInv, Graph!Search
<1>5. DOMAIN depths' = {r} /\ depths'[r] = 0
  BY <1>3
<1>6. Cardinality(DOMAIN depths') = 1
  BY <1>5, FS_Singleton
<1>7. Len(queue') = 1 /\ queue'[1] = r /\ queue' \in Seq({r}) /\ queue' # None
  <2>1. queue' \in Seq(Nodes) /\ queue' \in Seq({r})
    BY <1>2, <1>3
  <2>2. QED
    BY <1>3, <2>1, GraphConstants
<1>8. (Waits(r))'
  BY <1>7 DEF Waits
<1>9. Searched'
  <2>1. /\ depths' = [n \in DOMAIN depths' |-> depths'[n]]
        /\ DOMAIN depths' \in SUBSET Nodes /\ r \in DOMAIN depths'
        /\ \A n \in DOMAIN depths' : /\ depths'[n] \in Nat /\ depths'[n] < Cardinality(DOMAIN depths')
                                     /\ depths'[n] = 0 <=> n = r
        /\ queue' \in Seq(DOMAIN depths')
    BY <1>2, <1>3, <1>5, <1>6, <1>7
  <2>2. DOMAIN depths' \ {r} = {}
    BY <1>5
  <2>3. \A n \in DOMAIN depths' : (Waits(n))'
    BY <1>5, <1>8
  <2>4. \A i, j \in 1..Len(queue') : depths'[queue'[i]] = 0 /\ depths'[queue'[j]] = 0
    BY <1>5, <1>7
  <2>5. QED
    BY <1>1, <2>1, <2>2, <2>3, <2>4 DEF Searched
<1>10. QED
  BY <1>4, <1>7, <1>9 DEF GraphInv

\* A visit: who is found, and who waits after it.
Found == Graph!Peers(queue[1]) \ DOMAIN depths

\* The nodes found wait behind those that did, each of them once.
LEMMA VisitQueue ==
    ASSUME Searched, queue # None, Graph!Visit
    PROVE  /\ Len(queue) \in Nat \ {0} /\ queue[1] \in DOMAIN depths
           /\ depths' = [n \in DOMAIN depths \cup Found |->
                           IF n \in Found THEN depths[queue[1]] + 1 ELSE depths[n]]
           /\ queue' \in Seq(DOMAIN depths \cup Found) /\ Len(queue') >= Len(queue) - 1
           /\ \A i \in 1..Len(queue') : IF i < Len(queue) THEN queue'[i] = queue[i + 1]
                                        ELSE queue'[i] \in Found
           /\ \A n \in Found : \E i \in 1..Len(queue') : queue'[i] = n
           /\ UNCHANGED <<rows, edges, degree, routesVia, tableDegree, registry>>
<1> DEFINE c == Cardinality(Found)
<1>1. IsFiniteSet(Found) /\ c \in Nat
  <2>1. Found \in SUBSET Nodes
    BY DEF Found, Graph!Peers
  <2>2. QED
    BY <2>1, GraphConstants, FS_Subset, FS_CardinalityType
<1>2. PICK order \in [1..c -> Found] :
        /\ Graph!IsInjective(order)
        /\ queue' = Tail(queue) \o order
        /\ depths' = [n \in DOMAIN depths \cup Found |->
                        IF n \in Found THEN depths[queue[1]] + 1 ELSE depths[n]]
  <2>1. Graph!Cardinality(Found) = c
    BY GraphCopies
  <2>2. \E order \in {f \in [1..Graph!Cardinality(Found) -> Found] : Graph!IsInjective(f)} :
          /\ queue' = Tail(queue) \o order
          /\ depths' = [n \in DOMAIN depths \cup Found |->
                          IF n \in Found THEN depths[queue[1]] + 1 ELSE depths[n]]
    BY DEF Graph!Visit, Graph!Beyond, Found
  <2> HIDE DEF c
  <2>3. QED
    BY <2>1, <2>2
<1>3. queue \in Seq(DOMAIN depths) /\ queue # << >>
  BY DEF Searched, Graph!Visit
<1>4. Len(queue) \in Nat \ {0} /\ queue[1] \in DOMAIN depths
  BY <1>3
<1>5. /\ Tail(queue) \in Seq(DOMAIN depths) /\ Len(Tail(queue)) = Len(queue) - 1
      /\ \A i \in 1..Len(queue) - 1 : Tail(queue)[i] = queue[i + 1]
  BY <1>3
<1>6. order \in Seq(Found) /\ Len(order) = c
  BY <1>1, <1>2
<1>7. /\ Len(queue') = Len(queue) - 1 + c
      /\ \A i \in 1..Len(queue') : queue'[i] = IF i < Len(queue) THEN queue[i + 1]
                                               ELSE order[i - Len(queue) + 1]
  <2> HIDE DEF c
  <2>1. Tail(queue) \in Seq(DOMAIN depths \cup Found) /\ order \in Seq(DOMAIN depths \cup Found)
    BY <1>5, <1>6
  <2>2. /\ Len(queue') = Len(Tail(queue)) + Len(order)
        /\ \A i \in 1..Len(Tail(queue)) + Len(order) :
             queue'[i] = IF i <= Len(Tail(queue)) THEN Tail(queue)[i] ELSE order[i - Len(Tail(queue))]
    BY <1>2, <2>1
  <2>3. \A i \in 1..Len(queue') : IF i < Len(queue) THEN queue'[i] = queue[i + 1]
                                   ELSE queue'[i] = order[i - (Len(queue) - 1)]
    BY <1>1, <1>4, <1>5, <1>6, <2>2
  <2>4. \A i \in 1..Len(queue') : i - (Len(queue) - 1) = i - Len(queue) + 1
    BY <1>4
  <2>5. QED
    BY <1>1, <1>4, <1>5, <1>6, <2>2, <2>3, <2>4
<1>8. \A i \in 1..Len(queue') : i >= Len(queue) => i - Len(queue) + 1 \in 1..c
  BY <1>1, <1>4, <1>7
<1>9. queue' \in Seq(DOMAIN depths \cup Found)
  <2>1. Tail(queue) \in Seq(DOMAIN depths \cup Found) /\ order \in Seq(DOMAIN depths \cup Found)
    BY <1>5, <1>6
  <2>2. QED
    BY <1>2, <2>1
<1>10. \A n \in Found : \E a \in 1..c : order[a] = n
  <2>1. order \in Injection(1..c, Found)
    BY <1>2, GraphCopies DEF Injection, IsInjective
  <2>2. Cardinality(1..c) = c
    BY <1>1, FS_Interval
  <2>3. order \in Surjection(1..c, Found)
    BY <1>1, <2>1, <2>2, FS_Injection
  <2>4. QED
    BY <2>3 DEF Surjection
<1>11. \A n \in Found : \E i \in 1..Len(queue') : queue'[i] = n
  <2>1. SUFFICES ASSUME NEW n \in Found
                 PROVE  \E i \in 1..Len(queue') : queue'[i] = n
    OBVIOUS
  <2>2. PICK a \in 1..c : order[a] = n
    BY <1>10
  <2>3. a + Len(queue) - 1 \in 1..Len(queue') /\ queue'[a + Len(queue) - 1] = order[a]
    BY <1>1, <1>4, <1>7
  <2>4. QED
    BY <2>2, <2>3
<1>12. \A i \in 1..Len(queue') : IF i < Len(queue) THEN queue'[i] = queue[i + 1]
                                 ELSE queue'[i] \in Found
  <2> HIDE DEF c
  <2>1. \A a \in 1..c : order[a] \in Found
    BY <1>2
  <2>2. QED
    BY <1>4, <1>7, <1>8, <2>1
<1>13. UNCHANGED <<rows, edges, degree, routesVia, tableDegree, registry>>
  BY DEF Graph!Visit
<1>14. Len(queue') >= Len(queue) - 1
  <2> HIDE DEF c
  <2> QED BY <1>1, <1>4, <1>7
<1>15. QED
  BY <1>2, <1>4, <1>9, <1>11, <1>12, <1>13, <1>14
\* What a visit does to who waits and to the depths.
LEMMA VisitFacts ==
    ASSUME Searched, queue # None, Graph!Visit
    PROVE  /\ DOMAIN depths' = DOMAIN depths \cup Found /\ Found \cap DOMAIN depths = {}
           /\ \A n \in DOMAIN depths : depths'[n] = depths[n]
           /\ \A n \in Found : depths'[n] = depths[queue[1]] + 1
           /\ \A n \in DOMAIN depths' : ~(Waits(n))' =>
                n \in DOMAIN depths /\ (n = queue[1] \/ ~Waits(n))
           /\ \A n : (Graph!Peers(n))' = Graph!Peers(n)
           /\ Graph!Root' = Graph!Root
<1>1. /\ Len(queue) \in Nat \ {0} /\ queue[1] \in DOMAIN depths
      /\ depths' = [n \in DOMAIN depths \cup Found |->
                      IF n \in Found THEN depths[queue[1]] + 1 ELSE depths[n]]
      /\ queue' \in Seq(DOMAIN depths \cup Found) /\ Len(queue') >= Len(queue) - 1
  BY VisitQueue
<1>2. \A i \in 1..Len(queue') : IF i < Len(queue) THEN queue'[i] = queue[i + 1]
                                ELSE queue'[i] \in Found
  BY VisitQueue
<1>3. \A n \in Found : \E i \in 1..Len(queue') : queue'[i] = n
  BY VisitQueue
<1>4. Found \cap DOMAIN depths = {}
  BY DEF Found
<1>5. Len(queue') \in Nat
  BY <1>1
<1>6. ASSUME NEW n \in DOMAIN depths', ~(Waits(n))'
      PROVE  n \in DOMAIN depths /\ (n = queue[1] \/ ~Waits(n))
  <2>1. \A i \in 1..Len(queue') : queue'[i] # n
    BY <1>6 DEF Waits
  <2>2. n \notin Found
    BY <1>3, <2>1
  <2>3. \A i \in 1..Len(queue) : i # 1 => queue[i] # n
    <3>1. SUFFICES ASSUME NEW i \in 1..Len(queue), i # 1 PROVE queue[i] # n
      OBVIOUS
    <3>2. i - 1 \in 1..Len(queue') /\ i - 1 < Len(queue) /\ (i - 1) + 1 = i
      BY <1>1, <1>5, <3>1
    <3>3. QED
      BY <1>2, <2>1, <3>2
  <2>4. QED
    BY <1>1, <2>2, <2>3 DEF Waits
<1>7. (\A n : (Graph!Peers(n))' = Graph!Peers(n)) /\ Graph!Root' = Graph!Root
  <2>1. edges' = edges /\ registry' = registry
    BY VisitQueue
  <2>2. QED
    BY <2>1 DEF Graph!Peers, Graph!Root
<1>8. QED
  BY <1>1, <1>4, <1>6, <1>7

\* A visit keeps the depths those of parents, below the count of the reached.
LEMMA VisitDepths ==
    ASSUME Searched, queue # None, Graph!Visit
    PROVE  /\ depths' = [n \in DOMAIN depths' |-> depths'[n]]
           /\ DOMAIN depths' \in SUBSET Nodes /\ Graph!Root' \in DOMAIN depths'
           /\ \A n \in DOMAIN depths' : /\ depths'[n] \in Nat
                                        /\ depths'[n] < Cardinality(DOMAIN depths')
                                        /\ depths'[n] = 0 <=> n = Graph!Root'
           /\ \A n \in DOMAIN depths' \ {Graph!Root'} :
                \E m \in DOMAIN depths' : n \in (Graph!Peers(m))' /\ depths'[n] = depths'[m] + 1
<1>1. /\ depths = [n \in DOMAIN depths |-> depths[n]]
      /\ DOMAIN depths \in SUBSET Nodes /\ Graph!Root \in DOMAIN depths
      /\ \A n \in DOMAIN depths : /\ depths[n] \in Nat /\ depths[n] < Cardinality(DOMAIN depths)
                                  /\ depths[n] = 0 <=> n = Graph!Root
  BY DEF Searched
<1>2. \A n \in DOMAIN depths \ {Graph!Root} :
        \E m \in DOMAIN depths : n \in Graph!Peers(m) /\ depths[n] = depths[m] + 1
  BY DEF Searched
<1>3. /\ DOMAIN depths' = DOMAIN depths \cup Found /\ Found \cap DOMAIN depths = {}
      /\ \A n \in DOMAIN depths : depths'[n] = depths[n]
      /\ \A n \in Found : depths'[n] = depths[queue[1]] + 1
      /\ Graph!Root' = Graph!Root
  BY VisitFacts
<1>4. \A n : (Graph!Peers(n))' = Graph!Peers(n)
  BY VisitFacts
<1>5. queue[1] \in DOMAIN depths
  BY VisitQueue
<1>6. Found \in SUBSET Nodes /\ Found \in SUBSET Graph!Peers(queue[1])
  BY DEF Found, Graph!Peers
<1>7. depths' = [n \in DOMAIN depths' |-> depths'[n]]
  <2>1. depths' = [n \in DOMAIN depths \cup Found |->
                     IF n \in Found THEN depths[queue[1]] + 1 ELSE depths[n]]
    BY VisitQueue
  <2>2. QED
    BY <2>1
<1>8. DOMAIN depths' \in SUBSET Nodes
  BY <1>1, <1>3, <1>6
<1>9. \A n \in DOMAIN depths' : depths'[n] < Cardinality(DOMAIN depths')
  <2>1. IsFiniteSet(DOMAIN depths') /\ IsFiniteSet(DOMAIN depths)
    BY <1>1, <1>8, GraphConstants, FS_Subset
  <2>2. /\ Cardinality(DOMAIN depths) <= Cardinality(DOMAIN depths')
        /\ Cardinality(DOMAIN depths) = Cardinality(DOMAIN depths') => DOMAIN depths = DOMAIN depths'
    BY <1>3, <2>1, FS_Subset
  <2>3. Cardinality(DOMAIN depths) \in Nat /\ Cardinality(DOMAIN depths') \in Nat
    BY <2>1, FS_CardinalityType
  <2>4. Found # {} => Cardinality(DOMAIN depths) + 1 <= Cardinality(DOMAIN depths')
    BY <1>3, <2>2, <2>3
  <2>5. QED
    BY <1>1, <1>3, <1>5, <2>2, <2>3, <2>4
<1>10. \A n \in DOMAIN depths' : depths'[n] \in Nat /\ (depths'[n] = 0 <=> n = Graph!Root')
  BY <1>1, <1>3, <1>5
<1>11. ASSUME NEW n \in DOMAIN depths' \ {Graph!Root'}
       PROVE  \E m \in DOMAIN depths' : n \in (Graph!Peers(m))' /\ depths'[n] = depths'[m] + 1
  <2>1. CASE n \in DOMAIN depths
    <3>1. PICK m \in DOMAIN depths : n \in Graph!Peers(m) /\ depths[n] = depths[m] + 1
      BY <1>2, <1>3, <1>11, <2>1
    <3>2. m \in DOMAIN depths' /\ n \in (Graph!Peers(m))' /\ depths'[n] = depths'[m] + 1
      BY <1>3, <1>4, <2>1, <3>1
    <3>3. QED
      BY <3>2
  <2>2. CASE n \in Found
    <3>1. PICK m \in DOMAIN depths : m = queue[1]
      BY <1>5
    <3>2. m \in DOMAIN depths' /\ n \in (Graph!Peers(m))' /\ depths'[n] = depths'[m] + 1
      BY <1>3, <1>4, <1>6, <2>2, <3>1
    <3>3. QED
      BY <3>2
  <2>3. QED
    BY <1>3, <2>1, <2>2
<1>12. QED
  BY <1>1, <1>3, <1>7, <1>8, <1>9, <1>10, <1>11

\* A visit keeps the order of those that wait.
LEMMA VisitOrder ==
    ASSUME Searched, queue # None, Graph!Visit
    PROVE  /\ \A n \in DOMAIN depths' : \A i \in 1..Len(queue') :
                ~(Waits(n))' => depths'[n] <= depths'[queue'[i]]
           /\ \A i, j \in 1..Len(queue') : i <= j =>
                depths'[queue'[i]] <= depths'[queue'[j]] /\ depths'[queue'[j]] <= depths'[queue'[i]] + 1
<1> DEFINE v == depths[queue[1]]
<1>1. \A n \in DOMAIN depths : depths[n] \in Nat
  BY DEF Searched
<1>2. \A n \in DOMAIN depths : \A i \in 1..Len(queue) : ~Waits(n) => depths[n] <= depths[queue[i]]
  BY DEF Searched
<1>3. \A i, j \in 1..Len(queue) : i <= j =>
        depths[queue[i]] <= depths[queue[j]] /\ depths[queue[j]] <= depths[queue[i]] + 1
  BY DEF Searched
<1>4. Len(queue) \in Nat \ {0} /\ queue[1] \in DOMAIN depths /\ queue \in Seq(DOMAIN depths)
  BY VisitQueue DEF Searched
<1>5. Len(queue') \in Nat
  BY VisitQueue
<1>6. \A i \in 1..Len(queue') : IF i < Len(queue) THEN queue'[i] = queue[i + 1]
                                ELSE queue'[i] \in Found
  BY VisitQueue
<1>7. /\ \A n \in DOMAIN depths : depths'[n] = depths[n]
      /\ \A n \in Found : depths'[n] = v + 1
  BY VisitFacts
<1>8. \A n \in DOMAIN depths' : ~(Waits(n))' => n \in DOMAIN depths /\ (n = queue[1] \/ ~Waits(n))
  BY VisitFacts
<1>9. \A i \in 1..Len(queue) : depths[queue[i]] \in Nat /\ queue[i] \in DOMAIN depths
  BY <1>1, <1>4
<1>10. \A i \in 1..Len(queue') :
         IF i < Len(queue) THEN /\ i + 1 \in 1..Len(queue)
                                /\ depths'[queue'[i]] = depths[queue[i + 1]]
         ELSE depths'[queue'[i]] = v + 1
  <2> HIDE DEF v
  <2> QED BY <1>4, <1>5, <1>6, <1>7, <1>9
<1>11. v \in Nat
  BY <1>1, <1>4
<1>12. \A i \in 1..Len(queue') : depths'[queue'[i]] \in Nat /\ v <= depths'[queue'[i]] /\ depths'[queue'[i]] <= v + 1
  <2>1. 1 \in 1..Len(queue)
    BY <1>4
  <2>2. \A i \in 1..Len(queue) : v <= depths[queue[i]] /\ depths[queue[i]] <= v + 1
    BY <1>3, <2>1
  <2> HIDE DEF v
  <2>3. QED
    BY <1>9, <1>10, <1>11, <2>2
<1>13. ASSUME NEW n \in DOMAIN depths', NEW i \in 1..Len(queue'), ~(Waits(n))'
       PROVE  depths'[n] <= depths'[queue'[i]]
  <2>1. n \in DOMAIN depths /\ (n = queue[1] \/ ~Waits(n)) /\ depths'[n] = depths[n] /\ depths[n] \in Nat
    BY <1>1, <1>7, <1>8, <1>13
  <2>2. depths[n] <= v
    <3>1. 1 \in 1..Len(queue)
      BY <1>4
    <3>2. QED
      BY <1>2, <2>1, <3>1, <1>11
  <2> HIDE DEF v
  <2>3. QED
    BY <1>11, <1>12, <2>1, <2>2
<1>14. ASSUME NEW i \in 1..Len(queue'), NEW j \in 1..Len(queue'), i <= j
       PROVE  /\ depths'[queue'[i]] <= depths'[queue'[j]]
              /\ depths'[queue'[j]] <= depths'[queue'[i]] + 1
  <2>1. depths'[queue'[j]] <= depths'[queue'[i]] + 1
    <3> HIDE DEF v
    <3> QED BY <1>11, <1>12
  <2>2. CASE j < Len(queue)
    <3>1. i + 1 \in 1..Len(queue) /\ j + 1 \in 1..Len(queue) /\ i + 1 <= j + 1 /\ i < Len(queue)
      BY <1>4, <1>5, <1>14, <2>2
    <3>2. QED
      BY <1>3, <1>10, <2>1, <2>2, <3>1
  <2>3. CASE ~(j < Len(queue))
    <3>1. depths'[queue'[j]] = v + 1
      BY <1>10, <2>3
    <3> HIDE DEF v
    <3>2. QED
      BY <1>11, <1>12, <2>1, <3>1
  <2>4. QED
    BY <2>2, <2>3
<1>15. QED
  BY <1>13, <1>14

\* A visit keeps every peer of a visited node reached, at most a step further.
LEMMA VisitPeers ==
    ASSUME Searched, queue # None, Graph!Visit
    PROVE  \A n \in DOMAIN depths' : ~(Waits(n))' =>
             \A m \in (Graph!Peers(n))' : m \in DOMAIN depths' /\ depths'[m] <= depths'[n] + 1
<1>1. \A n \in DOMAIN depths : depths[n] \in Nat
  BY DEF Searched
<1>2. \A n \in DOMAIN depths : ~Waits(n) =>
        \A m \in Graph!Peers(n) : m \in DOMAIN depths /\ depths[m] <= depths[n] + 1
  BY DEF Searched
<1>3. 1 \in 1..Len(queue) /\ queue[1] \in DOMAIN depths
  BY VisitQueue
<1>4. \A n \in DOMAIN depths : depths[n] <= depths[queue[1]] + 1
  <2>1. SUFFICES ASSUME NEW n \in DOMAIN depths
                 PROVE  depths[n] <= depths[queue[1]] + 1
    OBVIOUS
  <2>2. CASE Waits(n)
    <3>1. PICK i \in 1..Len(queue) : queue[i] = n
      BY <2>2 DEF Waits
    <3>2. \A h, j \in 1..Len(queue) : h <= j => depths[queue[j]] <= depths[queue[h]] + 1
      BY DEF Searched
    <3>3. 1 <= i
      BY <3>1
    <3>4. QED
      BY <1>3, <3>1, <3>2, <3>3
  <2>3. CASE ~Waits(n)
    <3>1. depths[n] <= depths[queue[1]]
      BY <1>3, <2>3 DEF Searched
    <3>2. QED
      BY <1>1, <1>3, <3>1
  <2>4. QED
    BY <2>2, <2>3
<1>5. /\ DOMAIN depths' = DOMAIN depths \cup Found
      /\ \A n \in DOMAIN depths : depths'[n] = depths[n]
      /\ \A n \in Found : depths'[n] = depths[queue[1]] + 1
  BY VisitFacts
<1>6. \A n : (Graph!Peers(n))' = Graph!Peers(n)
  BY VisitFacts
<1>7. \A n \in DOMAIN depths' : ~(Waits(n))' => n \in DOMAIN depths /\ (n = queue[1] \/ ~Waits(n))
  BY VisitFacts
<1>8. SUFFICES ASSUME NEW n \in DOMAIN depths', ~(Waits(n))', NEW m \in (Graph!Peers(n))'
               PROVE  m \in DOMAIN depths' /\ depths'[m] <= depths'[n] + 1
  OBVIOUS
<1>9. n \in DOMAIN depths /\ (n = queue[1] \/ ~Waits(n)) /\ m \in Graph!Peers(n)
  BY <1>6, <1>7, <1>8
<1>10. CASE n = queue[1]
  <2>1. m \in DOMAIN depths \cup Found
    BY <1>9, <1>10 DEF Found
  <2>2. QED
    BY <1>1, <1>3, <1>4, <1>5, <1>10, <2>1
<1>11. CASE ~Waits(n)
  BY <1>2, <1>5, <1>9, <1>11
<1>12. QED
  BY <1>9, <1>10, <1>11

\* A visit keeps the search's invariant.
LEMMA VisitStep ==
    ASSUME GraphInv, Graph!Visit
    PROVE  GraphInv'
<1>1. queue # None /\ Searched /\ GraphBuilt
  BY DEF GraphInv, Graph!Visit
<1>2. GraphBuilt'
  BY <1>1, BuiltStays, VisitQueue
<1>3. queue' \in Seq(DOMAIN depths') /\ queue' # None
  <2>1. queue' \in Seq(DOMAIN depths \cup Found) /\ DOMAIN depths' = DOMAIN depths \cup Found
    BY <1>1, VisitQueue, VisitFacts
  <2>2. DOMAIN depths' \in SUBSET Nodes
    BY <1>1, VisitDepths
  <2>3. queue' \in Seq(Nodes)
    BY <2>1, <2>2
  <2>4. QED
    BY <2>1, <2>3, GraphConstants
<1>4. Searched'
  BY <1>1, <1>3, VisitDepths, VisitOrder, VisitPeers DEF Searched
<1>5. QED
  BY <1>2, <1>3, <1>4 DEF GraphInv

\* Every step keeps the invariant.
LEMMA GraphStep == GraphInv /\ [Graph!Next]_graph => GraphInv'
<1> SUFFICES ASSUME GraphInv, [Graph!Next]_graph PROVE GraphInv'
  OBVIOUS
<1>1. ASSUME NEW l \in Links, NEW q \in Qualities \cup {None}, Graph!Read(l, q)
      PROVE  GraphInv'
  BY <1>1, ReadStep
<1>2. CASE Graph!Search
  BY <1>2, SearchStep
<1>3. CASE Graph!Visit
  BY <1>3, VisitStep
<1>4. CASE UNCHANGED graph
  <2>1. UNCHANGED <<rows, edges, degree, routesVia, tableDegree, registry, depths, queue>>
    BY <1>4 DEF graph
  <2>2. /\ GraphBuilt => GraphBuilt'
        /\ \A n : (Waits(n))' = Waits(n) /\ (Graph!Peers(n))' = Graph!Peers(n)
        /\ Graph!Root' = Graph!Root
    BY <2>1, BuiltStays DEF Waits, Graph!Peers, Graph!Root
  <2>3. Searched => Searched'
    BY <2>1, <2>2 DEF Searched
  <2>4. QED
    BY <2>1, <2>2, <2>3 DEF GraphInv
<1>5. QED
  BY <1>1, <1>2, <1>3, <1>4 DEF Graph!Next
\* The nodes within k edges of the root, by one step more: the equation of
\* Within has a solution, whatever the graph.
Beside(s) == s \cup UNION {Graph!Peers(m) : m \in s}
Spreads(g, n) == g = [k \in 0..n |-> IF k = 0 THEN {Graph!Root} ELSE Beside(g[k - 1])]

\* The equation has a solution up to any number of steps.
LEMMA SpreadExists ==
    ASSUME NEW c \in Nat
    PROVE  \E g : Spreads(g, c)
<1> DEFINE N == {n \in Nat : \E g : Spreads(g, n)}
<1>1. 0 \in N
  <2>1. Spreads([k \in 0..0 |-> {Graph!Root}], 0)
    BY DEF Spreads
  <2>2. QED
    BY <2>1
<1>2. ASSUME NEW n \in Nat, n \in N
      PROVE  n + 1 \in N
  <2>1. PICK g : Spreads(g, n)
    BY <1>2
  <2>2. PICK h : h = [k \in 0..n + 1 |-> IF k = 0 THEN {Graph!Root} ELSE Beside(g[k - 1])]
    OBVIOUS
  <2>3. \A k \in 0..n : h[k] = g[k]
    <3>1. g = [k \in 0..n |-> IF k = 0 THEN {Graph!Root} ELSE Beside(g[k - 1])]
      BY <2>1 DEF Spreads
    <3>2. \A k \in 0..n : k \in 0..n + 1
      OBVIOUS
    <3>3. QED
      BY <2>2, <3>1, <3>2
  <2>4. \A k \in 0..n + 1 : k # 0 => k - 1 \in 0..n
    OBVIOUS
  <2>5. h = [k \in 0..n + 1 |-> IF k = 0 THEN {Graph!Root} ELSE Beside(h[k - 1])]
    BY <2>2, <2>3, <2>4
  <2>6. QED
    BY <2>5 DEF Spreads
<1>3. Nat \subseteq N
  <2> HIDE DEF N
  <2> QED BY <1>1, <1>2, SetInduction
<1>4. QED
  BY <1>3

\* Within as its definition reads.
LEMMA WithinIs ==
    /\ Cardinality(Nodes) \in Nat
    /\ Graph!Within[0] = {Graph!Root}
    /\ \A k \in 1..Cardinality(Nodes) : Graph!Within[k] = Beside(Graph!Within[k - 1])
<1> DEFINE c == Cardinality(Nodes)
<1>1. c \in Nat /\ Graph!Cardinality(Nodes) = c
  BY GraphConstants, GraphCopies, FS_CardinalityType
<1>2. PICK g : Spreads(g, c)
  BY <1>1, SpreadExists
<1>3. \E h : h = [k \in 0..c |-> IF k = 0 THEN {Graph!Root}
                                 ELSE h[k - 1] \cup UNION {Graph!Peers(n) : n \in h[k - 1]}]
  BY <1>2 DEF Spreads, Beside
<1>4. Graph!Within = [k \in 0..c |-> IF k = 0 THEN {Graph!Root}
                        ELSE Graph!Within[k - 1] \cup UNION {Graph!Peers(n) : n \in Graph!Within[k - 1]}]
  <2> HIDE DEF c
  <2> QED BY <1>1, <1>3 DEF Graph!Within
<1>5. Graph!Within = [k \in 0..c |-> IF k = 0 THEN {Graph!Root} ELSE Beside(Graph!Within[k - 1])]
  BY <1>4 DEF Beside
<1>6. QED
  <2> HIDE DEF c
  <2>1. 0 \in 0..c /\ \A k \in 1..c : k \in 0..c /\ k # 0
    BY <1>1
  <2>2. /\ Graph!Within[0] = {Graph!Root}
        /\ \A k \in 1..c : Graph!Within[k] = Beside(Graph!Within[k - 1])
    BY <1>5, <2>1
  <2>3. QED
    BY <1>1, <2>2 DEF c

\* More steps reach no fewer nodes.
LEMMA WithinGrows ==
    ASSUME NEW j \in 0..Cardinality(Nodes)
    PROVE  \A k \in j..Cardinality(Nodes) : Graph!Within[j] \subseteq Graph!Within[k]
<1> DEFINE c == Cardinality(Nodes)
           N == {i \in Nat : j + i <= c => Graph!Within[j] \subseteq Graph!Within[j + i]}
<1>1. c \in Nat /\ j \in Nat
  BY WithinIs
<1>2. 0 \in N
  BY <1>1
<1>3. ASSUME NEW i \in Nat, i \in N
      PROVE  i + 1 \in N
  <2>1. SUFFICES ASSUME j + (i + 1) <= c
                 PROVE  Graph!Within[j] \subseteq Graph!Within[j + (i + 1)]
    OBVIOUS
  <2>2. Graph!Within[j] \subseteq Graph!Within[j + i]
    BY <1>1, <1>3, <2>1
  <2>3. j + (i + 1) \in 1..c /\ (j + (i + 1)) - 1 = j + i
    BY <1>1, <2>1
  <2>4. Graph!Within[j + (i + 1)] = Beside(Graph!Within[j + i])
    BY <2>3, WithinIs
  <2>5. QED
    BY <2>2, <2>4 DEF Beside
<1>4. Nat \subseteq N
  <2> HIDE DEF N
  <2> QED BY <1>2, <1>3, SetInduction
<1>5. ASSUME NEW k \in j..c
      PROVE  Graph!Within[j] \subseteq Graph!Within[k]
  <2>1. k - j \in Nat /\ j + (k - j) = k /\ k <= c
    BY <1>1
  <2>2. k - j \in N
    BY <1>4, <2>1
  <2>3. QED
    BY <2>1, <2>2
<1>6. QED
  BY <1>5

\* A node reached at depth k is within k edges of the root.
LEMMA DepthReaches ==
    ASSUME Searched
    PROVE  \A n \in DOMAIN depths : /\ depths[n] \in 0..Cardinality(Nodes)
                                    /\ n \in Graph!Within[depths[n]]
<1> DEFINE N == {k \in Nat : \A n \in DOMAIN depths : depths[n] = k => n \in Graph!Within[k]}
<1>1. Cardinality(Nodes) \in Nat
  BY WithinIs
<1>2. \A n \in DOMAIN depths : depths[n] \in Nat /\ (depths[n] = 0 <=> n = Graph!Root)
  BY DEF Searched
<1>3. \A n \in DOMAIN depths : depths[n] \in 0..Cardinality(Nodes)
  <2>1. Cardinality(DOMAIN depths) <= Cardinality(Nodes) /\ Cardinality(DOMAIN depths) \in Nat
    <3>1. DOMAIN depths \in SUBSET Nodes
      BY DEF Searched
    <3>2. QED
      BY <3>1, GraphConstants, FS_Subset, FS_CardinalityType
  <2>2. \A n \in DOMAIN depths : depths[n] < Cardinality(DOMAIN depths)
    BY DEF Searched
  <2>3. QED
    BY <1>1, <1>2, <2>1, <2>2
<1>4. 0 \in N
  BY <1>2, WithinIs
<1>5. ASSUME NEW k \in Nat, k \in N
      PROVE  k + 1 \in N
  <2>1. SUFFICES ASSUME NEW n \in DOMAIN depths, depths[n] = k + 1
                 PROVE  n \in Graph!Within[k + 1]
    OBVIOUS
  <2>2. n \in DOMAIN depths \ {Graph!Root}
    BY <1>2, <2>1
  <2>3. PICK m \in DOMAIN depths : n \in Graph!Peers(m) /\ depths[n] = depths[m] + 1
    BY <2>2 DEF Searched
  <2>4. depths[m] = k
    BY <1>2, <2>1, <2>3
  <2>5. m \in Graph!Within[k]
    BY <1>5, <2>4
  <2>6. k + 1 \in 1..Cardinality(Nodes) /\ (k + 1) - 1 = k
    BY <1>1, <1>3, <2>1
  <2>7. Graph!Within[k + 1] = Beside(Graph!Within[k])
    BY <2>6, WithinIs
  <2>8. QED
    BY <2>3, <2>5, <2>7 DEF Beside
<1>6. Nat \subseteq N
  <2> HIDE DEF N
  <2> QED BY <1>4, <1>5, SetInduction
<1>7. QED
  BY <1>2, <1>3, <1>6

\* When none waits any more, what is within k edges was reached within k.
LEMMA WithinReached ==
    ASSUME Searched, queue = << >>
    PROVE  \A k \in 0..Cardinality(Nodes) : \A n \in Graph!Within[k] : n \in DOMAIN depths /\ depths[n] <= k
<1> DEFINE c == Cardinality(Nodes)
           N == {k \in Nat : k <= c => \A n \in Graph!Within[k] : n \in DOMAIN depths /\ depths[n] <= k}
<1>1. c \in Nat
  BY WithinIs
<1>2. Graph!Root \in DOMAIN depths /\ depths[Graph!Root] = 0
  BY DEF Searched
<1>3. \A n \in DOMAIN depths : depths[n] \in Nat
  BY DEF Searched
<1>4. \A n \in DOMAIN depths : \A m \in Graph!Peers(n) : m \in DOMAIN depths /\ depths[m] <= depths[n] + 1
  <2>1. \A n : ~Waits(n)
    BY DEF Waits
  <2>2. QED
    BY <2>1 DEF Searched
<1>5. 0 \in N
  BY <1>2, WithinIs
<1>6. ASSUME NEW k \in Nat, k \in N
      PROVE  k + 1 \in N
  <2>1. SUFFICES ASSUME k + 1 <= c, NEW n \in Graph!Within[k + 1]
                 PROVE  n \in DOMAIN depths /\ depths[n] <= k + 1
    OBVIOUS
  <2>2. k + 1 \in 1..c /\ (k + 1) - 1 = k /\ k <= c
    BY <1>1, <2>1
  <2>3. Graph!Within[k + 1] = Beside(Graph!Within[k])
    BY <2>2, WithinIs
  <2>4. \A m \in Graph!Within[k] : m \in DOMAIN depths /\ depths[m] <= k
    BY <1>6, <2>2
  <2>5. CASE n \in Graph!Within[k]
    BY <1>3, <2>4, <2>5
  <2>6. CASE n \notin Graph!Within[k]
    <3>1. PICK m \in Graph!Within[k] : n \in Graph!Peers(m)
      BY <2>1, <2>3, <2>6 DEF Beside
    <3>2. m \in DOMAIN depths /\ depths[m] <= k
      BY <2>4
    <3>3. n \in DOMAIN depths /\ depths[n] <= depths[m] + 1
      BY <1>4, <3>1, <3>2
    <3>4. QED
      BY <1>3, <3>2, <3>3
  <2>7. QED
    BY <2>5, <2>6
<1>7. Nat \subseteq N
  <2> HIDE DEF N
  <2> QED BY <1>5, <1>6, SetInduction
<1>8. QED
  BY <1>1, <1>7

\* A name costs no more than any device that bears it.
LEMMA NameDepth ==
    ASSUME Searched, NEW n \in DOMAIN depths, n # Graph!Root
    PROVE  Graph!DepthByName[Name[n]] <= depths[n]
<1> DEFINE D == {depths[m] : m \in Graph!Named(Name[n])}
<1>1. \A m \in DOMAIN depths : depths[m] \in Nat /\ (depths[m] = 0 <=> m = Graph!Root)
  BY DEF Searched
<1>2. D \in SUBSET Nat /\ depths[n] \in D
  BY <1>1 DEF Graph!Named
<1>3. \A y \in D : Min(D) <= y
  <2> HIDE DEF D
  <2> QED BY <1>2, MinOf
<1>4. Graph!DepthByName[Name[n]] = Graph!Min(D)
  BY <1>1 DEF Graph!DepthByName
<1>5. Graph!Min(D) = Min(D)
  BY GraphCopies
<1>6. QED
  <2> HIDE DEF D
  <2> QED BY <1>2, <1>3, <1>4, <1>5

\* The depths are shortest ways when the search is over.
LEMMA Shortest == GraphInv => Graph!DepthsShortest
<1> DEFINE c == Cardinality(Nodes)
<1> SUFFICES ASSUME GraphInv, queue = << >>
             PROVE  /\ DOMAIN depths = Graph!Within[c]
                    /\ \A n \in DOMAIN depths :
                         /\ n \in Graph!Within[depths[n]]
                         /\ depths[n] > 0 => n \notin Graph!Within[depths[n] - 1]
                         /\ n # Graph!Root => Graph!DepthByName[Name[n]] <= depths[n]
  BY GraphCopies DEF Graph!DepthsShortest
<1>1. Searched
  <2>1. << >> \in Seq(Nodes)
    OBVIOUS
  <2>2. QED
    BY <2>1, GraphConstants DEF GraphInv
<1>2. c \in Nat
  BY WithinIs
<1>3. \A n \in DOMAIN depths : depths[n] \in 0..c /\ n \in Graph!Within[depths[n]]
  BY <1>1, DepthReaches
<1>4. \A k \in 0..c : \A n \in Graph!Within[k] : n \in DOMAIN depths /\ depths[n] <= k
  BY <1>1, WithinReached
<1>5. \A j \in 0..c : Graph!Within[j] \subseteq Graph!Within[c]
  BY <1>2, WithinGrows
<1> HIDE DEF c
<1>6. DOMAIN depths = Graph!Within[c]
  <2>1. \A n \in Graph!Within[c] : n \in DOMAIN depths
    <3>1. c \in 0..c
      BY <1>2
    <3>2. QED
      BY <1>4, <3>1
  <2>2. ASSUME NEW n \in DOMAIN depths
        PROVE  n \in Graph!Within[c]
    <3>1. depths[n] \in 0..c /\ n \in Graph!Within[depths[n]]
      BY <1>3
    <3>2. Graph!Within[depths[n]] \subseteq Graph!Within[c]
      BY <1>5, <3>1
    <3>3. QED
      BY <3>1, <3>2
  <2>3. QED
    BY <2>1, <2>2
<1>7. ASSUME NEW n \in DOMAIN depths, depths[n] > 0
      PROVE  n \notin Graph!Within[depths[n] - 1]
  <2>1. depths[n] - 1 \in 0..c /\ ~(depths[n] <= depths[n] - 1)
    BY <1>2, <1>3, <1>7
  <2>2. QED
    BY <1>4, <2>1
<1>8. QED
  BY <1>1, <1>3, <1>6, <1>7, NameDepth

\* The graph is that of the rows.
LEMMA OfRows == GraphInv => Graph!GraphOfRows /\ Graph!TypeOK
<1> SUFFICES ASSUME GraphInv PROVE Graph!GraphOfRows /\ Graph!TypeOK
  OBVIOUS
<1>1. GraphBuilt
  BY DEF GraphInv
<1>2. /\ DOMAIN edges = {e \in SUBSET Nodes : Cardinality(e) = 2 /\ RowsOf(e) # {}}
      /\ \A e \in DOMAIN edges : edges[e] = IF LqisOf(e) = {} THEN None ELSE Min(LqisOf(e))
      /\ \A n \in Nodes : /\ degree[n] = Cardinality(EdgesAt(n))
                          /\ degree[n] <= tableDegree[n]
                          /\ routesVia[n] = Cardinality(RoutesThrough(n))
  BY <1>1 DEF GraphBuilt, Pairs
<1>3. Graph!GraphOfRows
  BY <1>2, GraphCopies DEF Graph!GraphOfRows, RowsOf, LqisOf, EdgesAt, RoutesThrough
<1>4. DOMAIN depths \subseteq Nodes
  BY DEF GraphInv, Searched
<1>5. Cardinality(Graph!WeakLinks) <= Cardinality(rows)
  <2>1. Graph!WeakLinks \in SUBSET rows /\ IsFiniteSet(rows)
    BY <1>1 DEF Graph!WeakLinks, GraphBuilt
  <2>2. QED
    BY <2>1, FS_Subset
<1>6. Graph!TypeOK
  BY <1>2, <1>4, <1>5, GraphCopies DEF Graph!TypeOK
<1>7. QED
  BY <1>3, <1>6

\* The topology that is shown and priced is that of the snapshot's rows,
\* whatever their order (topology.py:95-106), and a depth is the fewest edges
\* from the coordinator (hops.py): a node is reached if and only if it has a
\* path, for every map, every root and every order of visits.
THEOREM GraphIsSound == Spec => []GraphSound
<1>1. Init => GraphInv
  BY GraphInit DEF Init
<1>2. GraphInv /\ [Next]_vars => GraphInv'
  BY GraphStep, Apart
<1>3. GraphInv => GraphSound
  BY OfRows, Shortest DEF GraphSound
<1>4. QED
  BY <1>1, <1>2, <1>3, PTL DEF Spec
=============================================================================
