---------------------------- MODULE Evidence_proofs ----------------------------
(***************************************************************************)
(* Proofs about five of the parts of MCEvidence, for every value of their  *)
(* constants: the wire tap (WireTap), the rollups (RollupWindows), the     *)
(* receipts of a recommendation (Verification), the fusion tracker         *)
(* (FrameFusion) and the change journal (ChangeJournal).  As in            *)
(* Services_proofs each part has an inductive invariant of its own, over   *)
(* its own variables, and Apart says that a step of the whole is a step of *)
(* each part or leaves it alone.  The other parts are in                   *)
(* Attribution_proofs.                                                     *)
(***************************************************************************)
EXTENDS MCEvidence, OrderLemmas, TLAPS

\* An instance has its own copies of the library's operators.
LEMMA Sums ==
    \A f, S : /\ Tap!SumFunctionOnSet(f, S) = SumFunctionOnSet(f, S)
              /\ Rollups!SumFunctionOnSet(f, S) = SumFunctionOnSet(f, S)
              /\ Tap!Cardinality(S) = Cardinality(S)
BY DEF Tap!SumFunctionOnSet, Tap!FoldFunctionOnSet, Tap!MapThenFoldSet, Tap!Cardinality,
       Rollups!SumFunctionOnSet, Rollups!FoldFunctionOnSet, Rollups!MapThenFoldSet,
       SumFunctionOnSet, FoldFunctionOnSet, MapThenFoldSet, Cardinality

\* A step of the whole is one of each part, or leaves it alone.
LEMMA Apart == [Next]_vars => [Tap!Next]_tap /\ [Rollups!Next]_rollups
                            /\ [Receipts!Next]_receipts /\ [Fusion!Next]_fusion
                            /\ [Journal!Next]_journal
BY DEF Next, vars, FusionMoves, RollupsMove, TapMoves, GraphMoves,
       AttributionMoves, ReceiptsMove, NoopsMove, JournalMoves

-----------------------------------------------------------------------------
(* The wire tap *)

\* The types of the tap's variables.
TapTypes ==
    /\ instant \in 0 .. TapTime /\ link \in Tap!Connections
    /\ next \in 1 .. MaxMessages + 1 /\ resent \in Nat
    /\ message \in [Tap!Messages -> [at : {"unsent", "sent", "over"}, kind : Tap!Kinds \cup {None},
                                     captured : BOOLEAN]]
    /\ flow \in [Tap!Connections -> Tap!FlowStates \cup {None}]
    /\ samples \subseteq [send : Tap!Messages, confirm : Tap!Messages, again : Nat, ms : Int]

\* Messages are sent in turn; what is not sent is not captured.
SentInTurn ==
    /\ \A m \in Tap!Messages : message[m].at = "unsent" <=> m >= next
    /\ \A m \in Tap!Messages : message[m].at = "unsent" => ~message[m].captured
    /\ \A m \in Tap!Messages : message[m].at # "unsent" => message[m].kind \in Tap!Kinds

\* A frame did not fit its layout, on some connection.
Mismatched == \E c \in Tap!Flows : flow[c].mismatch

\* What waits in a flow f: captured sends, each under its tag.
Captured(f) ==
    \A t \in 0 .. Tags - 1 : f.pending[t] # None =>
        Tap!TagOf(f.pending[t].of) = t /\ message[f.pending[t].of].captured

\* In the flow in use, a send waits under a tag although a later one of that tag
\* was captured, only if its own frame came after that one, or a frame did not
\* fit its layout.
Newest(f) ==
    \A t \in 0 .. Tags - 1, m \in Tap!Messages :
        /\ f.pending[t] # None /\ f.pending[t].of < m
        /\ Tap!TagOf(m) = t /\ message[m].captured
        => Mismatched \/ <<f.pending[t].of, m>> \in crossed

\* A send that waits there again after it gave a latency was repeated since.
Repeated(f) ==
    \A t \in 0 .. Tags - 1, s \in samples :
        f.pending[t] # None /\ f.pending[t].of = s.send => s.again < resent

\* The messages that are over.
Over == {m \in Tap!Messages : message[m].at = "over"}

\* A result was counted at its confirmation, once or as often as ASH sent it; a
\* connection not yet made has no flow.
FlowInv ==
    /\ \A c \in Tap!Flows : /\ Captured(flow[c])
                            /\ flow[c].ok + flow[c].failed <= Cardinality(Over) + resent
    /\ \A c \in Tap!Connections : c > link => flow[c] = None
    /\ flow[link] # None => Newest(flow[link]) /\ Repeated(flow[link])

\* A latency recorded names messages that were sent.
LatencyInv ==
    /\ \A s \in samples : s.again <= resent /\ s.send < next /\ s.confirm < next
    /\ Tap!LatencyOwn

\* What LatencyOwn allows of a latency between two messages.
Mixed(w, m) ==
    \/ <<w, m>> \in crossed \/ <<m, w>> \in crossed
    \/ w < m /\ (~message[m].captured \/ Mismatched)

\* The inductive invariant of the tap.
TapInv == TapTypes /\ SentInTurn /\ FlowInv /\ LatencyInv

USE TapAssumption DEF Tap!TapAssumption

\* The messages that are over can be counted.
LEMMA OverCounted == IsFiniteSet(Over) /\ Cardinality(Over) \in Nat
<1>1. IsFiniteSet(1 .. MaxMessages)
  BY FS_Interval
<1>2. QED
  BY <1>1, FS_Subset, FS_CardinalityType DEF Over, Tap!Messages

\* In a connection's new flow nothing waits and nothing is counted (_flow_for).
LEMMA NothingWaits ==
    /\ Tap!NewFlow \in Tap!FlowStates /\ Tap!NewFlow # None
    /\ \A t \in 0 .. Tags - 1 : Tap!NewFlow.pending[t] = None
    /\ Tap!NewFlow.ok = 0 /\ Tap!NewFlow.failed = 0
<1>1. Tap!NewFlow \in Tap!FlowStates
  BY DEF Tap!NewFlow, Tap!FlowStates
<1>2. QED
  BY <1>1 DEF Tap!NewFlow

\* The invariant holds at first.
LEMMA TapInit == Tap!Init => TapInv
<1> SUFFICES ASSUME Tap!Init PROVE TapInv
  OBVIOUS
<1>1. TapTypes
  BY DEF Tap!Init, TapTypes, Tap!Connections, Tap!Messages
<1>2. SentInTurn
  BY DEF Tap!Init, SentInTurn, Tap!Messages
<1>3. Tap!Flows = {} /\ samples = {} /\ \A c \in Tap!Connections : flow[c] = None
  BY DEF Tap!Init, Tap!Flows
<1>4. flow[link] = None
  BY <1>3, <1>1 DEF TapTypes
<1>5. QED
  BY <1>1, <1>2, <1>3, <1>4 DEF TapInv, FlowInv, LatencyInv, Tap!LatencyOwn

\* The flow in use has these, a new one too.
LEMMA InUse ==
    ASSUME TapInv
    PROVE  /\ Tap!Flow \in Tap!FlowStates /\ Tap!Flow # None
           /\ Captured(Tap!Flow) /\ Newest(Tap!Flow) /\ Repeated(Tap!Flow)
           /\ Tap!Flow.ok + Tap!Flow.failed <= Cardinality(Over) + resent
           /\ link \in Tap!Flows => Tap!Flow = flow[link]
<1>1. link \in Tap!Connections /\ flow[link] \in Tap!FlowStates \cup {None}
  BY DEF TapInv, FlowInv, LatencyInv, TapTypes
<1>2. CASE flow[link] = None
  <2>1. Tap!Flow = Tap!NewFlow
    BY <1>2 DEF Tap!Flow
  <2>2. 0 <= Cardinality(Over) + resent
    BY OverCounted DEF TapInv, FlowInv, LatencyInv, TapTypes
  <2>3. QED
    BY <1>2, <2>1, <2>2, NothingWaits DEF Captured, Newest, Repeated, Tap!Flows
<1>3. CASE flow[link] # None
  <2>1. Tap!Flow = flow[link] /\ link \in Tap!Flows
    BY <1>1, <1>3 DEF Tap!Flow, Tap!Flows
  <2>2. QED
    BY <1>1, <1>3, <2>1 DEF TapInv, FlowInv, LatencyInv
<1>4. QED
  BY <1>2, <1>3

\* A frame of m crosses with every later message of its tag that was sent.
LEMMA CrossFacts ==
    ASSUME NEW m \in Tap!Messages, Tap!Crosses(m)
    PROVE  /\ crossed \subseteq crossed'
           /\ \A n \in Tap!Messages :
                n > m /\ Tap!TagOf(n) = Tap!TagOf(m) /\ message[n].at # "unsent"
                  => <<m, n>> \in crossed'
BY DEF Tap!Crosses, Tap!Newer

\* What is allowed stays allowed.
LEMMA MixedStays ==
    ASSUME NEW w, NEW m, Mixed(w, m), crossed \subseteq crossed',
           message'[m].captured => message[m].captured, Mismatched => Mismatched'
    PROVE  Mixed(w, m)'
BY DEF Mixed

\* A tag is one of Tags.
LEMMA TagRange == \A m \in Tap!Messages : Tap!TagOf(m) \in 0 .. Tags - 1
BY DEF Tap!TagOf, Tap!Messages

\* The flow in use becomes f.
LEMMA FlowBecomes ==
    ASSUME TapTypes, NEW f \in Tap!FlowStates, flow' = [flow EXCEPT ![link] = f]
    PROVE  /\ flow' \in [Tap!Connections -> Tap!FlowStates \cup {None}]
           /\ Tap!Flows' = Tap!Flows \cup {link} /\ flow'[link] = f
           /\ \A c \in Tap!Flows' : c # link => c \in Tap!Flows /\ flow'[c] = flow[c]
           /\ \A c \in Tap!Connections : c # link => flow'[c] = flow[c]
<1>1. f # None
  OBVIOUS
<1>2. QED
  BY <1>1 DEF TapTypes, Tap!Flows

\* _track_pending: what waits is the new send under its tag, or waited there before
\* and is not too old; the totals and the mismatch are as they were.
LEMMA TrackFacts ==
    ASSUME TapInv, NEW m \in Tap!Messages, message'[m].kind \in Tap!Kinds
    PROVE  LET f == Tap!Track(Tap!Flow, m)
           IN  /\ f \in Tap!FlowStates
               /\ f.ok = Tap!Flow.ok /\ f.failed = Tap!Flow.failed
               /\ f.mismatch = Tap!Flow.mismatch
               /\ \A t \in 0 .. Tags - 1 : f.pending[t] # None =>
                    IF t = Tap!TagOf(m) THEN f.pending[t].of = m
                    ELSE f.pending[t] = Tap!Flow.pending[t]
<1> DEFINE f == Tap!Track(Tap!Flow, m)
           wait == [ts |-> instant, kind |-> message'[m].kind, of |-> m]
           held == [Tap!Flow.pending EXCEPT ![Tap!TagOf(m)] = wait]
<1>1. Tap!Flow \in Tap!FlowStates
  BY InUse
<1>2. wait \in Tap!Waits /\ wait # None
  <2>1. wait \in Tap!Waits
    BY DEF TapInv, FlowInv, LatencyInv, TapTypes, Tap!Waits
  <2>2. QED
    BY <2>1
<1>3. held \in [0 .. Tags - 1 -> Tap!Waits \cup {None}]
  <2> HIDE DEF wait
  <2> QED BY <1>1, <1>2 DEF Tap!FlowStates
<1>4. PICK gone : gone \in [0 .. Tags - 1 -> BOOLEAN] /\
        f = [Tap!Flow EXCEPT !.pending = [t \in 0 .. Tags - 1 |-> IF gone[t] THEN None ELSE held[t]]]
  <2> DEFINE full == Tap!Cardinality({t \in 0 .. Tags - 1 : held[t] # None}) > PENDING_MAX
             old(t) == held[t] # None /\ held[t].ts < instant - PENDING_TTL
             g == [t \in 0 .. Tags - 1 |-> full /\ old(t)]
  <2>1. g \in [0 .. Tags - 1 -> BOOLEAN]
    BY Zenon
  <2> DEFINE h == [t \in 0 .. Tags - 1 |-> IF full /\ old(t) THEN None ELSE held[t]]
  <2>3. f = [Tap!Flow EXCEPT !.pending = h]
    BY DEF Tap!Track
  <2>4. \A t \in 0 .. Tags - 1 : g[t] <=> full /\ old(t)
    <3> HIDE DEF full, old
    <3> QED BY Zenon
  <2>5. h = [t \in 0 .. Tags - 1 |-> IF g[t] THEN None ELSE held[t]]
    <3> HIDE DEF full, old, g, held
    <3> QED BY <2>4
  <2>2. f = [Tap!Flow EXCEPT !.pending = [t \in 0 .. Tags - 1 |-> IF g[t] THEN None ELSE held[t]]]
    <3> HIDE DEF f, h, g, held
    <3> QED BY <2>3, <2>5
  <2> HIDE DEF g, f, held
  <2>6. QED
    BY <2>1, <2>2
<1>5. /\ f.ok = Tap!Flow.ok /\ f.failed = Tap!Flow.failed /\ f.mismatch = Tap!Flow.mismatch
      /\ f.pending = [t \in 0 .. Tags - 1 |-> IF gone[t] THEN None ELSE held[t]]
      /\ f \in Tap!FlowStates
  <2> HIDE DEF f, held
  <2> QED BY <1>1, <1>3, <1>4 DEF Tap!FlowStates
<1>6. \A t \in 0 .. Tags - 1 : held[t] = IF t = Tap!TagOf(m) THEN wait ELSE Tap!Flow.pending[t]
  <2> HIDE DEF wait
  <2> QED BY <1>1 DEF Tap!FlowStates
<1>7. wait.of = m
  OBVIOUS
<1> HIDE DEF f, held, wait
<1>8. \A t \in 0 .. Tags - 1 : f.pending[t] # None =>
                    IF t = Tap!TagOf(m) THEN f.pending[t].of = m
                    ELSE f.pending[t] = Tap!Flow.pending[t]
  BY <1>5, <1>6, <1>7
<1>9. QED
  BY <1>5, <1>8 DEF f

\* What a captured send of m makes of the flow in use.
Sends(m, f) ==
    /\ f.ok = Tap!Flow.ok /\ f.failed = Tap!Flow.failed
    /\ Tap!Flow.mismatch => f.mismatch
    /\ \A t \in 0 .. Tags - 1 : f.pending[t] # None =>
         \/ t = Tap!TagOf(m) /\ f.pending[t].of = m
         \/ f.pending[t] = Tap!Flow.pending[t] /\ (t = Tap!TagOf(m) => f.mismatch)

\* A captured send is tracked, or does not fit its layout (_on_ezsp).
LEMMA SendFacts ==
    ASSUME TapInv, NEW m \in Tap!Messages, message'[m].kind \in Tap!Kinds, Tap!OnSend(m)
    PROVE  \E f \in Tap!FlowStates : flow' = [flow EXCEPT ![link] = f] /\ Sends(m, f)
<1>1. Tap!Flow \in Tap!FlowStates
  BY InUse
<1>2. CASE flow' = [flow EXCEPT ![link] = Tap!Track(Tap!Flow, m)]
  <2>1. PICK f : f = Tap!Track(Tap!Flow, m)
    OBVIOUS
  <2>2. f \in Tap!FlowStates /\ Sends(m, f)
    BY <2>1, TrackFacts DEF Sends
  <2>3. QED
    BY <1>2, <2>1, <2>2
<1>3. CASE flow' = [flow EXCEPT ![link] = [Tap!Flow EXCEPT !.mismatch = TRUE]]
  <2>1. PICK f : f = [Tap!Flow EXCEPT !.mismatch = TRUE]
    OBVIOUS
  <2>2. f \in Tap!FlowStates /\ Sends(m, f)
    BY <1>1, <2>1 DEF Sends, Tap!FlowStates
  <2>3. QED
    BY <1>3, <2>1, <2>2
<1>4. QED
  BY <1>2, <1>3 DEF Tap!OnSend

\* What a captured confirmation of m makes of it, and of the latencies.
Confirms(m, f) ==
    /\ f.ok + f.failed <= Tap!Flow.ok + Tap!Flow.failed + 1
    /\ f.ok >= Tap!Flow.ok /\ f.failed >= Tap!Flow.failed
    /\ Tap!Flow.mismatch => f.mismatch
    /\ \A t \in 0 .. Tags - 1 : f.pending[t] # None => f.pending[t] = Tap!Flow.pending[t]
    /\ \/ samples' = samples
       \/ /\ f.pending[Tap!TagOf(m)] = None
          /\ Tap!Flow.pending[Tap!TagOf(m)] # None
          /\ \E ms \in Int :
               samples' = samples \cup {[send |-> Tap!Flow.pending[Tap!TagOf(m)].of,
                                         confirm |-> m, again |-> resent, ms |-> ms]}

\* A captured confirmation counts one result and takes what waits under its tag, or
\* does not fit its layout (_on_ezsp).
LEMMA ConfirmFacts ==
    ASSUME TapInv, NEW m \in Tap!Messages, Tap!OnConfirm(m)
    PROVE  \E f \in Tap!FlowStates : flow' = [flow EXCEPT ![link] = f] /\ Confirms(m, f)
<1>1. Tap!Flow \in Tap!FlowStates /\ Tap!TagOf(m) \in 0 .. Tags - 1
  BY InUse, TagRange
<1> DEFINE waited == Tap!Flow.pending[Tap!TagOf(m)]
<1>2. waited \in Tap!Waits \cup {None}
  BY <1>1 DEF Tap!FlowStates
<1>3. CASE /\ flow' = [flow EXCEPT ![link] = [Tap!Flow EXCEPT !.mismatch = TRUE]]
           /\ UNCHANGED samples
  <2>1. PICK f : f = [Tap!Flow EXCEPT !.mismatch = TRUE]
    OBVIOUS
  <2>4. /\ f \in Tap!FlowStates /\ f.ok = Tap!Flow.ok /\ f.failed = Tap!Flow.failed
        /\ f.mismatch /\ f.pending = Tap!Flow.pending
        /\ Tap!Flow.ok \in Nat /\ Tap!Flow.failed \in Nat
    BY <1>1, <2>1 DEF Tap!FlowStates
  <2>2. f \in Tap!FlowStates /\ Confirms(m, f)
    BY <1>3, <2>4 DEF Confirms
  <2>3. QED
    BY <1>3, <2>1, <2>2
<1>4. ASSUME NEW ok \in 0 .. 1,
             flow' = [flow EXCEPT ![link] =
               [Tap!Flow EXCEPT !.pending = Tap!Taken(Tap!Flow, Tap!TagOf(m)),
                                 !.ok = @ + ok, !.failed = @ + (1 - ok)]],
             samples' = IF waited # None /\ waited.kind = "unicast"
                          THEN samples \cup {[send |-> waited.of, confirm |-> m,
                                              again |-> resent, ms |-> instant - waited.ts]}
                          ELSE samples
      PROVE  \E f \in Tap!FlowStates : flow' = [flow EXCEPT ![link] = f] /\ Confirms(m, f)
  <2>1. PICK f : f = [Tap!Flow EXCEPT !.pending = Tap!Taken(Tap!Flow, Tap!TagOf(m)),
                                     !.ok = @ + ok, !.failed = @ + (1 - ok)]
    OBVIOUS
  <2>2. /\ f \in Tap!FlowStates
        /\ f.pending = [Tap!Flow.pending EXCEPT ![Tap!TagOf(m)] = None]
        /\ f.ok + f.failed <= Tap!Flow.ok + Tap!Flow.failed + 1
        /\ f.ok >= Tap!Flow.ok /\ f.failed >= Tap!Flow.failed
        /\ f.mismatch = Tap!Flow.mismatch
    <3>1. PICK p : p = Tap!Taken(Tap!Flow, Tap!TagOf(m))
      OBVIOUS
    <3>2. p = [Tap!Flow.pending EXCEPT ![Tap!TagOf(m)] = None]
      BY <3>1 DEF Tap!Taken
    <3>3. p \in [0 .. Tags - 1 -> Tap!Waits \cup {None}]
      BY <1>1, <3>2 DEF Tap!FlowStates
    <3>4. f = [Tap!Flow EXCEPT !.pending = p, !.ok = @ + ok, !.failed = @ + (1 - ok)]
      BY <2>1, <3>1
    <3>5. PICK ps : ps = [0 .. Tags - 1 -> Tap!Waits \cup {None}]
      OBVIOUS
    <3>6. /\ Tap!Flow \in [pending : ps, ok : Nat, failed : Nat, mismatch : BOOLEAN]
          /\ p \in ps
      BY <1>1, <3>3, <3>5 DEF Tap!FlowStates
    <3>7. /\ f \in [pending : ps, ok : Nat, failed : Nat, mismatch : BOOLEAN]
          /\ f.pending = p /\ f.mismatch = Tap!Flow.mismatch
          /\ f.ok = Tap!Flow.ok + ok /\ f.failed = Tap!Flow.failed + (1 - ok)
      <4>1. PICK won, less : won = ok /\ less = 1 - ok
        OBVIOUS
      <4>2. won \in Nat /\ less \in Nat /\ ok \in 0 .. 1
        BY <4>1
      <4>3. f = [Tap!Flow EXCEPT !.pending = p, !.ok = @ + won, !.failed = @ + less]
        BY <3>4, <4>1, Zenon
      <4>4. f.pending = p /\ f.mismatch = Tap!Flow.mismatch
            /\ f.ok = Tap!Flow.ok + won /\ f.failed = Tap!Flow.failed + less
        BY <3>6, <4>3
      <4>5. f \in [pending : ps, ok : Nat, failed : Nat, mismatch : BOOLEAN]
        <5>1. Tap!Flow.ok + won \in Nat /\ Tap!Flow.failed + less \in Nat
          BY <3>6, <4>2
        <5>2. PICK r : r = Tap!Flow.ok + won /\ r \in Nat
          BY <5>1
        <5>3. PICK q : q = Tap!Flow.failed + less /\ q \in Nat
          BY <5>1
        <5>4. f = [Tap!Flow EXCEPT !.pending = p, !.ok = r, !.failed = q]
          BY <3>6, <4>3, <5>2, <5>3
        <5>5. QED
          BY <3>6, <5>2, <5>3, <5>4
      <4>6. QED
        BY <4>1, <4>4, <4>5
    <3>8. QED
      BY <3>2, <3>5, <3>6, <3>7 DEF Tap!FlowStates
  <2>3. /\ \A t \in 0 .. Tags - 1 : f.pending[t] # None => f.pending[t] = Tap!Flow.pending[t]
        /\ f.pending[Tap!TagOf(m)] = None
    BY <1>1, <2>2 DEF Tap!FlowStates
  <2>4. \/ samples' = samples
        \/ /\ waited # None
           /\ \E ms \in Int :
               samples' = samples \cup {[send |-> waited.of,
                                         confirm |-> m, again |-> resent, ms |-> ms]}
    <3>1. CASE waited # None /\ waited.kind = "unicast"
      <4>1. instant - waited.ts \in Int
        BY <1>2, <3>1 DEF TapInv, FlowInv, LatencyInv, TapTypes, Tap!Waits
      <4> HIDE DEF waited
      <4>2. QED
        BY <1>4, <3>1, <4>1
    <3>2. QED
      BY <1>4, <3>1
  <2>5. Confirms(m, f)
    BY <2>2, <2>3, <2>4 DEF Confirms
  <2>6. QED
    BY <1>4, <2>1, <2>2, <2>5
<1>5. QED
  BY <1>3, <1>4 DEF Tap!OnConfirm

\* A flow with a mismatch keeps it.
LEMMA MismatchStays ==
    ASSUME TapInv, NEW f \in Tap!FlowStates, flow' = [flow EXCEPT ![link] = f],
           Tap!Flow.mismatch => f.mismatch
    PROVE  /\ Mismatched => Mismatched'
           /\ f.mismatch => Mismatched'
<1>1. /\ Tap!Flows' = Tap!Flows \cup {link} /\ flow'[link] = f
      /\ \A c \in Tap!Flows' : c # link => c \in Tap!Flows /\ flow'[c] = flow[c]
  BY FlowBecomes DEF TapInv, FlowInv, LatencyInv
<1>2. link \in Tap!Flows => Tap!Flow = flow[link]
  BY InUse
<1>3. QED
  BY <1>1, <1>2 DEF Mismatched

\* When the flow in use becomes f, the other connections' flows keep their part of
\* the invariant, and f has its own if it is captured, newest and repeated.
LEMMA FlowsKept ==
    ASSUME TapInv, NEW f \in Tap!FlowStates, flow' = [flow EXCEPT ![link] = f], link' = link,
           message' \in [Tap!Messages -> [at : {"unsent", "sent", "over"}, kind : Tap!Kinds \cup {None},
                                          captured : BOOLEAN]],
           \A m \in Tap!Messages : message[m].captured => message'[m].captured,
           resent' \in Nat, Cardinality(Over') + resent' >= Cardinality(Over) + resent,
           Captured(f)', Newest(f)', Repeated(f)',
           f.ok + f.failed <= Cardinality(Over') + resent'
    PROVE  FlowInv'
<1>1. /\ Tap!Flows' = Tap!Flows \cup {link} /\ flow'[link] = f
      /\ \A c \in Tap!Flows' : c # link => c \in Tap!Flows /\ flow'[c] = flow[c]
      /\ \A c \in Tap!Connections : c # link => flow'[c] = flow[c]
  BY FlowBecomes DEF TapInv, FlowInv, LatencyInv
<1>2. ASSUME NEW c \in Tap!Connections, c \in Tap!Flows, c # link
      PROVE  /\ Captured(flow[c])'
             /\ flow'[c].ok + flow'[c].failed <= Cardinality(Over') + resent'
  <2>1. /\ flow'[c] = flow[c] /\ flow[c] \in Tap!FlowStates
        /\ Captured(flow[c]) /\ flow[c].ok + flow[c].failed <= Cardinality(Over) + resent
    BY <1>1, <1>2 DEF TapInv, FlowInv, LatencyInv, TapTypes, Tap!Flows
  <2>2. \A t \in 0 .. Tags - 1 : flow[c].pending[t] # None => flow[c].pending[t].of \in Tap!Messages
    BY <2>1 DEF Tap!FlowStates, Tap!Waits
  <2>3. Captured(flow[c])'
    BY <2>1, <2>2 DEF Captured
  <2>4. /\ flow[c].ok \in Nat /\ flow[c].failed \in Nat
        /\ Cardinality(Over) \in Nat /\ resent \in Nat
    BY <2>1, OverCounted DEF Tap!FlowStates, TapInv, FlowInv, LatencyInv, TapTypes
  <2>5. Cardinality(Over') \in Nat
    <3>1. IsFiniteSet(1 .. MaxMessages)
      BY FS_Interval
    <3>2. QED
      BY <3>1, FS_Subset, FS_CardinalityType DEF Over, Tap!Messages
  <2>6. QED
    BY <2>1, <2>3, <2>4, <2>5
<1>3. \A c \in Tap!Connections : c > link' => flow'[c] = None
  BY <1>1 DEF TapInv, FlowInv, LatencyInv, TapTypes, Tap!Connections
<1>4. Captured(flow[link])' /\ Newest(flow[link])' /\ Repeated(flow[link])'
  <2>1. flow'[link'] = f
    BY <1>1
  <2>2. Captured(flow[link])'
    BY <2>1 DEF Captured
  <2>3. Newest(flow[link])'
    BY <2>1 DEF Newest
  <2>4. Repeated(flow[link])'
    BY <2>1 DEF Repeated
  <2>5. QED
    BY <2>2, <2>3, <2>4
<1>5. \A c \in Tap!Flows' : Captured(flow[c])'
                            /\ flow'[c].ok + flow'[c].failed <= Cardinality(Over') + resent'
  <2> SUFFICES ASSUME NEW c \in Tap!Flows'
               PROVE  Captured(flow[c])' /\ flow'[c].ok + flow'[c].failed <= Cardinality(Over') + resent'
    OBVIOUS
  <2>1. CASE c = link
    BY <1>1, <1>4, <2>1
  <2>2. CASE c # link
    BY <1>1, <1>2, <2>2 DEF Tap!Flows
  <2>3. QED
    BY <2>1, <2>2
<1>6. QED
  BY <1>3, <1>4, <1>5 DEF FlowInv

\* A message that is over stays over.
LEMMA OverGrows ==
    ASSUME \A m \in Tap!Messages : message[m].at = "over" => message'[m].at = "over"
    PROVE  /\ Cardinality(Over') >= Cardinality(Over) /\ Cardinality(Over') \in Nat
           /\ \A m \in Tap!Messages : message[m].at # "over" /\ message'[m].at = "over" =>
                Cardinality(Over') >= Cardinality(Over) + 1
<1>1. IsFiniteSet(Over') /\ Cardinality(Over') \in Nat
  <2>1. IsFiniteSet(1 .. MaxMessages)
    BY FS_Interval
  <2>2. QED
    BY <2>1, FS_Subset, FS_CardinalityType DEF Over, Tap!Messages
<1>2. Over \subseteq Over'
  BY DEF Over
<1>3. Cardinality(Over') >= Cardinality(Over)
  BY <1>1, <1>2, FS_Subset
<1>4. ASSUME NEW m \in Tap!Messages, message[m].at # "over", message'[m].at = "over"
      PROVE  Cardinality(Over') >= Cardinality(Over) + 1
  <2>1. m \notin Over /\ Over \cup {m} \subseteq Over'
    BY <1>2, <1>4 DEF Over
  <2>2. Cardinality(Over \cup {m}) = Cardinality(Over) + 1
    BY <2>1, OverCounted, FS_AddElement
  <2>3. QED
    BY <1>1, <2>1, <2>2, FS_Subset
<1>5. QED
  BY <1>1, <1>3, <1>4

\* A step that leaves the flows as they are.
LEMMA FlowsSame ==
    ASSUME TapInv, UNCHANGED <<flow, samples, crossed, resent>>,
           link' = link \/ (link' = link + 1 /\ link' \in Tap!Connections),
           \A m \in Tap!Messages : message'[m].captured = message[m].captured,
           \A m \in Tap!Messages : message[m].at = "over" => message'[m].at = "over",
           next' \in Nat, next' >= next
    PROVE  FlowInv' /\ LatencyInv'
<1>1. Mismatched' <=> Mismatched
  BY DEF Mismatched, Tap!Flows
<1>2. ASSUME NEW c \in Tap!Connections, c \in Tap!Flows
      PROVE  /\ Captured(flow[c])'
             /\ flow[c].ok + flow[c].failed <= Cardinality(Over') + resent
  <2>1. /\ flow[c] \in Tap!FlowStates
        /\ Captured(flow[c]) /\ flow[c].ok + flow[c].failed <= Cardinality(Over) + resent
    BY <1>2 DEF TapInv, FlowInv, LatencyInv, TapTypes, Tap!Flows
  <2>2. \A t \in 0 .. Tags - 1 : flow[c].pending[t] # None => flow[c].pending[t].of \in Tap!Messages
    BY <2>1 DEF Tap!FlowStates, Tap!Waits
  <2>3. Captured(flow[c])'
    BY <2>1, <2>2 DEF Captured
  <2>4. QED
    BY <2>1, <2>3, OverCounted, OverGrows DEF Tap!FlowStates, TapInv, FlowInv, LatencyInv, TapTypes
<1>3. /\ \A c \in Tap!Connections : c > link' => flow'[c] = None
      /\ flow'[link'] # None => link' = link
  BY DEF TapInv, FlowInv, LatencyInv, TapTypes, Tap!Connections
<1>4. ASSUME flow'[link'] # None PROVE Newest(flow[link])' /\ Repeated(flow[link])'
  <2>1. link' = link /\ Newest(flow[link]) /\ Repeated(flow[link])
    BY <1>3, <1>4 DEF TapInv, FlowInv, LatencyInv
  <2>2. Newest(flow[link])'
    BY <1>1, <2>1 DEF Newest, Tap!Messages, Tap!TagOf
  <2>3. Repeated(flow[link])'
    BY <2>1 DEF Repeated
  <2>4. QED
    BY <2>2, <2>3
<1>5. Tap!LatencyOwn'
  BY <1>1 DEF TapInv, FlowInv, LatencyInv, TapTypes, Tap!LatencyOwn, Mismatched
<1>6. \A s \in samples' : s.again <= resent' /\ s.send < next' /\ s.confirm < next'
  BY DEF TapInv, FlowInv, LatencyInv, TapTypes, Tap!Messages
<1>7. QED
  BY <1>2, <1>3, <1>4, <1>5, <1>6 DEF FlowInv, LatencyInv, Tap!Flows

\* What is known of a message.
MessageStates == [at : {"unsent", "sent", "over"}, kind : Tap!Kinds \cup {None}, captured : BOOLEAN]

\* A captured send of m, for the first time or again.
LEMMA SendKeeps ==
    ASSUME TapInv, NEW m \in Tap!Messages, Tap!OnSend(m), UNCHANGED <<link, samples>>,
           message' \in [Tap!Messages -> MessageStates], message'[m].kind \in Tap!Kinds,
           message'[m].captured,
           \A n \in Tap!Messages : n # m => message'[n].captured = message[n].captured,
           \A n \in Tap!Messages : message[n].at = "over" => message'[n].at = "over",
           \A s \in samples : s.send = m => s.again < resent',
           \A s \in samples : s.confirm = m => message[m].captured,
           \/ message[m].captured
           \/ message[m].at = "unsent",
           resent' \in {resent, resent + 1}, next' \in Nat, next' >= next
    PROVE  /\ flow' \in [Tap!Connections -> Tap!FlowStates \cup {None}]
           /\ FlowInv' /\ LatencyInv'
<1>1. PICK f \in Tap!FlowStates : flow' = [flow EXCEPT ![link] = f] /\ Sends(m, f)
  BY SendFacts
<1>2. \A n \in Tap!Messages : message[n].captured => message'[n].captured
  OBVIOUS
<1>c. /\ crossed \subseteq crossed'
      /\ \A n \in Tap!Messages : n > m /\ Tap!TagOf(n) = Tap!TagOf(m) /\ message'[n].captured
           => <<m, n>> \in crossed'
  <2>1. \A n \in Tap!Messages : n > m /\ message'[n].captured => message[n].at # "unsent"
    BY DEF TapInv, SentInTurn, Tap!Messages
  <2>2. QED
    BY <2>1, CrossFacts DEF Tap!OnSend
<1>3. /\ Mismatched => Mismatched'
      /\ f.mismatch => Mismatched'
  BY <1>1, MismatchStays DEF Sends
<1>4. /\ Captured(Tap!Flow) /\ Newest(Tap!Flow) /\ Repeated(Tap!Flow)
      /\ Tap!Flow \in Tap!FlowStates
      /\ Tap!Flow.ok + Tap!Flow.failed <= Cardinality(Over) + resent
  BY InUse
<1>5. /\ resent' \in Nat /\ resent' >= resent /\ resent \in Nat
      /\ Cardinality(Over') + resent' >= Cardinality(Over) + resent
      /\ Cardinality(Over) \in Nat /\ Cardinality(Over') \in Nat
  <2>1. resent \in Nat
    BY DEF TapInv, TapTypes
  <2>2. QED
    BY <2>1, OverCounted, OverGrows
<1>6. \A t \in 0 .. Tags - 1 : Tap!Flow.pending[t] # None => Tap!Flow.pending[t].of \in Tap!Messages
  BY <1>4 DEF Tap!FlowStates, Tap!Waits
<1>7. Captured(f)'
  <2> SUFFICES ASSUME NEW t \in 0 .. Tags - 1, f.pending[t] # None
               PROVE  Tap!TagOf(f.pending[t].of) = t /\ message'[f.pending[t].of].captured
    BY DEF Captured, Tap!TagOf
  <2>1. CASE t = Tap!TagOf(m) /\ f.pending[t].of = m
    BY <2>1
  <2>2. CASE f.pending[t] = Tap!Flow.pending[t]
    BY <1>2, <1>4, <1>6, <2>2 DEF Captured
  <2>3. QED
    BY <1>1, <2>1, <2>2 DEF Sends
<1>8. Newest(f)'
  <2> SUFFICES ASSUME NEW t \in 0 .. Tags - 1, NEW n \in Tap!Messages,
                      f.pending[t] # None, f.pending[t].of < n, Tap!TagOf(n) = t,
                      message'[n].captured
               PROVE  Mismatched' \/ <<f.pending[t].of, n>> \in crossed'
    BY DEF Newest, Tap!TagOf, Tap!Messages
  <2>1. CASE t = Tap!TagOf(m) /\ f.pending[t].of = m
    BY <1>c, <2>1
  <2>2. CASE f.pending[t] = Tap!Flow.pending[t] /\ (t = Tap!TagOf(m) => f.mismatch)
    <3>1. CASE n = m
      BY <1>3, <2>2, <3>1
    <3>2. CASE n # m
      <4>1. message[n].captured
        BY <3>2
      <4>2. QED
        BY <1>3, <1>4, <1>c, <2>2, <4>1 DEF Newest
    <3>3. QED
      BY <3>1, <3>2
  <2>3. QED
    BY <1>1, <2>1, <2>2 DEF Sends
<1>9. Repeated(f)'
  <2> SUFFICES ASSUME NEW t \in 0 .. Tags - 1, NEW s \in samples,
                      f.pending[t] # None, f.pending[t].of = s.send
               PROVE  s.again < resent'
    BY DEF Repeated
  <2>1. CASE f.pending[t].of = m
    BY <2>1
  <2>2. CASE f.pending[t] = Tap!Flow.pending[t]
    <3>1. s.again < resent /\ s.again \in Nat
      BY <1>4, <2>2 DEF Repeated, TapInv, TapTypes
    <3>2. QED
      BY <1>5, <3>1
  <2>3. QED
    BY <1>1, <2>1, <2>2 DEF Sends
<1>10. f.ok + f.failed <= Cardinality(Over') + resent'
  BY <1>1, <1>4, <1>5 DEF Sends, Tap!FlowStates
<1>11. FlowInv'
  BY <1>1, <1>2, <1>5, <1>7, <1>8, <1>9, <1>10, FlowsKept DEF MessageStates
<1>12. LatencyInv'
  <2>1. \A s \in samples : s.again <= resent' /\ s.send < next' /\ s.confirm < next'
    BY <1>5 DEF TapInv, LatencyInv, TapTypes, Tap!Messages
  <2>2. \A s \in samples : s.send # s.confirm => Mixed(s.send, s.confirm)'
    <3> SUFFICES ASSUME NEW s \in samples, s.send # s.confirm
                 PROVE  Mixed(s.send, s.confirm)'
      OBVIOUS
    <3>1. s.confirm \in Tap!Messages /\ Mixed(s.send, s.confirm)
      BY DEF TapInv, TapTypes, LatencyInv, Tap!LatencyOwn, Mixed, Mismatched
    <3>2. message'[s.confirm].captured => message[s.confirm].captured
      BY <3>1
    <3>3. QED
      BY <1>3, <1>c, <3>1, <3>2, MixedStays
  <2>3. \A s, r \in samples : s # r /\ s.send = r.send => s.again # r.again
    BY DEF TapInv, LatencyInv, Tap!LatencyOwn
  <2>4. QED
    BY <2>1, <2>2, <2>3 DEF LatencyInv, Tap!LatencyOwn, Mixed, Mismatched
<1>13. QED
  BY <1>1, <1>11, <1>12, FlowBecomes DEF TapInv

\* A captured confirmation of m, in time, late or again.
LEMMA ConfirmKeeps ==
    ASSUME TapInv, NEW m \in Tap!Messages, Tap!OnConfirm(m), UNCHANGED <<link, next>>,
           message' \in [Tap!Messages -> MessageStates],
           m < next,
           \A n \in Tap!Messages : message'[n].captured = message[n].captured,
           resent' \in {resent, resent + 1},
           Cardinality(Over') \in Nat,
           Cardinality(Over') + resent' >= Cardinality(Over) + resent + 1
    PROVE  /\ flow' \in [Tap!Connections -> Tap!FlowStates \cup {None}]
           /\ samples' \subseteq [send : Tap!Messages, confirm : Tap!Messages, again : Nat, ms : Int]
           /\ FlowInv' /\ LatencyInv'
<1>1. PICK f \in Tap!FlowStates : flow' = [flow EXCEPT ![link] = f] /\ Confirms(m, f)
  BY ConfirmFacts
<1>2. Mismatched => Mismatched'
  BY <1>1, MismatchStays DEF Confirms
<1>3. /\ Captured(Tap!Flow) /\ Newest(Tap!Flow) /\ Repeated(Tap!Flow)
      /\ Tap!Flow \in Tap!FlowStates
      /\ Tap!Flow.ok + Tap!Flow.failed <= Cardinality(Over) + resent
  BY InUse
<1>4. /\ resent' \in Nat /\ resent' >= resent /\ resent \in Nat /\ next \in Nat
      /\ Cardinality(Over) \in Nat
      /\ samples \subseteq [send : Tap!Messages, confirm : Tap!Messages, again : Nat, ms : Int]
  <2>1. resent \in Nat
    BY DEF TapInv, TapTypes
  <2>2. QED
    BY <2>1, OverCounted DEF TapInv, TapTypes
<1>5. \A t \in 0 .. Tags - 1 : Tap!Flow.pending[t] # None => Tap!Flow.pending[t].of \in Tap!Messages
  BY <1>3 DEF Tap!FlowStates, Tap!Waits
<1>c. /\ crossed \subseteq crossed'
      /\ \A n \in Tap!Messages :
           n > m /\ Tap!TagOf(n) = Tap!TagOf(m) /\ message[n].at # "unsent" => <<m, n>> \in crossed'
  BY CrossFacts DEF Tap!OnConfirm
<1>w. PICK w : w = Tap!Flow.pending[Tap!TagOf(m)].of
  OBVIOUS
\* The samples: the new one's send is captured and of m's tag; if it is not m's,
\* the two crossed, or it is older and m's own was missed.
<1>6. \/ samples' = samples
      \/ /\ f.pending[Tap!TagOf(m)] = None
         /\ w \in Tap!Messages /\ Tap!TagOf(w) = Tap!TagOf(m) /\ w < next
         /\ w # m => Mixed(w, m)'
         /\ \A s \in samples : s.send = w => s.again < resent
         /\ \E ms \in Int : samples' = samples \cup
               {[send |-> w, confirm |-> m, again |-> resent, ms |-> ms]}
  <2> SUFFICES ASSUME samples' # samples
               PROVE  /\ f.pending[Tap!TagOf(m)] = None
                      /\ w \in Tap!Messages /\ Tap!TagOf(w) = Tap!TagOf(m) /\ w < next
                      /\ w # m => Mixed(w, m)'
                      /\ \A s \in samples : s.send = w => s.again < resent
                      /\ \E ms \in Int : samples' = samples \cup
                           {[send |-> w, confirm |-> m, again |-> resent, ms |-> ms]}
    OBVIOUS
  <2>1. /\ f.pending[Tap!TagOf(m)] = None /\ Tap!Flow.pending[Tap!TagOf(m)] # None
        /\ \E ms \in Int : samples' = samples \cup
               {[send |-> w, confirm |-> m, again |-> resent, ms |-> ms]}
    BY <1>1, <1>w DEF Confirms
  <2>2. Tap!TagOf(m) \in 0 .. Tags - 1
    BY TagRange
  <2>3. w \in Tap!Messages /\ Tap!TagOf(w) = Tap!TagOf(m) /\ message[w].captured
    BY <1>3, <1>5, <1>w, <2>1, <2>2 DEF Captured
  <2>4. message[w].at # "unsent" /\ w < next
    BY <2>3, <1>4 DEF TapInv, SentInTurn, Tap!Messages
  <2>5. w > m => <<m, w>> \in crossed'
    BY <1>c, <2>3, <2>4
  <2>6. w < m => Mixed(w, m)
    BY <1>3, <1>w, <2>1, <2>2, <2>3 DEF Newest, Mixed
  <2>7. w < m => Mixed(w, m)'
    BY <1>2, <1>c, <2>6, MixedStays
  <2>8. w # m => Mixed(w, m)'
    <3>1. w < m \/ w > m \/ w = m
      BY <2>3 DEF Tap!Messages
    <3>2. w > m => Mixed(w, m)'
      BY <2>5 DEF Mixed
    <3>3. QED
      BY <2>7, <3>1, <3>2
  <2>9. \A s \in samples : s.send = w => s.again < resent
    BY <1>3, <1>w, <2>1, <2>2 DEF Repeated
  <2>10. QED
    BY <2>1, <2>3, <2>4, <2>8, <2>9
<1>7. samples' \subseteq [send : Tap!Messages, confirm : Tap!Messages, again : Nat, ms : Int]
  BY <1>4, <1>6
<1>8. \A s \in samples' : \/ s \in samples
                          \/ /\ s.send = w /\ s.confirm = m /\ s.again = resent
                             /\ f.pending[Tap!TagOf(m)] = None
                             /\ w \in Tap!Messages /\ Tap!TagOf(w) = Tap!TagOf(m) /\ w < next
                             /\ w # m => Mixed(w, m)'
                             /\ \A r \in samples : r.send = w => r.again < resent
  BY <1>6
<1>9. Captured(f)'
  BY <1>1, <1>3, <1>5 DEF Captured, Confirms, Tap!TagOf
<1>10. Newest(f)'
  BY <1>1, <1>2, <1>3, <1>c DEF Newest, Confirms, Tap!TagOf, Tap!Messages
<1>11. Repeated(f)'
  <2> SUFFICES ASSUME NEW t \in 0 .. Tags - 1, NEW s \in samples',
                      f.pending[t] # None, f.pending[t].of = s.send
               PROVE  s.again < resent'
    BY DEF Repeated
  <2>1. f.pending[t] = Tap!Flow.pending[t]
    BY <1>1 DEF Confirms
  <2>2. s \in samples
    BY <1>3, <1>8, <2>1 DEF Captured
  <2>3. s.again < resent /\ s.again \in Nat
    BY <1>3, <1>4, <2>1, <2>2 DEF Repeated
  <2>4. QED
    BY <1>4, <2>3
<1>12. f.ok + f.failed <= Cardinality(Over') + resent'
  BY <1>1, <1>3, <1>4 DEF Confirms, Tap!FlowStates
<1>13. FlowInv'
  <2>1. Cardinality(Over') + resent' >= Cardinality(Over) + resent
    BY <1>4
  <2>2. QED
    BY <1>1, <1>4, <1>9, <1>10, <1>11, <1>12, <2>1, FlowsKept DEF MessageStates
<1>14. LatencyInv'
  <2>1. \A s \in samples' : s.again <= resent' /\ s.send < next' /\ s.confirm < next'
    <3>1. \A s \in samples : s.again <= resent /\ s.again \in Nat /\ s.send < next /\ s.confirm < next
      BY <1>4 DEF TapInv, LatencyInv
    <3>2. QED
      BY <1>4, <1>8, <3>1
  <2>2. \A s \in samples' : s.send # s.confirm => Mixed(s.send, s.confirm)'
    <3> SUFFICES ASSUME NEW s \in samples', s.send # s.confirm
                 PROVE  Mixed(s.send, s.confirm)'
      OBVIOUS
    <3>1. CASE s \in samples
      <4>1. s.confirm \in Tap!Messages /\ Mixed(s.send, s.confirm)
        BY <1>4, <3>1 DEF TapInv, LatencyInv, Tap!LatencyOwn, Mixed, Mismatched
      <4>2. QED
        BY <1>2, <1>c, <4>1, MixedStays
    <3>2. CASE s \notin samples
      BY <1>8, <3>2
    <3>3. QED
      BY <3>1, <3>2
  <2>3. \A s, r \in samples' : s # r /\ s.send = r.send => s.again # r.again
    <3> SUFFICES ASSUME NEW s \in samples', NEW r \in samples', s # r, s.send = r.send
                 PROVE  s.again # r.again
      OBVIOUS
    <3>1. CASE s \in samples /\ r \in samples
      BY <3>1 DEF TapInv, LatencyInv, Tap!LatencyOwn
    <3>2. CASE s \in samples /\ r \notin samples
      BY <1>4, <1>8, <3>2
    <3>3. CASE s \notin samples /\ r \in samples
      BY <1>4, <1>8, <3>3
    <3>4. CASE s \notin samples /\ r \notin samples
      BY <1>6, <3>4
    <3>5. QED
      BY <3>1, <3>2, <3>3, <3>4
  <2>4. QED
    BY <2>1, <2>2, <2>3 DEF LatencyInv, Tap!LatencyOwn, Mixed, Mismatched
<1>15. QED
  BY <1>1, <1>7, <1>13, <1>14, FlowBecomes DEF TapInv

\* A send keeps the invariant, captured or not.
LEMMA SendStep ==
    ASSUME TapInv, NEW k \in Tap!Kinds, Tap!Send(k)
    PROVE  TapInv'
<1>1. PICK captured \in BOOLEAN :
        /\ message' = [message EXCEPT ![next] = [at |-> "sent", kind |-> k, captured |-> captured]]
        /\ IF captured THEN Tap!OnSend(next) ELSE UNCHANGED <<flow, crossed>>
  BY DEF Tap!Send
<1>2. /\ next \in Tap!Messages /\ next' = next + 1 /\ UNCHANGED <<instant, link, samples, resent>>
      /\ message[next].at = "unsent"
  BY DEF Tap!Send, TapInv, TapTypes, Tap!Messages
<1>3. message \in [Tap!Messages -> MessageStates]
  BY DEF TapInv, TapTypes, MessageStates
<1>4. /\ message' \in [Tap!Messages -> MessageStates]
      /\ \A m \in Tap!Messages : m # next => message'[m] = message[m]
      /\ message'[next].at = "sent" /\ message'[next].kind = k /\ message'[next].captured = captured
  BY <1>1, <1>2, <1>3 DEF MessageStates
<1>5. /\ next' \in 1 .. MaxMessages + 1 /\ next \in Nat /\ next' \in Nat /\ next' >= next
  BY <1>2 DEF TapInv, TapTypes, Tap!Messages
<1>6. SentInTurn'
  <2>1. \A m \in Tap!Messages : message'[m].at = "unsent" <=> m >= next'
    BY <1>2, <1>4, <1>5 DEF TapInv, SentInTurn, Tap!Messages
  <2>2. \A m \in Tap!Messages : message'[m].at = "unsent" => ~message'[m].captured
    BY <1>2, <1>4 DEF TapInv, SentInTurn
  <2>3. \A m \in Tap!Messages : message'[m].at # "unsent" => message'[m].kind \in Tap!Kinds
    BY <1>2, <1>4 DEF TapInv, SentInTurn
  <2>5. QED
    BY <2>1, <2>2, <2>3 DEF SentInTurn, Tap!Messages
<1>7. \A m \in Tap!Messages : message[m].at = "over" => message'[m].at = "over"
  BY <1>2, <1>4
<1>8. ~message[next].captured
  BY <1>2 DEF TapInv, SentInTurn
<1>9. /\ flow' \in [Tap!Connections -> Tap!FlowStates \cup {None}]
      /\ FlowInv' /\ LatencyInv'
  <2>1. CASE captured
    <3>1. \A s \in samples : s.send # next /\ s.confirm # next
      BY <1>5 DEF TapInv, LatencyInv, TapTypes, Tap!Messages
    <3>2. resent' \in {resent, resent + 1}
      BY <1>2
    <3>3. Tap!OnSend(next)
      BY <1>1, <2>1
    <3>4. \A n \in Tap!Messages : n # next => message'[n].captured = message[n].captured
      BY <1>4
    <3>5. QED
      BY <1>2, <1>4, <1>5, <1>7, <1>8, <2>1, <3>1, <3>2, <3>3, <3>4, SendKeeps
  <2>2. CASE ~captured
    <3>1. UNCHANGED <<flow, samples, crossed, resent>> /\ link' = link
      BY <1>1, <1>2, <2>2
    <3>2. \A m \in Tap!Messages : message'[m].captured = message[m].captured
      BY <1>2, <1>3, <1>4, <1>8, <2>2 DEF MessageStates
    <3>3. flow' \in [Tap!Connections -> Tap!FlowStates \cup {None}]
      BY <3>1 DEF TapInv, TapTypes
    <3>4. QED
      BY <1>5, <1>7, <3>1, <3>2, <3>3, FlowsSame
  <2>3. QED
    BY <2>1, <2>2
<1>10. TapTypes'
  BY <1>2, <1>4, <1>5, <1>9 DEF TapInv, TapTypes, MessageStates, Tap!Messages
<1>11. QED
  BY <1>6, <1>9, <1>10 DEF TapInv

\* A send that ASH repeats keeps it, whatever was sent since.
LEMMA SendAgainStep ==
    ASSUME TapInv, NEW m \in Tap!Messages, Tap!SendAgain(m)
    PROVE  TapInv'
<1>1. /\ resent' = resent + 1 /\ UNCHANGED <<instant, link, message, next, samples>>
      /\ message[m].at # "unsent" /\ message[m].captured
      /\ Tap!OnSend(m)
  BY DEF Tap!SendAgain
<1>2. /\ message \in [Tap!Messages -> MessageStates] /\ next \in Nat /\ resent \in Nat
      /\ message[m].kind \in Tap!Kinds
  BY <1>1 DEF TapInv, TapTypes, MessageStates, SentInTurn
<1>3. \A s \in samples : s.send = m => s.again < resent'
  BY <1>1, <1>2 DEF TapInv, TapTypes, LatencyInv
<1>5. /\ flow' \in [Tap!Connections -> Tap!FlowStates \cup {None}]
      /\ FlowInv' /\ LatencyInv'
  <2>1. /\ message' \in [Tap!Messages -> MessageStates] /\ message'[m].kind \in Tap!Kinds
        /\ message'[m].captured /\ resent' \in {resent, resent + 1}
        /\ next' \in Nat /\ next' >= next
        /\ \A n \in Tap!Messages : n # m => message'[n].captured = message[n].captured
        /\ \A n \in Tap!Messages : message[n].at = "over" => message'[n].at = "over"
    BY <1>1, <1>2
  <2>2. QED
    BY <1>1, <1>3, <2>1, SendKeeps
<1>6. TapTypes' /\ SentInTurn'
  <2>1. TapTypes'
    BY <1>1, <1>2, <1>5 DEF TapInv, TapTypes, Tap!Messages
  <2>2. SentInTurn'
    BY <1>1 DEF TapInv, SentInTurn, Tap!TagOf, Tap!Messages
  <2>3. QED
    BY <2>1, <2>2
<1>7. QED
  BY <1>5, <1>6 DEF TapInv

\* A confirmation keeps it, captured or not.
LEMMA ConfirmStep ==
    ASSUME TapInv, NEW m \in Tap!Messages, Tap!Confirm(m)
    PROVE  TapInv'
<1>1. /\ message[m].at = "sent" /\ UNCHANGED <<instant, link, next, resent>>
      /\ message' = [message EXCEPT ![m].at = "over"]
      /\ Tap!OnConfirm(m) \/ UNCHANGED <<flow, samples, crossed>>
  BY DEF Tap!Confirm
<1>2. /\ message \in [Tap!Messages -> MessageStates] /\ next \in Nat /\ resent \in Nat /\ m < next
  BY <1>1 DEF TapInv, TapTypes, MessageStates, SentInTurn, Tap!Messages
<1>3. /\ message' \in [Tap!Messages -> MessageStates]
      /\ \A n \in Tap!Messages : /\ n # m => message'[n] = message[n]
                                 /\ message'[n].captured = message[n].captured
                                 /\ message'[n].kind = message[n].kind
      /\ message'[m].at = "over"
  BY <1>1, <1>2 DEF MessageStates
<1>4. SentInTurn'
  <2>1. \A n \in Tap!Messages : message'[n].at = "unsent" <=> message[n].at = "unsent"
    BY <1>1, <1>3
  <2>4. QED
    BY <1>1, <1>3, <2>1 DEF TapInv, SentInTurn, Tap!Messages
<1>5. \A n \in Tap!Messages : message[n].at = "over" => message'[n].at = "over"
  BY <1>3
<1>7. /\ flow' \in [Tap!Connections -> Tap!FlowStates \cup {None}]
      /\ samples' \subseteq [send : Tap!Messages, confirm : Tap!Messages, again : Nat, ms : Int]
      /\ FlowInv' /\ LatencyInv'
  <2>1. CASE Tap!OnConfirm(m)
    <3>1. /\ Cardinality(Over') \in Nat /\ Cardinality(Over') >= Cardinality(Over) + 1
          /\ Cardinality(Over) \in Nat
      BY <1>1, <1>3, <1>5, OverGrows, OverCounted
    <3>2. Cardinality(Over') + resent' >= Cardinality(Over) + resent + 1
      BY <1>1, <1>2, <3>1
    <3>3. resent' \in {resent, resent + 1}
      BY <1>1
    <3>4. QED
      BY <1>1, <1>2, <1>3, <2>1, <3>1, <3>2, <3>3, ConfirmKeeps
  <2>2. CASE UNCHANGED <<flow, samples, crossed>>
    <3>1. UNCHANGED <<flow, samples, crossed, resent>> /\ link' = link /\ next' \in Nat /\ next' >= next
      BY <1>1, <1>2, <2>2
    <3>2. /\ flow' \in [Tap!Connections -> Tap!FlowStates \cup {None}]
          /\ samples' \subseteq [send : Tap!Messages, confirm : Tap!Messages, again : Nat, ms : Int]
      BY <3>1 DEF TapInv, TapTypes
    <3>4. QED
      BY <1>3, <1>5, <3>1, <3>2, FlowsSame
  <2>3. QED
    BY <1>1, <2>1, <2>2
<1>8. TapTypes'
  BY <1>1, <1>3, <1>7 DEF TapInv, TapTypes, MessageStates, Tap!Messages
<1>9. QED
  BY <1>4, <1>7, <1>8 DEF TapInv

\* A confirmation that ASH repeats keeps it, whatever was sent since.
LEMMA ConfirmAgainStep ==
    ASSUME TapInv, NEW m \in Tap!Messages, Tap!ConfirmAgain(m)
    PROVE  TapInv'
<1>1. /\ resent' = resent + 1 /\ UNCHANGED <<instant, link, message, next>>
      /\ message[m].at = "over"
      /\ Tap!OnConfirm(m)
  BY DEF Tap!ConfirmAgain
<1>2. /\ message \in [Tap!Messages -> MessageStates] /\ next \in Nat /\ resent \in Nat /\ m < next
  BY <1>1 DEF TapInv, TapTypes, MessageStates, SentInTurn, Tap!Messages
<1>3. /\ Cardinality(Over') \in Nat /\ Cardinality(Over') + resent' >= Cardinality(Over) + resent + 1
  BY <1>1, <1>2, OverGrows, OverCounted
<1>4. /\ message' \in [Tap!Messages -> MessageStates]
      /\ \A n \in Tap!Messages : message'[n].captured = message[n].captured
      /\ resent' \in {resent, resent + 1}
  BY <1>1, <1>2
<1>6. /\ flow' \in [Tap!Connections -> Tap!FlowStates \cup {None}]
      /\ samples' \subseteq [send : Tap!Messages, confirm : Tap!Messages, again : Nat, ms : Int]
      /\ FlowInv' /\ LatencyInv'
  BY <1>1, <1>2, <1>3, <1>4, ConfirmKeeps
<1>7. TapTypes' /\ SentInTurn'
  <2>1. TapTypes'
    BY <1>1, <1>2, <1>6 DEF TapInv, TapTypes, Tap!Messages
  <2>2. SentInTurn'
    BY <1>1 DEF TapInv, SentInTurn, Tap!TagOf, Tap!Messages
  <2>3. QED
    BY <2>1, <2>2
<1>8. QED
  BY <1>6, <1>7 DEF TapInv

\* Every step of the tap keeps the invariant.
LEMMA TapStep == TapInv /\ [Tap!Next]_tap => TapInv'
<1> SUFFICES ASSUME TapInv, [Tap!Next]_tap PROVE TapInv'
  OBVIOUS
<1>1. CASE UNCHANGED tap
  BY <1>1 DEF tap, TapInv, TapTypes, SentInTurn, FlowInv, LatencyInv, Captured, Newest, Repeated,
              Mismatched, Over, Tap!LatencyOwn, Tap!Flows, Tap!TagOf, Tap!Messages
<1>2. ASSUME NEW k \in Tap!Kinds, Tap!Send(k) PROVE TapInv'
  BY <1>2, SendStep
<1>3. ASSUME NEW m \in Tap!Messages, Tap!SendAgain(m) \/ Tap!Confirm(m) \/ Tap!ConfirmAgain(m)
      PROVE  TapInv'
  BY <1>3, SendAgainStep, ConfirmStep, ConfirmAgainStep
<1>4. CASE Tap!Reconnect
  <2>1. /\ link < MaxConnections /\ link' = link + 1
        /\ message' = [m \in Tap!Messages |->
             IF message[m].at = "sent" THEN [message[m] EXCEPT !.at = "over"] ELSE message[m]]
        /\ UNCHANGED <<instant, next, flow, samples, crossed, resent>>
    BY <1>4 DEF Tap!Reconnect
  <2>2. /\ message \in [Tap!Messages -> MessageStates] /\ next \in Nat /\ link' \in Tap!Connections
    BY <2>1 DEF TapInv, TapTypes, MessageStates, Tap!Connections
  <2>3. /\ message' \in [Tap!Messages -> MessageStates]
        /\ \A n \in Tap!Messages : /\ message'[n].captured = message[n].captured
                                   /\ message'[n].kind = message[n].kind
                                   /\ message'[n].at # "sent"
                                   /\ message'[n].at = "unsent" <=> message[n].at = "unsent"
                                   /\ message[n].at = "over" => message'[n].at = "over"
    BY <2>1, <2>2 DEF MessageStates
  <2>4. SentInTurn'
    BY <2>1, <2>3 DEF TapInv, SentInTurn, Tap!TagOf, Tap!Messages
  <2>5. FlowInv' /\ LatencyInv'
    <3>1. next' \in Nat /\ next' >= next
      BY <2>1, <2>2
    <3>2. QED
      BY <2>1, <2>2, <2>3, <3>1, FlowsSame
  <2>6. TapTypes'
    BY <2>1, <2>2, <2>3 DEF TapInv, TapTypes, MessageStates, Tap!Messages, Tap!Connections
  <2>7. QED
    BY <2>4, <2>5, <2>6 DEF TapInv
<1>5. CASE Tap!Tick
  <2>1. instant' \in 0 .. TapTime /\ UNCHANGED <<link, message, next, flow, samples, crossed, resent>>
    BY <1>5 DEF Tap!Tick, TapInv, TapTypes
  <2>2. TapTypes'
    BY <2>1 DEF TapInv, TapTypes, Tap!Messages
  <2>3. QED
    BY <2>1, <2>2 DEF TapInv, SentInTurn, FlowInv, LatencyInv, Captured, Newest, Repeated,
              Mismatched, Over, Tap!LatencyOwn, Tap!Flows, Tap!TagOf, Tap!Messages
<1>6. QED
  BY <1>1, <1>2, <1>3, <1>4, <1>5 DEF Tap!Next

\* The flow in use becomes f, which has counted as much or more.
LEMMA CountsOnly ==
    ASSUME TapInv, NEW f \in Tap!FlowStates, flow' = [flow EXCEPT ![link] = f],
           f.ok >= Tap!Flow.ok, f.failed >= Tap!Flow.failed
    PROVE  /\ Tap!Flows \subseteq Tap!Flows'
           /\ \A c \in Tap!Flows : flow'[c].ok >= flow[c].ok /\ flow'[c].failed >= flow[c].failed
<1>1. /\ Tap!Flows' = Tap!Flows \cup {link} /\ flow'[link] = f
      /\ \A c \in Tap!Connections : c # link => flow'[c] = flow[c]
  BY FlowBecomes DEF TapInv
<1>2. link \in Tap!Flows => Tap!Flow = flow[link]
  BY InUse
<1>3. \A c \in Tap!Flows : flow[c] \in Tap!FlowStates /\ c \in Tap!Connections
  BY DEF Tap!Flows, TapInv, TapTypes
<1>4. QED
  BY <1>1, <1>2, <1>3 DEF Tap!FlowStates

\* No step forgets a flow, or counts less in one.
LEMMA FlowsGrow ==
    ASSUME TapInv, [Tap!Next]_tap
    PROVE  /\ Tap!Flows \subseteq Tap!Flows'
           /\ \A c \in Tap!Flows : flow'[c].ok >= flow[c].ok /\ flow'[c].failed >= flow[c].failed
<1>1. CASE UNCHANGED flow
  <2>1. \A c \in Tap!Flows : flow[c] \in Tap!FlowStates
    BY DEF Tap!Flows, TapInv, TapTypes
  <2>2. QED
    BY <1>1, <2>1 DEF Tap!Flows, Tap!FlowStates
<1>2. ASSUME NEW m \in Tap!Messages, Tap!OnSend(m), message'[m].kind \in Tap!Kinds
      PROVE  /\ Tap!Flows \subseteq Tap!Flows'
             /\ \A c \in Tap!Flows : flow'[c].ok >= flow[c].ok /\ flow'[c].failed >= flow[c].failed
  <2>1. PICK f \in Tap!FlowStates : flow' = [flow EXCEPT ![link] = f] /\ Sends(m, f)
    BY <1>2, SendFacts
  <2>2. Tap!Flow \in Tap!FlowStates
    BY InUse
  <2>3. f.ok >= Tap!Flow.ok /\ f.failed >= Tap!Flow.failed
    BY <2>1, <2>2 DEF Sends, Tap!FlowStates
  <2>4. QED
    BY <2>1, <2>3, CountsOnly
<1>3. ASSUME NEW m \in Tap!Messages, Tap!OnConfirm(m)
      PROVE  /\ Tap!Flows \subseteq Tap!Flows'
             /\ \A c \in Tap!Flows : flow'[c].ok >= flow[c].ok /\ flow'[c].failed >= flow[c].failed
  <2>1. PICK f \in Tap!FlowStates : flow' = [flow EXCEPT ![link] = f] /\ Confirms(m, f)
    BY <1>3, ConfirmFacts
  <2>2. f.ok >= Tap!Flow.ok /\ f.failed >= Tap!Flow.failed
    BY <2>1 DEF Confirms
  <2>3. QED
    BY <2>1, <2>2, CountsOnly
<1>4. ASSUME NEW k \in Tap!Kinds, Tap!Send(k)
      PROVE  UNCHANGED flow \/ \E m \in Tap!Messages : Tap!OnSend(m) /\ message'[m].kind \in Tap!Kinds
  <2>1. next \in Tap!Messages
    BY <1>4 DEF Tap!Send, TapInv, TapTypes, Tap!Messages
  <2>2. message \in [Tap!Messages -> MessageStates]
    BY DEF TapInv, TapTypes, MessageStates
  <2>3. PICK captured \in BOOLEAN :
        /\ message' = [message EXCEPT ![next] = [at |-> "sent", kind |-> k, captured |-> captured]]
        /\ IF captured THEN Tap!OnSend(next) ELSE UNCHANGED <<flow, crossed>>
    BY <1>4 DEF Tap!Send
  <2>4. message'[next].kind = k
    BY <2>1, <2>2, <2>3
  <2>5. QED
    BY <2>1, <2>3, <2>4
<1>5. ASSUME NEW m \in Tap!Messages, Tap!SendAgain(m)
      PROVE  Tap!OnSend(m) /\ message'[m].kind \in Tap!Kinds
  BY <1>5 DEF Tap!SendAgain, TapInv, SentInTurn
<1>6. ASSUME NEW m \in Tap!Messages, Tap!Confirm(m) \/ Tap!ConfirmAgain(m)
      PROVE  UNCHANGED flow \/ Tap!OnConfirm(m)
  BY <1>6 DEF Tap!Confirm, Tap!ConfirmAgain
<1>7. UNCHANGED tap \/ Tap!Reconnect \/ Tap!Tick => UNCHANGED flow
  BY DEF tap, Tap!Reconnect, Tap!Tick
<1>8. QED
  BY <1>1, <1>2, <1>3, <1>4, <1>5, <1>6, <1>7 DEF Tap!Next

\* Sums over the flows grow with them.
LEMMA TotalGrows ==
    ASSUME NEW T, IsFiniteSet(T), NEW f, NEW h, DOMAIN f \subseteq T, DOMAIN h = T,
           \A x \in DOMAIN f : f[x] \in Nat /\ f[x] <= h[x],
           \A x \in T : h[x] \in Nat
    PROVE  Tap!SumFunction(f) <= Tap!SumFunction(h)
<1>1. /\ Tap!SumFunction(f) = SumFunctionOnSet(f, DOMAIN f)
      /\ Tap!SumFunction(h) = SumFunctionOnSet(h, T)
  BY Sums DEF Tap!SumFunction
<1>2. SumFunctionOnSet(f, DOMAIN f) <= SumFunctionOnSet(h, T)
  BY SumWidens
<1>3. QED
  BY <1>1, <1>2

\* wire_delivery_totals sums the flows of all connections, so that it does not fall.
LEMMA TotalsGrow ==
    ASSUME TapInv, TapInv', [Tap!Next]_tap
    PROVE  /\ Tap!DeliveryTotals'[1] >= Tap!DeliveryTotals[1]
           /\ Tap!DeliveryTotals'[2] >= Tap!DeliveryTotals[2]
<1>1. /\ Tap!Flows \subseteq Tap!Flows'
      /\ \A c \in Tap!Flows : flow'[c].ok >= flow[c].ok /\ flow'[c].failed >= flow[c].failed
  BY FlowsGrow
<1>2. IsFiniteSet(Tap!Flows')
  <2>1. IsFiniteSet(1 .. MaxConnections)
    BY FS_Interval
  <2>2. QED
    BY <2>1, FS_Subset DEF Tap!Flows, Tap!Connections
<1>3. /\ \A c \in Tap!Flows : flow[c].ok \in Nat /\ flow[c].failed \in Nat
      /\ \A c \in Tap!Flows' : flow'[c].ok \in Nat /\ flow'[c].failed \in Nat
  BY DEF TapInv, TapTypes, Tap!Flows, Tap!FlowStates
<1>4. PICK f, h : f = [c \in Tap!Flows |-> flow[c].ok] /\ h = [c \in Tap!Flows' |-> flow'[c].ok]
  OBVIOUS
<1>5. PICK g, k : g = [c \in Tap!Flows |-> flow[c].failed] /\ k = [c \in Tap!Flows' |-> flow'[c].failed]
  OBVIOUS
<1>6. Tap!SumFunction(f) <= Tap!SumFunction(h)
  <2>1. /\ DOMAIN f \subseteq Tap!Flows' /\ DOMAIN h = Tap!Flows'
        /\ \A x \in DOMAIN f : f[x] \in Nat /\ f[x] <= h[x]
        /\ \A x \in Tap!Flows' : h[x] \in Nat
    BY <1>1, <1>3, <1>4
  <2>2. QED
    BY <1>2, <2>1, TotalGrows
<1>7. Tap!SumFunction(g) <= Tap!SumFunction(k)
  <2>1. /\ DOMAIN g \subseteq Tap!Flows' /\ DOMAIN k = Tap!Flows'
        /\ \A x \in DOMAIN g : g[x] \in Nat /\ g[x] <= k[x]
        /\ \A x \in Tap!Flows' : k[x] \in Nat
    BY <1>1, <1>3, <1>5
  <2>2. QED
    BY <1>2, <2>1, TotalGrows
<1>8. /\ Tap!DeliveryTotals = <<Tap!SumFunction(f), Tap!SumFunction(g)>>
      /\ Tap!DeliveryTotals' = <<Tap!SumFunction(h), Tap!SumFunction(k)>>
  BY <1>4, <1>5 DEF Tap!DeliveryTotals, Tap!Counted
<1>9. QED
  BY <1>6, <1>7, <1>8

\* Of the bound on repeats, the invariant is its own.
RepeatsBounded == resent <= MaxRepeats

\* The bound on repeats holds at first ...
LEMMA RepeatsInit == Tap!Init => RepeatsBounded
BY DEF Tap!Init, RepeatsBounded

\* ... and after every step.
LEMMA RepeatsStep == TapInv /\ RepeatsBounded /\ [Tap!Next]_tap => RepeatsBounded'
BY DEF TapInv, TapTypes, RepeatsBounded, Tap!Next, tap, Tap!Send, Tap!SendAgain, Tap!Confirm,
       Tap!ConfirmAgain, Tap!Reconnect, Tap!Tick

\* The invariant gives the types: a result is counted once for a message that is
\* over, or for a repeat.
LEMMA TapTyped == TapInv /\ RepeatsBounded => Tap!TypeOK
<1> SUFFICES ASSUME TapInv, RepeatsBounded PROVE Tap!TypeOK
  OBVIOUS
<1>1. IsFiniteSet(1 .. MaxMessages) /\ Cardinality(1 .. MaxMessages) = MaxMessages
  BY FS_Interval
<1>2. Cardinality(Over) <= MaxMessages /\ Cardinality(Over) \in Nat
  BY <1>1, FS_Subset, OverCounted DEF Over, Tap!Messages
<1>3. ASSUME NEW c \in Tap!Flows PROVE flow[c].ok + flow[c].failed <= MaxMessages + MaxRepeats
  <2>1. flow[c].ok + flow[c].failed <= Cardinality(Over) + resent
    BY DEF TapInv, FlowInv
  <2>2. flow[c].ok \in Nat /\ flow[c].failed \in Nat /\ resent \in Nat
    BY DEF TapInv, TapTypes, Tap!Flows, Tap!FlowStates
  <2>3. QED
    BY <1>2, <2>1, <2>2 DEF RepeatsBounded
<1>4. QED
  BY <1>3 DEF Tap!TypeOK, TapInv, TapTypes, FlowInv, Captured

\* A latency is that of one send and of its own confirmation, unless the capture
\* missed the send, a layout did not fit or a frame of the two came after the
\* newer one was sent, and what calibration subtracts never falls, for any number of tags, messages and connections and any bound on what
\* waits (tap.py:383-442, 504-505).
THEOREM TapTruth == Spec => TapTellsTruth
<1>1. Init => TapInv /\ RepeatsBounded
  BY TapInit, RepeatsInit DEF Init
<1>2. TapInv /\ RepeatsBounded /\ [Next]_vars => TapInv' /\ RepeatsBounded'
  BY TapStep, RepeatsStep, Apart
<1>3. TapInv /\ RepeatsBounded => (part = "tap" => Tap!TypeOK /\ Tap!LatencyOwn)
  BY TapTyped DEF TapInv, LatencyInv
<1>4. TapInv /\ TapInv' /\ [Next]_vars =>
        [Tap!DeliveryTotals'[1] >= Tap!DeliveryTotals[1]
         /\ Tap!DeliveryTotals'[2] >= Tap!DeliveryTotals[2]]_Tap!vars
  BY TotalsGrow, Apart
<1>5. QED
  BY <1>1, <1>2, <1>3, <1>4, PTL DEF Spec, TapTellsTruth, Tap!TotalsNeverFall

HIDE TapAssumption DEF Tap!TapAssumption

-----------------------------------------------------------------------------
(* The rollups *)

\* Where the worker may be.
Passes == [at : {"idle", "drain", "listing", "pop", "store"}, now : Rollups!Windows,
           todo : SUBSET Rollups!Windows, grown : BOOLEAN]

\* The types of the rollups' variables.
RollTypes ==
    /\ kind \in {"counters", "latency"}
    /\ wall \in Rollups!Seconds /\ watermark \in Rollups!Windows
    /\ buckets \in [Rollups!Seconds -> Nat]
    /\ open \in [Rollups!Windows -> Nat \cup {None}]
    /\ drawn \in [Rollups!Windows -> Nat \cup {None}]
    /\ windows \in [Rollups!Windows -> Nat] /\ happened \in [Rollups!Windows -> Nat]
    /\ adding \in Rollups!Adds \cup {None} /\ pass \in Passes
    /\ back \in 0 .. MaxBack

\* An observation of w is on its way into its bucket or list.
Adding(w) == IF adding # None /\ Rollups!Window(adding.now) = w THEN 1 ELSE 0

\* Of w the buckets have not, or no more, what happened: it is drained, and too
\* old to be counted or drained again, as often as the clock is set back.
Slack == (MaxBack - back) * Rollup
Gone(w) ==
    /\ w < watermark /\ Adding(w) = 0
    /\ w + Rollup + Slack <= wall
    /\ pass.at = "drain" => w < pass.now

\* Of a window nothing is counted twice; it has what happened unless it is gone or
\* excused, and behind the watermark its row has it.
CountOf(w) ==
    /\ Rollups!Count(w) + Adding(w) <= happened[w]
    /\ windows[w] <= happened[w] /\ (drawn[w] # None => drawn[w] <= happened[w])
    /\ w \notin excused /\ Rollups!Count(w) + Adding(w) # happened[w] => Gone(w)
    /\ w \notin excused /\ w < watermark /\ Adding(w) = 0 =>
         (IF drawn[w] # None THEN drawn[w] ELSE windows[w]) = happened[w]

\* Until the clock is set back nothing is ahead of it.
NotAhead ==
    back = 0 => /\ watermark <= wall
                /\ pass.at = "drain" => watermark <= pass.now /\ pass.now <= wall
                /\ adding # None => adding.now <= wall

\* The counters: the worker's place, each window, the clock.
CountInv ==
    /\ pass.at \in {"idle", "drain", "store"}
    /\ pass.at = "store" \/ drawn = Rollups!Nothing
    /\ \A w \in Rollups!Windows : CountOf(w)
    /\ NotAhead

\* What is in a window's list, and in its drained row.
Listed(w) == IF open[w] = None THEN 0 ELSE open[w]
Drained(w) == IF drawn[w] = None THEN 0 ELSE drawn[w]

\* A list is empty only between the two steps of add.
ListOf(w) ==
    /\ open[w] = 0 => adding # None /\ adding.has = "list" /\ Rollups!Window(adding.now) = w
    /\ Listed(w) + Adding(w) <= happened[w]
    /\ windows[w] <= happened[w] /\ Drained(w) <= happened[w]
    /\ w \notin excused =>
         /\ open[w] # None => drawn[w] = None /\ windows[w] = 0
         /\ drawn[w] # None => windows[w] = 0
         /\ Listed(w) + Adding(w) + Drained(w) + windows[w] = happened[w]

\* The latencies: the list in hand, those to be popped, each window.
ListInv ==
    /\ adding # None /\ adding.has = "list" => open[Rollups!Window(adding.now)] # None
    /\ pass.at = "pop" => \A w \in pass.todo : open[w] # None
    /\ \A w \in Rollups!Windows : ListOf(w)

\* The inductive invariant of the rollups.
RollInv ==
    /\ RollTypes
    /\ kind = "counters" => CountInv
    /\ kind = "latency" => ListInv

USE RollupAssumption DEF Rollups!RollupAssumption

\* A second lies in its window, and a window that begins by then begins no later
\* than that (rates.py: second - second % ROLLUP_SECONDS).
LEMMA WindowFacts ==
    \A s \in Rollups!Seconds :
        /\ Rollups!Window(s) \in Rollups!Windows
        /\ Rollups!Window(s) \in Nat /\ Rollups!Window(s) <= s /\ s < Rollups!Window(s) + Rollup
        /\ \A w \in Rollups!Windows : w \in Nat /\ (w <= s => w <= Rollups!Window(s))
<1> TAKE s \in Rollups!Seconds
<1>1. s \in Nat
  BY DEF Rollups!Seconds
<1>2. Rollups!Window(s) \in Nat /\ Rollups!Window(s) <= s /\ s < Rollups!Window(s) + Rollup
  BY <1>1 DEF Rollups!Window
<1>3. \A t \in Rollups!Seconds : \E q \in Nat : Rollups!Window(t) = Rollup * q
  <2> TAKE t \in Rollups!Seconds
  <2>1. t \in Nat
    BY DEF Rollups!Seconds
  <2>2. t = Rollup * (t \div Rollup) + (t % Rollup) /\ t \div Rollup \in Nat
    BY <2>1
  <2>3. Rollup * (t \div Rollup) \in Int /\ t % Rollup \in Int
    BY <2>1, <2>2
  <2>4. t - (t % Rollup) = Rollup * (t \div Rollup)
    BY <2>1, <2>2, <2>3
  <2>5. QED
    BY <2>2, <2>4, Zenon DEF Rollups!Window
<1>4. ASSUME NEW w \in Rollups!Windows
      PROVE  w \in Nat /\ (w <= s => w <= Rollups!Window(s))
  <2>1. PICK q \in Nat : w = Rollup * q
    BY <1>3 DEF Rollups!Windows
  <2>2. PICK p \in Nat : Rollups!Window(s) = Rollup * p
    BY <1>3
  <2>3. w \in Nat
    BY <2>1
  <2>4. ASSUME w <= s PROVE w <= Rollups!Window(s)
    <3>1. Rollup * q < Rollup * p + Rollup
      BY <1>2, <2>1, <2>2, <2>3, <2>4, <1>1
    <3>2. q <= p
      <4>1. SUFFICES ASSUME q >= p + 1 PROVE FALSE
        OBVIOUS
      <4>2. PICK d \in Nat : q = p + 1 + d
        <5>1. q - (p + 1) \in Nat /\ q = p + 1 + (q - (p + 1))
          BY <4>1
        <5>2. QED
          BY <5>1
      <4>3. Rollup * q = Rollup * p + Rollup + Rollup * d
        BY <4>2
      <4>4. Rollup * d \in Nat /\ Rollup * p \in Nat
        OBVIOUS
      <4>5. QED
        BY <3>1, <4>3, <4>4
    <3>3. PICK d \in Nat : p = q + d
      <4>1. p - q \in Nat /\ p = q + (p - q)
        BY <3>2
      <4>2. QED
        BY <4>1
    <3>4. Rollup * p = Rollup * q + Rollup * d /\ Rollup * d \in Nat /\ Rollup * q \in Nat
      BY <3>3
    <3>5. QED
      BY <2>1, <2>2, <3>4
  <2>5. QED
    BY <2>3, <2>4
<1>5. QED
  BY <1>2, <1>4 DEF Rollups!Windows

\* The first window begins at 0.
LEMMA ZeroWindow == 0 \in Rollups!Windows /\ 0 \in Rollups!Seconds /\ Rollups!Idle \in Passes
<1>1. 0 \in Rollups!Seconds /\ Rollups!Window(0) = 0
  BY DEF Rollups!Seconds, Rollups!Window
<1>2. 0 \in Rollups!Windows
  BY <1>1 DEF Rollups!Windows
<1>3. QED
  BY <1>1, <1>2 DEF Rollups!Idle, Passes

\* The seconds of a window are finitely many.
LEMMA InWindowFacts ==
    \A w : IsFiniteSet(Rollups!InWindow(w)) /\ Rollups!InWindow(w) \subseteq Rollups!Seconds
<1>1. IsFiniteSet(0 .. RollupTime)
  BY FS_Interval
<1>2. QED
  BY <1>1, FS_Subset DEF Rollups!InWindow, Rollups!Seconds

\* What is counted of a window when the buckets become c: an observation more
\* at n, or less where buckets go.
LEMMA Recorded ==
    ASSUME NEW b \in [Rollups!Seconds -> Nat], NEW c \in [Rollups!Seconds -> Nat],
           NEW n \in Rollups!Seconds, NEW w,
           \A s \in Rollups!Seconds : c[s] <= b[s] + (IF s = n THEN 1 ELSE 0)
    PROVE  LET before == SumFunctionOnSet(b, Rollups!InWindow(w))
               after == SumFunctionOnSet(c, Rollups!InWindow(w))
               one == IF Rollups!Window(n) = w THEN 1 ELSE 0
           IN  /\ before \in Int /\ after \in Int /\ after <= before + one
               /\ (\A s \in Rollups!InWindow(w) : c[s] = b[s] + (IF s = n THEN 1 ELSE 0))
                    => after = before + one
<1>1. IsFiniteSet(Rollups!InWindow(w))
      /\ \A s \in Rollups!InWindow(w) : s \in Rollups!Seconds /\ b[s] \in Int /\ c[s] \in Int
  BY InWindowFacts
<1>2. n \in Rollups!InWindow(w) <=> Rollups!Window(n) = w
  BY DEF Rollups!InWindow
<1>3. \A s \in Rollups!InWindow(w) : c[s] <= b[s] + (IF s = n THEN 1 ELSE 0)
  BY <1>1
<1>4. QED
  BY <1>1, <1>2, <1>3, SumOneMore

\* What the buckets of a window hold together is a count.
LEMMA SumNat ==
    ASSUME NEW b \in [Rollups!Seconds -> Nat], NEW w
    PROVE  SumFunctionOnSet(b, Rollups!InWindow(w)) \in Nat
<1>1. \A s \in Rollups!InWindow(w) : b[s] \in Nat
  BY InWindowFacts
<1>2. SumFunctionOnSet(b, Rollups!InWindow(w)) \in Int
  BY <1>1, InWindowFacts, SumSplits
<1>3. SumFunctionOnSet(b, {}) = 0
  <2>1. \A s \in {} : b[s] \in Int
    OBVIOUS
  <2>2. QED
    BY <2>1, FS_EmptySet, SumSplits
<1>4. SumFunctionOnSet(b, {}) <= SumFunctionOnSet(b, Rollups!InWindow(w))
  BY <1>1, InWindowFacts, SumWidens
<1>5. QED
  BY <1>2, <1>3, <1>4

\* Count is the sum over the window's buckets.
LEMMA Counts ==
    \A w : /\ Rollups!Count(w) = SumFunctionOnSet(buckets, Rollups!InWindow(w))
           /\ buckets \in [Rollups!Seconds -> Nat] => Rollups!Count(w) \in Nat
<1>1. \A w : Rollups!Count(w) = SumFunctionOnSet(buckets, Rollups!InWindow(w))
  BY Sums DEF Rollups!Count
<1>2. QED
  BY <1>1, SumNat

\* The invariant holds at first.
LEMMA RollInit == Rollups!Init => RollInv
<1> SUFFICES ASSUME Rollups!Init PROVE RollInv
  OBVIOUS
<1>1. RollTypes
  BY ZeroWindow DEF Rollups!Init, RollTypes, Rollups!Nothing
<1>2. \A w \in Rollups!Windows : Rollups!Count(w) = 0
  <2> TAKE w \in Rollups!Windows
  <2>1. \A s \in Rollups!InWindow(w) : buckets[s] = 0
    BY InWindowFacts DEF Rollups!Init
  <2>2. SumFunctionOnSet(buckets, Rollups!InWindow(w)) = 0
    <3> DEFINE S == Rollups!InWindow(w)
               P == {T \in SUBSET S : SumFunctionOnSet(buckets, T) = 0}
    <3>1. IsFiniteSet(S) /\ \A s \in S : buckets[s] = 0
      BY <2>1, InWindowFacts
    <3> HIDE DEF S
    <3>2. {} \in P
      BY <3>1, SumSplits
    <3>3. ASSUME NEW T \in SUBSET S, NEW x \in S \ T, T \in P
          PROVE  T \cup {x} \in P
      <4> DEFINE V == T \cup {x}
      <4>1. IsFiniteSet(V) /\ V \ {x} = T /\ x \in V /\ \A s \in V : buckets[s] \in Int
        BY <3>1, <3>3, FS_Subset
      <4> HIDE DEF V
      <4>2. SumFunctionOnSet(buckets, V) = buckets[x] + SumFunctionOnSet(buckets, T)
        BY <4>1, SumSplits
      <4>3. QED
        BY <3>1, <3>3, <4>2 DEF V
    <3>4. S \in P
      <4> HIDE DEF P
      <4> QED BY <3>1, <3>2, <3>3, FiniteInduction
    <3>5. QED
      BY <3>4 DEF S
  <2>3. QED
    BY <2>2, <1>1, Counts DEF RollTypes
<1>3. /\ wall = 0 /\ watermark = 0 /\ adding = None /\ pass = Rollups!Idle
      /\ drawn = Rollups!Nothing /\ open = Rollups!Nothing /\ back = 0
      /\ \A w \in Rollups!Windows : windows[w] = 0 /\ happened[w] = 0
  BY DEF Rollups!Init
<1>4. \A w \in Rollups!Windows : drawn[w] = None /\ open[w] = None /\ Adding(w) = 0 /\ w \in Nat
  BY <1>3, WindowFacts DEF Rollups!Nothing, Adding, Rollups!Windows
<1>5. CountInv
  BY <1>2, <1>3, <1>4 DEF CountInv, CountOf, NotAhead, Rollups!Idle
<1>6. ListInv
  BY <1>3, <1>4 DEF ListInv, ListOf, Listed, Drained, Rollups!Idle
<1>7. QED
  BY <1>1, <1>5, <1>6 DEF RollInv

\* The slack is at most what is kept less a window, and is used up a window at a time.
LEMMA SlackFacts ==
    ASSUME RollTypes
    PROVE  /\ Slack \in Nat
           /\ back = 0 => Slack + Rollup <= Keep
           /\ back < MaxBack /\ back' = back + 1 => Slack = Slack' + Rollup /\ Slack' \in Nat
<1>1. back \in Nat /\ MaxBack \in Nat /\ back <= MaxBack /\ Rollup \in Nat
  BY DEF RollTypes
<1>2. PICK d \in Nat : d = MaxBack - back
  BY <1>1
<1>3. Slack = d * Rollup /\ d * Rollup \in Nat
  BY <1>1, <1>2 DEF Slack
<1>4. back = 0 => Slack + Rollup <= Keep
  <2>1. (MaxBack + 1) * Rollup = MaxBack * Rollup + Rollup
    BY <1>1
  <2>2. QED
    BY <1>1, <1>2, <1>3, <2>1
<1>5. ASSUME back < MaxBack, back' = back + 1
      PROVE  Slack = Slack' + Rollup /\ Slack' \in Nat
  <2>1. PICK e \in Nat : d = e + 1
    BY <1>1, <1>2, <1>5
  <2>2. MaxBack - back' = e
    BY <1>1, <1>2, <1>5, <2>1
  <2>3. Slack' = e * Rollup /\ e * Rollup \in Nat
    BY <1>1, <2>2 DEF Slack
  <2>4. d * Rollup = e * Rollup + Rollup
    BY <1>1, <2>1
  <2>5. QED
    BY <1>3, <2>3, <2>4
<1>6. QED
  BY <1>3, <1>4, <1>5

\* What the leaves below use of the types.
LEMMA RollNumbers ==
    ASSUME RollTypes
    PROVE  /\ wall \in Nat /\ wall \in Rollups!Seconds /\ watermark \in Nat
           /\ watermark \in Rollups!Windows /\ pass.now \in Nat /\ pass.now \in Rollups!Windows
           /\ Rollup \in Nat /\ Rollup > 0 /\ back \in Nat
           /\ adding # None => adding.now \in Rollups!Seconds /\ adding.now \in Nat
                               /\ adding \in Rollups!Adds
           /\ \A w \in Rollups!Windows :
                /\ w \in Nat /\ windows[w] \in Nat /\ happened[w] \in Nat
                /\ Rollups!Count(w) \in Nat /\ Adding(w) \in {0, 1}
                /\ drawn[w] # None => drawn[w] \in Nat
                /\ open[w] # None => open[w] \in Nat
<1>1. \A w \in Rollups!Windows : w \in Nat
  BY WindowFacts DEF Rollups!Windows
<1>2. pass.now \in Rollups!Windows
  BY DEF RollTypes, Passes
<1>3. adding # None => adding \in Rollups!Adds
  BY DEF RollTypes
<1>4. adding # None => adding.now \in Rollups!Seconds
  BY <1>3 DEF Rollups!Adds
<1>5. \A s \in Rollups!Seconds : s \in Nat
  BY DEF Rollups!Seconds
<1>6. \A w \in Rollups!Windows : Rollups!Count(w) \in Nat /\ Adding(w) \in {0, 1}
  BY Counts DEF RollTypes, Adding
<1>7. QED
  BY <1>1, <1>2, <1>3, <1>4, <1>5, <1>6 DEF RollTypes

\* The types.
LEMMA RollTypesStep == RollInv /\ [Rollups!Next]_rollups => RollTypes'
<1> SUFFICES ASSUME RollInv, [Rollups!Next]_rollups PROVE RollTypes'
  OBVIOUS
<1>1. RollTypes
  BY DEF RollInv
<1>2. CASE UNCHANGED rollups
  BY <1>1, <1>2 DEF rollups, RollTypes
<1>3. CASE Rollups!Begin
  <2>1. [now |-> wall, has |-> "nothing"] \in Rollups!Adds
    BY <1>1 DEF RollTypes, Rollups!Adds
  <2>2. Rollups!Window(wall) \in Rollups!Windows
    BY <1>1, RollNumbers, WindowFacts
  <2>3. QED
    BY <1>1, <1>3, <2>1, <2>2 DEF Rollups!Begin, RollTypes
<1>4. CASE Rollups!Record
  <2>1. adding.now \in Rollups!Seconds
    BY <1>1, <1>4, RollNumbers DEF Rollups!Record
  <2>2. buckets' \in [Rollups!Seconds -> Nat]
    BY <1>1, <1>4, <2>1 DEF Rollups!Record, RollTypes
  <2>3. QED
    BY <1>1, <1>4, <2>2 DEF Rollups!Record, RollTypes
<1>5. CASE Rollups!OpenList
  <2>1. adding \in Rollups!Adds /\ Rollups!Window(adding.now) \in Rollups!Windows
    BY <1>1, <1>5, RollNumbers, WindowFacts DEF Rollups!OpenList
  <2>2. adding' \in Rollups!Adds
    BY <1>5, <2>1 DEF Rollups!OpenList, Rollups!Adds
  <2>3. open' \in [Rollups!Windows -> Nat \cup {None}]
    BY <1>1, <1>5, <2>1 DEF Rollups!OpenList, RollTypes
  <2>4. pass' \in Passes
    BY <1>1, <1>5 DEF Rollups!OpenList, RollTypes, Passes
  <2>5. QED
    BY <1>1, <1>5, <2>2, <2>3, <2>4 DEF Rollups!OpenList, RollTypes
<1>6. CASE Rollups!AppendSample
  <2>1. kind = "latency" /\ adding \in Rollups!Adds /\ Rollups!Window(adding.now) \in Rollups!Windows
        /\ adding # None
    BY <1>1, <1>6, RollNumbers, WindowFacts DEF Rollups!AppendSample
  <2>2. adding.has = "list" => open[Rollups!Window(adding.now)] \in Nat
    BY <1>1, <2>1, RollNumbers DEF RollInv, ListInv
  <2>3. open' \in [Rollups!Windows -> Nat \cup {None}]
    <3>1. PICK v : v = Rollups!Window(adding.now)
      OBVIOUS
    <3>2. \/ adding.has = "list" /\ open' = [open EXCEPT ![v] = @ + 1]
          \/ open' = open
      BY <1>6, <3>1 DEF Rollups!AppendSample
    <3>3. v \in Rollups!Windows /\ (adding.has = "list" => open[v] \in Nat)
      BY <2>1, <2>2, <3>1
    <3>4. QED
      BY <1>1, <3>2, <3>3 DEF RollTypes
  <2>4. QED
    BY <1>1, <1>6, <2>3 DEF Rollups!AppendSample, RollTypes
<1>7. CASE Rollups!StartPass
  <2>1. Rollups!Window(wall) \in Rollups!Windows
    BY <1>1, RollNumbers, WindowFacts
  <2>2. pass' \in Passes
    BY <1>7, <2>1, ZeroWindow DEF Rollups!StartPass, Passes, Rollups!Idle
  <2>3. QED
    BY <1>1, <1>7, <2>2 DEF Rollups!StartPass, RollTypes
<1>8. CASE Rollups!DrainCounters
  <2>1. \A w \in Rollups!Windows : Rollups!Count(w) \in Nat
    BY <1>1, RollNumbers
  <2>2. drawn' \in [Rollups!Windows -> Nat \cup {None}]
    <3>1. drawn' = [w \in Rollups!Windows |->
             IF w \in Rollups!Completed(pass.now) /\ Rollups!Count(w) > 0
             THEN Rollups!Count(w) ELSE None]
      BY <1>8 DEF Rollups!DrainCounters
    <3>2. QED
      BY <2>1, <3>1
  <2>3. pass' \in Passes /\ watermark' \in Rollups!Windows
    BY <1>1, <1>8 DEF Rollups!DrainCounters, RollTypes, Passes
  <2>4. QED
    BY <1>1, <1>8, <2>2, <2>3 DEF Rollups!DrainCounters, RollTypes
<1>9. CASE Rollups!ListWindows \/ Rollups!Listed \/ Rollups!ListRaises \/ Rollups!Popped
  <2>1. pass' \in Passes
    <3>1. CASE Rollups!ListWindows
      BY <1>1, <3>1 DEF Rollups!ListWindows, RollTypes, Passes
    <3>2. CASE Rollups!Listed
      <4>1. PICK T \in SUBSET Rollups!Windows :
              pass' = [pass EXCEPT !.at = "pop", !.todo = T]
        <5>1. {w \in Rollups!Windows : open[w] # None /\ w < pass.now} \in SUBSET Rollups!Windows
          OBVIOUS
        <5>2. QED
          BY <3>2, <5>1 DEF Rollups!Listed
      <4>2. QED
        BY <1>1, <4>1 DEF RollTypes, Passes
    <3>3. CASE Rollups!ListRaises
      BY <3>3, ZeroWindow DEF Rollups!ListRaises
    <3>4. CASE Rollups!Popped
      BY <1>1, <3>4 DEF Rollups!Popped, RollTypes, Passes
    <3>5. QED
      BY <1>9, <3>1, <3>2, <3>3, <3>4
  <2>2. QED
    BY <1>1, <1>9, <2>1 DEF Rollups!ListWindows, Rollups!Listed, Rollups!ListRaises,
       Rollups!Popped, RollTypes
<1>10. ASSUME NEW w \in Rollups!Windows, Rollups!PopWindow(w) PROVE RollTypes'
  <2>1. kind = "latency" /\ open[w] # None /\ open[w] \in Nat
    BY <1>1, <1>10, RollNumbers DEF Rollups!PopWindow, RollInv, CountInv, ListInv, RollTypes
  <2>2. drawn' \in [Rollups!Windows -> Nat \cup {None}] /\ open' \in [Rollups!Windows -> Nat \cup {None}]
    BY <1>1, <1>10, <2>1 DEF Rollups!PopWindow, RollTypes
  <2>3. adding' \in Rollups!Adds \cup {None}
    <3>1. adding # None => [adding EXCEPT !.has = "taken"] \in Rollups!Adds
      BY <1>1, RollNumbers DEF Rollups!Adds
    <3>2. QED
      BY <1>1, <1>10, <3>1 DEF Rollups!PopWindow, RollTypes
  <2>4. pass' \in Passes
    BY <1>1, <1>10 DEF Rollups!PopWindow, RollTypes, Passes
  <2>5. QED
    BY <1>1, <1>10, <2>2, <2>3, <2>4 DEF Rollups!PopWindow, RollTypes
<1>11. ASSUME NEW w \in Rollups!Windows, Rollups!EmptyRaises(w) PROVE RollTypes'
  <2>1. kind = "latency" /\ adding # None
    BY <1>1, <1>11 DEF Rollups!EmptyRaises, RollInv, CountInv, ListInv, ListOf, RollTypes
  <2>2. adding' \in Rollups!Adds
    BY <1>1, <1>11, <2>1, RollNumbers DEF Rollups!EmptyRaises, Rollups!Adds
  <2>3. QED
    BY <1>1, <1>11, <2>2, ZeroWindow DEF Rollups!EmptyRaises, RollTypes, Rollups!Nothing
<1>12. CASE Rollups!Store
  <2>1. windows' \in [Rollups!Windows -> Nat]
    BY <1>1, <1>12, RollNumbers DEF Rollups!Store, Rollups!Stored, RollTypes
  <2>2. QED
    BY <1>1, <1>12, <2>1, ZeroWindow DEF Rollups!Store, RollTypes, Rollups!Nothing
<1>13. CASE Rollups!StoreFails
  BY <1>1, <1>13, ZeroWindow DEF Rollups!StoreFails, RollTypes, Rollups!Nothing
<1>14. CASE Rollups!Tick
  BY <1>1, <1>14 DEF Rollups!Tick, RollTypes, Rollups!Seconds
<1>15. CASE Rollups!SetBack
  BY <1>1, <1>15 DEF Rollups!SetBack, RollTypes, Rollups!Seconds
<1>16. QED
  BY <1>2, <1>3, <1>4, <1>5, <1>6, <1>7, <1>8, <1>9, <1>10, <1>11, <1>12, <1>13, <1>14, <1>15
     DEF Rollups!Next, Rollups!Worker

-----------------------------------------------------------------------------
(* The counters *)

\* A second of w in a bucket that goes because it is old.
LEMMA RecordedOf ==
    ASSUME RollTypes, RollTypes', Rollups!Record, NEW w \in Rollups!Windows
    PROVE  /\ Rollups!Count(w)' + Adding(w)' <= Rollups!Count(w) + Adding(w)
           /\ \/ Rollups!Count(w)' + Adding(w)' = Rollups!Count(w) + Adding(w)
              \/ \E s \in Rollups!Stale(adding.now) : Rollups!Window(s) = w
           /\ Adding(w)' = 0 /\ Rollups!Count(w)' \in Nat
<1>1. /\ adding # None /\ adding.now \in Rollups!Seconds
      /\ buckets' = [s \in Rollups!Seconds |->
            IF s \in Rollups!Stale(adding.now) THEN 0
            ELSE IF s = adding.now THEN buckets[s] + 1 ELSE buckets[s]]
      /\ adding' = None
  BY RollNumbers DEF Rollups!Record
<1>2. /\ Rollups!Count(w) = SumFunctionOnSet(buckets, Rollups!InWindow(w))
      /\ Rollups!Count(w)' = SumFunctionOnSet(buckets', Rollups!InWindow(w))
      /\ Rollups!Count(w) \in Nat /\ Rollups!Count(w)' \in Nat
  <2>1. Rollups!Count(w)' = SumFunctionOnSet(buckets', Rollups!InWindow(w))
    BY Sums DEF Rollups!Count
  <2>2. buckets' \in [Rollups!Seconds -> Nat]
    BY DEF RollTypes
  <2>3. QED
    BY <2>1, <2>2, Counts, SumNat DEF RollTypes
<1>3. \A s \in Rollups!Seconds : buckets'[s] <= buckets[s] + (IF s = adding.now THEN 1 ELSE 0)
  BY <1>1 DEF RollTypes
<1>4. Adding(w) = (IF Rollups!Window(adding.now) = w THEN 1 ELSE 0) /\ Adding(w)' = 0
  BY <1>1 DEF Adding
<1>5. Rollups!Count(w)' <= Rollups!Count(w) + (IF Rollups!Window(adding.now) = w THEN 1 ELSE 0)
  BY <1>1, <1>2, <1>3, Recorded DEF RollTypes
<1>6. ASSUME ~ \E s \in Rollups!Stale(adding.now) : Rollups!Window(s) = w
      PROVE  Rollups!Count(w)' = Rollups!Count(w) + (IF Rollups!Window(adding.now) = w THEN 1 ELSE 0)
  <2>1. \A s \in Rollups!InWindow(w) : buckets'[s] = buckets[s] + (IF s = adding.now THEN 1 ELSE 0)
    <3> SUFFICES ASSUME NEW s \in Rollups!InWindow(w)
                 PROVE  buckets'[s] = buckets[s] + (IF s = adding.now THEN 1 ELSE 0)
      OBVIOUS
    <3>1. s \in Rollups!Seconds /\ s \notin Rollups!Stale(adding.now)
      BY <1>6 DEF Rollups!InWindow
    <3>2. buckets[s] \in Nat
      BY <3>1 DEF RollTypes
    <3>3. QED
      BY <1>1, <3>1, <3>2
  <2>2. /\ buckets \in [Rollups!Seconds -> Nat] /\ buckets' \in [Rollups!Seconds -> Nat]
        /\ adding.now \in Rollups!Seconds
    BY <1>1 DEF RollTypes
  <2>3. SumFunctionOnSet(buckets', Rollups!InWindow(w)) = SumFunctionOnSet(buckets, Rollups!InWindow(w))
           + (IF Rollups!Window(adding.now) = w THEN 1 ELSE 0)
    BY <1>3, <2>1, <2>2, Recorded
  <2>4. QED
    BY <1>2, <2>3
<1>7. QED
  BY <1>2, <1>4, <1>5, <1>6

\* An observation is of the clock's window, which is not gone.
LEMMA CountBegin ==
    ASSUME RollTypes, CountInv, Rollups!Begin
    PROVE  CountInv'
<1>1. /\ adding = None /\ adding' = [now |-> wall, has |-> "nothing"] /\ adding' # None
      /\ happened' = [happened EXCEPT ![Rollups!Window(wall)] = @ + 1]
      /\ UNCHANGED <<wall, buckets, watermark, pass, drawn, windows, excused, back>>
  <2>1. [now |-> wall, has |-> "nothing"] \in Rollups!Adds
    BY DEF RollTypes, Rollups!Adds
  <2>2. QED
    BY <2>1 DEF Rollups!Begin
<1>2. /\ Rollups!Window(wall) \in Rollups!Windows /\ wall \in Nat
      /\ wall < Rollups!Window(wall) + Rollup /\ Rollups!Window(wall) \in Nat
  BY RollNumbers, WindowFacts
<1>3. ASSUME NEW w \in Rollups!Windows PROVE CountOf(w)'
  <2>1. /\ Rollups!Count(w)' = Rollups!Count(w) /\ Slack' = Slack /\ Slack \in Nat
        /\ Adding(w) = 0
        /\ Adding(w)' = IF w = Rollups!Window(wall) THEN 1 ELSE 0
        /\ happened'[w] = happened[w] + (IF w = Rollups!Window(wall) THEN 1 ELSE 0)
    BY <1>1, <1>2, SlackFacts DEF Rollups!Count, Slack, Adding, RollTypes
  <2>2. /\ w \in Nat /\ windows[w] \in Nat /\ happened[w] \in Nat /\ Rollups!Count(w) \in Nat
        /\ drawn[w] # None => drawn[w] \in Nat
        /\ Rollup \in Nat /\ Rollup > 0
    BY RollNumbers
  <2>3. CountOf(w)
    BY DEF CountInv
  <2>4. CASE w = Rollups!Window(wall)
    <3>1. ~Gone(w)
      BY <1>2, <2>1, <2>2, <2>4 DEF Gone
    <3>2. Rollups!Count(w) + Adding(w) = happened[w] \/ w \in excused
      BY <2>3, <3>1 DEF CountOf
    <3>3. QED
      BY <1>1, <2>1, <2>2, <2>3, <2>4, <3>2 DEF CountOf
  <2>5. CASE w # Rollups!Window(wall)
    <3>1. Gone(w) => Gone(w)'
      BY <1>1, <2>1, <2>5 DEF Gone
    <3>2. QED
      BY <1>1, <2>1, <2>2, <2>3, <2>5, <3>1 DEF CountOf
  <2>6. QED
    BY <2>4, <2>5
<1>4. NotAhead'
  BY <1>1, <1>2 DEF NotAhead, CountInv
<1>5. QED
  BY <1>1, <1>3, <1>4 DEF CountInv

\* What record loses is of a window that is gone, or excused.
LEMMA CountRecord ==
    ASSUME RollTypes, RollTypes', CountInv, Rollups!Record
    PROVE  CountInv'
<1>1. /\ adding # None /\ adding.now \in Rollups!Seconds /\ adding.now \in Nat
      /\ adding' = None
      /\ excused' = (excused
          \cup {Rollups!Window(s) : s \in {s \in Rollups!Stale(adding.now) : s >= watermark \/ back > 0}})
          \cup {Rollups!Window(s) : s \in {adding.now} \cap 0 .. watermark - 1}
      /\ UNCHANGED <<wall, watermark, pass, drawn, windows, happened, back>>
  BY RollNumbers DEF Rollups!Record
<1>2. ASSUME NEW w \in Rollups!Windows PROVE CountOf(w)'
  <2>1. /\ Rollups!Count(w)' + Adding(w)' <= Rollups!Count(w) + Adding(w)
        /\ \/ Rollups!Count(w)' + Adding(w)' = Rollups!Count(w) + Adding(w)
           \/ \E s \in Rollups!Stale(adding.now) : Rollups!Window(s) = w
        /\ Adding(w)' = 0 /\ Rollups!Count(w)' \in Nat
    BY RecordedOf
  <2>2. /\ w \in Nat /\ windows[w] \in Nat /\ happened[w] \in Nat /\ Rollups!Count(w) \in Nat
        /\ drawn[w] # None => drawn[w] \in Nat
        /\ Rollup \in Nat /\ Rollup > 0 /\ Adding(w) \in {0, 1} /\ watermark \in Nat /\ wall \in Nat
        /\ back \in Nat /\ pass.now \in Nat
    BY RollNumbers
  <2>3. CountOf(w)
    BY DEF CountInv
  <2>4. ASSUME w \notin excused', NEW s \in Rollups!Stale(adding.now), Rollups!Window(s) = w
        PROVE  Gone(w)'
    <3>1. s \in Rollups!Seconds /\ s \in Nat /\ s < adding.now - Keep
      BY DEF Rollups!Stale, Rollups!Seconds
    <3>2. s < watermark /\ back = 0
      BY <1>1, <2>2, <2>4, <3>1
    <3>3. w <= s
      BY <2>4, <3>1, WindowFacts
    <3>4. adding.now <= wall /\ watermark <= wall /\ (pass.at = "drain" => watermark <= pass.now)
      BY <1>1, <3>2 DEF CountInv, NotAhead
    <3>5. Slack \in Nat /\ Slack + Rollup <= Keep /\ Slack' = Slack
      BY <1>1, <3>2, SlackFacts DEF Slack
    <3>6. w + Rollup + Slack <= wall
      BY <1>1, <2>2, <3>1, <3>3, <3>4, <3>5
    <3>7. w < watermark /\ (pass.at = "drain" => w < pass.now)
      BY <2>2, <3>1, <3>2, <3>3, <3>4
    <3>8. QED
      BY <1>1, <2>1, <3>5, <3>6, <3>7 DEF Gone
  <2>5. Gone(w) => Gone(w)'
    BY <1>1, <2>1 DEF Gone, Slack
  <2>6. w \notin excused' /\ Rollups!Count(w)' + Adding(w)' # happened'[w] => Gone(w)'
    <3> SUFFICES ASSUME w \notin excused', Rollups!Count(w)' + Adding(w)' # happened'[w]
                 PROVE  Gone(w)'
      OBVIOUS
    <3>1. w \notin excused
      BY <1>1
    <3>2. CASE Rollups!Count(w)' + Adding(w)' = Rollups!Count(w) + Adding(w)
      BY <1>1, <2>3, <2>5, <3>1, <3>2 DEF CountOf
    <3>3. QED
      BY <2>1, <2>4, <3>2
  <2>7. ASSUME w \notin excused', w < watermark
        PROVE  w \notin excused /\ Adding(w) = 0
    <3>1. w \notin excused
      BY <1>1, <2>7
    <3>2. ASSUME Rollups!Window(adding.now) = w PROVE FALSE
      <4>1. watermark \in Rollups!Windows /\ w < watermark
        BY <2>7, RollNumbers
      <4>2. adding.now < watermark
        BY <1>1, <2>2, <3>2, <4>1, WindowFacts
      <4>3. adding.now \in {adding.now} \cap 0 .. watermark - 1
        BY <1>1, <2>2, <4>2
      <4>4. QED
        BY <1>1, <2>7, <3>2, <4>3
    <3>3. QED
      BY <3>1, <3>2 DEF Adding
  <2>8. QED
    BY <1>1, <2>1, <2>2, <2>3, <2>6, <2>7 DEF CountOf
<1>3. NotAhead'
  BY <1>1 DEF NotAhead, CountInv
<1>4. pass'.at \in {"idle", "drain", "store"} /\ (pass'.at = "store" \/ drawn' = Rollups!Nothing)
  BY <1>1 DEF CountInv
<1>5. QED
  BY <1>2, <1>3, <1>4 DEF CountInv

\* A drain takes the whole count of a window that it reaches for the first time, or
\* again; one that is gone it does not reach.
LEMMA CountDrain ==
    ASSUME RollTypes, CountInv, Rollups!DrainCounters
    PROVE  CountInv'
<1>1. /\ pass.at = "drain" /\ drawn = Rollups!Nothing
      /\ drawn' = [w \in Rollups!Windows |->
           IF w \in Rollups!Completed(pass.now) /\ Rollups!Count(w) > 0
           THEN Rollups!Count(w) ELSE None]
      /\ watermark' = pass.now
      /\ pass'.at = "store" /\ pass'.now = pass.now
      /\ UNCHANGED <<wall, buckets, adding, windows, happened, excused, back>>
  BY DEF Rollups!DrainCounters, CountInv, RollTypes, Passes
<1>2. ASSUME NEW w \in Rollups!Windows PROVE CountOf(w)'
  <2>1. /\ Rollups!Count(w)' = Rollups!Count(w) /\ Adding(w)' = Adding(w) /\ Slack' = Slack
        /\ drawn[w] = None
        /\ w \in Rollups!Completed(pass.now) <=> watermark <= w /\ w < pass.now
    BY <1>1 DEF Rollups!Count, Adding, Slack, Rollups!Nothing, Rollups!Completed
  <2>2. /\ w \in Nat /\ windows[w] \in Nat /\ happened[w] \in Nat /\ Rollups!Count(w) \in Nat
        /\ Adding(w) \in {0, 1} /\ watermark \in Nat /\ pass.now \in Nat
        /\ Rollups!Count(w) # None
    BY RollNumbers
  <2>3. CountOf(w)
    BY DEF CountInv
  <2>4. drawn'[w] = IF watermark <= w /\ w < pass.now /\ Rollups!Count(w) > 0
                    THEN Rollups!Count(w) ELSE None
    BY <1>1, <2>1
  <2>5. Gone(w) => Gone(w)'
    BY <1>1, <2>1 DEF Gone
  <2>6. ASSUME w \notin excused, w < pass.now, Adding(w) = 0
        PROVE  (IF drawn'[w] # None THEN drawn'[w] ELSE windows[w]) = happened[w]
    <3>1. CASE w < watermark
      <4>1. drawn'[w] = None
        BY <2>2, <2>4, <3>1
      <4>2. QED
        BY <2>1, <2>3, <2>6, <3>1, <4>1 DEF CountOf
    <3>2. CASE watermark <= w
      <4>1. Rollups!Count(w) = happened[w]
        BY <2>2, <2>3, <2>6, <3>2 DEF CountOf, Gone
      <4>2. windows[w] <= happened[w]
        BY <2>3 DEF CountOf
      <4>3. CASE Rollups!Count(w) > 0
        BY <2>2, <2>4, <2>6, <3>2, <4>1, <4>3
      <4>4. CASE Rollups!Count(w) = 0
        BY <2>2, <2>4, <4>1, <4>2, <4>4
      <4>5. QED
        BY <2>2, <4>3, <4>4
    <3>3. QED
      BY <2>2, <3>1, <3>2
  <2>7. drawn'[w] # None => drawn'[w] <= happened[w]
    BY <2>2, <2>3, <2>4 DEF CountOf
  <2>8. QED
    BY <1>1, <2>1, <2>3, <2>5, <2>6, <2>7 DEF CountOf
<1>3. NotAhead'
  BY <1>1 DEF NotAhead, CountInv
<1>4. QED
  BY <1>1, <1>2, <1>3 DEF CountInv

\* The stored row is the drained one; where the transaction fails it is excused.
LEMMA CountStore ==
    ASSUME RollTypes, CountInv, Rollups!Store \/ Rollups!StoreFails
    PROVE  CountInv'
<1>1. /\ drawn' = Rollups!Nothing /\ pass' = Rollups!Idle /\ pass'.at = "idle"
      /\ UNCHANGED <<wall, buckets, watermark, adding, happened, back>>
      /\ excused \subseteq excused'
  BY DEF Rollups!Store, Rollups!StoreFails, Rollups!Idle
<1>2. ASSUME NEW w \in Rollups!Windows PROVE CountOf(w)'
  <2>1. /\ Rollups!Count(w)' = Rollups!Count(w) /\ Adding(w)' = Adding(w) /\ Slack' = Slack
        /\ drawn'[w] = None
    BY <1>1 DEF Rollups!Count, Adding, Slack, Rollups!Nothing
  <2>2. /\ w \in Nat /\ windows[w] \in Nat /\ happened[w] \in Nat
    BY RollNumbers
  <2>3. CountOf(w)
    BY DEF CountInv
  <2>4. Gone(w) => Gone(w)'
    BY <1>1, <2>1 DEF Gone
  <2>5. /\ windows'[w] <= happened[w]
        /\ w \notin excused' => windows'[w] = IF drawn[w] # None THEN drawn[w] ELSE windows[w]
    <3>1. CASE Rollups!Store
      BY <2>3, <3>1 DEF Rollups!Store, Rollups!Stored, CountOf
    <3>2. CASE Rollups!StoreFails
      BY <2>3, <3>2 DEF Rollups!StoreFails, CountOf
    <3>3. QED
      BY <3>1, <3>2
  <2>6. QED
    BY <1>1, <2>1, <2>3, <2>4, <2>5 DEF CountOf
<1>3. NotAhead'
  BY <1>1 DEF NotAhead, CountInv
<1>4. QED
  BY <1>1, <1>2, <1>3 DEF CountInv

\* A pass is started, or the clock ticks, or it is set back.
LEMMA CountClock ==
    ASSUME RollTypes, CountInv, kind = "counters",
           Rollups!StartPass \/ Rollups!Tick \/ Rollups!SetBack
    PROVE  CountInv'
<1>1. UNCHANGED <<buckets, watermark, adding, drawn, windows, happened, excused>>
  BY DEF Rollups!StartPass, Rollups!Tick, Rollups!SetBack
<1>2. /\ wall \in Nat /\ Slack \in Nat /\ back \in Nat /\ watermark \in Nat /\ pass.now \in Nat
      /\ Rollup \in Nat /\ Rollup > 0
  BY RollNumbers, SlackFacts
<1>3. \/ /\ Rollups!StartPass /\ UNCHANGED <<wall, back>> /\ Slack' = Slack
         /\ pass.at = "idle" /\ pass'.at = "drain" /\ pass'.now = Rollups!Window(wall)
      \/ /\ Rollups!Tick /\ wall' = wall + 1 /\ UNCHANGED <<back, pass>> /\ Slack' = Slack
      \/ /\ Rollups!SetBack /\ wall' = wall - Rollup /\ back' = back + 1 /\ UNCHANGED pass
         /\ Slack = Slack' + Rollup /\ Slack' \in Nat
  BY SlackFacts DEF Rollups!StartPass, Rollups!Tick, Rollups!SetBack, Rollups!Idle, Slack
<1>4. /\ Rollups!Window(wall) \in Nat /\ Rollups!Window(wall) <= wall
      /\ \A w \in Rollups!Windows : /\ w <= wall => w <= Rollups!Window(wall)
                                    /\ w + Rollup <= wall => w < Rollups!Window(wall)
  <2>1. /\ Rollups!Window(wall) \in Nat /\ Rollups!Window(wall) <= wall
        /\ wall < Rollups!Window(wall) + Rollup
        /\ \A w \in Rollups!Windows : w \in Nat /\ (w <= wall => w <= Rollups!Window(wall))
    BY RollNumbers, WindowFacts
  <2>2. QED
    BY <1>2, <2>1
<1>5. ASSUME NEW w \in Rollups!Windows PROVE CountOf(w)'
  <2>1. Rollups!Count(w)' = Rollups!Count(w) /\ Adding(w)' = Adding(w) /\ w \in Nat
    BY <1>1, RollNumbers DEF Rollups!Count, Adding
  <2>2. CountOf(w)
    BY DEF CountInv
  <2>3. Gone(w) => Gone(w)'
    BY <1>1, <1>2, <1>3, <1>4, <2>1 DEF Gone
  <2>4. QED
    BY <1>1, <2>1, <2>2, <2>3 DEF CountOf
<1>6. NotAhead'
  <2>1. watermark \in Rollups!Windows /\ (adding # None => adding.now \in Nat)
    BY RollNumbers
  <2>2. QED
    BY <1>1, <1>2, <1>3, <1>4, <2>1 DEF NotAhead, CountInv
<1>7. pass'.at \in {"idle", "drain", "store"} /\ (pass'.at = "store" \/ drawn' = Rollups!Nothing)
  BY <1>1, <1>3 DEF CountInv
<1>8. QED
  BY <1>5, <1>6, <1>7 DEF CountInv

\* Every step of the counters keeps their part of the invariant.
LEMMA CountStep ==
    ASSUME RollTypes, RollTypes', kind = "counters", CountInv, [Rollups!Next]_rollups
    PROVE  CountInv'
<1>1. CASE UNCHANGED rollups
  BY <1>1 DEF rollups, CountInv, CountOf, NotAhead, Gone, Slack, Adding, Rollups!Count
<1>2. CASE Rollups!Begin \/ Rollups!Record
  BY <1>2, CountBegin, CountRecord
<1>3. CASE Rollups!DrainCounters \/ Rollups!Store \/ Rollups!StoreFails
  BY <1>3, CountDrain, CountStore
<1>4. CASE Rollups!StartPass \/ Rollups!Tick \/ Rollups!SetBack
  BY <1>4, CountClock
<1>5. ~Rollups!OpenList /\ ~Rollups!AppendSample /\ ~Rollups!ListWindows
  BY DEF Rollups!OpenList, Rollups!AppendSample, Rollups!ListWindows
<1>6. /\ ~Rollups!Listed /\ ~Rollups!ListRaises /\ ~Rollups!Popped
      /\ \A w \in Rollups!Windows : ~Rollups!PopWindow(w) /\ ~Rollups!EmptyRaises(w)
  BY DEF Rollups!Listed, Rollups!ListRaises, Rollups!Popped, Rollups!PopWindow,
     Rollups!EmptyRaises, CountInv
<1>7. QED
  BY <1>1, <1>2, <1>3, <1>4, <1>5, <1>6 DEF Rollups!Next, Rollups!Worker

-----------------------------------------------------------------------------
(* The latencies *)

\* What the leaves below use of the types.
LEMMA ListNumbers ==
    ASSUME RollTypes, NEW w \in Rollups!Windows
    PROVE  /\ Listed(w) \in Nat /\ Drained(w) \in Nat /\ Adding(w) \in {0, 1}
           /\ windows[w] \in Nat /\ happened[w] \in Nat
           /\ open[w] # None => open[w] \in Nat
           /\ drawn[w] # None => drawn[w] \in Nat
BY RollNumbers DEF Listed, Drained

\* Where open, adding and drawn are as they were, and no window is excused less.
LEMMA ListSame ==
    ASSUME RollTypes, ListInv, UNCHANGED <<open, adding, drawn, windows, happened>>,
           excused \subseteq excused',
           pass'.at = "pop" => \A w \in pass'.todo : open[w] # None
    PROVE  ListInv'
BY DEF ListInv, ListOf, Listed, Drained, Adding

\* The two steps of add: the list that is there or new, then the sample.
LEMMA ListAdds ==
    ASSUME RollTypes, ListInv, kind = "latency",
           Rollups!Begin \/ Rollups!OpenList \/ Rollups!AppendSample
    PROVE  ListInv'
<1>1. UNCHANGED <<windows, drawn>> /\ excused \subseteq excused'
  BY DEF Rollups!Begin, Rollups!OpenList, Rollups!AppendSample
<1>2. CASE Rollups!Begin
  <2>1. /\ adding = None /\ adding' = [now |-> wall, has |-> "nothing"] /\ adding' # None
        /\ happened' = [happened EXCEPT ![Rollups!Window(wall)] = @ + 1]
        /\ UNCHANGED <<open, pass, excused>>
    <3>1. [now |-> wall, has |-> "nothing"] \in Rollups!Adds
      BY DEF RollTypes, Rollups!Adds
    <3>2. QED
      BY <1>2, <3>1 DEF Rollups!Begin
  <2>2. ASSUME NEW w \in Rollups!Windows PROVE ListOf(w)'
    <3>1. /\ Listed(w)' = Listed(w) /\ Drained(w)' = Drained(w) /\ Adding(w) = 0
          /\ Adding(w)' = IF w = Rollups!Window(wall) THEN 1 ELSE 0
          /\ happened'[w] = happened[w] + (IF w = Rollups!Window(wall) THEN 1 ELSE 0)
      BY <1>1, <2>1 DEF Listed, Drained, Adding, RollTypes
    <3>2. ListOf(w)
      BY DEF ListInv
    <3>3. QED
      BY <1>1, <2>1, <3>1, <3>2, ListNumbers DEF ListOf
  <2>3. QED
    BY <2>1, <2>2 DEF ListInv
<1>3. CASE Rollups!OpenList
  <2> DEFINE v == Rollups!Window(adding.now)
  <2>1. /\ adding # None /\ adding.has = "nothing" /\ adding \in Rollups!Adds /\ v \in Rollups!Windows
    BY <1>3, RollNumbers, WindowFacts DEF Rollups!OpenList
  <2>2. adding'.now = adding.now /\ adding'.has = "list" /\ adding' # None
    <3>1. [adding EXCEPT !.has = "list"] \in Rollups!Adds
      BY <2>1 DEF Rollups!Adds
    <3>2. adding' = [adding EXCEPT !.has = "list"]
      BY <1>3 DEF Rollups!OpenList
    <3>3. QED
      BY <2>1, <3>1, <3>2 DEF Rollups!Adds
  <2>3. /\ open' = [open EXCEPT ![v] = IF @ = None THEN 0 ELSE @]
        /\ excused' = IF windows[v] > 0 \/ drawn[v] # None THEN excused \cup {v} ELSE excused
        /\ happened' = happened
        /\ pass'.at = pass.at /\ pass'.todo = pass.todo
    BY <1>3 DEF Rollups!OpenList, RollTypes, Passes
  <2> HIDE DEF v
  <2>4. open \in [Rollups!Windows -> Nat \cup {None}] /\ 0 # None
    BY DEF RollTypes
  <2>5. ASSUME NEW w \in Rollups!Windows PROVE ListOf(w)'
    <3>1. /\ Listed(w)' = Listed(w) /\ Drained(w)' = Drained(w) /\ Adding(w)' = Adding(w)
          /\ w # v => open'[w] = open[w]
      BY <1>1, <2>1, <2>2, <2>3, <2>4 DEF Listed, Drained, Adding
    <3>2. ListOf(w)
      BY DEF ListInv
    <3>3. w # v => open[w] # 0
      BY <2>1, <3>2 DEF ListOf
    <3>4. open'[w] = 0 => w = v
      BY <3>1, <3>3
    <3>5. w \notin excused' /\ w = v => windows[w] = 0 /\ drawn[w] = None
      BY <2>3, ListNumbers
    <3>6. QED
      BY <1>1, <2>2, <2>3, <3>1, <3>2, <3>4, <3>5 DEF ListOf, v
  <2>6. \A w \in Rollups!Windows : open[w] # None => open'[w] # None
    BY <2>1, <2>3, <2>4
  <2>7. open'[v] # None
    BY <2>1, <2>3, <2>4
  <2>8. pass'.at = "pop" => \A w \in pass'.todo : open'[w] # None
    <3>1. pass.todo \subseteq Rollups!Windows
      BY DEF RollTypes, Passes
    <3>2. QED
      BY <2>3, <2>6, <3>1 DEF ListInv
  <2>9. QED
    BY <2>2, <2>5, <2>7, <2>8 DEF ListInv, v
<1>4. CASE Rollups!AppendSample
  <2> DEFINE v == Rollups!Window(adding.now)
  <2>1. /\ adding # None /\ adding.has # "nothing" /\ adding' = None
        /\ \/ adding.has = "list" /\ open' = [open EXCEPT ![v] = @ + 1] /\ UNCHANGED excused
           \/ adding.has # "list" /\ excused' = excused \cup {v} /\ UNCHANGED open
        /\ UNCHANGED <<happened, pass>>
    BY <1>4 DEF Rollups!AppendSample
  <2>2. /\ v \in Rollups!Windows /\ (adding.has = "list" => open[v] # None /\ open[v] \in Nat)
        /\ \A w \in Rollups!Windows : /\ Adding(w) = IF w = v THEN 1 ELSE 0
                                      /\ Adding(w)' = 0
    <3>1. v \in Rollups!Windows
      BY <2>1, RollNumbers, WindowFacts
    <3>2. adding.has = "list" => open[v] # None
      BY <2>1 DEF ListInv
    <3>3. QED
      BY <2>1, <3>1, <3>2, ListNumbers DEF Adding
  <2> HIDE DEF v
  <2>3. open \in [Rollups!Windows -> Nat \cup {None}] /\ None \notin Nat
    BY DEF RollTypes
  <2>4. ASSUME NEW w \in Rollups!Windows PROVE ListOf(w)'
    <3>1. ListOf(w)
      BY DEF ListInv
    <3>2. open'[w] = 0 => FALSE
      <4>1. CASE w = v
        BY <2>1, <2>2, <2>3, <3>1, <4>1 DEF ListOf
      <4>2. CASE w # v
        BY <2>1, <2>2, <2>3, <3>1, <4>2 DEF ListOf, v
      <4>3. QED
        BY <4>1, <4>2
    <3>3. /\ Drained(w)' = Drained(w) /\ (w # v => Listed(w)' = Listed(w) /\ open'[w] = open[w])
          /\ w = v /\ adding.has = "list" => Listed(w)' = Listed(w) + 1 /\ open[w] # None
          /\ w = v /\ adding.has # "list" => Listed(w)' = Listed(w) /\ w \in excused'
      BY <1>1, <2>1, <2>2, <2>3 DEF Listed, Drained
    <3>4. QED
      BY <1>1, <2>1, <2>2, <3>1, <3>2, <3>3, ListNumbers DEF ListOf
  <2>5. pass.at = "pop" => \A w \in pass.todo : open'[w] # None
    <3>1. pass.todo \subseteq Rollups!Windows
      BY DEF RollTypes, Passes
    <3>2. \A w \in Rollups!Windows : open[w] # None => open'[w] # None
      BY <2>1, <2>2, <2>3
    <3>3. QED
      BY <3>1, <3>2 DEF ListInv
  <2>6. QED
    BY <2>1, <2>4, <2>5 DEF ListInv
<1>5. QED
  BY <1>2, <1>3, <1>4

\* A window's samples go from its list into its row.
LEMMA ListPops ==
    ASSUME RollTypes, ListInv, NEW v \in Rollups!Windows, Rollups!PopWindow(v)
    PROVE  ListInv'
<1>1. /\ pass.at = "pop" /\ v \in pass.todo /\ open[v] # None /\ open[v] > 0 /\ open[v] \in Nat
      /\ drawn' = [drawn EXCEPT ![v] = open[v]] /\ open' = [open EXCEPT ![v] = None]
      /\ adding' = IF adding # None /\ Rollups!Window(adding.now) = v /\ adding.has = "list"
                   THEN [adding EXCEPT !.has = "taken"] ELSE adding
      /\ pass' = [pass EXCEPT !.todo = @ \ {v}]
      /\ UNCHANGED <<windows, happened, excused>>
  BY RollNumbers DEF Rollups!PopWindow, ListInv
<1>2. /\ pass'.at = pass.at /\ pass'.todo = pass.todo \ {v} /\ pass.todo \subseteq Rollups!Windows
  BY <1>1 DEF RollTypes, Passes
<1>3. /\ adding' # None <=> adding # None
      /\ adding # None => adding'.now = adding.now
      /\ adding # None /\ adding'.has = "list" =>
           adding.has = "list" /\ Rollups!Window(adding.now) # v
      /\ adding # None /\ Rollups!Window(adding.now) # v => adding' = adding
  <2>1. adding # None => [adding EXCEPT !.has = "taken"] \in Rollups!Adds
    BY RollNumbers DEF Rollups!Adds
  <2>2. adding # None => /\ [adding EXCEPT !.has = "taken"].now = adding.now
                         /\ [adding EXCEPT !.has = "taken"].has = "taken"
    BY RollNumbers DEF Rollups!Adds
  <2>3. CASE adding # None /\ Rollups!Window(adding.now) = v /\ adding.has = "list"
    BY <1>1, <2>1, <2>2, <2>3
  <2>4. CASE ~(adding # None /\ Rollups!Window(adding.now) = v /\ adding.has = "list")
    BY <1>1, <2>4
  <2>5. QED
    BY <2>3, <2>4
<1>4. /\ open \in [Rollups!Windows -> Nat \cup {None}] /\ drawn \in [Rollups!Windows -> Nat \cup {None}]
      /\ None \notin Nat
  BY DEF RollTypes
<1>5. ASSUME NEW w \in Rollups!Windows PROVE ListOf(w)'
  <2>1. ListOf(w)
    BY DEF ListInv
  <2>2. Adding(w)' = Adding(w)
    BY <1>3 DEF Adding
  <2>3. CASE w = v
    <3>1. /\ open'[w] = None /\ Listed(w)' = 0 /\ Drained(w)' = open[w] /\ drawn'[w] # None
          /\ Listed(w) = open[w]
      BY <1>1, <1>4, <2>3 DEF Listed, Drained
    <3>2. w \notin excused => Drained(w) = 0 /\ windows[w] = 0
      BY <1>1, <2>1, <2>3 DEF ListOf, Drained
    <3>3. 0 # None
      BY <1>4
    <3>4. QED
      BY <1>1, <2>1, <2>2, <3>1, <3>2, <3>3, ListNumbers DEF ListOf
  <2>4. CASE w # v
    <3>1. /\ open'[w] = open[w] /\ drawn'[w] = drawn[w]
          /\ Listed(w)' = Listed(w) /\ Drained(w)' = Drained(w)
      BY <1>1, <1>4, <2>4 DEF Listed, Drained
    <3>2. open[w] = 0 => adding' = adding
      BY <1>3, <2>1, <2>4 DEF ListOf
    <3>3. QED
      BY <1>1, <2>1, <2>2, <3>1, <3>2 DEF ListOf
  <2>5. QED
    BY <2>3, <2>4
<1>6. \A w \in pass'.todo : open'[w] # None
  BY <1>1, <1>2, <1>4 DEF ListInv
<1>7. adding' # None /\ adding'.has = "list" => open'[Rollups!Window(adding'.now)] # None
  <2>1. adding # None => Rollups!Window(adding.now) \in Rollups!Windows
    BY RollNumbers, WindowFacts
  <2>2. QED
    BY <1>1, <1>3, <1>4, <2>1 DEF ListInv
<1>8. QED
  BY <1>5, <1>6, <1>7 DEF ListInv

\* An empty list is the one that add has just made.
LEMMA ListRaises ==
    ASSUME RollTypes, ListInv, NEW v \in Rollups!Windows, Rollups!EmptyRaises(v)
    PROVE  ListInv'
<1>1. /\ open[v] = 0 /\ open' = [open EXCEPT ![v] = None]
      /\ adding' = [adding EXCEPT !.has = "taken"]
      /\ excused' = excused \cup {w \in Rollups!Windows : drawn[w] # None}
      /\ drawn' = Rollups!Nothing /\ pass' = Rollups!Idle
      /\ UNCHANGED <<windows, happened>>
  BY DEF Rollups!EmptyRaises
<1>2. adding # None /\ adding.has = "list" /\ Rollups!Window(adding.now) = v
  BY <1>1 DEF ListInv, ListOf
<1>3. adding' # None /\ adding'.now = adding.now /\ adding'.has = "taken"
  <2>1. adding' \in Rollups!Adds
    BY <1>1, <1>2, RollNumbers DEF Rollups!Adds
  <2>2. QED
    BY <1>1, <1>2, <2>1, RollNumbers DEF Rollups!Adds
<1>4. /\ open \in [Rollups!Windows -> Nat \cup {None}] /\ None \notin Nat
  BY DEF RollTypes
<1>5. ASSUME NEW w \in Rollups!Windows PROVE ListOf(w)'
  <2>1. ListOf(w)
    BY DEF ListInv
  <2>2. /\ Adding(w)' = Adding(w) /\ Listed(w)' = Listed(w) /\ drawn'[w] = None
        /\ Drained(w)' = 0 /\ (open'[w] # None => open[w] # None)
    BY <1>1, <1>2, <1>3, <1>4 DEF Adding, Listed, Drained, Rollups!Nothing
  <2>3. w \notin excused' => w \notin excused /\ drawn[w] = None /\ Drained(w) = 0
    BY <1>1 DEF Drained
  <2>4. open'[w] # 0
    <3>1. CASE w = v
      BY <1>1, <1>4, <3>1
    <3>2. CASE w # v
      BY <1>1, <1>2, <2>1, <3>2 DEF ListOf
    <3>3. QED
      BY <3>1, <3>2
  <2>5. QED
    BY <1>1, <2>1, <2>2, <2>3, <2>4, ListNumbers DEF ListOf
<1>6. pass'.at = "idle"
  BY <1>1 DEF Rollups!Idle
<1>7. QED
  BY <1>3, <1>5, <1>6 DEF ListInv

\* A stored row replaces none but those of excused windows.
LEMMA ListStores ==
    ASSUME RollTypes, ListInv, Rollups!Store \/ Rollups!StoreFails
    PROVE  ListInv'
<1>1. /\ drawn' = Rollups!Nothing /\ pass' = Rollups!Idle
      /\ UNCHANGED <<open, adding, happened>> /\ excused \subseteq excused'
  BY DEF Rollups!Store, Rollups!StoreFails
<1>2. ASSUME NEW w \in Rollups!Windows PROVE ListOf(w)'
  <2>1. ListOf(w)
    BY DEF ListInv
  <2>2. /\ Adding(w)' = Adding(w) /\ Listed(w)' = Listed(w) /\ drawn'[w] = None /\ Drained(w)' = 0
    BY <1>1 DEF Adding, Listed, Drained, Rollups!Nothing
  <2>3. /\ windows'[w] <= happened[w]
        /\ w \notin excused' => /\ windows'[w] = Drained(w) + windows[w]
                                /\ open[w] # None => windows'[w] = 0
    <3>1. CASE Rollups!Store
      <4>1. windows'[w] = IF drawn[w] = None THEN windows[w] ELSE drawn[w]
        BY <3>1 DEF Rollups!Store, Rollups!Stored
      <4>2. CASE drawn[w] = None
        BY <1>1, <2>1, <4>1, <4>2, ListNumbers DEF ListOf, Drained
      <4>3. CASE drawn[w] # None
        BY <1>1, <2>1, <4>1, <4>3, ListNumbers DEF ListOf, Drained
      <4>4. QED
        BY <4>2, <4>3
    <3>2. CASE Rollups!StoreFails
      <4>1. windows'[w] = windows[w] /\ (w \notin excused' => drawn[w] = None)
        BY <3>2 DEF Rollups!StoreFails
      <4>2. QED
        BY <1>1, <2>1, <4>1, ListNumbers DEF ListOf, Drained
    <3>3. QED
      BY <3>1, <3>2
  <2>4. QED
    BY <1>1, <2>1, <2>2, <2>3, ListNumbers DEF ListOf
<1>3. pass'.at = "idle"
  BY <1>1 DEF Rollups!Idle
<1>4. QED
  BY <1>1, <1>2, <1>3 DEF ListInv

\* Every step of the latencies keeps their part of the invariant.
LEMMA ListStep ==
    ASSUME RollTypes, kind = "latency", ListInv, [Rollups!Next]_rollups
    PROVE  ListInv'
<1>1. CASE UNCHANGED rollups
  <2>1. /\ UNCHANGED <<open, adding, drawn, windows, happened>> /\ excused \subseteq excused'
        /\ pass' = pass
    BY <1>1 DEF rollups
  <2>2. QED
    BY <2>1, ListSame DEF ListInv
<1>2. CASE Rollups!Begin \/ Rollups!OpenList \/ Rollups!AppendSample
  BY <1>2, ListAdds
<1>3. ASSUME NEW w \in Rollups!Windows, Rollups!PopWindow(w) \/ Rollups!EmptyRaises(w)
      PROVE  ListInv'
  BY <1>3, ListPops, ListRaises
<1>4. CASE Rollups!Store \/ Rollups!StoreFails
  BY <1>4, ListStores
<1>5. CASE \/ Rollups!StartPass \/ Rollups!ListWindows \/ Rollups!ListRaises \/ Rollups!Popped
           \/ Rollups!Tick \/ Rollups!SetBack
  <2>1. /\ UNCHANGED <<open, adding, drawn, windows, happened>> /\ excused \subseteq excused'
    BY <1>5 DEF Rollups!StartPass, Rollups!ListWindows, Rollups!ListRaises, Rollups!Popped,
       Rollups!Tick, Rollups!SetBack
  <2>2. pass' = pass \/ pass'.at # "pop"
    <3>1. Rollups!StartPass => pass'.at = "drain"
      BY DEF Rollups!StartPass, Rollups!Idle
    <3>5. Rollups!ListRaises => pass'.at = "idle"
      BY DEF Rollups!ListRaises, Rollups!Idle
    <3>2. Rollups!ListWindows \/ Rollups!Popped => pass'.at # "pop"
      BY DEF Rollups!ListWindows, Rollups!Popped, RollTypes, Passes
    <3>3. Rollups!Tick \/ Rollups!SetBack => pass' = pass
      BY DEF Rollups!Tick, Rollups!SetBack
    <3>4. QED
      BY <1>5, <3>1, <3>2, <3>3, <3>5
  <2>3. QED
    BY <2>1, <2>2, ListSame DEF ListInv
<1>6. CASE Rollups!Listed
  <2>1. /\ UNCHANGED <<open, adding, drawn, windows, happened>> /\ excused \subseteq excused'
        /\ pass'.todo = {w \in Rollups!Windows : open[w] # None /\ w < pass.now}
    BY <1>6 DEF Rollups!Listed, RollTypes, Passes
  <2>2. QED
    BY <2>1, ListSame
<1>7. ~Rollups!Record /\ ~Rollups!DrainCounters
  BY DEF Rollups!Record, Rollups!DrainCounters
<1>8. QED
  BY <1>1, <1>2, <1>3, <1>4, <1>5, <1>6, <1>7 DEF Rollups!Next, Rollups!Worker

\* Every step of the rollups keeps the invariant.
LEMMA RollStep == RollInv /\ [Rollups!Next]_rollups => RollInv'
<1> SUFFICES ASSUME RollInv, [Rollups!Next]_rollups PROVE RollInv'
  OBVIOUS
<1>1. RollTypes'
  BY RollTypesStep
<1>2. kind' = kind
  BY DEF rollups, Rollups!Next, Rollups!Worker, Rollups!Begin, Rollups!Record, Rollups!OpenList,
     Rollups!AppendSample, Rollups!StartPass, Rollups!DrainCounters, Rollups!ListWindows,
     Rollups!Listed, Rollups!ListRaises, Rollups!Popped, Rollups!Store, Rollups!StoreFails,
     Rollups!PopWindow, Rollups!EmptyRaises, Rollups!Tick, Rollups!SetBack
<1>3. QED
  BY <1>1, <1>2, CountStep, ListStep DEF RollInv

\* The invariant gives the types and the property.
LEMMA RollsWhole == RollInv => Rollups!TypeOK /\ Rollups!RollupsWhole
<1> SUFFICES ASSUME RollInv PROVE Rollups!TypeOK /\ Rollups!RollupsWhole
  OBVIOUS
<1>1. RollTypes
  BY DEF RollInv
<1>2. Rollups!TypeOK
  BY <1>1 DEF Rollups!TypeOK, RollTypes, Passes
<1>3. ASSUME NEW w \in Rollups!Windows
      PROVE  /\ windows[w] <= happened[w]
             /\ Rollups!Behind(w) /\ ~Rollups!InHand(w) /\ w \notin excused => windows[w] = happened[w]
  <2>1. ~Rollups!InHand(w) => drawn[w] = None /\ Adding(w) = 0
    BY DEF Rollups!InHand, Adding
  <2>2. CASE kind = "counters"
    BY <2>1, <2>2 DEF RollInv, CountInv, CountOf, Rollups!Behind
  <2>3. CASE kind = "latency"
    <3>1. ListOf(w)
      BY <2>3 DEF RollInv, ListInv
    <3>2. QED
      BY <1>1, <2>1, <2>3, <3>1, ListNumbers DEF ListOf, Listed, Drained, Rollups!Behind
  <2>4. QED
    BY <1>1, <2>2, <2>3 DEF RollTypes
<1>4. QED
  BY <1>2, <1>3 DEF Rollups!RollupsWhole

\* A stored rollup is its whole window's, and none counts an observation twice,
\* for any window and any number of observations, as long as the clock is not set
\* back by more than the buckets are kept (rates.py:36-85, tap.py:100-149, 187-233).
THEOREM RollupsAreWhole == Spec => []RollupsWhole
<1>1. Init => RollInv
  BY RollInit DEF Init
<1>2. RollInv /\ [Next]_vars => RollInv'
  BY RollStep, Apart
<1>3. RollInv => RollupsWhole
  BY RollsWhole DEF RollupsWhole
<1>4. QED
  BY <1>1, <1>2, <1>3, PTL DEF Spec

HIDE RollupAssumption DEF Rollups!RollupAssumption

-----------------------------------------------------------------------------
(* The receipts of a recommendation *)

\* What the constants are, and the copies of the library's operators.
LEMMA ReceiptConstants ==
    /\ MaxDay \in Nat /\ MaxModel \in Nat /\ MaxUs \in Nat /\ MaxPeak \in Nat /\ Limit \in Nat
    /\ 1 \in 1..MaxModel
    /\ None \notin [us : 1..MaxUs, version : 0..MaxModel]
    /\ None \notin 0..MaxDay
    /\ None \notin {"pending", "improved", "regressed", "no_material_change"}
    /\ Receipts!Days = 0..MaxDay /\ Receipts!MIXED_PRICING_VERSION = 0
    /\ \A S : Receipts!Max(S) = Max(S) /\ Receipts!Cardinality(S) = Cardinality(S)
BY VerificationAssumption DEF Receipts!VerificationAssumption, Receipts!Days,
   Receipts!MIXED_PRICING_VERSION, Receipts!Max, Max, Receipts!Cardinality, Cardinality

\* A row r of the models u: none wrote it, or it carries the one that did, or
\* it is mixed.
RowOf(r, u) ==
    \/ r = None /\ u = {}
    \/ /\ r \in [us : 1..MaxUs, version : 0..MaxModel]
       /\ r.version = 0 \/ u = {r.version}

\* A pacing is verified on a day when every burst since the change was within
\* the band.
Paced ==
    rec.detector = "pacing" /\ rec.state = "verified" =>
      /\ rec.checked \in 0..today
      /\ \A d \in rec.boundary..rec.checked - 1 : 10 * peak[d] <= 11 * Limit

\* What a recommendation is.
Records == [detector : Receipts!SpendDetectors \cup Receipts!BurstDetectors, subject : Spenders,
            state : {"open", "applied", "verified", "regressed"},
            boundary : Receipts!Days \cup {None},
            receipts : {None, "pending", "improved", "regressed", "no_material_change"},
            checked : Receipts!Days \cup {None}, finalized : BOOLEAN]

\* The invariant of the receipts: what each row says of who wrote it, and what
\* a verdict has looked at.
ReceiptInv ==
    /\ today \in Receipts!Days /\ model \in 1..MaxModel
    /\ row \in [Receipts!Days -> [Spenders -> [us : 1..MaxUs, version : 0..MaxModel] \cup {None}]]
    /\ used \in [Receipts!Days -> [Spenders -> SUBSET (1..MaxModel)]]
    /\ peak \in [Receipts!Days -> 0..MaxPeak]
    /\ rec \in Records
    /\ \A d \in Receipts!Days, c \in Spenders : RowOf(row[d][c], used[d][c])
    /\ rec.state # "open" => rec.boundary \in 0..today
    /\ Paced

\* The invariant holds before any row is written.
LEMMA ReceiptInit == Receipts!Init => ReceiptInv
<1> SUFFICES ASSUME Receipts!Init PROVE ReceiptInv
  OBVIOUS
<1>1. /\ today = 0 /\ model = 1 /\ peak = [d \in Receipts!Days |-> 0]
      /\ row = [d \in Receipts!Days |-> [c \in Spenders |-> None]]
      /\ used = [d \in Receipts!Days |-> [c \in Spenders |-> {}]]
  BY DEF Receipts!Init
<1>2. PICK detector \in Receipts!SpendDetectors \cup Receipts!BurstDetectors, subject \in Spenders :
        rec = [detector |-> detector, subject |-> subject, state |-> "open",
               boundary |-> None, receipts |-> None, checked |-> None, finalized |-> FALSE]
  BY DEF Receipts!Init
<1>3. rec \in Records /\ rec.state = "open"
  BY <1>2 DEF Records
<1>4. today \in Receipts!Days /\ model \in 1..MaxModel /\ 0 \in 0..MaxPeak
  BY <1>1, ReceiptConstants
<1>5. QED
  BY <1>1, <1>3, <1>4 DEF ReceiptInv, RowOf, Paced

\* A row that is written again has one model's prices, or says that it has not.
LEMMA FlushKeeps ==
    ASSUME ReceiptInv, NEW c \in Spenders, Receipts!Flush(c)
    PROVE  ReceiptInv'
<1>1. PICK d \in Receipts!Days \cap {today - 1, today}, us \in {1, model} :
        /\ (IF row[d][c] = None THEN 0 ELSE row[d][c].us) + us <= MaxUs
        /\ row' = [row EXCEPT ![d][c] =
              IF @ = None THEN [us |-> us, version |-> model] ELSE Receipts!Merged(@, us)]
        /\ used' = [used EXCEPT ![d][c] = @ \cup {model}]
  BY DEF Receipts!Flush
<1>2. UNCHANGED <<today, model, peak, rec>>
  BY DEF Receipts!Flush
<1> DEFINE new == IF row[d][c] = None THEN [us |-> us, version |-> model]
                  ELSE Receipts!Merged(row[d][c], us)
<1>3. d \in Receipts!Days /\ us \in 1..MaxModel /\ model \in 1..MaxModel /\ 0 \in 0..MaxModel
  BY ReceiptConstants DEF ReceiptInv
<1>4. RowOf(row[d][c], used[d][c]) /\ used[d][c] \in SUBSET (1..MaxModel)
  BY <1>3 DEF ReceiptInv
<1>5. new \in [us : 1..MaxUs, version : 0..MaxModel]
  <2>1. CASE row[d][c] = None
    <3>1. us \in 1..MaxUs /\ model \in 0..MaxModel
      BY <1>1, <1>3, <2>1, ReceiptConstants
    <3>2. QED
      BY <2>1, <3>1
  <2>2. CASE row[d][c] # None
    <3>1. row[d][c] \in [us : 1..MaxUs, version : 0..MaxModel]
      BY <1>4, <2>2 DEF RowOf
    <3>2. row[d][c].us + us \in 1..MaxUs
      <4>1. row[d][c].us + us <= MaxUs
        BY <1>1, <2>2
      <4>2. row[d][c].us \in Int /\ row[d][c].us >= 1
        BY <3>1, ReceiptConstants
      <4>3. us \in Int /\ us >= 1
        BY <1>3, ReceiptConstants
      <4>4. row[d][c].us + us \in Int /\ row[d][c].us + us >= 1
        BY <4>2, <4>3
      <4>5. QED
        BY <4>1, <4>4, ReceiptConstants
    <3>3. QED
      BY <1>3, <2>2, <3>2, ReceiptConstants DEF Receipts!Merged
  <2>3. QED
    BY <2>1, <2>2
<1>6. RowOf(new, used[d][c] \cup {model})
  <2>1. CASE row[d][c] = None
    BY <1>4, <1>5, <2>1, ReceiptConstants DEF RowOf
  <2>2. CASE row[d][c] # None /\ row[d][c].version = model
    <3>1. used[d][c] = {model}
      BY <1>3, <1>4, <2>2 DEF RowOf
    <3>2. new.version = model
      BY <2>2 DEF Receipts!Merged
    <3>3. QED
      BY <1>5, <3>1, <3>2 DEF RowOf
  <2>3. CASE row[d][c] # None /\ row[d][c].version # model
    <3>1. new.version = 0
      BY <2>3, ReceiptConstants DEF Receipts!Merged
    <3>2. QED
      BY <1>5, <3>1 DEF RowOf
  <2>4. QED
    BY <2>1, <2>2, <2>3
<1>7. row' = [row EXCEPT ![d] = [row[d] EXCEPT ![c] = new]]
  BY <1>1
<1>8. used' = [used EXCEPT ![d] = [used[d] EXCEPT ![c] = used[d][c] \cup {model}]]
  BY <1>1
<1> HIDE DEF new
<1>9. row' \in [Receipts!Days -> [Spenders -> [us : 1..MaxUs, version : 0..MaxModel] \cup {None}]]
  BY <1>5, <1>7 DEF ReceiptInv
<1>10. used' \in [Receipts!Days -> [Spenders -> SUBSET (1..MaxModel)]]
  <2>1. used[d][c] \cup {model} \in SUBSET (1..MaxModel)
    BY <1>3, <1>4
  <2>2. QED
    BY <1>8, <2>1 DEF ReceiptInv
<1>11. ASSUME NEW e \in Receipts!Days, NEW b \in Spenders
       PROVE  RowOf(row'[e][b], used'[e][b])
  <2>1. CASE e = d /\ b = c
    <3>1. row'[e][b] = new /\ used'[e][b] = used[d][c] \cup {model}
      BY <1>7, <1>8, <2>1 DEF ReceiptInv
    <3>2. QED
      BY <1>6, <3>1
  <2>2. CASE e # d \/ b # c
    <3>1. row'[e][b] = row[e][b] /\ used'[e][b] = used[e][b]
      BY <1>7, <1>8, <2>2 DEF ReceiptInv
    <3>2. QED
      BY <3>1 DEF ReceiptInv
  <2>3. QED
    BY <2>1, <2>2
<1>12. QED
  BY <1>2, <1>9, <1>10, <1>11 DEF ReceiptInv, RowOf, Paced

\* The worst burst since the change, when it is within the band, has every
\* burst since then within it.
LEMMA PeakBounds ==
    ASSUME ReceiptInv, NEW b \in 0..today, 10 * Max({peak[d] : d \in b..today}) <= 11 * Limit
    PROVE  \A d \in b..today : 10 * peak[d] <= 11 * Limit
<1> DEFINE S == {peak[d] : d \in b..today}
<1>1. today \in b..today /\ \A d \in b..today : d \in Receipts!Days
  BY ReceiptConstants DEF ReceiptInv
<1>2. S \in SUBSET (0..MaxPeak) /\ peak[today] \in S
  BY <1>1 DEF ReceiptInv
<1>3. Max(S) \in S /\ \A y \in S : Max(S) >= y
  <2> HIDE DEF S
  <2> QED BY <1>2, MaxOf, ReceiptConstants
<1>4. Max(S) \in Nat /\ Limit \in Nat /\ \A y \in S : y \in Nat
  BY <1>2, <1>3, ReceiptConstants
<1>5. ASSUME NEW d \in b..today PROVE 10 * peak[d] <= 11 * Limit
  <2>1. peak[d] \in S /\ 10 * Max(S) <= 11 * Limit
    OBVIOUS
  <2> HIDE DEF S
  <2>2. QED
    BY <1>3, <1>4, <2>1
<1>6. QED
  BY <1>5

\* A verdict, its day and its boundary.
LEMMA GiveKeeps ==
    ASSUME ReceiptInv, rec.state = "applied",
           NEW v \in {"improved", "regressed", "no_material_change"},
           Receipts!Give(v), UNCHANGED <<today, model, row, peak, used>>,
           rec.detector = "pacing" /\ v = "improved" =>
             \A d \in rec.boundary..today : 10 * peak[d] <= 11 * Limit
    PROVE  ReceiptInv'
<1>1. PICK past \in Receipts!PastHorizon :
        rec' = [rec EXCEPT !.receipts = v, !.checked = today,
                  !.state = CASE v = "improved" -> "verified"
                              [] v = "regressed" -> "regressed"
                              [] OTHER -> @,
                  !.finalized = v = "no_material_change" /\ past]
  BY DEF Receipts!Give
<1>2. (v = "no_material_change" /\ past) \in BOOLEAN
  OBVIOUS
<1>3. rec \in Records /\ today \in Receipts!Days /\ rec.boundary \in 0..today
  BY DEF ReceiptInv
<1> DEFINE state == CASE v = "improved" -> "verified"
                      [] v = "regressed" -> "regressed"
                      [] OTHER -> rec.state
<1>4. state \in {"verified", "regressed", "applied"} /\ (state = "verified" => v = "improved")
  OBVIOUS
<1>5. rec' = [rec EXCEPT !.receipts = v, !.checked = today, !.state = state,
                         !.finalized = v = "no_material_change" /\ past]
  BY <1>1
<1> HIDE DEF state
<1>6. rec' \in Records
  BY <1>2, <1>3, <1>4, <1>5 DEF Records
<1>7. /\ rec'.state = state /\ rec'.checked = today /\ rec'.boundary = rec.boundary
      /\ rec'.detector = rec.detector
  BY <1>3, <1>5 DEF Records
<1>8. Paced'
  <2>1. SUFFICES ASSUME rec'.detector = "pacing", rec'.state = "verified"
                 PROVE  /\ today \in 0..today
                        /\ \A d \in rec.boundary..today - 1 : 10 * peak[d] <= 11 * Limit
    BY <1>7 DEF Paced
  <2>2. \A d \in rec.boundary..today : 10 * peak[d] <= 11 * Limit
    BY <1>4, <1>7, <2>1
  <2>3. today \in Nat /\ rec.boundary \in Nat
    BY <1>3, ReceiptConstants
  <2>4. QED
    BY <2>2, <2>3
<1>9. QED
  BY <1>3, <1>6, <1>7, <1>8 DEF ReceiptInv, Paced

\* Receipts that wait leave the state as it is.
LEMMA WaitKeeps ==
    ASSUME ReceiptInv, rec.state = "applied", Receipts!Wait,
           UNCHANGED <<today, model, row, peak, used>>
    PROVE  ReceiptInv'
<1>1. rec' = [rec EXCEPT !.receipts = "pending", !.checked = today]
  BY DEF Receipts!Wait
<1>2. rec \in Records /\ today \in Receipts!Days
  BY DEF ReceiptInv
<1>3. rec' \in Records /\ rec'.state = "applied" /\ rec'.boundary = rec.boundary
  BY <1>1, <1>2 DEF Records
<1>4. QED
  BY <1>3 DEF ReceiptInv, Paced

\* A check gives a verdict on what it has looked at, or waits.
LEMMA VerifyKeeps == ReceiptInv /\ Receipts!Verify => ReceiptInv'
<1> SUFFICES ASSUME ReceiptInv, Receipts!Verify PROVE ReceiptInv'
  OBVIOUS
<1>1. rec.state = "applied" /\ UNCHANGED <<today, model, row, peak, used>>
  BY DEF Receipts!Verify
<1>2. CASE Receipts!Wait
  BY <1>1, <1>2, WaitKeeps
<1>3. CASE rec.detector \notin Receipts!BurstDetectors /\ Receipts!Give(Receipts!SpendVerdict)
  <2>1. Receipts!SpendVerdict \in {"improved", "regressed", "no_material_change"}
    BY DEF Receipts!SpendVerdict
  <2>2. rec.detector # "pacing"
    BY <1>3 DEF Receipts!BurstDetectors
  <2>3. QED
    BY <1>1, <1>3, <2>1, <2>2, GiveKeeps
<1>4. ASSUME rec.detector \in Receipts!BurstDetectors, NEW days \in Receipts!PeakDays,
             Receipts!Give(Receipts!BurstVerdict(Receipts!Max({peak[d] : d \in days})))
      PROVE  ReceiptInv'
  <2> DEFINE after == Receipts!Max({peak[d] : d \in days})
             v == Receipts!BurstVerdict(after)
  <2>1. v \in {"improved", "regressed", "no_material_change"}
    BY DEF Receipts!BurstVerdict
  <2>2. ASSUME rec.detector = "pacing", v = "improved"
        PROVE  \A d \in rec.boundary..today : 10 * peak[d] <= 11 * Limit
    <3>1. days = rec.boundary..today
      BY <1>4, <2>2 DEF Receipts!PeakDays
    <3>2. 10 * after <= 11 * Limit
      <4> HIDE DEF after
      <4> QED BY <2>2 DEF Receipts!BurstVerdict
    <3>3. 10 * Max({peak[d] : d \in rec.boundary..today}) <= 11 * Limit
      BY <3>1, <3>2, ReceiptConstants
    <3>4. rec.boundary \in 0..today
      BY <1>1 DEF ReceiptInv
    <3>5. QED
      BY <3>3, <3>4, PeakBounds
  <2>3. Receipts!Give(v)
    BY <1>4
  <2> HIDE DEF v
  <2>4. QED
    BY <1>1, <2>1, <2>2, <2>3, GiveKeeps
<1>5. QED
  BY <1>2, <1>3, <1>4 DEF Receipts!Verify, Receipts!VerifyBurst, Receipts!VerifySpend

\* Every step keeps the invariant.
LEMMA ReceiptStep == ReceiptInv /\ [Receipts!Next]_receipts => ReceiptInv'
<1> SUFFICES ASSUME ReceiptInv, [Receipts!Next]_receipts PROVE ReceiptInv'
  OBVIOUS
<1>1. CASE UNCHANGED receipts
  BY <1>1 DEF ReceiptInv, Paced, receipts
<1>2. ASSUME NEW c \in Spenders, Receipts!Flush(c) PROVE ReceiptInv'
  BY <1>2, FlushKeeps
<1>3. ASSUME NEW p \in 1..MaxPeak, Receipts!Burst(p) PROVE ReceiptInv'
  <2>1. /\ peak' = [peak EXCEPT ![today] = p] /\ UNCHANGED <<today, model, row, rec, used>>
    BY <1>3 DEF Receipts!Burst
  <2>2. today \in Receipts!Days /\ p \in 0..MaxPeak
    BY ReceiptConstants DEF ReceiptInv
  <2>3. peak' \in [Receipts!Days -> 0..MaxPeak]
    BY <2>1, <2>2 DEF ReceiptInv
  <2>4. \A d \in Receipts!Days : d < today => peak'[d] = peak[d]
    BY <2>1, <2>2, ReceiptConstants DEF ReceiptInv
  <2>5. Paced'
    <3>1. SUFFICES ASSUME rec.detector = "pacing", rec.state = "verified"
                   PROVE  /\ rec.checked \in 0..today
                          /\ \A d \in rec.boundary..rec.checked - 1 : 10 * peak'[d] <= 11 * Limit
      BY <2>1 DEF Paced
    <3>2. /\ rec.checked \in 0..today /\ rec.boundary \in 0..today
          /\ \A d \in rec.boundary..rec.checked - 1 : 10 * peak[d] <= 11 * Limit
      BY <3>1 DEF ReceiptInv, Paced
    <3>3. today \in Nat /\ rec.checked \in Nat /\ rec.boundary \in Nat /\ today <= MaxDay
      BY <2>2, <3>2, ReceiptConstants
    <3>4. \A d \in rec.boundary..rec.checked - 1 : peak'[d] = peak[d]
      BY <2>4, <3>2, <3>3, ReceiptConstants
    <3>5. QED
      BY <3>2, <3>4
  <2>6. QED
    BY <2>1, <2>3, <2>5 DEF ReceiptInv
<1>4. CASE Receipts!Upgrade
  <2>1. model' \in 1..MaxModel /\ UNCHANGED <<today, row, peak, rec, used>>
    BY <1>4, ReceiptConstants DEF ReceiptInv, Receipts!Upgrade
  <2>2. QED
    BY <2>1 DEF ReceiptInv, Paced
<1>5. CASE Receipts!NextDay
  <2>1. today \in Nat /\ today' = today + 1 /\ today' \in Receipts!Days
    BY <1>5, ReceiptConstants DEF ReceiptInv, Receipts!NextDay
  <2>2. UNCHANGED <<model, row, peak, rec, used>>
    BY <1>5 DEF Receipts!NextDay
  <2>3. \A d : d \in 0..today => d \in 0..today'
    BY <2>1
  <2>4. rec.state # "open" => rec.boundary \in 0..today'
    BY <2>3 DEF ReceiptInv
  <2>5. Paced'
    BY <2>2, <2>3 DEF ReceiptInv, Paced
  <2>6. QED
    BY <2>1, <2>2, <2>4, <2>5 DEF ReceiptInv
<1>6. CASE Receipts!Apply
  <2>1. /\ rec.state = "open" /\ rec' = [rec EXCEPT !.state = "applied", !.boundary = today]
        /\ UNCHANGED <<today, model, row, peak, used>>
    BY <1>6 DEF Receipts!Apply
  <2>2. today \in 0..today /\ today \in Receipts!Days /\ rec \in Records
    BY ReceiptConstants DEF ReceiptInv
  <2>3. rec' \in Records /\ rec'.state = "applied" /\ rec'.boundary = today
    BY <2>1, <2>2 DEF Records
  <2>4. QED
    BY <2>1, <2>2, <2>3 DEF ReceiptInv, Paced
<1>7. CASE Receipts!Verify
  BY <1>7, VerifyKeeps
<1>8. QED
  BY <1>1, <1>2, <1>3, <1>4, <1>5, <1>6, <1>7 DEF Receipts!Next, receipts

\* Days of one version that is not that of a mixed row were priced by that
\* version alone.
LEMMA OneVersion ==
    ASSUME ReceiptInv, Receipts!SamePricing
    PROVE  Cardinality(UNION {used[d][c] : d \in Receipts!BeforeDays \cup Receipts!AfterDays,
                                           c \in Receipts!Summed}) <= 1
<1> DEFINE days == Receipts!BeforeDays \cup Receipts!AfterDays
           versions == {Receipts!DayVersion(d) : d \in days}
           VersionsOf(d) == {row[d][c].version : c \in Receipts!RowsOf(d)}
           all == UNION {used[d][c] : d \in days, c \in Receipts!Summed}
<1>1. Cardinality(versions) <= 1 /\ 0 \notin versions
  BY ReceiptConstants DEF Receipts!SamePricing
<1>2. \A d \in days : d \in Receipts!Days
  BY DEF Receipts!BeforeDays, Receipts!AfterDays
<1>3. Receipts!Summed \subseteq Spenders
  BY DEF ReceiptInv, Records, Receipts!Summed
<1>4. \A d \in days : VersionsOf(d) \in SUBSET (0..MaxModel)
  BY <1>2, <1>3 DEF ReceiptInv, Receipts!RowsOf
<1>5. ASSUME NEW d \in days
      PROVE  VersionsOf(d) = {Receipts!DayVersion(d)} /\ Receipts!DayVersion(d) \in 1..MaxModel
  <2>1. Receipts!DayVersion(d) =
          IF Cardinality(VersionsOf(d)) = 1 THEN CHOOSE v \in VersionsOf(d) : TRUE ELSE 0
    BY ReceiptConstants DEF Receipts!DayVersion
  <2>2. Receipts!DayVersion(d) # 0
    BY <1>1
  <2> DEFINE V == VersionsOf(d)
  <2>3. V \in SUBSET (0..MaxModel)
    BY <1>4
  <2> HIDE DEF VersionsOf, V
  <2>4. Cardinality(V) = 1 /\ Receipts!DayVersion(d) = CHOOSE v \in V : TRUE
    BY <2>1, <2>2 DEF V
  <2>5. IsFiniteSet(V)
    <3>1. IsFiniteSet(0..MaxModel)
      BY FS_Interval, ReceiptConstants
    <3>2. QED
      BY <2>3, <3>1, FS_Subset
  <2>6. PICK v : V = {v}
    BY <2>4, <2>5, FS_Singleton
  <2>7. V = {Receipts!DayVersion(d)}
    BY <2>4, <2>6
  <2>8. QED
    BY <2>2, <2>3, <2>7, ReceiptConstants DEF V
<1>6. ASSUME NEW d \in days, NEW c \in Receipts!Summed
      PROVE  used[d][c] \subseteq versions
  <2>1. RowOf(row[d][c], used[d][c])
    BY <1>2, <1>3 DEF ReceiptInv
  <2>2. CASE row[d][c] = None
    BY <2>1, <2>2, ReceiptConstants DEF RowOf
  <2>3. CASE row[d][c] # None
    <3>1. row[d][c].version \in VersionsOf(d)
      BY <2>3 DEF Receipts!RowsOf
    <3>2. row[d][c].version = Receipts!DayVersion(d) /\ row[d][c].version # 0
      <4>1. VersionsOf(d) = {Receipts!DayVersion(d)} /\ Receipts!DayVersion(d) \in 1..MaxModel
        BY <1>5
      <4>2. ~(0 \in 1..MaxModel)
        OBVIOUS
      <4> HIDE DEF VersionsOf
      <4>3. QED
        BY <3>1, <4>1, <4>2
    <3>3. used[d][c] = {row[d][c].version}
      BY <2>1, <2>3, <3>2 DEF RowOf
    <3>4. QED
      BY <3>2, <3>3
  <2>4. QED
    BY <2>2, <2>3
<1>7. versions \in SUBSET (1..MaxModel)
  BY <1>5
<1>8. all \subseteq versions
  BY <1>6
<1>9. QED
  <2> HIDE DEF versions, all
  <2>1. IsFiniteSet(versions)
    <3>1. IsFiniteSet(1..MaxModel)
      BY FS_Interval, ReceiptConstants
    <3>2. QED
      BY <1>7, <3>1, FS_Subset
  <2>2. Cardinality(all) <= Cardinality(versions) /\ Cardinality(all) \in Nat
        /\ Cardinality(versions) \in Nat
    BY <1>8, <2>1, FS_Subset, FS_CardinalityType
  <2>3. Cardinality(all) <= 1
    BY <1>1, <2>2
  <2>4. QED
    BY <2>3 DEF all

\* A verdict on spend is given only when the days are of one version.
LEMMA VerdictCompares ==
    ASSUME ReceiptInv, [Receipts!Next]_receipts,
           rec.receipts \in {None, "pending"}, rec'.receipts \notin {None, "pending"},
           rec.detector \in Receipts!SpendDetectors
    PROVE  Receipts!SamePricing
<1>1. rec' # rec /\ rec \in Records
  BY DEF ReceiptInv
<1>2. ~Receipts!Wait
  BY <1>1 DEF Receipts!Wait, Records
<1>3. ~Receipts!Apply
  BY <1>1 DEF Receipts!Apply, Records
<1>4. Receipts!Verify
  BY <1>1, <1>3 DEF Receipts!Next, Receipts!Flush, Receipts!Burst, Receipts!Upgrade,
     Receipts!NextDay, receipts
<1>5. rec.detector \notin Receipts!BurstDetectors
  BY DEF Receipts!SpendDetectors, Receipts!BurstDetectors
<1>6. QED
  BY <1>2, <1>4, <1>5 DEF Receipts!Verify, Receipts!VerifySpend

\* The property, in the state predicates and the step that it is of.
LEMMA ReceiptsMean ==
    /\ ReceiptInv => (part = "receipts" => Receipts!TypeOK /\ Receipts!VerifiedByEveryBurst)
    /\ ReceiptInv /\ [Receipts!Next]_receipts =>
         [(rec.receipts \in {None, "pending"} /\ rec'.receipts \notin {None, "pending"}
             /\ rec.detector \in Receipts!SpendDetectors)
           => Receipts!Cardinality(UNION {used[d][c] :
                 d \in Receipts!BeforeDays \cup Receipts!AfterDays, c \in Receipts!Summed}) <= 1
         ]_Receipts!vars
<1>1. ASSUME ReceiptInv
      PROVE  Receipts!TypeOK /\ Receipts!VerifiedByEveryBurst
  <2>1. Receipts!TypeOK
    BY <1>1 DEF ReceiptInv, Receipts!TypeOK, RowOf, Records
  <2>2. Receipts!VerifiedByEveryBurst
    BY <1>1 DEF ReceiptInv, Paced, Receipts!VerifiedByEveryBurst
  <2>3. QED
    BY <2>1, <2>2
<1>2. QED
  BY <1>1, OneVersion, VerdictCompares, ReceiptConstants

\* A pacing is verified only if every burst since the change was within its
\* band, however many days that is (verify.py:149-162), and a verdict on spend
\* compares days that one cost model priced (verify.py:209-215): for every
\* horizon, every set of commanders and every number of builds.
THEOREM ReceiptsAreSound == Spec => ReceiptsSound
<1>1. Init => ReceiptInv
  BY ReceiptInit DEF Init
<1>2. ReceiptInv /\ [Next]_vars => ReceiptInv'
  BY ReceiptStep, Apart
<1>3. ReceiptInv => (part = "receipts" => Receipts!TypeOK /\ Receipts!VerifiedByEveryBurst)
  BY ReceiptsMean
<1>4. ReceiptInv /\ [Next]_vars =>
        [(rec.receipts \in {None, "pending"} /\ rec'.receipts \notin {None, "pending"}
             /\ rec.detector \in Receipts!SpendDetectors)
           => Receipts!Cardinality(UNION {used[d][c] :
                 d \in Receipts!BeforeDays \cup Receipts!AfterDays, c \in Receipts!Summed}) <= 1
         ]_Receipts!vars
  BY ReceiptsMean, Apart
<1>5. QED
  BY <1>1, <1>2, <1>3, <1>4, PTL DEF Spec, ReceiptsSound, Receipts!OneCurrency

-----------------------------------------------------------------------------
(* The fusion tracker *)

\* What the tracker holds.
Stamps == [at : Nat, kind : {"wire", "probe", "matched"}]
Expiries == [at : Nat, key : Fusion!Keys]
Entries == {w \in [key : Fusion!Keys, times : Seq(Nat)] : w.times # << >>}
Counters == [Fusion!Sides -> Nat]
Trackers ==
    [pending : [Fusion!Sides -> Seq(Entries)], outcomes : Seq(Stamps),
     unmatched : [Senders -> Counters], expired : [Fusion!Sides -> Seq(Expiries)],
     histogram : [0 .. Sequences - 1 -> Nat], uncounted : Counters]

\* The expiries of a side, and the pairs among them.
AloneIn(st, s) ==
    SumFunctionOnSet([n \in Senders |-> st.unmatched[n][s]], Senders) + st.uncounted[s]
PairsIn(st) == SumFunctionOnSet(st.histogram, 0 .. Sequences - 1)

\* Rings within their bound; a pair has used up an expiry of each side, and so
\* has an entry of a ring one of its own.
Sound(st) ==
    /\ st \in Trackers
    /\ \A s \in Fusion!Sides :
         /\ Len(st.expired[s]) <= ExpiredRing
         /\ PairsIn(st) + Len(st.expired[s]) <= AloneIn(st, s)

LEMMA FusionConstants ==
    /\ IsFiniteSet(Senders) /\ Sequences \in Nat \ {0}
    /\ {Watermark, MatchWindow, AlignWindow, MaxPending, SendersCap, ExpiredRing} \subseteq Nat
    /\ FusionTime \in Nat
    /\ Fusion!Keys = Senders \X (0 .. Sequences - 1)
    /\ \A s \in Fusion!Sides :
         /\ Fusion!Other(s) \in Fusion!Sides /\ Fusion!Other(s) # s
         /\ Fusion!Other(Fusion!Other(s)) = s
         /\ \A t \in Fusion!Sides : t = s \/ t = Fusion!Other(s)
         /\ s \in {"wire", "probe", "matched"}
<1>1. /\ IsFiniteSet(Senders) /\ Sequences \in Nat \ {0} /\ FusionTime \in Nat
      /\ {Watermark, MatchWindow, AlignWindow, MaxPending, SendersCap, ExpiredRing} \subseteq Nat
  <2>1. IsFiniteSet(Senders) <=> Fusion!IsFiniteSet(Senders)
    BY DEF IsFiniteSet, Fusion!IsFiniteSet
  <2>2. QED
    BY <2>1, FusionAssumption DEF Fusion!FusionAssumption
<1>2. Fusion!Keys = Senders \X (0 .. Sequences - 1)
  BY DEF Fusion!Keys
<1>3. ASSUME NEW s \in Fusion!Sides
      PROVE  /\ Fusion!Other(s) \in Fusion!Sides /\ Fusion!Other(s) # s
             /\ Fusion!Other(Fusion!Other(s)) = s
             /\ \A t \in Fusion!Sides : t = s \/ t = Fusion!Other(s)
             /\ s \in {"wire", "probe", "matched"}
  BY DEF Fusion!Sides, Fusion!Other
<1>4. QED
  BY <1>1, <1>2, <1>3

LEMMA FusionOperators ==
    /\ \A f, S : Fusion!SumFunctionOnSet(f, S) = SumFunctionOnSet(f, S)
    /\ \A S : Fusion!Max(S) = Max(S) /\ Fusion!Min(S) = Min(S)
    /\ \A s, i : Fusion!RemoveAt(s, i) = SubSeq(s, 1, i - 1) \o SubSeq(s, i + 1, Len(s))
    /\ \A f : Fusion!Range(f) = {f[x] : x \in DOMAIN f}
BY DEF Fusion!SumFunctionOnSet, Fusion!FoldFunctionOnSet, Fusion!MapThenFoldSet, Fusion!Max,
       Fusion!Min, Fusion!RemoveAt, Fusion!Range, SumFunctionOnSet, FoldFunctionOnSet,
       MapThenFoldSet, Max, Min

\* Sums of what the trackers count are numbers.
LEMMA TrackerSums ==
    ASSUME NEW st \in Trackers
    PROVE  /\ PairsIn(st) \in Int /\ \A s \in Fusion!Sides : AloneIn(st, s) \in Int
           /\ \A s \in Fusion!Sides : Len(st.expired[s]) \in Nat
<1>1. /\ st.histogram \in [0 .. Sequences - 1 -> Nat] /\ st.unmatched \in [Senders -> Counters]
      /\ st.uncounted \in Counters /\ st.expired \in [Fusion!Sides -> Seq(Expiries)]
  BY DEF Trackers
<1>2. IsFiniteSet(0 .. Sequences - 1) /\ \A d \in 0 .. Sequences - 1 : st.histogram[d] \in Int
  <2>1. IsFiniteSet(0 .. Sequences - 1)
    BY FusionConstants, FS_Interval
  <2>2. \A d \in 0 .. Sequences - 1 : st.histogram[d] \in Nat
    BY <1>1
  <2>3. QED
    BY <2>1, <2>2
<1>3. PairsIn(st) \in Int
  <2> DEFINE S == 0 .. Sequences - 1
  <2>1. IsFiniteSet(S) /\ \A d \in S : st.histogram[d] \in Int
    BY <1>2
  <2>2. SUFFICES SumFunctionOnSet(st.histogram, S) \in Int
    BY DEF PairsIn
  <2> HIDE DEF S
  <2>3. QED
    BY <2>1, SumSplits
<1>4. ASSUME NEW s \in Fusion!Sides
      PROVE  AloneIn(st, s) \in Int
  <2> DEFINE f == [n \in Senders |-> st.unmatched[n][s]]
  <2>1. \A n \in Senders : f[n] \in Int
    BY <1>1 DEF Counters
  <2>2. SumFunctionOnSet(f, Senders) \in Int
    <3> HIDE DEF f
    <3> QED BY <2>1, SumSplits, FusionConstants
  <2>3. st.uncounted[s] \in Nat
    BY <1>1 DEF Counters
  <2>4. QED
    BY <2>2, <2>3 DEF AloneIn
<1>5. \A s \in Fusion!Sides : Len(st.expired[s]) \in Nat
  BY <1>1, LenProperties
<1>6. QED
  BY <1>3, <1>4, <1>5

\* An expiry is counted once, on its own side, for its sender or beyond the cap.
LEMMA ExpiryCounted ==
    ASSUME NEW st \in Trackers, NEW side \in Fusion!Sides, NEW e \in Expiries
    PROVE  LET c == Fusion!CountExpiry(side, st, e)
           IN /\ c \in Trackers
              /\ c.pending = st.pending /\ c.expired = st.expired /\ c.histogram = st.histogram
              /\ \A s \in Fusion!Sides : AloneIn(c, s) = AloneIn(st, s) + (IF s = side THEN 1 ELSE 0)
<1> DEFINE c == Fusion!CountExpiry(side, st, e)
           n == e.key[1]
<1>1. /\ st.unmatched \in [Senders -> Counters] /\ st.uncounted \in Counters /\ n \in Senders
  BY FusionConstants DEF Trackers, Expiries
<1>2. CASE c = [st EXCEPT !.unmatched[n][side] = @ + 1]
  <2> DEFINE u == [st.unmatched EXCEPT ![n][side] = @ + 1]
  <2>1. c = [st EXCEPT !.unmatched = u]
    BY <1>2
  <2>2. u \in [Senders -> Counters]
    BY <1>1 DEF Counters
  <2>3. \A m \in Senders : \A s \in Fusion!Sides :
          u[m][s] = st.unmatched[m][s] + (IF m = n /\ s = side THEN 1 ELSE 0)
    BY <1>1 DEF Counters
  <2> HIDE DEF u, c
  <2>4. /\ c \in Trackers /\ c.unmatched = u /\ c.uncounted = st.uncounted
        /\ c.pending = st.pending /\ c.expired = st.expired /\ c.histogram = st.histogram
    BY <2>1, <2>2 DEF Trackers
  <2>5. ASSUME NEW s \in Fusion!Sides
        PROVE  AloneIn(c, s) = AloneIn(st, s) + (IF s = side THEN 1 ELSE 0)
    <3> DEFINE f == [m \in Senders |-> st.unmatched[m][s]]
               h == [m \in Senders |-> u[m][s]]
    <3>1. IsFiniteSet(Senders) /\ \A m \in Senders : f[m] \in Int /\ h[m] \in Int
      BY <1>1, <2>2, FusionConstants DEF Counters
    <3>2. n \in Senders /\ \A m \in Senders \ {n} : h[m] = f[m]
      BY <1>1, <2>2, <2>3 DEF Counters
    <3>3. h[n] = f[n] + (IF s = side THEN 1 ELSE 0)
      BY <1>1, <2>3
    <3>4. st.uncounted[s] \in Nat
      BY <1>1 DEF Counters
    <3>5. /\ AloneIn(st, s) = SumFunctionOnSet(f, Senders) + st.uncounted[s]
          /\ AloneIn(c, s) = SumFunctionOnSet(h, Senders) + st.uncounted[s]
      BY <2>4 DEF AloneIn
    <3> HIDE DEF f, h, n
    <3>6. SumFunctionOnSet(f, Senders) \in Int
      BY <3>1, SumSplits
    <3>7. SumFunctionOnSet(h, Senders) = SumFunctionOnSet(f, Senders) + (h[n] - f[n])
      BY <3>1, <3>2, SumChanges
    <3>8. QED
      BY <3>1, <3>2, <3>3, <3>4, <3>5, <3>6, <3>7
  <2>6. QED
    BY <2>4, <2>5 DEF c
<1>3. CASE c = [st EXCEPT !.uncounted[side] = @ + 1]
  <2> DEFINE u == [st.uncounted EXCEPT ![side] = @ + 1]
  <2>1. c = [st EXCEPT !.uncounted = u]
    BY <1>3
  <2>2. u \in Counters /\ \A s \in Fusion!Sides : u[s] = st.uncounted[s] + (IF s = side THEN 1 ELSE 0)
    BY <1>1 DEF Counters
  <2> HIDE DEF u, c
  <2>3. /\ c \in Trackers /\ c.uncounted = u /\ c.unmatched = st.unmatched
        /\ c.pending = st.pending /\ c.expired = st.expired /\ c.histogram = st.histogram
    BY <2>1, <2>2 DEF Trackers
  <2>4. ASSUME NEW s \in Fusion!Sides
        PROVE  AloneIn(c, s) = AloneIn(st, s) + (IF s = side THEN 1 ELSE 0)
    <3> DEFINE total == SumFunctionOnSet([m \in Senders |-> st.unmatched[m][s]], Senders)
    <3>1. AloneIn(st, s) = total + st.uncounted[s] /\ AloneIn(c, s) = total + u[s]
      BY <2>3 DEF AloneIn
    <3>2. total + st.uncounted[s] \in Int
      BY <3>1, TrackerSums
    <3>3. total \in Int
      <4> DEFINE f == [m \in Senders |-> st.unmatched[m][s]]
      <4>1. \A m \in Senders : f[m] \in Int
        BY <1>1 DEF Counters
      <4> HIDE DEF f
      <4>2. SumFunctionOnSet(f, Senders) \in Int
        BY <4>1, FusionConstants, SumSplits
      <4>3. QED
        BY <4>2 DEF f
    <3> HIDE DEF total
    <3>4. st.uncounted[s] \in Nat
      BY <1>1 DEF Counters
    <3>5. QED
      BY <2>2, <3>1, <3>3, <3>4
  <2>5. QED
    BY <2>3, <2>4 DEF c
<1>4. QED
  BY <1>2, <1>3 DEF Fusion!CountExpiry
\* An expiry of the other side's that is near is used up, and the two are a
\* pair; with none, the new one joins its ring, from which the oldest falls.
LEMMA AlignedFacts ==
    ASSUME NEW st \in Trackers, NEW side \in Fusion!Sides, NEW e \in Expiries,
           \A s \in Fusion!Sides : Len(st.expired[s]) <= ExpiredRing
    PROVE  LET a == Fusion!Aligned(side, st, e)
           IN /\ a \in Trackers
              /\ a.pending = st.pending
              /\ \A s \in Fusion!Sides :
                   /\ AloneIn(a, s) = AloneIn(st, s)
                   /\ Len(a.expired[s]) <= ExpiredRing
                   /\ PairsIn(a) + Len(a.expired[s])
                        <= PairsIn(st) + Len(st.expired[s]) + (IF s = side THEN 1 ELSE 0)
<1> DEFINE a == Fusion!Aligned(side, st, e)
           o == Fusion!Other(side)
           ring == st.expired[o]
           own == Append(st.expired[side], e)
<1>1. /\ st.expired \in [Fusion!Sides -> Seq(Expiries)] /\ ring \in Seq(Expiries)
      /\ st.histogram \in [0 .. Sequences - 1 -> Nat] /\ o \in Fusion!Sides /\ o # side
      /\ \A s \in Fusion!Sides : s = side \/ s = o
  BY FusionConstants DEF Trackers
<1>2. /\ own \in Seq(Expiries) /\ Len(own) = Len(st.expired[side]) + 1 /\ own # << >>
  BY <1>1, AppendProperties
<1>3. ExpiredRing \in Nat /\ PairsIn(st) \in Int /\ \A s \in Fusion!Sides : Len(st.expired[s]) \in Nat
  BY FusionConstants, TrackerSums
<1>4. CASE a = [st EXCEPT !.expired[side] = IF Len(own) > ExpiredRing THEN Tail(own) ELSE own]
  <2> DEFINE new == IF Len(own) > ExpiredRing THEN Tail(own) ELSE own
             x == [st.expired EXCEPT ![side] = new]
  <2>1. new \in Seq(Expiries) /\ Len(new) <= Len(own) /\ Len(new) <= ExpiredRing
    <3>1. Tail(own) \in Seq(Expiries) /\ Len(Tail(own)) = Len(own) - 1
      BY <1>2, HeadTailProperties
    <3>2. Len(own) \in Nat /\ Len(own) <= ExpiredRing + 1
      BY <1>2, <1>3
    <3> HIDE DEF own
    <3>3. QED
      BY <1>2, <1>3, <3>1, <3>2
  <2> HIDE DEF new
  <2>2. a = [st EXCEPT !.expired = x]
    BY <1>4 DEF new
  <2>3. x \in [Fusion!Sides -> Seq(Expiries)] /\ x[side] = new /\ x[o] = st.expired[o]
    BY <1>1, <2>1
  <2> HIDE DEF x, a
  <2>4. /\ a \in Trackers /\ a.expired = x /\ a.histogram = st.histogram
        /\ a.pending = st.pending /\ a.unmatched = st.unmatched /\ a.uncounted = st.uncounted
    BY <2>2, <2>3 DEF Trackers
  <2>5. PairsIn(a) = PairsIn(st) /\ \A s \in Fusion!Sides : AloneIn(a, s) = AloneIn(st, s)
    BY <2>4 DEF PairsIn, AloneIn
  <2>6. Len(new) \in Nat
    BY <2>1, LenProperties
  <2>7. ASSUME NEW s \in Fusion!Sides
        PROVE  /\ Len(a.expired[s]) <= ExpiredRing
               /\ PairsIn(a) + Len(a.expired[s])
                    <= PairsIn(st) + Len(st.expired[s]) + (IF s = side THEN 1 ELSE 0)
    <3>1. CASE s = side
      <4>1. Len(a.expired[s]) = Len(new) /\ Len(new) <= Len(st.expired[s]) + 1
        BY <1>2, <2>1, <2>3, <2>4, <3>1
      <4>2. QED
        BY <1>3, <2>1, <2>5, <2>6, <3>1, <4>1
    <3>2. CASE s = o
      <4>1. a.expired[s] = st.expired[s]
        BY <2>3, <2>4, <3>2
      <4>2. QED
        BY <1>1, <1>3, <2>5, <3>2, <4>1
    <3>3. QED
      BY <1>1, <3>1, <3>2
  <2>8. QED
    BY <2>4, <2>5, <2>7 DEF a
<1>5. CASE \E i \in DOMAIN ring, d \in Int :
             a = [st EXCEPT !.expired[o] = Fusion!UsedUp(@, i),
                            !.histogram[d % Sequences] = @ + 1]
  <2>1. PICK i \in DOMAIN ring, d \in Int :
          a = [st EXCEPT !.expired[o] = Fusion!UsedUp(@, i), !.histogram[d % Sequences] = @ + 1]
    BY <1>5, Zenon
  <2> DEFINE k == d % Sequences
             new == SubSeq(ring, 1, i - 1) \o SubSeq(ring, i + 1, Len(ring))
             x == [st.expired EXCEPT ![o] = new]
             h == [st.histogram EXCEPT ![k] = @ + 1]
  <2>2. i \in 1 .. Len(ring) /\ Fusion!UsedUp(ring, i) = new
    BY <1>1, LenProperties, FusionOperators DEF Fusion!UsedUp
  <2>3. new \in Seq(Expiries) /\ Len(ring) \in Nat /\ Len(new) = Len(ring) - 1
    BY <1>1, <2>2, TakenOut
  <2> HIDE DEF new
  <2>4. k \in 0 .. Sequences - 1
    BY FusionConstants
  <2>5. x \in [Fusion!Sides -> Seq(Expiries)] /\ x[o] = new /\ x[side] = st.expired[side]
    BY <1>1, <2>3
  <2>6. h \in [0 .. Sequences - 1 -> Nat]
    <3> HIDE DEF k
    <3>1. st.histogram[k] + 1 \in Nat
      <4>1. \A y \in 0 .. Sequences - 1 : st.histogram[y] \in Nat
        BY <1>1
      <4>2. st.histogram[k] \in Nat
        BY <2>4, <4>1
      <4> HIDE DEF a, own, ring
      <4>3. QED
        BY ONLY <4>2
    <3>2. QED
      BY <1>1, <3>1
  <2>7. a = [st EXCEPT !.expired = x, !.histogram = h]
    BY <2>1, <2>2 DEF Trackers
  <2>8. h[k] = st.histogram[k] + 1 /\ \A y \in (0 .. Sequences - 1) \ {k} : h[y] = st.histogram[y]
    BY <1>1, <2>4
  <2> HIDE DEF x, a, h, k
  <2>9. /\ a \in Trackers /\ a.expired = x /\ a.histogram = h
        /\ a.pending = st.pending /\ a.unmatched = st.unmatched /\ a.uncounted = st.uncounted
    BY <2>5, <2>6, <2>7 DEF Trackers
  <2>10. PairsIn(a) = PairsIn(st) + 1
    <3> DEFINE S == 0 .. Sequences - 1
               f == st.histogram
    <3>1. IsFiniteSet(S) /\ \A y \in S : f[y] \in Int /\ h[y] \in Int
      <4>1. IsFiniteSet(S)
        BY FusionConstants, FS_Interval
      <4>2. \A y \in S : f[y] \in Nat /\ h[y] \in Nat
        BY <1>1, <2>6
      <4>3. QED
        BY <4>1, <4>2
    <3>2. k \in S /\ \A y \in S \ {k} : h[y] = f[y]
      BY <2>4, <2>8
    <3>3. PairsIn(a) = SumFunctionOnSet(h, S) /\ PairsIn(st) = SumFunctionOnSet(f, S)
      BY <2>9 DEF PairsIn
    <3>4. h[k] = f[k] + 1
      BY <2>8
    <3> HIDE DEF S, f
    <3>5. SumFunctionOnSet(h, S) = SumFunctionOnSet(f, S) + (h[k] - f[k])
      BY <3>1, <3>2, SumChanges
    <3>6. h[k] - f[k] = 1 /\ SumFunctionOnSet(f, S) \in Int
      BY <1>3, <3>1, <3>2, <3>3, <3>4
    <3>7. QED
      BY <3>3, <3>5, <3>6
  <2>11. \A s \in Fusion!Sides : AloneIn(a, s) = AloneIn(st, s)
    BY <2>9 DEF AloneIn
  <2>12. ASSUME NEW s \in Fusion!Sides
         PROVE  /\ Len(a.expired[s]) <= ExpiredRing
                /\ PairsIn(a) + Len(a.expired[s])
                     <= PairsIn(st) + Len(st.expired[s]) + (IF s = side THEN 1 ELSE 0)
    <3>1. CASE s = side
      <4>1. a.expired[s] = st.expired[s]
        BY <2>5, <2>9, <3>1
      <4>2. QED
        BY <1>3, <2>10, <3>1, <4>1
    <3>2. CASE s = o
      <4>1. Len(a.expired[s]) = Len(st.expired[s]) - 1 /\ s # side
        BY <1>1, <2>3, <2>5, <2>9, <3>2
      <4>2. /\ Len(st.expired[s]) \in Nat /\ Len(st.expired[s]) <= ExpiredRing
            /\ ExpiredRing \in Nat /\ PairsIn(st) \in Int
        BY <1>3
      <4>3. QED
        BY <2>10, <4>1, <4>2
    <3>3. QED
      BY <1>1, <3>1, <3>2
  <2>13. QED
    BY <2>9, <2>11, <2>12 DEF a
<1>6. QED
  <2> DEFINE nearest == {i \in Fusion!Near(ring, e) : \A j \in Fusion!Near(ring, e) :
                        LET di == Fusion!Distance(ring[i].at, e.at)
                            dj == Fusion!Distance(ring[j].at, e.at)
                        IN di < dj \/ (di = dj /\ i <= j)}
  <2>1. nearest \subseteq DOMAIN ring
    BY Zenon DEF Fusion!Near
  <2>2. CASE nearest = {}
    <3>1. a = [st EXCEPT !.expired[side] = IF Len(own) > ExpiredRing THEN Tail(own) ELSE own]
      BY <2>2, Zenon DEF Fusion!Aligned
    <3>2. QED
      BY <1>4, <3>1, Zenon
  <2>3. CASE nearest # {}
    <3> DEFINE i == CHOOSE i \in nearest : TRUE
               probe == IF side = "wire" THEN ring[i].key[2] ELSE e.key[2]
               wire == IF side = "wire" THEN e.key[2] ELSE ring[i].key[2]
    <3>1. a = [st EXCEPT !.expired[o] = Fusion!UsedUp(@, i),
                         !.histogram[(probe - wire) % Sequences] = @ + 1]
      BY <2>3, Zenon DEF Fusion!Aligned
    <3> HIDE DEF nearest, ring, own, a
    <3>2. i \in DOMAIN ring
      BY <2>1, <2>3
    <3> HIDE DEF i
    <3>3. ring[i] \in Expiries
      <4>1. Len(ring) \in Nat /\ i \in 1 .. Len(ring)
        BY <1>1, <3>2, LenProperties
      <4>2. QED
        BY <1>1, <4>1, ElementOfSeq
    <3>4. probe \in Int /\ wire \in Int
      <4>1. Fusion!Keys = Senders \X (0 .. Sequences - 1) /\ e.key \in Fusion!Keys
            /\ ring[i].key \in Fusion!Keys
        BY <3>3, FusionConstants DEF Expiries
      <4>2. \A key \in Senders \X (0 .. Sequences - 1) : key[2] \in Int
        OBVIOUS
      <4>3. QED
        BY <4>1, <4>2
    <3> HIDE DEF probe, wire
    <3>5. probe - wire \in Int
      BY <3>4
    <3>6. \E j \in DOMAIN ring, d \in Int :
             a = [st EXCEPT !.expired[o] = Fusion!UsedUp(@, j),
                            !.histogram[d % Sequences] = @ + 1]
      BY <3>1, <3>2, <3>5
    <3>7. QED
      BY <1>5, <3>6, Zenon DEF a, ring
  <2>4. QED
    BY <2>2, <2>3, Zenon

\* A late observation is an expiry of its side: the sweep counts it, and pairs
\* it or keeps it, which the sums of both sides survive.
LEMMA ExpirySound ==
    ASSUME NEW st, Sound(st), NEW side \in Fusion!Sides, NEW e \in Expiries, clock \in Nat
    PROVE  LET x == Fusion!Expiry(side, st, e)
           IN /\ Sound(x) /\ x.pending = st.pending
              /\ \A s \in Fusion!Sides : AloneIn(x, s) = AloneIn(st, s) + (IF s = side THEN 1 ELSE 0)
<1> DEFINE c == Fusion!CountExpiry(side, st, e)
           outs == Append(c.outcomes, [at |-> clock, kind |-> side])
           b == [c EXCEPT !.outcomes = outs]
           x == Fusion!Aligned(side, b, e)
<1>1. /\ st \in Trackers
      /\ \A s \in Fusion!Sides : /\ Len(st.expired[s]) <= ExpiredRing
                                 /\ PairsIn(st) + Len(st.expired[s]) <= AloneIn(st, s)
  BY DEF Sound
<1>2. /\ c \in Trackers
      /\ c.pending = st.pending /\ c.expired = st.expired /\ c.histogram = st.histogram
      /\ \A s \in Fusion!Sides : AloneIn(c, s) = AloneIn(st, s) + (IF s = side THEN 1 ELSE 0)
  <2> HIDE DEF c
  <2> QED BY <1>1, ExpiryCounted DEF c
<1>3. x = Fusion!Expiry(side, st, e)
  BY DEF Fusion!Expiry
<1> HIDE DEF c
<1>4. /\ b \in Trackers /\ b.pending = c.pending /\ b.expired = c.expired
      /\ b.histogram = c.histogram /\ b.unmatched = c.unmatched /\ b.uncounted = c.uncounted
  <2>1. c.outcomes \in Seq(Stamps) /\ [at |-> clock, kind |-> side] \in Stamps
    BY <1>2, FusionConstants DEF Trackers, Stamps
  <2>2. outs \in Seq(Stamps)
    BY <2>1, AppendProperties
  <2> HIDE DEF outs
  <2>3. QED
    BY <1>2, <2>2 DEF Trackers
<1>5. /\ PairsIn(b) = PairsIn(st) /\ b.expired = st.expired /\ b.pending = st.pending
      /\ \A s \in Fusion!Sides : AloneIn(b, s) = AloneIn(st, s) + (IF s = side THEN 1 ELSE 0)
  <2> HIDE DEF b
  <2>1. \A s \in Fusion!Sides : AloneIn(b, s) = AloneIn(c, s)
    BY <1>4 DEF AloneIn
  <2>2. QED
    BY <1>2, <1>4, <2>1 DEF PairsIn
<1> HIDE DEF b
<1>6. /\ x \in Trackers /\ x.pending = b.pending
      /\ \A s \in Fusion!Sides :
           /\ AloneIn(x, s) = AloneIn(b, s) /\ Len(x.expired[s]) <= ExpiredRing
           /\ PairsIn(x) + Len(x.expired[s])
                <= PairsIn(b) + Len(b.expired[s]) + (IF s = side THEN 1 ELSE 0)
  <2>1. \A s \in Fusion!Sides : Len(b.expired[s]) <= ExpiredRing
    BY <1>1, <1>5
  <2> HIDE DEF x
  <2>2. QED
    BY <1>4, <2>1, AlignedFacts DEF x
<1> HIDE DEF x
<1>7. ASSUME NEW s \in Fusion!Sides
      PROVE  /\ PairsIn(x) + Len(x.expired[s]) <= AloneIn(x, s)
             /\ AloneIn(x, s) = AloneIn(st, s) + (IF s = side THEN 1 ELSE 0)
  <2> DEFINE one == IF s = side THEN 1 ELSE 0
             px == PairsIn(x)
             lx == Len(x.expired[s])
             pt == PairsIn(st)
             lt == Len(st.expired[s])
             at == AloneIn(st, s)
             ax == AloneIn(x, s)
  <2>1. one \in Int /\ px \in Int /\ lx \in Int /\ pt \in Int /\ lt \in Int /\ at \in Int
    BY <1>1, <1>6, TrackerSums
  <2>2. px + lx <= pt + lt + one /\ pt + lt <= at /\ ax = at + one
    BY <1>1, <1>5, <1>6
  <2> HIDE DEF one, px, lx, pt, lt, at, ax
  <2>3. px + lx <= ax /\ ax = at + one
    BY <2>1, <2>2
  <2>4. QED
    BY <2>3 DEF one, px, lx, at, ax
<1>8. Sound(x)
  BY <1>6, <1>7 DEF Sound
<1>9. QED
  BY <1>3, <1>5, <1>6, <1>7, <1>8

\* What takes a number of steps ends somewhere: f is a run of n steps of g from x.
Steps(T, n) == [T \X (1 .. n) -> T]
Run(T, n, x, g, f) ==
    f \in [0 .. n -> T] /\ f[0] = x /\ \A k \in 1 .. n : f[k] = g[<<f[k - 1], k>>]
LEMMA Iterates ==
    ASSUME NEW T, NEW n \in Nat, NEW x \in T, NEW g \in Steps(T, n)
    PROVE  \E f : Run(T, n, x, g, f)
<1> DEFINE Runs(m, f) == /\ f \in [0 .. m -> T] /\ f[0] = x
                         /\ \A k \in 1 .. m : f[k] = g[<<f[k - 1], k>>]
           N == {m \in Nat : m <= n => \E f : Runs(m, f)}
<1>1. 0 \in N
  <2>1. Runs(0, [k \in 0 .. 0 |-> x])
    OBVIOUS
  <2>2. QED
    BY <2>1
<1>2. ASSUME NEW m \in Nat, m \in N
      PROVE  m + 1 \in N
  <2>1. SUFFICES ASSUME m + 1 <= n
                 PROVE  \E f : Runs(m + 1, f)
    OBVIOUS
  <2>2. PICK f : Runs(m, f)
    BY <1>2, <2>1
  <2> DEFINE y == g[<<f[m], m + 1>>]
             h == [k \in 0 .. m + 1 |-> IF k = m + 1 THEN y ELSE f[k]]
  <2>3. f[m] \in T /\ m + 1 \in 1 .. n
    BY <2>1, <2>2
  <2>4. y \in T
    BY <2>3 DEF Steps
  <2>5. h \in [0 .. m + 1 -> T] /\ h[0] = x /\ h[m + 1] = y
    <3> HIDE DEF y
    <3> QED BY <2>2, <2>4
  <2>6. \A k \in 0 .. m : h[k] = f[k]
    OBVIOUS
  <2>7. ASSUME NEW k \in 1 .. m + 1
        PROVE  h[k] = g[<<h[k - 1], k>>]
    <3>1. CASE k = m + 1
      <4>1. h[k - 1] = f[m] /\ h[k] = y
        BY <2>5, <2>6, <3>1
      <4>2. QED
        BY <3>1, <4>1
    <3>2. CASE k # m + 1
      <4>1. k \in 1 .. m /\ k - 1 \in 0 .. m /\ k \in 0 .. m
        BY <3>2
      <4>2. h[k] = f[k] /\ h[k - 1] = f[k - 1]
        BY <2>6, <4>1
      <4>3. QED
        BY <2>2, <4>1, <4>2
    <3>3. QED
      BY <3>1, <3>2
  <2>8. Runs(m + 1, h)
    <3> HIDE DEF h
    <3> QED BY <2>5, <2>7
  <2>9. QED
    BY <2>8
<1>3. Nat \subseteq N
  <2> HIDE DEF N
  <2> QED BY <1>1, <1>2, SetInduction
<1>4. PICK f : Runs(n, f)
  <2> HIDE DEF Runs
  <2>1. n \in N
    BY <1>3
  <2>2. QED
    BY <2>1
<1>5. QED
  BY <1>4 DEF Run

\* How many lead a queue is a number of its places.
LEMMA LeadingFacts ==
    ASSUME NEW ats \in Seq(Nat), NEW age
    PROVE  Fusion!Leading(ats, age) \in 0 .. Len(ats)
<1> DEFINE K == {k \in 0 .. Len(ats) : \A j \in 1 .. k : clock - ats[j] > age}
<1>1. Len(ats) \in Nat /\ K \in SUBSET (0 .. Len(ats))
  BY LenProperties
<1>2. 0 \in K
  BY <1>1
<1>3. Fusion!Leading(ats, age) = Max(K)
  BY FusionOperators DEF Fusion!Leading
<1> HIDE DEF K
<1>4. Max(K) \in K
  BY <1>1, <1>2, MaxOf
<1>5. QED
  BY <1>1, <1>3, <1>4

\* An entry of a dictionary, the late part of its queue and the rest.
LEMMA OnTimeFacts ==
    ASSUME NEW p \in Entries
    PROVE  LET q == Fusion!OnTime(p)
           IN /\ Len(p.times) \in Nat \ {0} /\ Fusion!Late(p) \in 0 .. Len(p.times)
              /\ q.key = p.key /\ q.times \in Seq(Nat)
              /\ Len(q.times) = Len(p.times) - Fusion!Late(p)
              /\ q.times # << >> => q \in Entries
              /\ q.times = << >> => Len(q.times) = 0
<1> DEFINE q == Fusion!OnTime(p)
           l == Fusion!Late(p)
           n == Len(p.times)
           new == SubSeq(p.times, l + 1, n)
<1>1. p \in [key : Fusion!Keys, times : Seq(Nat)] /\ p.times \in Seq(Nat) /\ p.times # << >>
  BY DEF Entries
<1>2. n \in Nat \ {0} /\ l \in 0 .. n /\ \A j \in 1 .. n : p.times[j] \in Nat
  BY <1>1, LenProperties, EmptySeq, ElementOfSeq, LeadingFacts DEF Fusion!Late
<1>3. q = [p EXCEPT !.times = new]
  BY DEF Fusion!OnTime
<1>4. new \in Seq(Nat) /\ Len(new) = n - l
  <2>1. l + 1 \in Int /\ n \in Int /\ \A j \in l + 1 .. n : p.times[j] \in Nat
    BY <1>2
  <2>2. new \in Seq(Nat) /\ Len(new) = IF l + 1 <= n THEN n - (l + 1) + 1 ELSE 0
    <3> HIDE DEF l, n
    <3> QED BY <2>1, SubSeqProperties
  <2> HIDE DEF l, n, new
  <2>3. QED
    BY <1>2, <2>2
<1> HIDE DEF new, l, q
<1>5. q.key = p.key /\ q.times = new /\ q \in [key : Fusion!Keys, times : Seq(Nat)]
  BY <1>1, <1>3, <1>4
<1>6. q.times = << >> => Len(q.times) = 0
  BY EmptySeq
<1>7. QED
  BY <1>2, <1>4, <1>5, <1>6 DEF Entries, q, l

\* The sweep of an entry: as many expiries as it has late times.
LEMMA LapsedSound ==
    ASSUME NEW st, Sound(st), NEW side \in Fusion!Sides, NEW p \in Entries, clock \in Nat
    PROVE  LET x == Fusion!Lapsed(side, st, p)
           IN /\ Sound(x) /\ x.pending = st.pending
              /\ \A s \in Fusion!Sides :
                   AloneIn(x, s) = AloneIn(st, s) + (IF s = side THEN Fusion!Late(p) ELSE 0)
<1> DEFINE T == {t \in Trackers : Sound(t)}
           n == Fusion!Late(p)
           e(k) == [at |-> p.times[k], key |-> p.key]
           Def(f) == f = [k \in 0 .. n |-> IF k = 0 THEN st ELSE Fusion!Expiry(side, f[k - 1], e(k))]
           f == CHOOSE f : Def(f)
           Fine(k) == /\ Sound(f[k]) /\ f[k].pending = st.pending
                      /\ \A s \in Fusion!Sides :
                           AloneIn(f[k], s) = AloneIn(st, s) + (IF s = side THEN k ELSE 0)
<1>1. n \in Nat /\ st \in T /\ \A k \in 1 .. n : e(k) \in Expiries
  <2>1. n \in Nat /\ Len(p.times) \in Nat /\ n <= Len(p.times)
    BY OnTimeFacts
  <2>2. p.key \in Fusion!Keys /\ p.times \in Seq(Nat)
    BY DEF Entries
  <2> HIDE DEF n
  <2>3. \A k \in 1 .. n : p.times[k] \in Nat
    BY <2>1, <2>2, ElementOfSeq
  <2>4. QED
    BY <2>1, <2>2, <2>3 DEF Sound, Expiries
<1> HIDE DEF n, e
<1>2. \A t, k : Sound(t) /\ k \in 1 .. n =>
        LET x == Fusion!Expiry(side, t, e(k))
        IN /\ Sound(x) /\ x.pending = t.pending
           /\ \A s \in Fusion!Sides : AloneIn(x, s) = AloneIn(t, s) + (IF s = side THEN 1 ELSE 0)
  BY <1>1, ExpirySound
<1>3. Def(f)
  <2> DEFINE g == [z \in T \X (1 .. n) |-> Fusion!Expiry(side, z[1], e(z[2]))]
  <2>1. ASSUME NEW t \in T, NEW k \in 1 .. n
        PROVE  Fusion!Expiry(side, t, e(k)) \in T
    <3>1. Sound(Fusion!Expiry(side, t, e(k)))
      BY <1>2
    <3>2. QED
      BY <3>1 DEF Sound
  <2>2. g \in Steps(T, n)
    <3> HIDE DEF T
    <3> QED BY <2>1 DEF Steps
  <2>3. \A t \in T, k \in 1 .. n : g[<<t, k>>] = Fusion!Expiry(side, t, e(k))
    <3> HIDE DEF T
    <3> QED OBVIOUS
  <2> HIDE DEF T, g
  <2>4. n \in Nat /\ st \in T
    BY <1>1
  <2>5. PICK h : Run(T, n, st, g, h)
    BY <2>2, <2>4, Iterates
  <2>6. \A k \in 1 .. n : h[k] = Fusion!Expiry(side, h[k - 1], e(k))
    <3>1. \A k \in 1 .. n : h[k - 1] \in T
      BY <1>1, <2>5 DEF Run
    <3>2. QED
      BY <2>3, <2>5, <3>1 DEF Run
  <2>7. Def(h)
    <3>1. \A k \in 0 .. n : k # 0 => k \in 1 .. n
      BY <2>4
    <3>2. \A k \in 0 .. n : h[k] = IF k = 0 THEN st ELSE Fusion!Expiry(side, h[k - 1], e(k))
      BY <2>5, <2>6, <3>1 DEF Run
    <3>3. QED
      BY <2>5, <3>2 DEF Run
  <2> HIDE DEF Def
  <2>8. QED
    BY <2>7
<1>4. Fusion!Lapsed(side, st, p) = f[n]
  BY DEF Fusion!Lapsed, n, e
<1> HIDE DEF f
<1>5. f[0] = st /\ \A k \in 1 .. n : f[k] = Fusion!Expiry(side, f[k - 1], e(k))
  BY <1>1, <1>3
<1> HIDE DEF Def, T
<1> DEFINE N == {k \in Nat : k <= n => Fine(k)}
<1>6. 0 \in N
  <2>1. \A s \in Fusion!Sides : AloneIn(st, s) \in Int
    BY TrackerSums DEF Sound
  <2>2. QED
    BY <1>5, <2>1
<1>7. ASSUME NEW k \in Nat, k \in N
      PROVE  k + 1 \in N
  <2>1. SUFFICES ASSUME k + 1 <= n
                 PROVE  Fine(k + 1)
    OBVIOUS
  <2>2. Fine(k) /\ k + 1 \in 1 .. n
    BY <1>1, <1>7, <2>1
  <2>3. f[k + 1] = Fusion!Expiry(side, f[k], e(k + 1))
    BY <1>5, <2>2
  <2>4. /\ Sound(f[k + 1]) /\ f[k + 1].pending = f[k].pending
        /\ \A s \in Fusion!Sides :
             AloneIn(f[k + 1], s) = AloneIn(f[k], s) + (IF s = side THEN 1 ELSE 0)
    BY <1>2, <2>2, <2>3
  <2>5. \A s \in Fusion!Sides : AloneIn(st, s) \in Int
    BY TrackerSums DEF Sound
  <2>6. QED
    BY <2>2, <2>4, <2>5
<1>8. Nat \subseteq N
  <2> HIDE DEF N
  <2> QED BY <1>6, <1>7, SetInduction
<1>9. Fine(n)
  <2> HIDE DEF Fine
  <2>1. n \in N
    BY <1>1, <1>8
  <2>2. QED
    BY <1>1, <2>1
<1>10. QED
  BY <1>4, <1>9 DEF n

\* What waits in a dictionary, entry by entry, and for which frames.
Lengths(dict) == [i \in 1 .. Len(dict) |-> Len(dict[i].times)]
KeysOf(dict) == {dict[i].key : i \in 1 .. Len(dict)}

LEMMA WaitingIs ==
    ASSUME NEW dict \in Seq(Entries)
    PROVE  /\ Len(dict) \in Nat /\ DOMAIN dict = 1 .. Len(dict)
           /\ \A i \in 1 .. Len(dict) : /\ dict[i] \in Entries /\ Lengths(dict)[i] = Len(dict[i].times)
                                        /\ Lengths(dict)[i] \in Int
           /\ Fusion!Waiting(dict) = SumFunctionOnSet(Lengths(dict), 1 .. Len(dict))
           /\ Fusion!Waiting(dict) \in Int
<1>1. /\ Len(dict) \in Nat /\ DOMAIN dict = 1 .. Len(dict)
      /\ \A i \in 1 .. Len(dict) : dict[i] \in Entries
  BY LenProperties, ElementOfSeq
<1>2. \A w \in Entries : Len(w.times) \in Int
  BY LenProperties DEF Entries
<1>3. \A i \in 1 .. Len(dict) : Lengths(dict)[i] = Len(dict[i].times) /\ Lengths(dict)[i] \in Int
  BY <1>1, <1>2 DEF Lengths
<1>4. Fusion!Waiting(dict) = SumFunctionOnSet(Lengths(dict), 1 .. Len(dict))
  <2>1. Fusion!Waiting(dict)
          = Fusion!SumFunctionOnSet([i \in DOMAIN dict |-> Len(dict[i].times)], DOMAIN dict)
    BY DEF Fusion!Waiting
  <2>2. [i \in DOMAIN dict |-> Len(dict[i].times)] = Lengths(dict)
    BY <1>1 DEF Lengths
  <2>3. QED
    BY <1>1, <2>1, <2>2, FusionOperators
<1>5. SumFunctionOnSet(Lengths(dict), 1 .. Len(dict)) \in Int
  <2> DEFINE f == Lengths(dict)
             n == Len(dict)
  <2>1. IsFiniteSet(1 .. n) /\ \A i \in 1 .. n : f[i] \in Int
    BY <1>1, <1>3, FS_Interval
  <2> HIDE DEF f, n
  <2>2. SumFunctionOnSet(f, 1 .. n) \in Int
    BY <2>1, SumSplits
  <2>3. QED
    BY <2>2 DEF f, n
<1>6. QED
  BY <1>1, <1>3, <1>4, <1>5

\* Nothing waits in an empty dictionary.
LEMMA NoneWait == << >> \in Seq(Entries) /\ Fusion!Waiting(<< >>) = 0 /\ KeysOf(<< >>) = {}
<1>1. << >> \in Seq(Entries) /\ Len(<< >>) = 0
  BY EmptySeq
<1>2. Fusion!Waiting(<< >>) = SumFunctionOnSet(Lengths(<< >>), 1 .. 0)
  BY <1>1, WaitingIs
<1>3. SumFunctionOnSet(Lengths(<< >>), 1 .. 0) = 0
  <2> DEFINE e == Lengths(<< >>)
  <2> HIDE DEF e
  <2>1. 0 \in Nat /\ \A j \in 1 .. 0 : e[j] \in Int
    OBVIOUS
  <2>2. SumFunctionOnSet(e, 1 .. 0) = 0
    BY <2>1, SumUpTo
  <2>3. QED
    BY <2>2 DEF e
<1>4. QED
  BY <1>1, <1>2, <1>3 DEF KeysOf

\* One more entry, an entry changed, an entry less.
LEMMA WaitingAppended ==
    ASSUME NEW dict \in Seq(Entries), NEW w \in Entries
    PROVE  LET d == Append(dict, w)
           IN /\ d \in Seq(Entries) /\ Fusion!Waiting(d) = Fusion!Waiting(dict) + Len(w.times)
              /\ KeysOf(d) = KeysOf(dict) \cup {w.key} /\ d # << >>
<1> DEFINE d == Append(dict, w)
           n == Len(dict)
           f == Lengths(dict)
           h == Lengths(d)
<1>1. /\ d \in Seq(Entries) /\ Len(d) = n + 1 /\ n \in Nat /\ d # << >>
      /\ \A i \in 1 .. n : d[i] = dict[i]
      /\ d[n + 1] = w
  BY AppendProperties, LenProperties
<1>2. /\ Fusion!Waiting(d) = SumFunctionOnSet(h, 1 .. n + 1)
      /\ Fusion!Waiting(dict) = SumFunctionOnSet(f, 1 .. n)
      /\ \A i \in 1 .. n + 1 : h[i] \in Int /\ h[i] = Len(d[i].times)
      /\ \A i \in 1 .. n : f[i] \in Int /\ f[i] = Len(dict[i].times)
  <2> HIDE DEF d
  <2> QED BY <1>1, WaitingIs
<1>3. n + 1 \in 1 .. n + 1 /\ n + 1 \in Nat /\ \A i \in 1 .. n : i \in 1 .. n + 1
  BY <1>1
<1>4. h[n + 1] = Len(w.times) /\ \A i \in 1 .. n : f[i] \in Int /\ h[i] = f[i]
  BY <1>1, <1>2, <1>3
<1>5. KeysOf(d) = KeysOf(dict) \cup {w.key}
  <2> HIDE DEF d
  <2>1. KeysOf(d) = {d[i].key : i \in 1 .. n + 1}
    BY <1>1 DEF KeysOf
  <2>2. \A i \in 1 .. n + 1 : i \in 1 .. n \/ i = n + 1
    BY <1>1
  <2>3. QED
    BY <1>1, <1>3, <2>1, <2>2 DEF KeysOf
<1> HIDE DEF d, f, h
<1>6. SumFunctionOnSet(h, 1 .. n) = SumFunctionOnSet(f, 1 .. n)
  <2>1. IsFiniteSet(1 .. n)
    BY <1>1, FS_Interval
  <2> HIDE DEF n
  <2>2. QED
    BY <1>4, <2>1, SumSame
<1> HIDE DEF n
<1>7. \A m \in 1 .. n + 1 : SumFunctionOnSet(h, 1 .. m) = h[m] + SumFunctionOnSet(h, 1 .. m - 1)
  <2>1. n + 1 \in Nat /\ \A i \in 1 .. n + 1 : h[i] \in Int
    BY <1>2, <1>3
  <2> DEFINE k == n + 1
  <2> HIDE DEF k
  <2>2. \A m \in 1 .. k : SumFunctionOnSet(h, 1 .. m) = h[m] + SumFunctionOnSet(h, 1 .. m - 1)
    BY <2>1, SumUpTo DEF k
  <2>3. QED
    BY <2>2 DEF k
<1>8. SumFunctionOnSet(h, 1 .. n + 1) = h[n + 1] + SumFunctionOnSet(h, 1 .. n)
  <2>1. (n + 1) - 1 = n
    BY <1>1
  <2>2. QED
    BY <1>3, <1>7, <2>1
<1>9. Fusion!Waiting(d) = Fusion!Waiting(dict) + Len(w.times)
  <2> DEFINE x == SumFunctionOnSet(f, 1 .. n)
             y == h[n + 1]
  <2>1. x \in Int /\ y \in Int
    <3>1. x \in Int
      BY <1>2, WaitingIs
    <3>2. QED
      BY <1>2, <1>3, <3>1
  <2>2. Fusion!Waiting(d) = y + x /\ Fusion!Waiting(dict) = x /\ y = Len(w.times)
    BY <1>2, <1>4, <1>6, <1>8
  <2> HIDE DEF x, y
  <2>3. QED
    BY <2>1, <2>2
<1>10. QED
  BY <1>1, <1>5, <1>9 DEF d

LEMMA WaitingChanged ==
    ASSUME NEW dict, NEW i, NEW w,
           dict \in Seq(Entries), i \in DOMAIN dict, w \in Entries, w.key = dict[i].key
    PROVE  LET d == [dict EXCEPT ![i] = w]
           IN /\ d \in Seq(Entries) /\ KeysOf(d) = KeysOf(dict) /\ d # << >>
              /\ Fusion!Waiting(d) = Fusion!Waiting(dict) + (Len(w.times) - Len(dict[i].times))
<1> DEFINE d == [dict EXCEPT ![i] = w]
           n == Len(dict)
           f == Lengths(dict)
           h == Lengths(d)
<1>1. n \in Nat /\ DOMAIN dict = 1 .. n /\ i \in 1 .. n
  BY LenProperties
<1>2. /\ d \in Seq(Entries) /\ Len(d) = n /\ d[i] = w /\ d # << >>
      /\ \A j \in (1 .. n) \ {i} : d[j] = dict[j]
  <2>1. d \in Seq(Entries) /\ Len(d) = n
    BY ExceptSeq, <1>1
  <2>2. QED
    BY <1>1, <2>1, EmptySeq
<1>3. /\ Fusion!Waiting(d) = SumFunctionOnSet(h, 1 .. n)
      /\ Fusion!Waiting(dict) = SumFunctionOnSet(f, 1 .. n)
      /\ Fusion!Waiting(dict) \in Int
      /\ \A j \in 1 .. n : h[j] \in Int /\ h[j] = Len(d[j].times)
      /\ \A j \in 1 .. n : f[j] \in Int /\ f[j] = Len(dict[j].times)
  <2> HIDE DEF d
  <2> QED BY <1>2, WaitingIs
<1>4. KeysOf(d) = KeysOf(dict)
  <2>1. \A j \in 1 .. n : d[j].key = dict[j].key
    BY <1>1, <1>2
  <2> HIDE DEF d
  <2>2. QED
    BY <1>2, <2>1 DEF KeysOf
<1>5. h[i] = Len(w.times) /\ f[i] = Len(dict[i].times) /\ \A j \in (1 .. n) \ {i} : h[j] = f[j]
  BY <1>1, <1>2, <1>3
<1> HIDE DEF d, f, h
<1>6. SumFunctionOnSet(h, 1 .. n) = SumFunctionOnSet(f, 1 .. n) + (h[i] - f[i])
  <2> DEFINE S == 1 .. n
  <2>1. IsFiniteSet(S) /\ i \in S
    BY <1>1, FS_Interval
  <2>2. \A j \in S : f[j] \in Int /\ h[j] \in Int
    BY <1>3
  <2>3. \A j \in S \ {i} : h[j] = f[j]
    BY <1>5
  <2> HIDE DEF S
  <2>4. SumFunctionOnSet(h, S) = SumFunctionOnSet(f, S) + (h[i] - f[i])
    BY ONLY <2>1, <2>2, <2>3, SumChanges
  <2>5. QED
    BY <2>4 DEF S
<1>7. QED
  BY <1>2, <1>3, <1>4, <1>5, <1>6 DEF d

LEMMA WaitingRemoved ==
    ASSUME NEW dict \in Seq(Entries), NEW i \in DOMAIN dict
    PROVE  LET d == Fusion!RemoveAt(dict, i)
           IN /\ d \in Seq(Entries) /\ KeysOf(d) \subseteq KeysOf(dict)
              /\ Fusion!Waiting(d) = Fusion!Waiting(dict) - Len(dict[i].times)
<1> DEFINE d == SubSeq(dict, 1, i - 1) \o SubSeq(dict, i + 1, Len(dict))
           n == Len(dict)
           f == Lengths(dict)
           h == Lengths(d)
<1>1. n \in Nat /\ DOMAIN dict = 1 .. n /\ i \in 1 .. n /\ Fusion!RemoveAt(dict, i) = d
  BY LenProperties, FusionOperators
<1>2. /\ d \in Seq(Entries) /\ Len(d) = n - 1
      /\ \A j \in 1 .. n - 1 : d[j] = IF j < i THEN dict[j] ELSE dict[j + 1]
  <2>1. i \in 1 .. Len(dict)
    BY <1>1
  <2>2. QED
    BY <2>1, TakenOut
<1> HIDE DEF d
<1>3. /\ Fusion!Waiting(d) = SumFunctionOnSet(h, 1 .. n - 1)
      /\ Fusion!Waiting(dict) = SumFunctionOnSet(f, 1 .. n)
      /\ \A j \in 1 .. n - 1 : h[j] = Len(d[j].times)
      /\ \A j \in 1 .. n : f[j] \in Int /\ f[j] = Len(dict[j].times)
  BY <1>2, WaitingIs
<1>4. \A j \in 1 .. n - 1 : j \in 1 .. n /\ j + 1 \in 1 .. n
  BY <1>1
<1>5. KeysOf(d) \subseteq KeysOf(dict)
  <2>1. KeysOf(d) = {d[j].key : j \in 1 .. n - 1}
    BY <1>2 DEF KeysOf
  <2>2. \A j \in 1 .. n - 1 : \E k \in 1 .. n : d[j] = dict[k]
    BY <1>2, <1>4
  <2>3. QED
    BY <2>1, <2>2 DEF KeysOf
<1>6. \A j \in 1 .. n - 1 : h[j] = IF j < i THEN f[j] ELSE f[j + 1]
  BY <1>2, <1>3, <1>4
<1>7. f[i] = Len(dict[i].times) /\ \A j \in 1 .. n : f[j] \in Int
  BY <1>1, <1>3
<1> HIDE DEF f, h, n
<1>8. SumFunctionOnSet(h, 1 .. n - 1) = SumFunctionOnSet(f, 1 .. n) - f[i]
  BY <1>1, <1>6, <1>7, SumShifts
<1>9. QED
  BY <1>1, <1>2, <1>3, <1>5, <1>7, <1>8

\* The oldest of an entry goes, matched or over the bound.
LEMMA PopFirstFacts ==
    ASSUME NEW dict \in Seq(Entries), NEW i \in DOMAIN dict
    PROVE  LET d == Fusion!PopFirst(dict, i)
           IN /\ d \in Seq(Entries) /\ KeysOf(d) \subseteq KeysOf(dict)
              /\ Fusion!Waiting(d) = Fusion!Waiting(dict) - 1
<1> DEFINE d == Fusion!PopFirst(dict, i)
           p == dict[i]
<1>1. p \in Entries /\ Fusion!Waiting(dict) \in Int
  BY WaitingIs
<1>2. /\ p.times \in Seq(Nat) /\ p.times # << >> /\ Len(p.times) \in Nat /\ p.key \in Fusion!Keys
      /\ p \in [key : Fusion!Keys, times : Seq(Nat)]
  BY <1>1, LenProperties DEF Entries
<1>3. CASE Len(p.times) = 1
  <2>1. d = Fusion!RemoveAt(dict, i)
    BY <1>3 DEF Fusion!PopFirst
  <2> HIDE DEF d
  <2>2. QED
    BY <1>3, <2>1, WaitingRemoved DEF d
<1>4. CASE Len(p.times) # 1
  <2> DEFINE w == [p EXCEPT !.times = Tail(@)]
  <2>1. d = [dict EXCEPT ![i] = w]
    BY <1>4 DEF Fusion!PopFirst
  <2>2. Tail(p.times) \in Seq(Nat) /\ Len(Tail(p.times)) = Len(p.times) - 1
    BY <1>2, HeadTailProperties
  <2>3. Tail(p.times) # << >>
    <3>1. Len(p.times) # 0
      BY <1>2, EmptySeq
    <3>2. Len(Tail(p.times)) # 0
      BY <1>2, <1>4, <2>2
    <3>3. QED
      BY <3>2, EmptySeq
  <2> HIDE DEF d, p
  <2>4. w \in Entries /\ w.key = p.key /\ w.times = Tail(p.times)
    BY <1>2, <2>2, <2>3 DEF Entries
  <2> HIDE DEF w
  <2>5. /\ d \in Seq(Entries) /\ KeysOf(d) = KeysOf(dict)
        /\ Fusion!Waiting(d) = Fusion!Waiting(dict) + (Len(w.times) - Len(p.times))
    BY <2>1, <2>4, WaitingChanged DEF p
  <2>6. Len(w.times) = Len(p.times) - 1
    BY <2>2, <2>4
  <2>7. Fusion!Waiting(d) = Fusion!Waiting(dict) - 1
    BY <1>1, <1>2, <2>5, <2>6
  <2>8. QED
    BY <2>5, <2>7 DEF d
<1>5. QED
  BY <1>3, <1>4

\* A new observation waits behind those of its frame.
LEMMA PushFacts ==
    ASSUME NEW dict \in Seq(Entries), NEW key \in Fusion!Keys, clock \in Nat
    PROVE  LET d == Fusion!Push(dict, key)
           IN /\ d \in Seq(Entries) /\ KeysOf(d) \subseteq KeysOf(dict) \cup {key} /\ d # << >>
              /\ Fusion!Waiting(d) = Fusion!Waiting(dict) + 1
<1> DEFINE d == Fusion!Push(dict, key)
<1>1. Fusion!Waiting(dict) \in Int
  BY WaitingIs
<1>2. CASE Fusion!Has(dict, key) = {}
  <2> DEFINE w == [key |-> key, times |-> <<clock>>]
  <2>1. d = Append(dict, w)
    BY <1>2 DEF Fusion!Push
  <2>2. <<clock>> \in Seq(Nat) /\ <<clock>> # << >> /\ Len(<<clock>>) = 1
    OBVIOUS
  <2>3. w \in Entries /\ w.key = key /\ Len(w.times) = 1
    BY <2>2 DEF Entries
  <2> HIDE DEF w, d
  <2>4. QED
    BY <2>1, <2>3, WaitingAppended DEF d
<1>3. CASE Fusion!Has(dict, key) # {}
  <2> DEFINE i == CHOOSE i \in Fusion!Has(dict, key) : TRUE
             p == dict[i]
             w == [p EXCEPT !.times = Append(@, clock)]
  <2>1. d = [dict EXCEPT ![i] = w]
    BY <1>3 DEF Fusion!Push
  <2>2. i \in DOMAIN dict
    BY <1>3 DEF Fusion!Has
  <2> HIDE DEF i
  <2>3. p \in Entries
    BY <2>2, WaitingIs
  <2>4. p.times \in Seq(Nat) /\ p \in [key : Fusion!Keys, times : Seq(Nat)] /\ Len(p.times) \in Nat
    BY <2>3, LenProperties DEF Entries
  <2>5. /\ Append(p.times, clock) \in Seq(Nat) /\ Append(p.times, clock) # << >>
        /\ Len(Append(p.times, clock)) = Len(p.times) + 1
    <3> DEFINE ts == p.times
    <3>1. ts \in Seq(Nat)
      BY <2>4
    <3> HIDE DEF ts
    <3>2. /\ Append(ts, clock) \in Seq(Nat) /\ Append(ts, clock) # << >>
          /\ Len(Append(ts, clock)) = Len(ts) + 1
      BY <3>1, AppendProperties
    <3>3. QED
      BY <3>2 DEF ts
  <2> HIDE DEF p, d
  <2>6. w \in Entries /\ w.key = p.key /\ w.times = Append(p.times, clock)
    BY <2>4, <2>5 DEF Entries
  <2> HIDE DEF w
  <2>7. /\ d \in Seq(Entries) /\ KeysOf(d) = KeysOf(dict) /\ d # << >>
        /\ Fusion!Waiting(d) = Fusion!Waiting(dict) + (Len(w.times) - Len(p.times))
    BY <2>1, <2>2, <2>6, WaitingChanged DEF p
  <2>8. Len(w.times) = Len(p.times) + 1
    BY <2>5, <2>6
  <2>9. Fusion!Waiting(d) = Fusion!Waiting(dict) + 1
    BY <1>1, <2>4, <2>7, <2>8
  <2>10. QED
    BY <2>7, <2>9 DEF d
<1>4. QED
  BY <1>2, <1>3

\* An entry of a dictionary that holds some is its oldest.
LEMMA OldestFacts ==
    ASSUME NEW dict \in Seq(Entries), dict # << >>
    PROVE  Fusion!Oldest(dict) \in DOMAIN dict
<1> DEFINE D == DOMAIN dict
           heads == {dict[i].times[1] : i \in D}
           first == Min(heads)
           olds == {i \in D : dict[i].times[1] = first}
<1>1. D \in SUBSET Nat /\ D # {} /\ \A i \in D : dict[i] \in Entries
  BY WaitingIs, EmptySeq
<1>2. heads \in SUBSET Nat /\ heads # {}
  <2>1. \A w \in Entries : w.times[1] \in Nat
    <3>1. \A w \in Entries : w.times \in Seq(Nat) /\ Len(w.times) \in Nat /\ Len(w.times) # 0
      BY LenProperties, EmptySeq DEF Entries
    <3>2. \A w \in Entries : 1 \in 1 .. Len(w.times)
      BY <3>1
    <3>3. QED
      BY <3>1, <3>2, ElementOfSeq
  <2> HIDE DEF D
  <2>2. QED
    BY <1>1, <2>1
<1>3. first \in heads
  <2> HIDE DEF heads
  <2> QED BY <1>2, MinOf
<1>4. olds \in SUBSET Nat /\ olds # {}
  <2> HIDE DEF first
  <2> QED BY <1>1, <1>3
<1>5. Min(olds) \in olds
  <2> HIDE DEF olds
  <2> QED BY <1>4, MinOf
<1>6. Fusion!Oldest(dict) = Min(olds)
  BY FusionOperators DEF Fusion!Oldest
<1>7. QED
  BY <1>5, <1>6

\* No more wait than may, one dropped for one too many.
LEMMA EnqueuedFacts ==
    ASSUME NEW dict \in Seq(Entries), NEW key \in Fusion!Keys, clock \in Nat,
           Fusion!Waiting(dict) <= MaxPending
    PROVE  LET d == Fusion!Enqueued(dict, key)
           IN /\ d \in Seq(Entries) /\ KeysOf(d) \subseteq KeysOf(dict) \cup {key}
              /\ Fusion!Waiting(d) <= MaxPending
              /\ Fusion!Waiting(d)
                   = Fusion!Waiting(dict) + 1 - (IF Fusion!Overflows(dict, key) THEN 1 ELSE 0)
<1> DEFINE d == Fusion!Enqueued(dict, key)
           mine == Fusion!Push(dict, key)
<1>1. Fusion!Waiting(dict) \in Int /\ MaxPending \in Nat
  BY WaitingIs, FusionConstants
<1>2. /\ mine \in Seq(Entries) /\ KeysOf(mine) \subseteq KeysOf(dict) \cup {key} /\ mine # << >>
      /\ Fusion!Waiting(mine) = Fusion!Waiting(dict) + 1
  <2> HIDE DEF mine
  <2> QED BY PushFacts DEF mine
<1>3. Fusion!Overflows(dict, key) <=> Fusion!Waiting(mine) > MaxPending
  BY DEF Fusion!Overflows
<1>4. CASE Fusion!Waiting(mine) > MaxPending
  <2>1. d = Fusion!PopFirst(mine, Fusion!Oldest(mine))
    BY <1>4 DEF Fusion!Enqueued
  <2> HIDE DEF mine, d
  <2>2. Fusion!Oldest(mine) \in DOMAIN mine
    BY <1>2, OldestFacts
  <2>3. /\ d \in Seq(Entries) /\ KeysOf(d) \subseteq KeysOf(mine)
        /\ Fusion!Waiting(d) = Fusion!Waiting(mine) - 1
    BY <1>2, <2>1, <2>2, PopFirstFacts
  <2>4. QED
    BY <1>1, <1>2, <1>3, <1>4, <2>3 DEF d
<1>5. CASE ~(Fusion!Waiting(mine) > MaxPending)
  <2>1. d = mine
    BY <1>5 DEF Fusion!Enqueued
  <2> HIDE DEF mine, d
  <2>2. QED
    BY <1>1, <1>2, <1>3, <1>5, <2>1 DEF d
<1>6. QED
  BY <1>4, <1>5

\* The sweep of one entry: the late times expire, the rest waits on.
Kept(side, st, p) ==
    LET done == Fusion!Lapsed(side, st, p)
    IN IF Fusion!OnTime(p).times = << >> THEN done
       ELSE [done EXCEPT !.pending[side] = Append(@, Fusion!OnTime(p))]

LEMMA KeptFacts ==
    ASSUME NEW st, Sound(st), NEW side \in Fusion!Sides, NEW p \in Entries, clock \in Nat
    PROVE  LET x == Kept(side, st, p)
               o == Fusion!Other(side)
           IN /\ Sound(x) /\ x.pending[o] = st.pending[o]
              /\ AloneIn(x, o) = AloneIn(st, o) /\ AloneIn(x, side) >= AloneIn(st, side)
              /\ AloneIn(x, side) + Fusion!Waiting(x.pending[side])
                   = AloneIn(st, side) + Fusion!Waiting(st.pending[side]) + Len(p.times)
              /\ KeysOf(x.pending[side]) \subseteq KeysOf(st.pending[side]) \cup {p.key}
<1> DEFINE done == Fusion!Lapsed(side, st, p)
           q == Fusion!OnTime(p)
           l == Fusion!Late(p)
           o == Fusion!Other(side)
           x == Kept(side, st, p)
<1>1. o \in Fusion!Sides /\ o # side
  BY FusionConstants
<1>2. /\ st \in Trackers /\ st.pending \in [Fusion!Sides -> Seq(Entries)]
      /\ st.pending[side] \in Seq(Entries) /\ Fusion!Waiting(st.pending[side]) \in Int
      /\ AloneIn(st, side) \in Int
  <2>1. st \in Trackers /\ st.pending \in [Fusion!Sides -> Seq(Entries)]
    BY DEF Sound, Trackers
  <2>2. st.pending[side] \in Seq(Entries)
    BY <2>1
  <2>3. QED
    BY <2>1, <2>2, WaitingIs, TrackerSums
<1>3. /\ Sound(done) /\ done.pending = st.pending
      /\ AloneIn(done, side) = AloneIn(st, side) + l /\ AloneIn(done, o) = AloneIn(st, o)
  <2>1. /\ Sound(done) /\ done.pending = st.pending
        /\ \A s \in Fusion!Sides : AloneIn(done, s) = AloneIn(st, s) + (IF s = side THEN l ELSE 0)
    <3> HIDE DEF done, l
    <3> QED BY LapsedSound DEF done, l
  <2>2. AloneIn(done, side) = AloneIn(st, side) + l
    <3> HIDE DEF done, l, o
    <3> QED BY <2>1
  <2>3. AloneIn(st, o) \in Int /\ AloneIn(done, o) = AloneIn(st, o) + 0
    <3> HIDE DEF done, l, o
    <3> QED BY <1>1, <1>2, <2>1, TrackerSums
  <2>4. QED
    BY <2>1, <2>2, <2>3
<1>4. /\ Len(p.times) \in Nat \ {0} /\ l \in 0 .. Len(p.times)
      /\ q.key = p.key /\ Len(q.times) = Len(p.times) - l
      /\ q.times # << >> => q \in Entries
      /\ q.times = << >> => Len(q.times) = 0
  BY OnTimeFacts
<1> HIDE DEF done, q, l, x, o
<1>5. CASE q.times = << >>
  <2>1. x = done
    BY <1>5 DEF x, Kept, done, q
  <2>2. Len(p.times) = l
    BY <1>4, <1>5
  <2>3. /\ AloneIn(x, side) >= AloneIn(st, side)
        /\ AloneIn(x, side) + Fusion!Waiting(x.pending[side])
             = AloneIn(st, side) + Fusion!Waiting(st.pending[side]) + Len(p.times)
    BY <1>2, <1>3, <1>4, <2>1, <2>2
  <2>4. QED
    BY <1>3, <2>1, <2>3 DEF x, o
<1>6. CASE q.times # << >>
  <2> DEFINE new == Append(st.pending[side], q)
             all == [st.pending EXCEPT ![side] = new]
  <2>1. /\ new \in Seq(Entries) /\ KeysOf(new) = KeysOf(st.pending[side]) \cup {p.key}
        /\ Fusion!Waiting(new) = Fusion!Waiting(st.pending[side]) + Len(q.times)
    <3> DEFINE dict == st.pending[side]
    <3>1. dict \in Seq(Entries) /\ q \in Entries
      BY <1>2, <1>4, <1>6
    <3> HIDE DEF dict
    <3>2. LET d == Append(dict, q)
          IN /\ d \in Seq(Entries) /\ Fusion!Waiting(d) = Fusion!Waiting(dict) + Len(q.times)
             /\ KeysOf(d) = KeysOf(dict) \cup {q.key} /\ d # << >>
      BY <3>1, WaitingAppended
    <3>3. QED
      BY <1>4, <3>2 DEF dict
  <2> HIDE DEF new
  <2>2. all \in [Fusion!Sides -> Seq(Entries)] /\ all[side] = new /\ all[o] = st.pending[o]
    BY <1>1, <1>2, <2>1
  <2>3. x = [done EXCEPT !.pending = all]
    BY <1>3, <1>6 DEF x, Kept, done, q, new
  <2> HIDE DEF all
  <2>4. done \in Trackers
    BY <1>3 DEF Sound
  <2>5. /\ x \in Trackers /\ x.pending = all /\ x.expired = done.expired
        /\ x.histogram = done.histogram /\ x.unmatched = done.unmatched
        /\ x.uncounted = done.uncounted
    BY <2>2, <2>3, <2>4 DEF Trackers
  <2>6. PairsIn(x) = PairsIn(done) /\ \A s \in Fusion!Sides : AloneIn(x, s) = AloneIn(done, s)
    BY <2>5 DEF PairsIn, AloneIn
  <2>7. Sound(x)
    BY <1>3, <2>5, <2>6 DEF Sound
  <2>8. AloneIn(x, side) = AloneIn(st, side) + l /\ AloneIn(x, o) = AloneIn(st, o)
    BY <1>1, <1>3, <2>6
  <2>9. /\ AloneIn(x, side) >= AloneIn(st, side)
        /\ AloneIn(x, side) + Fusion!Waiting(x.pending[side])
             = AloneIn(st, side) + Fusion!Waiting(st.pending[side]) + Len(p.times)
    <3>1. Fusion!Waiting(x.pending[side])
            = Fusion!Waiting(st.pending[side]) + (Len(p.times) - l)
      BY <1>4, <2>1, <2>2, <2>5
    <3>2. QED
      BY <1>2, <1>4, <2>8, <3>1
  <2>10. QED
    BY <2>1, <2>2, <2>5, <2>7, <2>8, <2>9 DEF x, o
<1>7. QED
  BY <1>5, <1>6

\* The sweep of a side: what no longer waits has expired.
LEMMA SweptSideFacts ==
    ASSUME NEW st, Sound(st), NEW side \in Fusion!Sides, clock \in Nat,
           pending[side] \in Seq(Entries)
    PROVE  LET x == Fusion!SweptSide(side, st)
               o == Fusion!Other(side)
           IN /\ Sound(x) /\ x.pending[o] = st.pending[o]
              /\ AloneIn(x, o) = AloneIn(st, o) /\ AloneIn(x, side) >= AloneIn(st, side)
              /\ AloneIn(x, side) + Fusion!Waiting(x.pending[side])
                   = AloneIn(st, side) + Fusion!Waiting(pending[side])
              /\ KeysOf(x.pending[side]) \subseteq KeysOf(pending[side])
<1> DEFINE T == {t \in Trackers : Sound(t)}
           dict == pending[side]
           n == Len(dict)
           o == Fusion!Other(side)
           start == [st EXCEPT !.pending[side] = << >>]
           sums == Lengths(dict)
           Def(f) == f = [i \in 0 .. n |-> IF i = 0 THEN start ELSE Kept(side, f[i - 1], dict[i])]
           f == CHOOSE f : Def(f)
           Fine(i) ==
               /\ Sound(f[i]) /\ f[i].pending[o] = st.pending[o]
               /\ AloneIn(f[i], o) = AloneIn(st, o) /\ AloneIn(f[i], side) >= AloneIn(st, side)
               /\ AloneIn(f[i], side) + Fusion!Waiting(f[i].pending[side])
                    = AloneIn(st, side) + SumFunctionOnSet(sums, 1 .. i)
               /\ KeysOf(f[i].pending[side]) \subseteq KeysOf(dict)
<1>1. /\ n \in Nat /\ \A i \in 1 .. n : dict[i] \in Entries
      /\ \A i \in 1 .. n : sums[i] = Len(dict[i].times) /\ sums[i] \in Int
      /\ Fusion!Waiting(dict) = SumFunctionOnSet(sums, 1 .. n)
      /\ \A i \in 1 .. n : dict[i].key \in KeysOf(dict)
  <2>1. \A i \in 1 .. n : dict[i].key \in KeysOf(dict)
    BY DEF KeysOf
  <2>2. QED
    BY <2>1, WaitingIs
<1>2. Fusion!SweptSide(side, st) = f[n]
  BY DEF Fusion!SweptSide, Kept
<1>3. /\ SumFunctionOnSet(sums, 1 .. 0) = 0
      /\ \A m \in 0 .. n : SumFunctionOnSet(sums, 1 .. m) \in Int
      /\ \A m \in 1 .. n : SumFunctionOnSet(sums, 1 .. m) = sums[m] + SumFunctionOnSet(sums, 1 .. m - 1)
  <2> HIDE DEF sums, n
  <2> QED BY <1>1, SumUpTo
<1> HIDE DEF sums, n
<1>4. o \in Fusion!Sides /\ o # side
  BY FusionConstants
<1>5. /\ st \in Trackers /\ AloneIn(st, side) \in Int /\ AloneIn(st, o) \in Int
  <2>1. st \in Trackers
    BY DEF Sound
  <2> HIDE DEF o
  <2>2. QED
    BY <1>4, <2>1, TrackerSums
<1>6. /\ Sound(start) /\ start \in T /\ start.pending[o] = st.pending[o]
      /\ start.pending[side] = << >>
      /\ \A s \in Fusion!Sides : AloneIn(start, s) = AloneIn(st, s)
  <2> DEFINE all == [st.pending EXCEPT ![side] = << >>]
  <2>1. st.pending \in [Fusion!Sides -> Seq(Entries)]
    BY <1>5 DEF Trackers
  <2>2. << >> \in Seq(Entries)
    BY EmptySeq
  <2>3. all \in [Fusion!Sides -> Seq(Entries)] /\ all[side] = << >> /\ all[o] = st.pending[o]
    BY <1>4, <2>1, <2>2
  <2>4. start = [st EXCEPT !.pending = all]
    OBVIOUS
  <2> HIDE DEF all, start, T
  <2>5. /\ start \in Trackers /\ start.pending = all /\ start.expired = st.expired
        /\ start.histogram = st.histogram /\ start.unmatched = st.unmatched
        /\ start.uncounted = st.uncounted
    BY <1>5, <2>3, <2>4 DEF Trackers
  <2>6. PairsIn(start) = PairsIn(st) /\ \A s \in Fusion!Sides : AloneIn(start, s) = AloneIn(st, s)
    BY <2>5 DEF PairsIn, AloneIn
  <2>7. Sound(start)
    BY <2>5, <2>6 DEF Sound
  <2>8. QED
    BY <2>3, <2>5, <2>6, <2>7 DEF T
<1> HIDE DEF start, o
<1>7. Def(f)
  <2> DEFINE g == [z \in T \X (1 .. n) |-> Kept(side, z[1], dict[z[2]])]
  <2>1. ASSUME NEW t \in T, NEW i \in 1 .. n
        PROVE  Kept(side, t, dict[i]) \in T
    <3>1. Sound(t) /\ dict[i] \in Entries
      BY <1>1
    <3>2. Sound(Kept(side, t, dict[i]))
      <4> HIDE DEF dict
      <4> QED BY <3>1, KeptFacts
    <3>3. QED
      BY <3>2 DEF Sound
  <2> HIDE DEF T, dict
  <2>2. g \in Steps(T, n)
    BY <2>1 DEF Steps
  <2>3. \A t \in T, i \in 1 .. n : g[<<t, i>>] = Kept(side, t, dict[i])
    OBVIOUS
  <2> HIDE DEF g
  <2>4. n \in Nat /\ start \in T
    BY <1>1, <1>6
  <2>5. PICK h : Run(T, n, start, g, h)
    BY <2>2, <2>4, Iterates
  <2>6. \A i \in 1 .. n : h[i] = Kept(side, h[i - 1], dict[i])
    <3>1. \A i \in 1 .. n : h[i - 1] \in T
      BY <1>1, <2>5 DEF Run
    <3>2. QED
      BY <2>3, <2>5, <3>1 DEF Run
  <2>7. Def(h)
    <3>1. \A i \in 0 .. n : i # 0 => i \in 1 .. n
      BY <2>4
    <3>2. \A i \in 0 .. n : h[i] = IF i = 0 THEN start ELSE Kept(side, h[i - 1], dict[i])
      BY <2>5, <2>6, <3>1 DEF Run
    <3>3. QED
      BY <2>5, <3>2 DEF Run
  <2> HIDE DEF Def
  <2>8. QED
    BY <2>7
<1> HIDE DEF f, T, dict
<1>8. f[0] = start /\ \A i \in 1 .. n : f[i] = Kept(side, f[i - 1], dict[i])
  BY <1>1, <1>7
<1> HIDE DEF Def
<1> DEFINE N == {i \in Nat : i <= n => Fine(i)}
<1>9. 0 \in N
  <2>1. Fusion!Waiting(<< >>) = 0 /\ KeysOf(<< >>) = {}
    BY NoneWait
  <2>2. AloneIn(start, side) = AloneIn(st, side) /\ AloneIn(start, o) = AloneIn(st, o)
    BY <1>4, <1>6
  <2>3. Fine(0)
    BY <1>3, <1>5, <1>6, <1>8, <2>1, <2>2
  <2>4. QED
    BY <2>3
<1>10. ASSUME NEW i \in Nat, i \in N
       PROVE  i + 1 \in N
  <2>1. SUFFICES ASSUME i + 1 <= n
                 PROVE  Fine(i + 1)
    OBVIOUS
  <2> DEFINE y == f[i]
             x == f[i + 1]
             p == dict[i + 1]
  <2>2. Fine(i) /\ i + 1 \in 1 .. n /\ (i + 1) - 1 = i
    BY <1>1, <1>10, <2>1
  <2>3. x = Kept(side, y, p) /\ p \in Entries /\ p.key \in KeysOf(dict)
    BY <1>1, <1>8, <2>2
  <2>4. /\ Sound(x) /\ x.pending[o] = y.pending[o]
        /\ AloneIn(x, o) = AloneIn(y, o) /\ AloneIn(x, side) >= AloneIn(y, side)
        /\ AloneIn(x, side) + Fusion!Waiting(x.pending[side])
             = AloneIn(y, side) + Fusion!Waiting(y.pending[side]) + Len(p.times)
        /\ KeysOf(x.pending[side]) \subseteq KeysOf(y.pending[side]) \cup {p.key}
    <3>1. Sound(y)
      BY <2>2
    <3> HIDE DEF x, y, p
    <3>2. QED
      BY <2>3, <3>1, KeptFacts DEF o
  <2>5. /\ AloneIn(y, side) \in Int /\ AloneIn(x, side) \in Int
        /\ Fusion!Waiting(x.pending[side]) \in Int /\ Fusion!Waiting(y.pending[side]) \in Int
    <3>1. x \in Trackers /\ y \in Trackers
      BY <2>2, <2>4 DEF Sound
    <3> HIDE DEF x, y
    <3>2. x.pending[side] \in Seq(Entries) /\ y.pending[side] \in Seq(Entries)
      BY <3>1 DEF Trackers
    <3>3. QED
      BY <3>1, <3>2, WaitingIs, TrackerSums
  <2>6. /\ SumFunctionOnSet(sums, 1 .. i + 1) = Len(p.times) + SumFunctionOnSet(sums, 1 .. i)
        /\ SumFunctionOnSet(sums, 1 .. i) \in Int /\ Len(p.times) \in Int
    <3>1. i \in 0 .. n /\ sums[i + 1] = Len(p.times) /\ sums[i + 1] \in Int
      BY <1>1, <2>2
    <3>2. QED
      BY <1>3, <2>2, <3>1
  <2>7. /\ AloneIn(x, side) >= AloneIn(st, side)
        /\ AloneIn(x, side) + Fusion!Waiting(x.pending[side])
             = AloneIn(st, side) + SumFunctionOnSet(sums, 1 .. i + 1)
    <3>1. /\ AloneIn(y, side) >= AloneIn(st, side)
          /\ AloneIn(y, side) + Fusion!Waiting(y.pending[side])
               = AloneIn(st, side) + SumFunctionOnSet(sums, 1 .. i)
      BY <2>2
    <3> HIDE DEF x, y, p
    <3>2. QED
      BY <1>5, <2>4, <2>5, <2>6, <3>1
  <2>8. /\ x.pending[o] = st.pending[o] /\ AloneIn(x, o) = AloneIn(st, o)
        /\ KeysOf(x.pending[side]) \subseteq KeysOf(dict)
    BY <2>2, <2>3, <2>4
  <2>9. QED
    BY <2>4, <2>7, <2>8
<1>11. Nat \subseteq N
  <2> HIDE DEF N
  <2> QED BY <1>9, <1>10, SetInduction
<1>12. Fine(n)
  <2> HIDE DEF Fine
  <2>1. n \in N
    BY <1>1, <1>11
  <2>2. QED
    BY <1>1, <2>1
<1>13. QED
  BY <1>1, <1>2, <1>12 DEF dict, o

\* What the tracker is made of.
LEMMA TrackerIs ==
    /\ Fusion!Tracker.pending = pending /\ Fusion!Tracker.outcomes = outcomes
    /\ Fusion!Tracker.unmatched = unmatched /\ Fusion!Tracker.expired = expired
    /\ Fusion!Tracker.histogram = histogram /\ Fusion!Tracker.uncounted = uncounted
BY DEF Fusion!Tracker

\* Pending entries and outcomes do not enter the sums.
LEMMA SameSums ==
    ASSUME NEW x, Sound(x), NEW y,
           NEW p \in [Fusion!Sides -> Seq(Entries)], NEW q \in Seq(Stamps),
           y = [pending |-> p, outcomes |-> q, unmatched |-> x.unmatched, expired |-> x.expired,
                histogram |-> x.histogram, uncounted |-> x.uncounted]
    PROVE  Sound(y) /\ y.pending = p /\ \A s \in Fusion!Sides : AloneIn(y, s) = AloneIn(x, s)
<1>1. x \in Trackers
  BY DEF Sound
<1>2. /\ y \in Trackers /\ y.pending = p /\ y.expired = x.expired /\ y.histogram = x.histogram
      /\ y.unmatched = x.unmatched /\ y.uncounted = x.uncounted
  BY <1>1 DEF Trackers
<1>3. PairsIn(y) = PairsIn(x) /\ \A s \in Fusion!Sides : AloneIn(y, s) = AloneIn(x, s)
  BY <1>2 DEF PairsIn, AloneIn
<1>4. Sound(y)
  BY <1>2, <1>3 DEF Sound
<1>5. QED
  BY <1>2, <1>3, <1>4

\* Every observation of a side is in one place, no frame waits on both sides,
\* and the rest of a tracker is sound.
FusionInv ==
    /\ clock \in 0 .. FusionTime /\ drops \in Nat
    /\ matched \in [Senders -> Nat] /\ seen \in Counters /\ dropped \in Counters
    /\ Sound(Fusion!Tracker)
    /\ \A s \in Fusion!Sides :
         /\ Fusion!Waiting(pending[s]) <= MaxPending
         /\ seen[s] = SumFunctionOnSet(matched, Senders) + AloneIn(Fusion!Tracker, s)
                        + dropped[s] + Fusion!Waiting(pending[s])
    /\ KeysOf(pending["wire"]) \cap KeysOf(pending["probe"]) = {}

\* Outcomes beyond the window leave.
LEMMA TrimmedFacts ==
    ASSUME NEW q \in Seq(Stamps)
    PROVE  Fusion!Trimmed(q) \in Seq(Stamps)
<1> DEFINE ats == [j \in DOMAIN q |-> q[j].at]
           l == Fusion!Leading(ats, MatchWindow)
           n == Len(q)
<1>1. n \in Nat /\ DOMAIN q = 1 .. n /\ \A j \in 1 .. n : q[j] \in Stamps
  BY LenProperties, ElementOfSeq
<1>2. ats \in Seq(Nat) /\ Len(ats) = n
  <2>1. \A j \in 1 .. n : q[j].at \in Nat
    BY <1>1 DEF Stamps
  <2>2. ats \in [1 .. n -> Nat]
    BY <1>1, <2>1
  <2> HIDE DEF ats, n
  <2>3. ats \in Seq(Nat)
    BY <1>1, <2>2, SeqDef
  <2>4. QED
    BY <1>1, <2>2, <2>3, LenProperties
<1>3. l \in 0 .. n
  <2> HIDE DEF ats
  <2> QED BY <1>2, LeadingFacts
<1>4. Fusion!Trimmed(q) = SubSeq(q, l + 1, n)
  BY DEF Fusion!Trimmed
<1> HIDE DEF l, ats, n
<1>5. l + 1 \in Int /\ n \in Int /\ \A j \in l + 1 .. n : q[j] \in Stamps
  BY <1>1, <1>3
<1>6. SubSeq(q, l + 1, n) \in Seq(Stamps)
  BY <1>5, SubSeqProperties
<1>7. QED
  BY <1>4, <1>6

\* A sweep moves what is late from waiting to expired.
LEMMA SweptFacts ==
    ASSUME FusionInv
    PROVE  /\ Sound(Fusion!Swept)
           /\ \A s \in Fusion!Sides :
                /\ Fusion!Waiting(Fusion!Swept.pending[s]) <= MaxPending
                /\ AloneIn(Fusion!Swept, s) + Fusion!Waiting(Fusion!Swept.pending[s])
                     = AloneIn(Fusion!Tracker, s) + Fusion!Waiting(pending[s])
                /\ KeysOf(Fusion!Swept.pending[s]) \subseteq KeysOf(pending[s])
<1> DEFINE t == Fusion!Tracker
           w == Fusion!SweptSide("wire", t)
           p == Fusion!SweptSide("probe", w)
           x == Fusion!Swept
<1>1. /\ Sound(t) /\ t \in Trackers /\ clock \in Nat
      /\ "wire" \in Fusion!Sides /\ "probe" \in Fusion!Sides
      /\ Fusion!Other("wire") = "probe" /\ Fusion!Other("probe") = "wire"
      /\ \A s \in Fusion!Sides : s = "wire" \/ s = "probe"
  BY FusionConstants DEF FusionInv, Sound, Fusion!Sides, Fusion!Other
<1>2. /\ pending["wire"] \in Seq(Entries) /\ pending["probe"] \in Seq(Entries)
      /\ t.pending = pending
  <2>1. t.pending = pending /\ t.pending \in [Fusion!Sides -> Seq(Entries)]
    BY <1>1, TrackerIs DEF Trackers
  <2> HIDE DEF t
  <2>2. QED
    BY <1>1, <2>1
<1> HIDE DEF t
<1>3. /\ Sound(w) /\ w.pending["probe"] = pending["probe"]
      /\ AloneIn(w, "probe") = AloneIn(t, "probe") /\ AloneIn(w, "wire") >= AloneIn(t, "wire")
      /\ AloneIn(w, "wire") + Fusion!Waiting(w.pending["wire"])
           = AloneIn(t, "wire") + Fusion!Waiting(pending["wire"])
      /\ KeysOf(w.pending["wire"]) \subseteq KeysOf(pending["wire"])
  <2> HIDE DEF w
  <2> QED BY <1>1, <1>2, SweptSideFacts DEF w
<1> HIDE DEF w
<1>4. /\ Sound(p) /\ p.pending["wire"] = w.pending["wire"]
      /\ AloneIn(p, "wire") = AloneIn(w, "wire") /\ AloneIn(p, "probe") >= AloneIn(w, "probe")
      /\ AloneIn(p, "probe") + Fusion!Waiting(p.pending["probe"])
           = AloneIn(w, "probe") + Fusion!Waiting(pending["probe"])
      /\ KeysOf(p.pending["probe"]) \subseteq KeysOf(pending["probe"])
  <2> HIDE DEF p
  <2> QED BY <1>1, <1>2, <1>3, SweptSideFacts DEF p
<1>5. x = [p EXCEPT !.outcomes = Fusion!Trimmed(@)]
  BY DEF Fusion!Swept, p, w, t
<1> HIDE DEF p, x
<1>6. /\ Sound(x) /\ x.pending = p.pending /\ \A s \in Fusion!Sides : AloneIn(x, s) = AloneIn(p, s)
  <2> DEFINE outs == Fusion!Trimmed(p.outcomes)
  <2>1. p \in Trackers /\ p.pending \in [Fusion!Sides -> Seq(Entries)] /\ p.outcomes \in Seq(Stamps)
    BY <1>4 DEF Sound, Trackers
  <2>2. outs \in Seq(Stamps)
    BY <2>1, TrimmedFacts
  <2>3. x = [p EXCEPT !.outcomes = outs]
    BY <1>5
  <2> HIDE DEF outs
  <2>4. x = [pending |-> p.pending, outcomes |-> outs, unmatched |-> p.unmatched,
             expired |-> p.expired, histogram |-> p.histogram, uncounted |-> p.uncounted]
    BY <2>1, <2>3 DEF Trackers
  <2>5. QED
    BY <1>4, <2>1, <2>2, <2>4, SameSums
<1>7. /\ AloneIn(t, "wire") \in Int /\ AloneIn(t, "probe") \in Int
      /\ AloneIn(p, "wire") \in Int /\ AloneIn(p, "probe") \in Int
      /\ Fusion!Waiting(pending["wire"]) \in Int /\ Fusion!Waiting(pending["probe"]) \in Int
      /\ Fusion!Waiting(p.pending["wire"]) \in Int /\ Fusion!Waiting(p.pending["probe"]) \in Int
      /\ MaxPending \in Nat
  <2>1. /\ p \in Trackers /\ p.pending["wire"] \in Seq(Entries) /\ p.pending["probe"] \in Seq(Entries)
    BY <1>1, <1>4 DEF Sound, Trackers
  <2>2. QED
    BY <1>1, <1>2, <2>1, TrackerSums, WaitingIs, FusionConstants
<1>8. /\ Fusion!Waiting(pending["wire"]) <= MaxPending
      /\ Fusion!Waiting(pending["probe"]) <= MaxPending
  BY <1>1 DEF FusionInv
<1>9. ASSUME NEW s \in Fusion!Sides
      PROVE  /\ Fusion!Waiting(x.pending[s]) <= MaxPending
             /\ AloneIn(x, s) + Fusion!Waiting(x.pending[s])
                  = AloneIn(t, s) + Fusion!Waiting(pending[s])
             /\ KeysOf(x.pending[s]) \subseteq KeysOf(pending[s])
  <2>1. CASE s = "wire"
    <3>1. /\ AloneIn(p, "wire") + Fusion!Waiting(p.pending["wire"])
               = AloneIn(t, "wire") + Fusion!Waiting(pending["wire"])
          /\ Fusion!Waiting(p.pending["wire"]) <= MaxPending
      BY <1>3, <1>4, <1>7, <1>8
    <3>2. QED
      BY <1>3, <1>4, <1>6, <2>1, <3>1
  <2>2. CASE s = "probe"
    <3>1. /\ AloneIn(p, "probe") + Fusion!Waiting(p.pending["probe"])
               = AloneIn(t, "probe") + Fusion!Waiting(pending["probe"])
          /\ Fusion!Waiting(p.pending["probe"]) <= MaxPending
      BY <1>3, <1>4, <1>7, <1>8
    <3>2. QED
      BY <1>4, <1>6, <2>2, <3>1
  <2>3. QED
    BY <1>1, <2>1, <2>2
<1>10. QED
  BY <1>6, <1>9 DEF x, t

LEMMA FusionInit == Fusion!Init => FusionInv
<1> SUFFICES ASSUME Fusion!Init PROVE FusionInv
  OBVIOUS
<1> DEFINE t == Fusion!Tracker
           zeros == [s \in Fusion!Sides |-> 0]
<1>1. /\ clock = 0 /\ pending = [s \in Fusion!Sides |-> << >>] /\ outcomes = << >>
      /\ unmatched = [n \in Senders |-> zeros] /\ matched = [n \in Senders |-> 0]
      /\ expired = [s \in Fusion!Sides |-> << >>]
      /\ histogram = [d \in 0 .. Sequences - 1 |-> 0] /\ drops = 0
      /\ seen = zeros /\ dropped = zeros /\ uncounted = zeros
  BY DEF Fusion!Init
<1>2. /\ IsFiniteSet(Senders) /\ IsFiniteSet(0 .. Sequences - 1) /\ ExpiredRing \in Nat
      /\ MaxPending \in Nat /\ FusionTime \in Nat
  BY FusionConstants, FS_Interval
<1>3. /\ zeros \in Counters /\ << >> \in Seq(Entries) /\ << >> \in Seq(Stamps)
      /\ << >> \in Seq(Expiries) /\ Len(<< >>) = 0
  BY EmptySeq DEF Counters
<1>4. t \in Trackers /\ t.pending = pending /\ t.expired = expired
  <2>1. t = [pending |-> pending, outcomes |-> outcomes, unmatched |-> unmatched,
             expired |-> expired, histogram |-> histogram, uncounted |-> uncounted]
    BY DEF Fusion!Tracker
  <2>2. /\ pending \in [Fusion!Sides -> Seq(Entries)] /\ outcomes \in Seq(Stamps)
        /\ unmatched \in [Senders -> Counters] /\ expired \in [Fusion!Sides -> Seq(Expiries)]
        /\ histogram \in [0 .. Sequences - 1 -> Nat] /\ uncounted \in Counters
    <3> HIDE DEF zeros
    <3> QED BY <1>1, <1>3
  <2> HIDE DEF t
  <2>3. QED
    BY <2>1, <2>2 DEF Trackers
<1>5. PairsIn(t) = 0
  <2>1. PairsIn(t) = SumFunctionOnSet(histogram, 0 .. Sequences - 1)
    BY TrackerIs DEF PairsIn
  <2> DEFINE S == 0 .. Sequences - 1
  <2>2. \A d \in S : histogram[d] = 0
    BY <1>1
  <2>3. IsFiniteSet(S)
    BY <1>2
  <2> HIDE DEF S
  <2>4. SumFunctionOnSet(histogram, S) = 0
    BY <2>2, <2>3, SumOfZeros
  <2>5. QED
    BY <2>1, <2>4 DEF S
<1>6. ASSUME NEW s \in Fusion!Sides
      PROVE  AloneIn(t, s) = 0
  <2> DEFINE f == [n \in Senders |-> unmatched[n][s]]
  <2>1. AloneIn(t, s) = SumFunctionOnSet(f, Senders) + uncounted[s]
    BY TrackerIs DEF AloneIn
  <2>2. (\A n \in Senders : f[n] = 0) /\ uncounted[s] = 0
    BY <1>1
  <2> HIDE DEF f
  <2>3. SumFunctionOnSet(f, Senders) = 0
    BY <1>2, <2>2, SumOfZeros
  <2>4. QED
    BY <2>1, <2>2, <2>3
<1>7. SumFunctionOnSet(matched, Senders) = 0
  <2>1. \A n \in Senders : matched[n] = 0
    BY <1>1
  <2>2. QED
    BY <1>2, <2>1, SumOfZeros
<1> HIDE DEF t
<1>8. ASSUME NEW s \in Fusion!Sides
      PROVE  /\ pending[s] = << >> /\ Len(expired[s]) = 0 /\ seen[s] = 0 /\ dropped[s] = 0
  BY <1>1, <1>3
<1>9. Sound(t)
  BY <1>2, <1>4, <1>5, <1>6, <1>8 DEF Sound
<1>10. \A s \in Fusion!Sides :
         /\ Fusion!Waiting(pending[s]) <= MaxPending
         /\ seen[s] = SumFunctionOnSet(matched, Senders) + AloneIn(t, s)
                        + dropped[s] + Fusion!Waiting(pending[s])
  BY <1>2, <1>6, <1>7, <1>8, NoneWait
<1>11. KeysOf(pending["wire"]) \cap KeysOf(pending["probe"]) = {}
  BY <1>8, NoneWait DEF Fusion!Sides
<1>12. clock \in 0 .. FusionTime /\ drops \in Nat /\ matched \in [Senders -> Nat]
       /\ seen \in Counters /\ dropped \in Counters
  <2> HIDE DEF zeros
  <2> QED BY <1>1, <1>2, <1>3
<1>13. QED
  BY <1>9, <1>10, <1>11, <1>12 DEF FusionInv, t

\* What the parts of a step have in common: the swept tracker, with what the
\* step does to the waiting.
LEMMA SweptStep ==
    ASSUME FusionInv, pending' \in [Fusion!Sides -> Seq(Entries)], outcomes' \in Seq(Stamps),
           unmatched' = Fusion!Swept.unmatched, uncounted' = Fusion!Swept.uncounted,
           expired' = Fusion!Swept.expired, histogram' = Fusion!Swept.histogram
    PROVE  /\ Sound(Fusion!Tracker')
           /\ \A s \in Fusion!Sides : AloneIn(Fusion!Tracker', s) = AloneIn(Fusion!Swept, s)
<1> DEFINE x == Fusion!Swept
           y == [pending |-> pending', outcomes |-> outcomes', unmatched |-> x.unmatched,
                 expired |-> x.expired, histogram |-> x.histogram, uncounted |-> x.uncounted]
<1>1. Sound(x)
  BY SweptFacts
<1>2. Fusion!Tracker' = y
  BY DEF Fusion!Tracker
<1> HIDE DEF x
<1>3. Sound(y) /\ \A s \in Fusion!Sides : AloneIn(y, s) = AloneIn(x, s)
  BY <1>1, SameSums
<1>4. QED
  BY <1>2, <1>3 DEF x

\* A side's observation: with a partner both are matched, with none it waits,
\* or pushes an older one out.
LEMMA ObserveKeeps ==
    ASSUME FusionInv, NEW side \in Fusion!Sides, NEW key \in Fusion!Keys,
           Fusion!Observe(side, key)
    PROVE  FusionInv'
<1> DEFINE x == Fusion!Swept
           t == Fusion!Tracker
           o == Fusion!Other(side)
           mine == x.pending[side]
           theirs == x.pending[o]
           partners == Fusion!Has(theirs, key)
           total == SumFunctionOnSet(matched, Senders)
           lost == IF Fusion!Overflows(mine, key) THEN 1 ELSE 0
<1>1. /\ clock \in 0 .. FusionTime /\ clock \in Nat /\ drops \in Nat
      /\ matched \in [Senders -> Nat] /\ seen \in Counters /\ dropped \in Counters
      /\ FusionTime \in Nat
  BY FusionConstants DEF FusionInv
<1>2. /\ Sound(x) /\ x \in Trackers /\ x.pending \in [Fusion!Sides -> Seq(Entries)]
      /\ x.outcomes \in Seq(Stamps)
  BY SweptFacts DEF Sound, Trackers
<1>3. /\ o \in Fusion!Sides /\ o # side /\ \A s \in Fusion!Sides : s = side \/ s = o
      /\ key[1] \in Senders /\ IsFiniteSet(Senders)
  BY FusionConstants
<1>4. \A s \in Fusion!Sides :
        /\ seen[s] = total + AloneIn(t, s) + dropped[s] + Fusion!Waiting(pending[s])
        /\ AloneIn(x, s) + Fusion!Waiting(x.pending[s]) = AloneIn(t, s) + Fusion!Waiting(pending[s])
        /\ Fusion!Waiting(x.pending[s]) <= MaxPending
        /\ KeysOf(x.pending[s]) \subseteq KeysOf(pending[s])
        /\ AloneIn(x, s) \in Int /\ AloneIn(t, s) \in Int /\ Fusion!Waiting(x.pending[s]) \in Int
        /\ Fusion!Waiting(pending[s]) \in Int /\ seen[s] \in Nat /\ dropped[s] \in Nat
  <2>1. t \in Trackers /\ pending \in [Fusion!Sides -> Seq(Entries)]
    BY TrackerIs DEF FusionInv, Sound, Trackers
  <2> HIDE DEF x, t
  <2>2. \A s \in Fusion!Sides : /\ AloneIn(x, s) \in Int /\ AloneIn(t, s) \in Int
                                /\ Fusion!Waiting(x.pending[s]) \in Int
                                /\ Fusion!Waiting(pending[s]) \in Int
    BY <1>2, <2>1, TrackerSums, WaitingIs
  <2>3. \A s \in Fusion!Sides : seen[s] \in Nat /\ dropped[s] \in Nat
    BY <1>1 DEF Counters
  <2>4. QED
    BY <2>2, <2>3, SweptFacts DEF FusionInv, x, t
<1>5. total \in Int
  <2>1. \A n \in Senders : matched[n] \in Int
    BY <1>1
  <2>2. QED
    BY <1>3, <2>1, SumSplits
<1>6. KeysOf(mine) \cap KeysOf(theirs) = {} /\ mine \in Seq(Entries) /\ theirs \in Seq(Entries)
  <2>1. KeysOf(pending[side]) \cap KeysOf(pending[o]) = {}
    <3>1. KeysOf(pending["wire"]) \cap KeysOf(pending["probe"]) = {}
      BY DEF FusionInv
    <3>2. QED
      BY <3>1 DEF Fusion!Sides, Fusion!Other
  <2>2. KeysOf(mine) \subseteq KeysOf(pending[side]) /\ KeysOf(theirs) \subseteq KeysOf(pending[o])
    BY <1>3, <1>4
  <2>3. QED
    BY <1>2, <1>3, <2>1, <2>2
<1>7. /\ seen' = [seen EXCEPT ![side] = @ + 1] /\ clock' = clock
      /\ unmatched' = x.unmatched /\ uncounted' = x.uncounted
      /\ expired' = x.expired /\ histogram' = x.histogram
  BY DEF Fusion!Observe
<1>8. /\ seen' \in Counters /\ seen'[side] = seen[side] + 1 /\ seen'[o] = seen[o]
  <2>1. /\ seen'[side] = seen[side] + 1 /\ \A s \in Fusion!Sides \ {side} : seen'[s] = seen[s]
    BY <1>1, <1>7 DEF Counters
  <2>2. seen' \in Counters
    BY <1>1, <1>7 DEF Counters
  <2>3. QED
    BY <1>3, <2>1, <2>2
<1> DEFINE sum == SumFunctionOnSet(matched', Senders)
<1>9. SUFFICES
        /\ drops' \in Nat /\ matched' \in [Senders -> Nat] /\ dropped' \in Counters
        /\ pending' \in [Fusion!Sides -> Seq(Entries)] /\ outcomes' \in Seq(Stamps)
        /\ \A s \in Fusion!Sides :
             /\ Fusion!Waiting(pending'[s]) <= MaxPending
             /\ seen'[s] = sum + AloneIn(x, s) + dropped'[s] + Fusion!Waiting(pending'[s])
        /\ KeysOf(pending'[side]) \cap KeysOf(pending'[o]) = {}
  <2>1. ASSUME /\ drops' \in Nat /\ matched' \in [Senders -> Nat] /\ dropped' \in Counters
               /\ pending' \in [Fusion!Sides -> Seq(Entries)] /\ outcomes' \in Seq(Stamps)
               /\ \A s \in Fusion!Sides :
                    /\ Fusion!Waiting(pending'[s]) <= MaxPending
                    /\ seen'[s] = sum + AloneIn(x, s) + dropped'[s] + Fusion!Waiting(pending'[s])
               /\ KeysOf(pending'[side]) \cap KeysOf(pending'[o]) = {}
        PROVE  FusionInv'
    <3>1. Sound(t') /\ \A s \in Fusion!Sides : AloneIn(t', s) = AloneIn(x, s)
      BY <1>7, <2>1, SweptStep
    <3>2. KeysOf(pending'["wire"]) \cap KeysOf(pending'["probe"]) = {}
      <4>1. KeysOf(pending'[side]) \cap KeysOf(pending'[o]) = {}
        BY <2>1
      <4>2. QED
        BY <4>1 DEF Fusion!Sides, Fusion!Other
    <3>3. \A s \in Fusion!Sides :
             /\ Fusion!Waiting(pending'[s]) <= MaxPending
             /\ seen'[s] = sum + AloneIn(t', s) + dropped'[s] + Fusion!Waiting(pending'[s])
      BY <2>1, <3>1
    <3>4. QED
      BY <1>1, <1>7, <1>8, <2>1, <3>1, <3>2, <3>3 DEF FusionInv
  <2>2. QED
    BY <2>1
<1>10. CASE /\ partners # {}
            /\ pending' = [x.pending EXCEPT
                             ![o] = Fusion!PopFirst(@, CHOOSE i \in partners : TRUE)]
            /\ outcomes' = Append(x.outcomes, [at |-> clock, kind |-> "matched"])
            /\ matched' = [matched EXCEPT ![key[1]] = @ + 1]
            /\ UNCHANGED <<drops, dropped>>
  <2> DEFINE i == CHOOSE i \in partners : TRUE
             d == Fusion!PopFirst(theirs, i)
             n == key[1]
  <2>1. i \in DOMAIN theirs
    BY <1>10 DEF Fusion!Has
  <2> HIDE DEF i
  <2>2. d \in Seq(Entries) /\ KeysOf(d) \subseteq KeysOf(theirs)
        /\ Fusion!Waiting(d) = Fusion!Waiting(theirs) - 1
    <3> HIDE DEF theirs, d
    <3> QED BY <1>6, <2>1, PopFirstFacts DEF d
  <2>3. pending' = [x.pending EXCEPT ![o] = d]
    BY <1>10 DEF i
  <2> HIDE DEF d, x, o
  <2>4. /\ pending' \in [Fusion!Sides -> Seq(Entries)]
        /\ pending'[o] = d /\ pending'[side] = x.pending[side]
    BY <1>2, <1>3, <2>2, <2>3
  <2>5. outcomes' \in Seq(Stamps)
    <3> DEFINE e == [at |-> clock, kind |-> "matched"]
    <3>1. e \in Stamps
      BY <1>1 DEF Stamps
    <3> HIDE DEF e
    <3>2. Append(x.outcomes, e) \in Seq(Stamps)
      BY <1>2, <3>1, AppendProperties
    <3>3. QED
      BY <1>10, <3>2 DEF e, x
  <2>6. matched' \in [Senders -> Nat] /\ sum = total + 1
    <3>1. matched' = [matched EXCEPT ![n] = @ + 1] /\ n \in Senders
      BY <1>3, <1>10
    <3> HIDE DEF n
    <3>2. matched' \in [Senders -> Nat] /\ matched'[n] = matched[n] + 1
      BY <1>1, <3>1
    <3>3. \A y \in Senders \ {n} : matched'[y] = matched[y]
      BY <1>1, <3>1
    <3>4. \A y \in Senders : matched[y] \in Int /\ matched'[y] \in Int
      BY <1>1, <3>2
    <3> DEFINE f == matched
               h == matched'
    <3>5. /\ IsFiniteSet(Senders) /\ n \in Senders
          /\ \A y \in Senders : f[y] \in Int /\ h[y] \in Int
      BY <1>3, <3>1, <3>4
    <3>6. \A y \in Senders \ {n} : h[y] = f[y]
      BY <3>3
    <3>7. h[n] = f[n] + 1 /\ f[n] \in Int
      BY <3>2, <3>5
    <3> HIDE DEF f, h
    <3>8. SumFunctionOnSet(h, Senders) = SumFunctionOnSet(f, Senders) + (h[n] - f[n])
      BY ONLY <3>5, <3>6, SumChanges
    <3>9. h[n] - f[n] = 1
      BY <3>7
    <3>10. SumFunctionOnSet(h, Senders) = SumFunctionOnSet(f, Senders) + 1
      BY <3>8, <3>9
    <3>11. QED
      BY <3>2, <3>10 DEF f, h
  <2>7. drops' = drops /\ dropped' = dropped
    BY <1>10
  <2> HIDE DEF t, total, sum
  <2>8. ASSUME NEW s \in Fusion!Sides
        PROVE  /\ Fusion!Waiting(pending'[s]) <= MaxPending
               /\ seen'[s] = sum + AloneIn(x, s) + dropped'[s] + Fusion!Waiting(pending'[s])
    <3>1. /\ seen[s] = total + AloneIn(t, s) + dropped[s] + Fusion!Waiting(pending[s])
          /\ AloneIn(x, s) + Fusion!Waiting(x.pending[s]) = AloneIn(t, s) + Fusion!Waiting(pending[s])
          /\ Fusion!Waiting(x.pending[s]) <= MaxPending
          /\ AloneIn(x, s) \in Int /\ AloneIn(t, s) \in Int /\ Fusion!Waiting(x.pending[s]) \in Int
          /\ Fusion!Waiting(pending[s]) \in Int /\ seen[s] \in Nat /\ dropped[s] \in Nat
          /\ MaxPending \in Nat
      BY <1>4, FusionConstants
    <3>2. CASE s = side
      <4>1. /\ Fusion!Waiting(pending'[s]) = Fusion!Waiting(x.pending[s])
            /\ seen'[s] = seen[s] + 1
        BY <1>8, <2>4, <3>2
      <4>2. QED
        BY <1>5, <2>6, <2>7, <3>1, <4>1
    <3>3. CASE s = o
      <4>1. /\ Fusion!Waiting(pending'[s]) = Fusion!Waiting(x.pending[s]) - 1
            /\ seen'[s] = seen[s]
        BY <1>8, <2>2, <2>4, <3>3
      <4>2. QED
        BY <1>5, <2>6, <2>7, <3>1, <4>1
    <3>4. QED
      BY <1>3, <3>2, <3>3
  <2>9. KeysOf(pending'[side]) \cap KeysOf(pending'[o]) = {}
    BY <1>6, <2>2, <2>4
  <2>10. QED
    BY <1>1, <2>4, <2>5, <2>6, <2>7, <2>8, <2>9
<1>11. CASE /\ partners = {}
            /\ pending' = [x.pending EXCEPT ![side] = Fusion!Enqueued(@, key)]
            /\ drops' = drops + lost /\ dropped' = [dropped EXCEPT ![side] = @ + lost]
            /\ UNCHANGED matched
            /\ outcomes' = x.outcomes
  <2> DEFINE d == Fusion!Enqueued(mine, key)
  <2>1. /\ d \in Seq(Entries) /\ KeysOf(d) \subseteq KeysOf(mine) \cup {key}
        /\ Fusion!Waiting(d) <= MaxPending
        /\ Fusion!Waiting(d) = Fusion!Waiting(mine) + 1 - lost
    <3>1. mine \in Seq(Entries) /\ Fusion!Waiting(mine) <= MaxPending /\ clock \in Nat
      BY <1>1, <1>4, <1>6
    <3> HIDE DEF mine, d
    <3>2. QED
      BY <3>1, EnqueuedFacts DEF d
  <2>2. lost \in {0, 1}
    OBVIOUS
  <2>3. key \notin KeysOf(theirs)
    <3>1. DOMAIN theirs = 1 .. Len(theirs)
      BY <1>6, WaitingIs
    <3>2. QED
      BY <1>11, <3>1 DEF Fusion!Has, KeysOf
  <2>4. pending' = [x.pending EXCEPT ![side] = d]
    BY <1>11
  <2> HIDE DEF d, x, o, lost
  <2>5. /\ pending' \in [Fusion!Sides -> Seq(Entries)]
        /\ pending'[side] = d /\ pending'[o] = x.pending[o]
    BY <1>2, <1>3, <2>1, <2>4
  <2>6. outcomes' \in Seq(Stamps)
    BY <1>2, <1>11
  <2>7. /\ matched' \in [Senders -> Nat] /\ sum = total
    BY <1>1, <1>11
  <2>8. /\ drops' \in Nat /\ dropped' \in Counters
        /\ dropped'[side] = dropped[side] + lost /\ dropped'[o] = dropped[o]
    <3>1. drops' = drops + lost /\ dropped' = [dropped EXCEPT ![side] = @ + lost]
      BY <1>11
    <3>2. QED
      BY <1>1, <1>3, <2>2, <3>1 DEF Counters
  <2> HIDE DEF t, total, sum
  <2>9. ASSUME NEW s \in Fusion!Sides
        PROVE  /\ Fusion!Waiting(pending'[s]) <= MaxPending
               /\ seen'[s] = sum + AloneIn(x, s) + dropped'[s] + Fusion!Waiting(pending'[s])
    <3>1. /\ seen[s] = total + AloneIn(t, s) + dropped[s] + Fusion!Waiting(pending[s])
          /\ AloneIn(x, s) + Fusion!Waiting(x.pending[s]) = AloneIn(t, s) + Fusion!Waiting(pending[s])
          /\ Fusion!Waiting(x.pending[s]) <= MaxPending
          /\ AloneIn(x, s) \in Int /\ AloneIn(t, s) \in Int /\ Fusion!Waiting(x.pending[s]) \in Int
          /\ Fusion!Waiting(pending[s]) \in Int /\ seen[s] \in Nat /\ dropped[s] \in Nat
      BY <1>4
    <3>2. CASE s = side
      <4>1. /\ Fusion!Waiting(pending'[s]) = Fusion!Waiting(x.pending[s]) + 1 - lost
            /\ Fusion!Waiting(pending'[s]) <= MaxPending
            /\ seen'[s] = seen[s] + 1 /\ dropped'[s] = dropped[s] + lost
        BY <1>8, <2>1, <2>5, <2>8, <3>2
      <4>2. QED
        BY <1>5, <2>2, <2>7, <3>1, <4>1
    <3>3. CASE s = o
      <4>1. /\ Fusion!Waiting(pending'[s]) = Fusion!Waiting(x.pending[s])
            /\ seen'[s] = seen[s] /\ dropped'[s] = dropped[s]
        BY <1>8, <2>5, <2>8, <3>3
      <4>2. QED
        BY <1>5, <2>7, <3>1, <4>1
    <3>4. QED
      BY <1>3, <3>2, <3>3
  <2>10. KeysOf(pending'[side]) \cap KeysOf(pending'[o]) = {}
    BY <1>6, <2>1, <2>3, <2>5
  <2>11. QED
    BY <2>5, <2>6, <2>7, <2>8, <2>9, <2>10
<1>12. QED
  BY <1>10, <1>11 DEF Fusion!Observe

LEMMA SnapshotKeeps == FusionInv /\ Fusion!Snapshot => FusionInv'
<1> SUFFICES ASSUME FusionInv, Fusion!Snapshot PROVE FusionInv'
  OBVIOUS
<1> DEFINE x == Fusion!Swept
           t == Fusion!Tracker
<1>1. /\ pending' = x.pending /\ outcomes' = x.outcomes
      /\ unmatched' = x.unmatched /\ uncounted' = x.uncounted
      /\ expired' = x.expired /\ histogram' = x.histogram
      /\ clock' = clock /\ matched' = matched /\ drops' = drops /\ seen' = seen
      /\ dropped' = dropped
  BY DEF Fusion!Snapshot
<1>2. x.pending \in [Fusion!Sides -> Seq(Entries)] /\ x.outcomes \in Seq(Stamps)
  BY SweptFacts DEF Sound, Trackers
<1>3. Sound(t') /\ \A s \in Fusion!Sides : AloneIn(t', s) = AloneIn(x, s)
  BY <1>1, <1>2, SweptStep
<1>4. ASSUME NEW s \in Fusion!Sides
      PROVE  /\ Fusion!Waiting(pending'[s]) <= MaxPending
             /\ seen'[s] = SumFunctionOnSet(matched', Senders) + AloneIn(t', s)
                             + dropped'[s] + Fusion!Waiting(pending'[s])
  <2> DEFINE total == SumFunctionOnSet(matched, Senders)
  <2>1. /\ seen[s] = total + AloneIn(t, s) + dropped[s] + Fusion!Waiting(pending[s])
        /\ AloneIn(x, s) + Fusion!Waiting(x.pending[s]) = AloneIn(t, s) + Fusion!Waiting(pending[s])
        /\ Fusion!Waiting(x.pending[s]) <= MaxPending
    BY SweptFacts DEF FusionInv
  <2>2. total \in Int /\ dropped[s] \in Nat
    <3>1. IsFiniteSet(Senders) /\ \A n \in Senders : matched[n] \in Int
      BY FusionConstants DEF FusionInv
    <3>2. QED
      BY <3>1, SumSplits DEF FusionInv, Counters
  <2>3. t \in Trackers /\ x \in Trackers /\ pending \in [Fusion!Sides -> Seq(Entries)]
    BY TrackerIs, SweptFacts DEF FusionInv, Sound, Trackers
  <2> HIDE DEF t, x, total
  <2>4. /\ AloneIn(x, s) \in Int /\ AloneIn(t, s) \in Int
        /\ Fusion!Waiting(x.pending[s]) \in Int /\ Fusion!Waiting(pending[s]) \in Int
    BY <1>2, <2>3, TrackerSums, WaitingIs
  <2>5. /\ Fusion!Waiting(pending'[s]) = Fusion!Waiting(x.pending[s])
        /\ seen'[s] = seen[s] /\ dropped'[s] = dropped[s]
        /\ AloneIn(t', s) = AloneIn(x, s) /\ SumFunctionOnSet(matched', Senders) = total
    BY <1>1, <1>3 DEF total
  <2>6. seen'[s] = total + AloneIn(t', s) + dropped'[s] + Fusion!Waiting(pending'[s])
    BY <2>1, <2>2, <2>4, <2>5
  <2>7. QED
    BY <2>1, <2>5, <2>6
<1>5. KeysOf(pending'["wire"]) \cap KeysOf(pending'["probe"]) = {}
  <2>1. KeysOf(pending["wire"]) \cap KeysOf(pending["probe"]) = {}
    BY DEF FusionInv
  <2>2. \A s \in Fusion!Sides : KeysOf(pending'[s]) \subseteq KeysOf(pending[s])
    BY <1>1, SweptFacts
  <2>3. QED
    BY <2>1, <2>2 DEF Fusion!Sides
<1>6. /\ clock' \in 0 .. FusionTime /\ drops' \in Nat
      /\ matched' \in [Senders -> Nat] /\ seen' \in Counters /\ dropped' \in Counters
  BY <1>1 DEF FusionInv
<1>7. QED
  BY <1>3, <1>4, <1>5, <1>6 DEF FusionInv

LEMMA FusionStep == FusionInv /\ [Fusion!Next]_fusion => FusionInv'
<1> SUFFICES ASSUME FusionInv, [Fusion!Next]_fusion PROVE FusionInv'
  OBVIOUS
<1>1. ASSUME clock' \in 0 .. FusionTime,
             UNCHANGED <<pending, outcomes, unmatched, matched, expired, histogram, drops,
                         seen, dropped, uncounted>>
      PROVE  FusionInv'
  <2>1. Fusion!Tracker' = Fusion!Tracker
    BY <1>1 DEF Fusion!Tracker
  <2>2. QED
    BY <1>1, <2>1 DEF FusionInv
<1>2. CASE Fusion!Tick
  <2>1. clock' \in 0 .. FusionTime
    BY <1>2, FusionConstants DEF FusionInv, Fusion!Tick
  <2>2. QED
    BY <1>1, <1>2, <2>1 DEF Fusion!Tick
<1>3. CASE UNCHANGED fusion
  <2>1. clock' \in 0 .. FusionTime
    BY <1>3 DEF FusionInv, fusion
  <2>2. QED
    BY <1>1, <1>3, <2>1 DEF fusion
<1>4. CASE Fusion!Snapshot
  BY <1>4, SnapshotKeeps
<1>5. CASE \E key \in Fusion!Keys : Fusion!OnWire(key) \/ Fusion!OnProbe(key)
  <2>1. PICK key \in Fusion!Keys : Fusion!OnWire(key) \/ Fusion!OnProbe(key)
    BY <1>5
  <2>2. PICK side \in Fusion!Sides : Fusion!Observe(side, key)
    BY <2>1 DEF Fusion!OnWire, Fusion!OnProbe, Fusion!Sides
  <2>3. QED
    BY <2>2, ObserveKeeps
<1>6. QED
  BY <1>2, <1>3, <1>4, <1>5 DEF Fusion!Next

\* What the invariant says of the run's property.
LEMMA FusionMeans ==
    FusionInv => Fusion!TypeOK /\ Fusion!EveryObservationPlaced /\ Fusion!PairedOnce
<1> SUFFICES ASSUME FusionInv
             PROVE  Fusion!TypeOK /\ Fusion!EveryObservationPlaced /\ Fusion!PairedOnce
  OBVIOUS
<1> DEFINE t == Fusion!Tracker
<1>1. /\ t \in Trackers /\ pending \in [Fusion!Sides -> Seq(Entries)]
      /\ histogram \in [0 .. Sequences - 1 -> Nat]
      /\ \A s \in Fusion!Sides : /\ Len(expired[s]) <= ExpiredRing
                                 /\ PairsIn(t) + Len(expired[s]) <= AloneIn(t, s)
  BY TrackerIs DEF FusionInv, Sound, Trackers
<1>2. \A s \in Fusion!Sides : AloneIn(t, s) = Fusion!Alone(s)
  BY TrackerIs, FusionOperators DEF AloneIn, Fusion!Alone
<1>3. PairsIn(t) = Fusion!Pairs
  BY TrackerIs, FusionOperators DEF PairsIn, Fusion!Pairs
<1>4. Fusion!TypeOK
  <2>1. \A s \in Fusion!Sides : \A i \in DOMAIN pending[s] :
          pending[s][i].key \in Fusion!Keys /\ pending[s][i].times # << >>
    <3>1. \A s \in Fusion!Sides : pending[s] \in Seq(Entries)
      BY <1>1
    <3>2. \A s \in Fusion!Sides : \A i \in DOMAIN pending[s] : pending[s][i] \in Entries
      BY <3>1, WaitingIs
    <3>3. QED
      BY <3>2 DEF Entries
  <2>2. clock \in 0 .. FusionTime /\ drops \in Nat
        /\ \A s \in Fusion!Sides : Fusion!Waiting(pending[s]) <= MaxPending
    BY DEF FusionInv
  <2>3. QED
    BY <1>1, <2>1, <2>2 DEF Fusion!TypeOK
<1>5. Fusion!PairedOnce
  BY <1>1, <1>2, <1>3 DEF Fusion!PairedOnce
<1>6. Fusion!EveryObservationPlaced
  <2>1. \A s \in Fusion!Sides :
          seen[s] = Fusion!SumFunctionOnSet(matched, Senders) + Fusion!Alone(s) + dropped[s]
                      + Fusion!Waiting(pending[s])
    BY <1>2, FusionOperators DEF FusionInv
  <2>2. \A p \in Fusion!Range(pending["wire"]), q \in Fusion!Range(pending["probe"]) :
          p.key # q.key
    <3>1. pending["wire"] \in Seq(Entries) /\ pending["probe"] \in Seq(Entries)
      BY <1>1 DEF Fusion!Sides
    <3>2. \A dict \in Seq(Entries) : \A p \in Fusion!Range(dict) : p.key \in KeysOf(dict)
      BY WaitingIs, FusionOperators DEF KeysOf
    <3>3. KeysOf(pending["wire"]) \cap KeysOf(pending["probe"]) = {}
      BY DEF FusionInv
    <3>4. QED
      BY <3>1, <3>2, <3>3
  <2>3. QED
    BY <2>1, <2>2 DEF Fusion!EveryObservationPlaced
<1>7. QED
  BY <1>4, <1>5, <1>6

\* Every observation of a frame is in one place - matched, expired alone,
\* dropped at the bound or waiting - both sides count the same matches, no
\* frame waits on both, and a pair of expiries has used up one of each side
\* (fusion.py:37-66, 106-187): for all senders, bounds and watermarks.
THEOREM ObservationsArePaired == Spec => []ObservationsPaired
<1>1. Init => FusionInv
  BY FusionInit DEF Init
<1>2. FusionInv /\ [Next]_vars => FusionInv'
  BY FusionStep, Apart
<1>3. FusionInv => ObservationsPaired
  BY FusionMeans DEF ObservationsPaired
<1>4. QED
  BY <1>1, <1>2, <1>3, PTL DEF Spec

-----------------------------------------------------------------------------
(* The change journal *)

\* What the rows written so far tell of the devices.
Told == UNION {[D -> [name : Journal!Names, nwk : Journal!Addresses \cup {None}]] : D \in SUBSET Devices}

\* The assumption, and the copies of the library's operators.
LEMMA JournalConstants ==
    /\ IsFiniteSet(Devices) /\ JournalTime \in Nat
    /\ \A e \in Identities : e = [name |-> e.name, nwk |-> e.nwk]
                          /\ e.name \in Journal!Names /\ e.nwk \in Journal!Addresses
    /\ None \notin Journal!Lists /\ None \notin Instances /\ None \notin Seq(Journal!Rows)
    /\ None \notin {"pending", "batch", "gone"}
    /\ \A D \in SUBSET Devices : None # D
    /\ \A S : Journal!Cardinality(S) = Cardinality(S)
<1>1. \A S : Journal!Cardinality(S) = Cardinality(S) /\ (Journal!IsFiniteSet(S) <=> IsFiniteSet(S))
  BY DEF Journal!Cardinality, Cardinality, Journal!IsFiniteSet, IsFiniteSet
<1>2. \A e \in Identities : e.name \in Journal!Names /\ e.nwk \in Journal!Addresses
  BY DEF Journal!Names, Journal!Addresses
<1>3. QED
  BY <1>1, <1>2, JournalAssumption DEF Journal!JournalAssumption

LEMMA ToldFacts ==
    /\ \A x \in Told : /\ DOMAIN x \in SUBSET Devices
                       /\ \A d \in DOMAIN x : x[d] \in [name : Journal!Names, nwk : Journal!Addresses \cup {None}]
                       /\ x = [d \in DOMAIN x |-> x[d]]
    /\ \A D \in SUBSET Devices :
         \A x \in [D -> [name : Journal!Names, nwk : Journal!Addresses \cup {None}]] : x \in Told
    /\ \A l \in Journal!Lists : /\ l \in Told /\ DOMAIN l \in SUBSET Devices
                                /\ \A d \in DOMAIN l : l[d] \in Identities
    /\ \A D \in SUBSET Devices : \A l \in [D -> Identities] : l \in Journal!Lists
<1>1. \A x \in Told : /\ DOMAIN x \in SUBSET Devices
                      /\ \A d \in DOMAIN x : x[d] \in [name : Journal!Names, nwk : Journal!Addresses \cup {None}]
                      /\ x = [d \in DOMAIN x |-> x[d]]
  BY DEF Told
<1>2. \A D \in SUBSET Devices : \A x \in [D -> [name : Journal!Names, nwk : Journal!Addresses \cup {None}]] : x \in Told
  BY DEF Told
<1>3. \A l \in Journal!Lists : DOMAIN l \in SUBSET Devices /\ l \in [DOMAIN l -> Identities]
  BY DEF Journal!Lists
<1>4. \A e \in Identities : e \in [name : Journal!Names, nwk : Journal!Addresses \cup {None}]
  BY JournalConstants
<1>5. \A D \in SUBSET Devices : \A l \in [D -> Identities] : l \in Told /\ l \in Journal!Lists
  BY <1>2, <1>4 DEF Journal!Lists
<1>6. QED
  BY <1>1, <1>2, <1>3, <1>5

\* The rows by their kinds.
LEMMA RowFacts ==
    ASSUME NEW r \in Journal!Rows
    PROVE  /\ r.on \in Instances
           /\ \/ r \in Journal!AddedRows /\ r.kind = "device_added" /\ r.subject \in Devices
                 /\ r.detail \in [name : Journal!Names, from : Instances \cup {None}]
              \/ r \in Journal!RemovedRows /\ r.kind = "device_removed" /\ r.subject \in Devices
              \/ r \in Journal!RenamedRows /\ r.kind = "device_renamed" /\ r.subject \in Devices
                 /\ r.detail \in Journal!Names
              \/ r \in Journal!RejoinedRows /\ r.kind = "device_rejoined" /\ r.subject \in Devices
                 /\ r.detail \in Journal!Addresses
              \/ r \in Journal!RowsOfGroups /\ r.kind \in Journal!GroupKinds
  BY DEF Journal!Rows, Journal!RowsOf, Journal!AddedRows, Journal!RemovedRows, Journal!RenamedRows,
         Journal!RejoinedRows, Journal!RowsOfGroups

\* What each row does to what was told.
AfterAdded(x, r, y) ==
    /\ y \in Told /\ DOMAIN y = DOMAIN x \cup {r.subject}
    /\ \A d \in DOMAIN y : y[d] = IF d = r.subject THEN [name |-> r.detail.name, nwk |-> None] ELSE x[d]
AfterRemoved(x, r, y) ==
    /\ y \in Told /\ DOMAIN y = DOMAIN x \ {r.subject}
    /\ \A d \in DOMAIN y : y[d] = x[d]
AfterRenamed(x, r, y) ==
    /\ y \in Told /\ DOMAIN y = DOMAIN x
    /\ \A d \in DOMAIN y : /\ y[d].name = IF d = r.subject THEN r.detail ELSE x[d].name
                           /\ y[d].nwk = x[d].nwk
AfterRejoined(x, r, y) ==
    /\ y \in Told /\ DOMAIN y = DOMAIN x
    /\ \A d \in DOMAIN y : /\ y[d].nwk = IF d = r.subject THEN r.detail ELSE x[d].nwk
                           /\ y[d].name = x[d].name
LEMMA AddedReplayed ==
    ASSUME NEW x \in Told, NEW r \in Journal!AddedRows
    PROVE  AfterAdded(x, r, Journal!Replayed(x, r))
<1>y. PICK y : y = Journal!Replayed(x, r)
  OBVIOUS
<1> DEFINE E == [name : Journal!Names, nwk : Journal!Addresses \cup {None}]
<1>a. /\ DOMAIN x \in SUBSET Devices /\ \A d \in DOMAIN x : x[d] \in E
      /\ x = [d \in DOMAIN x |-> x[d]]
      /\ \A D \in SUBSET Devices : \A z \in [D -> E] : z \in Told
  BY ToldFacts
<1>1. /\ r.kind = "device_added" /\ r.subject \in Devices /\ r.detail.name \in Journal!Names
  BY DEF Journal!RowsOf, Journal!AddedRows
<1>2. y = [d \in DOMAIN x \cup {r.subject} |->
             IF d = r.subject THEN [name |-> r.detail.name, nwk |-> None] ELSE x[d]]
  BY <1>y, <1>1 DEF Journal!Replayed, Journal!With
<1>3. y \in [DOMAIN x \cup {r.subject} -> E]
  <2>1. [name |-> r.detail.name, nwk |-> None] \in E
    BY <1>1
  <2> HIDE DEF E
  <2>2. QED
    BY <1>a, <1>2, <2>1
<1>4. y \in Told
  <2> HIDE DEF E
  <2> QED BY <1>a, <1>1, <1>3
<1>5. QED
  BY <1>y, <1>1, <1>2, <1>4 DEF AfterAdded

LEMMA RemovedReplayed ==
    ASSUME NEW x \in Told, NEW r \in Journal!RemovedRows
    PROVE  AfterRemoved(x, r, Journal!Replayed(x, r))
<1>y. PICK y : y = Journal!Replayed(x, r)
  OBVIOUS
<1> DEFINE E == [name : Journal!Names, nwk : Journal!Addresses \cup {None}]
<1>a. /\ DOMAIN x \in SUBSET Devices /\ \A d \in DOMAIN x : x[d] \in E
      /\ x = [d \in DOMAIN x |-> x[d]]
      /\ \A D \in SUBSET Devices : \A z \in [D -> E] : z \in Told
  BY ToldFacts
<1>1. r.kind = "device_removed"
  BY DEF Journal!RowsOf, Journal!RemovedRows
<1>2. y = [d \in DOMAIN x \ {r.subject} |-> x[d]]
  BY <1>y, <1>1 DEF Journal!Replayed
<1>4. y \in Told
  <2>1. y \in [DOMAIN x \ {r.subject} -> E]
    <3> HIDE DEF E
    <3> QED BY <1>a, <1>2
  <2>2. DOMAIN x \ {r.subject} \in SUBSET Devices
    BY <1>a
  <2> HIDE DEF E
  <2>3. QED
    BY <1>a, <2>1, <2>2
<1>5. QED
  BY <1>y, <1>1, <1>2, <1>4 DEF AfterRemoved

LEMMA RenamedReplayed ==
    ASSUME NEW x \in Told, NEW r \in Journal!RenamedRows
    PROVE  AfterRenamed(x, r, Journal!Replayed(x, r))
<1>y. PICK y : y = Journal!Replayed(x, r)
  OBVIOUS
<1> DEFINE E == [name : Journal!Names, nwk : Journal!Addresses \cup {None}]
<1>a. /\ DOMAIN x \in SUBSET Devices /\ \A d \in DOMAIN x : x[d] \in E
      /\ x = [d \in DOMAIN x |-> x[d]]
      /\ \A D \in SUBSET Devices : \A z \in [D -> E] : z \in Told
  BY ToldFacts
<1>1. r.kind = "device_renamed" /\ r.detail \in Journal!Names
  BY DEF Journal!RowsOf, Journal!RenamedRows
<1>2. y = [x EXCEPT ![r.subject].name = r.detail]
  BY <1>y, <1>1 DEF Journal!Replayed
<1>3. y = [d \in DOMAIN x |-> IF d = r.subject THEN [x[d] EXCEPT !.name = r.detail] ELSE x[d]]
  BY <1>a, <1>2
<1>4. \A d \in DOMAIN x : [x[d] EXCEPT !.name = r.detail] \in E
  BY <1>a, <1>1
<1>5. y \in [DOMAIN x -> E]
  <2> HIDE DEF E
  <2> QED BY <1>a, <1>3, <1>4
<1>6. y \in Told
  <2> HIDE DEF E
  <2> QED BY <1>a, <1>5
<1>7. QED
  BY <1>y, <1>a, <1>1, <1>3, <1>6 DEF AfterRenamed

LEMMA RejoinedReplayed ==
    ASSUME NEW x \in Told, NEW r \in Journal!RejoinedRows
    PROVE  AfterRejoined(x, r, Journal!Replayed(x, r))
<1>y. PICK y : y = Journal!Replayed(x, r)
  OBVIOUS
<1> DEFINE E == [name : Journal!Names, nwk : Journal!Addresses \cup {None}]
<1>a. /\ DOMAIN x \in SUBSET Devices /\ \A d \in DOMAIN x : x[d] \in E
      /\ x = [d \in DOMAIN x |-> x[d]]
      /\ \A D \in SUBSET Devices : \A z \in [D -> E] : z \in Told
  BY ToldFacts
<1>1. r.kind = "device_rejoined" /\ r.detail \in Journal!Addresses
  BY DEF Journal!RowsOf, Journal!RejoinedRows
<1>2. y = [x EXCEPT ![r.subject].nwk = r.detail]
  BY <1>y, <1>1 DEF Journal!Replayed
<1>3. y = [d \in DOMAIN x |-> IF d = r.subject THEN [x[d] EXCEPT !.nwk = r.detail] ELSE x[d]]
  BY <1>a, <1>2
<1>4. \A d \in DOMAIN x : [x[d] EXCEPT !.nwk = r.detail] \in E
  BY <1>a, <1>1
<1>5. y \in [DOMAIN x -> E]
  <2> HIDE DEF E
  <2> QED BY <1>a, <1>3, <1>4
<1>6. y \in Told
  <2> HIDE DEF E
  <2> QED BY <1>a, <1>5
<1>7. QED
  BY <1>y, <1>a, <1>1, <1>3, <1>6 DEF AfterRejoined

LEMMA GroupReplayed ==
    ASSUME NEW x \in Told, NEW r \in Journal!RowsOfGroups
    PROVE  Journal!Replayed(x, r) = x
BY DEF Journal!Replayed, Journal!RowsOfGroups, Journal!RowsOf, Journal!GroupKinds

LEMMA ReplayedTold ==
    ASSUME NEW x \in Told, NEW r \in Journal!Rows
    PROVE  Journal!Replayed(x, r) \in Told
<1>1. CASE r \in Journal!AddedRows
  <2>1. AfterAdded(x, r, Journal!Replayed(x, r))
    BY <1>1, AddedReplayed
  <2>2. QED
    BY <2>1 DEF AfterAdded
<1>2. CASE r \in Journal!RemovedRows
  <2>1. AfterRemoved(x, r, Journal!Replayed(x, r))
    BY <1>2, RemovedReplayed
  <2>2. QED
    BY <2>1 DEF AfterRemoved
<1>3. CASE r \in Journal!RenamedRows
  <2>1. AfterRenamed(x, r, Journal!Replayed(x, r))
    BY <1>3, RenamedReplayed
  <2>2. QED
    BY <2>1 DEF AfterRenamed
<1>4. CASE r \in Journal!RejoinedRows
  <2>1. AfterRejoined(x, r, Journal!Replayed(x, r))
    BY <1>4, RejoinedReplayed
  <2>2. QED
    BY <2>1 DEF AfterRejoined
<1>5. CASE r \in Journal!RowsOfGroups
  BY <1>5, GroupReplayed
<1>6. QED
  BY <1>1, <1>2, <1>3, <1>4, <1>5 DEF Journal!Rows

\* A replay is a run over the rows.
LEMMA ReplayRuns ==
    ASSUME NEW x \in Told, NEW q \in Seq(Journal!Rows)
    PROVE  \E f : /\ f \in [0 .. Len(q) -> Told] /\ f[0] = x /\ Journal!Replay(x, q) = f[Len(q)]
                  /\ \A k \in 1 .. Len(q) : f[k] = Journal!Replayed(f[k - 1], q[k])
<1> DEFINE n == Len(q)
           Def(f) == f = [k \in 0 .. n |-> IF k = 0 THEN x ELSE Journal!Replayed(f[k - 1], q[k])]
           f == CHOOSE f : Def(f)
           g == [z \in Told \X (1 .. n) |-> Journal!Replayed(z[1], q[z[2]])]
<1>1. n \in Nat /\ \A k \in 1 .. n : q[k] \in Journal!Rows
  BY LenProperties, ElementOfSeq
<1> HIDE DEF n
<1>2. \A t \in Told, k \in 1 .. n : Journal!Replayed(t, q[k]) \in Told
  BY <1>1, ReplayedTold
<1>3. g \in Steps(Told, n) /\ \A t \in Told, k \in 1 .. n : g[<<t, k>>] = Journal!Replayed(t, q[k])
  BY <1>2 DEF Steps
<1> HIDE DEF g
<1>4. PICK h : Run(Told, n, x, g, h)
  BY <1>1, <1>3, Iterates
<1>5. \A k \in 1 .. n : h[k] = Journal!Replayed(h[k - 1], q[k])
  <2>1. \A k \in 1 .. n : k - 1 \in 0 .. n
    BY <1>1
  <2>2. \A k \in 1 .. n : h[k - 1] \in Told
    BY <1>4, <2>1 DEF Run
  <2>3. QED
    BY <1>3, <1>4, <2>2 DEF Run
<1>6. Def(h)
  <2>1. \A k \in 0 .. n : k # 0 => k \in 1 .. n
    BY <1>1
  <2>2. \A k \in 0 .. n : h[k] = IF k = 0 THEN x ELSE Journal!Replayed(h[k - 1], q[k])
    BY <1>4, <1>5, <2>1 DEF Run
  <2>3. QED
    BY <1>4, <2>2 DEF Run
<1>7. Def(f)
  <2> HIDE DEF Def
  <2> QED BY <1>6
<1>8. Journal!Replay(x, q) = f[n]
  BY DEF Journal!Replay, n
<1> HIDE DEF f
<1>9. f[0] = x /\ \A k \in 1 .. n : f[k] = Journal!Replayed(f[k - 1], q[k])
  BY <1>1, <1>7
<1>10. \A k \in Nat : k <= n => f[k] \in Told
  <2> DEFINE N == {k \in Nat : k <= n => f[k] \in Told}
  <2>1. 0 \in N
    BY <1>9
  <2>2. ASSUME NEW k \in Nat, k \in N PROVE k + 1 \in N
    <3>1. SUFFICES ASSUME k + 1 <= n PROVE f[k + 1] \in Told
      OBVIOUS
    <3>2. k + 1 \in 1 .. n /\ f[k] \in Told
      BY <1>1, <2>2, <3>1
    <3>3. QED
      BY <1>2, <1>9, <3>2
  <2> HIDE DEF N
  <2>3. Nat \subseteq N
    BY <2>1, <2>2, SetInduction
  <2>4. QED
    BY <2>3 DEF N
<1>11. f \in [0 .. n -> Told]
  <2>1. \A k \in 0 .. n : k \in Nat /\ k <= n
    BY <1>1
  <2>2. f = [k \in 0 .. n |-> IF k = 0 THEN x ELSE Journal!Replayed(f[k - 1], q[k])]
    BY <1>7
  <2>3. DOMAIN f = 0 .. n /\ f = [k \in 0 .. n |-> f[k]]
    <3> HIDE DEF Def
    <3> QED BY <2>2
  <2>4. QED
    BY <1>10, <2>1, <2>3
<1>12. QED
  BY <1>8, <1>9, <1>11 DEF n

\* What the start has and each row keeps, a replay has.
LEMMA ReplayKeeps ==
    ASSUME NEW x \in Told, NEW q \in Seq(Journal!Rows), NEW W, <<0, x>> \in W,
           \A k \in 1 .. Len(q) : \A y \in Told :
             <<k - 1, y>> \in W => <<k, Journal!Replayed(y, q[k])>> \in W
    PROVE  <<Len(q), Journal!Replay(x, q)>> \in W /\ Journal!Replay(x, q) \in Told
<1> DEFINE n == Len(q)
<1>1. n \in Nat
  BY LenProperties
<1>2. PICK f : /\ f \in [0 .. n -> Told] /\ f[0] = x /\ Journal!Replay(x, q) = f[n]
               /\ \A k \in 1 .. n : f[k] = Journal!Replayed(f[k - 1], q[k])
  BY ReplayRuns
<1> HIDE DEF n
<1> DEFINE N == {k \in Nat : k <= n => <<k, f[k]>> \in W}
<1>3. 0 \in N
  BY <1>2
<1>4. ASSUME NEW k \in Nat, k \in N PROVE k + 1 \in N
  <2>1. SUFFICES ASSUME k + 1 <= n PROVE <<k + 1, f[k + 1]>> \in W
    OBVIOUS
  <2>2. k + 1 \in 1 .. n /\ k \in 0 .. n /\ (k + 1) - 1 = k /\ <<k, f[k]>> \in W
    BY <1>1, <1>4, <2>1
  <2>3. f[k] \in Told /\ f[k + 1] = Journal!Replayed(f[k], q[k + 1])
    BY <1>2, <2>2
  <2>4. QED
    BY <2>2, <2>3 DEF n
<1>5. n \in N
  <2> HIDE DEF N
  <2>1. Nat \subseteq N
    BY <1>3, <1>4, SetInduction
  <2>2. QED
    BY <1>1, <2>1
<1>6. n \in 0 .. n
  BY <1>1
<1>7. QED
  BY <1>1, <1>2, <1>5, <1>6 DEF n

\* More rows are replayed from where the first ones end.
LEMMA ReplayConcat ==
    ASSUME NEW x \in Told, NEW a \in Seq(Journal!Rows), NEW b \in Seq(Journal!Rows)
    PROVE  Journal!Replay(x, a \o b) = Journal!Replay(Journal!Replay(x, a), b)
<1> DEFINE m == Len(a)
           n == Len(b)
           q == a \o b
<1>1. /\ m \in Nat /\ n \in Nat /\ q \in Seq(Journal!Rows) /\ Len(q) = m + n
      /\ \A k \in 1 .. m + n : q[k] = IF k <= m THEN a[k] ELSE b[k - m]
  BY LenProperties, ConcatProperties
<1>2. PICK f : /\ f \in [0 .. m -> Told] /\ f[0] = x /\ Journal!Replay(x, a) = f[m]
               /\ \A k \in 1 .. m : f[k] = Journal!Replayed(f[k - 1], a[k])
  BY ReplayRuns
<1> HIDE DEF m, n, q
<1> DEFINE W == {z \in Nat \X Told : z[1] <= m => z[2] = f[z[1]]}
           y == Journal!Replay(x, a)
<1>3. y \in Told
  BY <1>1, <1>2
<1>4. PICK g : /\ g \in [0 .. n -> Told] /\ g[0] = y /\ Journal!Replay(y, b) = g[n]
               /\ \A k \in 1 .. n : g[k] = Journal!Replayed(g[k - 1], b[k])
  BY <1>3, ReplayRuns DEF n
<1> DEFINE F(k) == IF k <= m THEN f[k] ELSE g[k - m]
           V == {z \in Nat \X Told : z[2] = F(z[1])}
<1>5. <<0, x>> \in V
  BY <1>1, <1>2
<1>6. ASSUME NEW k \in 1 .. m + n, NEW t \in Told, <<k - 1, t>> \in V
      PROVE  <<k, Journal!Replayed(t, q[k])>> \in V
  <2>1. k - 1 \in Nat /\ t = F(k - 1) /\ k \in Nat
    BY <1>1, <1>6
  <2>2. q[k] \in Journal!Rows
    BY <1>1, ElementOfSeq
  <2>3. Journal!Replayed(t, q[k]) \in Told
    BY <2>2, ReplayedTold
  <2>4. Journal!Replayed(t, q[k]) = F(k)
    <3>1. CASE k <= m
      <4>1. k \in 1 .. m /\ q[k] = a[k] /\ t = f[k - 1] /\ F(k) = f[k]
        BY <1>1, <2>1, <3>1
      <4>2. QED
        BY <1>2, <4>1
    <3>2. CASE k = m + 1
      <4>1. q[k] = b[1] /\ t = f[m] /\ F(k) = g[1] /\ 1 \in 1 .. n /\ 1 - 1 = 0
        BY <1>1, <2>1, <3>2
      <4>2. QED
        BY <1>2, <1>4, <4>1
    <3>3. CASE k > m + 1
      <4>1. /\ q[k] = b[k - m] /\ t = g[(k - m) - 1] /\ F(k) = g[k - m] /\ k - m \in 1 .. n
        BY <1>1, <2>1, <3>3
      <4>2. QED
        BY <1>4, <4>1
    <3>4. QED
      BY <1>1, <3>1, <3>2, <3>3
  <2>5. QED
    BY <2>1, <2>3, <2>4
<1>7. <<m + n, Journal!Replay(x, q)>> \in V
  <2> HIDE DEF V
  <2> QED BY <1>1, <1>5, <1>6, ReplayKeeps
<1>8. F(m + n) = g[n]
  <2>1. CASE n = 0
    BY <1>1, <1>2, <1>4, <2>1
  <2>2. CASE n # 0
    BY <1>1, <2>2
  <2>3. QED
    BY <2>1, <2>2
<1>9. QED
  BY <1>4, <1>7, <1>8 DEF q

\* What the rows of a kind do to it, S being the devices they are about.
AddedAll(x, S, new, y) ==
    /\ y \in Told /\ DOMAIN y = DOMAIN x \cup S
    /\ \A d \in DOMAIN y : y[d] = IF d \in S THEN [name |-> new[d].name, nwk |-> None] ELSE x[d]
LeftAll(x, S, y) ==
    y \in Told /\ DOMAIN y = DOMAIN x \ S /\ \A d \in DOMAIN y : y[d] = x[d]
NamedAll(x, S, new, y) ==
    /\ y \in Told /\ DOMAIN y = DOMAIN x
    /\ \A d \in DOMAIN y : /\ y[d].name = IF d \in S THEN new[d].name ELSE x[d].name
                           /\ y[d].nwk = x[d].nwk
AddressedAll(x, S, new, y) ==
    /\ y \in Told /\ DOMAIN y = DOMAIN x
    /\ \A d \in DOMAIN y : /\ y[d].nwk = IF d \in S THEN new[d].nwk ELSE x[d].nwk
                           /\ y[d].name = x[d].name

\* The rows of each kind: of new devices, ...
LEMMA AddsReplayed ==
    ASSUME NEW x \in Told, NEW q \in Seq(Journal!AddedRows), NEW new
    PROVE  (\A k \in 1 .. Len(q) : q[k].detail.name = new[q[k].subject].name) =>
           AddedAll(x, {q[k].subject : k \in 1 .. Len(q)}, new, Journal!Replay(x, q))
<1> DEFINE S(k) == {q[j].subject : j \in 1 .. k}
           Fine(k, y) == /\ DOMAIN y = DOMAIN x \cup S(k)
                         /\ \A d \in DOMAIN y :
                              y[d] = IF d \in S(k) THEN [name |-> new[d].name, nwk |-> None] ELSE x[d]
           W == {z \in Nat \X Told : Fine(z[1], z[2])}
<1> SUFFICES ASSUME \A k \in 1 .. Len(q) : q[k].detail.name = new[q[k].subject].name
             PROVE  AddedAll(x, S(Len(q)), new, Journal!Replay(x, q))
  OBVIOUS
<1>1. /\ Len(q) \in Nat /\ q \in Seq(Journal!Rows)
      /\ \A k \in 1 .. Len(q) : q[k] \in Journal!AddedRows /\ q[k] \in Journal!Rows
  <2>1. Journal!AddedRows \subseteq Journal!Rows
    BY DEF Journal!Rows
  <2>2. QED
    BY <2>1, LenProperties, SeqMonotonic, ElementOfSeq
<1>2. <<0, x>> \in W
  <2>1. S(0) = {}
    OBVIOUS
  <2>2. QED
    BY <2>1
<1>3. ASSUME NEW k \in 1 .. Len(q), NEW t \in Told, <<k - 1, t>> \in W
      PROVE  <<k, Journal!Replayed(t, q[k])>> \in W
  <2> DEFINE r == q[k]
  <2>0. PICK y : y = Journal!Replayed(t, r)
    OBVIOUS
  <2>1. S(k) = S(k - 1) \cup {r.subject}
    <3>1. 1 .. k = (1 .. k - 1) \cup {k}
      BY <1>1
    <3>2. QED
      BY <3>1
  <2>2. /\ y \in Told /\ DOMAIN y = DOMAIN t \cup {r.subject}
        /\ \A d \in DOMAIN y :
             y[d] = IF d = r.subject THEN [name |-> r.detail.name, nwk |-> None] ELSE t[d]
    <3>1. r \in Journal!AddedRows /\ r \in Journal!Rows
      BY <1>1
    <3> HIDE DEF r
    <3>2. AfterAdded(t, r, y)
      BY <2>0, <3>1, AddedReplayed
    <3>3. QED
      BY <3>2 DEF AfterAdded
  <2>3. r.detail.name = new[r.subject].name
    OBVIOUS
  <2>4. Fine(k - 1, t) /\ k \in Nat
    <3> HIDE DEF Fine
    <3> QED BY <1>1, <1>3
  <2> HIDE DEF S, r
  <2>5. Fine(k, y)
    BY <2>1, <2>2, <2>3, <2>4
  <2> HIDE DEF Fine
  <2>6. QED
    BY <2>0, <2>2, <2>4, <2>5 DEF r
<1>4. <<Len(q), Journal!Replay(x, q)>> \in W /\ Journal!Replay(x, q) \in Told
  <2> HIDE DEF W
  <2> QED BY <1>1, <1>2, <1>3, ReplayKeeps
<1>5. PICK y : y = Journal!Replay(x, q)
  OBVIOUS
<1>6. QED
  BY <1>4, <1>5 DEF AddedAll

\* ... of devices that left, ...
LEMMA LeavesReplayed ==
    ASSUME NEW x \in Told, NEW q \in Seq(Journal!RemovedRows)
    PROVE  LeftAll(x, {q[k].subject : k \in 1 .. Len(q)}, Journal!Replay(x, q))
<1> DEFINE S(k) == {q[j].subject : j \in 1 .. k}
           Fine(k, y) == DOMAIN y = DOMAIN x \ S(k) /\ \A d \in DOMAIN y : y[d] = x[d]
           W == {z \in Nat \X Told : Fine(z[1], z[2])}
<1>1. /\ Len(q) \in Nat /\ q \in Seq(Journal!Rows)
      /\ \A k \in 1 .. Len(q) : q[k] \in Journal!RemovedRows /\ q[k] \in Journal!Rows
  <2>1. Journal!RemovedRows \subseteq Journal!Rows
    BY DEF Journal!Rows
  <2>2. QED
    BY <2>1, LenProperties, SeqMonotonic, ElementOfSeq
<1>2. <<0, x>> \in W
  <2>1. S(0) = {}
    OBVIOUS
  <2>2. QED
    BY <2>1
<1>3. ASSUME NEW k \in 1 .. Len(q), NEW t \in Told, <<k - 1, t>> \in W
      PROVE  <<k, Journal!Replayed(t, q[k])>> \in W
  <2> DEFINE r == q[k]
  <2>0. PICK y : y = Journal!Replayed(t, r)
    OBVIOUS
  <2>1. S(k) = S(k - 1) \cup {r.subject}
    <3>1. 1 .. k = (1 .. k - 1) \cup {k}
      BY <1>1
    <3>2. QED
      BY <3>1
  <2>2. y \in Told /\ DOMAIN y = DOMAIN t \ {r.subject} /\ \A d \in DOMAIN y : y[d] = t[d]
    <3>1. r \in Journal!RemovedRows /\ r \in Journal!Rows
      BY <1>1
    <3> HIDE DEF r
    <3>2. AfterRemoved(t, r, y)
      BY <2>0, <3>1, RemovedReplayed
    <3>3. QED
      BY <3>2 DEF AfterRemoved
  <2>4. Fine(k - 1, t) /\ k \in Nat
    <3> HIDE DEF Fine
    <3> QED BY <1>1, <1>3
  <2> HIDE DEF S, r
  <2>5. Fine(k, y)
    BY <2>1, <2>2, <2>4
  <2> HIDE DEF Fine
  <2>6. QED
    BY <2>0, <2>2, <2>4, <2>5 DEF r
<1>4. <<Len(q), Journal!Replay(x, q)>> \in W /\ Journal!Replay(x, q) \in Told
  <2> HIDE DEF W
  <2> QED BY <1>1, <1>2, <1>3, ReplayKeeps
<1>5. PICK y : y = Journal!Replay(x, q)
  OBVIOUS
<1>6. QED
  BY <1>4, <1>5 DEF LeftAll

\* ... of new names, ...
LEMMA NamesReplayed ==
    ASSUME NEW x \in Told, NEW q \in Seq(Journal!RenamedRows), NEW new
    PROVE  (\A k \in 1 .. Len(q) : q[k].detail = new[q[k].subject].name) =>
           NamedAll(x, {q[k].subject : k \in 1 .. Len(q)}, new, Journal!Replay(x, q))
<1> DEFINE S(k) == {q[j].subject : j \in 1 .. k}
           Fine(k, y) == /\ DOMAIN y = DOMAIN x
                         /\ \A d \in DOMAIN y :
                              /\ y[d].name = IF d \in S(k) THEN new[d].name ELSE x[d].name
                              /\ y[d].nwk = x[d].nwk
           W == {z \in Nat \X Told : Fine(z[1], z[2])}
<1> SUFFICES ASSUME \A k \in 1 .. Len(q) : q[k].detail = new[q[k].subject].name
             PROVE  NamedAll(x, S(Len(q)), new, Journal!Replay(x, q))
  OBVIOUS
<1>1. /\ Len(q) \in Nat /\ q \in Seq(Journal!Rows)
      /\ \A k \in 1 .. Len(q) : q[k] \in Journal!RenamedRows /\ q[k] \in Journal!Rows
  <2>1. Journal!RenamedRows \subseteq Journal!Rows
    BY DEF Journal!Rows
  <2>2. QED
    BY <2>1, LenProperties, SeqMonotonic, ElementOfSeq
<1>2. <<0, x>> \in W
  <2>1. S(0) = {}
    OBVIOUS
  <2>2. QED
    BY <2>1
<1>3. ASSUME NEW k \in 1 .. Len(q), NEW t \in Told, <<k - 1, t>> \in W
      PROVE  <<k, Journal!Replayed(t, q[k])>> \in W
  <2> DEFINE r == q[k]
  <2>0. PICK y : y = Journal!Replayed(t, r)
    OBVIOUS
  <2>1. S(k) = S(k - 1) \cup {r.subject}
    <3>1. 1 .. k = (1 .. k - 1) \cup {k}
      BY <1>1
    <3>2. QED
      BY <3>1
  <2>2. /\ y \in Told /\ DOMAIN y = DOMAIN t
        /\ \A d \in DOMAIN y : /\ y[d].name = IF d = r.subject THEN r.detail ELSE t[d].name
                               /\ y[d].nwk = t[d].nwk
    <3>1. r \in Journal!RenamedRows /\ r \in Journal!Rows
      BY <1>1
    <3> HIDE DEF r
    <3>2. AfterRenamed(t, r, y)
      BY <2>0, <3>1, RenamedReplayed
    <3>3. QED
      BY <3>2 DEF AfterRenamed
  <2>3. r.detail = new[r.subject].name
    OBVIOUS
  <2>4. Fine(k - 1, t) /\ k \in Nat
    <3> HIDE DEF Fine
    <3> QED BY <1>1, <1>3
  <2> HIDE DEF S, r
  <2>5. Fine(k, y)
    BY <2>1, <2>2, <2>3, <2>4
  <2> HIDE DEF Fine
  <2>6. QED
    BY <2>0, <2>2, <2>4, <2>5 DEF r
<1>4. <<Len(q), Journal!Replay(x, q)>> \in W /\ Journal!Replay(x, q) \in Told
  <2> HIDE DEF W
  <2> QED BY <1>1, <1>2, <1>3, ReplayKeeps
<1>5. PICK y : y = Journal!Replay(x, q)
  OBVIOUS
<1>6. QED
  BY <1>4, <1>5 DEF NamedAll

\* ... of new addresses, ...
LEMMA AddressesReplayed ==
    ASSUME NEW x \in Told, NEW q \in Seq(Journal!RejoinedRows), NEW new
    PROVE  (\A k \in 1 .. Len(q) : q[k].detail = new[q[k].subject].nwk) =>
           AddressedAll(x, {q[k].subject : k \in 1 .. Len(q)}, new, Journal!Replay(x, q))
<1> DEFINE S(k) == {q[j].subject : j \in 1 .. k}
           Fine(k, y) == /\ DOMAIN y = DOMAIN x
                         /\ \A d \in DOMAIN y :
                              /\ y[d].nwk = IF d \in S(k) THEN new[d].nwk ELSE x[d].nwk
                              /\ y[d].name = x[d].name
           W == {z \in Nat \X Told : Fine(z[1], z[2])}
<1> SUFFICES ASSUME \A k \in 1 .. Len(q) : q[k].detail = new[q[k].subject].nwk
             PROVE  AddressedAll(x, S(Len(q)), new, Journal!Replay(x, q))
  OBVIOUS
<1>1. /\ Len(q) \in Nat /\ q \in Seq(Journal!Rows)
      /\ \A k \in 1 .. Len(q) : q[k] \in Journal!RejoinedRows /\ q[k] \in Journal!Rows
  <2>1. Journal!RejoinedRows \subseteq Journal!Rows
    BY DEF Journal!Rows
  <2>2. QED
    BY <2>1, LenProperties, SeqMonotonic, ElementOfSeq
<1>2. <<0, x>> \in W
  <2>1. S(0) = {}
    OBVIOUS
  <2>2. QED
    BY <2>1
<1>3. ASSUME NEW k \in 1 .. Len(q), NEW t \in Told, <<k - 1, t>> \in W
      PROVE  <<k, Journal!Replayed(t, q[k])>> \in W
  <2> DEFINE r == q[k]
  <2>0. PICK y : y = Journal!Replayed(t, r)
    OBVIOUS
  <2>1. S(k) = S(k - 1) \cup {r.subject}
    <3>1. 1 .. k = (1 .. k - 1) \cup {k}
      BY <1>1
    <3>2. QED
      BY <3>1
  <2>2. /\ y \in Told /\ DOMAIN y = DOMAIN t
        /\ \A d \in DOMAIN y : /\ y[d].nwk = IF d = r.subject THEN r.detail ELSE t[d].nwk
                               /\ y[d].name = t[d].name
    <3>1. r \in Journal!RejoinedRows /\ r \in Journal!Rows
      BY <1>1
    <3> HIDE DEF r
    <3>2. AfterRejoined(t, r, y)
      BY <2>0, <3>1, RejoinedReplayed
    <3>3. QED
      BY <3>2 DEF AfterRejoined
  <2>3. r.detail = new[r.subject].nwk
    OBVIOUS
  <2>4. Fine(k - 1, t) /\ k \in Nat
    <3> HIDE DEF Fine
    <3> QED BY <1>1, <1>3
  <2> HIDE DEF S, r
  <2>5. Fine(k, y)
    BY <2>1, <2>2, <2>3, <2>4
  <2> HIDE DEF Fine
  <2>6. QED
    BY <2>0, <2>2, <2>4, <2>5 DEF r
<1>4. <<Len(q), Journal!Replay(x, q)>> \in W /\ Journal!Replay(x, q) \in Told
  <2> HIDE DEF W
  <2> QED BY <1>1, <1>2, <1>3, ReplayKeeps
<1>5. PICK y : y = Journal!Replay(x, q)
  OBVIOUS
<1>6. QED
  BY <1>4, <1>5 DEF AddressedAll

\* ... and of groups, which tell nothing of devices.
LEMMA GroupsReplayed ==
    ASSUME NEW x \in Told, NEW q \in Seq(Journal!Rows),
           \A k \in 1 .. Len(q) : q[k] \in Journal!RowsOfGroups
    PROVE  Journal!Replay(x, q) = x
<1> DEFINE W == {z \in Nat \X Told : z[2] = x}
<1>1. Len(q) \in Nat /\ \A k \in 1 .. Len(q) : q[k] \in Journal!Rows
  BY LenProperties, ElementOfSeq
<1>2. ASSUME NEW k \in 1 .. Len(q), NEW t \in Told, <<k - 1, t>> \in W
      PROVE  <<k, Journal!Replayed(t, q[k])>> \in W
  <2>1. Journal!Replayed(t, q[k]) = t
    BY GroupReplayed
  <2>2. QED
    BY <1>1, <1>2, <2>1
<1>3. <<0, x>> \in W
  OBVIOUS
<1>4. <<Len(q), Journal!Replay(x, q)>> \in W
  <2> HIDE DEF W
  <2> QED BY <1>2, <1>3, ReplayKeeps
<1>5. QED
  BY <1>4

\* What a sequence holds.
Items(q) == {q[k] : k \in 1 .. Len(q)}
LEMMA ItemsFacts ==
    ASSUME NEW S, NEW q \in Seq(S)
    PROVE  /\ Items(q) \subseteq S /\ DOMAIN q = 1 .. Len(q) /\ Len(q) \in Nat
           /\ \A T : Items(q) \subseteq T => q \in Seq(T)
<1>1. Len(q) \in Nat /\ DOMAIN q = 1 .. Len(q) /\ q \in [1 .. Len(q) -> S]
  BY LenProperties
<1>2. Items(q) \subseteq S
  BY <1>1 DEF Items
<1>3. ASSUME NEW T, Items(q) \subseteq T PROVE q \in Seq(T)
  <2>1. q \in [1 .. Len(q) -> T]
    BY <1>1, <1>3 DEF Items
  <2>2. QED
    BY <1>1, <2>1, IsASeq
<1>4. QED
  BY <1>1, <1>2, <1>3

LEMMA ItemsConcat ==
    ASSUME NEW S, NEW a \in Seq(S), NEW b \in Seq(S)
    PROVE  a \o b \in Seq(S) /\ Items(a \o b) = Items(a) \cup Items(b)
<1> DEFINE m == Len(a)
           n == Len(b)
           q == a \o b
<1>1. /\ m \in Nat /\ n \in Nat /\ q \in Seq(S) /\ Len(q) = m + n
      /\ \A k \in 1 .. m + n : q[k] = IF k <= m THEN a[k] ELSE b[k - m]
  BY LenProperties, ConcatProperties
<1> HIDE DEF m, n, q
<1>2. ASSUME NEW k \in 1 .. m + n PROVE q[k] \in Items(a) \cup Items(b)
  <2>1. CASE k <= m
    <3>1. k \in 1 .. m
      BY <1>1, <2>1
    <3>2. QED
      BY <1>1, <2>1, <3>1 DEF Items, m
  <2>2. CASE ~(k <= m)
    <3>1. k - m \in 1 .. n
      BY <1>1, <2>2
    <3>2. QED
      BY <1>1, <2>2, <3>1 DEF Items, n
  <2>3. QED
    BY <2>1, <2>2
<1>3. ASSUME NEW k \in 1 .. m PROVE a[k] \in Items(q)
  <2>1. k \in 1 .. m + n /\ q[k] = a[k]
    BY <1>1
  <2>2. QED
    BY <1>1, <2>1 DEF Items
<1>4. ASSUME NEW k \in 1 .. n PROVE b[k] \in Items(q)
  <2>1. k + m \in 1 .. m + n /\ ~(k + m <= m) /\ (k + m) - m = k
    BY <1>1
  <2>2. q[k + m] = b[k]
    BY <1>1, <2>1
  <2>3. QED
    BY <1>1, <2>1, <2>2 DEF Items
<1>5. Items(q) \subseteq Items(a) \cup Items(b)
  BY <1>1, <1>2 DEF Items
<1>6. Items(a) \subseteq Items(q) /\ Items(b) \subseteq Items(q)
  BY <1>3, <1>4 DEF Items, m, n
<1>7. QED
  BY <1>1, <1>5, <1>6 DEF q

\* A finite set is put in some order, and each element is in it.
LEMMA InOrder ==
    ASSUME NEW S, IsFiniteSet(S)
    PROVE  Journal!InSomeOrder(S) \in Seq(S) /\ Items(Journal!InSomeOrder(S)) = S
<1> DEFINE n == Cardinality(S)
<1>1. n \in Nat /\ ExistsBijection(1 .. n, S)
  BY FS_CardinalityType
<1>2. PICK f : f \in Bijection(1 .. n, S)
  BY <1>1 DEF ExistsBijection
<1>3. Journal!InSomeOrder(S) \in [1 .. n -> S]
      /\ \A a, b \in 1 .. n : Journal!InSomeOrder(S)[a] = Journal!InSomeOrder(S)[b] => a = b
  <2>1. /\ Journal!InSomeOrder(S) = CHOOSE g \in Journal!Injection(1 .. n, S) : TRUE
        /\ Journal!Injection(1 .. n, S) = Injection(1 .. n, S)
    BY JournalConstants DEF Journal!InSomeOrder, Journal!Injection, Journal!IsInjective, Injection, IsInjective
  <2>2. f \in Injection(1 .. n, S)
    BY <1>2 DEF Bijection
  <2> HIDE DEF n
  <2>3. Journal!InSomeOrder(S) \in Injection(1 .. n, S)
    BY <2>1, <2>2
  <2>4. QED
    BY <2>3 DEF Injection, IsInjective
<1>4. PICK q : q = Journal!InSomeOrder(S)
  OBVIOUS
<1>5. q \in Injection(1 .. n, S)
  BY <1>3, <1>4 DEF Injection, IsInjective
<1>6. q \in Surjection(1 .. n, S)
  BY <1>1, <1>5, FS_Interval, FS_Injection
<1>7. q \in Seq(S) /\ Len(q) = n
  BY <1>1, <1>3, <1>4, IsASeq, LenProperties
<1>8. Items(q) = S
  BY <1>3, <1>4, <1>6, <1>7 DEF Items, Surjection
<1>9. QED
  BY <1>4, <1>7, <1>8

\* The rows of a finite set of devices, one each.
LEMMA RowsOfDevices ==
    ASSUME NEW D \in SUBSET Devices, NEW f \in [D -> Journal!Rows]
    PROVE  LET R == {f[d] : d \in D}
               q == Journal!InSomeOrder(R)
           IN q \in Seq(R) /\ Items(q) = R
<1> DEFINE R == {f[d] : d \in D}
<1>1. IsFiniteSet(D)
  BY JournalConstants, FS_Subset
<1>2. f \in Surjection(D, R)
  BY DEF Surjection
<1>3. IsFiniteSet(R)
  BY <1>1, <1>2, FS_Surjection
<1>4. QED
  BY <1>3, InOrder

\* The rows one list of devices gives, by their kinds.
AddsOf(i, old, new) ==
    {Journal!Row(i, "device_added", d, [name |-> new[d].name, from |-> Journal!MovedFrom(d, i)]) :
       d \in Journal!Added(old, new)}
LeavesOf(i, old, new) ==
    {Journal!Row(i, "device_removed", d, None) : d \in Journal!Removed(old, new)}
NamesOf(i, old, new) ==
    {Journal!Row(i, "device_renamed", d, new[d].name) : d \in Journal!Renamed(old, new)}
AddressesOf(i, old, new) ==
    {Journal!Row(i, "device_rejoined", d, new[d].nwk) : d \in Journal!Rejoined(old, new)}

RemovalsTyped ==
    /\ DOMAIN removals \subseteq Devices /\ removals = [d \in DOMAIN removals |-> removals[d]]
    /\ \A d \in DOMAIN removals : removals[d].from \in Instances

LEMMA DeviceRowSets ==
    ASSUME NEW i \in Instances, NEW old \in Journal!Lists, NEW new \in Journal!Lists, RemovalsTyped
    PROVE  /\ LET R == AddsOf(i, old, new) IN
              R \subseteq Journal!AddedRows /\ Journal!InSomeOrder(R) \in Seq(R) /\ Items(Journal!InSomeOrder(R)) = R
           /\ LET R == LeavesOf(i, old, new) IN
              R \subseteq Journal!RemovedRows /\ Journal!InSomeOrder(R) \in Seq(R) /\ Items(Journal!InSomeOrder(R)) = R
           /\ LET R == NamesOf(i, old, new) IN
              R \subseteq Journal!RenamedRows /\ Journal!InSomeOrder(R) \in Seq(R) /\ Items(Journal!InSomeOrder(R)) = R
           /\ LET R == AddressesOf(i, old, new) IN
              R \subseteq Journal!RejoinedRows /\ Journal!InSomeOrder(R) \in Seq(R) /\ Items(Journal!InSomeOrder(R)) = R
<1> DEFINE fA == [d \in Journal!Added(old, new) |->
                    Journal!Row(i, "device_added", d, [name |-> new[d].name, from |-> Journal!MovedFrom(d, i)])]
           fL == [d \in Journal!Removed(old, new) |-> Journal!Row(i, "device_removed", d, None)]
           fN == [d \in Journal!Renamed(old, new) |-> Journal!Row(i, "device_renamed", d, new[d].name)]
           fR == [d \in Journal!Rejoined(old, new) |-> Journal!Row(i, "device_rejoined", d, new[d].nwk)]
<1>1. /\ DOMAIN old \in SUBSET Devices /\ DOMAIN new \in SUBSET Devices
      /\ \A d \in DOMAIN new : new[d].name \in Journal!Names /\ new[d].nwk \in Journal!Addresses
  BY ToldFacts, JournalConstants
<1>2. /\ Journal!Added(old, new) \in SUBSET Devices /\ Journal!Added(old, new) \subseteq DOMAIN new
      /\ Journal!Removed(old, new) \in SUBSET Devices
      /\ Journal!Renamed(old, new) \in SUBSET Devices /\ Journal!Renamed(old, new) \subseteq DOMAIN new
      /\ Journal!Rejoined(old, new) \in SUBSET Devices /\ Journal!Rejoined(old, new) \subseteq DOMAIN new
  BY <1>1 DEF Journal!Added, Journal!Removed, Journal!Renamed, Journal!Rejoined
<1>3. \A d \in Devices : Journal!MovedFrom(d, i) \in Instances \cup {None}
  BY DEF Journal!MovedFrom, RemovalsTyped
<1>4. /\ \A d \in Journal!Added(old, new) :
           Journal!Row(i, "device_added", d, [name |-> new[d].name, from |-> Journal!MovedFrom(d, i)])
             \in Journal!AddedRows
      /\ \A d \in Journal!Removed(old, new) :
           Journal!Row(i, "device_removed", d, None) \in Journal!RemovedRows
      /\ \A d \in Journal!Renamed(old, new) :
           Journal!Row(i, "device_renamed", d, new[d].name) \in Journal!RenamedRows
      /\ \A d \in Journal!Rejoined(old, new) :
           Journal!Row(i, "device_rejoined", d, new[d].nwk) \in Journal!RejoinedRows
  <2>1. \A n \in Journal!Names, m \in Instances \cup {None} :
          [name |-> n, from |-> m] \in [name : Journal!Names, from : Instances \cup {None}]
    OBVIOUS
  <2>2. QED
    BY <1>1, <1>2, <1>3, <2>1
    DEF Journal!AddedRows, Journal!RemovedRows, Journal!RenamedRows, Journal!RejoinedRows,
        Journal!RowsOf, Journal!Row
<1>5. /\ Journal!AddedRows \subseteq Journal!Rows /\ Journal!RemovedRows \subseteq Journal!Rows
      /\ Journal!RenamedRows \subseteq Journal!Rows /\ Journal!RejoinedRows \subseteq Journal!Rows
  BY DEF Journal!Rows
<1>6. /\ fA \in [Journal!Added(old, new) -> Journal!Rows]
      /\ fL \in [Journal!Removed(old, new) -> Journal!Rows]
      /\ fN \in [Journal!Renamed(old, new) -> Journal!Rows]
      /\ fR \in [Journal!Rejoined(old, new) -> Journal!Rows]
  BY <1>4, <1>5
<1>7. /\ AddsOf(i, old, new) = {fA[d] : d \in Journal!Added(old, new)}
      /\ LeavesOf(i, old, new) = {fL[d] : d \in Journal!Removed(old, new)}
      /\ NamesOf(i, old, new) = {fN[d] : d \in Journal!Renamed(old, new)}
      /\ AddressesOf(i, old, new) = {fR[d] : d \in Journal!Rejoined(old, new)}
  BY DEF AddsOf, LeavesOf, NamesOf, AddressesOf
<1>8. /\ AddsOf(i, old, new) \subseteq Journal!AddedRows
      /\ LeavesOf(i, old, new) \subseteq Journal!RemovedRows
      /\ NamesOf(i, old, new) \subseteq Journal!RenamedRows
      /\ AddressesOf(i, old, new) \subseteq Journal!RejoinedRows
  BY <1>4 DEF AddsOf, LeavesOf, NamesOf, AddressesOf
<1> HIDE DEF fA, fL, fN, fR
<1>9. QED
  BY <1>2, <1>6, <1>7, <1>8, RowsOfDevices

\* A list of devices as the rows tell it.
LEMMA DeviceRowsReplayed ==
    ASSUME NEW i \in Instances, NEW old \in Journal!Lists, NEW new \in Journal!Lists, RemovalsTyped,
           NEW x \in Told, Journal!Tells(x, old)
    PROVE  LET q == Journal!DeviceRows(i, old, new)
           IN /\ q \in Seq(Journal!Rows)
              /\ Items(q) = AddsOf(i, old, new) \cup LeavesOf(i, old, new) \cup NamesOf(i, old, new)
                              \cup AddressesOf(i, old, new)
              /\ Journal!Replay(x, q) \in Told /\ Journal!Tells(Journal!Replay(x, q), new)
<1> DEFINE A == AddsOf(i, old, new)
           L == LeavesOf(i, old, new)
           N == NamesOf(i, old, new)
           R == AddressesOf(i, old, new)
<1>1. PICK a, l, n, r : /\ a = Journal!InSomeOrder(A) /\ l = Journal!InSomeOrder(L)
                        /\ n = Journal!InSomeOrder(N) /\ r = Journal!InSomeOrder(R)
  OBVIOUS
<1>2. /\ A \subseteq Journal!AddedRows /\ a \in Seq(A) /\ Items(a) = A
      /\ L \subseteq Journal!RemovedRows /\ l \in Seq(L) /\ Items(l) = L
      /\ N \subseteq Journal!RenamedRows /\ n \in Seq(N) /\ Items(n) = N
      /\ R \subseteq Journal!RejoinedRows /\ r \in Seq(R) /\ Items(r) = R
  BY <1>1, DeviceRowSets
<1>3. /\ a \in Seq(Journal!AddedRows) /\ l \in Seq(Journal!RemovedRows)
      /\ n \in Seq(Journal!RenamedRows) /\ r \in Seq(Journal!RejoinedRows)
  BY <1>2, SeqMonotonic
<1>4. /\ a \in Seq(Journal!Rows) /\ l \in Seq(Journal!Rows)
      /\ n \in Seq(Journal!Rows) /\ r \in Seq(Journal!Rows)
  <2>1. /\ Journal!AddedRows \subseteq Journal!Rows /\ Journal!RemovedRows \subseteq Journal!Rows
        /\ Journal!RenamedRows \subseteq Journal!Rows /\ Journal!RejoinedRows \subseteq Journal!Rows
    BY DEF Journal!Rows
  <2>2. QED
    BY <1>3, <2>1, SeqMonotonic
<1>5. Journal!DeviceRows(i, old, new) = ((a \o l) \o n) \o r
  BY <1>1 DEF Journal!DeviceRows, AddsOf, LeavesOf, NamesOf, AddressesOf
<1>6. PICK al, aln, q : /\ al = a \o l /\ aln = al \o n /\ q = aln \o r
                        /\ al \in Seq(Journal!Rows) /\ Items(al) = A \cup L
                        /\ aln \in Seq(Journal!Rows) /\ Items(aln) = A \cup L \cup N
                        /\ q \in Seq(Journal!Rows) /\ Items(q) = A \cup L \cup N \cup R
  <2> HIDE DEF A, L, N, R
  <2>1. PICK al : al = a \o l
    OBVIOUS
  <2>2. PICK aln : aln = al \o n
    OBVIOUS
  <2>3. PICK q : q = aln \o r
    OBVIOUS
  <2>4. al \in Seq(Journal!Rows) /\ Items(al) = A \cup L
    BY <1>2, <1>4, <2>1, ItemsConcat
  <2>5. aln \in Seq(Journal!Rows) /\ Items(aln) = A \cup L \cup N
    BY <1>2, <1>4, <2>2, <2>4, ItemsConcat
  <2>6. q \in Seq(Journal!Rows) /\ Items(q) = A \cup L \cup N \cup R
    BY <1>2, <1>4, <2>3, <2>5, ItemsConcat
  <2>7. QED
    BY <2>1, <2>2, <2>3, <2>4, <2>5, <2>6
<1>7. PICK x1, x2, x3, x4 : /\ x1 = Journal!Replay(x, a) /\ x2 = Journal!Replay(x1, l)
                            /\ x3 = Journal!Replay(x2, n) /\ x4 = Journal!Replay(x3, r)
  OBVIOUS
<1>8. /\ \A s \in A : s.subject \in Journal!Added(old, new) /\ s.detail.name = new[s.subject].name
      /\ \A s \in N : s.detail = new[s.subject].name
      /\ \A s \in R : s.detail = new[s.subject].nwk
      /\ {s.subject : s \in A} = Journal!Added(old, new)
      /\ {s.subject : s \in L} = Journal!Removed(old, new)
      /\ {s.subject : s \in N} = Journal!Renamed(old, new)
      /\ {s.subject : s \in R} = Journal!Rejoined(old, new)
  <2>0. \A k, d, z : Journal!Row(i, k, d, z).subject = d /\ Journal!Row(i, k, d, z).detail = z
    BY DEF Journal!Row
  <2>1. /\ \A s \in A : /\ s.subject \in Journal!Added(old, new)
                        /\ s.detail.name = new[s.subject].name
        /\ \A d \in Journal!Added(old, new) : \E s \in A : s.subject = d
    <3>1. /\ \A s \in A : \E d \in Journal!Added(old, new) :
               s = Journal!Row(i, "device_added", d,
                               [name |-> new[d].name, from |-> Journal!MovedFrom(d, i)])
          /\ \A d \in Journal!Added(old, new) :
               Journal!Row(i, "device_added", d,
                           [name |-> new[d].name, from |-> Journal!MovedFrom(d, i)]) \in A
      BY DEF AddsOf
    <3> HIDE DEF A
    <3>2. ASSUME NEW s \in A
          PROVE  s.subject \in Journal!Added(old, new) /\ s.detail.name = new[s.subject].name
      <4>1. PICK d \in Journal!Added(old, new) :
              s = Journal!Row(i, "device_added", d, [name |-> new[d].name, from |-> Journal!MovedFrom(d, i)])
        BY <3>1
      <4>2. s.subject = d /\ s.detail = [name |-> new[d].name, from |-> Journal!MovedFrom(d, i)]
        BY <2>0, <4>1
      <4>3. s.detail.name = new[d].name
        BY <4>2
      <4>4. QED
        BY <4>2, <4>3
    <3>3. ASSUME NEW d \in Journal!Added(old, new) PROVE \E s \in A : s.subject = d
      <4>1. PICK z : z = [name |-> new[d].name, from |-> Journal!MovedFrom(d, i)]
        OBVIOUS
      <4>2. PICK s : s = Journal!Row(i, "device_added", d, z)
        OBVIOUS
      <4>3. s \in A /\ s.subject = d
        BY <2>0, <3>1, <4>1, <4>2
      <4>4. QED
        BY <4>3
    <3>4. QED
      BY <3>2, <3>3
  <2>2. /\ \A s \in L : s.subject \in Journal!Removed(old, new)
        /\ \A d \in Journal!Removed(old, new) : \E s \in L : s.subject = d
    <3>1. /\ \A s \in L : \E d \in Journal!Removed(old, new) : s = Journal!Row(i, "device_removed", d, None)
          /\ \A d \in Journal!Removed(old, new) : Journal!Row(i, "device_removed", d, None) \in L
      BY DEF LeavesOf
    <3> HIDE DEF L
    <3>2. QED
      BY <3>1, <2>0
  <2>3. /\ \A s \in N : s.subject \in Journal!Renamed(old, new) /\ s.detail = new[s.subject].name
        /\ \A d \in Journal!Renamed(old, new) : \E s \in N : s.subject = d
    <3>1. /\ \A s \in N : \E d \in Journal!Renamed(old, new) : s = Journal!Row(i, "device_renamed", d, new[d].name)
          /\ \A d \in Journal!Renamed(old, new) : Journal!Row(i, "device_renamed", d, new[d].name) \in N
      BY DEF NamesOf
    <3> HIDE DEF N
    <3>2. QED
      BY <3>1, <2>0
  <2>4. /\ \A s \in R : s.subject \in Journal!Rejoined(old, new) /\ s.detail = new[s.subject].nwk
        /\ \A d \in Journal!Rejoined(old, new) : \E s \in R : s.subject = d
    <3>1. /\ \A s \in R : \E d \in Journal!Rejoined(old, new) : s = Journal!Row(i, "device_rejoined", d, new[d].nwk)
          /\ \A d \in Journal!Rejoined(old, new) : Journal!Row(i, "device_rejoined", d, new[d].nwk) \in R
      BY DEF AddressesOf
    <3> HIDE DEF R
    <3>2. QED
      BY <3>1, <2>0
  <2> HIDE DEF A, L, N, R
  <2>5. QED
    BY <2>1, <2>2, <2>3, <2>4
<1> HIDE DEF A, L, N, R
<1>9. /\ {a[k].subject : k \in 1 .. Len(a)} = Journal!Added(old, new)
      /\ {l[k].subject : k \in 1 .. Len(l)} = Journal!Removed(old, new)
      /\ {n[k].subject : k \in 1 .. Len(n)} = Journal!Renamed(old, new)
      /\ {r[k].subject : k \in 1 .. Len(r)} = Journal!Rejoined(old, new)
  <2>1. \A z : {z[k].subject : k \in 1 .. Len(z)} = {s.subject : s \in Items(z)}
    BY DEF Items
  <2>2. QED
    BY <1>2, <1>8, <2>1
<1>10. /\ \A k \in 1 .. Len(a) : a[k] \in A
       /\ \A k \in 1 .. Len(n) : n[k] \in N
       /\ \A k \in 1 .. Len(r) : r[k] \in R
  BY <1>2 DEF Items
<1>11. /\ x1 \in Told /\ DOMAIN x1 = DOMAIN x \cup Journal!Added(old, new)
       /\ \A d \in DOMAIN x1 : x1[d] = IF d \in Journal!Added(old, new)
                                       THEN [name |-> new[d].name, nwk |-> None] ELSE x[d]
  <2>1. AddedAll(x, {a[k].subject : k \in 1 .. Len(a)}, new, Journal!Replay(x, a))
    BY <1>3, <1>7, <1>8, <1>9, <1>10, AddsReplayed
  <2>2. QED
    BY <1>7, <1>9, <2>1 DEF AddedAll
<1>12. /\ x2 \in Told /\ DOMAIN x2 = DOMAIN x1 \ Journal!Removed(old, new)
       /\ \A d \in DOMAIN x2 : x2[d] = x1[d]
  <2>1. LeftAll(x1, {l[k].subject : k \in 1 .. Len(l)}, Journal!Replay(x1, l))
    BY <1>3, <1>7, <1>9, <1>11, LeavesReplayed
  <2>2. QED
    BY <1>7, <1>9, <2>1 DEF LeftAll
<1>13. /\ x3 \in Told /\ DOMAIN x3 = DOMAIN x2
       /\ \A d \in DOMAIN x3 :
            /\ x3[d].name = IF d \in Journal!Renamed(old, new) THEN new[d].name ELSE x2[d].name
            /\ x3[d].nwk = x2[d].nwk
  <2>1. NamedAll(x2, {n[k].subject : k \in 1 .. Len(n)}, new, Journal!Replay(x2, n))
    BY <1>3, <1>7, <1>8, <1>9, <1>10, <1>12, NamesReplayed
  <2>2. QED
    BY <1>7, <1>9, <2>1 DEF NamedAll
<1>14. /\ x4 \in Told /\ DOMAIN x4 = DOMAIN x3
       /\ \A d \in DOMAIN x4 :
            /\ x4[d].nwk = IF d \in Journal!Rejoined(old, new) THEN new[d].nwk ELSE x3[d].nwk
            /\ x4[d].name = x3[d].name
  <2>1. AddressedAll(x3, {r[k].subject : k \in 1 .. Len(r)}, new, Journal!Replay(x3, r))
    BY <1>3, <1>7, <1>8, <1>9, <1>10, <1>13, AddressesReplayed
  <2>2. QED
    BY <1>7, <1>9, <2>1 DEF AddressedAll
<1>15. x4 = Journal!Replay(x, q)
  <2>1. x2 = Journal!Replay(x, al)
    BY <1>4, <1>6, <1>7, ReplayConcat
  <2>2. x3 = Journal!Replay(x, aln)
    <3>1. Journal!Replay(x, al \o n) = Journal!Replay(Journal!Replay(x, al), n)
      BY <1>4, <1>6, ReplayConcat
    <3>2. QED
      BY <1>6, <1>7, <2>1, <3>1
  <2>3. QED
    <3>1. Journal!Replay(x, aln \o r) = Journal!Replay(Journal!Replay(x, aln), r)
      BY <1>4, <1>6, ReplayConcat
    <3>2. QED
      BY <1>6, <1>7, <2>2, <3>1
<1>16. Journal!Tells(x4, new)
  <2>1. /\ DOMAIN x = DOMAIN old
        /\ \A d \in DOMAIN old : x[d].name = old[d].name /\ x[d].nwk \in {None, old[d].nwk}
    BY DEF Journal!Tells
  <2>2. DOMAIN x4 = DOMAIN new
    BY <1>11, <1>12, <1>13, <1>14, <2>1 DEF Journal!Added, Journal!Removed
  <2>3. ASSUME NEW d \in DOMAIN new
        PROVE  x4[d].name = new[d].name /\ x4[d].nwk \in {None, new[d].nwk}
    <3>1. /\ x4[d].nwk = IF d \in Journal!Rejoined(old, new) THEN new[d].nwk ELSE x1[d].nwk
          /\ x4[d].name = IF d \in Journal!Renamed(old, new) THEN new[d].name ELSE x1[d].name
          /\ x1[d] = IF d \in Journal!Added(old, new)
                     THEN [name |-> new[d].name, nwk |-> None] ELSE x[d]
      BY <1>11, <1>12, <1>13, <1>14, <2>2
    <3>2. CASE d \in DOMAIN old
      BY <2>1, <3>1, <3>2 DEF Journal!Added, Journal!Renamed, Journal!Rejoined
    <3>3. CASE d \notin DOMAIN old
      BY <3>1, <3>3 DEF Journal!Added, Journal!Renamed, Journal!Rejoined
    <3>4. QED
      BY <3>2, <3>3
  <2>4. QED
    BY <2>2, <2>3 DEF Journal!Tells
<1>17. QED
  BY <1>5, <1>6, <1>14, <1>15, <1>16 DEF A, L, N, R

\* How often a row is in a sequence: what is put together is counted together, ...
LEMMA TimesConcat ==
    ASSUME NEW S, NEW a \in Seq(S), NEW b \in Seq(S), NEW r
    PROVE  /\ Journal!Times(a \o b, r) = Journal!Times(a, r) + Journal!Times(b, r)
           /\ Journal!Times(a, r) \in Nat /\ Journal!Times(b, r) \in Nat
<1> DEFINE m == Len(a)
           n == Len(b)
           q == a \o b
           A == {k \in 1 .. m : a[k] = r}
           B == {k \in 1 .. n : b[k] = r}
           C == {k \in m + 1 .. m + n : b[k - m] = r}
<1>1. /\ m \in Nat /\ n \in Nat /\ q \in Seq(S) /\ Len(q) = m + n
      /\ DOMAIN a = 1 .. m /\ DOMAIN b = 1 .. n /\ DOMAIN q = 1 .. m + n
      /\ \A k \in 1 .. m + n : q[k] = IF k <= m THEN a[k] ELSE b[k - m]
  <2>1. q \in Seq(S) /\ Len(q) = Len(a) + Len(b)
        /\ \A k \in 1 .. m + n : q[k] = IF k <= m THEN a[k] ELSE b[k - m]
    BY ConcatProperties
  <2>2. DOMAIN q = 1 .. Len(q)
    <3> HIDE DEF q
    <3> QED BY <2>1, LenProperties
  <2>3. QED
    BY <2>1, <2>2, LenProperties
<1>2. /\ Journal!Times(a, r) = Cardinality(A) /\ Journal!Times(b, r) = Cardinality(B)
      /\ Journal!Times(q, r) = Cardinality({k \in 1 .. m + n : q[k] = r})
  BY <1>1, JournalConstants DEF Journal!Times
<1> HIDE DEF m, n, q
<1>3. {k \in 1 .. m + n : q[k] = r} = A \cup C
  <2>1. \A k \in 1 .. m + n : IF k <= m THEN k \in 1 .. m /\ k \notin m + 1 .. m + n
                              ELSE k \in m + 1 .. m + n /\ k \notin 1 .. m
    BY <1>1
  <2>2. \A k : k \in 1 .. m \/ k \in m + 1 .. m + n => k \in 1 .. m + n
    BY <1>1
  <2>3. QED
    BY <1>1, <2>1, <2>2
<1>4. A \cap C = {}
  BY <1>1
<1>5. IsFiniteSet(A) /\ IsFiniteSet(B) /\ IsFiniteSet(C)
  <2>1. IsFiniteSet(1 .. m) /\ IsFiniteSet(1 .. n) /\ IsFiniteSet(m + 1 .. m + n)
    BY <1>1, FS_Interval
  <2>2. A \in SUBSET (1 .. m) /\ B \in SUBSET (1 .. n) /\ C \in SUBSET (m + 1 .. m + n)
    OBVIOUS
  <2>3. QED
    BY <2>1, <2>2, FS_Subset
<1>6. Cardinality(C) = Cardinality(B)
  <2> DEFINE f == [k \in B |-> k + m]
  <2>1. \A k \in B : k \in Int /\ k + m \in C
    <3>1. \A k \in 1 .. n : k \in Int /\ k + m \in m + 1 .. m + n /\ (k + m) - m = k
      BY <1>1
    <3>2. QED
      BY <3>1
  <2>2. \A k \in C : k - m \in B /\ (k - m) + m = k
    <3>1. \A k \in m + 1 .. m + n : k - m \in 1 .. n /\ (k - m) + m = k
      BY <1>1
    <3>2. QED
      BY <3>1
  <2>3. \A j, k \in B : j + m = k + m => j = k
    BY <1>1
  <2> HIDE DEF B, C
  <2>4. f \in Bijection(B, C)
    <3>1. f \in [B -> C]
      BY <2>1
    <3>2. \A c \in C : \E k \in B : f[k] = c
      BY <2>2
    <3>3. \A j, k \in B : f[j] = f[k] => j = k
      BY <2>3
    <3>4. QED
      BY <3>1, <3>2, <3>3 DEF Bijection, Injection, Surjection, IsInjective
  <2>5. QED
    BY <1>5, <2>4, FS_Bijection DEF ExistsBijection
<1>7. QED
  <2> HIDE DEF A, B, C
  <2>1. Cardinality(A \cup C) = Cardinality(A) + Cardinality(C) /\ Cardinality(A) \in Nat
    BY <1>4, <1>5, CountApart
  <2>2. Journal!Times(q, r) = Journal!Times(a, r) + Journal!Times(b, r)
    BY <1>2, <1>3, <1>6, <2>1
  <2>3. Cardinality(B) \in Nat
    BY <1>5, FS_CardinalityType
  <2>4. QED
    BY <1>2, <2>1, <2>2, <2>3 DEF q

\* ... one row counts where it is that row, ...
LEMMA TimesOne ==
    ASSUME NEW s, NEW r
    PROVE  Journal!Times(<<s>>, r) = (IF s = r THEN 1 ELSE 0) /\ Journal!Times(<< >>, r) = 0
<1>1. Journal!Times(<<s>>, r) = Cardinality({k \in 1 .. 1 : <<s>>[k] = r})
  BY JournalConstants DEF Journal!Times
<1>2. {k \in 1 .. 1 : <<s>>[k] = r} = IF s = r THEN {1} ELSE {}
  OBVIOUS
<1>3. Journal!Times(<< >>, r) = Cardinality({})
  <2>1. {k \in DOMAIN << >> : << >>[k] = r} = {}
    OBVIOUS
  <2>2. QED
    BY <2>1, JournalConstants DEF Journal!Times
<1>4. QED
  BY <1>1, <1>2, <1>3, FS_EmptySet, FS_Singleton

\* ... and a sequence is its first row and the others.
LEMMA TimesTaken ==
    ASSUME NEW S, NEW q \in Seq(S), q # << >>, NEW r
    PROVE  /\ Tail(q) \in Seq(S) /\ Head(q) \in S
           /\ Journal!Times(q, r) = Journal!Times(Tail(q), r) + Journal!Times(<<Head(q)>>, r)
<1>1. /\ Head(q) \in S /\ Tail(q) \in Seq(S) /\ Len(Tail(q)) = Len(q) - 1 /\ Len(q) \in Nat \ {0}
      /\ \A i \in 1 .. Len(Tail(q)) : Tail(q)[i] = q[i + 1]
      /\ Head(q) = q[1] /\ <<Head(q)>> \in Seq(S)
  BY HeadTailProperties, EmptySeq
<1>2. PICK h, t : h = <<Head(q)>> /\ t = Tail(q)
  OBVIOUS
<1>3. h \in Seq(S) /\ t \in Seq(S) /\ Len(h) = 1 /\ Len(t) = Len(q) - 1 /\ h[1] = q[1]
      /\ \A i \in 1 .. Len(t) : t[i] = q[i + 1]
  BY <1>1, <1>2
<1>4. h \o t = q
  <2>1. /\ h \o t \in Seq(S) /\ Len(h \o t) = 1 + Len(t)
        /\ \A i \in 1 .. 1 + Len(t) : (h \o t)[i] = IF i <= 1 THEN h[i] ELSE t[i - 1]
    <3>1. /\ h \o t \in Seq(S) /\ Len(h \o t) = Len(h) + Len(t)
          /\ \A i \in 1 .. Len(h) + Len(t) : (h \o t)[i] = IF i <= Len(h) THEN h[i] ELSE t[i - Len(h)]
      <4>1. h \in Seq(S) /\ t \in Seq(S)
        BY <1>3
      <4>2. QED
        BY <4>1, ConcatProperties
    <3>2. QED
      BY <1>3, <3>1
  <2>2. Len(h \o t) = Len(q)
    BY <1>1, <1>3, <2>1
  <2>3. ASSUME NEW i \in 1 .. Len(h \o t) PROVE (h \o t)[i] = q[i]
    <3>1. i \in 1 .. 1 + Len(t) /\ (i <= 1 => i = 1) /\ (~(i <= 1) => i - 1 \in 1 .. Len(t) /\ (i - 1) + 1 = i)
      BY <1>1, <1>3, <2>1
    <3>2. QED
      BY <1>3, <2>1, <3>1
  <2>4. QED
    BY <2>1, <2>2, <2>3, SeqEqual
<1>5. Journal!Times(h \o t, r) = Journal!Times(h, r) + Journal!Times(t, r)
      /\ Journal!Times(h, r) \in Nat /\ Journal!Times(t, r) \in Nat
  BY <1>3, TimesConcat
<1>6. QED
  BY <1>1, <1>2, <1>4, <1>5

LEMMA TimesAppended ==
    ASSUME NEW S, NEW q \in Seq(S), NEW s \in S, NEW r
    PROVE  /\ Append(q, s) \in Seq(S)
           /\ Journal!Times(Append(q, s), r) = Journal!Times(q, r) + Journal!Times(<<s>>, r)
<1>1. /\ Append(q, s) = q \o <<s>> /\ <<s>> \in Seq(S) /\ Append(q, s) \in Seq(S)
  BY AppendIsConcat, AppendProperties
<1>2. Journal!Times(q \o <<s>>, r) = Journal!Times(q, r) + Journal!Times(<<s>>, r)
  BY <1>1, TimesConcat
<1>3. QED
  BY <1>1, <1>2

\* What travels to the collector.
Posts ==
    [list : {"devices"}, content : Journal!Lists] \cup [list : {"groups"}, content : Journal!Memberships]

NetworksTyped ==
    /\ world \in [Instances -> Journal!Lists] /\ groupLists \in [Instances -> Journal!Memberships]
    /\ channel \in [Instances -> Seq(Posts)]
RegistryTyped ==
    /\ listed \in [Instances -> Journal!Lists \cup {None}]
    /\ baseline \in [Instances -> Journal!Lists \cup {None}]
    /\ grouped \in [Instances -> [members : Journal!Memberships] \cup {None}]
    /\ RemovalsTyped
    /\ book \in [Instances -> Seq(Journal!Rows)]
FlushTyped ==
    /\ hand \in Seq(Journal!Rows) /\ unsaved \in Seq(Journal!Rows) /\ journaled \in Seq(Journal!Rows)
    /\ batch \in Seq(Journal!Rows) \cup {None}
    /\ loaded \in {None, "pending", "batch", "gone"}
    /\ loaded # None => hand # << >>
    /\ loaded = "batch" => batch # None
    /\ restarts \in Nat

\* The books: what the registry has, its first list and the rows give; before
\* the first list there are rows of groups only.
Replays ==
    \A i \in Instances :
      /\ listed[i] = None <=> baseline[i] = None
      /\ listed[i] # None => /\ Journal!Replay(baseline[i], book[i]) \in Told
                             /\ Journal!Tells(Journal!Replay(baseline[i], book[i]), listed[i])
      /\ listed[i] = None => Items(book[i]) \subseteq Journal!RowsOfGroups
LeftBefore(d, i) == \E r \in Items(book[i]) : r.kind = "device_removed" /\ r.subject = d
\* A device that is remembered as gone has a row that says so, and so has one
\* that is marked as moved.
Departures == \A d \in DOMAIN removals : LeftBefore(d, removals[d].from)
Moved ==
    \A i \in Instances : \A r \in Items(book[i]) :
      r.kind = "device_added" /\ r.detail.from # None =>
        r.detail.from \in Instances \ {i} /\ LeftBefore(r.subject, r.detail.from)
OnOwn == \A i \in Instances : \A r \in Items(book[i]) : r.on = i

\* A row is once at most on its way from a hand to the table.
Held == IF batch = None THEN << >> ELSE batch
Copies(r) ==
    Journal!Times(journaled, r) + Journal!Times(Held, r) + Journal!Times(unsaved, r) + Journal!Times(hand, r)
Counted == restarts = 0 => \A r \in Journal!Rows : Copies(r) <= Journal!Times(book[r.on], r)

JournalInv ==
    /\ NetworksTyped /\ RegistryTyped /\ FlushTyped
    /\ Replays /\ Departures /\ Moved /\ OnOwn /\ Counted

LEMMA HeldTyped ==
    ASSUME FlushTyped
    PROVE  Held \in Seq(Journal!Rows)
BY EmptySeq DEF FlushTyped, Held

LEMMA ReplayEmpty ==
    ASSUME NEW x \in Told, NEW q \in Seq(Journal!Rows), Items(q) \subseteq Journal!RowsOfGroups
    PROVE  Journal!Replay(x, q) = x
<1>1. \A k \in 1 .. Len(q) : q[k] \in Journal!RowsOfGroups
  BY DEF Items
<1>2. QED
  BY <1>1, GroupsReplayed

\* What is not among the rows is not counted.
LEMMA TimesNone ==
    ASSUME NEW q \in Seq(Journal!Rows), NEW r, r \notin Items(q)
    PROVE  Journal!Times(q, r) = 0
<1>1. DOMAIN q = 1 .. Len(q)
  BY LenProperties
<1>2. {k \in DOMAIN q : q[k] = r} = {}
  BY <1>1 DEF Items
<1>3. QED
  BY <1>2, FS_EmptySet, JournalConstants DEF Journal!Times

LEMMA JournalStarts == Journal!Init => JournalInv
<1> SUFFICES ASSUME Journal!Init PROVE JournalInv
  OBVIOUS
<1>1. Journal!Empty \in Journal!Lists /\ DOMAIN Journal!Empty = {}
  <2>1. Journal!Empty \in [{} -> Identities] /\ DOMAIN Journal!Empty = {} /\ {} \in SUBSET Devices
    BY DEF Journal!Empty
  <2>2. QED
    BY <2>1, ToldFacts
<1> USE DEF Journal!Init
<1>2. << >> \in Seq(Posts) /\ << >> \in Seq(Journal!Rows)
  BY EmptySeq
<1>3. NetworksTyped
  BY <1>1, <1>2 DEF NetworksTyped, Journal!Memberships
<1>4. RegistryTyped
  BY <1>1, <1>2 DEF RegistryTyped, RemovalsTyped, Journal!Empty
<1>5. FlushTyped
  BY <1>2, JournalConstants DEF FlushTyped
<1>6. \A i \in Instances : Items(book[i]) = {}
  BY DEF Items
<1>7. Replays /\ Departures /\ Moved /\ OnOwn
  BY <1>1, <1>6 DEF Replays, Departures, Moved, OnOwn
<1>8. Counted
  <2> SUFFICES ASSUME NEW r \in Journal!Rows PROVE Copies(r) <= Journal!Times(book[r.on], r)
    BY DEF Counted
  <2>1. r.on \in Instances /\ Held = << >>
    BY RowFacts DEF Held
  <2>2. /\ journaled = << >> /\ unsaved = << >> /\ hand = << >> /\ book[r.on] = << >>
        /\ Journal!Times(<< >>, r) = 0
    BY <2>1, TimesOne
  <2>3. QED
    BY <2>1, <2>2 DEF Copies
<1>9. QED
  BY <1>3, <1>4, <1>5, <1>7, <1>8 DEF JournalInv

\* The networks and the clock change nothing of the books.
LEMMA BooksSame ==
    ASSUME UNCHANGED <<listed, grouped, removals, hand, loaded, unsaved, batch, journaled, book, baseline, restarts>>,
           JournalInv, NetworksTyped'
    PROVE  JournalInv'
<1>1. RegistryTyped' /\ FlushTyped'
  BY DEF JournalInv, RegistryTyped, RemovalsTyped, FlushTyped
<1>2. Replays' /\ Departures' /\ Moved' /\ OnOwn'
  BY DEF JournalInv, Replays, Departures, Moved, OnOwn, LeftBefore
<1>3. Counted'
  BY DEF JournalInv, Counted, Copies, Held
<1>4. QED
  BY <1>1, <1>2, <1>3 DEF JournalInv

LEMMA ChangeDevicesKeeps ==
    ASSUME JournalInv, NEW i \in Instances, Journal!ChangeDevices(i)
    PROVE  JournalInv'
<1>1. PICK after \in Journal!DevicesOf(i) :
        /\ world' = [world EXCEPT ![i] = after]
        /\ channel' = [channel EXCEPT ![i] = Append(@, [list |-> "devices", content |-> after])]
  BY DEF Journal!ChangeDevices
<1>2. world[i] \in Journal!Lists /\ channel[i] \in Seq(Posts) /\ groupLists' = groupLists
  BY DEF JournalInv, NetworksTyped, Journal!ChangeDevices
<1>3. after \in Journal!Lists
  <2>1. /\ DOMAIN world[i] \in SUBSET Devices /\ \A d \in DOMAIN world[i] : world[i][d] \in Identities
    BY <1>2, ToldFacts
  <2>2. CASE \E d \in Devices, e \in Identities : after = Journal!With(world[i], d, e)
    <3>1. PICK d \in Devices, e \in Identities : after = Journal!With(world[i], d, e)
      BY <2>2
    <3>2. after \in [DOMAIN world[i] \cup {d} -> Identities]
      BY <2>1, <3>1 DEF Journal!With
    <3>3. QED
      BY <2>1, <3>2, ToldFacts
  <2>3. CASE \E d \in DOMAIN world[i] : after = [e \in DOMAIN world[i] \ {d} |-> world[i][e]]
    <3>1. PICK d \in DOMAIN world[i] : after = [e \in DOMAIN world[i] \ {d} |-> world[i][e]]
      BY <2>3
    <3>2. after \in [DOMAIN world[i] \ {d} -> Identities] /\ DOMAIN world[i] \ {d} \in SUBSET Devices
      BY <2>1, <3>1
    <3>3. QED
      BY <3>2, ToldFacts
  <2>4. \/ \E d \in Devices, e \in Identities : after = Journal!With(world[i], d, e)
        \/ \E d \in DOMAIN world[i] : after = [e \in DOMAIN world[i] \ {d} |-> world[i][e]]
    <3> DEFINE free == {d \in Devices : \A j \in Instances \ {i} : d \notin DOMAIN world[j]}
               joined == UNION {{Journal!With(world[i], d, e) : e \in Identities} : d \in free}
               gone == {[e \in DOMAIN world[i] \ {d} |-> world[i][e]] : d \in DOMAIN world[i]}
    <3>1. after \in joined \cup gone
      BY DEF Journal!DevicesOf
    <3>2. free \subseteq Devices
      OBVIOUS
    <3> HIDE DEF free
    <3>3. after \in joined => \E d \in Devices, e \in Identities : after = Journal!With(world[i], d, e)
      <4>1. SUFFICES ASSUME NEW d \in free, after \in {Journal!With(world[i], d, e) : e \in Identities}
                     PROVE  \E e \in Identities : after = Journal!With(world[i], d, e)
        BY <3>2
      <4>2. QED
        BY <4>1
    <3>4. after \in gone => \E d \in DOMAIN world[i] : after = [e \in DOMAIN world[i] \ {d} |-> world[i][e]]
      OBVIOUS
    <3> HIDE DEF joined, gone
    <3>5. QED
      BY <3>1, <3>3, <3>4
  <2>5. QED
    BY <2>2, <2>3, <2>4
<1>4. [list |-> "devices", content |-> after] \in Posts
  BY <1>3 DEF Posts
<1>5. Append(channel[i], [list |-> "devices", content |-> after]) \in Seq(Posts)
  BY <1>2, <1>4, AppendProperties
<1>6. NetworksTyped'
  BY <1>1, <1>2, <1>3, <1>5 DEF JournalInv, NetworksTyped
<1>7. QED
  BY <1>6, BooksSame DEF Journal!ChangeDevices, Journal!Change, Journal!registry, Journal!flush, Journal!ghosts

LEMMA ChangeGroupKeeps ==
    ASSUME JournalInv, NEW i \in Instances, Journal!ChangeGroup(i)
    PROVE  JournalInv'
<1>1. PICK after \in (SUBSET DOMAIN world[i]) \cup {None} :
        /\ groupLists' = [groupLists EXCEPT ![i] = after]
        /\ channel' = [channel EXCEPT ![i] = Append(@, [list |-> "groups", content |-> after])]
  BY DEF Journal!ChangeGroup
<1>2. world[i] \in Journal!Lists /\ channel[i] \in Seq(Posts) /\ world' = world
  BY DEF JournalInv, NetworksTyped, Journal!ChangeGroup
<1>3. after \in Journal!Memberships
  BY <1>2, ToldFacts DEF Journal!Memberships
<1>4. [list |-> "groups", content |-> after] \in Posts
  BY <1>3 DEF Posts
<1>5. Append(channel[i], [list |-> "groups", content |-> after]) \in Seq(Posts)
  BY <1>2, <1>4, AppendProperties
<1>6. NetworksTyped'
  BY <1>1, <1>2, <1>3, <1>5 DEF JournalInv, NetworksTyped
<1>7. QED
  BY <1>6, BooksSame DEF Journal!ChangeGroup, Journal!Change, Journal!registry, Journal!flush, Journal!ghosts

LEMMA TickKeeps ==
    ASSUME JournalInv, Journal!Tick
    PROVE  JournalInv'
BY BooksSame DEF Journal!Tick, JournalInv, NetworksTyped, Journal!registry, Journal!flush, Journal!ghosts

\* The worker's steps change what is on its way, and count no row twice.
LEMMA RegistrySame ==
    ASSUME UNCHANGED <<world, groupLists, channel, listed, grouped, removals, book, baseline>>,
           JournalInv
    PROVE  NetworksTyped' /\ RegistryTyped' /\ Replays' /\ Departures' /\ Moved' /\ OnOwn'
<1>1. NetworksTyped' /\ RegistryTyped'
  BY DEF JournalInv, NetworksTyped, RegistryTyped, RemovalsTyped
<1>2. Replays' /\ Departures' /\ Moved' /\ OnOwn'
  BY DEF JournalInv, Replays, Departures, Moved, OnOwn, LeftBefore
<1>3. QED
  BY <1>1, <1>2

LEMMA FewerCounted ==
    ASSUME JournalInv, UNCHANGED <<book, restarts>>,
           \A r \in Journal!Rows : Copies(r)' <= Copies(r) /\ Copies(r)' \in Nat /\ Copies(r) \in Nat
    PROVE  Counted'
<1> SUFFICES ASSUME restarts' = 0, NEW r \in Journal!Rows
             PROVE  Copies(r)' <= Journal!Times(book[r.on], r)'
  BY DEF Counted
<1>1. Journal!Times(book[r.on], r)' = Journal!Times(book[r.on], r)
  OBVIOUS
<1>2. Copies(r) <= Journal!Times(book[r.on], r)
  BY DEF JournalInv, Counted
<1>3. Journal!Times(book[r.on], r) \in Nat
  <2>1. book[r.on] \in Seq(Journal!Rows)
    BY RowFacts DEF JournalInv, RegistryTyped
  <2>2. QED
    BY <2>1, TimesConcat
<1>4. QED
  BY <1>1, <1>2, <1>3

LEMMA TimesTyped ==
    ASSUME NEW q \in Seq(Journal!Rows), NEW r
    PROVE  Journal!Times(q, r) \in Nat
BY TimesConcat

LEMMA LoadKeeps ==
    ASSUME JournalInv, Journal!Load
    PROVE  JournalInv'
<1> USE DEF Journal!Load, Journal!registry, Journal!flush, Journal!ghosts
<1>1. NetworksTyped' /\ RegistryTyped' /\ Replays' /\ Departures' /\ Moved' /\ OnOwn'
  BY RegistrySame
<1>2. FlushTyped'
  BY DEF JournalInv, FlushTyped
<1>3. Counted'
  BY DEF JournalInv, Counted, Copies, Held
<1>4. QED
  BY <1>1, <1>2, <1>3 DEF JournalInv

LEMMA AppendRowKeeps ==
    ASSUME JournalInv, Journal!AppendRow
    PROVE  JournalInv'
<1> USE DEF Journal!AppendRow, Journal!registry, Journal!flush, Journal!ghosts
<1>1. NetworksTyped' /\ RegistryTyped' /\ Replays' /\ Departures' /\ Moved' /\ OnOwn'
  BY RegistrySame
<1>2. FlushTyped /\ hand # << >>
  BY DEF JournalInv, FlushTyped
<1>3. /\ hand \in Seq(Journal!Rows) /\ unsaved \in Seq(Journal!Rows) /\ journaled \in Seq(Journal!Rows)
      /\ batch \in Seq(Journal!Rows) \cup {None} /\ Held \in Seq(Journal!Rows)
      /\ loaded \in {"pending", "batch", "gone"} /\ (loaded = "batch" => batch \in Seq(Journal!Rows))
  BY <1>2, HeldTyped DEF FlushTyped
<1>4. PICK h : h = Head(hand)
  OBVIOUS
<1>5. h \in Journal!Rows /\ Tail(hand) \in Seq(Journal!Rows)
  BY <1>2, <1>3, <1>4, TimesTaken
<1>6. /\ Append(unsaved, h) \in Seq(Journal!Rows)
      /\ loaded = "batch" => Append(batch, h) \in Seq(Journal!Rows)
  BY <1>3, <1>5, AppendProperties
<1>7. None \notin Seq(Journal!Rows)
  BY JournalConstants
<1>8. FlushTyped'
  <2>1. hand' \in Seq(Journal!Rows) /\ unsaved' \in Seq(Journal!Rows) /\ journaled' \in Seq(Journal!Rows)
    BY <1>3, <1>4, <1>5, <1>6
  <2>2. batch' \in Seq(Journal!Rows) \cup {None}
    BY <1>3, <1>4, <1>6
  <2>3. loaded' = None /\ None # "batch" /\ restarts' = restarts /\ restarts \in Nat
    BY <1>2, JournalConstants DEF FlushTyped
  <2>4. QED
    BY <2>1, <2>2, <2>3 DEF FlushTyped
<1>9. ASSUME NEW r \in Journal!Rows
      PROVE  Copies(r)' <= Copies(r) /\ Copies(r)' \in Nat /\ Copies(r) \in Nat
  <2> DEFINE one == Journal!Times(<<h>>, r)
  <2>1. one \in {0, 1}
    BY TimesOne
  <2>2. Journal!Times(hand, r) = Journal!Times(Tail(hand), r) + one
    BY <1>2, <1>3, <1>4, TimesTaken
  <2>3. /\ Journal!Times(Tail(hand), r) \in Nat /\ Journal!Times(unsaved, r) \in Nat
        /\ Journal!Times(journaled, r) \in Nat /\ Journal!Times(Held, r) \in Nat
    BY <1>3, <1>5, TimesTyped
  <2>4. hand' = Tail(hand) /\ journaled' = journaled
    OBVIOUS
  <2>5. CASE loaded = "pending"
    <3>1. Journal!Times(Append(unsaved, h), r) = Journal!Times(unsaved, r) + one
      BY <1>3, <1>5, TimesAppended
    <3>2. unsaved' = Append(unsaved, h) /\ Held' = Held
      BY <1>4, <2>5 DEF Held
    <3> HIDE DEF one
    <3>3. QED
      BY <2>1, <2>2, <2>3, <2>4, <3>1, <3>2 DEF Copies
  <2>6. CASE loaded = "batch"
    <3>1. Journal!Times(Append(batch, h), r) = Journal!Times(batch, r) + one
      BY <1>3, <1>5, <2>6, TimesAppended
    <3>2. unsaved' = unsaved /\ batch' = Append(batch, h) /\ Held = batch /\ Held' = Append(batch, h)
      BY <1>3, <1>4, <1>6, <1>7, <2>6 DEF Held
    <3> HIDE DEF one
    <3>3. QED
      BY <2>1, <2>2, <2>3, <2>4, <3>1, <3>2 DEF Copies
  <2>7. CASE loaded = "gone"
    <3>1. unsaved' = unsaved /\ Held' = Held
      BY <2>7 DEF Held
    <3> HIDE DEF one
    <3>2. QED
      BY <2>1, <2>2, <2>3, <2>4, <3>1 DEF Copies
  <2>8. QED
    BY <1>3, <2>5, <2>6, <2>7
<1>10. Counted'
  BY <1>9, FewerCounted
<1>11. QED
  BY <1>1, <1>8, <1>10 DEF JournalInv

LEMMA SwapKeeps ==
    ASSUME JournalInv, Journal!Swap
    PROVE  JournalInv'
<1> USE DEF Journal!Swap, Journal!registry, Journal!flush, Journal!ghosts
<1>1. NetworksTyped' /\ RegistryTyped' /\ Replays' /\ Departures' /\ Moved' /\ OnOwn'
  BY RegistrySame
<1>2. FlushTyped
  BY DEF JournalInv
<1>3. /\ hand \in Seq(Journal!Rows) /\ unsaved \in Seq(Journal!Rows) /\ journaled \in Seq(Journal!Rows)
      /\ << >> \in Seq(Journal!Rows) /\ unsaved # None
  BY <1>2, EmptySeq, JournalConstants DEF FlushTyped
<1>4. FlushTyped'
  BY <1>2, <1>3, JournalConstants DEF FlushTyped
<1>5. ASSUME NEW r \in Journal!Rows
      PROVE  Copies(r)' <= Copies(r) /\ Copies(r)' \in Nat /\ Copies(r) \in Nat
  <2>1. /\ Journal!Times(hand, r) \in Nat /\ Journal!Times(unsaved, r) \in Nat
        /\ Journal!Times(journaled, r) \in Nat /\ Journal!Times(<< >>, r) = 0
    BY <1>3, TimesTyped, TimesOne
  <2>2. Held = << >> /\ Held' = unsaved /\ unsaved' = << >> /\ hand' = hand /\ journaled' = journaled
    BY <1>3 DEF Held
  <2>3. QED
    BY <2>1, <2>2 DEF Copies
<1>6. Counted'
  BY <1>5, FewerCounted
<1>7. QED
  BY <1>1, <1>4, <1>6 DEF JournalInv

LEMMA InsertKeeps ==
    ASSUME JournalInv, Journal!Insert
    PROVE  JournalInv'
<1> USE DEF Journal!Insert, Journal!registry, Journal!flush, Journal!ghosts
<1>1. NetworksTyped' /\ RegistryTyped' /\ Replays' /\ Departures' /\ Moved' /\ OnOwn'
  BY RegistrySame
<1>2. FlushTyped
  BY DEF JournalInv
<1>3. /\ hand \in Seq(Journal!Rows) /\ unsaved \in Seq(Journal!Rows) /\ journaled \in Seq(Journal!Rows)
      /\ batch \in Seq(Journal!Rows) /\ Held = batch /\ Held' = << >>
  BY <1>2 DEF FlushTyped, Held
<1>4. journaled \o batch \in Seq(Journal!Rows)
  BY <1>3, ConcatProperties
<1>5. FlushTyped'
  BY <1>2, <1>3, <1>4, JournalConstants DEF FlushTyped
<1>6. ASSUME NEW r \in Journal!Rows
      PROVE  Copies(r)' <= Copies(r) /\ Copies(r)' \in Nat /\ Copies(r) \in Nat
  <2>1. /\ Journal!Times(hand, r) \in Nat /\ Journal!Times(unsaved, r) \in Nat
        /\ Journal!Times(journaled, r) \in Nat /\ Journal!Times(batch, r) \in Nat
        /\ Journal!Times(<< >>, r) = 0
    BY <1>3, TimesTyped, TimesOne
  <2>2. Journal!Times(journaled \o batch, r) = Journal!Times(journaled, r) + Journal!Times(batch, r)
    BY <1>3, TimesConcat
  <2>3. hand' = hand /\ unsaved' = unsaved /\ (journaled' = journaled \/ journaled' = journaled \o batch)
    OBVIOUS
  <2>4. Journal!Times(journaled', r) <= Journal!Times(journaled, r) + Journal!Times(batch, r)
        /\ Journal!Times(journaled', r) \in Nat
    <3>1. CASE journaled' = journaled
      <4>1. Journal!Times(journaled', r) = Journal!Times(journaled, r)
        BY <3>1
      <4>2. QED
        BY <2>1, <4>1
    <3>2. CASE journaled' = journaled \o batch
      <4>1. Journal!Times(journaled', r) = Journal!Times(journaled \o batch, r)
        BY <3>2
      <4>2. QED
        BY <2>1, <2>2, <4>1
    <3>3. QED
      BY <2>3, <3>1, <3>2
  <2>5. Copies(r)' = Journal!Times(journaled', r) + 0 + Journal!Times(unsaved, r) + Journal!Times(hand, r)
    <3>1. Journal!Times(Held', r) = 0
      BY <1>3, <2>1
    <3>2. Copies(r)' = Journal!Times(journaled', r) + Journal!Times(Held', r) + Journal!Times(unsaved', r)
                       + Journal!Times(hand', r)
      BY DEF Copies
    <3>3. QED
      BY <2>3, <3>1, <3>2
  <2>6. Copies(r) = Journal!Times(journaled, r) + Journal!Times(batch, r) + Journal!Times(unsaved, r)
                    + Journal!Times(hand, r)
    BY <1>3 DEF Copies
  <2>7. QED
    BY <2>1, <2>4, <2>5, <2>6
<1>7. Counted'
  BY <1>6, FewerCounted
<1>8. QED
  BY <1>1, <1>5, <1>7 DEF JournalInv

\* The books start afresh, and what is stored stays uncounted.
LEMMA RestartKeeps ==
    ASSUME JournalInv, Journal!Restart
    PROVE  JournalInv'
<1> USE DEF Journal!Restart
<1>1. << >> \in Seq(Posts) /\ << >> \in Seq(Journal!Rows)
  BY EmptySeq
<1>2. NetworksTyped'
  <2>1. ASSUME NEW i \in Instances
        PROVE  <<[list |-> "devices", content |-> world[i]],
                 [list |-> "groups", content |-> groupLists[i]]>> \in Seq(Posts)
    <3>1. world[i] \in Journal!Lists /\ groupLists[i] \in Journal!Memberships
      BY DEF JournalInv, NetworksTyped
    <3>2. /\ [list |-> "devices", content |-> world[i]] \in Posts
          /\ [list |-> "groups", content |-> groupLists[i]] \in Posts
      BY <3>1 DEF Posts
    <3>3. QED
      BY <3>2
  <2>2. QED
    BY <2>1 DEF JournalInv, NetworksTyped
<1>3. RegistryTyped'
  <2>1. removals' = [d \in {} |-> None]
    BY DEF Journal!Empty
  <2>2. RemovalsTyped'
    BY <2>1 DEF RemovalsTyped
  <2>3. QED
    BY <1>1, <2>2 DEF RegistryTyped
<1>4. FlushTyped'
  BY <1>1, JournalConstants DEF JournalInv, FlushTyped
<1>5. (\A i \in Instances : Items(book'[i]) = {}) /\ DOMAIN removals' = {}
  BY DEF Items, Journal!Empty
<1>6. Replays' /\ Departures' /\ Moved' /\ OnOwn'
  BY <1>5 DEF Replays, Departures, Moved, OnOwn
<1>7. Counted'
  BY DEF JournalInv, FlushTyped, Counted
<1>8. QED
  BY <1>2, <1>3, <1>4, <1>6, <1>7 DEF JournalInv

\* What a message writes: its rows go into the hand and into the book of the
\* instance, and what it says is gone is remembered.
LEMMA Written ==
    ASSUME JournalInv, hand = << >>, NEW i \in Instances, NEW old \in Journal!Lists,
           NEW new \in Journal!Lists, NEW written \in Seq(Journal!Rows),
           Journal!Emit(i, written, old, new),
           \A r \in Items(written) :
             r.on = i /\ (r.kind = "device_added" => r.detail.from = Journal!MovedFrom(r.subject, i)),
           \A d \in Journal!Removed(old, new) :
             \E r \in Items(written) : r.kind = "device_removed" /\ r.subject = d,
           UNCHANGED <<loaded, unsaved, batch, journaled, restarts>>
    PROVE  /\ RemovalsTyped' /\ book' \in [Instances -> Seq(Journal!Rows)]
           /\ FlushTyped' /\ Departures' /\ Moved' /\ OnOwn' /\ Counted'
<1>1. /\ RemovalsTyped /\ Departures /\ Moved /\ OnOwn /\ Counted /\ FlushTyped
      /\ book \in [Instances -> Seq(Journal!Rows)]
  BY DEF JournalInv, RegistryTyped
<1>2. /\ hand' = written /\ book' = [book EXCEPT ![i] = @ \o written]
      /\ removals' = IF written = << >> THEN removals ELSE Journal!Removals(i, old, new)
  BY DEF Journal!Emit
<1>3. /\ book[i] \o written \in Seq(Journal!Rows)
      /\ Items(book[i] \o written) = Items(book[i]) \cup Items(written)
  BY <1>1, ItemsConcat
<1>4. /\ book' \in [Instances -> Seq(Journal!Rows)]
      /\ book'[i] = book[i] \o written /\ \A j \in Instances \ {i} : book'[j] = book[j]
  BY <1>1, <1>2, <1>3
<1>5. \A j \in Instances : Items(book'[j]) = Items(book[j]) \cup (IF j = i THEN Items(written) ELSE {})
  BY <1>3, <1>4
<1>6. \A j \in Instances : \A d : LeftBefore(d, j) => LeftBefore(d, j)'
  BY <1>5 DEF LeftBefore
<1>7. Journal!Removed(old, new) \subseteq Devices
  BY ToldFacts DEF Journal!Removed
<1>8. /\ RemovalsTyped'
      /\ \A d \in DOMAIN removals' :
           \/ d \in DOMAIN removals /\ removals'[d] = removals[d]
           \/ d \in Journal!Removed(old, new) /\ removals'[d].from = i
  <2>1. CASE written = << >>
    BY <1>1, <1>2, <2>1 DEF RemovalsTyped
  <2>2. CASE written # << >>
    <3> DEFINE kept == {d \in DOMAIN removals \ Journal!Added(old, new) :
                          hour - removals[d].at <= MOVE_MATCH_SECONDS}
    <3>1. removals' = [d \in kept \cup Journal!Removed(old, new) |->
                         IF d \in Journal!Removed(old, new) THEN [at |-> hour, from |-> i] ELSE removals[d]]
      BY <1>2, <2>2 DEF Journal!Removals
    <3>2. kept \subseteq DOMAIN removals
      OBVIOUS
    <3> HIDE DEF kept
    <3>3. DOMAIN removals' = kept \cup Journal!Removed(old, new)
      BY <3>1
    <3>4. \A d \in DOMAIN removals' :
            IF d \in Journal!Removed(old, new) THEN removals'[d].from = i
            ELSE d \in DOMAIN removals /\ removals'[d] = removals[d]
      BY <3>1, <3>2, <3>3
    <3>5. removals' = [d \in DOMAIN removals' |-> removals'[d]]
      BY <3>1
    <3>6. QED
      BY <1>1, <1>7, <3>2, <3>3, <3>4, <3>5 DEF RemovalsTyped
  <2>3. QED
    BY <2>1, <2>2
<1>9. Departures'
  <2> SUFFICES ASSUME NEW d \in DOMAIN removals' PROVE LeftBefore(d, removals[d].from)'
    BY DEF Departures
  <2>1. CASE d \in DOMAIN removals /\ removals'[d] = removals[d]
    <3>1. LeftBefore(d, removals[d].from) /\ removals[d].from \in Instances
      BY <1>1, <2>1 DEF Departures, RemovalsTyped
    <3>2. LeftBefore(d, removals[d].from)'
      BY <1>5, <2>1, <3>1 DEF LeftBefore
    <3>3. QED
      BY <3>2
  <2>2. CASE d \in Journal!Removed(old, new) /\ removals'[d].from = i
    BY <1>5, <2>2 DEF LeftBefore
  <2>3. QED
    BY <1>8, <2>1, <2>2
<1>10. Moved'
  <2> SUFFICES ASSUME NEW j \in Instances, NEW r \in Items(book'[j]), r.kind = "device_added",
                      r.detail.from # None
               PROVE  r.detail.from \in Instances \ {j} /\ LeftBefore(r.subject, r.detail.from)'
    BY DEF Moved
  <2>1. CASE r \in Items(book[j])
    BY <1>1, <1>6, <2>1 DEF Moved
  <2>2. CASE j = i /\ r \in Items(written)
    <3>1. r.detail.from = Journal!MovedFrom(r.subject, i)
      BY <2>2
    <3>2. /\ r.subject \in DOMAIN removals /\ r.detail.from = removals[r.subject].from
          /\ removals[r.subject].from # i
      BY <3>1 DEF Journal!MovedFrom
    <3>3. r.detail.from \in Instances \ {i} /\ LeftBefore(r.subject, r.detail.from)
      BY <1>1, <3>2 DEF RemovalsTyped, Departures
    <3>4. QED
      BY <1>6, <2>2, <3>3
  <2>3. QED
    BY <1>5, <2>1, <2>2
<1>11. OnOwn'
  BY <1>1, <1>5 DEF OnOwn
<1>12. FlushTyped'
  BY <1>1, <1>2 DEF FlushTyped
<1>13. Counted'
  <2> SUFFICES ASSUME restarts = 0, NEW r \in Journal!Rows
               PROVE  Copies(r)' <= Journal!Times(book'[r.on], r)
    BY DEF Counted
  <2> DEFINE others == Journal!Times(journaled, r) + Journal!Times(Held, r) + Journal!Times(unsaved, r)
  <2>1. r.on \in Instances /\ Held \in Seq(Journal!Rows)
    BY <1>1, RowFacts, HeldTyped
  <2>2. /\ Journal!Times(journaled, r) \in Nat /\ Journal!Times(Held, r) \in Nat
        /\ Journal!Times(unsaved, r) \in Nat /\ Journal!Times(written, r) \in Nat
        /\ Journal!Times(book[r.on], r) \in Nat /\ Journal!Times(<< >>, r) = 0
    BY <1>1, <2>1, TimesTyped, TimesOne DEF FlushTyped
  <2>3. Copies(r) = others + 0 /\ Copies(r) <= Journal!Times(book[r.on], r)
    BY <1>1, <2>2 DEF Copies, Counted
  <2>4. Copies(r)' = others + Journal!Times(written, r)
    BY <1>2 DEF Copies, Held
  <2>5. Journal!Times(book'[r.on], r) = Journal!Times(book[r.on], r) + Journal!Times(written, r)
    <3>1. CASE r.on = i
      <4>1. Journal!Times(book[i] \o written, r) = Journal!Times(book[i], r) + Journal!Times(written, r)
        BY <1>1, TimesConcat
      <4>2. QED
        BY <1>4, <3>1, <4>1
    <3>2. CASE r.on # i
      <4>1. r \notin Items(written)
        BY <3>2
      <4>2. Journal!Times(written, r) = 0
        BY <4>1, TimesNone
      <4>3. QED
        BY <1>4, <2>1, <2>2, <3>2, <4>2
    <3>3. QED
      BY <3>1, <3>2
  <2>6. others \in Nat
    BY <2>2
  <2> HIDE DEF others
  <2>7. QED
    BY <2>2, <2>3, <2>4, <2>5, <2>6
<1>14. QED
  BY <1>4, <1>8, <1>9, <1>10, <1>11, <1>12, <1>13

LEMMA TellsItself ==
    ASSUME NEW x \in Journal!Lists
    PROVE  Journal!Tells(x, x)
BY DEF Journal!Tells


\* The rows of a new list take the book on to it.
LEMMA NewList ==
    ASSUME JournalInv, hand = << >>, NEW i \in Instances, NEW new \in Journal!Lists,
           Journal!OnDevices(i, new), UNCHANGED <<loaded, unsaved, batch, journaled, restarts>>
    PROVE  RegistryTyped' /\ FlushTyped' /\ Replays' /\ Departures' /\ Moved' /\ OnOwn' /\ Counted'
<1>1. /\ RegistryTyped /\ RemovalsTyped /\ FlushTyped
      /\ Replays /\ Departures /\ Moved /\ OnOwn /\ Counted
      /\ book \in [Instances -> Seq(Journal!Rows)]
      /\ listed \in [Instances -> Journal!Lists \cup {None}]
      /\ baseline \in [Instances -> Journal!Lists \cup {None}]
  BY DEF JournalInv, RegistryTyped
<1>2. /\ listed' = [listed EXCEPT ![i] = new] /\ grouped' = grouped
      /\ new # None /\ new \in Told /\ None \notin Journal!Lists
  BY JournalConstants, ToldFacts DEF Journal!OnDevices
<1>3. /\ listed' \in [Instances -> Journal!Lists \cup {None}] /\ listed'[i] = new
      /\ \A j \in Instances \ {i} : listed'[j] = listed[j]
  BY <1>1, <1>2
<1>4. CASE listed[i] = None
  <2>1. /\ baseline' = [baseline EXCEPT ![i] = new]
        /\ UNCHANGED <<removals, hand, book>>
    BY <1>4 DEF Journal!OnDevices
  <2>2. /\ baseline' \in [Instances -> Journal!Lists \cup {None}] /\ baseline'[i] = new
        /\ \A j \in Instances \ {i} : baseline'[j] = baseline[j]
    BY <1>1, <2>1
  <2>3. RegistryTyped' /\ FlushTyped'
    BY <1>1, <1>2, <1>3, <2>1, <2>2 DEF RegistryTyped, RemovalsTyped, FlushTyped
  <2>4. Departures' /\ Moved' /\ OnOwn'
    BY <1>1, <2>1 DEF Departures, Moved, OnOwn, LeftBefore
  <2>5. Counted'
    BY <1>1, <2>1 DEF Counted, Copies, Held
  <2>6. Journal!Replay(new, book[i]) = new
    <3>1. Items(book[i]) \subseteq Journal!RowsOfGroups /\ book[i] \in Seq(Journal!Rows)
      BY <1>1, <1>4 DEF Replays
    <3>2. QED
      BY <1>2, <3>1, ReplayEmpty
  <2>7. Replays'
    <3> SUFFICES ASSUME NEW j \in Instances
                 PROVE  /\ listed'[j] = None <=> baseline'[j] = None
                        /\ listed'[j] # None =>
                             /\ Journal!Replay(baseline'[j], book'[j]) \in Told
                             /\ Journal!Tells(Journal!Replay(baseline'[j], book'[j]), listed'[j])
                        /\ listed'[j] = None => Items(book'[j]) \subseteq Journal!RowsOfGroups
      BY DEF Replays
    <3>1. CASE j = i
      BY <1>2, <1>3, <2>1, <2>2, <2>6, <3>1, TellsItself
    <3>2. CASE j # i
      BY <1>1, <1>3, <2>1, <2>2, <3>2 DEF Replays
    <3>3. QED
      BY <3>1, <3>2
  <2>8. QED
    BY <2>3, <2>4, <2>5, <2>7
<1>5. CASE listed[i] # None
  <2>1. PICK old, q, x : /\ old = listed[i] /\ q = Journal!DeviceRows(i, old, new)
                         /\ x = Journal!Replay(baseline[i], book[i])
    OBVIOUS
  <2>2. /\ old \in Journal!Lists /\ x \in Told /\ Journal!Tells(x, old)
        /\ baseline[i] \in Journal!Lists /\ baseline[i] \in Told /\ book[i] \in Seq(Journal!Rows)
    BY <1>1, <1>5, <2>1, ToldFacts DEF Replays
  <2>3. /\ q \in Seq(Journal!Rows)
        /\ Items(q) = AddsOf(i, old, new) \cup LeavesOf(i, old, new) \cup NamesOf(i, old, new)
                        \cup AddressesOf(i, old, new)
        /\ Journal!Replay(x, q) \in Told /\ Journal!Tells(Journal!Replay(x, q), new)
    BY <1>1, <2>1, <2>2, DeviceRowsReplayed
  <2>4. Journal!Emit(i, q, old, new) /\ baseline' = baseline
    BY <1>5, <2>1 DEF Journal!OnDevices
  <2>5. \A r \in Items(q) :
          r.on = i /\ (r.kind = "device_added" => r.detail.from = Journal!MovedFrom(r.subject, i))
    <3>1. \A k, d, z : LET r == Journal!Row(i, k, d, z) IN
            r.on = i /\ r.kind = k /\ r.subject = d /\ r.detail = z
      BY DEF Journal!Row
    <3>2. ASSUME NEW r \in AddsOf(i, old, new)
          PROVE  r.on = i /\ r.detail.from = Journal!MovedFrom(r.subject, i)
      <4>1. PICK d \in Journal!Added(old, new) :
              r = Journal!Row(i, "device_added", d, [name |-> new[d].name, from |-> Journal!MovedFrom(d, i)])
        BY DEF AddsOf
      <4>2. /\ r.on = i /\ r.subject = d
            /\ r.detail = [name |-> new[d].name, from |-> Journal!MovedFrom(d, i)]
        BY <3>1, <4>1
      <4>3. r.detail.from = Journal!MovedFrom(d, i)
        BY <4>2
      <4>4. QED
        BY <4>2, <4>3
    <3>3. \A r \in LeavesOf(i, old, new) : r.on = i /\ r.kind = "device_removed"
      BY <3>1 DEF LeavesOf
    <3>4. \A r \in NamesOf(i, old, new) : r.on = i /\ r.kind = "device_renamed"
      BY <3>1 DEF NamesOf
    <3>5. \A r \in AddressesOf(i, old, new) : r.on = i /\ r.kind = "device_rejoined"
      BY <3>1 DEF AddressesOf
    <3>6. QED
      BY <2>3, <3>2, <3>3, <3>4, <3>5
  <2>6. \A d \in Journal!Removed(old, new) : \E r \in Items(q) : r.kind = "device_removed" /\ r.subject = d
    <3>1. ASSUME NEW d \in Journal!Removed(old, new)
          PROVE  \E r \in LeavesOf(i, old, new) : r.kind = "device_removed" /\ r.subject = d
      <4>1. Journal!Row(i, "device_removed", d, None) \in LeavesOf(i, old, new)
        BY DEF LeavesOf
      <4>2. QED
        BY <4>1 DEF Journal!Row
    <3>2. QED
      BY <2>3, <3>1
  <2>7. /\ RemovalsTyped' /\ book' \in [Instances -> Seq(Journal!Rows)]
        /\ FlushTyped' /\ Departures' /\ Moved' /\ OnOwn' /\ Counted'
    BY <2>2, <2>3, <2>4, <2>5, <2>6, Written
  <2>8. RegistryTyped'
    BY <1>1, <1>2, <1>3, <2>4, <2>7 DEF RegistryTyped
  <2>9. /\ book'[i] = book[i] \o q /\ \A j \in Instances \ {i} : book'[j] = book[j]
    BY <1>1, <2>4 DEF Journal!Emit
  <2>10. Journal!Replay(baseline[i], book[i] \o q) = Journal!Replay(x, q)
    BY <2>1, <2>2, <2>3, ReplayConcat
  <2>11. Replays'
    <3> SUFFICES ASSUME NEW j \in Instances
                 PROVE  /\ listed'[j] = None <=> baseline'[j] = None
                        /\ listed'[j] # None =>
                             /\ Journal!Replay(baseline'[j], book'[j]) \in Told
                             /\ Journal!Tells(Journal!Replay(baseline'[j], book'[j]), listed'[j])
                        /\ listed'[j] = None => Items(book'[j]) \subseteq Journal!RowsOfGroups
      BY DEF Replays
    <3>1. CASE j = i
      <4>1. baseline'[j] = baseline[i] /\ baseline[i] # None /\ listed'[j] = new
        BY <1>1, <1>2, <1>3, <2>2, <2>4, <3>1
      <4>2. Journal!Replay(baseline'[j], book'[j]) = Journal!Replay(x, q)
        BY <2>9, <2>10, <3>1, <4>1
      <4>3. QED
        BY <1>2, <2>3, <4>1, <4>2
    <3>2. CASE j # i
      BY <1>1, <1>3, <2>4, <2>9, <3>2 DEF Replays
    <3>3. QED
      BY <3>1, <3>2
  <2>12. QED
    BY <2>7, <2>8, <2>11
<1>6. QED
  BY <1>4, <1>5

\* The rows of a group tell nothing of devices.
LEMMA NewGroup ==
    ASSUME JournalInv, hand = << >>, NEW i \in Instances, NEW new \in Journal!Memberships,
           Journal!OnGroups(i, new), UNCHANGED <<loaded, unsaved, batch, journaled, restarts>>
    PROVE  RegistryTyped' /\ FlushTyped' /\ Replays' /\ Departures' /\ Moved' /\ OnOwn' /\ Counted'
<1>1. /\ RegistryTyped /\ RemovalsTyped /\ FlushTyped
      /\ Replays /\ Departures /\ Moved /\ OnOwn /\ Counted
      /\ book \in [Instances -> Seq(Journal!Rows)]
      /\ baseline \in [Instances -> Journal!Lists \cup {None}]
      /\ grouped \in [Instances -> [members : Journal!Memberships] \cup {None}]
  BY DEF JournalInv, RegistryTyped
<1>2. /\ grouped' = [grouped EXCEPT ![i] = [members |-> new]]
      /\ UNCHANGED <<listed, baseline>>
  BY DEF Journal!OnGroups
<1>3. grouped' \in [Instances -> [members : Journal!Memberships] \cup {None}]
  BY <1>1, <1>2
<1>4. CASE grouped[i] = None
  <2>1. UNCHANGED <<removals, hand, book>>
    BY <1>4 DEF Journal!OnGroups
  <2>2. RegistryTyped' /\ FlushTyped'
    BY <1>1, <1>2, <1>3, <2>1 DEF RegistryTyped, RemovalsTyped, FlushTyped
  <2>3. Replays' /\ Departures' /\ Moved' /\ OnOwn'
    BY <1>1, <1>2, <2>1 DEF Replays, Departures, Moved, OnOwn, LeftBefore
  <2>4. Counted'
    BY <1>1, <2>1 DEF Counted, Copies, Held
  <2>5. QED
    BY <2>2, <2>3, <2>4
<1>5. CASE grouped[i] # None
  <2>1. PICK old, q : old = grouped[i].members /\ q = Journal!GroupRows(i, old, new)
    OBVIOUS
  <2>2. old \in Journal!Memberships
    BY <1>1, <1>5, <2>1
  <2>3. Journal!Emit(i, q, Journal!Empty, Journal!Empty)
    BY <1>5, <2>1 DEF Journal!OnGroups
  <2>4. \A r \in Items(q) : r \in Journal!RowsOfGroups /\ r.on = i /\ r.kind # "device_added"
    <3>1. new # None => Cardinality(new) \in 0..Cardinality(Devices)
      <4>1. new # None => new \in SUBSET Devices
        BY DEF Journal!Memberships
      <4>2. QED
        BY <4>1, JournalConstants, FS_Subset, FS_CardinalityType
    <3>2. \A k \in Journal!GroupKinds, z \in 0..Cardinality(Devices) \cup {None} :
            /\ Journal!Row(i, k, i, z) \in Journal!RowsOfGroups
            /\ Journal!Row(i, k, i, z).on = i /\ Journal!Row(i, k, i, z).kind # "device_added"
      BY JournalConstants DEF Journal!Row, Journal!RowsOfGroups, Journal!RowsOf, Journal!GroupKinds
    <3>3. \/ q = << >>
          \/ \E k \in Journal!GroupKinds, z \in 0..Cardinality(Devices) \cup {None} :
               q = <<Journal!Row(i, k, i, z)>>
      BY <2>1, <3>1, JournalConstants DEF Journal!GroupRows, Journal!GroupKinds
    <3>4. Items(<< >>) = {} /\ \A s : Items(<<s>>) = {s}
      BY DEF Items
    <3>5. QED
      BY <3>2, <3>3, <3>4
  <2>5. q \in Seq(Journal!Rows)
    <3>1. q = << >> \/ \E s : q = <<s>>
      BY <2>1 DEF Journal!GroupRows
    <3>2. CASE q = << >>
      BY <3>2, EmptySeq
    <3>3. CASE \E s : q = <<s>>
      <4>1. PICK s : q = <<s>>
        BY <3>3
      <4>2. s \in Items(q)
        BY <4>1 DEF Items
      <4>3. s \in Journal!Rows
        BY <2>4, <4>2 DEF Journal!Rows
      <4>4. QED
        BY <4>1, <4>3
    <3>4. QED
      BY <3>1, <3>2, <3>3
  <2>6. Journal!Empty \in Journal!Lists /\ Journal!Removed(Journal!Empty, Journal!Empty) = {}
    <3>1. Journal!Empty \in [{} -> Identities] /\ {} \in SUBSET Devices
      BY DEF Journal!Empty
    <3>2. QED
      BY <3>1, ToldFacts DEF Journal!Removed
  <2>7. /\ RemovalsTyped' /\ book' \in [Instances -> Seq(Journal!Rows)]
        /\ FlushTyped' /\ Departures' /\ Moved' /\ OnOwn' /\ Counted'
    BY <2>3, <2>4, <2>5, <2>6, Written
  <2>8. RegistryTyped'
    BY <1>1, <1>2, <1>3, <2>7 DEF RegistryTyped
  <2>9. /\ book'[i] = book[i] \o q /\ \A j \in Instances \ {i} : book'[j] = book[j]
        /\ book[i] \in Seq(Journal!Rows)
    BY <1>1, <2>3 DEF Journal!Emit
  <2>10. Items(book'[i]) = Items(book[i]) \cup Items(q)
    BY <2>5, <2>9, ItemsConcat
  <2>11. listed[i] # None => Journal!Replay(baseline[i], book'[i]) = Journal!Replay(baseline[i], book[i])
    <3> SUFFICES ASSUME listed[i] # None
                 PROVE  Journal!Replay(baseline[i], book'[i]) = Journal!Replay(baseline[i], book[i])
      OBVIOUS
    <3>1. PICK x : x = Journal!Replay(baseline[i], book[i])
      OBVIOUS
    <3>2. x \in Told /\ baseline[i] \in Told
      BY <1>1, <3>1, ToldFacts DEF Replays
    <3>3. Journal!Replay(baseline[i], book[i] \o q) = Journal!Replay(x, q)
      BY <2>5, <2>9, <3>1, <3>2, ReplayConcat
    <3>4. Journal!Replay(x, q) = x
      BY <2>4, <2>5, <3>2, ReplayEmpty
    <3>5. QED
      BY <2>9, <3>1, <3>3, <3>4
  <2>12. Replays'
    <3> SUFFICES ASSUME NEW j \in Instances
                 PROVE  /\ listed'[j] = None <=> baseline'[j] = None
                        /\ listed'[j] # None =>
                             /\ Journal!Replay(baseline'[j], book'[j]) \in Told
                             /\ Journal!Tells(Journal!Replay(baseline'[j], book'[j]), listed'[j])
                        /\ listed'[j] = None => Items(book'[j]) \subseteq Journal!RowsOfGroups
      BY DEF Replays
    <3>1. CASE j = i
      BY <1>1, <1>2, <2>4, <2>10, <2>11, <3>1 DEF Replays
    <3>2. CASE j # i
      BY <1>1, <1>2, <2>9, <3>2 DEF Replays
    <3>3. QED
      BY <3>1, <3>2
  <2>13. QED
    BY <2>7, <2>8, <2>12
<1>6. QED
  BY <1>4, <1>5

LEMMA HandleKeeps ==
    ASSUME JournalInv, NEW i \in Instances, Journal!Handle(i)
    PROVE  JournalInv'
<1>1. /\ hand = << >> /\ channel[i] # << >>
      /\ channel' = [channel EXCEPT ![i] = Tail(@)]
      /\ UNCHANGED <<hour, world, groupLists, loaded, unsaved, batch, journaled, restarts>>
  BY DEF Journal!Handle, Journal!flush
<1>2. PICK m : /\ m = Head(channel[i])
               /\ \/ m.list = "devices" /\ Journal!OnDevices(i, m.content)
                  \/ m.list = "groups" /\ Journal!OnGroups(i, m.content)
  BY DEF Journal!Handle
<1>3. /\ NetworksTyped /\ channel[i] \in Seq(Posts)
      /\ m \in Posts /\ Tail(channel[i]) \in Seq(Posts)
  <2>1. NetworksTyped /\ channel[i] \in Seq(Posts)
    BY DEF JournalInv, NetworksTyped
  <2>2. QED
    BY <1>1, <1>2, <2>1, HeadTailProperties
<1>4. NetworksTyped'
  BY <1>1, <1>3 DEF NetworksTyped
<1>5. RegistryTyped' /\ FlushTyped' /\ Replays' /\ Departures' /\ Moved' /\ OnOwn' /\ Counted'
  <2>1. CASE m.list = "devices" /\ Journal!OnDevices(i, m.content)
    <3>1. m.content \in Journal!Lists
      BY <1>3, <2>1 DEF Posts
    <3>2. QED
      BY <1>1, <2>1, <3>1, NewList
  <2>2. CASE m.list = "groups" /\ Journal!OnGroups(i, m.content)
    <3>1. m.content \in Journal!Memberships
      BY <1>3, <2>2 DEF Posts
    <3>2. QED
      BY <1>1, <2>2, <3>1, NewGroup
  <2>3. QED
    BY <1>2, <2>1, <2>2
<1>6. QED
  BY <1>4, <1>5 DEF JournalInv

LEMMA JournalStep == JournalInv /\ [Journal!Next]_journal => JournalInv'
<1> SUFFICES ASSUME JournalInv, [Journal!Next]_journal PROVE JournalInv'
  OBVIOUS
<1>1. ASSUME NEW i \in Instances, Journal!ChangeDevices(i) PROVE JournalInv'
  BY <1>1, ChangeDevicesKeeps
<1>2. ASSUME NEW i \in Instances, Journal!ChangeGroup(i) PROVE JournalInv'
  BY <1>2, ChangeGroupKeeps
<1>3. ASSUME NEW i \in Instances, Journal!Handle(i) PROVE JournalInv'
  BY <1>3, HandleKeeps
<1>4. CASE Journal!Tick
  BY <1>4, TickKeeps
<1>5. CASE Journal!Load
  BY <1>5, LoadKeeps
<1>6. CASE Journal!AppendRow
  BY <1>6, AppendRowKeeps
<1>7. CASE Journal!Swap
  BY <1>7, SwapKeeps
<1>8. CASE Journal!Insert
  BY <1>8, InsertKeeps
<1>9. CASE Journal!Restart
  BY <1>9, RestartKeeps
<1>10. CASE UNCHANGED journal
  <2>1. NetworksTyped'
    BY <1>10 DEF journal, JournalInv, NetworksTyped
  <2>2. QED
    BY <1>10, <2>1, BooksSame DEF journal
<1>11. QED
  BY <1>1, <1>2, <1>3, <1>4, <1>5, <1>6, <1>7, <1>8, <1>9, <1>10 DEF Journal!Next

LEMMA JournalMeans ==
    JournalInv => /\ Journal!TypeOK
                  /\ Journal!JournalReplays /\ Journal!MovesWereRemovals /\ Journal!StoredOnce
<1> SUFFICES ASSUME JournalInv
             PROVE  /\ Journal!TypeOK
                    /\ Journal!JournalReplays /\ Journal!MovesWereRemovals /\ Journal!StoredOnce
  OBVIOUS
<1>1. ASSUME NEW i \in Instances
      PROVE  /\ book[i] \in Seq(Journal!Rows) /\ DOMAIN book[i] = 1 .. Len(book[i])
             /\ \A k \in DOMAIN book[i] : book[i][k] \in Items(book[i]) /\ book[i][k] \in Journal!Rows
             /\ \A r \in Items(book[i]) : \E k \in DOMAIN book[i] : book[i][k] = r
  <2>1. book[i] \in Seq(Journal!Rows)
    BY DEF JournalInv, RegistryTyped
  <2>2. QED
    BY <2>1, LenProperties, ElementOfSeq DEF Items
<1>2. Journal!TypeOK
  BY <1>1 DEF JournalInv, RegistryTyped, RemovalsTyped, FlushTyped, Replays, Journal!TypeOK
<1>3. Journal!JournalReplays
  BY DEF JournalInv, Replays, Journal!JournalReplays
<1>4. Journal!MovesWereRemovals
  <2> SUFFICES ASSUME NEW i \in Instances, NEW k \in DOMAIN book[i], NEW r, r = book[i][k],
                      r.kind = "device_added", r.detail.from # None
               PROVE  r.detail.from \in Instances \ {i} /\ Journal!Left(r.subject, r.detail.from)
    BY DEF Journal!MovesWereRemovals
  <2>1. r.detail.from \in Instances \ {i} /\ LeftBefore(r.subject, r.detail.from)
    BY <1>1 DEF JournalInv, Moved
  <2>2. PICK s \in Items(book[r.detail.from]) : s.kind = "device_removed" /\ s.subject = r.subject
    BY <2>1 DEF LeftBefore
  <2>3. PICK j \in Instances : j = r.detail.from
    BY <2>1
  <2>4. PICK n \in DOMAIN book[j] : book[j][n] = s
    BY <1>1, <2>2, <2>3
  <2>5. Journal!Left(r.subject, j)
    BY <2>2, <2>4 DEF Journal!Left
  <2>6. QED
    BY <2>1, <2>3, <2>5
<1>5. Journal!StoredOnce
  <2> SUFFICES ASSUME restarts = 0, NEW i \in Instances, NEW k \in DOMAIN book[i], NEW r, r = book[i][k]
               PROVE  Journal!Times(journaled, r) <= Journal!Times(book[i], r)
    BY DEF Journal!StoredOnce
  <2>1. r \in Journal!Rows /\ r.on = i
    BY <1>1 DEF JournalInv, OnOwn
  <2>2. Copies(r) <= Journal!Times(book[i], r)
    BY <2>1 DEF JournalInv, Counted
  <2>3. /\ Journal!Times(journaled, r) \in Nat /\ Journal!Times(Held, r) \in Nat
        /\ Journal!Times(unsaved, r) \in Nat /\ Journal!Times(hand, r) \in Nat
        /\ Journal!Times(book[i], r) \in Nat
    BY <1>1, HeldTyped, TimesTyped DEF JournalInv, FlushTyped
  <2>4. QED
    BY <2>2, <2>3 DEF Copies
<1>6. QED
  BY <1>2, <1>3, <1>4, <1>5

\* The rows written since the start, replayed over the first list of an instance,
\* give its newest; a device marked as moved did leave the other; and no row is
\* stored twice, whichever thread swaps the list of rows between the two steps of
\* an append (registry.py, _diff_devices; engine.py:682-705, 1492-1504): for all
\* instances, devices, lists and windows, and any number of setbacks.
THEOREM JournalIsSound == Spec => []JournalSound
<1>1. Init => JournalInv
  BY JournalStarts DEF Init
<1>2. JournalInv /\ [Next]_vars => JournalInv'
  BY JournalStep, Apart
<1>3. JournalInv => JournalSound
  BY JournalMeans DEF JournalSound
<1>4. QED
  BY <1>1, <1>2, <1>3, PTL DEF Spec
=============================================================================
