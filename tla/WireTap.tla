------------------------------- MODULE WireTap -------------------------------
(***************************************************************************)
(* What the wire tap makes of the frames of one coordinator                *)
(* (ingest/tap.py): the flow of each connection, the sends that wait for   *)
(* their confirmation, by message tag, and the totals that calibration     *)
(* reads twice and subtracts.  ASH sends a frame again when its ack was    *)
(* late, and the tap sees both; a confirmation may be late, and come when  *)
(* its tag was given out again; the capture may miss a frame.              *)
(*                                                                         *)
(* Sizes, link quality and the coordinator's counters are left out.        *)
(***************************************************************************)
EXTENDS Integers, FiniteSets, FiniteSetsExt

CONSTANTS
    None,
    Tags,         \* the tags Zigbee2MQTT gives out in turn: 0..Tags-1
    PENDING_MAX, PENDING_TTL,
    MaxMessages, MaxConnections, MaxRepeats, MaxTime  \* bounds of the model

Messages == 1..MaxMessages
Connections == 1..MaxConnections
TagOf(m) == m % Tags

Kinds == {"unicast", "groupcast"}
Waits == [ts : 0..MaxTime, kind : Kinds, of : Messages]
FlowStates == [pending : [0..Tags - 1 -> Waits \cup {None}], ok : Nat, failed : Nat,
               mismatch : BOOLEAN]

TapAssumption ==
    /\ Tags \in Nat \ {0}
    /\ MaxMessages \in Nat /\ MaxConnections \in Nat \ {0}
    /\ MaxRepeats \in Nat /\ MaxTime \in Nat
    /\ None \notin Waits /\ None \notin FlowStates

VARIABLES
    now,
    link,        \* the connection in use
    message,     \* ghost: message -> where it is, and whether its send was captured
    next,        \* the next message
    flow,        \* _flows: per connection, once a segment of it was seen
    samples,     \* ghost: the latencies recorded: whose send, whose confirmation
    crossed,     \* ghost: <<m, n>>: a frame of m was seen after n, of its tag, was sent
    repeats

vars == <<now, link, message, next, flow, samples, crossed, repeats>>

NewFlow == [pending |-> [t \in 0..Tags - 1 |-> None], ok |-> 0, failed |-> 0,
            mismatch |-> FALSE]

Init ==
    /\ now = 0 /\ link = 1
    /\ message = [m \in Messages |-> [at |-> "unsent", kind |-> None, captured |-> FALSE]]
    /\ next = 1
    /\ flow = [c \in Connections |-> None]
    /\ samples = {} /\ crossed = {} /\ repeats = 0

-----------------------------------------------------------------------------

\* _flow_for and _on_segment: the connection's flow, made at its first segment.
Flow == IF flow[link] = None THEN NewFlow ELSE flow[link]

\* _track_pending: over the bound, those past their time go.
Pending(f) == {t \in 0..Tags - 1 : f.pending[t] # None}
Track(f, m) ==
    LET pending == [f.pending EXCEPT ![TagOf(m)] =
                        [ts |-> now, kind |-> message'[m].kind, of |-> m]]
        full == Cardinality({t \in 0..Tags - 1 : pending[t] # None}) > PENDING_MAX
        old(t) == pending[t] # None /\ pending[t].ts < now - PENDING_TTL
    IN [f EXCEPT !.pending =
          [t \in 0..Tags - 1 |-> IF full /\ old(t) THEN None ELSE pending[t]]]

\* A frame of m is seen when those were sent.
Newer(m) == {n \in Messages : n > m /\ TagOf(n) = TagOf(m) /\ message[n].at # "unsent"}
Crosses(m) == crossed' = crossed \cup ({m} \X Newer(m))

\* sendUnicast, sendMulticast and sendBroadcast on their way to the
\* coordinator: a layout that does not fit is counted and not tracked.
OnSend(m) ==
    /\ \/ flow' = [flow EXCEPT ![link] = Track(Flow, m)]
       \/ flow' = [flow EXCEPT ![link] = [Flow EXCEPT !.mismatch = TRUE]]
    /\ Crosses(m)

Send(kind) ==
    /\ next <= MaxMessages /\ next' = next + 1
    /\ message[next].at = "unsent"
    /\ \E captured \in BOOLEAN :
         /\ message' = [message EXCEPT ![next] =
               [at |-> "sent", kind |-> kind, captured |-> captured]]
         /\ IF captured THEN OnSend(next) ELSE UNCHANGED <<flow, crossed>>
    /\ UNCHANGED <<now, link, samples, repeats>>

\* ASH sends the frame again, while the message waits or when it is over,
\* whatever was sent since.
SendAgain(m) ==
    /\ repeats < MaxRepeats /\ repeats' = repeats + 1
    /\ message[m].at # "unsent" /\ message[m].captured
    /\ UNCHANGED message
    /\ OnSend(m)
    /\ UNCHANGED <<now, link, next, samples>>

\* messageSentHandler: the totals, and a latency for a unicast that waits.
V_KeepsPending(f, t) == f.pending
Taken(f, t) == [f.pending EXCEPT ![t] = None]
OnConfirm(m) ==
    /\ Crosses(m)
    /\ \/ \E ok \in 0..1 :
            /\ flow' = [flow EXCEPT ![link] =
                  [Flow EXCEPT !.pending = Taken(Flow, TagOf(m)),
                               !.ok = @ + ok, !.failed = @ + (1 - ok)]]
            /\ LET waited == Flow.pending[TagOf(m)]
               IN samples' = IF waited # None /\ waited.kind = "unicast"
                             THEN samples \cup {[send |-> waited.of, confirm |-> m,
                                                 again |-> repeats, ms |-> now - waited.ts]}
                             ELSE samples
       \/ /\ flow' = [flow EXCEPT ![link] = [Flow EXCEPT !.mismatch = TRUE]]
          /\ UNCHANGED samples

Confirm(m) ==
    /\ message[m].at = "sent"
    /\ message' = [message EXCEPT ![m].at = "over"]
    /\ \/ OnConfirm(m)
       \/ UNCHANGED <<flow, samples, crossed>>
    /\ UNCHANGED <<now, link, next, repeats>>

ConfirmAgain(m) ==
    /\ repeats < MaxRepeats /\ repeats' = repeats + 1
    /\ message[m].at = "over"
    /\ OnConfirm(m)
    /\ UNCHANGED <<now, link, message, next>>

\* Zigbee2MQTT connects again, from another port.
Reconnect ==
    /\ link < MaxConnections /\ link' = link + 1
    /\ message' = [m \in Messages |->
          IF message[m].at = "sent" THEN [message[m] EXCEPT !.at = "over"] ELSE message[m]]
    /\ UNCHANGED <<now, next, flow, samples, crossed, repeats>>

Tick ==
    /\ now < MaxTime /\ now' = now + 1
    /\ UNCHANGED <<link, message, next, flow, samples, crossed, repeats>>

Next ==
    \/ \E kind \in Kinds : Send(kind)
    \/ \E m \in Messages : SendAgain(m) \/ Confirm(m) \/ ConfirmAgain(m)
    \/ Reconnect \/ Tick

Spec == Init /\ [][Next]_vars

-----------------------------------------------------------------------------
(* The readers *)

Flows == {c \in Connections : flow[c] # None}
\* wire_delivery_totals.
Counted == Flows
DeliveryTotals ==
    <<SumFunction([c \in Counted |-> flow[c].ok]),
      SumFunction([c \in Counted |-> flow[c].failed])>>

-----------------------------------------------------------------------------

TypeOK ==
    /\ now \in 0..MaxTime /\ link \in Connections
    /\ \A c \in Flows : flow[c].ok + flow[c].failed <= MaxMessages + MaxRepeats
    /\ \A c \in Flows, t \in 0..Tags - 1 :
         flow[c].pending[t] # None => TagOf(flow[c].pending[t].of) = t

\* A latency belongs to one message.  A confirmation takes the send of another
\* of its tag only where frames of the two crossed (the older one's was repeated
\* or late, and came after the newer one was sent), or, of an older one that
\* still waits, where the capture missed its own send or could not read a frame.
\* And no send gives a second latency but when ASH repeated a frame.
LatencyOwn ==
    /\ \A s \in samples : s.send # s.confirm =>
          \/ <<s.send, s.confirm>> \in crossed \/ <<s.confirm, s.send>> \in crossed
          \/ /\ s.send < s.confirm
             /\ ~message[s.confirm].captured \/ \E c \in Flows : flow[c].mismatch
    /\ \A s, r \in samples : s # r /\ s.send = r.send => s.again # r.again

\* Calibration subtracts two readings of the totals (tap.py:504-505): neither
\* ever falls, whatever connection is in use.
TotalsNeverFall ==
    [][DeliveryTotals'[1] >= DeliveryTotals[1] /\ DeliveryTotals'[2] >= DeliveryTotals[2]]_vars

=============================================================================
