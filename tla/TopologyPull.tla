---------------------------- MODULE TopologyPull ----------------------------
(***************************************************************************)
(* Network map pulls (ingest/topology.py) on the event loop: the gate of   *)
(* one scan at a time, the pending future of an instance, the answer that  *)
(* may come late or never, and the snapshot stored by a thread.  The rate  *)
(* limit is a flag of the instance: a snapshot was stored within the       *)
(* minimum interval.  The map is not kept.                                 *)
(***************************************************************************)
EXTENDS Integers, FiniteSets, Functions

CONSTANTS Calls, Bases, None,
          MaxAnswers   \* bound of the model: answers in flight at a time

PullAssumption == MaxAnswers \in Nat /\ None \notin Calls \cup Bases

VARIABLES
    call,      \* per call of pull: where it is, its instance, its answer
    pending,   \* _pending: the call whose future waits, by instance
    scanning,  \* _scanning
    recent,    \* instances with a snapshot younger than the interval
    mesh       \* answers on their way, by instance (the mesh scans on)

vars == <<call, pending, scanning, recent, mesh>>

Idle == [at |-> "idle", base |-> None, ok |-> FALSE]

Init ==
    /\ call = [c \in Calls |-> Idle]
    /\ pending = [b \in Bases |-> None] /\ scanning = None
    /\ recent = {} /\ mesh = [b \in Bases |-> 0]

\* pull, up to its first await; granted is the guard of the request.
MayPull(b) == scanning = None /\ b \notin recent

Pull(c, b) ==
    /\ call[c].at = "idle" /\ MayPull(b)
    /\ pending' = [pending EXCEPT ![b] = c] /\ scanning' = b
    /\ call' = [call EXCEPT ![c] = [Idle EXCEPT !.at = "publish", !.base = b]]
    /\ UNCHANGED <<recent, mesh>>

\* The finally clause: whatever ended the wait.
ClearGate(c) ==
    /\ pending' = [pending EXCEPT ![call[c].base] = None]
    /\ scanning' = None

Publish(c) ==
    /\ call[c].at = "publish" /\ mesh[call[c].base] < MaxAnswers
    /\ mesh' = [mesh EXCEPT ![call[c].base] = @ + 1]
    /\ call' = [call EXCEPT ![c].at = "wait"]
    /\ UNCHANGED <<pending, scanning, recent>>

V_FailsKeepsGate(c) == UNCHANGED <<pending, scanning>>
PublishFailed(c) == ClearGate(c)
PublishFails(c) ==
    /\ call[c].at = "publish"
    /\ PublishFailed(c)
    /\ call' = [call EXCEPT ![c] = Idle]
    /\ UNCHANGED <<recent, mesh>>

\* on_response: the future of the instance, if there is one that waits; an
\* answer nobody waits for, or that is not JSON, changes nothing.
OnResponse(b) ==
    /\ mesh[b] > 0
    /\ mesh' = [mesh EXCEPT ![b] = @ - 1]
    /\ \/ UNCHANGED call
       \/ /\ pending[b] # None /\ call[pending[b]].at \in {"publish", "wait"}
          /\ \E ok \in BOOLEAN :
               call' = [call EXCEPT ![pending[b]].ok = ok, ![pending[b]].at =
                          IF @ = "wait" THEN "answered" ELSE "early"]
    /\ UNCHANGED <<pending, scanning, recent>>

\* The broker may deliver the answer of an earlier scan before publish returns.
PublishAnswered(c) ==
    /\ call[c].at = "early"
    /\ call' = [call EXCEPT ![c].at = "answered"]
    /\ UNCHANGED <<pending, scanning, recent, mesh>>

Timeout(c) ==
    /\ call[c].at = "wait"
    /\ ClearGate(c)
    /\ call' = [call EXCEPT ![c] = Idle]
    /\ UNCHANGED <<recent, mesh>>

\* The call goes on: the gate is open again before the snapshot is stored.
Answered(c) ==
    /\ call[c].at = "answered"
    /\ ClearGate(c)
    /\ call' = [call EXCEPT ![c] = IF @.ok THEN [@ EXCEPT !.at = "store"] ELSE Idle]
    /\ UNCHANGED <<recent, mesh>>

Store(c) ==
    /\ call[c].at = "store"
    /\ recent' = recent \cup {call[c].base}
    /\ call' = [call EXCEPT ![c] = Idle]
    /\ UNCHANGED <<pending, scanning, mesh>>

IntervalPasses(b) ==
    /\ b \in recent /\ recent' = recent \ {b}
    /\ UNCHANGED <<call, pending, scanning, mesh>>

Proceeds(c) ==
    \/ Publish(c) \/ PublishFails(c) \/ PublishAnswered(c) \/ Timeout(c)
    \/ Answered(c) \/ Store(c)

Next ==
    \/ \E c \in Calls : Proceeds(c) \/ \E b \in Bases : Pull(c, b)
    \/ \E b \in Bases : OnResponse(b) \/ IntervalPasses(b)

Spec == Init /\ [][Next]_vars
FairSpec == Spec /\ \A c \in Calls : WF_vars(Proceeds(c))

-----------------------------------------------------------------------------

Stages == {"idle", "publish", "early", "wait", "answered", "store"}

TypeOK ==
    /\ call \in [Calls -> [at : Stages, base : Bases \cup {None}, ok : BOOLEAN]]
    /\ pending \in [Bases -> Calls \cup {None}]
    /\ scanning \in Bases \cup {None}
    /\ recent \in SUBSET Bases /\ mesh \in [Bases -> 0..MaxAnswers]

\* The gate and the pending futures are those of the one call that is between
\* its request and its answer (topology.py:6-7), whichever of answer, timeout or failed
\* publish ends it; with no such call the gate is open.
Asking == {c \in Calls : call[c].at \in {"publish", "early", "wait", "answered"}}
GateMatchesCalls ==
    /\ Cardinality(Asking) <= 1
    /\ scanning = None <=> Asking = {}
    /\ \A c \in Asking : scanning = call[c].base
    /\ \A b \in Bases : pending[b] # None <=> pending[b] \in Asking /\ scanning = b

=============================================================================
