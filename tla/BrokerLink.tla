----------------------------- MODULE BrokerLink -----------------------------
(***************************************************************************)
(* The task that keeps the collector connected to its broker               *)
(* (ingest/mqtt.py) and the requests that replace it when the broker's     *)
(* settings change (Engine.restart_ingest).  The awaits of a request and   *)
(* of a task's closing are steps of their own; all tasks use one client    *)
(* identifier.  Engine.restart_ha has the same shape.                      *)
(***************************************************************************)
EXTENDS Naturals, FiniteSets, FiniteSetsExt

CONSTANTS
    Requests,     \* API requests that may be under way at a time
    MaxTasks, MaxDrops, MaxErrors   \* bounds of the model

LinkAssumption == MaxTasks \in Nat \ {0} /\ MaxDrops \in Nat /\ MaxErrors \in Nat

Tasks == 1..MaxTasks
NoTask == 0

VARIABLES
    config,       \* the stored settings, by number
    link,         \* of each task: where run() is, and its settings
    current,      \* Engine._ingest_task, and Engine._ingest with it
    awaits,       \* the task whose end a request awaits
    drops, errors,
    overlapped, kept   \* ghosts: two requests at a time; a cancellation lost

vars == <<config, link, current, awaits, drops, errors, overlapped, kept>>

Fresh == [at |-> "none", config |-> 0]

Init ==
    /\ config = 1
    /\ link = [t \in Tasks |-> IF t = 1 THEN [at |-> "connecting", config |-> 1] ELSE Fresh]
    /\ current = 1
    /\ awaits = [r \in Requests |-> NoTask]
    /\ drops = 0 /\ errors = 0
    /\ overlapped = FALSE /\ kept = FALSE

-----------------------------------------------------------------------------
(* MqttIngest.run *)

To(t, where) == [link EXCEPT ![t].at = where]

\* The broker ends the connection of another client with the identifier, and
\* so that task starts over.
TakenOver(t) ==
    [u \in Tasks |->
        CASE u = t -> [link[u] EXCEPT !.at = "connected"]
          [] link[u].at = "connected" /\ link[u].config = link[t].config ->
               [link[u] EXCEPT !.at = "backoff"]
          [] OTHER -> link[u]]
Connect(t) ==
    /\ link[t].at = "connecting"
    /\ link' = TakenOver(t)
    /\ UNCHANGED <<config, current, awaits, drops, errors, overlapped, kept>>

\* The connection cannot be made, or it is lost.
Drop(t) ==
    /\ link[t].at \in {"connecting", "connected"}
    /\ drops < MaxDrops /\ drops' = drops + 1
    /\ link' = To(t, "backoff")
    /\ UNCHANGED <<config, current, awaits, errors, overlapped, kept>>

\* A message whose handler raises is counted, and the next one awaited.
HandlerRaises(t) ==
    /\ link[t].at = "connected"
    /\ errors < MaxErrors /\ errors' = errors + 1
    /\ UNCHANGED <<config, link, current, awaits, drops, overlapped, kept>>

Wake(t) ==
    /\ link[t].at = "backoff"
    /\ link' = To(t, "connecting")
    /\ UNCHANGED <<config, current, awaits, drops, errors, overlapped, kept>>

\* A cancelled task leaves its client.
Close(t) ==
    /\ link[t].at = "closing"
    /\ link' = To(t, "ended")
    /\ UNCHANGED <<config, current, awaits, drops, errors, overlapped, kept>>

\* But when leaving it fails, the error takes the cancellation's place and is
\* caught as any lost connection.
CloseFails(t) ==
    /\ link[t].at = "closing"
    /\ drops < MaxDrops /\ drops' = drops + 1
    /\ link' = To(t, "backoff")
    /\ kept' = TRUE
    /\ UNCHANGED <<config, current, awaits, errors, overlapped>>

Run(t) == Connect(t) \/ Wake(t) \/ Close(t)

-----------------------------------------------------------------------------
(* apply_broker_config and restart_ingest *)

Unused == {t \in Tasks : link[t].at = "none"}
\* A task that sleeps has no client to leave.
Cancelled(t) == To(t, IF link[t].at \in {"ended", "backoff"} THEN "ended" ELSE "closing")

\* The settings are stored, the task is cancelled, and its end awaited.
Apply(r) ==
    /\ awaits[r] = NoTask
    /\ Cardinality(Unused) > Cardinality({q \in Requests : awaits[q] # NoTask})
    /\ config' = config + 1
    /\ link' = Cancelled(current)
    /\ awaits' = [awaits EXCEPT ![r] = current]
    /\ overlapped' = (overlapped \/ \E q \in Requests : awaits[q] # NoTask)
    /\ UNCHANGED <<current, drops, errors, kept>>

\* A task for the settings as they now are takes its place.
V_NotWaited(r) == TRUE
Awaited(r) == link[awaits[r]].at = "ended"
Replace(r) ==
    /\ awaits[r] # NoTask /\ Awaited(r)
    /\ current' = Min(Unused)
    /\ link' = [link EXCEPT ![Min(Unused)] = [at |-> "connecting", config |-> config]]
    /\ awaits' = [awaits EXCEPT ![r] = NoTask]
    /\ UNCHANGED <<config, drops, errors, overlapped, kept>>

Next ==
    \/ \E t \in Tasks : Run(t) \/ Drop(t) \/ HandlerRaises(t) \/ CloseFails(t)
    \/ \E r \in Requests : Apply(r) \/ Replace(r)

Spec == Init /\ [][Next]_vars

\* The loop runs its tasks, and requests that are ready.
Fairness == /\ \A t \in Tasks : WF_vars(Run(t))
            /\ \A r \in Requests : WF_vars(Replace(r))

FairSpec == Spec /\ Fairness

-----------------------------------------------------------------------------

TypeOK ==
    /\ config \in 1..MaxTasks /\ current \in Tasks
    /\ link \in [Tasks -> [at : {"none", "connecting", "connected", "backoff", "closing", "ended"},
                           config : 0..MaxTasks]]
    /\ awaits \in [Requests -> Tasks \cup {NoTask}]
    /\ drops \in 0..MaxDrops /\ errors \in 0..MaxErrors

\* The engine can cancel what it started (mqtt.py:3-4): a task that runs is
\* the one it holds, and there is one connection.  But of two requests at a
\* time the second drops the task that the first has just made, which then
\* runs on, and the two end each other's connection.
NoneAstray ==
    overlapped \/
      /\ \A t \in Tasks : link[t].at \in {"connecting", "connected", "backoff"} => t = current
      /\ \A r \in Requests : awaits[r] # NoTask => awaits[r] = current

\* Whatever is lost or raises, the collector comes to be connected with the
\* settings it was last given, and requests end (mqtt.py:1-11), unless two
\* overlapped or a cancellation was lost.
LinkRecovers ==
    <>[](overlapped \/ kept \/
           /\ link[current] = [at |-> "connected", config |-> config]
           /\ \A r \in Requests : awaits[r] = NoTask)

=============================================================================
