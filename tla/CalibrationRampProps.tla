------------------------ MODULE CalibrationRampProps ------------------------
(* What CalibrationRamp is checked for. *)
EXTENDS CalibrationRamp

StepResults ==
    [breach : {"none", "timeout_ratio", "delivery_failures", "rtt_p95",
               "saturated"},
     sent : Nat, completed : Nat, timeouts : Nat, deferred : Nat,
     degraded : BOOLEAN]

\* Every variable stays within its type.
TypeOK ==
    /\ mode \in {"ramp", "replay"}
    /\ pc \in Awaiting \cup {"loop", "slots", "settle", "record", "done"}
    /\ status \in {"completed", "aborted"}
    /\ index \in 1 .. Len(Steps)
    /\ t \in Nat /\ elapsed \in Nat /\ wake \in Nat /\ deadline \in Nat
    /\ slot \in Nat /\ rr \in 0 .. Targets - 1
    /\ fifo \in [1 .. Targets -> Seq(Nat)]
    /\ sent \in Nat /\ completed \in Nat /\ timeouts \in Nat
    /\ deferred \in Nat /\ sentTotal \in Nat
    /\ late \in 0 .. DegradedTicks
    /\ reason \in BOOLEAN
    /\ results \in Seq(StepResults)
    /\ knee \in 0 .. Len(Steps)
    /\ after \in 0 .. 2

Finished(i) == i < Len(results) \/ status = "completed"

\* No read is lost from the books, whatever is answered late, twice or never:
\* in the current step each read is outstanding, answered or timed out, and
\* once a step is settled nothing of it is outstanding ("so steps don't bleed
\* into each other", _settle).
EveryReadAccounted ==
    /\ pc \notin {"record", "done"} =>
         sent = completed + timeouts + Outstanding
    /\ \A i \in DOMAIN results : Finished(i) =>
         results[i].sent = results[i].completed + results[i].timeouts

\* The driver never has more reads outstanding than the step's bound, across
\* all targets, also in the bursts with which it catches up ("a stalling mesh
\* throttles the driver").
NeverBuried == pc # "done" => Outstanding <= Bound

\* The hard cap on a run's reads holds to the read.
ReadCap == sentTotal <= MaxReads

\* The books are right and the bounds hold, at once: each is kept by counts
\* the others change.
BooksAndBounds == TypeOK /\ EveryReadAccounted /\ NeverBuried /\ ReadCap

\* A recorded knee is a rate the mesh sustained: a ramp that ran to its end
\* with undisturbed pacing sent at least 80 % of that step's schedule and had
\* at least 90 % of those reads answered, and no lower step had failed.
KneeSustained ==
    knee > 0 =>
        /\ mode = "ramp" /\ status = "completed"
        /\ \A i \in 1 .. knee :
             /\ 10 * results[i].completed >= 9 * results[i].sent
             /\ 10 * results[i].sent * Steps[i].interval >= 8 * StepTicks
             /\ ~results[i].degraded

\* A mesh that answers nothing is left alone after one step at the latest,
\* whatever the ramp had in store.
DeadMeshSpared ==
    completed = 0 /\ (\A i \in DOMAIN results : results[i].completed = 0)
        => Len(results) <= 1 /\ index = 1

\* "Unlike the ramp's consume-or-defer slots, a replay never drops a send":
\* a replay that completes has sent every command of its schedule, and none
\* before its time.
ReplayWhole ==
    mode = "replay" =>
        /\ pc = "done" /\ status = "completed" => sent = Len(Offsets)
        /\ sent > 0 => Offsets[sent] <= t

\* What a run's record says of the mesh is so.
RecordsSound == KneeSustained /\ DeadMeshSpared /\ ReplayWhole

\* Every run comes to an end, with its record, also on a dead mesh, a slow
\* broker or a late loop.
RunEnds == <>(pc = "done")

-----------------------------------------------------------------------------
(* What comments say and the code does not do *)

\* "watchdog or manual abort; stop transmitting immediately" (_Abort): once a
\* run is asked to abort, at most the read the driver was about to send still
\* leaves.
AbortStopsSending == after <= 1

\* "Every due slot is consumed exactly once: sent, or deferred when the
\* outstanding bound blocks it, so a saturated step always means real
\* backpressure rather than driver overhead" (_run_step): a step that is
\* recorded as saturated, with pacing judged sound, deferred a read.
SaturationIsBackpressure ==
    \A i \in DOMAIN results :
        results[i].breach = "saturated" /\ ~results[i].degraded
            => results[i].deferred > 0

=============================================================================
