--------------------- MODULE CalibrationLifecycleProps ---------------------
(* What CalibrationLifecycle is checked for. *)
EXTENDS CalibrationLifecycle

\* Every variable stays within its type; a plan is only ever one a preview
\* built, and the counters stay within the caps of the configuration.
TypeOK ==
    /\ authz \in [Tokens -> Plans \cup {NoPlan}]
    /\ age \in [Tokens -> 0 .. Ttl + 1]
    /\ active \in Tokens \cup {NoTask}
    /\ bulk \in Tokens \cup {NoTask}
    /\ cooldown \in 0 .. Cooldown
    /\ pc \in [Tokens -> {"none"} \cup Running \cup Batching]
    /\ rest \in [Tokens -> 0 .. MaxBatch]
    /\ reason \in [Tokens -> BOOLEAN]
    /\ flagged \in [Tokens -> BOOLEAN]
    /\ aborter \in {"idle", "entered", "sawBulk", "flagged"}
    /\ left \in [Tokens -> Int]
    /\ quiet \in 0 .. Cooldown
    /\ acked \in SUBSET Tokens
    /\ overrun \in [Tokens -> Nat]

-----------------------------------------------------------------------------
(* Safety *)

\* No run was ever launched that a preview's token did not allow: a token
\* serves once, only within its TTL, for no more runs than its plan lists,
\* and an aborted run takes the rest of its batch with it.  (_take_authorization,
\* the pops in start / start_replay / start_bulk, and _run_bulk's early return.)
AuthorizedRunsOnly == \A t \in Tokens : left[t] >= 0

\* Two tasks never have a run on the mesh at the same time, stand-alone or
\* batch: _active and _bulk, two pointers that different tasks set and
\* clear, exclude it together (_require_idle, _run's finally, _run_bulk).
OneRunOnTheMesh ==
    \A s, t \in Tokens : pc[s] \in Running /\ pc[t] \in Running => s = t

\* The pointers tell the truth about the tasks: a run that is over never
\* leaves _active or _bulk behind, which would refuse every later start
\* ("a stuck running state would block all runs", _run's finally), and no
\* task works on a run the pointers do not know, which abort() and the
\* watchdogs could not reach.
PointersMatchTasks ==
    /\ \A t \in Tokens : pc[t] \in Running <=> active = t
    /\ \A t \in Tokens : pc[t] \in Batching => bulk = t
    /\ bulk # NoTask => pc[bulk] # "none"

\* Pointers, tasks and tokens agree: who may run does, alone.
SoundRuns == TypeOK /\ AuthorizedRunsOnly /\ OneRunOnTheMesh /\ PointersMatchTasks

\* An answered abort of a batch may come too late for one launch, never for
\* two (see AbortIsLive in the run abort_race).
AbortStopsTheRemainder == \A t \in Tokens : overrun[t] <= 1

\* After a run is released the mesh rests for a whole cool-down before the
\* next one takes it, whether the next is a start or a batch's own, and
\* whether or not the record could be stored.
RestBetweenRuns ==
    [][active = NoTask /\ active' # NoTask => quiet = Cooldown]_vars

-----------------------------------------------------------------------------
(* Refinement *)

\* The benchmark implements the lease on the mesh.
Lease == INSTANCE MeshLease WITH
    Holders <- Tokens,
    MaxCredit <- MaxBatch,
    Rest <- Cooldown,
    holders <- {t \in Tokens : pc[t] \in Running},
    credit <- left,
    quiet <- quiet

ImplementsLease == Lease!Spec

-----------------------------------------------------------------------------
(* Liveness *)

\* Whatever happens to a run - a full ramp, an abort, a failed insert - the
\* mesh is released again, and with it the only slot for runs.
RunReleased == \A t \in Tokens : active = t ~> active # t

\* A batch comes to its end whatever its runs do, also one whose cool-down
\* wait is all that is left.
BatchEnds == \A t \in Tokens : bulk = t ~> bulk # t

\* Runs and batches end.
MeshComesFree == RunReleased /\ BatchEnds

-----------------------------------------------------------------------------
(* What the documentation says and the code does not do *)

\* DESIGN.md section 11.4, "manual abort always live", and abort()'s own
\* docstring, "Abort the active run and, if a batch is in flight, its whole
\* queue": once an abort of a batch was answered, no run of that batch is
\* active without an abort reason.
AbortIsLive == \A t \in acked : active = t => reason[t]

=============================================================================
