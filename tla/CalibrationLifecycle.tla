------------------------ MODULE CalibrationLifecycle ------------------------
(***************************************************************************)
(* The run lifecycle of CalibrationManager (calibration/benchmark.py):     *)
(* preview mints a single-use authorization, start / start_replay /        *)
(* start_bulk spend it, one asyncio task per started authorization works   *)
(* through its runs, every run ends in _record, and abort() stops a run    *)
(* and the batch behind it.                                                *)
(*                                                                         *)
(* Two kinds of thread meet here.  The event loop runs the async           *)
(* endpoints, the message hooks and the tasks, and switches only at an     *)
(* await.  The API threadpool runs preview() and abort(), whose steps      *)
(* interleave with the loop anywhere, also between two statements of a     *)
(* task: that is what the "checked" state of a batch is for.               *)
(*                                                                         *)
(* A token stands for the authorization and for the task it starts, so two *)
(* tasks at once can be expressed and have to be excluded by the code's    *)
(* own guards.  What a ramp sends is CalibrationRamp's subject.            *)
(***************************************************************************)
EXTENDS Integers, FiniteSets

CONSTANTS
    Tokens,    \* authorization tokens, recycled when their task is over
    NoTask,    \* None, as a value of _active and _bulk
    NoPlan,    \* no entry under this token in _authorizations
    MaxBatch,  \* runs of the largest batch: one per coordinator
    Ttl,       \* AUTHORIZATION_TTL_SECONDS, in clock ticks
    Cooldown   \* COOLDOWN_SECONDS, in clock ticks

ASSUME NoTaskAssumption == NoTask \notin Tokens
ASSUME MaxBatchAssumption == MaxBatch \in Nat \ {0}
ASSUME TtlAssumption == Ttl \in Nat
ASSUME CooldownAssumption == Cooldown \in Nat \ {0}

SinglePlans == [mode : {"ramp", "replay"}, runs : {1}]
BatchPlans == [mode : {"batch"}, runs : 1 .. MaxBatch]
Plans == SinglePlans \cup BatchPlans

ASSUME NoPlanAssumption == NoPlan \notin Plans

VARIABLES
    authz,     \* _authorizations: token -> plan, NoPlan when absent
    age,       \* token -> ticks since created_at, saturating past the TTL
    active,    \* _active, as the token of the task that owns the run
    bulk,      \* _bulk, likewise
    cooldown,  \* _cooldown_until - now, floored at 0
    pc,        \* where the task of each token is
    rest,      \* runs of the plan that the task has not reached yet
    reason,    \* run.abort_reason is set on the task's current run
    flagged,   \* bulk.abort_requested of the task's batch
    aborter,   \* the API thread inside abort()
    left,      \* ghost: runs the user's confirmation still allows
    quiet,     \* ghost: ticks since this process last released the mesh
    acked,     \* ghost: batches whose abort was answered with success
    overrun    \* ghost: runs a batch launched after that answer

codeVars == <<authz, age, active, bulk, cooldown, pc, rest, reason, flagged,
              aborter>>
vars == <<authz, age, active, bulk, cooldown, pc, rest, reason, flagged,
          aborter, left, quiet, acked, overrun>>

-----------------------------------------------------------------------------

Running == {"created", "ramp", "recording"}
Batching == {"wait", "checked", "skipping"}

IsBatch(t) == bulk = t

\* The loop is inside a task's statements, not at an await.
LoopFree == \A t \in Tokens : pc[t] # "checked"

Expired(t) == age[t] > Ttl

\* Variants named V_... change one definition below them the way a slip in
\* the code would; no action uses them.  Each property is tried against one.
V_IdleForgetsCooldown == bulk = NoTask /\ active = NoTask

\* _require_idle: the guard every start shares.
Idle == bulk = NoTask /\ active = NoTask /\ cooldown = 0

V_SpendKeepsToken(t) == UNCHANGED <<authz, age>>

\* pop: the entry, and with it its created_at, is gone.
Spend(t) ==
    /\ authz' = [authz EXCEPT ![t] = NoPlan]
    /\ age' = [age EXCEPT ![t] = 0]

\* The ghost book-keeping of a run that takes the mesh.
Account(t) == left' = [left EXCEPT ![t] = @ - 1]

Init ==
    /\ authz = [t \in Tokens |-> NoPlan]
    /\ age = [t \in Tokens |-> 0]
    /\ active = NoTask
    /\ bulk = NoTask
    /\ cooldown = 0
    /\ pc = [t \in Tokens |-> "none"]
    /\ rest = [t \in Tokens |-> 0]
    /\ reason = [t \in Tokens |-> FALSE]
    /\ flagged = [t \in Tokens |-> FALSE]
    /\ aborter = "idle"
    /\ left = [t \in Tokens |-> 0]
    /\ quiet = Cooldown
    /\ acked = {}
    /\ overrun = [t \in Tokens |-> 0]

-----------------------------------------------------------------------------
(* Authorizations *)

\* preview, preview_spread, preview_replay, preview_bulk, on an API thread:
\* mint a token, then sweep the stale ones.
Preview(t) ==
    /\ authz[t] = NoPlan /\ pc[t] = "none"
    /\ \E p \in Plans :
         /\ authz' = [u \in Tokens |-> IF u = t THEN p
                                       ELSE IF Expired(u) THEN NoPlan
                                       ELSE authz[u]]
         /\ left' = [left EXCEPT ![t] = p.runs]
    /\ age' = [u \in Tokens |-> IF u = t \/ Expired(u) THEN 0 ELSE age[u]]
    /\ UNCHANGED <<active, bulk, cooldown, pc, rest, reason, flagged, aborter,
                   quiet, acked, overrun>>

\* _take_authorization on a token past its TTL: popped and refused.
StartExpired(t) ==
    /\ LoopFree
    /\ authz[t] # NoPlan /\ Expired(t)
    /\ Spend(t)
    /\ UNCHANGED <<active, bulk, cooldown, pc, rest, reason, flagged, aborter,
                   left, quiet, acked, overrun>>

\* _take_authorization accepts the token for an endpoint of these modes.
Accepted(t, modes) ==
    authz[t] # NoPlan /\ ~Expired(t) /\ authz[t].mode \in modes

\* What start and start_replay share: spend the token, install the run,
\* create its task.  _verify_plan_targets may refuse: then nothing changes.
StartRun(t) ==
    /\ LoopFree /\ Idle
    /\ Spend(t)
    /\ active' = t
    /\ pc' = [pc EXCEPT ![t] = "created"]
    /\ Account(t)
    /\ UNCHANGED <<bulk, cooldown, rest, reason, flagged, aborter, quiet,
                   acked, overrun>>

Start(t) == Accepted(t, {"ramp"}) /\ StartRun(t)
StartReplay(t) == Accepted(t, {"replay"}) /\ StartRun(t)

StartBulk(t) ==
    /\ Accepted(t, {"batch"})
    /\ LoopFree /\ Idle
    /\ Spend(t)
    /\ bulk' = t
    /\ pc' = [pc EXCEPT ![t] = "wait"]
    /\ rest' = [rest EXCEPT ![t] = authz[t].runs]
    /\ UNCHANGED <<active, cooldown, reason, flagged, aborter, left, quiet,
                   acked, overrun>>

-----------------------------------------------------------------------------
(* The run: _run *)

\* The event loop gets to the created task.
Begin(t) ==
    /\ LoopFree /\ pc[t] = "created"
    /\ pc' = [pc EXCEPT ![t] = "ramp"]
    /\ UNCHANGED <<authz, age, active, bulk, cooldown, rest, reason, flagged,
                   aborter, left, quiet, acked, overrun>>

\* An abort reason stops the rest of a batch, so it also ends what the
\* confirmation allowed.
SetReason(t) ==
    /\ reason' = [reason EXCEPT ![t] = TRUE]
    /\ left' = [left EXCEPT ![t] = 0]

\* on_availability and on_bridge_log: a watchdog asks the active run to stop.
Watchdog ==
    /\ LoopFree /\ active # NoTask /\ ~reason[active]
    /\ SetReason(active)
    /\ UNCHANGED <<authz, age, active, bulk, cooldown, pc, rest, flagged,
                   aborter, quiet, acked, overrun>>

\* The steps are over without an _Abort: a reason set too late to be seen
\* leaves the status "completed" but stays on the run.
RampCompletes(t) ==
    /\ LoopFree /\ pc[t] = "ramp"
    /\ pc' = [pc EXCEPT ![t] = "recording"]
    /\ UNCHANGED <<authz, age, active, bulk, cooldown, rest, reason, flagged,
                   aborter, left, quiet, acked, overrun>>

\* _check_abort, a cap, a stall, a failed publish, or an internal error: each
\* handler sees to it that the run carries a reason.
RampStops(t) ==
    /\ LoopFree /\ pc[t] = "ramp"
    /\ pc' = [pc EXCEPT ![t] = "recording"]
    /\ SetReason(t)
    /\ UNCHANGED <<authz, age, active, bulk, cooldown, rest, flagged, aborter,
                   quiet, acked, overrun>>

\* The inner finally: arm the cool-down, then release the run.
Release ==
    /\ cooldown' = Cooldown
    /\ active' = NoTask
    /\ quiet' = 0

V_LeavesBulkSet(t) == UNCHANGED bulk
LeavesBulk(t) == bulk' = IF IsBatch(t) THEN NoTask ELSE bulk

\* The task ends and its run and batch objects are forgotten: the end of _run
\* for a stand-alone run, the finally of _run_bulk for a batch.  The user's
\* confirmation ends with it.
EndTask(t) ==
    /\ pc' = [pc EXCEPT ![t] = "none"]
    /\ LeavesBulk(t)
    /\ rest' = [rest EXCEPT ![t] = 0]
    /\ reason' = [reason EXCEPT ![t] = FALSE]
    /\ flagged' = [flagged EXCEPT ![t] = FALSE]
    /\ left' = [left EXCEPT ![t] = 0]
    /\ acked' = acked \ {t}
    /\ overrun' = [overrun EXCEPT ![t] = 0]

\* The queue has a next run.
More(t) == rest[t] > 0

\* A run with an abort reason takes the rest of the queue with it.
GoesOn(t) == IsBatch(t) /\ ~reason[t] /\ More(t)

\* The worker thread's _record returns and the batch goes on.
RecordContinues(t) ==
    /\ LoopFree /\ pc[t] = "recording" /\ GoesOn(t)
    /\ Release
    /\ pc' = [pc EXCEPT ![t] = "wait"]
    /\ UNCHANGED <<authz, age, bulk, rest, reason, flagged, aborter, left,
                   acked, overrun>>

\* _record returns after a stand-alone run, an aborted run or the last of the
\* queue, or it raises: then a batch ends where it is.
RecordEnds(t) ==
    /\ LoopFree /\ pc[t] = "recording"
    /\ Release
    /\ EndTask(t)
    /\ UNCHANGED <<authz, age, aborter>>

-----------------------------------------------------------------------------
(* The batch: _run_bulk *)

\* abort_requested is seen in the cool-down wait or right after it.
BulkStopped(t) ==
    /\ LoopFree /\ pc[t] = "wait" /\ flagged[t]
    /\ EndTask(t)
    /\ UNCHANGED <<authz, age, active, cooldown, aborter, quiet>>

V_MayProceedFlagged(t) == cooldown = 0
MayProceed(t) == ~flagged[t] /\ cooldown = 0

\* The cool-down is over and no abort is requested: the loop goes on, without
\* an await, towards the launch.
BulkProceeds(t) ==
    /\ LoopFree /\ pc[t] = "wait" /\ MayProceed(t)
    /\ pc' = [pc EXCEPT ![t] = "checked"]
    /\ UNCHANGED <<authz, age, active, bulk, cooldown, rest, reason, flagged,
                   aborter, left, quiet, acked, overrun>>

Advances(t) == rest' = [rest EXCEPT ![t] = @ - 1]

\* The targets still verify: install the run and start ramping.
BulkLaunches(t) ==
    /\ pc[t] = "checked"
    /\ active' = t
    /\ pc' = [pc EXCEPT ![t] = "ramp"]
    /\ Advances(t)
    /\ Account(t)
    /\ overrun' = [overrun EXCEPT ![t] = IF t \in acked THEN @ + 1 ELSE @]
    /\ UNCHANGED <<authz, age, bulk, cooldown, reason, flagged, aborter, quiet,
                   acked>>

\* The targets changed since the preview: the run is recorded as skipped.
BulkSkips(t) ==
    /\ pc[t] = "checked"
    /\ pc' = [pc EXCEPT ![t] = "skipping"]
    /\ Advances(t)
    /\ left' = [left EXCEPT ![t] = @ - 1]
    /\ UNCHANGED <<authz, age, active, bulk, cooldown, reason, flagged,
                   aborter, quiet, acked, overrun>>

\* _record_skip returns and the queue has more.
SkipRecorded(t) ==
    /\ LoopFree /\ pc[t] = "skipping" /\ More(t)
    /\ pc' = [pc EXCEPT ![t] = "wait"]
    /\ UNCHANGED <<authz, age, active, bulk, cooldown, rest, reason, flagged,
                   aborter, left, quiet, acked, overrun>>

\* _record_skip raises, or this was the last of the queue.
SkipEndsBatch(t) ==
    /\ LoopFree /\ pc[t] = "skipping"
    /\ EndTask(t)
    /\ UNCHANGED <<authz, age, active, cooldown, aborter, quiet>>

-----------------------------------------------------------------------------
(* abort(), statement by statement on an API thread *)

\* Something is running, so the request is not refused.
AbortEnter ==
    /\ aborter = "idle"
    /\ active # NoTask \/ bulk # NoTask
    /\ aborter' = "entered"
    /\ UNCHANGED <<authz, age, active, bulk, cooldown, pc, rest, reason,
                   flagged, left, quiet, acked, overrun>>

\* `if self._bulk is not None`
AbortReadsBulk ==
    /\ aborter = "entered"
    /\ aborter' = IF bulk # NoTask THEN "sawBulk" ELSE "flagged"
    /\ UNCHANGED <<authz, age, active, bulk, cooldown, pc, rest, reason,
                   flagged, left, quiet, acked, overrun>>

\* `self._bulk.abort_requested = True` reads _bulk again: the batch may have
\* ended meanwhile, and then the request fails with an AttributeError.
AbortFlags ==
    /\ aborter = "sawBulk"
    /\ IF bulk = NoTask
       THEN aborter' = "idle" /\ UNCHANGED flagged
       ELSE aborter' = "flagged" /\ flagged' = [flagged EXCEPT ![bulk] = TRUE]
    /\ UNCHANGED <<authz, age, active, bulk, cooldown, pc, rest, reason, left,
                   quiet, acked, overrun>>

\* `if self._active is not None: self._request_abort(...)`, and the answer.
AbortRequests ==
    /\ aborter = "flagged"
    /\ aborter' = "idle"
    /\ \/ active # NoTask /\ ~reason[active] /\ SetReason(active)
       \/ active # NoTask /\ reason[active] /\ UNCHANGED <<reason, left>>
       \/ active = NoTask /\ UNCHANGED <<reason, left>>
    /\ acked' = IF bulk # NoTask /\ flagged[bulk] THEN acked \cup {bulk}
                ELSE acked
    /\ UNCHANGED <<authz, age, active, bulk, cooldown, pc, rest, flagged,
                   quiet, overrun>>

-----------------------------------------------------------------------------
(* The environment *)

\* Time passes.  An authorization nobody confirmed in time is worth nothing.
Tick ==
    /\ cooldown' = IF cooldown > 0 THEN cooldown - 1 ELSE 0
    /\ quiet' = IF quiet < Cooldown THEN quiet + 1 ELSE quiet
    /\ age' = [t \in Tokens |-> IF authz[t] # NoPlan /\ ~Expired(t)
                                THEN age[t] + 1 ELSE age[t]]
    /\ left' = [t \in Tokens |-> IF pc[t] = "none" /\ age'[t] > Ttl THEN 0
                                 ELSE left[t]]
    /\ UNCHANGED <<authz, active, bulk, pc, rest, reason, flagged, aborter,
                   acked, overrun>>

\* shutdown() or a crash, then a new process: all of this state is in memory,
\* the cool-down included.
Restart ==
    /\ authz' = [t \in Tokens |-> NoPlan]
    /\ age' = [t \in Tokens |-> 0]
    /\ active' = NoTask
    /\ bulk' = NoTask
    /\ cooldown' = 0
    /\ pc' = [t \in Tokens |-> "none"]
    /\ rest' = [t \in Tokens |-> 0]
    /\ reason' = [t \in Tokens |-> FALSE]
    /\ flagged' = [t \in Tokens |-> FALSE]
    /\ aborter' = "idle"
    /\ left' = [t \in Tokens |-> 0]
    /\ quiet' = Cooldown
    /\ acked' = {}
    /\ overrun' = [t \in Tokens |-> 0]

TaskStep(t) ==
    \/ Begin(t) \/ RampCompletes(t) \/ RampStops(t)
    \/ RecordContinues(t) \/ RecordEnds(t)
    \/ BulkStopped(t) \/ BulkProceeds(t) \/ BulkLaunches(t) \/ BulkSkips(t)
    \/ SkipRecorded(t) \/ SkipEndsBatch(t)

Next ==
    \/ \E t \in Tokens : Preview(t) \/ StartExpired(t) \/ Start(t)
                         \/ StartReplay(t) \/ StartBulk(t)
    \/ \E t \in Tokens : TaskStep(t)
    \/ Watchdog
    \/ AbortEnter \/ AbortReadsBulk \/ AbortFlags \/ AbortRequests
    \/ Tick \/ Restart

\* The loop keeps scheduling a ready task, the ramp ends (its steps and its
\* wall-clock cap are bounded), the store answers or fails, and time passes.
Fairness == WF_vars(Tick) /\ \A t \in Tokens : WF_vars(TaskStep(t))

Spec == Init /\ [][Next]_vars
FairSpec == Spec /\ Fairness

=============================================================================
