--------------------------- MODULE CalibrationRamp ---------------------------
(***************************************************************************)
(* One benchmark run from its first step to its record (_run, _run_step,   *)
(* _run_replay_step, _settle, _evaluate_stop, _record in                   *)
(* calibration/benchmark.py): the driver that publishes reads on a         *)
(* schedule, the state echoes that complete them, the stop rules and the   *)
(* knee that is recorded.                                                  *)
(*                                                                         *)
(* The driver is one task of the event loop: it is at an await in "sleep", *)
(* "publish" and "drain", and only there do messages arrive and time pass. *)
(* An abort reason is set by a watchdog at an await or by the API thread   *)
(* anywhere.  Time is counted in ticks from the start of the step; what    *)
(* happens within a tick is not told apart.  An echo carries no identity:  *)
(* on_state completes the oldest read of its target whether the message    *)
(* answers it, answers one before it, or is a report of the device's own.  *)
(***************************************************************************)
EXTENDS Integers, Sequences, FiniteSetsExt

CONSTANTS
    Steps,        \* the ramp: sequence of [interval, bound], in ticks and reads
    Offsets,      \* the replay's schedule: the tick of each command
    ReplayBound,  \* the replay's outstanding bound
    Targets,      \* how many devices are read round-robin
    StepTicks,    \* STEP_SECONDS
    ReadTimeout,  \* READ_TIMEOUT_SECONDS
    MaxReads,     \* MAX_TOTAL_READS
    MaxRun,       \* MAX_RUN_SECONDS
    StallReads, StallTicks,  \* STALL_MIN_SENT, STALL_SECONDS
    DegradedTicks,  \* lateness of the sleeps that degrades a step's pacing
    MaxDelay      \* bound of the model: how long an await outlasts its time

ASSUME ScheduleAssumption ==
    /\ Steps \in Seq([interval : Nat \ {0}, bound : Nat \ {0}]) /\ Len(Steps) > 0
    /\ Offsets \in Seq(Nat) /\ Len(Offsets) > 0
    /\ Targets \in Nat \ {0} /\ StepTicks \in Nat \ {0}
ASSUME LimitsAssumption ==
    /\ ReplayBound \in Nat /\ ReadTimeout \in Nat /\ MaxReads \in Nat
    /\ MaxRun \in Nat /\ StallReads \in Nat /\ StallTicks \in Nat
    /\ DegradedTicks \in Nat /\ MaxDelay \in Nat

VARIABLES
    mode,      \* plan["mode"]: "ramp" (single, spread) or "replay"
    pc,        \* where the driver is
    status,    \* what _run will hand to _record
    index,     \* run.step_index, from 1
    t,         \* now - step.started_at
    elapsed,   \* step.started_at - run.started_at
    wake,      \* when the sleep or the publish should be over
    deadline,  \* _settle's deadline
    slot,      \* the schedule's next slot: next_due, or the replay's index
    rr,        \* run.rr_index, modulo the targets
    fifo,      \* run.outstanding: send times per target
    sent, completed, timeouts, deferred,  \* the current StepResult's counts
    sentTotal, \* run.sent_total
    late,      \* lateness of the step's pacing sleeps, up to DegradedTicks
    reason,    \* run.abort_reason is set
    results,   \* run.steps
    knee,      \* the recorded knee: the step it was read from, 0 for none
    after      \* ghost: reads published after the abort request, up to 2

step == <<index, t, elapsed, slot, rr, sent, completed, timeouts, deferred>>
vars == <<mode, pc, status, index, t, elapsed, wake, deadline, slot, rr, fifo, sent,
          completed, timeouts, deferred, sentTotal, late, reason, results,
          knee, after>>

-----------------------------------------------------------------------------

Awaiting == {"sleep", "publish", "blocked", "drain"}

\* outstanding_total(): the reads in all queues.
Reads(queues) == UNION {{k} \X DOMAIN queues[k] : k \in 1 .. Targets}
Total(queues) == Cardinality(Reads(queues))
Outstanding == Total(fifo)

Ramp == mode = "ramp"
Bound == IF Ramp THEN Steps[index].bound ELSE ReplayBound

\* next_due of a ramp slot, the offset of a replay command.
Due(s) == IF Ramp THEN s * Steps[index].interval ELSE Offsets[s + 1]

\* Variants named V_... change the definition that follows the way a slip in
\* the code would; no action uses them.  Each property is tried against one.

\* The step's schedule is over: step_end, or every command sent.
ScheduleOver == IF Ramp THEN t >= StepTicks ELSE slot >= Len(Offsets)

Init ==
    /\ mode \in {"ramp", "replay"}
    /\ pc = "loop" /\ status = "completed"
    /\ index = 1 /\ t = 0 /\ elapsed = 0 /\ wake = 0 /\ deadline = 0 /\ slot = 0 /\ rr = 0
    /\ fifo = [k \in 1 .. Targets |-> << >>]
    /\ sent = 0 /\ completed = 0 /\ timeouts = 0 /\ deferred = 0
    /\ sentTotal = 0 /\ late = 0 /\ reason = FALSE
    /\ results = << >> /\ knee = 0 /\ after = 0

-----------------------------------------------------------------------------
(* The driver's own steps *)

\* _expire_timeouts pops a queue's head while it has waited longer than the
\* timeout.
Fresh(times) == {i \in DOMAIN times : t - times[i] <= ReadTimeout}
Live(times) == IF Fresh(times) = {} THEN << >>
               ELSE SubSeq(times, Min(Fresh(times)), Len(times))

V_ExpireUncounted ==
    /\ fifo' = [k \in DOMAIN fifo |-> Live(fifo[k])]
    /\ UNCHANGED timeouts

Expire ==
    /\ fifo' = [k \in DOMAIN fifo |-> Live(fifo[k])]
    /\ timeouts' = timeouts + Outstanding - Total(fifo')

\* The current StepResult, as it goes into run.steps.
Result(breach, answered, expired) ==
    [breach |-> breach, sent |-> sent, completed |-> answered,
     timeouts |-> expired, deferred |-> deferred,
     degraded |-> late >= DegradedTicks]

\* except _Abort: keep the partial step, then record.
Stop(expired) ==
    /\ pc' = "record" /\ status' = "aborted"
    /\ reason' = TRUE
    /\ results' = Append(results, Result("none", completed, expired))

\* _check_abort, _check_stall and the two caps, in the code's order; the
\* first is asked before, the others after the timeouts are expired.
Stalled ==
    sent >= StallReads /\ completed = 0 /\ t > StallTicks
MustStop ==
    Stalled \/ sentTotal >= MaxReads \/ elapsed + t > MaxRun

\* The head of the loop of _run_step and _run_replay_step.
LoopAborts ==
    /\ pc = "loop" /\ ~ScheduleOver /\ reason
    /\ Stop(timeouts)
    /\ UNCHANGED <<mode, step, wake, deadline, fifo, sentTotal, late, knee, after>>

LoopStops ==
    /\ pc = "loop" /\ ~ScheduleOver /\ ~reason /\ MustStop
    /\ Expire
    /\ Stop(timeouts')
    /\ UNCHANGED <<mode, index, t, elapsed, slot, rr, sent, completed,
                   deferred, wake, deadline, sentTotal, late, knee, after>>

LoopContinues ==
    /\ pc = "loop" /\ ~ScheduleOver /\ ~reason /\ ~MustStop
    /\ Expire
    /\ pc' = "slots"
    /\ UNCHANGED <<mode, status, index, t, elapsed, slot, rr, sent, completed,
                   deferred, wake, deadline, sentTotal, late, reason, results, knee,
                   after>>

LoopEnds ==
    /\ pc = "loop" /\ ScheduleOver
    /\ pc' = "settle"
    /\ deadline' = t + ReadTimeout + 1
    /\ UNCHANGED <<mode, status, step, wake, fifo, sentTotal, late, reason,
                   results, knee, after>>

\* The ramp's inner loop and the replay's body: a due slot is sent if the
\* bound allows it.  The ramp's inner loop never looks at abort_reason.
SlotDue == ~ScheduleOver /\ Due(slot) <= t
HasRoom == Outstanding < Bound

SlotSends ==
    /\ pc = "slots" /\ SlotDue /\ HasRoom
    /\ pc' = "publish"
    /\ wake' = t
    /\ after' = IF reason THEN Min({after + 1, 2}) ELSE after
    /\ UNCHANGED <<mode, status, step, fifo, sentTotal, late, reason, results,
                   knee, deadline>>

\* ... deferred for good by the ramp,
SlotDeferred ==
    /\ pc = "slots" /\ SlotDue /\ ~HasRoom /\ Ramp
    /\ deferred' = deferred + 1
    /\ slot' = slot + 1
    /\ UNCHANGED <<mode, pc, status, index, t, elapsed, rr, sent, completed,
                   timeouts, wake, deadline, fifo, sentTotal, late, reason, results,
                   knee, after>>

V_SlotBlockedSpins ==
    /\ pc = "slots" /\ SlotDue /\ ~HasRoom /\ ~Ramp
    /\ wake' = t + 1
    /\ UNCHANGED <<mode, pc, status, step, deadline, fifo, sentTotal, late,
                   reason, results, knee, after>>

\* ... and waited for by the replay.
SlotBlocked ==
    /\ pc = "slots" /\ SlotDue /\ ~HasRoom /\ ~Ramp
    /\ pc' = "blocked"
    /\ wake' = t + 1
    /\ UNCHANGED <<mode, status, step, fifo, sentTotal, late, reason, results,
                   knee, after, deadline>>

\* Nothing is due: sleep until something is.
SlotSleeps ==
    /\ pc = "slots" /\ ~SlotDue
    /\ pc' = "sleep"
    /\ wake' = Max({Due(slot), t})
    /\ UNCHANGED <<mode, status, step, fifo, sentTotal, late, reason, results,
                   knee, after, deadline>>

\* The publish returns: only now is the read entered in the FIFO.
Published ==
    /\ pc = "publish"
    /\ rr' = (rr + 1) % Targets
    /\ fifo' = [fifo EXCEPT ![rr + 1] = Append(@, t)]
    /\ sent' = sent + 1
    /\ sentTotal' = sentTotal + 1
    /\ IF Ramp /\ sentTotal' >= MaxReads
       THEN pc' = "sleep" /\ wake' = t /\ UNCHANGED slot
       ELSE /\ pc' = IF Ramp THEN "slots" ELSE "loop"
            /\ slot' = slot + 1
            /\ UNCHANGED wake
    /\ UNCHANGED <<mode, status, index, t, elapsed, completed, timeouts,
                   deferred, late, reason, results, knee, after, deadline>>

\* The publish raises.
PublishFails ==
    /\ pc = "publish"
    /\ Stop(timeouts)
    /\ UNCHANGED <<mode, step, wake, deadline, fifo, sentTotal, late, knee, after>>

Overslept == t - wake

\* A pacing sleep is over, perhaps late; the wait of a blocked replay is not
\* a pacing sleep.
Wakes ==
    /\ pc = "sleep" /\ t >= wake
    /\ pc' = "loop"
    /\ late' = Min({late + Overslept, DegradedTicks})
    /\ UNCHANGED <<mode, status, step, wake, deadline, fifo, sentTotal, reason, results,
                   knee, after>>

Unblocks ==
    /\ pc = "blocked" /\ t >= wake
    /\ pc' = "loop"
    /\ UNCHANGED <<mode, status, step, wake, deadline, fifo, sentTotal, late, reason,
                   results, knee, after>>

-----------------------------------------------------------------------------
(* Between two steps: _settle, _finalize_step, _evaluate_stop *)

\* The loop of _settle, while reads are outstanding before its deadline.
Draining == Outstanding > 0 /\ t < deadline

SettleAborts ==
    /\ pc = "settle" /\ Draining /\ reason
    /\ Stop(timeouts)
    /\ UNCHANGED <<mode, step, wake, deadline, fifo, sentTotal, late, knee,
                   after>>

SettleDrains ==
    /\ pc = "settle" /\ Draining /\ ~reason
    /\ Expire
    /\ IF Total(fifo') > 0
       THEN pc' = "drain" /\ wake' = t + 1
       ELSE UNCHANGED <<pc, wake>>
    /\ UNCHANGED <<mode, status, index, t, elapsed, slot, rr, sent, completed,
                   deferred, deadline, sentTotal, late, reason, results, knee,
                   after>>

DrainTick ==
    /\ pc = "drain" /\ t >= wake
    /\ pc' = "settle"
    /\ UNCHANGED <<mode, status, step, wake, deadline, fifo, sentTotal, late,
                   reason, results, knee, after>>

\* The stop rules of _evaluate_stop, in its order, on the counts of the step.
\* The wire's delivery failures and the round-trip times are the mesh's; the
\* latter break a rule only from the second step on, against a baseline.
V_TimedOutWholly(expired) == sent > 0 /\ expired > sent
TimedOut(expired) == sent > 0 /\ 10 * expired > sent
Saturated == 10 * sent * Steps[index].interval < 8 * StepTicks
Breaches(expired) ==
    IF ~Ramp THEN {"none"}
    ELSE IF TimedOut(expired) THEN {"timeout_ratio"}
    ELSE {"delivery_failures"}
         \cup (IF index > 1 THEN {"rtt_p95"} ELSE {})
         \cup (IF Saturated THEN {"saturated"} ELSE {"none"})

LastStep == ~Ramp \/ index = Len(Steps)

\* What is still outstanding counts as timed out, the step is finalized and
\* judged; a breach or the last step ends the run, otherwise the next step
\* starts at once.
Settled ==
    /\ pc = "settle" /\ ~Draining
    /\ fifo' = [k \in DOMAIN fifo |-> << >>]
    /\ \E breach \in Breaches(timeouts + Outstanding) :
         /\ results' = Append(results, Result(breach, completed,
                                              timeouts + Outstanding))
         /\ IF breach # "none" \/ LastStep
            THEN pc' = "record" /\ UNCHANGED <<step, late>>
            ELSE /\ pc' = "loop"
                 /\ index' = index + 1
                 /\ elapsed' = elapsed + t
                 /\ t' = 0 /\ slot' = 0 /\ late' = 0
                 /\ sent' = 0 /\ completed' = 0 /\ timeouts' = 0
                 /\ deferred' = 0
                 /\ UNCHANGED rr
    /\ wake' = 0 /\ deadline' = 0
    /\ UNCHANGED <<mode, status, sentTotal, reason, knee, after>>

\* _record: no knee from a degraded driver, from a run that did not complete,
\* or from a replay; otherwise the last step that broke no rule.
Good == {i \in DOMAIN results : results[i].breach = "none"}
Degraded == \E i \in DOMAIN results : results[i].degraded
Record ==
    /\ pc = "record"
    /\ pc' = "done"
    /\ knee' = IF ~Degraded /\ status = "completed" /\ Good # {} /\ Ramp
               THEN Max(Good) ELSE 0
    /\ UNCHANGED <<mode, status, step, wake, deadline, fifo, sentTotal, late,
                   reason, results, after>>

-----------------------------------------------------------------------------
(* The rest of the program, and the mesh *)

\* on_state: a state message of target k completes its oldest read.
StateReport(k) ==
    /\ pc \in Awaiting /\ fifo[k] # << >>
    /\ fifo' = [fifo EXCEPT ![k] = Tail(@)]
    /\ completed' = completed + 1
    /\ UNCHANGED <<mode, pc, status, index, t, elapsed, slot, rr, sent,
                   timeouts, deferred, wake, deadline, sentTotal, late, reason,
                   results, knee, after>>

\* _request_abort, by a watchdog or by abort() on its own thread.
RequestAbort ==
    /\ pc \notin {"record", "done"} /\ ~reason
    /\ reason' = TRUE
    /\ UNCHANGED <<mode, pc, status, step, wake, deadline, fifo, sentTotal,
                   late, results, knee, after>>

\* Time passes while the driver awaits, and past the time it should resume
\* when the loop is busy elsewhere or the broker is slow.
Tick ==
    /\ pc \in Awaiting /\ t < wake + MaxDelay
    /\ t' = t + 1
    /\ UNCHANGED <<mode, pc, status, index, elapsed, slot, rr, sent, completed,
                   timeouts, deferred, wake, deadline, fifo, sentTotal, late,
                   reason, results, knee, after>>

Done == pc = "done" /\ UNCHANGED vars

Driver ==
    \/ LoopAborts \/ LoopStops \/ LoopContinues \/ LoopEnds
    \/ SlotSends \/ SlotDeferred \/ SlotBlocked \/ SlotSleeps
    \/ Published \/ PublishFails \/ Wakes \/ Unblocks
    \/ SettleAborts \/ SettleDrains \/ DrainTick \/ Settled \/ Record

Next ==
    \/ Driver
    \/ \E k \in 1 .. Targets : StateReport(k)
    \/ RequestAbort
    \/ Tick
    \/ Done

Spec == Init /\ [][Next]_vars

\* A ready task is resumed, a publish answers or fails (the client's own
\* timeout), and time passes.
FairSpec == Spec /\ WF_vars(Driver) /\ WF_vars(Tick)

=============================================================================
