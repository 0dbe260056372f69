--------------------------- MODULE AlertEvaluator ---------------------------
(***************************************************************************)
(* One alert rule (alerts.py): the evaluator's pass on the flush worker,   *)
(* the rule's edits on an API thread, and the events in the database.      *)
(*                                                                         *)
(* The two threads share `_states` without a lock; each write() is a       *)
(* transaction of its own.  The worker reads a pair's state object once    *)
(* and goes on with that object although an edit may have put another one  *)
(* in the dictionary: `held` is the object once that has happened.  Time   *)
(* is counted in passes.  A value is below the clear threshold, between    *)
(* the thresholds, or beyond the threshold; how far beyond (the peak) is   *)
(* not kept, nor are closed events.                                        *)
(***************************************************************************)
EXTENDS Integers, FiniteSets, FiniteSetsExt

CONSTANTS
    Instances,    \* the instances the metric may report
    All,          \* GLOBAL_INSTANCE: the rule watches every instance
    NoState,      \* no entry in _states
    Attached,     \* the worker's object is the one in _states
    Sustain,      \* sustain_seconds, in passes
    ClearSustain, \* max(sustain_seconds, CLEAR_MIN_SUSTAIN_SECONDS), in passes
    MaxTotal,     \* bound of the model: a counter's total
    MaxEdits, MaxEvents, MaxFailures, MaxRestarts  \* bounds of the model

AlertAssumption ==
    Sustain \in Nat /\ ClearSustain \in Nat /\ MaxTotal \in Nat /\ MaxEvents \in Nat

VARIABLES
    kind,      \* METRICS[rule["metric"]]["kind"]
    rule,      \* the row of alert_rules, and whether it is there
    open,      \* alert_events with cleared_at NULL
    states,    \* _states, by instance
    total,     \* a counter metric's totals
    baseline,  \* _deltas
    pass,      \* where the worker is, and tick's local variables
    held,      \* the worker's object, when it is no longer in _states
    edit,      \* what the API thread is doing
    grown,     \* _states has grown under the API thread's iteration
    edits, events, failures, restarts

workerVars == <<pass, held>>
apiVars == <<edit, grown, edits>>
metricVars == <<total, baseline>>
bounds == <<failures, restarts>>
vars == <<kind, rule, open, states, total, baseline, pass, held, edit, grown,
          edits, events, failures, restarts>>

-----------------------------------------------------------------------------

Never == -1
NoEvent == 0
Absent == "absent"
Levels == {"ok", "between", "breached"}

\* _PairState, its two timers as ages.
Fresh == [event |-> NoEvent, breach |-> Never, ok |-> Never]

Idle == [at |-> "idle", on |-> FALSE, values |-> [i \in Instances |-> "absent"],
         todo |-> {}, cur |-> All, event |-> NoEvent]

Started(age) == IF age = Never THEN 0 ELSE age
Older(age, limit) == IF age = Never THEN Never ELSE Min({age + 1, limit})
Aged(s) == IF s = NoState THEN s
           ELSE [s EXCEPT !.breach = Older(@, Sustain),
                          !.ok = Older(@, ClearSustain)]

Watched == IF rule.watch = All THEN Instances ELSE {rule.watch}

Init ==
    /\ kind \in {"gauge", "counter"}
    /\ rule = [status |-> Absent, watch |-> All]
    /\ open = {} /\ states = [i \in Instances |-> NoState]
    /\ total = [i \in Instances |-> 0]
    /\ baseline = [i \in Instances |-> Never]
    /\ pass = Idle /\ held = Attached
    /\ edit = "idle" /\ grown = FALSE
    /\ edits = 0 /\ events = 0 /\ failures = 0 /\ restarts = 0

-----------------------------------------------------------------------------
(* The rule's edits, on an API thread *)

\* create_rule, update_rule and set_all_enabled write the row; one that
\* disables it has the events to close.  The rules are refreshed at the end.
Edit ==
    /\ edit = "idle" /\ edits < MaxEdits /\ rule.status # "deleted"
    /\ \E status \in {"on", "off"}, watch \in Instances \cup {All} :
         /\ rule' = [status |-> status, watch |-> watch]
         /\ edit' = IF status = "off" /\ rule.status # Absent
                    THEN "disabling" ELSE "idle"
    /\ edits' = edits + 1
    /\ UNCHANGED <<kind, open, states, metricVars, workerVars, grown, events,
                   bounds>>

\* delete_rule; AUTOINCREMENT does not give the id again.
Delete ==
    /\ edit = "idle" /\ edits < MaxEdits /\ rule.status \in {"on", "off"}
    /\ rule' = [rule EXCEPT !.status = "deleted"]
    /\ edit' = "deleting"
    /\ edits' = edits + 1
    /\ UNCHANGED <<kind, open, states, metricVars, workerVars, grown, events,
                   bounds>>

\* _close_rule_events: first the rows,
CloseRows ==
    /\ edit \in {"disabling", "deleting"}
    /\ open' = {}
    /\ edit' = IF edit = "disabling" THEN "resetting" ELSE "forgetting"
    /\ grown' = FALSE
    /\ UNCHANGED <<kind, rule, states, metricVars, workerVars, edits, events,
                   bounds>>

HasEvent(i) == states[i] # NoState /\ states[i].event # NoEvent

\* Objects leave the dictionary; the worker keeps the one it holds.
Replace(new) ==
    /\ states' = new
    /\ held' = IF pass.at \in {"judge", "insert", "assign", "close"}
                  /\ held = Attached /\ new[pass.cur] # states[pass.cur]
               THEN states[pass.cur] ELSE held

Emptied(keys) == [i \in Instances |-> IF i \in keys THEN Fresh ELSE states[i]]

\* ... then the states; delete_rule forgets them.
ResetStates ==
    /\ edit \in {"resetting", "forgetting"} /\ ~grown
    /\ Replace(IF edit = "resetting" THEN Emptied({i \in Instances : HasEvent(i)})
               ELSE [i \in Instances |-> NoState])
    /\ edit' = "idle"
    /\ UNCHANGED <<kind, rule, open, metricVars, pass, grown,
                   edits, events, bounds>>

\* The worker's setdefault has changed the size of the dictionary under the
\* iteration: it raises after some of its entries.
ResetRaises ==
    /\ edit \in {"resetting", "forgetting"} /\ grown
    /\ \E done \in SUBSET {i \in Instances : HasEvent(i)} : Replace(Emptied(done))
    /\ edit' = "idle"
    /\ UNCHANGED <<kind, rule, open, metricVars, pass, grown,
                   edits, events, bounds>>

-----------------------------------------------------------------------------
(* tick(), on the flush worker *)

\* _apply_kind: the first total and a total that fell are baselines.
Delta(i) ==
    IF baseline[i] # Never /\ total[i] > baseline[i] THEN "breached" ELSE "ok"

\* What the provider reports: an instance may be missing or without a value.
Silent == {"absent", "none"}
Reports == [Instances -> Silent \cup (IF kind = "gauge" THEN Levels ELSE {"total"})]

Value(report, i) == IF report[i] = "total" THEN Delta(i) ELSE report[i]

StartPass ==
    /\ pass.at = "idle"
    /\ \E report \in IF rule.status = "on" THEN Reports ELSE {Idle.values} :
         /\ pass' = [Idle EXCEPT
               !.at = "next", !.on = rule.status = "on",
               !.values = [i \in Instances |-> Value(report, i)],
               !.todo = IF rule.status # "on" THEN {}
                        ELSE {i \in Watched : rule.watch # All \/ report[i] # "absent"}]
         /\ baseline' = [i \in Instances |->
               IF report[i] = "total" THEN total[i] ELSE baseline[i]]
    /\ states' = [i \in Instances |-> Aged(states[i])]
    /\ held' = Attached
    /\ UNCHANGED <<kind, rule, open, total, apiVars, events, bounds>>

Mine == IF held = Attached THEN states[pass.cur] ELSE held
Becomes(s) ==
    IF held = Attached
    THEN states' = [states EXCEPT ![pass.cur] = s] /\ UNCHANGED held
    ELSE held' = s /\ UNCHANGED states

\* _evaluate's first line; a value of None goes no further.
Take(i) ==
    /\ pass.at = "next" /\ i \in pass.todo
    /\ pass' = [pass EXCEPT !.todo = @ \ {i}, !.cur = i,
                            !.at = IF pass.values[i] \in Silent THEN "next" ELSE "judge"]
    /\ states' = [states EXCEPT ![i] = IF @ = NoState THEN Fresh ELSE @]
    /\ grown' = (grown \/ (edit \in {"resetting", "forgetting"} /\ states[i] = NoState))
    /\ held' = Attached
    /\ UNCHANGED <<kind, rule, open, metricVars, edit, edits, events,
                   bounds>>

GoTo(at) == pass' = [pass EXCEPT !.at = at]

Due(s) == Started(s.breach) >= Sustain

\* No event is open: a breach that has lasted opens one.
JudgeQuiet ==
    /\ pass.at = "judge" /\ Mine.event = NoEvent
    /\ IF pass.values[pass.cur] # "breached"
       THEN Becomes(Fresh) /\ GoTo("next")
       ELSE /\ Becomes([Fresh EXCEPT !.breach = Started(Mine.breach)])
            /\ GoTo(IF Due(Mine) THEN "insert" ELSE "next")
    /\ UNCHANGED <<kind, rule, open, metricVars, apiVars,
                   events, bounds>>

\* One is open: an OK reading that has lasted closes it.
JudgeOpen ==
    /\ pass.at = "judge" /\ Mine.event # NoEvent
    /\ IF pass.values[pass.cur] # "ok"
       THEN Becomes([Mine EXCEPT !.ok = Never]) /\ GoTo("next")
       ELSE /\ Becomes([Mine EXCEPT !.ok = Started(@)])
            /\ GoTo(IF Started(Mine.ok) >= ClearSustain THEN "close" ELSE "next")
    /\ UNCHANGED <<kind, rule, open, metricVars, apiVars,
                   events, bounds>>

\* _open_event: the row, and then the object.
Insert ==
    /\ pass.at = "insert" /\ events < MaxEvents
    /\ events' = events + 1
    /\ open' = open \cup {[id |-> events', instance |-> pass.cur]}
    /\ pass' = [pass EXCEPT !.at = "assign", !.event = events']
    /\ UNCHANGED <<kind, rule, states, metricVars, held, apiVars, bounds>>

Assign ==
    /\ pass.at = "assign"
    /\ Becomes([Mine EXCEPT !.event = pass.event, !.breach = Never])
    /\ GoTo("next")
    /\ UNCHANGED <<kind, rule, open, metricVars, apiVars,
                   events, bounds>>

\* _close_event, of a cleared pair or in the sweep; the sweep has its object
\* from the list it made.
V_ClosedOf(id) == {}
ClosedOf(id) == {e \in open : e.id = id}
CloseEvent ==
    /\ pass.at = "close"
    /\ open' = open \ ClosedOf(Mine.event)
    /\ GoTo("renew")
    /\ UNCHANGED <<kind, rule, states, metricVars, held, apiVars, events, bounds>>

\* ... and a new object for the pair, whatever is there now.
Renew ==
    /\ pass.at = "renew"
    /\ states' = [states EXCEPT ![pass.cur] = Fresh]
    /\ held' = Attached
    /\ GoTo(IF pass.todo = {} /\ ~pass.on THEN "sweep" ELSE "next")
    /\ UNCHANGED <<kind, rule, open, metricVars, apiVars,
                   events, bounds>>

\* The backstop: open events of a rule that was not enabled when the pass
\* began.  Old closed events are deleted, and the pass is over.
Leftover(on) == IF on THEN {} ELSE {i \in Instances : HasEvent(i)}
Sweep(i) ==
    /\ pass.at \in {"next", "sweep"} /\ pass.todo = {} /\ i \in Leftover(pass.on)
    /\ pass' = [pass EXCEPT !.at = "close", !.cur = i]
    /\ held' = Attached
    /\ UNCHANGED <<kind, rule, open, states, metricVars, apiVars, events, bounds>>

EndPass ==
    /\ pass.at \in {"next", "sweep"} /\ pass.todo = {} /\ Leftover(pass.on) = {}
    /\ pass' = Idle
    /\ held' = Attached
    /\ UNCHANGED <<kind, rule, open, states, metricVars, apiVars, events, bounds>>

\* A transaction fails (an event's, or its peak's): the pass is over.  So it is
\* where the model has no event left to give.
PassFails ==
    /\ \/ pass.at \in {"insert", "close"}
       \/ pass.at = "judge" /\ Mine.event # NoEvent
    /\ \/ failures < MaxFailures /\ failures' = failures + 1
       \/ events = MaxEvents /\ pass.at = "insert" /\ UNCHANGED failures
    /\ pass' = Idle
    /\ held' = Attached
    /\ UNCHANGED <<kind, rule, open, states, metricVars, apiVars, events, restarts>>

-----------------------------------------------------------------------------
(* The rest of the program *)

Counts(i) ==
    /\ kind = "counter" /\ total[i] < MaxTotal
    /\ total' = [total EXCEPT ![i] = @ + 1]
    /\ UNCHANGED <<kind, rule, open, states, baseline, workerVars, apiVars,
                   events, bounds>>

\* A new process: _reattach takes up the open events.
Restart ==
    /\ restarts < MaxRestarts /\ restarts' = restarts + 1
    /\ states' = [i \in Instances |->
          LET mine == {e.id : e \in {e \in open : e.instance = i}}
          IN IF mine = {} THEN NoState ELSE [Fresh EXCEPT !.event = Max(mine)]]
    /\ total' = [i \in Instances |-> 0]
    /\ baseline' = [i \in Instances |-> Never]
    /\ pass' = Idle /\ held' = Attached
    /\ edit' = "idle" /\ grown' = FALSE
    /\ UNCHANGED <<kind, rule, open, edits, events, failures>>

Worker ==
    \/ StartPass \/ JudgeQuiet \/ JudgeOpen \/ Insert \/ Assign
    \/ CloseEvent \/ Renew \/ EndPass \/ PassFails
    \/ \E i \in Instances : Take(i) \/ Sweep(i)

Api == Edit \/ Delete \/ CloseRows \/ ResetStates \/ ResetRaises

Next == Worker \/ Api \/ (\E i \in Instances : Counts(i)) \/ Restart

Spec == Init /\ [][Next]_vars

\* The flush loop makes a pass every ten seconds, whatever the last one did,
\* and an edit that has begun goes on.
FairSpec ==
    Spec /\ WF_vars(Worker) /\ WF_vars(CloseRows \/ ResetStates \/ ResetRaises)

-----------------------------------------------------------------------------
(* What the alert evaluator promises. *)

Ids == 1..MaxEvents
PairStates ==
    [event : {NoEvent} \cup Ids, breach : Never..Sustain, ok : Never..ClearSustain]

\* A pair's object is not taken for the absence of one.
PairAssumption == NoState \notin PairStates /\ Attached \notin PairStates

TypeOK ==
    /\ kind \in {"gauge", "counter"}
    /\ rule \in [status : {Absent, "on", "off", "deleted"},
                 watch : Instances \cup {All}]
    /\ open \in SUBSET [id : Ids, instance : Instances]
    /\ states \in [Instances -> PairStates \cup {NoState}]
    /\ total \in [Instances -> 0..MaxTotal]
    /\ baseline \in [Instances -> Never..MaxTotal]
    /\ pass.at \in {"idle", "next", "judge", "insert", "assign", "close",
                    "renew", "sweep"}
    /\ pass.at \in {"judge", "insert", "assign", "close", "renew"}
          => pass.cur \in Instances
    /\ held \in PairStates \cup {Attached}
    /\ edit \in {"idle", "disabling", "deleting", "resetting", "forgetting"}

Referenced(e) ==
    \/ states[e.instance] # NoState /\ states[e.instance].event = e.id
    \/ pass.at = "assign" /\ pass.event = e.id
    \/ held # Attached /\ held.event = e.id

\* An open event that nothing in memory refers to is closed by no pass of this
\* process.
Stranded == {e \in open : ~Referenced(e)}

\* Only a rule's edit strands an event, or the pass that the edit took its
\* object from (alerts.py:601-612 against 691), or a restart that finds two: no
\* order of evaluations, closes, sweeps and failed transactions does.
StrandedOnlyByEdits ==
    [][edit' = edit /\ restarts' = restarts /\ held = Attached
          => Stranded' \subseteq Stranded]_vars

\* The event an evaluator's state refers to is closed once the rule is
\* disabled or gone: by the edit, or by the sweep of a later pass.
SweepCloses ==
    \A i \in Instances :
        (HasEvent(i) /\ rule.status # "on")
            ~> (~HasEvent(i) \/ rule.status = "on")

\* A rule that is deleted or disabled "must not strand an open event"
\* (alerts.py:636-637): its event is closed, or the rule is enabled again.
NothingStranded ==
    \A id \in Ids :
        ((\E e \in open : e.id = id) /\ rule.status # "on")
            ~> ((\A e \in open : e.id # id) \/ rule.status = "on")

=============================================================================
