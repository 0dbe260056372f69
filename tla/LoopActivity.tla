---------------------------- MODULE LoopActivity ----------------------------
(***************************************************************************)
(* The record of what held the event loop (ingest/engine.py,               *)
(* LoopActivityLog).  Spans end on the loop and on worker threads and are  *)
(* noted under a lock; a note allocates, an allocation may collect, and    *)
(* the end of a collection is noted at once by the thread that is in the   *)
(* middle of another note.  The sampler drains the window on every sample  *)
(* and a stall is attributed to what it took.                              *)
(*                                                                         *)
(* Durations are slow or not.  The interpreter runs no collection inside   *)
(* another, nor before its callbacks have returned.                        *)
(***************************************************************************)
EXTENDS Integers, FiniteSets, Sequences

CONSTANTS
    None,
    Loop, Worker,
    LabelsOf,                  \* the spans of each thread
    ACTIVITY_ENTRIES_KEPT,
    MaxNotes, MaxSamples       \* bounds of the model

Threads == {Loop, Worker}
Collections == {"gc_gen2", "gc_maintenance"}
SpanLabels == UNION {LabelsOf[t] : t \in Threads}
Labels == SpanLabels \cup Collections

ActivityAssumption ==
    /\ None \notin Threads /\ ACTIVITY_ENTRIES_KEPT \in Nat
    /\ IsFiniteSet(Labels) /\ SpanLabels \cap Collections = {}

VARIABLES
    stack,     \* per thread, the notes in progress, the innermost last
    owner,     \* of the lock, and how often it holds it
    totals,    \* label -> [count, slow]
    window,    \* label -> count, of work that held the loop
    ring,      \* recent slow entries: <<label, its number>>
    relabel,   \* relabel_gc: whether a scheduled pass is on (on the loop)
    drained,   \* ghost: what the samples have taken, by label
    held,      \* ghost: notes of work that held the loop, by label
    notes, samples

vars == <<stack, owner, totals, window, ring, relabel, drained, held, notes, samples>>

Init ==
    /\ stack = [t \in Threads |-> << >>] /\ owner = [by |-> None, depth |-> 0]
    /\ totals = [l \in Labels |-> [count |-> 0, slow |-> 0]]
    /\ window = [l \in Labels |-> 0] /\ ring = << >> /\ relabel = FALSE
    /\ drained = [l \in Labels |-> 0] /\ held = [l \in Labels |-> 0]
    /\ notes = 0 /\ samples = 0

-----------------------------------------------------------------------------

Top(t) == stack[t][Len(stack[t])]
At(t, stage) == stack[t] # << >> /\ Top(t).stage = stage
Goto(t, stage) == [stack EXCEPT ![t][Len(stack[t])].stage = stage]

Note(label, slow) == [stage |-> "acquire", label |-> label, slow |-> slow, kept |-> << >>]

\* span: its end.
EndSpan(t, label, slow) ==
    /\ notes < MaxNotes /\ notes' = notes + 1
    /\ stack[t] = << >>
    /\ stack' = [stack EXCEPT ![t] = <<Note(label, slow)>>]
    /\ UNCHANGED <<owner, totals, window, ring, relabel, drained, held, samples>>

Collecting == \E t \in Threads : \E i \in 1..Len(stack[t]) : stack[t][i].label \in Collections

\* _on_gc, stop: on any thread, between any two steps of a note too.
Collect(t, slow) ==
    /\ notes < MaxNotes /\ notes' = notes + 1
    /\ ~Collecting
    /\ stack' = [stack EXCEPT ![t] = Append(@,
          Note(IF relabel /\ t = Loop THEN "gc_maintenance" ELSE "gc_gen2", slow))]
    /\ UNCHANGED <<owner, totals, window, ring, relabel, drained, held, samples>>

\* GcMaintenance.run, on the loop, around its pass.
Relabel ==
    /\ stack[Loop] = << >>
    /\ relabel' = ~relabel
    /\ UNCHANGED <<stack, owner, totals, window, ring, drained, held, notes, samples>>

\* note: an RLock, which the same thread may take again.
V_Lock(t) == owner.by = None
MayAcquire(t) == owner.by \in {None, t}

Acquire(t) ==
    /\ At(t, "acquire") /\ MayAcquire(t)
    /\ owner' = [by |-> t, depth |-> owner.depth + 1]
    /\ stack' = Goto(t, "count")
    /\ UNCHANGED <<totals, window, ring, relabel, drained, held, notes, samples>>

HoldsLoop(t) == t = Loop \/ Top(t).label \in Collections

Count(t) ==
    /\ At(t, "count")
    /\ totals' = [totals EXCEPT ![Top(t).label] =
          [count |-> @.count + 1, slow |-> @.slow + (IF Top(t).slow THEN 1 ELSE 0)]]
    /\ LET more == IF HoldsLoop(t) THEN 1 ELSE 0
       IN /\ window' = [window EXCEPT ![Top(t).label] = @ + more]
          /\ held' = [held EXCEPT ![Top(t).label] = @ + more]
    /\ stack' = Goto(t, IF Top(t).slow THEN "append" ELSE "release")
    /\ UNCHANGED <<owner, ring, relabel, drained, notes, samples>>

AppendSlow(t) ==
    /\ At(t, "append")
    /\ ring' = Append(ring, <<Top(t).label, totals[Top(t).label].slow>>)
    /\ stack' = Goto(t, "trim")
    /\ UNCHANGED <<owner, totals, window, relabel, drained, held, notes, samples>>

\* _trim_slow: the newest of each label, as many as an equal share allows.
Seen == {l \in Labels : totals[l].count > 0}
PerLabel ==
    LET share == ACTIVITY_ENTRIES_KEPT \div Cardinality(Seen)
    IN IF share > 1 THEN share ELSE 1
LastOf(s) ==
    IF Len(s) <= ACTIVITY_ENTRIES_KEPT THEN s
    ELSE SubSeq(s, Len(s) - ACTIVITY_ENTRIES_KEPT + 1, Len(s))
\* Which entries stay, and the n-th of them.
Newer(i) == {j \in i + 1..Len(ring) : ring[j][1] = ring[i][1]}
Among == {i \in 1..Len(ring) : Cardinality(Newer(i)) < PerLabel}
Nth(n) == CHOOSE i \in Among : Cardinality({j \in Among : j < i}) = n - 1
V_Untrimmed == ring
Trimmed == LastOf([n \in 1..Cardinality(Among) |-> ring[Nth(n)]])

Trim(t) ==
    /\ At(t, "trim")
    /\ stack' = [stack EXCEPT ![t][Len(stack[t])] =
          [@ EXCEPT !.stage = "store", !.kept = Trimmed]]
    /\ UNCHANGED <<owner, totals, window, ring, relabel, drained, held, notes, samples>>

Store(t) ==
    /\ At(t, "store")
    /\ ring' = Top(t).kept
    /\ stack' = Goto(t, "release")
    /\ UNCHANGED <<owner, totals, window, relabel, drained, held, notes, samples>>

Release(t) ==
    /\ At(t, "release")
    /\ owner' = [by |-> IF owner.depth = 1 THEN None ELSE t, depth |-> owner.depth - 1]
    /\ stack' = [stack EXCEPT ![t] = SubSeq(@, 1, Len(@) - 1)]
    /\ UNCHANGED <<totals, window, ring, relabel, drained, held, notes, samples>>

\* The lag sampler's drain_window; it runs on the loop, between its spans.
V_Remaining == window
Remaining == [l \in Labels |-> 0]
Drain ==
    /\ samples < MaxSamples /\ samples' = samples + 1
    /\ stack[Loop] = << >> /\ owner.by = None
    /\ drained' = [l \in Labels |-> drained[l] + window[l]]
    /\ window' = Remaining
    /\ UNCHANGED <<stack, owner, totals, ring, relabel, held, notes>>

Step(t) == Acquire(t) \/ Count(t) \/ AppendSlow(t) \/ Trim(t) \/ Store(t) \/ Release(t)

Next ==
    \/ \E t \in Threads, slow \in BOOLEAN :
         Collect(t, slow) \/ \E l \in LabelsOf[t] : EndSpan(t, l, slow)
    \/ \E t \in Threads : Step(t)
    \/ Relabel \/ Drain

\* Threads run; nothing makes a span end or a collection happen.
Spec == Init /\ [][Next]_vars /\ \A t \in Threads : WF_vars(Step(t))

-----------------------------------------------------------------------------

TypeOK ==
    /\ owner.depth \in 0..2 /\ (owner.depth = 0 <=> owner.by = None)
    /\ \A t \in Threads : Len(stack[t]) <= 2
    /\ owner.depth = 0 => Len(ring) <= ACTIVITY_ENTRIES_KEPT

\* Every note of work that held the loop is in one sample's window, or waits
\* for the next one (engine.py:313-320): a stall is charged with no work twice,
\* and nothing that a collection interrupts is lost.
HeldOnce == \A l \in Labels : drained[l] + window[l] = held[l]

\* However loud the others are, the newest slow entry of a span is in the ring
\* once noted (engine.py:290-301), also when a collection was noted meanwhile;
\* there are fewer labels than entries.
EvidenceKept ==
    \A l \in SpanLabels :
      LET newest == <<l, totals[l].slow>>
          noting == \E t \in Threads : \E i \in 1..Len(stack[t]) :
                      stack[t][i].label = l /\ stack[t][i].stage = "append"
      IN totals[l].slow > 0 /\ ~noting /\ Cardinality(Seen) <= ACTIVITY_ENTRIES_KEPT =>
           \E i \in 1..Len(ring) : ring[i] = newest

\* No thread waits for ever: not even for a lock that it holds itself, when a
\* collection ends inside a note (engine.py:196-205).
NotesEnd == \A t \in Threads : stack[t] # << >> ~> stack[t] = << >>

=============================================================================
