------------------------ MODULE CalibrationRamp_proofs ------------------------
(***************************************************************************)
(* Proofs about a benchmark run, for every ramp, replay schedule, number   *)
(* of targets and limit.                                                   *)
(***************************************************************************)
EXTENDS CalibrationRampProps, OrderLemmas, SequenceTheorems, TLAPS

\* The FIFO of run.outstanding: a sequence of send times per target.
Queues == [1 .. Targets -> Seq(Nat)]

\* The driver has not left the steps: _record is neither due nor done.
Running == pc \notin {"record", "done"}

\* run.steps holds every step before the current one, and the current one too
\* once the run is being recorded; until then nothing has aborted the run.
Numbered ==
    /\ Len(results) = IF Running THEN index - 1 ELSE index
    /\ Running => status = "completed"

\* What the driver has checked since its last await and has not been undone
\* since: a step's slots are served below the cap on reads, and a publish is
\* under way only while there was room for it.  An answer that arrives during
\* the publish can only make more room.
Clearances ==
    /\ pc \in {"slots", "publish"} => sentTotal < MaxReads
    /\ pc = "publish" => Outstanding < Bound

\* A replay has sent exactly the commands before its slot, none before its
\* time, has one step, and settles only when the schedule is used up.
Replaying ==
    mode = "replay" =>
        /\ sent = slot /\ slot <= Len(Offsets) /\ index = 1
        /\ pc \in {"slots", "publish"} => slot < Len(Offsets)
        /\ pc = "publish" => Offsets[slot + 1] <= t
        /\ pc \in {"settle", "drain"} \/ (~Running /\ status = "completed")
             => slot = Len(Offsets)
        /\ sent > 0 => Offsets[sent] <= t

\* The mesh kept up with step i: 90 % answered, 80 % of the schedule sent.
Sustained(i) ==
    /\ 10 * results[i].completed >= 9 * results[i].sent
    /\ 10 * results[i].sent * Steps[i].interval >= 8 * StepTicks

\* A finished step that broke no rule was sustained, and every step before
\* the last one broke no rule.
Judged ==
    /\ \A i \in DOMAIN results :
         mode = "ramp" /\ Finished(i) /\ results[i].breach = "none" => Sustained(i)
    /\ \A i \in DOMAIN results :
         i < Len(results) \/ Running => results[i].breach = "none"

\* Only a step that was answered is followed by another.
Answered ==
    index > 1 =>
        mode = "ramp" /\ \E i \in DOMAIN results : results[i].completed > 0

\* The knee is written by _record alone.
KneeLast == pc # "done" => knee = 0

\* Types, and the outstanding reads can be counted.
Counted == TypeOK /\ IsFiniteSet(Reads(fifo))

\* The inductive invariant: the two checked invariants say what is true at the
\* end; Numbered, Clearances, Replaying, Judged and Answered say what the driver
\* knows at each of its awaits.
IInv ==
    /\ Counted /\ EveryReadAccounted /\ NeverBuried /\ ReadCap
    /\ Numbered /\ Clearances /\ Replaying /\ Judged /\ Answered
    /\ KneeLast /\ KneeSustained

\* Empty queues hold no read.
LEMMA NoReads ==
    ASSUME NEW queues, \A k \in 1 .. Targets : queues[k] = << >>
    PROVE  IsFiniteSet(Reads(queues)) /\ Total(queues) = 0
<1>1. \A k \in 1 .. Targets : {k} \X DOMAIN queues[k] = {}
  BY EmptySeq
<1>2. Reads(queues) = {}
  BY <1>1 DEF Reads
<1>3. QED
  BY <1>2, FS_EmptySet DEF Total

\* A pair is an outstanding read exactly if its position is in its queue.
LEMMA ReadsOf ==
    ASSUME NEW queues \in Queues
    PROVE  /\ Reads(queues) \subseteq (1 .. Targets) \X Nat
           /\ \A k \in 1 .. Targets, i \in Nat :
                <<k, i>> \in Reads(queues) <=> i \in DOMAIN queues[k]
           /\ \A k \in 1 .. Targets :
                /\ queues[k] \in Seq(Nat) /\ Len(queues[k]) \in Nat
                /\ DOMAIN queues[k] = 1 .. Len(queues[k])
<1>1. \A k \in 1 .. Targets : queues[k] \in Seq(Nat)
  BY DEF Queues
<1>2. \A k \in 1 .. Targets :
        Len(queues[k]) \in Nat /\ DOMAIN queues[k] = 1 .. Len(queues[k])
  BY <1>1, LenProperties
<1>3. \A k \in 1 .. Targets : {k} \X DOMAIN queues[k] \subseteq (1 .. Targets) \X Nat
  BY <1>2
<1>4. Reads(queues) \subseteq (1 .. Targets) \X Nat
  BY <1>3 DEF Reads
<1>5. ASSUME NEW k \in 1 .. Targets, NEW i \in Nat
      PROVE  <<k, i>> \in Reads(queues) <=> i \in DOMAIN queues[k]
  <2>1. \A j \in 1 .. Targets : <<k, i>> \in {j} \X DOMAIN queues[j]
                               <=> j = k /\ i \in DOMAIN queues[j]
    OBVIOUS
  <2>2. QED
    BY <2>1 DEF Reads
<1>6. QED
  BY <1>1, <1>2, <1>4, <1>5

\* Sets of pairs are compared pair by pair.
LEMMA SamePairs ==
    ASSUME NEW X, NEW Y, NEW A \in SUBSET (X \X Y), NEW B \in SUBSET (X \X Y),
           \A x \in X, y \in Y : <<x, y>> \in A => <<x, y>> \in B
    PROVE  A \subseteq B
OBVIOUS

\* Entering a read in one queue makes one read more.
LEMMA OneMore ==
    ASSUME NEW queues \in Queues, IsFiniteSet(Reads(queues)),
           NEW k \in 1 .. Targets, NEW at \in Nat
    PROVE  LET next == [queues EXCEPT ![k] = Append(@, at)]
           IN  /\ next \in Queues /\ IsFiniteSet(Reads(next))
               /\ Total(next) = Total(queues) + 1
<1> DEFINE next == [queues EXCEPT ![k] = Append(@, at)]
           new == <<k, Len(queues[k]) + 1>>
<1>1. /\ queues[k] \in Seq(Nat) /\ Len(queues[k]) \in Nat
      /\ DOMAIN queues[k] = 1 .. Len(queues[k])
  BY ReadsOf
<1>2. /\ Append(queues[k], at) \in Seq(Nat)
      /\ Len(Append(queues[k], at)) = Len(queues[k]) + 1
  BY <1>1, AppendProperties
<1>3. next \in Queues
  BY <1>2 DEF Queues
<1>4. /\ DOMAIN next[k] = 1 .. Len(queues[k]) + 1
      /\ \A j \in 1 .. Targets : j # k => next[j] = queues[j]
  BY <1>2, LenProperties DEF Queues
<1> HIDE DEF next
<1>5. Reads(next) = Reads(queues) \cup {new}
  <2>1. \A i : i \in DOMAIN next[k] <=> i \in DOMAIN queues[k] \/ i = Len(queues[k]) + 1
    BY <1>1, <1>4
  <2>2. \A j \in 1 .. Targets, i \in Nat :
          <<j, i>> \in Reads(next) <=> <<j, i>> \in Reads(queues) \cup {new}
    BY <1>3, <1>4, <2>1, ReadsOf
  <2>3. new \in (1 .. Targets) \X Nat
    BY <1>1
  <2>4. /\ Reads(next) \in SUBSET ((1 .. Targets) \X Nat)
        /\ Reads(queues) \cup {new} \in SUBSET ((1 .. Targets) \X Nat)
    BY <1>3, <2>3, ReadsOf
  <2> HIDE DEF new
  <2>5. QED
    BY <2>2, <2>4, SamePairs
<1>6. new \notin Reads(queues)
  <2>1. Len(queues[k]) + 1 \notin DOMAIN queues[k]
    BY <1>1
  <2>2. QED
    BY <2>1, ReadsOf
<1>7. IsFiniteSet(Reads(next)) /\ Cardinality(Reads(next)) = Cardinality(Reads(queues)) + 1
  BY <1>5, <1>6, FS_AddElement
<1>8. QED
  BY <1>3, <1>7 DEF Total, next

\* Completing the oldest read of one queue makes one read less.
LEMMA OneLess ==
    ASSUME NEW queues \in Queues, IsFiniteSet(Reads(queues)),
           NEW k \in 1 .. Targets, queues[k] # << >>
    PROVE  LET next == [queues EXCEPT ![k] = Tail(@)]
           IN  /\ next \in Queues /\ IsFiniteSet(Reads(next))
               /\ Total(next) = Total(queues) - 1
<1> DEFINE next == [queues EXCEPT ![k] = Tail(@)]
           last == <<k, Len(queues[k])>>
<1>1. /\ queues[k] \in Seq(Nat) /\ Len(queues[k]) \in Nat
      /\ DOMAIN queues[k] = 1 .. Len(queues[k])
  BY ReadsOf
<1>2. Tail(queues[k]) \in Seq(Nat) /\ Len(Tail(queues[k])) = Len(queues[k]) - 1
  BY <1>1, HeadTailProperties
<1>3. next \in Queues
  BY <1>2 DEF Queues
<1>4. /\ DOMAIN next[k] = 1 .. Len(queues[k]) - 1
      /\ \A j \in 1 .. Targets : j # k => next[j] = queues[j]
  BY <1>2, LenProperties DEF Queues
<1>5. Len(queues[k]) \in DOMAIN queues[k]
  BY <1>1, EmptySeq
<1> HIDE DEF next
<1>6. Reads(next) = Reads(queues) \ {last}
  <2>1. \A i : i \in DOMAIN next[k] <=> i \in DOMAIN queues[k] /\ i # Len(queues[k])
    BY <1>1, <1>4
  <2>2. \A j \in 1 .. Targets, i \in Nat :
          <<j, i>> \in Reads(next) <=> <<j, i>> \in Reads(queues) \ {last}
    BY <1>3, <1>4, <2>1, ReadsOf
  <2>3. /\ Reads(next) \in SUBSET ((1 .. Targets) \X Nat)
        /\ Reads(queues) \ {last} \in SUBSET ((1 .. Targets) \X Nat)
    BY <1>3, ReadsOf
  <2> HIDE DEF last
  <2>4. QED
    BY <2>2, <2>3, SamePairs
<1>7. last \in Reads(queues)
  BY <1>5, ReadsOf
<1>8. IsFiniteSet(Reads(next)) /\ Cardinality(Reads(next)) = Cardinality(Reads(queues)) - 1
  BY <1>6, <1>7, FS_RemoveElement
<1>9. QED
  BY <1>3, <1>8 DEF Total, next

\* Expiring the heads of every queue leaves sequences, and no more reads.
LEMMA NoneNew ==
    ASSUME TypeOK, IsFiniteSet(Reads(fifo))
    PROVE  LET next == [k \in DOMAIN fifo |-> Live(fifo[k])]
           IN  /\ next \in Queues /\ IsFiniteSet(Reads(next))
               /\ Total(next) \in Nat /\ Total(fifo) \in Nat
               /\ Total(next) <= Total(fifo)
<1> DEFINE next == [k \in DOMAIN fifo |-> Live(fifo[k])]
<1>1. fifo \in Queues /\ DOMAIN fifo = 1 .. Targets
  BY DEF TypeOK, Queues
<1>2. ASSUME NEW times \in Seq(Nat)
      PROVE  Live(times) \in Seq(Nat) /\ DOMAIN Live(times) \subseteq DOMAIN times
  <2>1. CASE Fresh(times) = {}
    BY <2>1, EmptySeq DEF Live
  <2>2. CASE Fresh(times) # {}
    <3> DEFINE first == Min(Fresh(times))
    <3>1. Len(times) \in Nat /\ DOMAIN times = 1 .. Len(times)
      BY LenProperties
    <3>2. Fresh(times) \in SUBSET Nat /\ Fresh(times) \subseteq DOMAIN times
      BY <3>1 DEF Fresh
    <3>3. first \in 1 .. Len(times)
      BY <2>2, <3>1, <3>2, MinOf
    <3>4. Live(times) = SubSeq(times, first, Len(times))
      BY <2>2 DEF Live
    <3> HIDE DEF first
    <3>5. \A i \in first .. Len(times) : times[i] \in Nat
      BY <3>1, <3>3, ElementOfSeq
    <3>6. Live(times) \in Seq(Nat) /\ Len(Live(times)) = Len(times) - first + 1
      BY <3>1, <3>3, <3>4, <3>5, SubSeqProperties
    <3>7. DOMAIN Live(times) = 1 .. Len(times) - first + 1
      BY <3>6, LenProperties
    <3>8. QED
      BY <3>1, <3>3, <3>6, <3>7
  <2>3. QED
    BY <2>1, <2>2
<1>3. \A k \in 1 .. Targets : fifo[k] \in Seq(Nat)
  BY <1>1 DEF Queues
<1>4. /\ next \in Queues
      /\ \A k \in 1 .. Targets : DOMAIN next[k] \subseteq DOMAIN fifo[k]
  BY <1>1, <1>2, <1>3 DEF Queues
<1> HIDE DEF next
<1>5. Reads(next) \subseteq Reads(fifo)
  <2>1. \A j \in 1 .. Targets, i \in Nat :
          <<j, i>> \in Reads(next) => <<j, i>> \in Reads(fifo)
    BY <1>1, <1>4, ReadsOf
  <2>2. /\ Reads(next) \in SUBSET ((1 .. Targets) \X Nat)
        /\ Reads(fifo) \in SUBSET ((1 .. Targets) \X Nat)
    BY <1>1, <1>4, ReadsOf
  <2>3. QED
    BY <2>1, <2>2, SamePairs
<1>6. /\ IsFiniteSet(Reads(next))
      /\ Cardinality(Reads(next)) <= Cardinality(Reads(fifo))
  BY <1>5, FS_Subset
<1>7. Cardinality(Reads(next)) \in Nat /\ Cardinality(Reads(fifo)) \in Nat
  BY <1>6, FS_CardinalityType
<1>8. QED
  BY <1>4, <1>6, <1>7 DEF Total, next

\* The steps and the offsets of a plan, element by element.
LEMMA ScheduleTypes ==
    /\ Len(Steps) \in Nat \ {0} /\ DOMAIN Steps = 1 .. Len(Steps)
    /\ \A i \in 1 .. Len(Steps) :
         Steps[i].interval \in Nat \ {0} /\ Steps[i].bound \in Nat \ {0}
    /\ Len(Offsets) \in Nat /\ DOMAIN Offsets = 1 .. Len(Offsets)
    /\ \A i \in 1 .. Len(Offsets) : Offsets[i] \in Nat
<1>1. Steps \in Seq([interval : Nat \ {0}, bound : Nat \ {0}]) /\ Len(Steps) > 0
  BY ScheduleAssumption
<1>2. Len(Steps) \in Nat \ {0} /\ DOMAIN Steps = 1 .. Len(Steps)
  BY <1>1, LenProperties
<1>3. \A i \in 1 .. Len(Steps) : Steps[i] \in [interval : Nat \ {0}, bound : Nat \ {0}]
  BY <1>1, ElementOfSeq
<1>4. \A i \in 1 .. Len(Steps) :
        Steps[i].interval \in Nat \ {0} /\ Steps[i].bound \in Nat \ {0}
  BY <1>3
<1>5. Offsets \in Seq(Nat)
  BY ScheduleAssumption
<1>6. QED
  BY <1>2, <1>4, <1>5, LenProperties, ElementOfSeq

\* The round-robin index stays below the number of targets.
LEMMA Remainder ==
    ASSUME NEW m \in Nat, NEW n \in Nat \ {0}
    PROVE  m % n \in 0 .. n - 1
OBVIOUS

\* The current step's counts make a step result.
LEMMA StopTypes ==
    ASSUME Counted, NEW breach \in {"none", "timeout_ratio", "delivery_failures",
                                    "rtt_p95", "saturated"},
           NEW answered \in Nat, NEW expired \in Nat
    PROVE  /\ Result(breach, answered, expired) \in StepResults
           /\ Append(results, Result(breach, answered, expired)) \in Seq(StepResults)
<1>1. /\ sent \in Nat /\ deferred \in Nat /\ late \in 0 .. DegradedTicks
      /\ results \in Seq(StepResults)
  BY DEF Counted, TypeOK
<1>2. (late >= DegradedTicks) \in BOOLEAN
  OBVIOUS
<1>3. Result(breach, answered, expired) \in StepResults
  BY <1>1, <1>2 DEF Result, StepResults
<1>4. QED
  BY <1>1, <1>3, AppendProperties

\* Every step keeps the types and a countable set of reads.
LEMMA CountedStep == IInv /\ [Next]_vars => Counted'
<1> SUFFICES ASSUME IInv, [Next]_vars PROVE Counted'
  OBVIOUS
<1> USE DEF TypeOK, Counted
<1>0. Counted /\ Clearances /\ Replaying /\ Numbered
  BY DEF IInv
<1>f. fifo \in Queues
  BY <1>0 DEF Queues
<1>e. ASSUME Expire
      PROVE  /\ fifo' \in Queues /\ IsFiniteSet(Reads(fifo')) /\ timeouts' \in Nat
  <2>1. fifo' = [k \in DOMAIN fifo |-> Live(fifo[k])]
        /\ timeouts' = timeouts + Total(fifo) - Total(fifo')
    BY <1>e DEF Expire, Outstanding
  <2>2. /\ fifo' \in Queues /\ IsFiniteSet(Reads(fifo'))
        /\ Total(fifo') \in Nat /\ Total(fifo) \in Nat /\ Total(fifo') <= Total(fifo)
    BY <1>0, <2>1, NoneNew
  <2>3. QED
    BY <1>0, <2>1, <2>2
<1>1. CASE LoopAborts
  <2>1. results' \in Seq(StepResults)
    BY <1>0, <1>1, StopTypes DEF LoopAborts, Stop
  <2>2. QED
    BY <1>0, <1>1, <2>1 DEF LoopAborts, Stop, step
<1>2. CASE LoopStops
  <2>1. fifo' \in Queues /\ IsFiniteSet(Reads(fifo')) /\ timeouts' \in Nat
    BY <1>2, <1>e DEF LoopStops
  <2>2. results' \in Seq(StepResults)
    BY <1>0, <1>2, <2>1, StopTypes DEF LoopStops, Stop
  <2>3. QED
    BY <1>0, <1>2, <2>1, <2>2 DEF LoopStops, Stop, Queues
<1>3. CASE LoopContinues
  <2>1. fifo' \in Queues /\ IsFiniteSet(Reads(fifo')) /\ timeouts' \in Nat
    BY <1>3, <1>e DEF LoopContinues
  <2>2. QED
    BY <1>0, <1>3, <2>1 DEF LoopContinues, Queues
<1>4. CASE LoopEnds
  BY <1>0, <1>4, LimitsAssumption DEF LoopEnds, step
<1>5. CASE SlotSends
  <2>1. Min({after + 1, 2}) \in 0 .. 2
    <3>1. after + 1 \in Nat
      BY <1>0
    <3>2. QED
      BY <1>0, <3>1, MinOfTwo
  <2>2. QED
    BY <1>0, <1>5, <2>1 DEF SlotSends, step, Awaiting
<1>6. CASE SlotDeferred
  BY <1>0, <1>6 DEF SlotDeferred
<1>7. CASE SlotBlocked
  BY <1>0, <1>7 DEF SlotBlocked, step, Awaiting
<1>8. CASE SlotSleeps
  <2>1. Due(slot) \in Nat
    <3>1. CASE Ramp
      <4>1. slot \in Nat /\ Steps[index].interval \in Nat
        BY <1>0, ScheduleTypes
      <4>2. slot * Steps[index].interval \in Nat
        BY <4>1
      <4>3. QED
        BY <3>1, <4>2 DEF Due
    <3>2. CASE ~Ramp
      <4>1. slot \in Nat /\ slot + 1 \in 1 .. Len(Offsets)
        BY <1>0, <1>8, <3>2, ScheduleTypes DEF Replaying, Ramp, SlotSleeps
      <4>2. QED
        BY <3>2, <4>1, ScheduleTypes DEF Due
    <3>3. QED
      BY <3>1, <3>2
  <2>2. Max({Due(slot), t}) \in Nat
    BY <1>0, <2>1, MinOfTwo
  <2>3. QED
    BY <1>0, <1>8, <2>2 DEF SlotSleeps, step, Awaiting
<1>9. CASE Published
  <2>1. rr + 1 \in 1 .. Targets
    BY <1>0, ScheduleAssumption
  <2>2. fifo' \in Queues /\ IsFiniteSet(Reads(fifo'))
    BY <1>0, <1>f, <1>9, <2>1, OneMore DEF Published
  <2>3. rr' \in 0 .. Targets - 1
    <3>1. rr + 1 \in Nat /\ Targets \in Nat \ {0} /\ rr' = (rr + 1) % Targets
      BY <1>0, <1>9, ScheduleAssumption DEF Published
    <3>2. QED
      BY <3>1, Remainder
  <2>4. /\ sent' \in Nat /\ sentTotal' \in Nat /\ slot' \in Nat /\ wake' \in Nat
        /\ pc' \in {"sleep", "slots", "loop"}
    BY <1>0, <1>9 DEF Published
  <2>5. UNCHANGED <<mode, status, index, t, elapsed, completed, timeouts,
                   deferred, late, reason, results, knee, after, deadline>>
    BY <1>9 DEF Published
  <2>6. QED
    BY <1>0, <2>2, <2>3, <2>4, <2>5 DEF Queues, Awaiting
<1>10. CASE PublishFails
  <2>1. results' \in Seq(StepResults)
    BY <1>0, <1>10, StopTypes DEF PublishFails, Stop
  <2>2. QED
    BY <1>0, <1>10, <2>1 DEF PublishFails, Stop, step
<1>11. CASE Wakes
  <2>1. late + Overslept \in Nat
    BY <1>0, <1>11 DEF Wakes, Overslept
  <2>2. Min({late + Overslept, DegradedTicks}) \in 0 .. DegradedTicks
    BY <2>1, MinOfTwo, LimitsAssumption
  <2>3. QED
    BY <1>0, <1>11, <2>2 DEF Wakes, step
<1>12. CASE Unblocks
  BY <1>0, <1>12 DEF Unblocks, step
<1>13. CASE SettleAborts
  <2>1. results' \in Seq(StepResults)
    BY <1>0, <1>13, StopTypes DEF SettleAborts, Stop
  <2>2. QED
    BY <1>0, <1>13, <2>1 DEF SettleAborts, Stop, step
<1>14. CASE SettleDrains
  <2>1. fifo' \in Queues /\ IsFiniteSet(Reads(fifo')) /\ timeouts' \in Nat
    BY <1>14, <1>e DEF SettleDrains
  <2>2. QED
    BY <1>0, <1>14, <2>1 DEF SettleDrains, Queues, Awaiting
<1>15. CASE DrainTick
  BY <1>0, <1>15 DEF DrainTick, step
<1>16. CASE Settled
  <2>1. fifo' = [k \in DOMAIN fifo |-> << >>]
    BY <1>16 DEF Settled
  <2>2. fifo' \in Queues
    BY <1>0, <2>1, EmptySeq DEF Queues
  <2>3. \A k \in 1 .. Targets : fifo'[k] = << >>
    BY <1>0, <2>1
  <2>4. IsFiniteSet(Reads(fifo'))
    BY <2>3, NoReads
  <2>5. Outstanding \in Nat
    BY <1>0, NoneNew DEF Outstanding
  <2>6. PICK breach \in Breaches(timeouts + Outstanding) :
         /\ results' = Append(results, Result(breach, completed,
                                              timeouts + Outstanding))
         /\ IF breach # "none" \/ LastStep
            THEN pc' = "record" /\ UNCHANGED <<step, late>>
            ELSE /\ pc' = "loop"
                 /\ index' = index + 1
                 /\ elapsed' = elapsed + t
                 /\ t' = 0 /\ slot' = 0 /\ late' = 0
                 /\ sent' = 0 /\ completed' = 0 /\ timeouts' = 0
                 /\ deferred' = 0
                 /\ UNCHANGED rr
    BY <1>16 DEF Settled
  <2>7. breach \in {"none", "timeout_ratio", "delivery_failures", "rtt_p95",
                    "saturated"}
    BY DEF Breaches
  <2>8. results' \in Seq(StepResults)
    <3>1. completed \in Nat /\ timeouts + Outstanding \in Nat
      BY <1>0, <2>5
    <3>2. QED
      BY <1>0, <2>6, <2>7, <3>1, StopTypes
  <2>9. UNCHANGED <<mode, status, sentTotal, reason, knee, after>>
        /\ wake' = 0 /\ deadline' = 0
    BY <1>16 DEF Settled
  <2>10. CASE breach # "none" \/ LastStep
    BY <1>0, <2>2, <2>4, <2>6, <2>8, <2>9, <2>10 DEF Queues, step
  <2>11. CASE ~(breach # "none" \/ LastStep)
    <3>1. index + 1 \in 1 .. Len(Steps)
      <4>1. index # Len(Steps) /\ index \in 1 .. Len(Steps)
        BY <1>0, <2>11 DEF LastStep
      <4>2. Len(Steps) \in Nat
        BY ScheduleTypes
      <4>3. QED
        BY <4>1, <4>2
    <3>2. QED
      BY <1>0, <2>2, <2>4, <2>6, <2>8, <2>9, <2>11, <3>1, LimitsAssumption DEF Queues
  <2>12. QED
    BY <2>10, <2>11
<1>17. CASE Record
  <2>1. Len(results) \in 0 .. Len(Steps) /\ DOMAIN results = 1 .. Len(results)
    <3>1. Len(results) = index
      BY <1>0, <1>17 DEF Record, Numbered, Running
    <3>2. QED
      BY <1>0, <3>1, ScheduleTypes, LenProperties
  <2>2. Good # {} => Max(Good) \in 0 .. Len(Steps)
    <3>1. Good \in SUBSET (0 .. Len(results))
      BY <2>1 DEF Good
    <3>0. Len(results) \in Nat
      BY <1>0, LenProperties
    <3> DEFINE m == Len(results)
    <3> HIDE DEF m
    <3>a. m \in Nat /\ Good \in SUBSET (0 .. m)
      BY <3>0, <3>1 DEF m
    <3>2. Good # {} => Max(Good) \in Good
      BY <3>a, MaxOf
    <3>3. QED
      BY <2>1, <3>1, <3>2, ScheduleTypes
  <2>3. knee' \in 0 .. Len(Steps)
    BY <1>17, <2>1, <2>2, ScheduleTypes DEF Record
  <2>4. QED
    BY <1>0, <1>17, <2>3 DEF Record, step
<1>18. ASSUME NEW k \in 1 .. Targets, StateReport(k) PROVE Counted'
  <2>1. fifo' \in Queues /\ IsFiniteSet(Reads(fifo'))
    BY <1>0, <1>f, <1>18, OneLess DEF StateReport
  <2>2. QED
    BY <1>0, <1>18, <2>1 DEF StateReport, Queues
<1>19. CASE RequestAbort
  BY <1>0, <1>19 DEF RequestAbort, step
<1>20. CASE Tick
  BY <1>0, <1>20 DEF Tick
<1>21. CASE UNCHANGED vars
  BY <1>0, <1>21 DEF vars
<1>22. QED
  BY <1>1, <1>2, <1>3, <1>4, <1>5, <1>6, <1>7, <1>8, <1>9, <1>10, <1>11, <1>12,
     <1>13, <1>14, <1>15, <1>16, <1>17, <1>18, <1>19, <1>20, <1>21
     DEF Next, Driver, Done


\* The numbers that the counting arguments add up.
LEMMA Numbers ==
    ASSUME Counted
    PROVE  /\ fifo \in Queues /\ Outstanding \in Nat /\ Bound \in Nat
           /\ Len(results) \in Nat /\ DOMAIN results = 1 .. Len(results)
           /\ Steps[index].interval \in Nat \ {0}
<1>1. fifo \in Queues /\ results \in Seq(StepResults) /\ index \in 1 .. Len(Steps)
  BY DEF Counted, TypeOK, Queues
<1>2. Outstanding \in Nat
  BY FS_CardinalityType DEF Counted, Outstanding, Total
<1>3. Bound \in Nat
  BY <1>1, ScheduleTypes, LimitsAssumption DEF Bound
<1>4. Len(results) \in Nat /\ DOMAIN results = 1 .. Len(results)
  BY <1>1, LenProperties
<1>5. QED
  BY <1>1, <1>2, <1>3, <1>4, ScheduleTypes

\* Expiry moves reads from the outstanding to the timed out, one for one.
LEMMA Expiry ==
    ASSUME Counted, Expire
    PROVE  /\ Outstanding' \in Nat /\ Outstanding' <= Outstanding
           /\ timeouts' \in Nat
           /\ timeouts' + Outstanding' = timeouts + Outstanding
<1>1. /\ fifo' = [k \in DOMAIN fifo |-> Live(fifo[k])]
      /\ timeouts' = timeouts + Outstanding - Total(fifo')
  BY DEF Expire
<1>2. Total(fifo') \in Nat /\ Total(fifo') <= Outstanding /\ Outstanding \in Nat
  BY <1>1, NoneNew DEF Counted, Outstanding
<1>3. Outstanding' = Total(fifo') /\ timeouts \in Nat
  BY DEF Outstanding, Counted, TypeOK
<1>4. QED
  BY <1>1, <1>2, <1>3

\* What run.steps holds after a result is appended to it.
LEMMA Appended ==
    ASSUME Counted, NEW r \in StepResults, results' = Append(results, r)
    PROVE  /\ Len(results') = Len(results) + 1
           /\ DOMAIN results' = 1 .. Len(results) + 1
           /\ results'[Len(results) + 1] = r
           /\ \A i \in DOMAIN results : results'[i] = results[i]
<1>1. results \in Seq(StepResults)
  BY DEF Counted, TypeOK
<1>2. QED
  BY <1>1, AppendProperties, LenProperties

\* except _Abort keeps the partial step and leaves the finished ones as they
\* were, wherever in the step it is reached.
LEMMA Stopping ==
    ASSUME Counted, Numbered, EveryReadAccounted, Running, index' = index,
           NEW expired \in Nat, Stop(expired)
    PROVE  /\ EveryReadAccounted' /\ Numbered' /\ Clearances'
           /\ \A i \in DOMAIN results : results'[i] = results[i]
           /\ DOMAIN results' = 1 .. Len(results) + 1
           /\ Len(results') = Len(results) + 1
           /\ results'[Len(results) + 1].breach = "none"
           /\ results'[Len(results) + 1].completed = completed
           /\ pc' = "record" /\ status' = "aborted"
<1>1. /\ pc' = "record" /\ status' = "aborted"
      /\ results' = Append(results, Result("none", completed, expired))
  BY DEF Stop
<1>2. Result("none", completed, expired) \in StepResults
  BY StopTypes DEF Counted, TypeOK
<1>3. /\ Len(results') = Len(results) + 1
      /\ DOMAIN results' = 1 .. Len(results) + 1
      /\ results'[Len(results) + 1] = Result("none", completed, expired)
      /\ \A i \in DOMAIN results : results'[i] = results[i]
  BY <1>1, <1>2, Appended
<1>4. /\ Len(results) \in Nat /\ DOMAIN results = 1 .. Len(results)
      /\ index \in Nat
  BY Numbers, ScheduleTypes DEF Counted, TypeOK
<1>5. status = "completed" /\ Len(results) = index - 1
  BY DEF Numbered
<1>6. EveryReadAccounted'
  <2>1. ASSUME NEW i \in DOMAIN results', Finished(i)'
        PROVE  (results[i].sent = results[i].completed + results[i].timeouts)'
    <3>1. i < Len(results')
      BY <1>1, <2>1 DEF Finished
    <3>2. i \in DOMAIN results
      BY <1>3, <1>4, <2>1, <3>1
    <3>3. Finished(i)
      BY <1>5 DEF Finished
    <3>4. QED
      BY <1>3, <3>2, <3>3 DEF EveryReadAccounted
  <2>2. QED
    BY <1>1, <2>1 DEF EveryReadAccounted
<1>7. Numbered' /\ Clearances'
  BY <1>1, <1>3, <1>4, <1>5 DEF Numbered, Clearances, Running
<1>8. QED
  BY <1>1, <1>3, <1>6, <1>7 DEF Result

\* The part of the invariant that counts reads.
Books == EveryReadAccounted /\ NeverBuried /\ ReadCap /\ Numbered /\ Clearances

\* Every step keeps the books, the bound and the cap.  The bound needs
\* Clearances: the room was checked before the publish and is used after it.
LEMMA BooksStep == IInv /\ [Next]_vars => Books'
<1> SUFFICES ASSUME IInv, [Next]_vars PROVE Books'
  OBVIOUS
<1>0. Counted /\ Books
  BY DEF IInv, Books
<1>t. /\ sent \in Nat /\ completed \in Nat /\ timeouts \in Nat /\ sentTotal \in Nat
      /\ deferred \in Nat /\ index \in 1 .. Len(Steps) /\ Len(Steps) \in Nat
      /\ index \in Nat /\ fifo \in Queues /\ Outstanding \in Nat /\ Bound \in Nat
      /\ t \in Nat /\ rr \in 0 .. Targets - 1 /\ IsFiniteSet(Reads(fifo))
      /\ Len(results) \in Nat /\ DOMAIN results = 1 .. Len(results)
  BY <1>0, Numbers, ScheduleTypes DEF Counted, TypeOK
<1>a. ASSUME NEW expired \in Nat, Stop(expired), Running,
             UNCHANGED <<mode, index, sentTotal>>, Outstanding' <= Outstanding,
             Outstanding' \in Nat
      PROVE  Books'
  <2>1. EveryReadAccounted' /\ Numbered' /\ Clearances'
    BY <1>0, <1>a, Stopping DEF Books
  <2>2. Bound' = Bound /\ pc # "done" /\ pc' # "done"
    BY <1>a DEF Bound, Ramp, Running, Stop
  <2>3. NeverBuried' /\ ReadCap'
    BY <1>0, <1>a, <1>t, <2>2 DEF NeverBuried, ReadCap, Books
  <2>4. QED
    BY <2>1, <2>3 DEF Books
<1>b. ASSUME UNCHANGED <<mode, index, results, status, sent, completed, timeouts,
                         sentTotal, fifo>>,
             Running, Running', Clearances'
      PROVE  Books'
  <2>1. Outstanding' = Outstanding /\ Bound' = Bound
    BY <1>b DEF Outstanding, Bound, Ramp
  <2>2. NeverBuried' /\ ReadCap' /\ Numbered'
    BY <1>0, <1>b, <2>1 DEF NeverBuried, ReadCap, Numbered, Running, Books
  <2>3. EveryReadAccounted'
    BY <1>0, <1>b, <2>1 DEF EveryReadAccounted, Running, Finished, Books
  <2>4. QED
    BY <1>b, <2>2, <2>3 DEF Books
<1>1. CASE LoopAborts
  <2>1. Outstanding' = Outstanding
    BY <1>1 DEF LoopAborts, Outstanding
  <2>2. QED
    BY <1>a, <1>1, <1>t, <2>1 DEF LoopAborts, Running, step
<1>2. CASE LoopStops
  BY <1>0, <1>a, <1>2, Expiry DEF LoopStops, Running
<1>c. ASSUME Expire, UNCHANGED <<mode, index, results, status, sent, completed,
                                 sentTotal>>,
             Running, Running', Clearances'
      PROVE  Books'
  <2>1. /\ Outstanding' \in Nat /\ Outstanding' <= Outstanding
        /\ timeouts' \in Nat
        /\ timeouts' + Outstanding' = timeouts + Outstanding
        /\ Bound' = Bound
    BY <1>0, <1>c, Expiry DEF Bound, Ramp
  <2>2. NeverBuried' /\ ReadCap' /\ Numbered'
    BY <1>0, <1>c, <1>t, <2>1 DEF NeverBuried, ReadCap, Numbered, Running, Books
  <2>3. sent' = completed' + timeouts' + Outstanding'
    <3>1. sent = completed + timeouts + Outstanding
      BY <1>0, <1>c DEF EveryReadAccounted, Running, Books
    <3>2. sent' = sent /\ completed' = completed
      BY <1>c
    <3>3. sent = completed + timeouts' + Outstanding'
      <4> DEFINE a == timeouts'
                 b == Outstanding'
      <4>1. a \in Nat /\ b \in Nat /\ a + b = timeouts + Outstanding
        BY <2>1
      <4> HIDE DEF a, b
      <4>2. sent = completed + a + b
        BY <1>t, <3>1, <4>1
      <4>3. QED
        BY <4>2 DEF a, b
    <3>4. QED
      BY <3>2, <3>3
  <2>4. EveryReadAccounted'
    BY <1>0, <1>c, <2>3 DEF EveryReadAccounted, Finished, Books
  <2>5. QED
    BY <1>c, <2>2, <2>4 DEF Books
<1>3. CASE LoopContinues
  <2>1. Clearances'
    BY <1>3, <1>t, LimitsAssumption DEF LoopContinues, MustStop, Clearances
  <2>2. QED
    BY <1>c, <1>3, <2>1 DEF LoopContinues, Running
<1>4. CASE LoopEnds
  BY <1>b, <1>4 DEF LoopEnds, Running, Clearances, step
<1>5. CASE SlotSends
  <2>1. Clearances'
    BY <1>0, <1>5 DEF SlotSends, Clearances, HasRoom, step, Books, Outstanding, Bound,
       Ramp
  <2>2. QED
    BY <1>b, <1>5, <2>1 DEF SlotSends, Running, step
<1>6. CASE SlotDeferred
  BY <1>0, <1>b, <1>6 DEF SlotDeferred, Running, Clearances, Books
<1>7. CASE SlotBlocked
  BY <1>b, <1>7 DEF SlotBlocked, Running, Clearances, step
<1>8. CASE SlotSleeps
  BY <1>b, <1>8 DEF SlotSleeps, Running, Clearances, step
<1>9. CASE Published
  <2>1. rr + 1 \in 1 .. Targets
    BY <1>t, ScheduleAssumption
  <2>2. Outstanding' = Outstanding + 1
    BY <1>t, <1>9, <2>1, OneMore DEF Published, Outstanding
  <2>3. /\ UNCHANGED <<mode, index, results, status, completed, timeouts>>
        /\ sent' = sent + 1 /\ sentTotal' = sentTotal + 1
        /\ Running /\ Running' /\ pc = "publish" /\ pc' # "publish"
        /\ (pc' = "slots" => sentTotal' < MaxReads)
    BY <1>t, <1>9, LimitsAssumption DEF Published, Running
  <2>4. sentTotal < MaxReads /\ Outstanding < Bound /\ Bound' = Bound
    BY <1>0, <2>3 DEF Books, Clearances, Bound, Ramp
  <2>5. sent' = completed' + timeouts' + Outstanding'
    BY <1>0, <1>t, <2>2, <2>3 DEF EveryReadAccounted, Running, Books
  <2>6. EveryReadAccounted' /\ Numbered'
    BY <1>0, <2>3, <2>5 DEF EveryReadAccounted, Numbered, Running, Finished, Books
  <2>7. NeverBuried' /\ ReadCap' /\ Clearances'
    BY <1>t, <2>2, <2>3, <2>4, LimitsAssumption DEF NeverBuried, ReadCap, Clearances
  <2>8. QED
    BY <2>6, <2>7 DEF Books
<1>10. CASE PublishFails
  <2>1. Outstanding' = Outstanding
    BY <1>10 DEF PublishFails, Outstanding
  <2>2. QED
    BY <1>a, <1>10, <1>t, <2>1 DEF PublishFails, Running, step
<1>11. CASE Wakes
  BY <1>b, <1>11 DEF Wakes, Running, Clearances, step
<1>12. CASE Unblocks
  BY <1>b, <1>12 DEF Unblocks, Running, Clearances, step
<1>13. CASE SettleAborts
  <2>1. Outstanding' = Outstanding
    BY <1>13 DEF SettleAborts, Outstanding
  <2>2. QED
    BY <1>a, <1>13, <1>t, <2>1 DEF SettleAborts, Running, step
<1>14. CASE SettleDrains
  BY <1>c, <1>14 DEF SettleDrains, Running, Clearances
<1>15. CASE DrainTick
  BY <1>b, <1>15 DEF DrainTick, Running, Clearances, step
<1>16. CASE Settled
  <2>1. PICK breach \in Breaches(timeouts + Outstanding) :
         /\ results' = Append(results, Result(breach, completed,
                                              timeouts + Outstanding))
         /\ IF breach # "none" \/ LastStep
            THEN pc' = "record" /\ UNCHANGED <<step, late>>
            ELSE /\ pc' = "loop"
                 /\ index' = index + 1
                 /\ elapsed' = elapsed + t
                 /\ t' = 0 /\ slot' = 0 /\ late' = 0
                 /\ sent' = 0 /\ completed' = 0 /\ timeouts' = 0
                 /\ deferred' = 0
                 /\ UNCHANGED rr
    BY <1>16 DEF Settled
  <2>2. breach \in {"none", "timeout_ratio", "delivery_failures", "rtt_p95",
                    "saturated"}
    BY DEF Breaches
  <2> DEFINE r == Result(breach, completed, timeouts + Outstanding)
  <2>3. r \in StepResults
    BY <1>0, <1>t, <2>2, StopTypes
  <2>4. r.sent = r.completed + r.timeouts
    BY <1>0, <1>t, <1>16 DEF Books, EveryReadAccounted, Result, Settled
  <2> HIDE DEF r
  <2>5. /\ Len(results') = Len(results) + 1
        /\ DOMAIN results' = 1 .. Len(results) + 1
        /\ results'[Len(results) + 1] = r
        /\ \A i \in DOMAIN results : results'[i] = results[i]
    BY <1>0, <2>1, <2>3, Appended DEF r
  <2>6. pc = "settle" /\ status = "completed" /\ Len(results) = index - 1
    BY <1>0, <1>16 DEF Settled, Books, Numbered, Running
  <2>7. \A i \in DOMAIN results' :
          (results[i].sent = results[i].completed + results[i].timeouts)'
    <3>1. ASSUME NEW i \in DOMAIN results
          PROVE  (results[i].sent = results[i].completed + results[i].timeouts)'
      BY <1>0, <2>5, <2>6, <3>1 DEF Books, EveryReadAccounted, Finished
    <3>2. QED
      BY <1>t, <2>4, <2>5, <3>1
  <2>8. Outstanding' = 0
    <3>1. fifo' = [k \in DOMAIN fifo |-> << >>] /\ DOMAIN fifo = 1 .. Targets
      BY <1>t, <1>16 DEF Settled, Queues
    <3>2. \A k \in 1 .. Targets : fifo'[k] = << >>
      BY <3>1
    <3>3. Total(fifo') = 0
      BY <3>2, NoReads
    <3>4. QED
      BY <3>3 DEF Outstanding
  <2>9. pc' = "loop" => sent' = 0 /\ completed' = 0 /\ timeouts' = 0
    BY <2>1
  <2>10. EveryReadAccounted'
    BY <2>1, <2>7, <2>8, <2>9 DEF EveryReadAccounted
  <2>11. Numbered' /\ Clearances'
    <3>1. UNCHANGED status
      BY <1>16 DEF Settled
    <3>2. (pc' = "record" /\ index' = index) \/ (pc' = "loop" /\ index' = index + 1)
      BY <2>1 DEF step
    <3>3. QED
      BY <1>t, <2>5, <2>6, <3>1, <3>2 DEF Numbered, Clearances, Running
  <2>12. NeverBuried' /\ ReadCap'
    <3>1. Counted'
      BY CountedStep
    <3>2. Bound' \in Nat
      BY <3>1, ScheduleTypes, LimitsAssumption DEF Bound, Counted, TypeOK
    <3>3. UNCHANGED sentTotal
      BY <1>16 DEF Settled
    <3>4. QED
      BY <1>0, <2>8, <3>2, <3>3 DEF NeverBuried, ReadCap, Books
  <2>13. QED
    BY <2>10, <2>11, <2>12 DEF Books
<1>17. CASE Record
  BY <1>0, <1>17 DEF Record, Books, EveryReadAccounted, NeverBuried, ReadCap,
     Numbered, Clearances, Running, Finished, step
<1>18. ASSUME NEW k \in 1 .. Targets, StateReport(k) PROVE Books'
  <2>1. Outstanding' = Outstanding - 1
    BY <1>t, <1>18, OneLess DEF StateReport, Outstanding
  <2>2. /\ UNCHANGED <<mode, pc, index, results, status, sent, timeouts, sentTotal>>
        /\ completed' = completed + 1 /\ Running
    BY <1>18 DEF StateReport, Running, Awaiting
  <2>3. Bound' = Bound
    BY <2>2 DEF Bound, Ramp
  <2>4. sent' = completed' + timeouts' + Outstanding'
    BY <1>0, <1>t, <2>1, <2>2 DEF EveryReadAccounted, Running, Books
  <2>5. EveryReadAccounted'
    BY <1>0, <2>2, <2>4 DEF EveryReadAccounted, Finished, Books
  <2>6. QED
    BY <1>0, <1>t, <2>1, <2>2, <2>3, <2>5
       DEF NeverBuried, ReadCap, Numbered, Clearances, Running, Books
<1>19. CASE RequestAbort
  BY <1>0, <1>b, <1>19 DEF RequestAbort, Running, Clearances, step, Books, Outstanding,
     Bound, Ramp
<1>20. CASE Tick
  BY <1>0, <1>b, <1>20 DEF Tick, Running, Clearances, Awaiting, Books, Outstanding,
     Bound, Ramp
<1>21. CASE UNCHANGED vars
  BY <1>0, <1>21 DEF vars, Books, EveryReadAccounted, NeverBuried, ReadCap,
     Numbered, Clearances, Running, Finished, Outstanding, Bound, Ramp
<1>22. QED
  BY <1>1, <1>2, <1>3, <1>4, <1>5, <1>6, <1>7, <1>8, <1>9, <1>10, <1>11, <1>12,
     <1>13, <1>14, <1>15, <1>16, <1>17, <1>18, <1>19, <1>20, <1>21
     DEF Next, Driver, Done


\* A ramp step that _evaluate_stop lets pass was sent and was answered: with
\* the books right, no more than 10 % expired means at least 90 % answered.
LEMMA Verdict ==
    ASSUME Counted, mode = "ramp", NEW expired \in Nat,
           "none" \in Breaches(expired), sent = completed + expired
    PROVE  /\ 10 * completed >= 9 * sent
           /\ 10 * sent * Steps[index].interval >= 8 * StepTicks
           /\ sent > 0 /\ completed > 0
<1>t. /\ sent \in Nat /\ completed \in Nat /\ StepTicks \in Nat \ {0}
      /\ Steps[index].interval \in Nat \ {0}
  BY Numbers, ScheduleAssumption DEF Counted, TypeOK
<1>1. ~TimedOut(expired) /\ ~Saturated
  BY DEF Breaches, Ramp
<1>2. 10 * sent * Steps[index].interval >= 8 * StepTicks
  BY <1>1, <1>t DEF Saturated
<1>3. sent > 0
  <2>1. ASSUME sent = 0 PROVE FALSE
    <3>1. 10 * sent * Steps[index].interval = 0
      BY <2>1, <1>t
    <3>2. QED
      BY <3>1, <1>2, <1>t
  <2>2. QED
    BY <2>1, <1>t
<1>4. 10 * expired <= sent
  BY <1>1, <1>3, <1>t DEF TimedOut
<1>5. QED
  BY <1>2, <1>3, <1>4, <1>t

\* The part of the invariant that speaks of run.steps and the knee.
Records == Replaying /\ Judged /\ Answered /\ KneeLast /\ KneeSustained

\* Every step keeps what the run's record relies on; it is established where a
\* step is settled, and read where the knee is recorded.
LEMMA RecordsStep == IInv /\ [Next]_vars => Records'
<1> SUFFICES ASSUME IInv, [Next]_vars PROVE Records'
  OBVIOUS
<1>0. Counted /\ Books /\ Records
  BY DEF IInv, Books, Records
<1>t. /\ sent \in Nat /\ completed \in Nat /\ timeouts \in Nat /\ slot \in Nat
      /\ index \in 1 .. Len(Steps) /\ Len(Steps) \in Nat /\ index \in Nat
      /\ t \in Nat /\ Len(results) \in Nat /\ DOMAIN results = 1 .. Len(results)
      /\ Outstanding \in Nat /\ Len(Offsets) \in Nat \ {0}
      /\ \A i \in 1 .. Len(Offsets) : Offsets[i] \in Nat
  BY <1>0, Numbers, ScheduleTypes, ScheduleAssumption DEF Counted, TypeOK
<1>a. ASSUME UNCHANGED <<mode, index, results, status, knee>>, Running, Running',
             Replaying'
      PROVE  Records'
  <2>1. knee' = 0
    BY <1>0, <1>a DEF Records, KneeLast, Running
  <2>2. Judged' /\ Answered'
    BY <1>0, <1>a DEF Records, Judged, Answered, Running, Finished, Sustained
  <2>3. QED
    BY <1>a, <1>t, <2>1, <2>2 DEF Records, KneeLast, KneeSustained
<1>b. ASSUME NEW expired \in Nat, Stop(expired), Running,
             UNCHANGED <<mode, index, sent, slot, t, knee>>
      PROVE  Records'
  <2>1. /\ \A i \in DOMAIN results : results'[i] = results[i]
        /\ DOMAIN results' = 1 .. Len(results) + 1
        /\ Len(results') = Len(results) + 1
        /\ results'[Len(results) + 1].breach = "none"
        /\ pc' = "record" /\ status' = "aborted"
    BY <1>0, <1>b, Stopping DEF Books
  <2>2. status = "completed"
    BY <1>0, <1>b DEF Books, Numbered
  <2>3. \A i \in DOMAIN results' : i \in DOMAIN results \/ i = Len(results) + 1
    BY <1>t, <2>1
  <2>4. \A i \in DOMAIN results : results'[i].breach = "none"
    BY <1>0, <1>b, <2>1 DEF Records, Judged
  <2>5. ASSUME NEW i \in DOMAIN results', mode = "ramp", Finished(i)'
        PROVE  Sustained(i)'
    <3>1. i \in DOMAIN results
      BY <1>t, <2>1, <2>3, <2>5 DEF Finished
    <3>2. Sustained(i)
      BY <1>0, <1>b, <2>1, <2>2, <2>4, <2>5, <3>1 DEF Records, Judged, Finished
    <3>3. QED
      BY <2>1, <3>1, <3>2 DEF Sustained
  <2>6. Judged'
    BY <1>b, <2>1, <2>3, <2>4, <2>5 DEF Judged
  <2>7. Answered'
    <3>1. \A i \in DOMAIN results : i \in DOMAIN results'
      BY <1>t, <2>1
    <3>2. QED
      BY <1>0, <1>b, <2>1, <3>1 DEF Records, Answered
  <2>8. knee' = 0
    BY <1>0, <1>b DEF Records, KneeLast, Running
  <2>9. Replaying'
    BY <1>0, <1>b, <2>1 DEF Records, Replaying, Running
  <2>10. QED
    BY <2>1, <2>6, <2>7, <2>8, <2>9 DEF Records, KneeLast, KneeSustained
<1>1. CASE LoopAborts
  BY <1>b, <1>1, <1>t DEF LoopAborts, Running, step
<1>2. CASE LoopStops
  <2>1. timeouts' \in Nat
    BY <1>0, <1>2, Expiry DEF LoopStops
  <2>2. QED
    BY <1>b, <1>2, <2>1 DEF LoopStops, Running
<1>3. CASE LoopContinues
  <2>1. mode = "replay" => slot < Len(Offsets)
    BY <1>0, <1>t, <1>3 DEF LoopContinues, ScheduleOver, Ramp
  <2>2. Replaying'
    BY <1>0, <1>3, <2>1 DEF Records, Replaying, LoopContinues, Running
  <2>3. QED
    BY <1>a, <1>3, <2>2 DEF LoopContinues, Running
<1>4. CASE LoopEnds
  <2>1. mode = "replay" => slot = Len(Offsets)
    BY <1>0, <1>t, <1>4 DEF LoopEnds, ScheduleOver, Ramp, Records, Replaying
  <2>2. Replaying'
    BY <1>0, <1>4, <2>1 DEF Records, Replaying, LoopEnds, Running, step
  <2>3. QED
    BY <1>a, <1>4, <2>2 DEF LoopEnds, Running, step
<1>5. CASE SlotSends
  <2>1. mode = "replay" => Offsets[slot + 1] <= t
    BY <1>5 DEF SlotSends, SlotDue, Due, Ramp
  <2>2. Replaying'
    BY <1>0, <1>5, <2>1 DEF Records, Replaying, SlotSends, Running, step
  <2>3. QED
    BY <1>a, <1>5, <2>2 DEF SlotSends, Running, step
<1>6. CASE SlotDeferred
  <2>1. Replaying'
    BY <1>6 DEF SlotDeferred, Replaying, Ramp
  <2>2. QED
    BY <1>a, <1>6, <2>1 DEF SlotDeferred, Running
<1>7. CASE SlotBlocked
  BY <1>0, <1>a, <1>7 DEF SlotBlocked, Running, Records, Replaying, step
<1>8. CASE SlotSleeps
  BY <1>0, <1>a, <1>8 DEF SlotSleeps, Running, Records, Replaying, step
<1>9. CASE Published
  <2>1. ASSUME mode = "replay"
        PROVE  /\ sent = slot /\ slot < Len(Offsets) /\ Offsets[slot + 1] <= t
               /\ index = 1
    BY <1>0, <1>9, <2>1 DEF Records, Replaying, Published
  <2>2. /\ sent' = sent + 1 /\ Running /\ Running'
        /\ UNCHANGED <<mode, index, results, status, knee, t>>
        /\ (mode = "replay" => slot' = slot + 1 /\ pc' = "loop")
    BY <1>9 DEF Published, Running, Ramp
  <2>3. Replaying'
    BY <1>t, <2>1, <2>2 DEF Replaying, Running
  <2>4. QED
    BY <1>a, <2>2, <2>3
<1>10. CASE PublishFails
  BY <1>b, <1>10, <1>t DEF PublishFails, Running, step
<1>11. CASE Wakes
  BY <1>0, <1>a, <1>11 DEF Wakes, Running, Records, Replaying, step
<1>12. CASE Unblocks
  BY <1>0, <1>a, <1>12 DEF Unblocks, Running, Records, Replaying, step
<1>13. CASE SettleAborts
  BY <1>b, <1>13, <1>t DEF SettleAborts, Running, step
<1>14. CASE SettleDrains
  BY <1>0, <1>a, <1>14 DEF SettleDrains, Running, Records, Replaying
<1>15. CASE DrainTick
  BY <1>0, <1>a, <1>15 DEF DrainTick, Running, Records, Replaying, step
<1>16. CASE Settled
  <2>1. PICK breach \in Breaches(timeouts + Outstanding) :
         /\ results' = Append(results, Result(breach, completed,
                                              timeouts + Outstanding))
         /\ IF breach # "none" \/ LastStep
            THEN pc' = "record" /\ UNCHANGED <<step, late>>
            ELSE /\ pc' = "loop"
                 /\ index' = index + 1
                 /\ elapsed' = elapsed + t
                 /\ t' = 0 /\ slot' = 0 /\ late' = 0
                 /\ sent' = 0 /\ completed' = 0 /\ timeouts' = 0
                 /\ deferred' = 0
                 /\ UNCHANGED rr
    BY <1>16 DEF Settled
  <2>2. breach \in {"none", "timeout_ratio", "delivery_failures", "rtt_p95",
                    "saturated"}
    BY DEF Breaches
  <2>e. PICK expired \in Nat : expired = timeouts + Outstanding
    BY <1>t
  <2>3. Result(breach, completed, expired) \in StepResults
    BY <1>0, <1>t, <2>2, StopTypes
  <2>4. /\ pc = "settle" /\ status = "completed" /\ Len(results) = index - 1
        /\ sent = completed + expired /\ knee = 0
        /\ UNCHANGED <<mode, status, knee>>
    BY <1>0, <1>t, <1>16, <2>e
       DEF Settled, Books, EveryReadAccounted, Numbered, Running, Records, KneeLast
  <2>5. /\ Len(results') = Len(results) + 1
        /\ DOMAIN results' = 1 .. Len(results) + 1
        /\ results'[index] = Result(breach, completed, expired)
        /\ \A i \in DOMAIN results : results'[i] = results[i]
    <3>1. results' = Append(results, Result(breach, completed, expired))
      BY <2>1, <2>e
    <3>2. Len(results) + 1 = index
      BY <1>t, <2>4
    <3>3. Counted
      BY <1>0
    <3>4. QED
      BY <2>3, <3>1, <3>2, <3>3, Appended
  <2>6. /\ results'[index].breach = breach /\ results'[index].sent = sent
        /\ results'[index].completed = completed
    BY <2>5 DEF Result
  <2>7. DOMAIN results' = 1 .. index /\ DOMAIN results = 1 .. index - 1
    BY <1>t, <2>4, <2>5
  <2>8. ASSUME mode = "ramp", breach = "none"
        PROVE  completed > 0 /\ \A i \in DOMAIN results' : i = index => Sustained(i)'
    <3>1. "none" \in Breaches(expired) /\ Counted /\ sent = completed + expired
      BY <1>0, <2>e, <2>4, <2>8
    <3>2. /\ 10 * completed >= 9 * sent
          /\ 10 * sent * Steps[index].interval >= 8 * StepTicks
          /\ completed > 0
      BY <2>8, <3>1, Verdict
    <3>3. QED
      BY <2>6, <3>2 DEF Sustained
  <2>9. \A i \in DOMAIN results : results'[i].breach = "none"
    BY <1>0, <2>4, <2>5 DEF Records, Judged, Running
  <2>10. ASSUME NEW i \in DOMAIN results, mode = "ramp" PROVE Sustained(i)'
    <3>1. Sustained(i)
      BY <1>0, <2>4, <2>5, <2>9, <2>10 DEF Records, Judged, Finished
    <3>2. QED
      BY <2>5, <3>1 DEF Sustained
  <2>11. \A i \in DOMAIN results' : i = index \/ i \in DOMAIN results
    BY <1>t, <2>7
  <2>12. \/ /\ pc' = "loop" /\ breach = "none" /\ mode = "ramp"
            /\ index' = index + 1
         \/ pc' = "record" /\ UNCHANGED <<sent, slot, index, t>>
    <3>1. CASE breach # "none" \/ LastStep
      BY <2>1, <3>1 DEF step
    <3>2. CASE ~(breach # "none" \/ LastStep)
      BY <2>1, <3>2 DEF LastStep, Ramp
    <3>3. QED
      BY <3>1, <3>2
  <2>13. Judged'
    <3>1. \A i \in DOMAIN results' :
            (mode = "ramp" /\ Finished(i) /\ results[i].breach = "none"
               => Sustained(i))'
      <4>1. mode' = mode
        BY <2>4
      <4>2. ASSUME NEW i \in DOMAIN results', mode = "ramp",
                   results'[i].breach = "none"
            PROVE  Sustained(i)'
        BY <2>6, <2>8, <2>10, <2>11, <4>2
      <4>3. QED
        BY <4>1, <4>2
    <3>2. \A i \in DOMAIN results' :
            (i < Len(results) \/ Running => results[i].breach = "none")'
      BY <1>t, <2>4, <2>5, <2>6, <2>9, <2>11, <2>12 DEF Running
    <3>3. QED
      BY <3>1, <3>2 DEF Judged
  <2>14. Answered'
    <3>1. ASSUME pc' = "loop" PROVE Answered'
      <4>1. index \in DOMAIN results' /\ results'[index].completed > 0 /\ mode' = "ramp"
        BY <1>t, <2>4, <2>6, <2>7, <2>8, <2>12, <3>1
      <4>2. QED
        BY <4>1 DEF Answered
    <3>2. ASSUME pc' = "record" PROVE Answered'
      <4>1. \A i \in DOMAIN results : i \in DOMAIN results'
        BY <1>t, <2>5
      <4>2. index' = index
        BY <2>12, <3>2
      <4>3. QED
        BY <1>0, <2>4, <2>5, <4>1, <4>2 DEF Records, Answered
    <3>3. QED
      BY <2>12, <3>1, <3>2
  <2>15. Replaying'
    BY <1>0, <2>4, <2>12 DEF Records, Replaying, Running
  <2>16. QED
    BY <2>4, <2>13, <2>14, <2>15 DEF Records, KneeLast, KneeSustained
<1>17. CASE Record
  <2>1. /\ pc = "record" /\ pc' = "done" /\ Len(results) = index
        /\ UNCHANGED <<mode, status, index, results, sent, slot, t>>
    BY <1>0, <1>17 DEF Record, Books, Numbered, Running, step
  <2>2. Replaying' /\ Judged' /\ Answered'
    BY <1>0, <2>1 DEF Records, Replaying, Judged, Answered, Running, Finished,
       Sustained
  <2>3. ASSUME knee' > 0
        PROVE  /\ ~Degraded /\ status = "completed" /\ Good # {} /\ mode = "ramp"
               /\ knee' = Max(Good)
    BY <1>17, <2>3 DEF Record, Ramp
  <2>4. ASSUME knee' > 0 PROVE KneeSustained'
    <3>1. Good \in SUBSET (0 .. Len(results)) /\ Good \subseteq 1 .. Len(results)
      BY <1>t DEF Good
    <3>2. knee' \in Good
      BY <1>t, <2>3, <2>4, <3>1, MaxOf
    <3>3. knee' \in 1 .. Len(results)
      BY <3>1, <3>2
    <3>4. ASSUME NEW i \in 1 .. knee'
          PROVE  Sustained(i) /\ ~results[i].degraded
      <4>1. i \in DOMAIN results /\ (i < Len(results) \/ i = knee')
        BY <1>t, <3>3
      <4>2. results[i].breach = "none"
        BY <1>0, <3>2, <4>1 DEF Records, Judged, Good
      <4>3. QED
        BY <1>0, <2>3, <2>4, <4>1, <4>2 DEF Records, Judged, Finished, Degraded
    <3>5. QED
      BY <2>1, <2>3, <2>4, <3>4 DEF KneeSustained, Sustained
  <2>5. KneeSustained'
    BY <2>4 DEF KneeSustained
  <2>6. QED
    BY <2>1, <2>2, <2>5 DEF Records, KneeLast
<1>18. ASSUME NEW k \in 1 .. Targets, StateReport(k) PROVE Records'
  <2>1. Replaying'
    BY <1>0, <1>18 DEF StateReport, Running, Awaiting, Records, Replaying
  <2>2. QED
    BY <1>a, <1>18, <2>1 DEF StateReport, Running, Awaiting
<1>19. CASE RequestAbort
  BY <1>0, <1>a, <1>19 DEF RequestAbort, Running, Records, Replaying, step
<1>20. CASE Tick
  <2>1. /\ t' = t + 1 /\ Running /\ Running'
        /\ UNCHANGED <<mode, pc, index, results, status, knee, sent, slot>>
    BY <1>20 DEF Tick, Running, Awaiting
  <2>2. ASSUME mode = "replay"
        PROVE  /\ pc = "publish" => Offsets[slot + 1] <= t'
               /\ sent > 0 => Offsets[sent] <= t'
    <3>1. pc = "publish" => slot + 1 \in 1 .. Len(Offsets) /\ Offsets[slot + 1] <= t
      BY <1>0, <1>t, <2>2 DEF Records, Replaying
    <3>2. sent > 0 => sent \in 1 .. Len(Offsets) /\ Offsets[sent] <= t
      BY <1>0, <1>t, <2>2 DEF Records, Replaying
    <3>3. QED
      BY <1>t, <2>1, <3>1, <3>2
  <2>3. Replaying'
    BY <1>0, <2>1, <2>2 DEF Records, Replaying, Running
  <2>4. QED
    BY <1>a, <2>1, <2>3
<1>21. CASE UNCHANGED vars
  BY <1>0, <1>21 DEF vars, Records, Replaying, Judged, Answered, KneeLast,
     KneeSustained, Running, Finished, Sustained
<1>22. QED
  BY <1>1, <1>2, <1>3, <1>4, <1>5, <1>6, <1>7, <1>8, <1>9, <1>10, <1>11, <1>12,
     <1>13, <1>14, <1>15, <1>16, <1>17, <1>18, <1>19, <1>20, <1>21
     DEF Next, Driver, Done

\* The state in which _run starts satisfies the invariant.
LEMMA InitIInv == Init => IInv
<1> SUFFICES ASSUME Init PROVE IInv
  OBVIOUS
<1>1. /\ fifo = [k \in 1 .. Targets |-> << >>] /\ results = << >> /\ Len(results) = 0
      /\ DOMAIN results = {}
  BY EmptySeq DEF Init
<1>2. fifo \in Queues
  BY <1>1, EmptySeq DEF Queues
<1>3. IsFiniteSet(Reads(fifo)) /\ Total(fifo) = 0
  BY <1>1, NoReads
<1>4. Len(Steps) \in Nat \ {0} /\ Targets \in Nat \ {0} /\ Len(Offsets) \in Nat \ {0}
  BY ScheduleTypes, ScheduleAssumption
<1>5. TypeOK
  <2>1. results \in Seq(StepResults)
    BY <1>1, EmptySeq
  <2>2. rr \in 0 .. Targets - 1 /\ index \in 1 .. Len(Steps) /\ knee \in 0 .. Len(Steps)
    BY <1>4 DEF Init
  <2>3. late \in 0 .. DegradedTicks
    BY LimitsAssumption DEF Init
  <2>4. fifo \in [1 .. Targets -> Seq(Nat)]
    BY <1>2 DEF Queues
  <2>5. after \in 0 .. 2
    <3>1. after = 0
      BY DEF Init
    <3>2. QED
      BY <3>1
  <2>6. QED
    BY <2>1, <2>2, <2>3, <2>4, <2>5 DEF Init, TypeOK
<1>6. Counted
  BY <1>3, <1>5 DEF Counted
<1>7. Outstanding = 0 /\ Bound \in Nat
  BY <1>3, <1>6, Numbers DEF Outstanding
<1>8. EveryReadAccounted /\ NeverBuried /\ ReadCap
  BY <1>1, <1>7, LimitsAssumption DEF Init, EveryReadAccounted, NeverBuried, ReadCap
<1>9. Numbered /\ Clearances
  BY <1>1 DEF Init, Numbered, Clearances, Running
<1>10. Replaying /\ Answered /\ KneeLast /\ KneeSustained
  BY <1>4 DEF Init, Replaying, Answered, KneeLast, KneeSustained, Running
<1>11. Judged
  BY <1>1 DEF Judged
<1>12. QED
  BY <1>6, <1>8, <1>9, <1>10, <1>11 DEF IInv

\* Every reachable state of a run satisfies the inductive invariant.
THEOREM InductiveInvariant == Spec => []IInv
<1>1. IInv /\ [Next]_vars => IInv'
  BY CountedStep, BooksStep, RecordsStep DEF IInv, Books, Records
<1>2. QED
  BY InitIInv, <1>1, PTL DEF Spec

\* For every ramp, schedule, bound and number of targets: no read is lost from
\* the books of _run_step and _settle, and neither the outstanding bound nor
\* the cap on reads is ever exceeded.
THEOREM BooksStayRight == Spec => []BooksAndBounds
<1>1. IInv => BooksAndBounds
  BY DEF IInv, Counted, BooksAndBounds
<1>2. QED
  BY InductiveInvariant, <1>1, PTL

\* For every ramp and schedule: a recorded knee was sustained, a mesh that
\* answers nothing is left after one step, and a replay that completes has sent
\* its whole schedule, nothing early.
THEOREM RecordsAreSound == Spec => []RecordsSound
<1>1. IInv => RecordsSound
  <2> SUFFICES ASSUME IInv PROVE RecordsSound
    OBVIOUS
  <2>1. Counted /\ Numbered /\ Replaying /\ Answered /\ KneeSustained
    BY DEF IInv
  <2>2. index \in Nat \ {0} /\ Len(results) \in Nat /\ DOMAIN results = 1 .. Len(results)
    BY <2>1, Numbers, ScheduleTypes DEF Counted, TypeOK
  <2>3. DeadMeshSpared
    <3>1. ASSUME completed = 0, \A i \in DOMAIN results : results[i].completed = 0
          PROVE  index = 1
      BY <2>1, <2>2, <3>1 DEF Answered
    <3>2. index = 1 => Len(results) <= 1
      BY <2>1, <2>2 DEF Numbered
    <3>3. QED
      BY <3>1, <3>2 DEF DeadMeshSpared
  <2>4. ReplayWhole
    BY <2>1 DEF ReplayWhole, Replaying, Running
  <2>5. QED
    BY <2>1, <2>3, <2>4 DEF RecordsSound
<1>2. QED
  BY InductiveInvariant, <1>1, PTL


=============================================================================
