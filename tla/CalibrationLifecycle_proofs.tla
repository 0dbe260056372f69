--------------------- MODULE CalibrationLifecycle_proofs ---------------------
(***************************************************************************)
(* The safety of CalibrationLifecycle for every set of tokens, every batch *)
(* size, TTL and cool-down: an inductive invariant, the properties it      *)
(* implies, and the refinement of MeshLease.                               *)
(***************************************************************************)
EXTENDS CalibrationLifecycleProps, TLAPS

-----------------------------------------------------------------------------
(* The inductive invariant.  The properties of CalibrationLifecycleProps     *)
(* are not inductive: that one run is on the mesh depends on the two         *)
(* pointers agreeing, that a batch never exceeds its credit on what is left  *)
(* of its queue, and that the mesh rested on what the two clocks add up to.  *)

\* _active and _bulk point at the one task there is.
Pointers ==
    /\ \A t \in Tokens : pc[t] \in Running <=> active = t
    /\ \A t \in Tokens : pc[t] \in Batching => bulk = t
    /\ bulk # NoTask => pc[bulk] # "none"
    /\ bulk # NoTask /\ active # NoTask => bulk = active

\* Whatever the cool-down still owes, the mesh has already rested the rest.
Clocks ==
    /\ quiet + cooldown >= Cooldown
    /\ \A t \in Tokens : pc[t] = "checked" => cooldown = 0

\* A token that may still be confirmed has its whole plan as credit, and a
\* task that may still launch has credit for all that is left of its queue.
Credit ==
    /\ \A t \in Tokens : left[t] \in 0 .. MaxBatch
    /\ \A t \in Tokens :
         authz[t] # NoPlan => pc[t] = "none" /\ (Expired(t) \/ left[t] = authz[t].runs)
    /\ \A t \in Tokens : reason[t] => pc[t] \in Running
    /\ \A t \in Tokens : pc[t] # "none" /\ ~reason[t] => left[t] >= rest[t]
    /\ \A t \in Tokens : pc[t] \in {"wait", "checked"} => rest[t] > 0
    /\ \A t \in Tokens : pc[t] = "none" => rest[t] = 0

\* An answered abort left its mark on the batch, and a batch that launched
\* after one is past its last check.
Aborts ==
    /\ \A t \in acked : flagged[t]
    /\ \A t \in Tokens : overrun[t] <= 1
    /\ \A t \in Tokens : overrun[t] > 0 => flagged[t] /\ pc[t] # "checked"

IInv == TypeOK /\ Pointers /\ Clocks /\ Credit /\ Aborts

-----------------------------------------------------------------------------
\* A plan lists at least one run and at most one per coordinator.
LEMMA PlanRuns == \A p \in Plans : p.runs \in 1 .. MaxBatch /\ (p.mode # "batch" => p.runs = 1)
BY MaxBatchAssumption DEF Plans, SinglePlans, BatchPlans

\* Every step keeps the variables in their types.
LEMMA TypeStep ==
  ASSUME TypeOK, Credit, [Next]_vars
  PROVE  TypeOK'
<1> USE NoTaskAssumption, MaxBatchAssumption, TtlAssumption, CooldownAssumption, NoPlanAssumption DEF TypeOK, Credit, Plans, SinglePlans, BatchPlans, Running, Batching
<1>1. ASSUME NEW t \in Tokens, Preview(t) PROVE TypeOK'
  BY <1>1 DEF Preview, Expired
<1>2. ASSUME NEW t \in Tokens, StartExpired(t) PROVE TypeOK'
  BY <1>2 DEF StartExpired, Spend, Expired
<1>3. ASSUME NEW t \in Tokens, Start(t) PROVE TypeOK'
  BY <1>3 DEF Start, Accepted, StartRun, Spend, Account, Idle, Expired
<1>4. ASSUME NEW t \in Tokens, StartReplay(t) PROVE TypeOK'
  BY <1>4 DEF StartReplay, Accepted, StartRun, Spend, Account, Idle, Expired
<1>5. ASSUME NEW t \in Tokens, StartBulk(t) PROVE TypeOK'
  BY <1>5 DEF StartBulk, Accepted, Spend, Idle, Expired
<1>6. ASSUME NEW t \in Tokens, Begin(t) PROVE TypeOK'
  BY <1>6 DEF Begin
<1>7. ASSUME NEW t \in Tokens, RampCompletes(t) PROVE TypeOK'
  BY <1>7 DEF RampCompletes
<1>8. ASSUME NEW t \in Tokens, RampStops(t) PROVE TypeOK'
  BY <1>8 DEF RampStops, SetReason
<1>9. ASSUME NEW t \in Tokens, RecordContinues(t) PROVE TypeOK'
  BY <1>9 DEF RecordContinues, GoesOn, More, Release, IsBatch
<1>10. ASSUME NEW t \in Tokens, RecordEnds(t) PROVE TypeOK'
  BY <1>10 DEF RecordEnds, Release, EndTask, LeavesBulk, IsBatch
<1>11. ASSUME NEW t \in Tokens, BulkStopped(t) PROVE TypeOK'
  BY <1>11 DEF BulkStopped, EndTask, LeavesBulk, IsBatch
<1>12. ASSUME NEW t \in Tokens, BulkProceeds(t) PROVE TypeOK'
  BY <1>12 DEF BulkProceeds, MayProceed
<1>13. ASSUME NEW t \in Tokens, BulkLaunches(t) PROVE TypeOK'
  BY <1>13 DEF BulkLaunches, Advances, Account
<1>14. ASSUME NEW t \in Tokens, BulkSkips(t) PROVE TypeOK'
  BY <1>14 DEF BulkSkips, Advances
<1>15. ASSUME NEW t \in Tokens, SkipRecorded(t) PROVE TypeOK'
  BY <1>15 DEF SkipRecorded, More
<1>16. ASSUME NEW t \in Tokens, SkipEndsBatch(t) PROVE TypeOK'
  BY <1>16 DEF SkipEndsBatch, EndTask, LeavesBulk, IsBatch
<1>17. CASE Watchdog
  BY <1>17 DEF Watchdog, SetReason
<1>18. CASE AbortEnter
  BY <1>18 DEF AbortEnter
<1>19. CASE AbortReadsBulk
  BY <1>19 DEF AbortReadsBulk
<1>20. CASE AbortFlags
  BY <1>20 DEF AbortFlags
<1>21. CASE AbortRequests
  <2>1. /\ reason' \in [Tokens -> BOOLEAN] /\ left' \in [Tokens -> Int]
    <3>1. (SetReason(active) /\ active # NoTask) \/ UNCHANGED <<reason, left>>
      BY <1>21 DEF AbortRequests
    <3>2. CASE SetReason(active) /\ active # NoTask
      BY <3>2 DEF SetReason
    <3>3. CASE UNCHANGED <<reason, left>>
      BY <3>3
    <3>4. QED
      BY <3>1, <3>2, <3>3
  <2>2. acked' \in SUBSET Tokens
    BY <1>21 DEF AbortRequests
  <2>3. QED
    BY <1>21, <2>1, <2>2 DEF AbortRequests
<1>22. CASE Tick
  BY <1>22 DEF Tick, Expired
<1>23. CASE Restart
  BY <1>23 DEF Restart
<1>24. CASE UNCHANGED vars
  BY <1>24 DEF vars, Expired
<1>25. QED
  BY <1>1, <1>2, <1>3, <1>4, <1>5, <1>6, <1>7, <1>8, <1>9, <1>10, <1>11, <1>12, <1>13, <1>14, <1>15, <1>16, <1>17, <1>18, <1>19, <1>20, <1>21, <1>22, <1>23, <1>24 DEF Next, TaskStep

\* Every step keeps the pointers on the one task there is.
LEMMA PointersStep ==
  ASSUME TypeOK, Pointers, Credit, [Next]_vars
  PROVE  Pointers'
<1> USE NoTaskAssumption, MaxBatchAssumption, TtlAssumption, CooldownAssumption, NoPlanAssumption DEF TypeOK, Pointers, Running, Batching
<1>1. ASSUME NEW t \in Tokens, Preview(t) PROVE Pointers'
  BY <1>1 DEF Preview, Expired
<1>2. ASSUME NEW t \in Tokens, StartExpired(t) PROVE Pointers'
  BY <1>2 DEF StartExpired, Spend, Expired
<1>3. ASSUME NEW t \in Tokens, Start(t) PROVE Pointers'
  BY <1>3 DEF Start, Accepted, StartRun, Spend, Account, Idle, Expired
<1>4. ASSUME NEW t \in Tokens, StartReplay(t) PROVE Pointers'
  BY <1>4 DEF StartReplay, Accepted, StartRun, Spend, Account, Idle, Expired
<1>5. ASSUME NEW t \in Tokens, StartBulk(t) PROVE Pointers'
  BY <1>5 DEF StartBulk, Accepted, Spend, Idle, Expired
<1>6. ASSUME NEW t \in Tokens, Begin(t) PROVE Pointers'
  BY <1>6 DEF Begin
<1>7. ASSUME NEW t \in Tokens, RampCompletes(t) PROVE Pointers'
  BY <1>7 DEF RampCompletes
<1>8. ASSUME NEW t \in Tokens, RampStops(t) PROVE Pointers'
  BY <1>8 DEF RampStops, SetReason
<1>9. ASSUME NEW t \in Tokens, RecordContinues(t) PROVE Pointers'
  BY <1>9 DEF RecordContinues, GoesOn, More, Release, IsBatch
<1>10. ASSUME NEW t \in Tokens, RecordEnds(t) PROVE Pointers'
  BY <1>10 DEF RecordEnds, Release, EndTask, LeavesBulk, IsBatch
<1>11. ASSUME NEW t \in Tokens, BulkStopped(t) PROVE Pointers'
  BY <1>11 DEF BulkStopped, EndTask, LeavesBulk, IsBatch
<1>12. ASSUME NEW t \in Tokens, BulkProceeds(t) PROVE Pointers'
  BY <1>12 DEF BulkProceeds, MayProceed
<1>13. ASSUME NEW t \in Tokens, BulkLaunches(t) PROVE Pointers'
  BY <1>13 DEF BulkLaunches, Advances, Account
<1>14. ASSUME NEW t \in Tokens, BulkSkips(t) PROVE Pointers'
  BY <1>14 DEF BulkSkips, Advances
<1>15. ASSUME NEW t \in Tokens, SkipRecorded(t) PROVE Pointers'
  BY <1>15 DEF SkipRecorded, More
<1>16. ASSUME NEW t \in Tokens, SkipEndsBatch(t) PROVE Pointers'
  BY <1>16 DEF SkipEndsBatch, EndTask, LeavesBulk, IsBatch
<1>17. CASE Watchdog
  BY <1>17 DEF Watchdog, SetReason
<1>18. CASE AbortEnter
  BY <1>18 DEF AbortEnter
<1>19. CASE AbortReadsBulk
  BY <1>19 DEF AbortReadsBulk
<1>20. CASE AbortFlags
  BY <1>20 DEF AbortFlags
<1>21. CASE AbortRequests
  BY <1>21 DEF AbortRequests, SetReason
<1>22. CASE Tick
  BY <1>22 DEF Tick, Expired
<1>23. CASE Restart
  BY <1>23 DEF Restart
<1>24. CASE UNCHANGED vars
  BY <1>24 DEF vars, Expired
<1>25. QED
  BY <1>1, <1>2, <1>3, <1>4, <1>5, <1>6, <1>7, <1>8, <1>9, <1>10, <1>11, <1>12, <1>13, <1>14, <1>15, <1>16, <1>17, <1>18, <1>19, <1>20, <1>21, <1>22, <1>23, <1>24 DEF Next, TaskStep

\* Every step keeps the cool-down and the rest in balance.
LEMMA ClocksStep ==
  ASSUME TypeOK, Clocks, [Next]_vars
  PROVE  Clocks'
<1> USE NoTaskAssumption, MaxBatchAssumption, TtlAssumption, CooldownAssumption, NoPlanAssumption DEF TypeOK, Clocks, LoopFree
<1>1. ASSUME NEW t \in Tokens, Preview(t) PROVE Clocks'
  BY <1>1 DEF Preview, Expired
<1>2. ASSUME NEW t \in Tokens, StartExpired(t) PROVE Clocks'
  BY <1>2 DEF StartExpired, Spend, Expired
<1>3. ASSUME NEW t \in Tokens, Start(t) PROVE Clocks'
  BY <1>3 DEF Start, Accepted, StartRun, Spend, Account, Idle, Expired
<1>4. ASSUME NEW t \in Tokens, StartReplay(t) PROVE Clocks'
  BY <1>4 DEF StartReplay, Accepted, StartRun, Spend, Account, Idle, Expired
<1>5. ASSUME NEW t \in Tokens, StartBulk(t) PROVE Clocks'
  BY <1>5 DEF StartBulk, Accepted, Spend, Idle, Expired
<1>6. ASSUME NEW t \in Tokens, Begin(t) PROVE Clocks'
  BY <1>6 DEF Begin
<1>7. ASSUME NEW t \in Tokens, RampCompletes(t) PROVE Clocks'
  BY <1>7 DEF RampCompletes
<1>8. ASSUME NEW t \in Tokens, RampStops(t) PROVE Clocks'
  BY <1>8 DEF RampStops, SetReason
<1>9. ASSUME NEW t \in Tokens, RecordContinues(t) PROVE Clocks'
  BY <1>9 DEF RecordContinues, GoesOn, More, Release, IsBatch
<1>10. ASSUME NEW t \in Tokens, RecordEnds(t) PROVE Clocks'
  BY <1>10 DEF RecordEnds, Release, EndTask, LeavesBulk, IsBatch
<1>11. ASSUME NEW t \in Tokens, BulkStopped(t) PROVE Clocks'
  BY <1>11 DEF BulkStopped, EndTask, LeavesBulk, IsBatch
<1>12. ASSUME NEW t \in Tokens, BulkProceeds(t) PROVE Clocks'
  BY <1>12 DEF BulkProceeds, MayProceed
<1>13. ASSUME NEW t \in Tokens, BulkLaunches(t) PROVE Clocks'
  BY <1>13 DEF BulkLaunches, Advances, Account
<1>14. ASSUME NEW t \in Tokens, BulkSkips(t) PROVE Clocks'
  BY <1>14 DEF BulkSkips, Advances
<1>15. ASSUME NEW t \in Tokens, SkipRecorded(t) PROVE Clocks'
  BY <1>15 DEF SkipRecorded, More
<1>16. ASSUME NEW t \in Tokens, SkipEndsBatch(t) PROVE Clocks'
  BY <1>16 DEF SkipEndsBatch, EndTask, LeavesBulk, IsBatch
<1>17. CASE Watchdog
  BY <1>17 DEF Watchdog, SetReason
<1>18. CASE AbortEnter
  BY <1>18 DEF AbortEnter
<1>19. CASE AbortReadsBulk
  BY <1>19 DEF AbortReadsBulk
<1>20. CASE AbortFlags
  BY <1>20 DEF AbortFlags
<1>21. CASE AbortRequests
  BY <1>21 DEF AbortRequests, SetReason
<1>22. CASE Tick
  BY <1>22 DEF Tick, Expired
<1>23. CASE Restart
  BY <1>23 DEF Restart
<1>24. CASE UNCHANGED vars
  BY <1>24 DEF vars, Expired
<1>25. QED
  BY <1>1, <1>2, <1>3, <1>4, <1>5, <1>6, <1>7, <1>8, <1>9, <1>10, <1>11, <1>12, <1>13, <1>14, <1>15, <1>16, <1>17, <1>18, <1>19, <1>20, <1>21, <1>22, <1>23, <1>24 DEF Next, TaskStep

\* Every step keeps the credit above what may still be launched.
LEMMA CreditStep ==
  ASSUME TypeOK, Pointers, Credit, [Next]_vars
  PROVE  Credit'
<1> USE NoTaskAssumption, MaxBatchAssumption, TtlAssumption, CooldownAssumption, NoPlanAssumption DEF Pointers, Credit, Running, Batching, Expired
<1>a. /\ authz \in [Tokens -> Plans \cup {NoPlan}] /\ age \in [Tokens -> 0 .. Ttl + 1]
      /\ active \in Tokens \cup {NoTask} /\ bulk \in Tokens \cup {NoTask}
      /\ pc \in [Tokens -> {"none"} \cup Running \cup Batching]
      /\ rest \in [Tokens -> 0 .. MaxBatch] /\ reason \in [Tokens -> BOOLEAN]
      /\ left \in [Tokens -> Int]
  BY DEF TypeOK
<1>b. \A p \in Plans : p.runs \in 1 .. MaxBatch /\ (p.mode # "batch" => p.runs = 1)
  BY PlanRuns
<1>1. ASSUME NEW t \in Tokens, Preview(t) PROVE Credit'
  BY <1>a, <1>b, <1>1 DEF Preview, Expired
<1>2. ASSUME NEW t \in Tokens, StartExpired(t) PROVE Credit'
  BY <1>a, <1>b, <1>2 DEF StartExpired, Spend, Expired
<1>3. ASSUME NEW t \in Tokens, Start(t) PROVE Credit'
  BY <1>a, <1>b, <1>3 DEF Start, Accepted, StartRun, Spend, Account, Idle, Expired
<1>4. ASSUME NEW t \in Tokens, StartReplay(t) PROVE Credit'
  BY <1>a, <1>b, <1>4 DEF StartReplay, Accepted, StartRun, Spend, Account, Idle, Expired
<1>5. ASSUME NEW t \in Tokens, StartBulk(t) PROVE Credit'
  BY <1>a, <1>b, <1>5 DEF StartBulk, Accepted, Spend, Idle, Expired
<1>6. ASSUME NEW t \in Tokens, Begin(t) PROVE Credit'
  BY <1>a, <1>b, <1>6 DEF Begin
<1>7. ASSUME NEW t \in Tokens, RampCompletes(t) PROVE Credit'
  BY <1>a, <1>b, <1>7 DEF RampCompletes
<1>8. ASSUME NEW t \in Tokens, RampStops(t) PROVE Credit'
  BY <1>a, <1>b, <1>8 DEF RampStops, SetReason
<1>9. ASSUME NEW t \in Tokens, RecordContinues(t) PROVE Credit'
  BY <1>a, <1>b, <1>9 DEF RecordContinues, GoesOn, More, Release, IsBatch
<1>10. ASSUME NEW t \in Tokens, RecordEnds(t) PROVE Credit'
  BY <1>a, <1>b, <1>10 DEF RecordEnds, Release, EndTask, LeavesBulk, IsBatch
<1>11. ASSUME NEW t \in Tokens, BulkStopped(t) PROVE Credit'
  BY <1>a, <1>b, <1>11 DEF BulkStopped, EndTask, LeavesBulk, IsBatch
<1>12. ASSUME NEW t \in Tokens, BulkProceeds(t) PROVE Credit'
  BY <1>a, <1>b, <1>12 DEF BulkProceeds, MayProceed
<1>13. ASSUME NEW t \in Tokens, BulkLaunches(t) PROVE Credit'
  BY <1>a, <1>b, <1>13 DEF BulkLaunches, Advances, Account
<1>14. ASSUME NEW t \in Tokens, BulkSkips(t) PROVE Credit'
  BY <1>a, <1>b, <1>14 DEF BulkSkips, Advances
<1>15. ASSUME NEW t \in Tokens, SkipRecorded(t) PROVE Credit'
  BY <1>a, <1>b, <1>15 DEF SkipRecorded, More
<1>16. ASSUME NEW t \in Tokens, SkipEndsBatch(t) PROVE Credit'
  BY <1>a, <1>b, <1>16 DEF SkipEndsBatch, EndTask, LeavesBulk, IsBatch
<1>17. CASE Watchdog
  BY <1>a, <1>b, <1>17 DEF Watchdog, SetReason
<1>18. CASE AbortEnter
  BY <1>a, <1>b, <1>18 DEF AbortEnter
<1>19. CASE AbortReadsBulk
  BY <1>a, <1>b, <1>19 DEF AbortReadsBulk
<1>20. CASE AbortFlags
  BY <1>a, <1>b, <1>20 DEF AbortFlags
<1>21. CASE AbortRequests
  BY <1>a, <1>b, <1>21 DEF AbortRequests, SetReason
<1>22. CASE Tick
  BY <1>a, <1>b, <1>22 DEF Tick, Expired
<1>23. CASE Restart
  BY <1>a, <1>b, <1>23 DEF Restart
<1>24. CASE UNCHANGED vars
  BY <1>24 DEF vars, Expired
<1>25. QED
  BY <1>1, <1>2, <1>3, <1>4, <1>5, <1>6, <1>7, <1>8, <1>9, <1>10, <1>11, <1>12, <1>13, <1>14, <1>15, <1>16, <1>17, <1>18, <1>19, <1>20, <1>21, <1>22, <1>23, <1>24 DEF Next, TaskStep

\* Every step keeps the marks of an answered abort.
LEMMA AbortsStep ==
  ASSUME TypeOK, Aborts, [Next]_vars
  PROVE  Aborts'
<1> USE NoTaskAssumption, MaxBatchAssumption, TtlAssumption, CooldownAssumption, NoPlanAssumption DEF TypeOK, Aborts
<1>1. ASSUME NEW t \in Tokens, Preview(t) PROVE Aborts'
  BY <1>1 DEF Preview, Expired
<1>2. ASSUME NEW t \in Tokens, StartExpired(t) PROVE Aborts'
  BY <1>2 DEF StartExpired, Spend, Expired
<1>3. ASSUME NEW t \in Tokens, Start(t) PROVE Aborts'
  BY <1>3 DEF Start, Accepted, StartRun, Spend, Account, Idle, Expired
<1>4. ASSUME NEW t \in Tokens, StartReplay(t) PROVE Aborts'
  BY <1>4 DEF StartReplay, Accepted, StartRun, Spend, Account, Idle, Expired
<1>5. ASSUME NEW t \in Tokens, StartBulk(t) PROVE Aborts'
  BY <1>5 DEF StartBulk, Accepted, Spend, Idle, Expired
<1>6. ASSUME NEW t \in Tokens, Begin(t) PROVE Aborts'
  BY <1>6 DEF Begin
<1>7. ASSUME NEW t \in Tokens, RampCompletes(t) PROVE Aborts'
  BY <1>7 DEF RampCompletes
<1>8. ASSUME NEW t \in Tokens, RampStops(t) PROVE Aborts'
  BY <1>8 DEF RampStops, SetReason
<1>9. ASSUME NEW t \in Tokens, RecordContinues(t) PROVE Aborts'
  BY <1>9 DEF RecordContinues, GoesOn, More, Release, IsBatch
<1>10. ASSUME NEW t \in Tokens, RecordEnds(t) PROVE Aborts'
  BY <1>10 DEF RecordEnds, Release, EndTask, LeavesBulk, IsBatch
<1>11. ASSUME NEW t \in Tokens, BulkStopped(t) PROVE Aborts'
  BY <1>11 DEF BulkStopped, EndTask, LeavesBulk, IsBatch
<1>12. ASSUME NEW t \in Tokens, BulkProceeds(t) PROVE Aborts'
  BY <1>12 DEF BulkProceeds, MayProceed
<1>13. ASSUME NEW t \in Tokens, BulkLaunches(t) PROVE Aborts'
  BY <1>13 DEF BulkLaunches, Advances, Account
<1>14. ASSUME NEW t \in Tokens, BulkSkips(t) PROVE Aborts'
  BY <1>14 DEF BulkSkips, Advances
<1>15. ASSUME NEW t \in Tokens, SkipRecorded(t) PROVE Aborts'
  BY <1>15 DEF SkipRecorded, More
<1>16. ASSUME NEW t \in Tokens, SkipEndsBatch(t) PROVE Aborts'
  BY <1>16 DEF SkipEndsBatch, EndTask, LeavesBulk, IsBatch
<1>17. CASE Watchdog
  BY <1>17 DEF Watchdog, SetReason
<1>18. CASE AbortEnter
  BY <1>18 DEF AbortEnter
<1>19. CASE AbortReadsBulk
  BY <1>19 DEF AbortReadsBulk
<1>20. CASE AbortFlags
  BY <1>20 DEF AbortFlags
<1>21. CASE AbortRequests
  BY <1>21 DEF AbortRequests, SetReason
<1>22. CASE Tick
  BY <1>22 DEF Tick, Expired
<1>23. CASE Restart
  BY <1>23 DEF Restart
<1>24. CASE UNCHANGED vars
  BY <1>24 DEF vars, Expired
<1>25. QED
  BY <1>1, <1>2, <1>3, <1>4, <1>5, <1>6, <1>7, <1>8, <1>9, <1>10, <1>11, <1>12, <1>13, <1>14, <1>15, <1>16, <1>17, <1>18, <1>19, <1>20, <1>21, <1>22, <1>23, <1>24 DEF Next, TaskStep

-----------------------------------------------------------------------------
(* The invariant holds *)

\* A fresh process satisfies the inductive invariant.
LEMMA InitIInv == Init => IInv
<1> USE NoTaskAssumption, MaxBatchAssumption, TtlAssumption,
        CooldownAssumption, NoPlanAssumption DEF Init
<1>1. Init => TypeOK
  BY DEF TypeOK, Running, Batching
<1>2. Init => Pointers
  BY DEF Pointers, Running, Batching
<1>3. Init => Clocks /\ Credit /\ Aborts
  BY DEF Clocks, Credit, Aborts, Running
<1>4. QED
  BY <1>1, <1>2, <1>3 DEF IInv

\* Every step preserves it.
LEMMA NextIInv == IInv /\ [Next]_vars => IInv'
<1> SUFFICES ASSUME IInv, [Next]_vars
             PROVE  IInv'
  OBVIOUS
<1>1. TypeOK' /\ Pointers' /\ Clocks' /\ Credit' /\ Aborts'
  BY TypeStep, PointersStep, ClocksStep, CreditStep, AbortsStep DEF IInv
<1>2. QED
  BY <1>1 DEF IInv

\* So it holds in every reachable state.
THEOREM Invariance == Spec => []IInv
<1>1. QED
  BY InitIInv, NextIInv, PTL DEF Spec

-----------------------------------------------------------------------------
(* What follows from it *)

\* The state of the manager is always well typed.
THEOREM TypeCorrect == Spec => []TypeOK
<1>1. IInv => TypeOK
  BY DEF IInv
<1>2. QED
  BY Invariance, <1>1, PTL

\* No run is launched that a live, unspent token does not allow.
THEOREM Authorized == Spec => []AuthorizedRunsOnly
<1>1. IInv => AuthorizedRunsOnly
  BY MaxBatchAssumption DEF IInv, Credit, AuthorizedRunsOnly
<1>2. QED
  BY Invariance, <1>1, PTL

\* The pointers and the tasks agree, so nothing blocks later starts and every
\* run can be aborted.
THEOREM PointersAgree == Spec => []PointersMatchTasks
<1>1. IInv => PointersMatchTasks
  BY DEF IInv, Pointers, PointersMatchTasks
<1>2. QED
  BY Invariance, <1>1, PTL

\* Two runs never load a mesh at the same time.
THEOREM MutualExclusion == Spec => []OneRunOnTheMesh
<1>1. IInv => OneRunOnTheMesh
  BY DEF IInv, Pointers, OneRunOnTheMesh
<1>2. QED
  BY Invariance, <1>1, PTL

\* Runs are authorized and alone, and the pointers know them: what the run
\* lifecycle checks of every state, for all values of the constants.
THEOREM Soundness == Spec => []SoundRuns
<1>1. QED
  BY TypeCorrect, Authorized, PointersAgree, MutualExclusion, PTL DEF SoundRuns

\* At most one run of a batch follows the answer to its abort.
THEOREM AbortBounded == Spec => []AbortStopsTheRemainder
<1>1. IInv => AbortStopsTheRemainder
  BY DEF IInv, Aborts, AbortStopsTheRemainder
<1>2. QED
  BY Invariance, <1>1, PTL

-----------------------------------------------------------------------------
(* The action property *)

\* Only a start and a batch's launch give the mesh to a run, and both find the
\* cool-down over, which the clocks turn into a whole rest.
LEMMA RestStep ==
  ASSUME IInv, [Next]_vars
  PROVE  active = NoTask /\ active' # NoTask => quiet = Cooldown
<1> SUFFICES ASSUME active = NoTask, active' # NoTask
             PROVE  quiet = Cooldown
  OBVIOUS
<1>1. cooldown = 0 => quiet = Cooldown
  BY CooldownAssumption DEF IInv, TypeOK, Clocks
<1>2. CASE cooldown = 0
  BY <1>1, <1>2
<1>3. CASE cooldown # 0
  <2>1. ~Idle /\ \A t \in Tokens : pc[t] # "checked"
    BY <1>3 DEF IInv, Clocks, Idle
  <2>2. ASSUME NEW t \in Tokens, Start(t) \/ StartReplay(t) \/ StartBulk(t)
        PROVE  FALSE
    BY <2>1, <2>2 DEF Start, StartReplay, StartBulk, StartRun
  <2>3. ASSUME NEW t \in Tokens, BulkLaunches(t) PROVE FALSE
    BY <2>1, <2>3 DEF BulkLaunches, Advances
  <2>4. ASSUME NEW t \in Tokens,
               Preview(t) \/ StartExpired(t) \/ TaskStep(t)
        PROVE  FALSE
    BY <2>3, <2>4 DEF Preview, StartExpired, TaskStep, Begin, RampCompletes,
       RampStops, RecordContinues, GoesOn, More, RecordEnds, Release, BulkStopped,
       BulkProceeds, MayProceed, BulkSkips, Advances, SkipRecorded, SkipEndsBatch
  <2>5. CASE Watchdog \/ AbortEnter \/ AbortReadsBulk \/ AbortFlags
             \/ AbortRequests \/ Tick \/ Restart
    BY <2>5 DEF Watchdog, AbortEnter, AbortReadsBulk, AbortFlags,
       AbortRequests, Tick, Restart
  <2>6. CASE UNCHANGED vars
    BY <2>6 DEF vars
  <2>7. QED
    BY <2>2, <2>4, <2>5, <2>6 DEF Next
<1>4. QED
  BY <1>2, <1>3

\* The mesh rests for a whole cool-down between two runs.
THEOREM Rested == Spec => RestBetweenRuns
<1>1. IInv /\ [Next]_vars
      => [active = NoTask /\ active' # NoTask => quiet = Cooldown]_vars
  BY RestStep
<1>2. QED
  BY Invariance, <1>1, PTL DEF Spec, RestBetweenRuns

-----------------------------------------------------------------------------
(* The refinement of MeshLease *)

OnMesh == {t \in Tokens : pc[t] \in Running}

\* A step that leaves the tasks on the mesh, the rest and the credit alone, or
\* only takes credit away from one token, is a step of the lease.
LEMMA ForfeitOrStutter ==
  ASSUME IInv, NEW t \in Tokens, NEW n \in 0 .. MaxBatch,
         n <= left[t], left' = [left EXCEPT ![t] = n],
         OnMesh' = OnMesh, quiet' = quiet
  PROVE  [Lease!Next]_Lease!vars
<1>1. left \in [Tokens -> Int]
  BY DEF IInv, TypeOK
<1>2. CASE n = left[t]
  <2>1. left' = left
    BY <1>1, <1>2
  <2>2. QED
    BY <2>1 DEF Lease!vars, OnMesh
<1>3. CASE n < left[t]
  <2>1. Lease!Forfeit(t)
    BY <1>3 DEF Lease!Forfeit, OnMesh
  <2>2. QED
    BY <2>1 DEF Lease!Next
<1>4. QED
  BY <1>1, <1>2, <1>3, MaxBatchAssumption

\* A launch is an acquisition: the mesh is free, has rested, and the token has
\* credit.
LEMMA LaunchAcquires ==
  ASSUME IInv, NEW t \in Tokens,
         active = NoTask, cooldown = 0, left[t] > 0, Account(t),
         \E state \in Running : pc' = [pc EXCEPT ![t] = state],
         quiet' = quiet
  PROVE  [Lease!Next]_Lease!vars
<1>1. OnMesh = {}
  BY NoTaskAssumption DEF IInv, Pointers, OnMesh
<1>2. OnMesh' = {t}
  BY <1>1 DEF OnMesh, IInv, TypeOK
<1>3. quiet = Cooldown
  BY CooldownAssumption DEF IInv, TypeOK, Clocks
<1>4. Lease!Acquire(t)
  BY <1>1, <1>2, <1>3 DEF Lease!Acquire, OnMesh, Account
<1>5. QED
  BY <1>4 DEF Lease!Next

\* The end of a run is a release.
LEMMA EndReleases ==
  ASSUME IInv, NEW t \in Tokens, pc[t] = "recording",
         \E state \in {"none", "wait"} : pc' = [pc EXCEPT ![t] = state],
         Release,
         left' = left \/ left' = [left EXCEPT ![t] = 0]
  PROVE  [Lease!Next]_Lease!vars
<1>1. t \in OnMesh
  BY DEF OnMesh, Running
<1>2. OnMesh' = OnMesh \ {t}
  BY DEF OnMesh, Running, IInv, TypeOK
<1>3. Lease!Release(t)
  BY <1>1, <1>2 DEF Lease!Release, OnMesh, Release
<1>4. QED
  BY <1>3 DEF Lease!Next

\* A step that changes none of the three is a stutter.
LEMMA Stutter ==
  ASSUME OnMesh' = OnMesh, left' = left, quiet' = quiet
  PROVE  [Lease!Next]_Lease!vars
BY DEF Lease!vars, OnMesh

\* A task that stays on the mesh, or stays off it, leaves OnMesh alone.
LEMMA SameMesh ==
  ASSUME TypeOK, NEW t \in Tokens, NEW state,
         pc' = [pc EXCEPT ![t] = state],
         pc[t] \in Running <=> state \in Running
  PROVE  OnMesh' = OnMesh
BY DEF OnMesh, TypeOK

\* Every step of the lifecycle is a step of the lease, or a stutter.
LEMMA NextRefines ==
  ASSUME IInv, [Next]_vars
  PROVE  [Lease!Next]_Lease!vars
<1> USE NoTaskAssumption, MaxBatchAssumption, CooldownAssumption
<1>t. TypeOK /\ left \in [Tokens -> Int]
  BY DEF IInv, TypeOK
<1>c. /\ \A t \in Tokens : left[t] \in 0 .. MaxBatch
      /\ 0 \in 0 .. MaxBatch /\ \A t \in Tokens : 0 <= left[t]
  BY DEF IInv, Credit
<1>1. ASSUME NEW t \in Tokens, Preview(t) PROVE Lease!Authorize(t)
  <2>1. PICK p \in Plans : left' = [left EXCEPT ![t] = p.runs]
    BY <1>1 DEF Preview
  <2>2. t \notin OnMesh /\ UNCHANGED <<OnMesh, quiet>>
    BY <1>1 DEF Preview, OnMesh, Running
  <2>3. QED
    BY <2>1, <2>2, PlanRuns DEF Lease!Authorize, OnMesh
<1>2. ASSUME NEW t \in Tokens, StartExpired(t)
      PROVE  [Lease!Next]_Lease!vars
  BY <1>2, Stutter DEF StartExpired, OnMesh
<1>3. ASSUME NEW t \in Tokens, Start(t) \/ StartReplay(t)
      PROVE  [Lease!Next]_Lease!vars
  <2>1. StartRun(t) /\ authz[t] # NoPlan /\ ~Expired(t)
    BY <1>3 DEF Start, StartReplay, Accepted
  <2>2. authz[t] \in Plans /\ left[t] = authz[t].runs
    BY <2>1, <1>t DEF TypeOK, IInv, Credit
  <2>3. left[t] > 0
    BY <2>2, PlanRuns
  <2>4. \E state \in Running : pc' = [pc EXCEPT ![t] = state]
    BY <2>1 DEF StartRun, Running
  <2>5. QED
    BY <2>1, <2>3, <2>4, LaunchAcquires DEF StartRun, Idle
<1>4. ASSUME NEW t \in Tokens, StartBulk(t)
      PROVE  [Lease!Next]_Lease!vars
  <2>1. pc[t] = "none"
    BY <1>4 DEF StartBulk, Accepted, IInv, Credit
  <2>2. OnMesh' = OnMesh
    BY <1>4, <1>t, <2>1, SameMesh DEF StartBulk, Running
  <2>3. QED
    BY <1>4, <2>2, Stutter DEF StartBulk
<1>5. ASSUME NEW t \in Tokens, Begin(t) \/ RampCompletes(t)
      PROVE  [Lease!Next]_Lease!vars
  <2>1. OnMesh' = OnMesh
    BY <1>5, <1>t, SameMesh DEF Begin, RampCompletes, Running
  <2>2. QED
    BY <1>5, <2>1, Stutter DEF Begin, RampCompletes
<1>6. ASSUME NEW t \in Tokens, RampStops(t)
      PROVE  [Lease!Next]_Lease!vars
  <2>1. OnMesh' = OnMesh
    BY <1>6, <1>t, SameMesh DEF RampStops, Running
  <2>2. left' = [left EXCEPT ![t] = 0] /\ quiet' = quiet
    BY <1>6 DEF RampStops, SetReason
  <2>3. QED
    BY <1>c, <2>1, <2>2, ForfeitOrStutter
<1>7. ASSUME NEW t \in Tokens, RecordContinues(t) \/ RecordEnds(t)
      PROVE  [Lease!Next]_Lease!vars
  BY <1>7, EndReleases DEF RecordContinues, GoesOn, More, RecordEnds, EndTask, LeavesBulk
<1>8. ASSUME NEW t \in Tokens, BulkStopped(t) \/ SkipEndsBatch(t)
      PROVE  [Lease!Next]_Lease!vars
  <2>1. OnMesh' = OnMesh
    BY <1>8, <1>t, SameMesh DEF BulkStopped, SkipEndsBatch, EndTask, LeavesBulk, Running
  <2>2. QED
    BY <1>8, <1>c, <2>1, ForfeitOrStutter DEF BulkStopped, SkipEndsBatch, EndTask, LeavesBulk
<1>9. ASSUME NEW t \in Tokens, BulkProceeds(t) \/ SkipRecorded(t)
      PROVE  [Lease!Next]_Lease!vars
  <2>1. OnMesh' = OnMesh
    BY <1>9, <1>t, SameMesh DEF BulkProceeds, MayProceed, SkipRecorded, More, Running
  <2>2. QED
    BY <1>9, <2>1, Stutter DEF BulkProceeds, MayProceed, SkipRecorded, More
<1>10. ASSUME NEW t \in Tokens, pc[t] = "checked"
       PROVE  left[t] > 0 /\ active = NoTask /\ cooldown = 0
  <2>1. ~reason[t] /\ rest[t] > 0 /\ left[t] >= rest[t]
    BY <1>10 DEF IInv, Credit, Running
  <2>2. active = NoTask
    BY <1>10, <1>t DEF IInv, Pointers, TypeOK, Running, Batching
  <2>3. QED
    BY <1>10, <1>t, <2>1, <2>2 DEF IInv, Clocks, TypeOK
<1>11. ASSUME NEW t \in Tokens, BulkLaunches(t)
       PROVE  [Lease!Next]_Lease!vars
  <2>1. \E state \in Running : pc' = [pc EXCEPT ![t] = state]
    BY <1>11 DEF BulkLaunches, Advances, Running
  <2>2. QED
    BY <1>10, <1>11, <2>1, LaunchAcquires DEF BulkLaunches, Advances
<1>12. ASSUME NEW t \in Tokens, BulkSkips(t)
       PROVE  [Lease!Next]_Lease!vars
  <2>1. OnMesh' = OnMesh
    BY <1>12, <1>t, SameMesh DEF BulkSkips, Advances, Running
  <2>2. left[t] - 1 \in 0 .. MaxBatch /\ left[t] - 1 <= left[t]
    BY <1>10, <1>12, <1>c DEF BulkSkips, Advances
  <2>3. QED
    BY <1>12, <1>t, <2>1, <2>2, ForfeitOrStutter DEF BulkSkips, Advances
<1>13. CASE Watchdog \/ AbortRequests
  <2>1. OnMesh' = OnMesh /\ quiet' = quiet
    BY <1>13 DEF Watchdog, AbortRequests, OnMesh
  <2>2. CASE left' = left
    BY <2>1, <2>2, Stutter
  <2>3. CASE active # NoTask /\ left' = [left EXCEPT ![active] = 0]
    <3>1. active \in Tokens
      BY <1>t, <2>3 DEF TypeOK
    <3>2. QED
      BY <1>c, <2>1, <2>3, <3>1, ForfeitOrStutter
  <2>4. QED
    BY <1>13, <2>2, <2>3 DEF Watchdog, AbortRequests, SetReason
<1>14. CASE AbortEnter \/ AbortReadsBulk \/ AbortFlags
  BY <1>14, Stutter DEF AbortEnter, AbortReadsBulk, AbortFlags, OnMesh
<1>15. CASE Tick
  <2> DEFINE lapsed == {t \in Tokens : pc[t] = "none" /\ age'[t] > Ttl}
  <2>1. left' = [t \in Tokens |-> IF t \in lapsed THEN 0 ELSE left[t]]
    BY <1>15 DEF Tick
  <2>2. OnMesh' = OnMesh
    BY <1>15 DEF Tick, OnMesh
  <2>3. Lease!Tick
    BY <1>15, <2>1, <2>2 DEF Tick, Lease!Tick, OnMesh
  <2>4. QED
    BY <2>3 DEF Lease!Next
<1>16. CASE Restart
  <2>1. OnMesh' = {}
    BY <1>16 DEF Restart, OnMesh, Running
  <2>2. Lease!Forget
    BY <1>16, <2>1 DEF Restart, Lease!Forget, OnMesh
  <2>3. QED
    BY <2>2 DEF Lease!Next
<1>17. CASE UNCHANGED vars
  BY <1>17, Stutter DEF vars, OnMesh
<1>18. QED
  BY <1>1, <1>2, <1>3, <1>4, <1>5, <1>6, <1>7, <1>8, <1>9, <1>11, <1>12,
     <1>13, <1>14, <1>15, <1>16, <1>17 DEF Next, TaskStep, Lease!Next

\* The benchmark is a lease on the mesh: one run at a time, paid from what a
\* user confirmed, with a whole cool-down after each.
THEOREM Refinement == Spec => ImplementsLease
<1>1. Init => Lease!Init
  BY DEF Init, Lease!Init, Running
<1>2. IInv /\ [Next]_vars => [Lease!Next]_Lease!vars
  BY NextRefines
<1>3. QED
  BY <1>1, <1>2, Invariance, PTL DEF Spec, ImplementsLease, Lease!Spec

=============================================================================
