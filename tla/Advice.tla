------------------------------- MODULE Advice -------------------------------
(***************************************************************************)
(* What three detectors advise on commands as they are recorded, on meshes *)
(* that were calibrated before the window began.                           *)
(***************************************************************************)
EXTENDS Groupcast, Pacing

CONSTANTS
    Routers, HomeOf, Reports, UnicastCost, GroupcastCost, ReportCost, Calibrated, MaxMoves, MaxRecords,
    CANDIDATE_BINS, MAX_CANDIDATE_SUBJECTS, MAX_MOVES_PER_PROPOSAL, MAX_DESTINATIONS_TRIED,
    Measured,   \* limits that the meshes may have: sequences of [on, mode, knee]
    MaxHeard    \* bound of the model

Advisor == INSTANCE Rebalance

vars == <<now, commands, runs>>

\* A finished run for each limit, well before the window.
Calibration(limit) ==
    [on |-> limit.on, mode |-> limit.mode, knee |-> limit.knee, achieved |-> limit.knee,
     started |-> -4 * SECOND, finished |-> -2 * SECOND]

Init ==
    /\ now = 0 /\ commands = {}
    /\ \E limits \in Measured : runs = [i \in 1..Len(limits) |-> Calibration(limits[i])]

Next ==
    \/ Cardinality(commands) < MaxHeard /\ \E s \in Streams : Command(s)
    \/ Later

Spec == Init /\ [][Next]_vars

TypeOK ==
    /\ now \in 0..MaxTime
    /\ \A e \in commands : e.at \in 0..now /\ e.stream \in Streams

=============================================================================
