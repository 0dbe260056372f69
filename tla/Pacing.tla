------------------------------- MODULE Pacing -------------------------------
(***************************************************************************)
(* The pacing detector (recommend/pacing.py) on the recorded commands and  *)
(* runs of BurstEnvelope: bursts of all commanders that come near a mesh's *)
(* measured limit, or overrun what one device takes, and over how long     *)
(* they should be spread.  Latency curves and wording are left out.        *)
(***************************************************************************)
EXTENDS BurstEnvelope

\* _bursts: the commands of each run of them.
V_RunsOfOne(on) == UNION {RunsOf({e \in CommandsOn(on) : e.stream.by = who}) : who \in Commanders}
AllRuns(on) == RunsOf(CommandsOn(on))
PacedBursts(on) == {{e \in CommandsOn(on) : p[1] <= e.at /\ e.at <= p[2]} : p \in AllRuns(on)}

\* _knee_entry: the newest measured limits of the mesh, and of a device.
MeshLimit(on) == IF KneeRun(on, "spread") = None THEN None ELSE runs[KneeRun(on, "spread")].knee
DeviceLimit(on) == IF KneeRun(on, "single") = None THEN None ELSE runs[KneeRun(on, "single")].knee

\* From four fifths of the mesh's limit; above the device's.
UnderPressure(on, burst) ==
    MeshLimit(on) # None /\ 5 * SlidingPeak(burst) >= 4 * MeshLimit(on)
OverrunDevices(on, burst) ==
    {d \in {e.stream.to : e \in burst} :
       LET sent == {e \in burst : e.stream.to = d}
       IN /\ DeviceLimit(on) # None
          /\ Cardinality(sent) > 1 /\ SlidingPeak(sent) > DeviceLimit(on)}

Flagged(on) ==
    {b \in PacedBursts(on) : UnderPressure(on, b) \/ OverrunDevices(on, b) # {}}

\* _commander_label
SentBy(burst) ==
    LET most == {who \in Commanders :
                   10 * Cardinality({e \in burst : e.stream.by = who}) >= 6 * Cardinality(burst)}
    IN IF most = {} THEN "(multiple commanders)" ELSE CHOOSE who \in most : TRUE

\* _finding: one for each commander, sized on the burst with the highest peak;
\* over `stagger` it comes to half the limit, the mesh's if it has one.
Paced(on, who) ==
    LET mine == {b \in Flagged(on) : SentBy(b) = who}
        worst == CHOOSE b \in mine : \A c \in mine :
                   \/ SlidingPeak(b) > SlidingPeak(c)
                   \/ SlidingPeak(b) = SlidingPeak(c)
                        /\ Min({e.at : e \in b}) <= Min({e.at : e \in c})
        limit == IF MeshLimit(on) # None THEN MeshLimit(on) ELSE DeviceLimit(on)
    IN [bursts |-> mine, worst |-> worst, limit |-> limit,
        stagger |-> (2 * Cardinality(worst) * SECOND + limit - 1) \div limit]

PacingFindings(on) == {Paced(on, who) : who \in {SentBy(b) : b \in Flagged(on)}}

-----------------------------------------------------------------------------

\* No second that comes near a limit goes untold (pacing.py:3-8), whoever of
\* several commanders filled it: its commands are in a burst of a finding, if
\* they are enough for a burst at all.
PressureTold ==
    \A on \in Instances : \A e \in CommandsOn(on) :
      LET second == {f \in CommandsOn(on) : e.at <= f.at /\ f.at <= e.at + SECOND}
      IN /\ Cardinality(second) >= MIN_BURST_COMMANDS
         /\ \/ UnderPressure(on, second) \/ OverrunDevices(on, second) # {}
         => \E f \in PacingFindings(on) : \E b \in f.bursts : second \subseteq b

\* A burst that has no more commands than the one a finding is sized on stays
\* within half the limit when it is spread as the finding says ("Spreading each
\* burst over at least", pacing.py): evenly, no second of it has more than that
\* and the one command with which it begins.
SpreadBurstsFit ==
    \A on \in Instances : \A f \in PacingFindings(on) :
      \A b \in {b \in f.bursts : Cardinality(b) <= Cardinality(f.worst)} :
        LET n == Cardinality(b)
            inSecondFrom(i) == {j \in i..n - 1 : (j - i) * f.stagger <= n * SECOND}
        IN \A i \in 0..n - 1 : 2 * (Cardinality(inSecondFrom(i)) - 1) <= f.limit

=============================================================================
