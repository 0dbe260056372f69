------------------------------ MODULE Rebalance ------------------------------
(***************************************************************************)
(* The rebalancing advisor (recommend/rebalance.py): for a mesh whose      *)
(* commands peak above its limits, the first few of its busiest subjects   *)
(* that another mesh can take.  Staged(ms) is Scenario with the moves ms,  *)
(* by which the advisor, and the score of moves staged by hand, judge.     *)
(***************************************************************************)
EXTENDS BurstEnvelope

CONSTANTS
    Devices, Routers, Groups, HomeOf, MembersOf, Reports, UnicastCost, GroupcastCost, ReportCost,
    Calibrated, MaxMoves, MaxRecords,     \* as in Scenario
    CANDIDATE_BINS, MAX_CANDIDATE_SUBJECTS, MAX_MOVES_PER_PROPOSAL, MAX_DESTINATIONS_TRIED

Staged(ms) == INSTANCE Scenario WITH moves <- ms

Acceptable == {"ok", "near_sustained", "no_traffic"}
PressuredVerdicts == {"above_sustained", "above_ceiling"}

VerdictOf(ms, b) == Staged(ms)!Verdict(b)
PressuredMeshes == {b \in Instances : VerdictOf(<< >>, b) \in PressuredVerdicts}

\* _candidate_subjects: by their commands in and half a second around the
\* busiest seconds, once for each of them; equals in an order
\* of the database's.
BusiestBins(b) ==
    LET events == CommandsOn(b)
        before(c, d) == InBin(events, c) > InBin(events, d)
                          \/ (InBin(events, c) = InBin(events, d) /\ c < d)
    IN {c \in Bins(b, events) : Cardinality({d \in Bins(b, events) : before(d, c)}) < CANDIDATE_BINS}
Load(b, x) ==
    MapThenSumSet(
        LAMBDA c : Cardinality({e \in CommandsOn(b) :
                       /\ e.stream.to = x
                       /\ 2 * e.at >= (2 * c - 1) * SECOND /\ 2 * e.at < (2 * c + 3) * SECOND}),
        BusiestBins(b))
Candidates(b) ==
    LET loaded == {x \in Devices \cup Groups : Load(b, x) > 0}
        load == [x \in loaded |-> Load(b, x)]
    IN CHOOSE q \in SetToSeqs(loaded) : \A i \in 1..Len(q) - 1 : load[q[i]] >= load[q[i + 1]]

\* _destinations: calm meshes with a limit, the least used first.
Destinations(source) ==
    LET calm == {b \in Instances \ {source} :
                   VerdictOf(<< >>, b) \in Acceptable /\ SustainedRun(b) # None}
        limit == [b \in calm |-> runs[SustainedRun(b)].knee]
        peak == [b \in calm |-> Staged(<< >>)!PeakOf(b)]
        usedLess(b, c) == peak[b] * limit[c] <= peak[c] * limit[b]
    IN CHOOSE q \in SetToSeqs(calm) : \A i \in 1..Len(q) - 1 : usedLess(q[i], q[i + 1])

\* The moves of the first n candidates; a mesh's own subjects, all to one mesh,
\* are never at odds, so that pricing them does not fail.
MovesTo(dest, candidates, n) ==
    [i \in 1..n |-> [subject |-> candidates[i], dest |-> dest, resolution |-> "unicasts"]]

V_ClearsSource(ms, source, dest) == VerdictOf(ms, source) \in Acceptable
Clears(ms, source, dest) ==
    VerdictOf(ms, source) \in Acceptable /\ VerdictOf(ms, dest) \in Acceptable

\* _proposal: the fewest moves to the first destination that do; none if none do.
Proposal(source) ==
    LET candidates == Candidates(source)
        destinations == Destinations(source)
        most == Min({MAX_CANDIDATE_SUBJECTS, MAX_MOVES_PER_PROPOSAL, Len(candidates)})
        clears(i, n) ==
            Clears(MovesTo(destinations[i], candidates, n), source, destinations[i])
        tried == 1..Min({MAX_DESTINATIONS_TRIED, Len(destinations)})
        enough == [i \in tried |-> {n \in 1..most : clears(i, n)}]
        found == {i \in tried : enough[i] # {}}
    IN IF found = {} THEN << >>
       ELSE MovesTo(destinations[Min(found)], candidates, Min(enough[Min(found)]))

\* score_report: all that were pressured are clear, and no other is pressured.
Accepted(ms) ==
    \A b \in Instances :
      IF VerdictOf(<< >>, b) \in PressuredVerdicts THEN VerdictOf(ms, b) \in Acceptable
      ELSE VerdictOf(ms, b) \notin PressuredVerdicts

-----------------------------------------------------------------------------

\* The groups that moves take members from.
SplitBy(ms) == Staged(ms)!Splits

\* The commands a mesh would carry: those to whom it then houses, and for each
\* command to a group that stays, one to each member that left for this mesh.
Carried(ms, b) ==
    {[at |-> e.at, of |-> e, to |-> e.stream.to] : e \in {e \in commands : Staged(ms)!Destination(e.stream.to) = b}}
      \cup {[at |-> m[1].at, of |-> m[1], to |-> m[2]] :
              m \in {m \in commands \X Devices :
                       /\ m[1].stream.to \in SplitBy(ms)
                       /\ m[2] \in Staged(ms)!Losers(m[1].stream.to)
                       /\ Staged(ms)!PlanOf(m[2]).dest = b}}

\* A second with more than the limit, of those the advisor looks at, around the
\* busiest bins there then are; or one with more than twice the limit, anywhere.
Overloaded(ms, b) ==
    /\ SustainedRun(b) # None
    /\ LET limit == runs[SustainedRun(b)].knee
           carried == Carried(ms, b)
           looked == Staged(ms)!BusiestAfter(b)
           second(e) == {f \in carried : e.at <= f.at /\ f.at <= e.at + SECOND}
       IN \E s \in {second(e) : e \in carried} :
            \/ Cardinality(s) > 2 * limit
            \/ Cardinality(s) > limit /\ \E f \in s : BinOf(f) \in looked

\* Of the moves ms proposed for source, where pressured are the meshes under pressure.
Relieves(ms, source, pressured) ==
    ms # << >> =>
        /\ ~Overloaded(ms, source)
        /\ SplitBy(ms) = {} => \A b \in Instances : Overloaded(ms, b) => b \in pressured
        /\ pressured = {source} => Accepted(ms)

\* A proposal relieves the mesh it is for and overloads none ("a burst that
\* merely relocates whole is not a finding", rebalance.py:12-18): there is then no
\* second over the limit around the busiest bins, where alone the advisor looks,
\* and nowhere a second over twice the limit.  Of its destination this holds when
\* it splits no group: the commands that a split adds there are priced, but not
\* in its peak.  And the score agrees ("can never disagree", rebalance.py:5-6):
\* when it is for the only mesh under pressure it is accepted when staged by
\* hand; of two, the score wants both to be clear.
ProposalsRelieve ==
    LET pressured == PressuredMeshes
    IN \A source \in pressured : Relieves(Proposal(source), source, pressured)

=============================================================================
