------------------------------ MODULE Scenario ------------------------------
(***************************************************************************)
(* What-if moves of devices and groups between meshes, priced on recorded  *)
(* traffic (capacity/scenario.py): the airtime each mesh would spend, and  *)
(* the commands it would carry.  Each recorded command is a chain of one   *)
(* set; costs are in units; the window is long enough for all records.     *)
(***************************************************************************)
EXTENDS BurstEnvelope

CONSTANTS
    Devices, Routers, Groups,
    HomeOf,         \* the mesh of each device and group, before
    MembersOf,      \* the devices of each group
    Reports,        \* reports of each device in the window
    UnicastCost, GroupcastCost, ReportCost,  \* per mesh; a groupcast's per router
    Calibrated,     \* meshes that have runs
    MaxMoves, MaxRecords   \* bounds of the model; runs count twice

VARIABLES moves     \* the scenario: [subject, dest, resolution]

vars == <<now, commands, runs, moves>>

Init == RecordInit /\ moves = << >>

-----------------------------------------------------------------------------
(* The moves *)

Travellers(m) == IF m.subject \in Groups THEN MembersOf[m.subject] ELSE {m.subject}

\* _resolve: the first move that mentions a device plans it.
MovesOf(d) == {i \in 1..Len(moves) : d \in Travellers(moves[i])}
Moved == {d \in Devices : MovesOf(d) # {}}
PlanOf(d) == moves[Min(MovesOf(d))]
MovedGroups == {moves[i].subject : i \in 1..Len(moves)} \cap Groups

\* A scenario whose moves disagree about a device is refused, and one that
\* leaves a subject where it is (_validate_moves, _resolve).  The window is
\* recorded: a price is of the records there are, whenever a move is staged.
Stage(subject, dest, resolution) ==
    LET m == [subject |-> subject, dest |-> dest, resolution |-> resolution]
    IN /\ now = MaxTime
       /\ Cardinality(commands) + 2 * Len(runs) + Len(moves) < MaxRecords
       /\ Len(moves) < MaxMoves
       /\ HomeOf[subject] # dest
       /\ \A d \in Travellers(m) : d \in Moved => PlanOf(d).dest = dest
       /\ moves' = Append(moves, m)
       /\ UNCHANGED recordVars

\* _find_splits: groups that stay and lose members; the first mover by name
\* says where to and how.
Losers(g) == MembersOf[g] \cap Moved
Splits == {g \in Groups \ MovedGroups : Losers(g) # {}}
FirstLoser(g) == CHOOSE d \in Losers(g) : TRUE

Record ==
    /\ \/ \E s \in Streams : Command(s)
       \/ \E on \in Calibrated, mode \in {"spread", "single"} : Calibrate(on, mode)
       \/ Later
    /\ Cardinality(commands') + 2 * Len(runs') <= MaxRecords
    /\ moves = << >> /\ UNCHANGED moves

Next ==
    \/ Record
    \/ \E subject \in Devices \cup Groups, dest \in Instances,
          resolution \in {"unicasts", "new_group"} : Stage(subject, dest, resolution)

Spec == Init /\ [][Next]_vars

-----------------------------------------------------------------------------
(* The airtime *)

SumOver(f(_), S) == MapThenSumSet(f, S)

RoutersBefore(b) == Cardinality({d \in Routers : HomeOf[d] = b})
RoutersAfter(b) ==
    RoutersBefore(b)
      - Cardinality({d \in Routers \cap Moved : HomeOf[d] = b})
      + Cardinality({d \in Routers \cap Moved : PlanOf(d).dest = b})

\* _chain_cost_us on a mesh with that many routers, echoes apart.
CommandCost(target, b, routers) ==
    IF target \in Groups THEN GroupcastCost[b] * (1 + routers) ELSE UnicastCost[b]

ChainsOf(target) == {e \in commands : e.stream.to = target}
Echoes(target) == Cardinality({e \in ChainsOf(target) : e.stream.echo})
ChainsCost(target, b, routers) ==
    Cardinality(ChainsOf(target)) * CommandCost(target, b, routers)
      + Echoes(target) * ReportCost

LivingOn(b) == {x \in Devices \cup Groups : HomeOf[x] = b}

SteadyBefore(b) ==
    SumOver(LAMBDA x : ChainsCost(x, b, RoutersBefore(b)), LivingOn(b))
      + SumOver(LAMBDA d : Reports[d] * ReportCost, LivingOn(b) \cap Devices)

\* What a device takes with it, and a group, once for each time it is staged.
DeviceDelta(d, b) ==
    LET from == HomeOf[d]
        to == PlanOf(d).dest
    IN CASE b = from -> -(ChainsCost(d, from, RoutersBefore(from)) + Reports[d] * ReportCost)
         [] b = to -> ChainsCost(d, to, RoutersAfter(to)) + Reports[d] * ReportCost
         [] OTHER -> 0

GroupDelta(i, b) ==
    LET g == moves[i].subject
        to == moves[i].dest
    IN CASE b = HomeOf[g] -> -ChainsCost(g, b, RoutersBefore(b))
         [] b = to -> ChainsCost(g, b, RoutersAfter(b))
         [] OTHER -> 0

\* A group that stays without some members: its commands go on, and the movers
\* get theirs as unicasts or as a group of their own.
SplitCost(g, b, resolution) ==
    Cardinality(ChainsOf(g)) *
      (IF resolution = "unicasts" THEN Cardinality(Losers(g)) * UnicastCost[b]
       ELSE GroupcastCost[b] * (1 + RoutersAfter(b)))

\* The echoes of the group, by the share of its members that move.
SplitEchoes(g) ==
    (Echoes(g) * Cardinality(Losers(g)) * ReportCost) \div Cardinality(MembersOf[g])

SplitDelta(g, b) ==
    LET to == PlanOf(FirstLoser(g)).dest
    IN CASE b = HomeOf[g] -> -SplitEchoes(g)
         [] b = to -> SplitCost(g, b, PlanOf(FirstLoser(g)).resolution) + SplitEchoes(g)
         [] OTHER -> 0

\* The groupcasts that stay, by the ratio of the censuses.
V_EveryGroup(b) == SumOver(LAMBDA g : ChainsCost(g, b, RoutersBefore(b)), LivingOn(b) \cap Groups)
Stayers(b) ==
    SumOver(LAMBDA g : ChainsCost(g, b, RoutersBefore(b)), (LivingOn(b) \cap Groups) \ MovedGroups)
SecondOrder(b) ==
    (Stayers(b) * (RoutersAfter(b) - RoutersBefore(b))) \div (1 + RoutersBefore(b))

SteadyAfter(b) ==
    SteadyBefore(b)
      + SumOver(LAMBDA d : DeviceDelta(d, b), Moved)
      + SumOver(LAMBDA i : GroupDelta(i, b), {i \in 1..Len(moves) : moves[i].subject \in Groups})
      + SumOver(LAMBDA g : SplitDelta(g, b), Splits)
      + SecondOrder(b)

-----------------------------------------------------------------------------
(* The commands *)

\* recomposition_topics
OutOf(b) == {x \in Moved \cup MovedGroups : HomeOf[x] = b}
Into(b, source) ==
    {x \in OutOf(source) : IF x \in Devices THEN PlanOf(x).dest = b
                           ELSE \E i \in 1..Len(moves) : moves[i].subject = x /\ moves[i].dest = b}

\* Of some commands those a mesh then has: its own without those that leave,
\* and those that arrive.
Recompose(b, events) ==
    LET out == OutOf(b)
        into == [source \in Instances |-> Into(b, source)]
    IN {e \in events : \/ e.stream.on = b /\ e.stream.to \notin out
                       \/ e.stream.to \in into[e.stream.on]}

\* recomposed_times: without those in a benchmark of their source; _t0_bins:
\* without the bins that a benchmark of their source touches.
Recomposed(b) == Recompose(b, {e \in commands : ~Excluded(e.stream.on, e.at, e.at)})
Binned(b) ==
    Recompose(b, {e \in commands :
        ~Excluded(e.stream.on, BinOf(e) * SECOND, (BinOf(e) + 1) * SECOND)})

\* The bins with the most commands.  Of equals the earlier in the Counter: the
\* mesh's own bins, empty ones too, by time, then those that only arrivals fill,
\* by the first move from their mesh.
BusiestAfter(b) ==
    LET own == Bins(b, CommandsOn(b))
        filled(events) ==
            {[bin |-> BinOf(e), held |-> {f \in events : BinOf(f) = BinOf(e)}] : e \in events}
        moved(c) == {i \in 1..Len(moves) :
                       \E e \in c.held : e.stream.on = HomeOf[moves[i].subject]}
        ranked(bins) ==
            {[bin |-> c.bin, size |-> Cardinality(c.held),
              entry |-> IF c.bin \in own THEN 0 ELSE Min(moved(c))] : c \in bins}
        before(c, d) == \/ c.size > d.size
                        \/ c.size = d.size /\ c.entry < d.entry
                        \/ c.size = d.size /\ c.entry = d.entry /\ c.bin < d.bin
        first(bins) == {c \in bins : Cardinality({d \in bins : before(d, c)}) < PEAK_REFINE_BINS}
    IN {c.bin : c \in first(ranked(filled(Binned(b))))}

\* _refined_peak and _judge
V_OwnBins(b) == PeakAround(Busiest(b, CommandsOn(b)), Recomposed(b), Binned(b))
PeakOf(b) == PeakAround(BusiestAfter(b), Recomposed(b), Binned(b))
Verdict(b) == Judge(b, PeakOf(b))

-----------------------------------------------------------------------------

TypeOK ==
    /\ now \in 0..MaxTime
    /\ Cardinality(commands) + 2 * Len(runs) + Len(moves) <= MaxRecords
    /\ \A b \in Instances : RoutersAfter(b) >= 0
    /\ \A b \in Instances : Verdict(b) \in
         {"no_traffic", "no_limits", "above_ceiling", "above_sustained", "near_sustained", "ok"}

\* Where a subject is after the moves.
Destination(x) ==
    CASE x \in Moved -> PlanOf(x).dest
      [] x \in MovedGroups ->
           moves[CHOOSE i \in 1..Len(moves) : moves[i].subject = x].dest
      [] OTHER -> HomeOf[x]

\* What the members that a group loses to a mesh then cost there.
MoversCost(g, b) ==
    LET arrived == {d \in Losers(g) : PlanOf(d).dest = b}
    IN IF arrived = {} THEN 0
       ELSE Cardinality(ChainsOf(g)) *
              (IF PlanOf(FirstLoser(g)).resolution = "unicasts"
               THEN Cardinality(arrived) * UnicastCost[b]
               ELSE GroupcastCost[b] * (1 + RoutersAfter(b)))

\* The sum of the terms is the price of the same traffic on the meshes as they
\* would be (scenario.py:7-15): each command where its subject then is and at
\* the census there.  But not when a group is staged twice, the movers of a
\* split group part, or a group's commands have echoes, which the second-order
\* term scales with the census.
AfterIsRepriced ==
    (/\ \A i, j \in 1..Len(moves) : i # j /\ moves[i].subject \in Groups =>
          moves[i].subject # moves[j].subject
     /\ \A g \in Splits : \A d \in Losers(g) :
          PlanOf(d).dest = PlanOf(FirstLoser(g)).dest
     /\ \A g \in Groups : Echoes(g) = 0)
    => \A b \in Instances :
         LET there == {x \in Devices \cup Groups : Destination(x) = b}
         IN SteadyAfter(b) =
              SumOver(LAMBDA x : ChainsCost(x, b, RoutersAfter(b)), there)
                + SumOver(LAMBDA d : Reports[d] * ReportCost, there \cap Devices)
                + SumOver(LAMBDA g : MoversCost(g, b), Splits)

\* The peak a mesh is judged by after the moves is no more than the worst second
\* of the commands it then has and at least half of it, whatever leaves and
\* arrives (scenario.py:381-415 looks around its busiest seconds only).
PeakAfterWithinHalf ==
    \A b \in Instances :
      /\ PeakOf(b) <= SlidingPeak(Recomposed(b))
      /\ SlidingPeak(Binned(b)) <= 2 * PeakOf(b)

\* Every command that counts is in the stream of the mesh its subject would be
\* on, and in no other (scenario.py:353-357), groups with their members.
CommandsFollowSubjects ==
    \A b \in Instances :
      Recomposed(b) = {e \in commands : /\ ~Excluded(e.stream.on, e.at, e.at)
                                        /\ Destination(e.stream.to) = b}

=============================================================================
