--------------------------- MODULE BurstEnvelope ---------------------------
(***************************************************************************)
(* Bursts of recorded commands against measured limits                     *)
(* (capacity/envelope.py, capacity/headroom.py).  Commands and calibration *)
(* runs are recorded as time passes, in half seconds; the operators are    *)
(* what a summary computes from the records of a window that began at 0.   *)
(* Commands during a finished run are its own and do not count.            *)
(***************************************************************************)
EXTENDS Integers, Sequences, FiniteSets, SequencesExt

CONSTANTS
    None,
    Instances,
    Streams,        \* who commands whom: [by, on, to, echo], an instance and a target
    SECOND,         \* a second
    BURST_GAP, MIN_BURST_COMMANDS, COFIRE_PAD,
    PEAK_REFINE_BINS,
    Rates,          \* rates of calibration runs
    MaxTime       \* bound of the model

VARIABLES
    now,
    commands,   \* [at, stream]
    runs        \* calibrations, in the order of their rows

recordVars == <<now, commands, runs>>

RecordInit == now = 0 /\ commands = {} /\ runs = << >>

Command(s) ==
    /\ [at |-> now, stream |-> s] \notin commands
    /\ commands' = commands \cup {[at |-> now, stream |-> s]}
    /\ UNCHANGED <<now, runs>>

\* A completed run: a breach before the first clean step leaves no knee.
Calibrate(on, mode) ==
    /\ now < MaxTime /\ now' = now + 1
    /\ \E knee \in Rates \cup {None}, achieved \in Rates :
         runs' = Append(runs, [on |-> on, mode |-> mode, knee |-> knee,
                               achieved |-> achieved, started |-> now, finished |-> now + 1])
    /\ UNCHANGED commands

Later ==
    /\ now < MaxTime /\ now' = now + 1
    /\ UNCHANGED <<commands, runs>>

-----------------------------------------------------------------------------
(* Peaks *)

CountIn(events, lo, hi) == Cardinality({e \in events : lo <= e.at /\ e.at <= hi})

\* _sliding_peak: the most events in a closed window of one second.
SlidingPeak(events) == Max({0} \cup {CountIn(events, e.at, e.at + SECOND) : e \in events})

\* _benchmark_windows and _span_excluded
Excluded(on, start, end) ==
    \E i \in 1..Len(runs) :
      /\ runs[i].on = on
      /\ start <= runs[i].finished + SECOND /\ end >= runs[i].started - SECOND

\* The events of an instance that a peak may count.
Kept(on, events) == {e \in events : ~Excluded(on, e.at, e.at)}

\* Bins of a second, and those that no run touches.
BinOf(e) == e.at \div SECOND
Bins(on, events) ==
    {b \in {BinOf(e) : e \in events} : ~Excluded(on, b * SECOND, (b + 1) * SECOND)}
InBin(events, b) == Cardinality({e \in events : BinOf(e) = b})

\* The bins with the most events, the earlier of equals.
Busiest(on, events) ==
    LET before(b, c) == \/ InBin(events, b) > InBin(events, c)
                        \/ InBin(events, b) = InBin(events, c) /\ b < c
    IN {b \in Bins(on, events) :
          Cardinality({c \in Bins(on, events) : before(c, b)}) < PEAK_REFINE_BINS}

\* Around a busy bin, the peak of the window that starts a second before it and
\* ends a second after it; at least what the bin holds.
PeakAround(busy, events, binned) ==
    LET around(b) == {e \in events : (b - 1) * SECOND <= e.at /\ e.at < (b + 2) * SECOND}
    IN Max({0} \cup {Max({SlidingPeak(around(b)), InBin(binned, b)}) : b \in busy})

\* _wire_peaks
RefinedPeak(on, events) == PeakAround(Busiest(on, events), Kept(on, events), events)

CommandsOn(on) == {e \in commands : e.stream.on = on}

-----------------------------------------------------------------------------
(* Bursts and what they compose to *)

\* Runs of commands with small gaps, long enough ones, by their ends.
RunsOf(events) ==
    LET times == {e.at : e \in events}
        closeTo(t) == \E u \in times : u < t /\ t - u <= BURST_GAP
    IN {p \in times \X times :
          /\ p[1] <= p[2]
          /\ ~closeTo(p[1]) /\ \A t \in times : p[1] < t /\ t <= p[2] => closeTo(t)
          /\ \A t \in times : t > p[2] => t - p[2] > BURST_GAP
          /\ CountIn(events, p[1], p[2]) >= MIN_BURST_COMMANDS}

\* _commander_bursts
BurstsOf(who, on) ==
    LET mine == {e \in CommandsOn(on) : e.stream.by = who}
    IN {[start |-> p[1], end |-> p[2],
         peak |-> SlidingPeak({e \in mine : p[1] <= e.at /\ e.at <= p[2]})] : p \in RunsOf(mine)}

WorstBurst(who, on) == Max({0} \cup {b.peak : b \in BurstsOf(who, on)})

\* The sweep of _composed_worst and _fanouts: padded intervals by their start,
\* each with those that began before it and have not ended.
V_NeverOver(end, start) == TRUE
StillActive(end, start) == end >= start
ConcurrentWorst(intervals, worst(_)) ==
    LET earlier(a, b) == a.start < b.start \/ (a.start = b.start /\ a.end < b.end)
        sorted == SetToSortSeq(intervals, earlier)
        members(k) == {sorted[k].who} \cup
            {sorted[j].who : j \in {j \in 1..k - 1 : StillActive(sorted[j].end, sorted[k].start)}}
        together == {k \in 1..Len(sorted) : Cardinality(members(k)) >= 2}
    IN Max({0} \cup {MapThenSumSet(worst, members(k)) : k \in together})

Padded(bursts, who) ==
    {[start |-> b.start - COFIRE_PAD, end |-> b.end + COFIRE_PAD, who |-> who] : b \in bursts}

Commanders == {s.by : s \in Streams}

BurstsOn(on) == UNION {Padded(BurstsOf(who, on), who) : who \in Commanders}
ComposedWorst(on) == ConcurrentWorst(BurstsOn(on), LAMBDA who : WorstBurst(who, on))

BurstsBy(who) == UNION {Padded(BurstsOf(who, on), on) : on \in Instances}
Fanout(who) == ConcurrentWorst(BurstsBy(who), LAMBDA on : WorstBurst(who, on))

-----------------------------------------------------------------------------
(* Limits *)

Newest(indices) == IF indices = {} THEN None ELSE Max(indices)

\* latest_knees, and the choice of every reader: spread before single.
KneeRun(on, mode) ==
    Newest({i \in 1..Len(runs) : runs[i].on = on /\ runs[i].mode = mode /\ runs[i].knee # None})
SustainedRun(on) ==
    IF KneeRun(on, "spread") # None THEN KneeRun(on, "spread") ELSE KneeRun(on, "single")

\* _hard_ceiling: the newest spread run that has a knee.
CeilingRun(on) ==
    Newest({i \in 1..Len(runs) :
              /\ runs[i].on = on /\ runs[i].knee # None /\ runs[i].mode = "spread"})

\* _judge, near from 0.8 of the sustained limit.
Judge(on, peak) ==
    LET sustained == IF SustainedRun(on) = None THEN None ELSE runs[SustainedRun(on)].knee
    IN CASE peak = 0 -> "no_traffic"
         [] sustained = None -> "no_limits"
         [] CeilingRun(on) # None /\ peak > runs[CeilingRun(on)].achieved -> "above_ceiling"
         [] peak > sustained -> "above_sustained"
         [] 5 * peak >= 4 * sustained -> "near_sustained"
         [] OTHER -> "ok"

-----------------------------------------------------------------------------

\* However few bins are refined, the peak shown is no more than the worst
\* second of the commands that count and at least half of it
\* (envelope.py:41-42: a burst may straddle two bins).
PeakWithinHalf ==
    \A on \in Instances :
      LET events == CommandsOn(on)
          binned == {e \in events : BinOf(e) \in Bins(on, events)}
      IN /\ RefinedPeak(on, events) <= SlidingPeak(Kept(on, events))
         /\ SlidingPeak(binned) <= 2 * RefinedPeak(on, events)

\* The sweep finds the worst moment there is (envelope.py:260-263): the most
\* that bursts which were under way at one time, padded, come to together.
SweepFindsWorst ==
    LET at(intervals, t) == {i.who : i \in {i \in intervals : i.start <= t /\ t <= i.end}}
        worstOf(intervals, worst(_)) ==
            Max({0} \cup {MapThenSumSet(worst, at(intervals, t)) :
                            t \in {t \in -COFIRE_PAD..MaxTime + COFIRE_PAD :
                                     Cardinality(at(intervals, t)) >= 2}})
    IN /\ \A on \in Instances :
            ComposedWorst(on) = worstOf(BurstsOn(on), LAMBDA who : WorstBurst(who, on))
       /\ \A who \in Commanders :
            Fanout(who) = worstOf(BurstsBy(who), LAMBDA on : WorstBurst(who, on))

\* The ceiling and the sustained limit are of one run (envelope.py:86-92).
LimitsOfOneRun ==
    \A on \in Instances : CeilingRun(on) # None => CeilingRun(on) = SustainedRun(on)

=============================================================================
