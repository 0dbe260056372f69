------------------------------ MODULE MCJudging ------------------------------
(***************************************************************************)
(* What the collector makes of it, side by side: the frames in the wire's  *)
(* bytes, what a mesh can take, today and after a move, and what is        *)
(* advised.  As in MCServices they share no variable, and `part` says      *)
(* which of them moves.                                                    *)
(***************************************************************************)
EXTENDS Integers, Sequences

CONSTANTS
    None, MaxRepeats,
    \* WireStream
    Modulus, Isn, MaxSegment, Reach, MaxMisses, MaxSessions, MaxQueued,
    \* BurstEnvelope, Scenario
    SECOND, BURST_GAP, MIN_BURST_COMMANDS, COFIRE_PAD, PEAK_REFINE_BINS, Rates, MaxTime, MaxMoves,
    MaxRecords, ReportCost,
    \* Advice
    HeardTime, MaxHeard

VARIABLES
    part,
    line, isn, top, wire, reader, stream, ash, frames, lost, misses, repeats, sessions,
    now, commands, runs, moves,
    clock, heard, measured

\* One frame with a byte that is escaped and one without; a line ends with
\* the first.
Bodies == {<<"a", "flag">>, <<"b", "c">>}
Flip == [b \in {"a", "b", "c", "flag", "FLAG"} |->
           CASE b = "flag" -> "FLAG" [] b = "FLAG" -> "flag" [] OTHER -> "other"]
Stream == INSTANCE WireStream WITH LastBodies <- {<<"a", "flag">>}

Quiet == <<Stream!Whole(<<"a", "flag">>), Stream!Whole(<<"a", "flag">>)>>

\* Two lamps on mesh p, one of them a router, and their group; a plug on q;
\* mesh r has no device.
Meshes == INSTANCE Scenario WITH
    Instances <- {"p", "q", "r"},
    Streams <- {[by |-> "a", on |-> "p", to |-> "lamps", echo |-> FALSE],
                [by |-> "b", on |-> "p", to |-> "l1", echo |-> TRUE],
                [by |-> "a", on |-> "q", to |-> "plug", echo |-> FALSE]},
    Devices <- {"l1", "l2", "plug"},
    Routers <- {"l1", "plug"},
    Groups <- {"lamps"},
    HomeOf <- [x \in {"l1", "l2", "plug", "lamps"} |-> IF x = "plug" THEN "q" ELSE "p"],
    MembersOf <- [g \in {"lamps"} |-> {"l1", "l2"}],
    Reports <- [d \in {"l1", "l2", "plug"} |-> IF d = "l2" THEN 1 ELSE 0],
    UnicastCost <- [b \in {"p", "q", "r"} |-> IF b = "p" THEN 2 ELSE 3],
    GroupcastCost <- [b \in {"p", "q", "r"} |-> IF b = "p" THEN 5 ELSE 7],
    Calibrated <- {"p"}

\* Three lamps on mesh p, and groups of one, two and all of them; a plug on q;
\* r has room.  A tick is a second.
Said(by, on, to) == [by |-> by, on |-> on, to |-> to, digest |-> "on", echo |-> FALSE]
Knee(on, mode, knee) == [on |-> on, mode |-> mode, knee |-> knee]
Advised == INSTANCE Advice WITH
    now <- clock, commands <- heard, runs <- measured, MaxTime <- HeardTime,
    SECOND <- 1, BURST_GAP <- 1, MIN_BURST_COMMANDS <- 2,
    Instances <- {"p", "q", "r"},
    Streams <- {Said("a", "p", "lamps"), Said("b", "p", "one"), Said("a", "p", "all"),
                Said("a", "p", "l1"), Said("b", "p", "l2"), Said("a", "q", "plug")},
    Devices <- {"l1", "l2", "l3", "plug"},
    Routers <- {"l1", "plug"},
    Groups <- {"lamps", "one", "all"},
    HomeOf <- [x \in {"l1", "l2", "l3", "plug", "lamps", "one", "all"} |->
                 IF x = "plug" THEN "q" ELSE "p"],
    MembersOf <- [g \in {"lamps", "one", "all"} |->
                    CASE g = "one" -> {"l1"} [] g = "lamps" -> {"l1", "l2"}
                      [] OTHER -> {"l1", "l2", "l3"}],
    HopCost <- [d \in {"l1", "l2", "l3", "plug"} |-> IF d = "l2" THEN 3 ELSE 2],
    AmplifiedCost <- [b \in {"p", "q", "r"} |-> 4],
    FANOUT_SPAN <- 1, COFIRE_WINDOW <- 1, COFIRE_TENTHS <- 5, MIN_FANOUT_TARGETS <- 2, MIN_OCCURRENCES <- 1,
    Reports <- [d \in {"l1", "l2", "l3", "plug"} |-> 0],
    UnicastCost <- [b \in {"p", "q", "r"} |-> 2],
    GroupcastCost <- [b \in {"p", "q", "r"} |-> 5],
    Calibrated <- {},
    CANDIDATE_BINS <- 1, MAX_CANDIDATE_SUBJECTS <- 3, MAX_MOVES_PER_PROPOSAL <- 2,
    MAX_DESTINATIONS_TRIED <- 2,
    Measured <- {<<Knee("p", "spread", 1), Knee("q", "spread", 1), Knee("r", "spread", 2)>>,
                 <<Knee("p", "single", 1), Knee("q", "spread", 2)>>}

ASSUME StreamAssumption == Stream!StreamAssumption

decoding == <<line, isn, top, wire, reader, stream, ash, frames, lost, misses, repeats, sessions>>
meshes == <<now, commands, runs, moves>>
advice == <<clock, heard, measured>>
vars == <<part, decoding, meshes, advice>>

\* A part that does not move has one of its initial states.
Init ==
    /\ part \in {"stream", "meshes", "advice"}
    /\ Stream!Init /\ (part # "stream" => line = Quiet)
    /\ Meshes!Init
    /\ Advised!Init /\ (part # "advice" => Len(measured) = 2)

StreamMoves ==
    /\ part = "stream" /\ Stream!Next
    /\ UNCHANGED <<part, meshes, advice>>
MeshesMove ==
    /\ part = "meshes" /\ Meshes!Next
    /\ UNCHANGED <<part, decoding, advice>>
AdviceMoves ==
    /\ part = "advice" /\ Advised!Next
    /\ UNCHANGED <<part, decoding, meshes>>

Next == StreamMoves \/ MeshesMove \/ AdviceMoves

Spec == Init /\ [][Next]_vars

-----------------------------------------------------------------------------

\* A decoded frame was on the line, in its order, whatever is captured twice or
\* not at all (stream.py, ash.py).
FramesGenuine == part = "stream" => Stream!TypeOK /\ Stream!FramesGenuine

\* What is computed from records is computed when all of them are there, as
\* each shorter record is that of a window in which nothing more happened.
Summarized == part = "meshes" /\ now = MaxTime
Heard == part = "advice" /\ clock = HeardTime

\* A peak is shown within a factor of two, the sweep finds the worst moment,
\* and the two limits are of one run (envelope.py); moves do not change the
\* records that they are of.
EnvelopeSound ==
    Summarized /\ moves = << >> =>
        Meshes!PeakWithinHalf /\ Meshes!SweepFindsWorst /\ Meshes!LimitsOfOneRun

\* A scenario's "after" is what its moves would cost, each command goes where
\* its subject goes, and the peak judged is within a factor of two (scenario.py).
ScenarioSound ==
    Summarized =>
        /\ Meshes!TypeOK /\ Meshes!AfterIsRepriced
        /\ Meshes!CommandsFollowSubjects /\ Meshes!PeakAfterWithinHalf

\* Savings are backed by recorded airtime, advice does not reverse itself, and
\* silenced groups are served by others (groupcast.py).
GroupAdviceSound ==
    Heard =>
        /\ Advised!TypeOK /\ Advised!SavingsBacked
        /\ Advised!NoSeesaw /\ Advised!SilencedStillServed

\* Seconds near a limit are told, and spreads fit (pacing.py).
PacingSound == Heard => Advised!PressureTold /\ Advised!SpreadBurstsFit

\* A proposed move relieves without overloading, and the score agrees
\* (rebalance.py).
ProposalsRelieve == Heard => Advised!Advisor!ProposalsRelieve
=============================================================================
