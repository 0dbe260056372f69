SPECIFICATION Spec
CONSTANTS
    None = None
    Modulus = 12
    Isn = {9}
    MaxSegment = 2
    Reach = 2
    MaxMisses = 1
    MaxSessions = 2
    MaxQueued = 2
    MaxRepeats = 1
    SECOND = 2
    BURST_GAP = 2
    MIN_BURST_COMMANDS = 1
    COFIRE_PAD = 1
    PEAK_REFINE_BINS = 1
    Rates = {1, 2}
    MaxTime = 4
    MaxMoves = 2
    MaxRecords = 4
    ReportCost = 1
    HeardTime = 3
    MaxHeard = 4
INVARIANT FramesGenuine
INVARIANT EnvelopeSound
INVARIANT ScenarioSound
INVARIANT GroupAdviceSound
INVARIANT PacingSound
INVARIANT ProposalsRelieve
CHECK_DEADLOCK FALSE
