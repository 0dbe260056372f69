SPECIFICATION Spec
CONSTANTS
    None = None
    Instances = {i1}
    All = All
    NoState = NoState
    Attached = Attached
    Sustain = 1
    ClearSustain = 2
    MaxTotal = 2
    MaxEdits = 2
    MaxEvents = 2
    MaxFailures = 1
    MaxRestarts = 1
    Fingerprints = {4, 5, 6}
    MaxApplications = 1
    MaxMoves = 3
    MaxCrashes = 1
    Configs = {"c"}
    Sensors = {"s"}
    Prefixes = {"p", "q"}
    MaxGrants = 2
    MaxOutages = 1
    MaxRenames = 1
    Calls = {c1, c2}
    NoCall = NoCall
    MaxLost = 1
    Bases = {a, b}
    MaxAnswers = 2
    LoopThread = "loop"
    WorkerThread = "worker"
    ACTIVITY_ENTRIES_KEPT = 2
    MaxNotes = 3
    MaxSamples = 1
    Requests = {r1, r2}
    MaxTasks = 3
    MaxDrops = 2
    MaxErrors = 1
INVARIANT TypeOK
INVARIANT Remembered
INVARIANT CallsApart
INVARIANT GateMatchesCalls
INVARIANT HeldOnceWithEvidence
PROPERTY EventsClose
PROPERTY QueueHonest
PROPERTY RequestsFinish
PROPERTY TileSettles
PROPERTY NotesEnd
PROPERTY LinkSound
CHECK_DEADLOCK FALSE
