SPECIFICATION Spec
CONSTANTS
    None = None
    MaxFailures = 1
    MaxRepeats = 1
    Senders = {1, 2}
    Sequences = 2
    Watermark = 1
    MatchWindow = 3
    AlignWindow = 1
    MaxPending = 1
    SendersCap = 1
    ExpiredRing = 1
    FusionTime = 3
    MaxSeen = 2
    Rollup = 2
    Keep = 4
    RollupTime = 5
    MaxEvents = 2
    MaxBack = 1
    Tags = 1
    PENDING_MAX = 0
    PENDING_TTL = 0
    MaxMessages = 2
    MaxConnections = 2
    TapTime = 1
    Nodes <- MCNodes
    Links <- MCLinks
    Registries <- MCRegistries
    Coordinator = "c"
    Name <- MCName
    Qualities = {1, 2}
    WEAK_LINK_LQI = 2
    MaxRows = 4
    Ambiguous = Ambiguous
    Unresolved = Unresolved
    Automations = {a, b}
    Payloads = {on, off}
    CORRELATION_TOLERANCE_SECONDS = 0
    CONTEXT_TTL_SECONDS = 0
    CAUSE_TTL_SECONDS = 0
    CHAIN_SECONDS = 1
    AttributionTime = 1
    MaxActs = 2
    MaxReconnects = 1
    Spenders = {a}
    BASELINE_DAYS = 2
    MIN_SPEND_DAYS = 1
    HORIZON = 1
    Limit = 2
    Before = 4
    MaxDay = 3
    MaxModel = 2
    MaxUs = 2
    MaxPeak = 4
    Lamps = {d1, d2}
    Group = grp
    Commanded = {d1, grp}
    MAX_TRACKED_DEVICES = 2
    MAX_TRACKED_KEYS = 3
    MaxCommands = 2
    MaxDisturbances = 1
    Settings <- MCSettings
    Instances = {p, q}
    Devices = {d}
    Identities <- MCIdentities
    MaxChanges = 3
    JournalTime = 1
    MOVE_MATCH_SECONDS = 0
    MaxSetbacks = 1
INVARIANT ObservationsPaired
INVARIANT RollupsWhole
INVARIANT GraphSound
INVARIANT CreditedToASender
INVARIANT NoopIsTrue
INVARIANT JournalSound
PROPERTY TapTellsTruth
PROPERTY ReceiptsSound
CHECK_DEADLOCK FALSE
