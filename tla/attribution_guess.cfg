SPECIFICATION Spec
CONSTANTS
    None = None
    Ambiguous = Ambiguous
    Unresolved = Unresolved
    Commanders = {a,b}
    Payloads = {on,off}
    CORRELATION_TOLERANCE_SECONDS = 0
    CONTEXT_TTL_SECONDS = 0
    CAUSE_TTL_SECONDS = 0
    CHAIN_SECONDS = 1
    MaxTime = 1
    MaxActs = 2
    MaxReconnects = 1
INVARIANT NeverGuessed
CHECK_DEADLOCK FALSE
