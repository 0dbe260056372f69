SPECIFICATION Spec
CONSTANTS
    Tokens = {t1, t2}
    NoTask = NoTask
    NoPlan = NoPlan
    MaxBatch = 2
    Ttl = 2
    Cooldown = 2
SYMMETRY Symmetry
INVARIANT AbortIsLive
