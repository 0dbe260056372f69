SPECIFICATION FairSpec
CONSTANTS
    Tokens = {t1, t2}
    NoTask = NoTask
    NoPlan = NoPlan
    MaxBatch = 3
    Ttl = 3
    Cooldown = 2
INVARIANT SoundRuns
INVARIANT AbortStopsTheRemainder
PROPERTY ImplementsLease
PROPERTY MeshComesFree
