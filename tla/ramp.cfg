SPECIFICATION FairSpec
CONSTANTS
    Steps <- MCSteps
    Offsets <- MCOffsets
    ReplayBound = 2
    Targets = 2
    StepTicks = 4
    ReadTimeout = 1
    MaxReads = 5
    MaxRun = 12
    StallReads = 2
    StallTicks = 2
    DegradedTicks = 1
    MaxDelay = 2
INVARIANT BooksAndBounds
INVARIANT RecordsSound
PROPERTY RunEnds
