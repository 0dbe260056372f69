SPECIFICATION FairSpec
CONSTANTS
    BufferMax = 2
    Horizon = 2
    Quota = 2
    MaxLateness = 1
    MaxRows = 3
    MaxHour = 3
    MaxFailures = 1
    MaxRestarts = 1
INVARIANT RowsOnce
INVARIANT RetryCoversSegment
PROPERTY DeletedOnlyIfCopied
PROPERTY OldestGoFirst
PROPERTY ExportRetried
