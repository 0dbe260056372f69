SPECIFICATION Spec
CONSTANTS
    BufferMax = 2
    Horizon = 2
    Quota = 2
    MaxLateness = 0
    MaxRows = 3
    MaxHour = 3
    MaxFailures = 0
    MaxRestarts = 0
PROPERTY KeptUntilRetention
