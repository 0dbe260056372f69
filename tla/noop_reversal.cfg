SPECIFICATION Spec
CONSTANTS
    None = None
    Devices = {d1,d2}
    Group = grp
    Settings <- MCSettings
    Commanded = {d1,grp}
    MAX_TRACKED_DEVICES = 2
    MAX_TRACKED_KEYS = 3
    MaxCommands = 2
    MaxDisturbances = 1
INVARIANT ReversalsAreSeen
CHECK_DEADLOCK FALSE
