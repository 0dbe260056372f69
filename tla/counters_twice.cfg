SPECIFICATION Spec
CONSTANTS
  None = None
  MaxCounted = 2
  MaxFailures = 0
  MaxRestarts = 0
CHECK_DEADLOCK FALSE
INVARIANT BookedOnce
