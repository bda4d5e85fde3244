SPECIFICATION Spec
CONSTANTS
  Actions = {arrive, complete}
  MaxFaults = 2
CHECK_DEADLOCK FALSE
INVARIANT NothingLost
