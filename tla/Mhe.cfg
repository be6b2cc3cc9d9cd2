SPECIFICATION Spec
CONSTANTS
  Horizons = {0, 1, 2, 3}
  MaxCalls = 6
  MaxVersions = 2
INVARIANT PriorMatchesWindow
PROPERTY FullInformation CurrentModel
CHECK_DEADLOCK FALSE
