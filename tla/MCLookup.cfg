SPECIFICATION Spec
CONSTANTS
  MaxAddress = 8
  Code = {0, 1, 2, 3, 4, 5, 6, 7}
  Limits <- MCLimits
INVARIANTS
  MapsBalanced
  LookupsExact
  ReopensClosed
CHECK_DEADLOCK FALSE
