SPECIFICATION Spec
CONSTANTS
  Site = {"send", "put"}
  KindOf <- MCKindOf
  Bytes = {1, 2}
  Threshold = 2
  DBL_MAX = 100
  MaxTime = 4
  MaxCalls = 3
  MaxPcontrols = 1
  MaxDepth = 2
  Uses <- MCWithViz
INVARIANT
  TimeNotNegative
CHECK_DEADLOCK FALSE
