SPECIFICATION Spec
CONSTANTS
  Site = {"send", "put"}
  KindOf <- MCKindOf
  Bytes = {1, 2}
  Threshold = 2
  DBL_MAX = 100
  MaxTime = 4
  MaxCalls = 2
  MaxPcontrols = 3
  MaxDepth = 2
  Uses <- MCUses
INVARIANTS
  TypeOK
  SwitchRestored
  AppTimeExact
  MpiWithinApp
  StatsSummarise
CHECK_DEADLOCK FALSE
