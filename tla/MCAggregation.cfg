SPECIFICATION Spec
CONSTANTS
  Rank = {0, 1}
  Collector = 0
  Site <- MCSite
  OpOf <- MCOpOf
  StackOf <- MCStackOf
  LineOf <- MCLineOf
  IoOf <- MCIoOf
  Options <- MCOptions
  MaxCalls = 4
  MaxReports = 2
INVARIANTS
  TypeOK
  TimeConserved
  SiteDataFits
  SummariesFit
  EachRecordLookedUpOnce
PROPERTY
  IdsAreKept
CHECK_DEADLOCK FALSE
