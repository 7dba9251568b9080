SPECIFICATION FairSpec
CONSTANTS
  Rank <- MCRank
  Collector = 0
  MaxReports = 2
  MaxRecords = 1
  HostNames <- MCHostNames
  Options <- MCOptions
INVARIANTS
  TypeOK
  MatchedCalls
  MergedOnce
  RecvFits
  NothingLeftBehind
PROPERTIES
  RefinesAtomicReport
  ReportsReturn
CHECK_DEADLOCK FALSE
