SPECIFICATION Spec
CONSTANTS
  Rank = {0, 1}
  Collector = 0
  Call <- MCCall
  FirstBinMax = 1
  HistSize = 3
  IntMax = 7
  TopRows = 1
  Junk = {5}
  MaxCalls = 1
  MaxReports = 2
INVARIANTS
  ReportsAccumulate
CHECK_DEADLOCK FALSE
