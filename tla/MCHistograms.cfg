SPECIFICATION Spec
CONSTANTS
  Rank = {0, 1}
  Collector = 0
  Call <- MCCall
  FirstBinMax = 1
  HistSize = 3
  IntMax = 7
  TopRows = 1
  Junk <- MCJunk
  MaxCalls = 3
  MaxReports = 2
INVARIANTS
  TypeOK
  RowsExact
CHECK_DEADLOCK FALSE
