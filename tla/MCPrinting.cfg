SPECIFICATION Spec
CONSTANTS
  DBL_MAX = 99
  Rank <- MCRank
  Collector = 0
  Sites = 2
  Figures <- MCFigures
  Measures <- MCMeasures
  Earlier <- MCEarlier
  Thresholds <- MCThresholds
  Orders <- MCOrders
INVARIANTS
  TypeOK
  MatchedCalls
  VerboseExact
  ConciseExact
