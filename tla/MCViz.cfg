SPECIFICATION FairSpec
CONSTANTS
  Rank <- MCRank
  Capacity = 2
INVARIANT
  TypeOK
PROPERTY
  ReportsGoOn
