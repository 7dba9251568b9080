SPECIFICATION Spec
CONSTANTS
  Slots = 2
  Ids = 3
  MaxCount = 2
INVARIANTS
  TypeOK
  HandlesLive
  NothingLost
  IndexNamesCompleted
  HistogramsAgree
