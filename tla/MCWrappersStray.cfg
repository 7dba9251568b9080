SPECIFICATION Spec
CONSTANTS
  Slots = 2
  Ids = 3
  MaxCount = 0
INVARIANTS
  StaysInArrays
