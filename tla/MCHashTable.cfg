SPECIFICATION Spec
CONSTANTS
  p1 = p1
  p2 = p2
  p3 = p3
  p4 = p4
  p5 = p5
  NULL = NULL
  Ptr <- MCPtr
  Key <- MCKey
  KeyOf <- MCKeyOf
  HashOf <- MCHashOf
  Size = 2
INVARIANTS
  TypeOK
  UniqueKeys
  CountExact
  GatherFits
PROPERTY
  RefinesStore
