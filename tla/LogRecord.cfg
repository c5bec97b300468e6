SPECIFICATION Spec
CONSTANTS
  Size = 14
  Cache = 5
  GcvtRoom = 4
  Depth = 2
  Headers = {2, 3}
  Texts = {0, 1, 2, 9, 10, 11, 12, 13}
  Digits = {1, 2}
  MaxWrites = 4
  MaxNesting = 2
INVARIANTS
  TypeOK
  WellFormed
  IntegersWhole
  CutIsFull
PROPERTY TextIsKept
CHECK_DEADLOCK FALSE
