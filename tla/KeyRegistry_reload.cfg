SPECIFICATION FairSpec
CONSTANTS
  both = both
  only_a = only_a
  twin = twin
  empty = empty
  main = main
  a = a
  b = b
  Apps = {t1, t2}
  Worker = worker
  Keys = {main, a, b}
  Main = main
  NULL = NULL
  Contents = {only_a, twin, empty}
  Missing = missing
  Sum <- MCSum
  Parsed <- MCParsed
  Reloaders = {worker}
  FileLineKeys = {b}
  MaxCalls = 1
  MaxLoads = 1
  MaxClears = 2
INVARIANTS
  TypeOK
  NeverHalfLoaded
  WorkerIteratorIsGood
  SetLevelStands
PROPERTIES
  ImplementsMap
  SkippedSumInForce
  OthersReturn
CHECK_DEADLOCK FALSE
