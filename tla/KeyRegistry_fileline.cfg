SPECIFICATION FairSpec
CONSTANTS
  both = both
  only_a = only_a
  twin = twin
  empty = empty
  main = main
  a = a
  b = b
  Apps = {t1}
  Worker = worker
  Keys = {main, a, b}
  Main = main
  NULL = NULL
  Contents = {only_a}
  Missing = missing
  Sum <- MCSum
  Parsed <- MCParsed
  Reloaders = {}
  FileLineKeys = {b}
  MaxCalls = 2
  MaxLoads = 1
  MaxClears = 0
PROPERTY CallsReturn
CHECK_DEADLOCK FALSE
