SPECIFICATION Spec
CONSTANTS
  both = both
  only_a = only_a
  twin = twin
  empty = empty
  main = main
  a = a
  b = b
  Apps = {t1}
  Worker = worker
  Keys = {main, a, b}
  Main = main
  NULL = NULL
  Contents = {only_a, twin}
  Missing = missing
  Sum <- MCSum
  Parsed <- MCParsed
  Reloaders = {worker}
  FileLineKeys = {}
  MaxCalls = 1
  MaxLoads = 1
  MaxClears = 3
PROPERTY SkippedIsInForce
