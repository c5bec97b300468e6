SPECIFICATION Spec
CONSTANTS
  both = both
  only_a = only_a
  twin = twin
  empty = empty
  main = main
  a = a
  b = b
  Apps = {t1}
  Worker = worker
  Keys = {main, a, b}
  Main = main
  NULL = NULL
  Contents = {both, only_a}
  Missing = missing
  Sum <- MCSum
  Parsed <- MCParsed
  Reloaders = {worker}
  FileLineKeys = {}
  MaxCalls = 2
  MaxLoads = 1
  MaxClears = 3
INVARIANT NoStaleIterator
