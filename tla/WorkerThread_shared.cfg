SPECIFICATION FairSpec
CONSTANTS
  Controllers = {c1, c2}
  NULL = NULL
  Timeouts = TRUE
  MaxSpawns = 4
INVARIANTS
  TypeOK
  OneWorker
  AwaitedComes
PROPERTIES
  StopMeansStopped
  CallsReturn
