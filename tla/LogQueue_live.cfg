SPECIFICATION FairSpec
CONSTANTS
  p1 = p1
  p2 = p2
  Producers <- MCProducers
  Worker = worker
  Buffers = {b1, b2, b3}
  NULL = NULL
  PoolMax = 1
  QueueLimit = 1
  MaxCalls <- MCCallsLive
  MaxStarts = 2
PROPERTIES
  AcceptedIsHandled
  StopReturns
  PushReturns
