SPECIFICATION Spec
CONSTANTS
  p1 = p1
  p2 = p2
  Producers <- MCProducers
  Worker = worker
  Buffers = {b1, b2, b3, b4, b5}
  NULL = NULL
  PoolMax = 1
  QueueLimit = 2
  MaxCalls <- MCCalls
  MaxStarts = 2
SYMMETRY MCSymmetry
INVARIANTS
  TypeOK
  OneOwner
  PoolBound
PROPERTIES
  ImplementsService
  DrainingShrinks
