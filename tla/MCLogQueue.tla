---------------------------- MODULE MCLogQueue ----------------------------
EXTENDS LogQueueProps, TLC

CONSTANTS p1, p2

MCProducers == {p1, p2}
\* The worker logs once (its banner), each producer twice.
MCCalls == [t \in MCProducers \cup {Worker} |-> IF t = Worker THEN 1 ELSE 2]
\* For liveness: every thread once.
MCCallsLive == [t \in MCProducers \cup {Worker} |-> 1]
\* Producers are interchangeable, and so are the addresses malloc returns.
MCSymmetry == Permutations(MCProducers) \cup Permutations(Buffers)
===========================================================================
