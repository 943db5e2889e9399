\* The caller stops the pool or goes on waiting for connections.
CONSTANTS
  None = None
  w1 = w1
  w2 = w2
  Worker <- TwoWorkers
  MaxTasks = 4

SPECIFICATION FairPoolSpec

INVARIANTS PoolInv OnePlace
PROPERTIES TasksTaken StopReturns

\* A pool that has been stopped does nothing.
CHECK_DEADLOCK FALSE
