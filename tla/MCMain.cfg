\* Two connections, one at least while the other is handled.
CONSTANTS
  None = None
  w1 = w1
  Worker <- OneWorker
  MaxTasks = 2
  MAX_MSGS = 1

SPECIFICATION FairSpec

INVARIANTS MainTypeOK OnlyLoopOutlivesServer
PROPERTIES SigintEndsProcess

\* The process ends.
CHECK_DEADLOCK FALSE
