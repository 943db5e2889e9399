\* A connection with something to send, and nobody to read it.
CONSTANTS
  None = None
  w1 = w1
  Worker <- OneWorker
  MaxTasks = 1
  MAX_MSGS = 1

SPECIFICATION FairSpec

PROPERTY ExitsAnyway

\* The process ends.
CHECK_DEADLOCK FALSE
