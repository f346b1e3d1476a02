SPECIFICATION FairSpec
CONSTANTS
  N = 2
  MaxTask = 3
  BatchSize = 2
  Client = {m}
  NoTask = NoTask
INVARIANTS TypeOK OnePlace NoDangling QuietWhenFinal NoWaiterLeft
PROPERTIES QueuedIsExecuted ShutdownReturns
CHECK_DEADLOCK FALSE
