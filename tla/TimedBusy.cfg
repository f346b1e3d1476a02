SPECIFICATION Spec
CONSTANTS
  N = 2
  BatchSize = 2
  PollMax = 2
  Sleeper = {A, B}
  Delay = {0, 3}
  MaxBusy = 1
  MaxTimers = 3
  MaxTime = 5
INVARIANTS CalledOnce Punctual
PROPERTIES NotEarly
CHECK_DEADLOCK FALSE
