\* What co_await promises to coroutines that catch what their callees throw.
CONSTANTS
  f0 = f0  f1 = f1  f2 = f2  f3 = f3  f4 = f4
  Frame <- FourFrames
  Entry = f0
  NoFrame = NoFrame
SPECIFICATION Spec
INVARIANTS AlwaysAwaitsFinish
CHECK_DEADLOCK FALSE
