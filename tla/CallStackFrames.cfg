\* Nested calls of up to five frames, with exceptions, catching, and destruction.
CONSTANTS
  f0 = f0  f1 = f1  f2 = f2  f3 = f3  f4 = f4
  Frame <- FiveFrames
  Entry = f0
  NoFrame = NoFrame
SPECIFICATION FairSpec
INVARIANTS TypeOK AwaitsFinish StackIsAwaitChain FreedOnce NoUseAfterFree
PROPERTIES ErrorSurfaces
CHECK_DEADLOCK FALSE
