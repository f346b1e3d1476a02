\* One permit, posted by a callback or a constructor, that works as a cgo::Mutex for the
\* tasks of two contexts, one of which may be shut down.
CONSTANTS
  t1 = t1  t2 = t2  t3 = t3  t4 = t4  A = A  B = B
  Task <- ThreeTasks
  Context <- TwoContexts
  CtxOf <- CtxOfThree
  Guarded <- ThreeTasks
  Stoppable = {B}
  Permits = 0
  MaxPost = 1
  MaxBatch = 1
  NoCtx = NoCtx  NoOne = NoOne  Poster = Poster
SPECIFICATION FairSpec
INVARIANTS TypeOK PermitsConserved WakeupsCoverPermits WaitListIsLive
PROPERTIES ImplementsSemaphore ShutdownReturns GrantsPermits
CHECK_DEADLOCK FALSE
