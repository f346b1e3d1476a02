SPECIFICATION FairSpec
CONSTANTS
  fd1 = fd1  fd2 = fd2  A = A  B = B
  Fd = {fd1, fd2}
  Coroutine = {A, B}
  Programs <- AllPrograms
  SendSize = 2
  TxRoom = 1
  HandleBatch = 1
INVARIANTS OneRelease TimedOutByOwnTimer NoSpuriousWake
PROPERTIES ConnectMeansConnected TimedReturns ReadyEndsWait
CHECK_DEADLOCK FALSE
