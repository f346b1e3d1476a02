SPECIFICATION FairSpec
CONSTANTS
  fd1 = fd1  fd2 = fd2  A = A  B = B
  Fd = {fd1, fd2}
  Coroutine = {A, B}
  Programs <- UnreachablePeer
  SendSize = 2
  TxRoom = 1
  HandleBatch = 1
PROPERTIES ActiveEventEndsWait
CHECK_DEADLOCK FALSE
