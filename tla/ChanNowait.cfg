\* Operations that must not wait meet plain ones.
CONSTANTS
  p1 = p1  p2 = p2  p3 = p3  p4 = p4  a = a  b = b
  Proc <- ThreeProcs
  Chan <- TwoChans
  Cap <- OneBuffered
  Ops <- NowaitOps
  Killable = {}
  MaxCalls = 2
  Free = Free
SPECIFICATION FairSpec
INVARIANTS ReturnsWhatMoved
PROPERTIES TransferReturns
CHECK_DEADLOCK FALSE
