\* Two plain senders, one for each channel, and two receivers that select.
CONSTANTS
  p1 = p1  p2 = p2  p3 = p3  p4 = p4  a = a  b = b
  Proc <- FourProcs
  Chan <- TwoChans
  Cap <- Unbuffered
  Ops <- PlainToSelectOps
  Killable = {}
  MaxCalls = 1
  Free = Free
SPECIFICATION FairSpec
PROPERTIES AllReturn
CHECK_DEADLOCK FALSE
