\* Selects that send and receive and can be matched in several ways, a plain receiver,
\* and a frame destroyed while it waits.
CONSTANTS
  p1 = p1  p2 = p2  p3 = p3  p4 = p4  a = a  b = b
  Proc <- ThreeProcs
  Chan <- TwoChans
  Cap <- OneBuffered
  Ops <- MixedOps
  Killable = {p3}
  MaxCalls = 1
  Free = Free
SPECIFICATION FairSpec
INVARIANTS FifoConserved LinkedFramesLive NoMissedMatch WaiterIsLinked
PROPERTIES KeySetOnce ImplementsChannels MatchesAreMade
CHECK_DEADLOCK FALSE
