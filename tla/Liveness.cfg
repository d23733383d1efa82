CONSTANTS
  Addr = {1, 2, 3}
  RamAddr = {3}
  NoAddr = NoAddr
  Flow <- Plain
  Vectors = {}
  ResetVector = 1
  FrameLength = 1
  CallSites = {1}
  ReturnAddr <- Returns
  EditAddr = {2}
  Handlers <- AllHandlers
  Patient = FALSE
  QueueBound = 0
SPECIFICATION FairSpec
PROPERTIES
  JoinReturns
  HitHandled
  ShutdownEnds
CHECK_DEADLOCK FALSE
