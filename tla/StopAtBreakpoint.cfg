CONSTANTS
  Addr = {1, 2, 3, 4}
  RamAddr = {3}
  NoAddr = NoAddr
  Flow <- Program
  Vectors = {4}
  ResetVector = 1
  FrameLength = 2
  CallSites = {1}
  ReturnAddr <- Returns
  EditAddr = {2}
  Handlers = {"ShowDebugger", "EditBreakpoints", "Stop"}
  Patient = TRUE
  QueueBound = 0
SPECIFICATION Spec
INVARIANTS
  NoAbort
CHECK_DEADLOCK FALSE
