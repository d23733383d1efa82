CONSTANTS
  Addr = {1, 2, 3, 4}
  RamAddr = {3}
  NoAddr = NoAddr
  Flow <- Program
  Vectors = {4}
  ResetVector = 1
  FrameLength = 2
  CallSites = {1}
  ReturnAddr <- Returns
  EditAddr = {2, 3}
  Handlers <- ControlHandlers
  Patient = TRUE
  QueueBound = 1
SPECIFICATION Spec
INVARIANTS
  NoAbort
  UiTruthful
