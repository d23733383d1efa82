CONSTANTS
  Code <- MCCode
  Loads <- MCLoads
  ResetVector <- Reset
  NmiVector <- NmiHandler
  IrqVector <- Handler
  SwiVector <- Handler
  FrameCycles = 4
  EnterCycles = 3
  WaitCycles = 1
  MaxPresses = 2
SPECIFICATION FairSpec
INVARIANTS
  TypeOK
  EdgeTakenOnce
PROPERTIES
  ImplementsLevels
  WaitLeftByInterrupt
  NmiServed
CHECK_DEADLOCK FALSE
