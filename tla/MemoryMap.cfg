CONSTANTS
  NULL = NULL
  BlockSize = 4
  Address = {0, 1, 2, 3, 4, 5, 6, 7, 8, 9, 10, 11, 12, 13, 14, 15}
  Ram = Ram
  Rom = Rom
  C1 = C1
  C2 = C2
  Led = Led
  Dip = Dip
  Builtin <- MCBuiltin
  BuiltinRange <- MCBuiltinRange
  Custom = {C1, C2}
  Patterns <- MCPatterns
  IoChoices <- MCIoChoices
  Probes = {6, 8}
SPECIFICATION FairSpec
INVARIANTS
  TypeOK
  ChainsSound
  RestartKeepsDevices
  WildOnlyWhenStrayed
  SteadyFound
PROPERTIES
  JobEnds
CHECK_DEADLOCK FALSE
