CONSTANTS
  Mapped <- MCMapped
  Writable <- MCWritable
  Tasks <- MCTasks
  Boot <- Program
  LastWrites = {0, 200}
  Lamps <- MCLamps
SPECIFICATION Spec
INVARIANTS
  ComparisonsDecide
  DecimalSums
  WideArithmetic
  CallsReturn
  OutchShows
PROPERTIES
  FlagsExact
  DisassemblyAgrees
CHECK_DEADLOCK FALSE
