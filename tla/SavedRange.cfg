CONSTANTS
  End = 12
  BlockSize = 4
  MonitorStart = 5
  MonitorEnd = 7
  Initial <- MCInitial
  Written = {0}
  Ranges <- MCRanges
  Foreign = {}
  MaxSteps = 4
SPECIFICATION RamSpec
PROPERTIES
  SavesExactlyRange
CHECK_DEADLOCK FALSE
