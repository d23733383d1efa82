CONSTANTS
  End = 11
  BlockSize = 4
  MonitorStart = 5
  MonitorEnd = 7
  Initial <- MCInitial
  Written = {0, 9}
  Ranges <- MCRanges
  Foreign <- MCForeign
  MaxSteps = 4
  DeviceStart = 2
  DeviceEnd = 5
  Texts <- MCTexts
  Given <- MCGiven
  Provided <- MCProvided
  Devices <- MCDevices
  Columns = 2
  AddressSpace = 24
  Heights = {1, 2, 5}
  Keys <- MCKeys
  RowOf <- MCRowOf
  Addresses <- MCAddresses
  KeyD = "D"
  DEFAULT_CLOCK_RATE = 6
  ClockRates = {2, 6, 9}
  AUTOSTART_DELAY = 3
  AUTOSTART_KEY_HOLD = 3
  Boot = 4
  Debounce = 2
  Work = 3
SPECIFICATION UserSpec
INVARIANTS
  EditsOwnByte
  LowIsShown
  LowIsHeld
  AutostartEnters
PROPERTIES
  SavesRange
  LoadsSaved
  LabelsReadBack
  SelectionShown
CHECK_DEADLOCK FALSE
