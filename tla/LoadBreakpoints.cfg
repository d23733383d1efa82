CONSTANTS
  Addr = {1, 2}
  RamAddr = {1}
SPECIFICATION RoundTripSpec
PROPERTIES
  LoadKeepsEnabled
