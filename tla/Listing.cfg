CONSTANTS
  Start = 0
  End = 3
  Highest = 5
  PerLine = 2
  Memories <- MCMemories
  Candidates <- MCCandidates
  Files <- MCFiles
  MaxLabels = 2
  Visible = 4
SPECIFICATION Spec
INVARIANTS
  TypeOK
  LinesTile
  LabelsShown
PROPERTIES
  LabelsStayTidy
  PausesShowPc
CHECK_DEADLOCK FALSE
