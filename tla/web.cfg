SPECIFICATION Spec
CONSTANTS
  Keys = {ssid, host}
  Values = {0, 1}
  Default = 0
  InboxDepth = 2
  Items = {"uuid"}
  Writers <- MCWriters
  Readers <- MCReaders
  LastRequest = 2
  LastOther = 1
  MaxCuts = 1
  None = None
SYMMETRY Symmetry
INVARIANT ReadBackSurvives
CHECK_DEADLOCK FALSE
