SPECIFICATION Spec
CONSTANTS
  Dates = {1}
  Events = {1,2}
  MaxLines = 2
  MaxDays = 2
  MaxSeq = 3
  NoDate = NoDate
  NoEvent = NoEvent
  Unusable = {}
  MaxCuts = 0
  Faults = {}
INVARIANT PeekFindsNext
