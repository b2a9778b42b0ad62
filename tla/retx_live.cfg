SPECIFICATION FairSpec
CONSTANTS
  Dates = {1,2}
  Events = {1,2,3}
  MaxLines = 2
  MaxDays = 2
  MaxSeq = 3
  NoDate = NoDate
  NoEvent = NoEvent
  Unusable = {}
  MaxCuts = 0
  Faults = {}
PROPERTY EventuallyHandedOut
