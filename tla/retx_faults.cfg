SPECIFICATION Spec
CONSTANTS
  Dates = {d1,d2,d3}
  Events = {1,2,3}
  MaxLines = 2
  MaxDays = 2
  MaxSeq = 1
  NoDate = NoDate
  NoEvent = NoEvent
  Unusable = {2}
  MaxCuts = 1
  Faults = {"append","save","delete","busy","rollover"}
SYMMETRY Symmetry
INVARIANT QueueExact
INVARIANT ConsumedWasSent
INVARIANT NoOrphanFiles
PROPERTY FifoUntilTorn
