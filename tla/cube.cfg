SPECIFICATION Spec
CONSTANTS
  Requesters = {"cube"}
  SlotCount = 1
  RequestDepth = 1
  AlarmDepth = 1
  QueueSize = 3
  Unconfigured = {2}
  LastSale = 3
  MaxOther = 1
  None = None
INVARIANT CubeGoesOn
INVARIANT SaleConserved
INVARIANT NoOrphans
CHECK_DEADLOCK FALSE
