SPECIFICATION Spec
CONSTANTS
  Requesters = {"fuel"}
  SlotCount = 1
  RequestDepth = 1
  AlarmDepth = 1
  Nozzles = {0}
  FrameDepth = 1
  Settle = 0
  Quiet = 1
  Late = 1
  Short = 2
  MinCount = 2
  Driver = "sanki"
  UnitPrice = 30000
  Portion = 20000
  LastSale = 2
  LastAmount = 2
  Faults = {"noise", "full"}
  None = None
INVARIANT WatchdogRuns
INVARIANT PumpedIsSold
INVARIANT SoldIsPumped
CHECK_DEADLOCK FALSE
