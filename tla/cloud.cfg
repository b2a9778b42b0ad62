SPECIFICATION Spec
CONSTANTS
  Targets = {main, dt}
  NeedsReboot = {main}
  Slots <- MCSlots
  Chunks = 2
  LastUpload = 3
  LastCheck = 3
  Clients = {"ota", "print"}
  Nozzles = {0}
  Delayed = TRUE
  Buttons = {"receipt"}
  LastSale = 2
  LastPress = 2
  Faults = {"net", "offline"}
  None = None
  main = main
  dt = dt
INVARIANT RequestIsWhole
INVARIANT CheckIsOfSlot
INVARIANT CompleteIsWhole
INVARIANT OtaGoesOn
CHECK_DEADLOCK FALSE
