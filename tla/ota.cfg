SPECIFICATION FairSpec
CONSTANTS
  Targets = {main, dt}
  NeedsReboot = {main}
  Chunks = 2
  LastUpload = 3
  Faults = {"write", "drop", "vanish"}
  None = None
INVARIANT CompleteIsWhole
INVARIANT PartialRemoved
INVARIANT OneWriter
INVARIANT AcceptedIsGranted
PROPERTY EndsItsOwn
PROPERTY SessionsEnd
CHECK_DEADLOCK FALSE
