SPECIFICATION Spec
CONSTANTS
  T1 = T1
  T2 = T2
  F1 = F1
  a = a
  b = b
  c = c
  lost = lost
  note = note
  cmd = cmd
  Tasks <- MCTasks
  Foreign <- MCForeign
  Modules <- MCModules
  BoundModules <- MCBound
  MsgIds <- MCIds
  DirectIds = {cmd}
  PayloadIds = {note}
  Headers = {h1, h2}
  Blocks = {p1, p2}
  QueueDepth <- MCDepth1
  MaxSubscribers = 4
  InitSubs <- MCSubs
  Callers = {F1, T1}
  Published = {note, cmd}
  Sent = {cmd}
  Woken = {c}
  Resubscribing = {b}
  Wake = Wake
  None = None
SYMMETRY Slots
INVARIANT TypeOK
INVARIANT RefCountExact
INVARIANT NoUseAfterFree
INVARIANT PayloadAlive
INVARIANT DeliveredToAll
INVARIANT NothingLeaks
PROPERTY AtMostOnce
