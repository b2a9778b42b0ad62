SPECIFICATION PoolSpec
CONSTANTS
  NumClasses = 3
  Size <- MCSize
  Count <- MCCount
  ArenaBytes = 16
  ArenaSlots = 5
  Requests = {1, 2, 3, 5}
  Null = Null
INVARIANT NoBlockTwice
INVARIANT BuffersDisjoint
INVARIANT CountsExact
PROPERTY Promise
