SPECIFICATION FairSpec
CONSTANTS
  Threads = {x, y}
  Fds = {0, 1, 2, 3, 4}
  CntRetry = 2
  MaxOpens = 2
CHECK_DEADLOCK FALSE
INVARIANTS
  TypeOK
PROPERTIES
  OnlyOpenBreaksLock
  OnlyTheseLoseLock
  OnlyTheseCloseOthers
  TransfersEnd
