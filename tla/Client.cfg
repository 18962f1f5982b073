SPECIFICATION FairSpec
CONSTANTS
  Client = {0, 1}
  Fds = {5, 6, 7}
  Senders = {s}
  Reconn = 2
  MaxDown = 2
  MaxData = 1
  Failures = {"socket", "setsockopt", "connect"}
CHECK_DEADLOCK FALSE
INVARIANTS
  TypeOK
  EntryIsOwn
  SocketsHeld
  WaitReachesZero
PROPERTIES
  ClientTriesAgain
  EndIsNoticed
