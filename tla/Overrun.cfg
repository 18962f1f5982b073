SPECIFICATION Spec
CONSTANTS
  ann = ann
  bob = bob
  cid = cid
  ClientMax = 3
  Addr = {ann, bob}
  Fds = {5, 6, 7, 8}
  Senders = {}
  Dials <- DialsBothOnce
  Calls = {}
  Acts <- ActsLeak
  MaxData = 1
  MaxPending = 1
CHECK_DEADLOCK FALSE
PROPERTIES
  OnlyOverrunBreaksLock
  LeakIsForever
