SPECIFICATION FairSpec
CONSTANTS
  ann = ann
  bob = bob
  cid = cid
  ClientMax = 3
  Addr = {ann, bob, cid}
  Fds = {5, 6, 7, 8}
  Senders = {}
  Dials <- Dials1Once
  Calls = {}
  Acts <- ActsOne
  MaxData = 1
  MaxPending = 1
CHECK_DEADLOCK FALSE
INVARIANTS
  TypeOK
PROPERTIES
  DialsAnswered
  HangupsClosed
