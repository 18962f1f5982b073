SPECIFICATION Spec
CONSTANTS
  ann = ann
  bob = bob
  cid = cid
  ClientMax = 3
  Addr = {ann, bob, cid}
  Fds = {5, 6, 7, 8}
  Senders = {s}
  Dials <- Dials1Once
  Calls <- CallsPort1
  Acts <- ActsClose
  MaxData = 1
  MaxPending = 1
CHECK_DEADLOCK FALSE
INVARIANTS
  FailureMarksItsClient
