SPECIFICATION Spec
CONSTANTS
  ann = ann
  bob = bob
  cid = cid
  ClientMax = 4
  Addr = {ann, bob, cid}
  Fds = {5, 6, 7, 8}
  Senders = {}
  Dials <- Dials1Once
  Calls = {}
  Acts <- AllActs
  MaxData = 1
  MaxPending = 1
SYMMETRY Symmetry
CHECK_DEADLOCK FALSE
INVARIANTS
  LeftoversConfined
  SocketsAccounted
  RecvNeverWaits
PROPERTIES
  RemovalSparesOthers
