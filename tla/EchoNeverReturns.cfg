SPECIFICATION FairSpec
CONSTANTS
  ann = ann
  bob = bob
  cid = cid
  ClientMax = 3
  Addr = {ann}
  Fds = {5, 6}
  Senders = {}
  Dials <- Dials2Once
  Calls = {}
  Acts <- AllActs
  MaxData = 1
  MaxPending = 1
CHECK_DEADLOCK FALSE
PROPERTIES
  EveryEchoReturns
