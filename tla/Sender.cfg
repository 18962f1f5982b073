SPECIFICATION Spec
CONSTANTS
  ann = ann
  bob = bob
  cid = cid
  ClientMax = 4
  Addr = {ann, bob}
  Fds = {5, 6, 7}
  Senders = {s}
  Dials <- Dials1OneTwice
  Calls <- CallsAnn
  Acts <- ActsOne
  MaxData = 1
  MaxPending = 1
CHECK_DEADLOCK FALSE
INVARIANTS
  LocksHold
  CountNeverLost
  TablesAgree
  OneSlotPerAddress
PROPERTIES
  IsClientTable
