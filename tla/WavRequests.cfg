SPECIFICATION FairSpec
CONSTANTS
  long = long
  short = short
  odd = odd
  bad = bad
  missing = missing
  NoFile = NoFile
  File = {long, short, odd, bad, missing}
  Kind <- Kinds
  Bytes <- FileBytes
  PeriodSize = 2
  BufferSize = 4
  Apps = {x, y}
  MaxPlays = 2
  Failures = {}
  Garbage = {}
CHECK_DEADLOCK FALSE
INVARIANTS
  LockHolds
PROPERTIES
  RequestsReturn
  RequestPlays
