SPECIFICATION Spec
CONSTANTS
  long = long
  short = short
  odd = odd
  bad = bad
  missing = missing
  NoFile = NoFile
  File = {long, short}
  Kind <- Kinds
  Bytes <- FileBytes
  PeriodSize = 2
  BufferSize = 4
  Apps = {x}
  MaxPlays = 2
  Failures = {}
  Garbage = {}
CHECK_DEADLOCK FALSE
INVARIANTS
  SwitchDropsBuffer
