SPECIFICATION FairSpec
CONSTANTS
  long = long
  short = short
  odd = odd
  bad = bad
  missing = missing
  NoFile = NoFile
  File = {long, odd, bad}
  Kind <- Kinds
  Bytes <- FileBytes
  PeriodSize = 2
  BufferSize = 4
  Apps = {x}
  MaxPlays = 2
  Failures <- Everything
  Garbage = {3, 20}
CHECK_DEADLOCK FALSE
INVARIANTS
  TypeOK
  OnlyStreamStaysOpen
  FramesInOrder
PROPERTIES
  StartsOverOnlyThen
  StopIsKept
  StopEndsPlayback
