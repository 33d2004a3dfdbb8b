SPECIFICATION Spec
CONSTANTS
  Bytes <- SomeBytes
  MaxLen = 3
  Widths <- LineWidths
INVARIANTS LineBreaksIgnored
CHECK_DEADLOCK FALSE
