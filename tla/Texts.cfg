SPECIFICATION TextsSpec
CONSTANTS
  letter = letter
  zero = zero
  newline = newline
  Bytes <- SomeBytes
  MaxLen = 5
  Widths <- LineWidths
  Letters = {letter, zero}
  LineEnd = newline
  Zero = zero
  MotdSize = 6
  Ports <- SomePorts
  MaxRanges = 2
  KeyBegin = 2
  KeyEnd = 4
  MacLen = 12
  Wrap = 64
  KeyLens <- SomeLens
INVARIANTS TypeOK DecodesPrefix DecodesAll MotdSentInLines PortsAsWritten ReleasedOnReturn ReadsInBounds
CHECK_DEADLOCK FALSE
