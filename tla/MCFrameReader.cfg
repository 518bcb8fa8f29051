SPECIFICATION FrameSpec
CONSTANTS
  Base = 2
  HeaderLen = 2
  Caps <- TwoReads
  TOTAL_CAP = 8
  MaxStream = 9
  MaxChunk = 3
INVARIANTS
  FrameTypeOK
  NoByteLost
  NoStarvedRead
  RefusedForCause
  CapsRespected
CHECK_DEADLOCK FALSE
