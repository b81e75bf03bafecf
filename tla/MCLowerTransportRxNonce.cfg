CONSTANTS
  MaxMessages = 1
  Sizes = {2}
  Transmissions = 1
  FirstSeq = 1
  AckThreshold = 3
SPECIFICATION Spec
INVARIANT NonceOfFirstSegment
CHECK_DEADLOCK FALSE
