CONSTANTS
  MaxMessages = 3
  Sizes = {0, 1, 2}
  Transmissions = 2
  FirstSeq = 8160
  AckThreshold = 0
SPECIFICATION Spec
INVARIANTS
  TypeOK
  NoMixing
  WholeMessages
  NoReplay
  DatedByFirstSegment
CHECK_DEADLOCK FALSE
