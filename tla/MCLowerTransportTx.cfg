CONSTANTS
  MaxMessages = 2
  SegmentCounts = {1, 4}
  MaxAcks = 2
  MaxRounds = 2
  MaxIdleRounds = 2
SPECIFICATION FairSpec
INVARIANTS
  TypeOK
  AckedWasReceived
  SeqDistinct
PROPERTY ThreadEnds
CHECK_DEADLOCK FALSE
