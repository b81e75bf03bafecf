CONSTANTS
  Users = {u1, u2}
  MsgThread = msgThread
  MaxMsgs = 1
SPECIFICATION FairSpec
INVARIANTS
  TypeOK
  ReaderStopsFirst
  NothingStranded
PROPERTIES
  LossClosesSession
  CloseEnds
CHECK_DEADLOCK FALSE
