CONSTANTS
  Users = {u1}
  MsgThread = msgThread
  MaxMsgs = 0
SPECIFICATION FairSpec
PROPERTY CloseAlwaysEnds
CHECK_DEADLOCK FALSE
