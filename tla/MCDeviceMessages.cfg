CONSTANTS
  Clients = {c1, c2}
  MsgThread = msgThread
  NoThread = noThread
  MaxCommands = 2
  MaxPackets = 1
  MaxFailures = 1
  SharedWait = FALSE
SPECIFICATION FairSpec
INVARIANTS
  TypeOK
  FrameIntegrity
  AnswerBelongs
  AnsweredOnce
  AnswerReachesCaller
PROPERTIES
  MessageCustody
  CommandReturns
  BackgroundDelivered
CHECK_DEADLOCK FALSE
