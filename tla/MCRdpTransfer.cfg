CONSTANTS
  NULL = NULL
  SeqSpace = 65536
  Window = 1
  AckDelay = 1
  TxCap = 2
  RxCap = 6
  Backlog = 1
  Iss <- OneTryIss
  MaxSend <- SendTwo
  ChanCap = 2
  Outcomes = {"sent"}
  Duplicates = TRUE
  MayTimeOut = {}
  MayClose = {}
SPECIFICATION Spec
CHECK_DEADLOCK FALSE
INVARIANTS TypeOK NothingForgotten AckIsHonest BufferedAhead
PROPERTY ImplementsStream
