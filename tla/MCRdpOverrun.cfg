CONSTANTS
  NULL = NULL
  SeqSpace = 65536
  Window = 1
  AckDelay = 1
  TxCap = 2
  RxCap = 3
  Backlog = 1
  Iss <- OneTryIss
  MaxSend <- SendFour
  ChanCap = 2
  Outcomes = {"sent"}
  Duplicates = FALSE
  MayTimeOut = {}
  MayClose = {}
SPECIFICATION Spec
CHECK_DEADLOCK FALSE
INVARIANT CurIsReceived
