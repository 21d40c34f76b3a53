CONSTANTS
  NULL = NULL
  SeqSpace = 65536
  Window = 1
  AckDelay = 0
  TxCap = 3
  RxCap = 4
  Backlog = 1
  Iss <- OneTryIss
  MaxSend <- SendThree
  ChanCap = 1
  Outcomes = {"sent"}
  Duplicates = FALSE
  MayTimeOut = {}
  MayClose = {}
SPECIFICATION FairTransferSpec
CHECK_DEADLOCK FALSE
INVARIANT WithinWindow
PROPERTIES EventuallyReceived EventuallyUnblocked
