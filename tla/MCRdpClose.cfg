CONSTANTS
  NULL = NULL
  SeqSpace = 65536
  Window = 1
  AckDelay = 1
  TxCap = 2
  RxCap = 4
  Backlog = 1
  Iss <- MCIss
  MaxSend <- SendOne
  ChanCap = 1
  Outcomes = {"sent", "failed"}
  Duplicates = TRUE
  MayTimeOut = {"client", "server"}
  MayClose = {"client", "server"}
SPECIFICATION CloseSpec
CHECK_DEADLOCK FALSE
INVARIANT NoOrphan
PROPERTY EventuallyFreed
