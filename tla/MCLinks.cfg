CONSTANTS
  KissTasks = {k1, k2}
  KissPlain = {"a", "b", "c"}
  KissPackets <- MCKissPackets
  KissMtu = 2
  KissMinLength = 2
  KissFaults = 2
  CanTasks = {c1, c2}
  CanLength <- MCCanLength
  CanIdSpace = 4
  CanFirstId = 3
  CanElements = 2
  CanQueueSize = 3
  CanFaults = 2
  NoCanPacket = 0
  SfpSize = 5
  SfpMtu = 2
  SfpTransfers = 2
  SfpResults = 2
  RtrBuffers = {b1, b2, b3}
  RtrIncoming <- MCIncoming
  RtrLimit = 1
  RtrArrivals = 2
  RtrCalls = 2
SPECIFICATION Spec
CHECK_DEADLOCK FALSE
INVARIANTS LinksTypeOK KissRecovers KissOnce CanDelivers SfpWhole SfpOneTransfer RtrOnePlace RtrSeenOnce
PROPERTIES CanDrains RtrDrains
