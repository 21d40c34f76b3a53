CONSTANTS
  Nobody = Nobody
  c1 = c1
  p1 = p1
  p2 = p2
  Size = 2
  Clients = {c1}
  Ports = 2
  Peers = {p1,p2}
  RxCap = 2
  Backlog = 1
  ServerClose = "once"
  LockMayTimeOut = TRUE
SYMMETRY Symmetry
CONSTRAINT AfterTheft
SPECIFICATION Spec
INVARIANTS TypeOK OneOwner NoLeak EventHasPacket
