CONSTANTS
  Nobody = Nobody
  c1 = c1
  p1 = p1
  Size = 2
  Clients = {c1}
  Ports = 2
  Peers = {p1}
  RxCap = 1
  Backlog = 1
  ServerClose = "twice"
  LockMayTimeOut = FALSE
SYMMETRY Symmetry
SPECIFICATION Spec
INVARIANT ServerClosesItsOwn
