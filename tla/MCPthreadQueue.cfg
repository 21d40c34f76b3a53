SPECIFICATION Spec
CONSTANTS
  Threads = {t1, t2, t3}
  Items = {x, y}
  Size = 2
  Nobody = Nobody
SYMMETRY Symmetry
INVARIANTS TypeOK HolderOK NoLostWakeup
PROPERTY ImplementsFifo
