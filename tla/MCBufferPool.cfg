CONSTANTS
  t1 = t1
  t2 = t2
  t3 = t3
  b1 = b1
  b2 = b2
  b3 = b3
  NoBuffer = NoBuffer
  Tasks = {t1, t2, t3}
  Buffers = {b1, b2, b3}
SPECIFICATION Spec
INVARIANTS TypeOK Exclusive NoneLost CountTells
