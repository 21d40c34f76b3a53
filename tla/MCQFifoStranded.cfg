CONSTANTS
  w1 = w1
  w2 = w2
  w3 = w3
  Writers = {w1, w2, w3}
  Prios = 2
  FifoCap = 2
  EventCap = 2
SPECIFICATION Spec
INVARIANT NoneStranded
