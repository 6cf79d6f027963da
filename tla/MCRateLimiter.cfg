CONSTANTS
  Clients = {c1}
  Workers = {w1, w2}
  Limit = 2
  Window = 4
  Delay = 2
  MaxAttempts = 7
  MaxTime = 7
SPECIFICATION Spec
SYMMETRY Symmetry
INVARIANT SlidingBound
INVARIANT PoliteNeverRejected
