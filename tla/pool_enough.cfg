SPECIFICATION Spec
CONSTANTS
  t1 = t1
  t2 = t2
  t3 = t3
  Threads = {t1, t2, t3}
  NumConns = 3
  Retry = 2
  Null = null
  Junk = junk
SYMMETRY ThreadSymmetry
INVARIANTS InBounds PoolRefills
PROPERTY ImplementsServing
