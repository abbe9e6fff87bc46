SPECIFICATION Spec
CONSTANTS
  t1 = t1
  t2 = t2
  Threads = {t1, t2}
  MaxConns = 2
  MaxEvents = 4
  MaxPending = 0
  Pipeline = 1
SYMMETRY ThreadSymmetry
INVARIANTS OwnAnswersInOrder WaitingBounded
PROPERTY ImplementsLife
\* every client may be gone
CHECK_DEADLOCK FALSE
