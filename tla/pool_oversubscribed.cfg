SPECIFICATION FairSpec
CONSTANTS
  t1 = t1
  t2 = t2
  t3 = t3
  Threads = {t1, t2, t3}
  NumConns = 1
  Retry = 2
  Null = null
  Junk = junk
INVARIANTS TypeOK ExclusiveUse NothingLost CounterCovers OverrunBound
PROPERTIES ImplementsPool CallReturns
\* a junk pointer kills the process
CHECK_DEADLOCK FALSE
