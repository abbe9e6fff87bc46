CONSTANTS
  NumConns = 4
  SizeMax = 7
  OutOfMemory = TRUE
  Processes = {p1}
  Threads = {t1, t2, t3, t4}
  Conns <- Entries
  MaxDeaths = 2
  Gone = Gone
  NoConn = NoConn
SPECIFICATION FairSpec
INVARIANTS TypeOK ServesOnlyConnected FreedOnce OwnAnswer
PROPERTY StartupSettles
\* the process ends
CHECK_DEADLOCK FALSE
