SPECIFICATION FairSpec
CONSTANTS
  Threads = {t1, t2}
  Main = main
  Heap = {"h1", "h2"}
  BlockCount = 2
  MaxTasks = 4
INVARIANTS TypeOK BlocksOwned NothingLeft
PROPERTIES ImplementsFifo TasksPerformed
\* fio_start returns
CHECK_DEADLOCK FALSE
