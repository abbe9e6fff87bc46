SPECIFICATION MainFairSpec
CONSTANTS
  NumConns = 3
  SizeMax = 7
  OutOfMemory = TRUE
PROPERTY FreesAllCreated
\* the process ends
CHECK_DEADLOCK FALSE
