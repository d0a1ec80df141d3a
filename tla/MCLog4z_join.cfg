SPECIFICATION FairSpec
CONSTANTS
  Threads = {t1}
  Loggers = {main}
  Main = main
  Logs = {l1}
  Hello = hello
  None = None
  Dropped = dropped
  MaxChanges = 1
  JoinFirst = TRUE
INVARIANTS StartedMeansRunning NoLogLost NotToOldFile
PROPERTIES AcceptedTreated StopEnds
\* After stop nothing is left to do.
CHECK_DEADLOCK FALSE
