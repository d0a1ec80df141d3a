SPECIFICATION Spec
CONSTANTS
  Threads = {t1}
  Loggers = {main}
  Main = main
  Logs = {l1}
  Hello = hello
  None = None
  Dropped = dropped
  MaxChanges = 0
  JoinFirst = FALSE
INVARIANTS NoLogLost
\* After stop nothing is left to do.
CHECK_DEADLOCK FALSE
