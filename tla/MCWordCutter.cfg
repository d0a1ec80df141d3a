SPECIFICATION FairSpec
CONSTANTS
  Readers = {r1}
  Versions = {0, 1, 2, 3}
  Sensitive = {1, 3}
  MaxGone = 1
  Torn = Torn
INVARIANTS QuietAnswer ChangePending
PROPERTIES FreshEventually
\* When the file does not change any more and no reader runs, nothing happens.
CHECK_DEADLOCK FALSE
