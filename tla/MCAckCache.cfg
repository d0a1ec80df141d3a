SPECIFICATION FairSpec
CONSTANTS
  u1 = u1
  u2 = u2
  g1 = g1
  g2 = g2
  Handlers = {h1, h2}
  Members <- TheMembers
  Table <- TheTable
  LastId <- TheLastId
  CacheLimit = 1
  None = None
INVARIANTS NoAckLost
PROPERTIES ReadNeverUnread AckWritten
\* When every id was acknowledged and written, nothing is left to do.
CHECK_DEADLOCK FALSE
