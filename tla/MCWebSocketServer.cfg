SPECIFICATION FairSpec
CONSTANTS
  w1 = w1
  w2 = w2
  l1 = l1
  l2 = l2
  Ws = {w1, w2}
  Loops = {l1, l2}
  Loop <- TheLoop
  Seats <- TheSeats
  Consumers = {c1, c2}
  Logins <- TheLogins
  Pushes <- ThePushes
  MaxMsgs = 2
  None = None
INVARIANTS SeatsAgree EntriesLive MsgsInOrder
PROPERTIES EveryMsgHandled
\* Every connection was closed, every message handled, or the outcome is undefined.
CHECK_DEADLOCK FALSE
