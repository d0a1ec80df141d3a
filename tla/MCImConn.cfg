SPECIFICATION FairSpec
CONSTANTS
  p1 = p1
  p2 = p2
  p3 = p3
  Pdus = {p1, p2, p3}
  PduLen <- Lengths
  Malformed = {p2}
  Closing = {p1}
  Throwing = {p3}
  HeaderLen = 2
  MaxSend = 2
  ReadBuf = 2
  SndBuf = 3
  RcvBuf = 3
  None = None
\* When all PDUs are sent and handled nothing is left to do.
CHECK_DEADLOCK FALSE
INVARIANTS NothingAfterMalformed BusyHasEdge
PROPERTIES ChannelSpec EveryPduHandled
