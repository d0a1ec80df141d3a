SPECIFICATION LiveSpec
CONSTANTS
  Objs = {1, 2, 3}
  Fds = {3, 4}
  None = None
  MaxEvents = 3
  MaxAvail = 2
  MaxNullOpts = 0
  MaxListeners = 1
  AddEventMayFail = FALSE
  CloseOwnIn = {"READ", "CLOSE"}
  CloseAnyIn = {"TIMER"}
  ConnectIn = {"MAIN", "TIMER"}
  MaxUrgent = 1
  LikeImConn = TRUE
  MayStop = FALSE
PROPERTIES DataRead ConnectReported ResetClosed EofEdgeReported
