SPECIFICATION LiveSpec
CONSTANTS
  Objs = {1, 2, 3, 4}
  Fds = {3, 4, 5}
  None = None
  MaxEvents = 3
  MaxAvail = 2
  MaxNullOpts = 0
  MaxListeners = 1
  AddEventMayFail = FALSE
  CloseOwnIn = {"READ", "CLOSE"}
  CloseAnyIn = {"TIMER"}
  ConnectIn = {}
  MaxUrgent = 0
  LikeImConn = TRUE
  MayStop = FALSE
PROPERTIES BacklogAccepted
