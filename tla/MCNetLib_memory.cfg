SPECIFICATION Spec
CONSTANTS
  Objs = {o1, o2, o3, o4}
  Fds = {f1, f2}
  None = None
  MaxEvents = 1
  MaxAvail = 1
  MaxNullOpts = 1
  MaxListeners = 1
  AddEventMayFail = TRUE
  CloseOwnIn = {"CONNECT", "CONFIRM", "READ", "WRITE", "CLOSE", "TIMER"}
  CloseAnyIn = {"CONNECT", "CONFIRM", "READ", "WRITE", "CLOSE", "TIMER"}
  ConnectIn = {"MAIN", "CONNECT", "CONFIRM", "READ", "WRITE", "CLOSE", "TIMER"}
  MaxUrgent = 0
  LikeImConn = FALSE
  MayStop = FALSE
SYMMETRY Symmetry
INVARIANTS PointersLive RefsAccounted HandlesAgree
