SPECIFICATION Spec
CONSTANTS
  Objs = {o1, o2, o3, o4}
  Fds = {f1, f2, f3}
  None = None
  MaxEvents = 2
  MaxAvail = 1
  MaxNullOpts = 0
  MaxListeners = 1
  AddEventMayFail = FALSE
  CloseOwnIn = {"CONFIRM", "WRITE", "READ", "CLOSE"}
  CloseAnyIn = {"TIMER"}
  ConnectIn = {"MAIN", "TIMER"}
  MaxUrgent = 1
  LikeImConn = TRUE
  MayStop = TRUE
SYMMETRY Symmetry
INVARIANTS NoMisdelivery ConfirmMeansEstablished ReadAfterConfirm NoSpuriousClose
