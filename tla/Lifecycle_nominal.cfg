SPECIFICATION Spec
CONSTANTS
  Instances = {i, j}
  Agents = {a}
  HostPorts = {1, 2, 3}
  Creds = {c}
  CredUsers = {i, j}
  Configs = {k, l}
  Objects = {o1, o2}
  Req <- UnitReq
  Cap <- CapOne
  OPERATION_RETRY_MAX = 1
  Ops = {"start", "stop", "config", "cancel", "delete", "watch", "wake", "crash"}
  Overlap = {}
  NoInst = NoInst
  NoAgent = NoAgent
SYMMETRY FullSymmetry
INVARIANTS ReservationsExact CopiesAgree HoldsWhatItNeeds NothingForgotten
PROPERTY ImplementsReservations
