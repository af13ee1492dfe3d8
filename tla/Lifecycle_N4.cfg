SPECIFICATION Spec
CONSTANTS
  Instances = {i, j}
  Agents = {a}
  HostPorts = {1, 2}
  Creds = {c}
  CredUsers = {i, j}
  Configs = {k}
  Objects = {o1, o2}
  Req <- UnitReq
  Cap <- CapOne
  OPERATION_RETRY_MAX = 1
  Ops = {"wake", "start", "reap"}
  Overlap = {"reap"}
  NoInst = NoInst
  NoAgent = NoAgent
INVARIANT NoOversell
CHECK_DEADLOCK FALSE
