SPECIFICATION FairSpec
CONSTANTS
  Instances = {i}
  Agents = {a}
  HostPorts = {1, 2}
  Creds = {c}
  CredUsers = {i}
  Configs = {k}
  Objects = {o1, o2}
  Req <- UnitReq
  Cap <- CapOne
  OPERATION_RETRY_MAX = 1
  Ops = {"start", "stop", "config", "cancel", "watch", "reap", "wake"}
  Overlap = {"stop", "watch", "reap"}
  NoInst = NoInst
  NoAgent = NoAgent
PROPERTIES Settles QueuedIsRetried
