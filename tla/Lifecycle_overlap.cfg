SPECIFICATION Spec
CONSTANTS
  Instances = {i}
  Agents = {a}
  HostPorts = {1, 2}
  Creds = {c, d}
  CredUsers = {i}
  Configs = {k}
  Objects = {o1, o2}
  Req <- UnitReq
  Cap <- CapTwo
  OPERATION_RETRY_MAX = 1
  Ops = {"start", "stop", "config", "cancel", "delete", "deleteRunning", "watch", "reap", "wake", "force", "crash", "crashMid"}
  Overlap = {"start", "stop", "config", "cancel", "delete", "deleteRunning", "watch", "reap", "wake", "force"}
  NoInst = NoInst
  NoAgent = NoAgent
SYMMETRY CopySymmetry
INVARIANTS TypeOK WithinCapacity OneCredential
