SPECIFICATION Spec
CONSTANTS
  None = None
  Instances = {1, 2}
  Agents = {1, 2}
  HardDims = {"cpu", "disk"}
  SoftDims = {"bw"}
  Core = 2
  Cap <- MCCap
  Target = 8
  Used <- MCUsed
  Samples <- MCSamples
  Location <- MCLocation
  Region <- MCRegion
  regionForce = FALSE
  Freq <- MCFreq
  Override <- MCOverride
  DefaultReq <- MCDefaultReq
  Configs <- MCConfigs
  Config0 <- NatConfig
  Branches <- MCBranches
  Cache0 <- MCCache0
  Steam0 <- MCSteam0
  CacheSize = 4
  Priority <- MCPriority
  reservationRetry = 1
  maxPerRound = 1
  backoffBase = 1
  backoffMax = 2
  timeout = 5
  MaxChanges = 1
  TCP_PORT_BEGIN = 51
  TCP_PORT_END = 54
  UDP_PORT_BEGIN = 51
  UDP_PORT_END = 54
INVARIANTS LimitsKept PlanIsUsable PreviewAgrees
PROPERTIES TransactionsKept CallsEnd
