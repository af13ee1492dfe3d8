SPECIFICATION FairSpec
CONSTANTS
  Subs <- MCSubs
  Instances = {i, j}
  Handlers = {h}
  Sweeper = sweeper
  MaxInstances <- MCMaxInstances
  MaxTime = 2
  Overlap = FALSE
  NoSub = NoSub
  NoInst = NoInst
INVARIANTS PaidFor OneSlot
PROPERTY OverdueExpires
CHECK_DEADLOCK FALSE
