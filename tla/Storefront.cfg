SPECIFICATION Spec
CONSTANTS
  None = None
  Modes <- MCModes
  Games = {g1, g2}
  Orders = {o1, o2}
  Insts = {i1, i2}
  Configs = {c1}
  Plans = {l1, l2}
  Subs = {s1, s2}
  Procs = {p1, p2}
SYMMETRY MCSymmetry
INVARIANTS InstancesOwned DeletedIsGone ReferencesHold
PROPERTIES OrderPath RunningKept
