CONSTANTS
    a1 = a1
    a2 = a2
    Agents = {a1, a2}
    MaxBuild = 2
    MaxMin = 1
    MaxPlacements = 1
    MaxUpsets = 1
    None = None
SPECIFICATION Spec
INVARIANT FilesInPlace
PROPERTIES Converges WarmingEnds
