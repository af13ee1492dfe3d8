SPECIFICATION Spec
CONSTANTS
    Versions = {"v1", "v2"}
    Broken = {"v2"}
    Requests = {r1}
    MaxTargets = 1
    Ports = {"p1", "p2", "bad"}
    Malformed = {"bad"}
    FailThreshold = 2
    Wait = 1
    MaxUpsets = 1
    r1 = r1
    None = None
INVARIANT
    RowIsTrue
PROPERTIES
    Debounced
    NotStuck
    RowFollowsAgent
