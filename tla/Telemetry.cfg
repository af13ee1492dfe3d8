CONSTANTS
    Agents = {"a", "b"}
    Watched = {"a"}
    Running = {"i"}
    Loads <- QuietAndSpike
    ObservePeriods = 2
    RecoverPeriods = 2
    RingCapacity = 1
    ChanCapacity = 1
    BatchSize = 2
    MaxEvents = 2
    MaxUpsets = 1
SPECIFICATION Spec
INVARIANTS Conserved ObserversSeeTruth
PROPERTIES RecoveryIsEarned EventsSettle
CHECK_DEADLOCK FALSE
