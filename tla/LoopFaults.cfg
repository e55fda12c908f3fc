SPECIFICATION Spec
CONSTANTS
    Consumers = {c1, c2}
    TopicPartitions = {p1}
    OffsetReset = "latest"
    MaxLog = 3
    MaxRebalances = 1
    MaxStops = 1
    MaxUpsets = 2
SYMMETRY LoopSymmetry
INVARIANTS
    NoGaps
    CommitWindow
    RepeatsNeedUpsets
    SkipsBeforeFirstHandOver
PROPERTY
    CommitsOnlyForward
CHECK_DEADLOCK FALSE
