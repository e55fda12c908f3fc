SPECIFICATION FairSpec
CONSTANTS
    Consumers = {c1, c2}
    TopicPartitions = {p1}
    OffsetReset = "earliest"
    MaxLog = 2
    MaxRebalances = 1
    MaxStops = 1
    MaxUpsets = 2
INVARIANT
    OrderKept
PROPERTY
    EventuallyHanded
CHECK_DEADLOCK FALSE
