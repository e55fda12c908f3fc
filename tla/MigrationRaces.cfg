SPECIFICATION FairSpec
CONSTANTS
    p1 = p1
    p2 = p2
    p3 = p3
    o1 = o1
    o2 = o2
    Nobody = Nobody
    Pods <- MCPods
    Operators <- MCOperators
    MaxFaults = 3
INVARIANTS
    TypeOK
    VersionTellsSchema
    DirtyByFault
    ServingHasTables
PROPERTIES
    StuckForEver
    AllServe
CHECK_DEADLOCK FALSE
