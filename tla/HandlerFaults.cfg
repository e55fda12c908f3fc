SPECIFICATION FairSpec
CONSTANTS
    c1 = c1
    c2 = c2
    r1 = r1
    r2 = r2
    NoValue = NoValue
    Consumers = {c1, c2}
    Garbage = NoValue
    Requests <- MCRequests
    Columns <- MCColumns
    Values <- MCValues
    Names <- MCNames
    Blank = ""
    Days <- OneDay
    Messages <- OneRequest
    Lower <- MCLower
    Length <- MCLength
    ValidateRequestIDLength = 32
    DBRetries = 2
    UseCache = TRUE
    MaxDeliveries = 2
    MaxFaults = 2
    MaxCrashes = 1
INVARIANTS
    TypeOK
    StatusResolves
    OneRowPerDelivery
    NoSilentLoss
    CountersAgree
PROPERTIES
    CallEnds
    ImplementsStatusLog
CHECK_DEADLOCK FALSE
