SPECIFICATION Spec
CONSTANTS
    c1 = c1
    c2 = c2
    r1 = r1
    r2 = r2
    NoValue = NoValue
    Consumers = {c1, c2}
    Garbage = NoValue
    Requests <- MCRequests
    Columns <- MCColumns
    Values <- MCValues
    Names <- MCNames
    Blank = ""
    Days <- MCDays
    Messages <- WithChosen
    Lower <- MCLower
    Length <- MCLength
    ValidateRequestIDLength = 0
    DBRetries = 1
    UseCache = TRUE
    MaxDeliveries = 3
    MaxFaults = 0
    MaxCrashes = 0
SYMMETRY ConsumerSymmetry
INVARIANTS
    CacheCoherent
    OnePayloadPerRequest
    RaceLostOnce
    ColumnsFromMessages
    DropsExplained
PROPERTY
    ColumnsNeverErased
CHECK_DEADLOCK FALSE
