SPECIFICATION ReadSpec
CONSTANTS
    c1 = c1
    c2 = c2
    r1 = r1
    r2 = r2
    NoValue = NoValue
    Consumers = {c1}
    Garbage = NoValue
    Requests <- MCRequests
    Columns <- MCColumns
    Values <- MCValues
    Names <- MCNames
    Blank = ""
    Days <- ReadDays
    Messages <- Reports
    Lower <- MCLower
    Length <- MCLength
    ValidateRequestIDLength = 0
    DBRetries = 1
    UseCache = FALSE
    MaxDeliveries = 3
    MaxFaults = 0
    MaxCrashes = 0
    RetentionDays = 1
    MAX_NUMBER_OF_RETRIES = 1
    Collation <- MCCollation
    IntLimit = 8
    Walks <- MCWalks
    MaxJobFaults = 0
INVARIANT
    FoundIfStored
CHECK_DEADLOCK FALSE
