SPECIFICATION SystemSpec
CONSTANTS
    c1 = c1
    c2 = c2
    r1 = r1
    r2 = r2
    NoValue = NoValue
    Consumers = {c1}
    Garbage = NoValue
    Requests <- MCRequests
    Columns <- MCColumns
    Values <- MCValues
    Names <- MCNames
    Blank = ""
    Days <- SystemDays
    Messages <- Reports
    Lower <- MCLower
    Length <- MCLength
    ValidateRequestIDLength = 0
    DBRetries = 1
    UseCache = FALSE
    MaxDeliveries = 2
    MaxFaults = 0
    MaxCrashes = 0
    RetentionDays = 2
    MAX_NUMBER_OF_RETRIES = 2
    MaxJobFaults = 1
INVARIANTS
    StatusResolves
    FreshMessageStored
    PartitionsFollowTheJobs
PROPERTY
    RecentRowsKept
CHECK_DEADLOCK FALSE
