SPECIFICATION Spec
CONSTANTS
    c1 = c1
    c2 = c2
    r1 = r1
    r2 = r2
    NoValue = NoValue
    Consumers = {c1, c2}
    Garbage = NoValue
    Requests <- MCRequests
    Columns <- MCColumns
    Values <- MCValues
    Names <- MCNames
    Blank = ""
    Days <- MCDays
    Messages <- TwoRequests
    Lower <- MCLower
    Length <- MCLength
    ValidateRequestIDLength = 0
    DBRetries = 3
    UseCache = TRUE
    MaxDeliveries = 2
    MaxFaults = 0
    MaxCrashes = 0
INVARIANT
    ValidMessageStored
CHECK_DEADLOCK FALSE
