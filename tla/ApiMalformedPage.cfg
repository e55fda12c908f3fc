SPECIFICATION Spec
CONSTANTS
    MaxCalls = 1
    RequestSet <- MCRequestSet
INVARIANTS
    MalformedPageRefused
CHECK_DEADLOCK FALSE
