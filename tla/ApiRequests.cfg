SPECIFICATION FairSpec
CONSTANTS
    MaxCalls = 2
    RequestSet <- MCRequestSet
INVARIANTS
    LinksAreLogged
    CountersTellAnswers
    RefusalsJustified
PROPERTIES
    SignalEndsProcess
    LinkRequestsEnd
CHECK_DEADLOCK FALSE
