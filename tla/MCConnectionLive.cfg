SPECIFICATION FairSpec
CONSTANTS
    NoDeadline = NoDeadline
    Subscriptions = {0}
    RequestTimeout = 1
    LastStart = 1
    MaxCalls = 2
    MaxEvents = 2
    MaxInFlight = 2
    MaxGarbage = 1
    Codes = {1000}
    ConfirmsReidentify = TRUE
PROPERTIES
    TimedCallsEnd
    ClosedEndsCalls
CHECK_DEADLOCK FALSE
