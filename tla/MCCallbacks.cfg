SPECIFICATION Spec
CONSTANTS
    EventCallbacks = {"any", "typed"}
    StateCallbacks = {"lifecycle"}
    Streams = {"stream"}
    Payloads <- MCPayloads
    Wants <- MCWants
    Capacity = 1
    MaxReports = 3
INVARIANTS
    CalledWhenDue
    CalledInOrder
    NewsIsVisible
    StreamsSkipOnly
CHECK_DEADLOCK FALSE
