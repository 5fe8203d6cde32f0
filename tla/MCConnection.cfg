SPECIFICATION Spec
CONSTANTS
    NoDeadline = NoDeadline
    Subscriptions = {0}
    RequestTimeout = 1
    LastStart = 1
    MaxCalls = 3
    MaxEvents = 2
    MaxInFlight = 2
    MaxGarbage = 1
    Codes = {1000, 4009}
    ConfirmsReidentify = TRUE
INVARIANTS
    OwnAnswer
    EventsInOrder
PROPERTIES
    TimeoutsAreDue
    NoAnswerOverlooked
    ClosedIsFinal
CHECK_DEADLOCK FALSE
