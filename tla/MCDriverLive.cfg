SPECIFICATION FairSpec
CONSTANTS
    NoDeadline = NoDeadline
    NoLimit = NoLimit
    Subscriptions = {0}
    c1 = c1
    c2 = c2
    Callers = {c1}
    Startup <- CallAndBatch
    HasPassword = FALSE
    ReconnectEnabled = TRUE
    MaxAttempts = 2
    AttemptMax = 3
    Challenges = {TRUE, FALSE}
    CloseCodes = {4009}
    Garbles = FALSE
    WrongKinds = FALSE
    MaxInFlight = 1
INVARIANTS
    NeverRetriesRefused
PROPERTIES
    CallsSettle
    ConnectReturns
