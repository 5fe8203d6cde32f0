SPECIFICATION FairSpec
CONSTANTS
    NoDeadline = NoDeadline
    NoLimit = NoLimit
    Subscriptions = {0}
    c1 = c1
    c2 = c2
    Callers = {c1}
    Startup <- OneOwnCall
    HasPassword = FALSE
    ReconnectEnabled = TRUE
    MaxAttempts = NoLimit
    AttemptMax = 1
    Challenges = {FALSE}
    CloseCodes = {0}
    Garbles = FALSE
    WrongKinds = FALSE
    MaxInFlight = 1
PROPERTIES
    DroppedClientStops
