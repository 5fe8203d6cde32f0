SPECIFICATION Spec
CONSTANTS
    NoDeadline = NoDeadline
    NoLimit = NoLimit
    Subscriptions = {0, 1}
    c1 = c1
    c2 = c2
    Callers = {c1, c2}
    Startup <- OneOwnCall
    HasPassword = TRUE
    ReconnectEnabled = TRUE
    MaxAttempts = 1
    AttemptMax = 3
    Challenges = {TRUE}
    CloseCodes = {0}
    Garbles = TRUE
    WrongKinds = TRUE
    MaxInFlight = 1
SYMMETRY
    CallersAlike
INVARIANTS
    TypeOK
    CallersTracked
    WaitersMatchPending
    NobodyMisrouted
    SubscriptionsKept
    ServesIdentified
PROPERTIES
    ImplementsLifecycle
