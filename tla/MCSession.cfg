SPECIFICATION MCSpec
CONSTANTS
    NoDeadline = NoDeadline
    Subscriptions = {0}
    RpcVersions = {1}
    Deadlines <- MCDeadlines
    Times = {1, 2}
    ServerIds = {1, 2}
    Codes = {0}
    CallIds = {1, 2}
    MaxTrace = 4
    MaxWire = 3
    MaxIds = 2
INVARIANTS
    TypeOK
    SettledAtMostOnce
    CallsAccountedFor
    NothingAfterClosed
    IdentifiedComesFirst
    WireInOrder
PROPERTIES
    DeadlinesInOrder
    ImplementsLedger
VIEW
    Unpolled
