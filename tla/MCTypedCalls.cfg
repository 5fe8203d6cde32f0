CONSTANTS
    Releases <- MCReleases
    RawRequests <- MCRawRequests
    NewEvents = {"SomethingNew"}
    Batches <- MCBatches
    MaxConnections = 2
SPECIFICATION Spec
INVARIANTS
    NeverAskedInVain
    ExpressesProtocol
    EverythingIsRead
    GeneratedIsCurrent
PROPERTIES
    OnlyUnknownRefused
