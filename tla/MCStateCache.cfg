SPECIFICATION Spec
CONSTANTS
    Before <- MCBefore
    Inputs <- MCInputs
    After <- MCAfter
    None = None
    Named <- MCNamed
    Filters <- MCFilters
    MaxChanges = 2
    MaxConnections = 2
    MaxInFlight = 3
INVARIANTS
    AgreesUnlessOvertaken
    NothingMixedUp
PROPERTIES
    NeverGoesBack
CHECK_DEADLOCK FALSE
