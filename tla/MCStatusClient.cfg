CONSTANTS
    trust = trust
    config = config
    no = no
    Unknown = Unknown
    NoCaller = NoCaller
    Props <- TwoProps
    Order <- TwoOrder
    Values <- OneValue
    Initial <- TwoInitial
    Callers <- NoCallers
    MaxSets = 1
    MaxStarts = 2
    Capacity = 1

SPECIFICATION FairSpec

CHECK_DEADLOCK FALSE

INVARIANTS
    SeesWhatChanged

PROPERTIES
    SeesStop
    CloseReturns
