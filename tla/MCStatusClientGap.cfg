CONSTANTS
    trust = trust
    config = config
    no = no
    Unknown = Unknown
    NoCaller = NoCaller
    Props <- TwoProps
    Order <- TwoOrder
    Values <- OneValue
    Initial <- TwoInitial
    Callers <- NoCallers
    MaxSets = 2
    MaxStarts = 2
    Capacity = 1

SPECIFICATION Spec

CHECK_DEADLOCK FALSE

INVARIANTS
    SeesPublished
