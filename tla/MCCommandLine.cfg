CONSTANTS
    trust = trust
    config = config
    yes = yes
    no = no
    Unknown = Unknown
    k1 = k1
    NoCaller = NoCaller
    Props <- TwoProps
    Order <- TwoOrder
    Values <- TwoValues
    Initial <- TwoInitial
    Callers <- OneCaller

SPECIFICATION FairSpec

INVARIANTS
    PublishedCurrent
    UnknownAfterStop
    ExitTellsTruth

PROPERTIES
    AgentGetsOn
    CommandsEnd
