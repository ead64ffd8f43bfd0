CONSTANTS
    NoEvent = NoEvent
    Capacity = 2
    MaxSignals = 5

SPECIFICATION FairSpec

CHECK_DEADLOCK FALSE

INVARIANTS
    NoneLost

PROPERTIES
    ImplementsSource
    SleepArrives
