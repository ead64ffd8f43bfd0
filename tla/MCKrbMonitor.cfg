CONSTANTS
    f1 = f1
    f2 = f2
    f3 = f3
    Bad = Bad
    None = None
    MaxEvents = 3
    Contents <- ThreeContents

SPECIFICATION FairSpec

INVARIANTS
    NothingMissed
    ConsumerHasLast

PROPERTIES
    ImplementsSource
    FileArrives
