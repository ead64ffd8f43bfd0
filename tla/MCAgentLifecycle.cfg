CONSTANTS
    unit = unit
    hand = hand
    dbus = dbus
    ccache = ccache
    sleep = sleep
    NoProcess = NoProcess
    Processes <- TwoProcesses
    Unit = unit
    Parts <- ThreeParts
    Order <- StartOrder
    CommandLines <- SomeCommandLines
    Files <- SomeFiles

SPECIFICATION FairSpec

INVARIANTS
    OneAgent
    ConfigInEffect

PROPERTIES
    InterruptEnds
    FailureRestarts
