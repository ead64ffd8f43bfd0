CONSTANTS
    c1 = c1
    good = good
    bad = bad
    conf = conf
    NoCCache = NoCCache
    NoKrb5Conf = NoKrb5Conf
    KeepAlive = 5
    RetryTimer = 15
    LoginTimeout = 15
    LogoutTimeout = 5
    MaxDuration = 511
    Clients <- MCClients
    CCaches <- MCCCaches
    Krb5Confs <- MCKrb5Confs
    UsableCCaches <- MCUsable
    ServedKeepAlives <- MCServed

SPECIFICATION ClientSpec

INVARIANTS
    TimerPending
    WaitFitsOutcome

PROPERTIES
    StopReturns
    KeepsRefreshing
