CONSTANTS
    c1 = c1
    new = new
    conf = conf
    k1 = k1
    t1 = t1
    NoCCache = NoCCache
    NoKrb5Conf = NoKrb5Conf
    NoClient = NoClient
    NoTGT = NoTGT
    NoCaller = NoCaller
    Unknown = Unknown
    KeepAlive = 5
    RetryTimer = 300
    LoginTimeout = 15
    LogoutTimeout = 5
    MaxDuration = 511
    Notifications = TRUE
    Clients <- OneClient
    CCaches <- OneCCache
    TGT <- OneTGT
    Times <- OneTime
    UsableCCaches <- OneCCache
    Krb5Confs <- OneConf
    Callers <- OneCaller
    ServedKeepAlives <- OneServed
    Networks <- TrustedOnly

SPECIFICATION BusFairSpec

INVARIANTS
    BusIsCurrent
    LoginShownIsTrue

PROPERTIES
    ShowsBusStatus
    EndsWithoutDesktop
