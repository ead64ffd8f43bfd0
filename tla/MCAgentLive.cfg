CONSTANTS
    c1 = c1
    c2 = c2
    old = old
    same = same
    new = new
    alien = alien
    conf1 = conf1
    conf2 = conf2
    k1 = k1
    t1 = t1
    t2 = t2
    NoCCache = NoCCache
    NoKrb5Conf = NoKrb5Conf
    NoClient = NoClient
    NoTGT = NoTGT
    NoCaller = NoCaller
    KeepAlive = 5
    RetryTimer = 15
    LoginTimeout = 15
    LogoutTimeout = 5
    MaxDuration = 511
    Notifications = FALSE
    Clients <- OneClient
    CCaches <- OneCCache
    TGT <- OneTGT
    Times <- AllTimes
    UsableCCaches <- OneUsable
    Krb5Confs <- OneConf
    Callers <- NoCallers
    ServedKeepAlives <- OneServed
    Networks <- AnyNetwork

SPECIFICATION FairSpec

PROPERTIES
    StatusSpec
    ProcessEnds
    UntrustedLogsOut
    TrustedLogsIn
