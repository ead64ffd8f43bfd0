CONSTANTS
    c1 = c1
    c2 = c2
    old = old
    same = same
    new = new
    alien = alien
    conf1 = conf1
    conf2 = conf2
    k1 = k1
    t1 = t1
    t2 = t2
    NoCCache = NoCCache
    NoKrb5Conf = NoKrb5Conf
    NoClient = NoClient
    NoTGT = NoTGT
    NoCaller = NoCaller
    KeepAlive = 5
    RetryTimer = 15
    LoginTimeout = 15
    LogoutTimeout = 5
    MaxDuration = 511
    Notifications = TRUE
    Clients <- TwoClients
    CCaches <- AllCCaches
    TGT <- AllTGT
    Times <- AllTimes
    UsableCCaches <- AllUsable
    Krb5Confs <- TwoConfs
    Callers <- OneCaller
    ServedKeepAlives <- OneServed
    Networks <- AnyNetwork

SPECIFICATION Spec
SYMMETRY Symmetric

INVARIANTS
    OneLiveClient
    ClientOnlyWhenTrusted
    LoggedInMeansSession
    ClientWheneverPossible
    CredentialsCurrent
    NotificationsCurrent
    CleanExit

PROPERTIES
    StatusSafe
    ReLoginRestarts
