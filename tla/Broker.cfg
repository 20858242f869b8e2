SPECIFICATION FairSpec
CONSTANTS
    r1 = r1
    r2 = r2
    t1 = t1
    k1 = k1
    Caller <- TwoRequests
    NoCaller = NoCaller
    Key <- OneKey
    MaxEntries = 1
    Keepalive <- OneTick
    AutoLogin = TRUE
    MaxLogins = 1
    MaxDeaths = 1
CHECK_DEADLOCK FALSE
INVARIANTS
    OneLogin
    HandlersAwait
PROPERTIES
    RecoveryStarted
    RequestsAnswered
