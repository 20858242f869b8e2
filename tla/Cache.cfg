SPECIFICATION CacheSpec
CONSTANTS
    r1 = r1
    r2 = r2
    k1 = k1
    k2 = k2
    k3 = k3
    Caller <- Callers
    NoCaller = NoCaller
    Key <- ThreeKeys
    MaxEntries = 2
INVARIANTS
    SingleFlight
    AwaitsLive
    CacheBounded
PROPERTY MintedKept
