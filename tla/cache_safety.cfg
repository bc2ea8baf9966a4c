\* Three keys in a cache of two, two searches, two writes, one of which may fail.
CONSTANTS
    Keys = {k1, k2, k3}
    NoKey = NoKey
    NoEntry = NoEntry
    Searchers = {s1, s2}
    Writers = {w1, w2}
    Capacity = 2
    TTL = 1
    MaxCorpus = 2
    MaxFaults = 1
SPECIFICATION FairSpec
INVARIANTS
    CacheInv
    KeepsTheRecent
    StaleHasAReason
PROPERTIES
    EventuallyFresh
