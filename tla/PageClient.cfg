SPECIFICATION Spec
CONSTANTS
    s = s
    p = p
    w = w
    StateReads = {s}
    PlainReads = {p}
    Writes = {w}
    Once = {p}
    CacheMax = 1
    Attempts = 2
    Downgrade = 2
    MaxRequests = 3
    WarmList <- TheWarmList
    MaxWarm = 1
    MaxTrouble = 1
INVARIANT
    CacheBounded
    StaleOnlyByWarm
    WriteOnce
PROPERTY
    Answered
