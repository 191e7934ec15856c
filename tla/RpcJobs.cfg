SPECIFICATION FairSpec
CONSTANTS
    Clients = {c1, c2}
    NoClient = NoClient
    MaxCells = 1
INVARIANTS
    TypeOK
    GatesMatchJobs
    VerdictNotStale
    AbortIsOfThisScan
    DataEntryCleared
PROPERTIES
    GatesReopen
    RequestsEnd
