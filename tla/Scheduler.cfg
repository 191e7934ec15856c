SPECIFICATION FairSpec
CONSTANTS
    Locks <- BandsAB
    Configs <- Ample
    Limit = 2
    Cooldown = 3
    Allowed <- EachTrouble
INVARIANTS
    TypeOK
    LockWaitsForCooldown
    OneFailureNotice
    AppliedLocksInForce
PROPERTIES
    Converges
    LockOutEnds
