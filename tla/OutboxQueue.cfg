CONSTANTS
    w1 = w1
    w2 = w2
    Worker = {w1, w2}
    NumEntries = 2
    BatchSize = 2
    MaxAttempts = 2
    BackoffBase = 1
    BackoffMax = 2
    LockTime = 2
    Skew <- MCSkew
    Retention = 1
    PurgeLimit = 1
    Healthy = {2}
    Poison = {}
    MaxFaults = 1
SPECIFICATION FairSpec
INVARIANTS
    TypeOK
    ExclusiveUnlessOverran
    SettledOnce
    AttemptsBounded
PROPERTIES
    ImplementsAtLeastOnce
    Settles
    HealthyIsProcessed
