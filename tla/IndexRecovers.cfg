CONSTANTS
    NumProducts = 1
    PageSize = 1
    Api = {api}
    Cli = {cli}
    Starts = {"cold", "bare", "old"}
    MaxIndex = 8
    MaxCommits = 1
    MaxRuns = 3
    MaxFaults = 1
    MaxLost = 1
CHECK_DEADLOCK FALSE
SPECIFICATION FairSpec
INVARIANTS
    LiveIsMapped
PROPERTIES
    SkipIsSound
    ServedInTheEnd
