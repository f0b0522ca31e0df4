CONSTANTS
    NumProducts = 2
    PageSize = 1
    Api = {api}
    Cli = {cli}
    Starts = {"current"}
    MaxIndex = 2
    MaxCommits = 2
    MaxRuns = 1
    MaxFaults = 1
    MaxLost = 0
CHECK_DEADLOCK FALSE
SPECIFICATION Spec
INVARIANTS
    TypeOK
    OneLiveIndex
PROPERTIES
    AliasNeverMissing
    SwapIsComplete
