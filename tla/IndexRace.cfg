CONSTANTS
    NumProducts = 1
    PageSize = 1
    Api = {api}
    Cli = {cli}
    Starts = {"current"}
    MaxIndex = 3
    MaxCommits = 3
    MaxRuns = 2
    MaxFaults = 0
    MaxLost = 0
CHECK_DEADLOCK FALSE
SPECIFICATION Spec
PROPERTIES
    SwapLosesNoWrite
