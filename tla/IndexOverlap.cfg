CONSTANTS
    NumProducts = 1
    PageSize = 1
    Api = {}
    Cli = {cli1, cli2}
    Starts = {"current", "old"}
    MaxIndex = 4
    MaxCommits = 0
    MaxRuns = 2
    MaxFaults = 0
    MaxLost = 0
CHECK_DEADLOCK FALSE
SPECIFICATION Spec
PROPERTIES
    AliasNeverMissing
