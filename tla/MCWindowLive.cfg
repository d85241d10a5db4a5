CONSTANTS
    None = None
    Branches = {"b1", "b2"}
    MaxMoves = 2
    MaxMisses = 2
    MaxDeaths = 2
    MaxFaults = 1
SPECIFICATION LiveSpec
INVARIANTS GateOpens MergesTold
PROPERTIES DeadPageReloads Converges GitHubConverges
CHECK_DEADLOCK FALSE
