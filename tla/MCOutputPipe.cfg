CONSTANTS
    Transports = {"control", "pty"}
    Calls = {c1, c2}
    Cap = 1
    BatchMax = 2
    FlushAt = 2
    MaxWork = 4
    Splits = {"late"}
SYMMETRY CallSymmetry
SPECIFICATION Spec
INVARIANTS TypeOK RepliesMatch NoneLeftWaiting ReportsOnlyFalls TailArrives
PROPERTIES ShowsThePane
CHECK_DEADLOCK FALSE
