SPECIFICATION FairSpec
CONSTANTS
    Session = {s1, s2}
    State <- MCState
    NoState = NoState
    NoRow = NoRow
    NoTable = NoTable
    MaxOps = 5
    MaxFails = 1
    MaxCrashes = 1
INVARIANTS TypeOK RecoveryAuthority AckInStep
PROPERTIES RefinesLedger TouchReachesDisk
CHECK_DEADLOCK FALSE
