SPECIFICATION Spec
CONSTANTS
    Session <- MCSession
    NoRow = NoRow
    KindOf <- MCKindOf
    HookEvents <- MCHookEvents
    BusCap = 1
    MaxChanges = 2
    MaxAcks = 2
    MaxReloads = 1
    MaxFails = 1
    MaxRestarts = 1
INVARIANTS TypeOK Converges DismissedStaysDismissed
PROPERTIES RefinesLedger PersistBeforeEmit
CHECK_DEADLOCK FALSE
