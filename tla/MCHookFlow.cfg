SPECIFICATION Spec
CONSTANTS
    Session <- MCSession
    Request <- MCRequest
    Conn <- MCConn
    ToolCall <- MCToolCall
    NoSession = NoSession
    NoRequest = NoRequest
    NoTool = NoTool
    KindOf <- MCKindOf
    Owner <- MCOwner
    ReqKind <- MCReqKind
    Tool <- MCTool
    SilenceOnly = {}
    Unregistered = {}
    Removable = {}
    Attended = {"s1"}
    PlainEvents <- MCPlainEvents
    ChanCap = 2
    SinkCap = 1
    MaxHooks = 0
    MaxReplies = 1
INVARIANTS TypeOK AtMostOneVerdict ExpiryAhead NoStuckWaiting BadgeHasAuthority
CHECK_DEADLOCK FALSE
