SPECIFICATION FairSpec
CONSTANTS
    Session <- MCSession
    Request <- MCRequest
    Conn <- MCConn
    ToolCall <- MCToolCall
    NoSession = NoSession
    NoRequest = NoRequest
    NoTool = NoTool
    KindOf <- MCKindOf
    Owner <- MCOwner
    ReqKind <- MCReqKind
    Tool <- MCSameTool
    SilenceOnly = {}
    Unregistered = {"s1"}
    Removable = {}
    Attended = {}
    PlainEvents <- MCPlainEvents
    ChanCap = 1
    SinkCap = 1
    MaxHooks = 0
    MaxReplies = 1
PROPERTIES EventuallyUnparked ExpiryReachesBadge
CHECK_DEADLOCK FALSE
