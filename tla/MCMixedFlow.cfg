SPECIFICATION Spec
CONSTANTS
    Session <- MCSession
    Request <- MCRequest
    Conn <- MCConn
    ToolCall <- MCToolCall
    NoSession = NoSession
    NoRequest = NoRequest
    NoTool = NoTool
    KindOf <- MCKindOf
    Owner <- MCOwner
    ReqKind <- MCReqKind
    Tool <- MCTool
    SilenceOnly = {}
    Unregistered = {"stale"}
    Removable = {"open"}
    Attended = {}
    PlainEvents <- MCPlainEvents
    ChanCap = 1
    SinkCap = 1
    MaxHooks = 1
    MaxReplies = 1
PROPERTY NoForeignFlip
CHECK_DEADLOCK FALSE
