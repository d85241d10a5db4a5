----------------------------- MODULE MCHookFlow -----------------------------
(* One Claude Code session whose requests arrive over the event socket from *)
(* blocking hook scripts.                                                    *)
EXTENDS PermissionFlow

MCSession == {"s1"}
MCRequest == {"r1", "r2"}
MCConn == {"c1", "c2"}
MCToolCall == {"t1", "t2"}
MCKindOf == [s \in MCSession |-> "claude-code"]
MCOwner == [r \in MCRequest |-> "s1"]
MCReqKind == [r \in MCRequest |-> "claude-code"]
MCTool == [r \in MCRequest |-> IF r = "r1" THEN "t1" ELSE "t2"]
MCSameTool == [r \in MCRequest |-> "t1"]

Hook(name, sid) == HookEv("claude-code", name, sid, NoRequest, "hook", NoTool)
MCPlainEvents == {Hook("Stop", "s1")}
=============================================================================
