----------------------------- MODULE MCMixedFlow -----------------------------
(* Routing under stale, mismatched and missing session ids, and the OpenCode *)
(* transport: one Claude Code pane, one OpenCode pane the user may kill, and *)
(* one Claude Code sender whose pane raum no longer knows.                   *)
EXTENDS PermissionFlow

MCSession == {"claude", "open", "stale"}
MCRequest == {"legacy", "http"}
MCConn == {"c1"}
MCToolCall == {"t"}
MCKindOf == [s \in MCSession |-> IF s = "open" THEN "opencode" ELSE "claude-code"]
MCOwner == [r \in MCRequest |-> IF r = "http" THEN "open" ELSE NoSession]
MCReqKind == [r \in MCRequest |-> IF r = "http" THEN "opencode" ELSE "claude-code"]
MCTool == [r \in MCRequest |-> "t"]

MCPlainEvents ==
    {HookEv("claude-code", "Stop", "stale", NoRequest, "hook", NoTool),
     HookEv("claude-code", "Stop", "open", NoRequest, "hook", NoTool),
     HookEv("claude-code", "UserPromptSubmit", NoSession, NoRequest, "hook", NoTool)}
=============================================================================
