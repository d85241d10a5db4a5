---------------------------- MODULE MCStateFanout ----------------------------
(* One Claude Code session with the three hook events that move it to       *)
(* Working, to Completed and to Waiting.                                     *)
EXTENDS StateFanout

MCSession == {"s1"}
MCKindOf == [s \in MCSession |-> "claude-code"]
MCHookEvents == {[event |-> name, source |-> "hook", payload |-> "none"] :
                     name \in {"UserPromptSubmit", "Stop", "PermissionRequest"}}
=============================================================================
