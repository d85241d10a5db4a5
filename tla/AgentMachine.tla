---------------------------- MODULE AgentMachine ----------------------------
(***************************************************************************)
(* The per-session agent state machine of crates/raum-core/src/agent_state *)
(* .rs and the harness-aware event classifier of harness/event.rs, as pure *)
(* operators on a machine record.                                          *)
(*                                                                         *)
(* Nothing here is a state machine in the TLA+ sense: the modules that     *)
(* EXTEND this one own the machines and call these operators under the     *)
(* registry lock, exactly where the Rust callers do.  An operator returns  *)
(* the machine after the call; the caller learns whether the Rust method   *)
(* returned Some(AgentStateChanged) by comparing the two states, because   *)
(* transition() returns None exactly when the target is the current state. *)
(***************************************************************************)
EXTENDS Naturals

AgentKind == {"claude-code", "codex", "opencode", "shell"}

AgentState == {"idle", "working", "waiting", "completed", "errored"}

(* The fields of AgentStateMachine a property can tell apart. *)
Machine == [harness : AgentKind, state : AgentState,
            silence_only : BOOLEAN, activity_armed : BOOLEAN]

NewMachine(h) == [harness |-> h, state |-> "idle",
                  silence_only |-> FALSE, activity_armed |-> FALSE]

(* Event names the drain loop can receive.  "PostToolUse" and              *)
(* "UserPromptSubmit" stand for every name the catch-all arm classifies as *)
(* a turn start, "Error" for the three error names.                        *)
EventName == {"SessionStart", "UserPromptSubmit", "PostToolUse", "Stop", "Error",
              "PermissionRequest", "Notification", "PermissionExpired"}

(* What the classifier looks for in a payload, and in the source field. *)
PayloadTag == {"none", "elicitation_dialog", "approval-requested", "agent-turn-complete"}
SourceTag == {"hook", "notify", "opencode-sse", "raum-socket"}

NotificationKind == {"TurnStart", "PermissionNeeded", "IdlePromptNeeded", "TurnEnd", "Error"}

NoKind == "none"

TargetState(kind) ==
    CASE kind = "TurnStart" -> "working"
      [] kind \in {"PermissionNeeded", "IdlePromptNeeded"} -> "waiting"
      [] kind = "TurnEnd" -> "completed"
      [] kind = "Error" -> "errored"

ClassifyPayload(h, source, payload) ==
    CASE h = "claude-code" /\ payload = "elicitation_dialog" -> "IdlePromptNeeded"
      [] h = "codex" /\ source = "notify" /\ payload = "approval-requested" -> "PermissionNeeded"
      [] h = "codex" /\ source = "notify" /\ payload = "agent-turn-complete" -> "TurnEnd"
      [] h = "opencode" /\ source = "opencode-sse" -> "IdlePromptNeeded"
      [] OTHER -> NoKind

(* classify_notification_event: NoKind is the Rust None. *)
Classify(h, ev) ==
    CASE ev.event = "PermissionRequest" -> "PermissionNeeded"
      [] ev.event = "Stop" -> "TurnEnd"
      [] ev.event = "Error" -> "Error"
      [] ev.event = "Notification" -> ClassifyPayload(h, ev.source, ev.payload)
      [] ev.event \in {"SessionStart", "PermissionExpired"} -> NoKind
      [] OTHER -> "TurnStart"

ArmActivity(m) == [m EXCEPT !.activity_armed = TRUE]

(* apply_notification_kind followed by transition(): the arm flag is set or *)
(* cleared even when the state does not change.                             *)
ApplyKind(m, kind) ==
    [m EXCEPT !.activity_armed = (kind = "TurnStart"), !.state = TargetState(kind)]

(* In silence-only mode every hook event but SessionStart is mere activity. *)
OnHookEvent(m, ev) ==
    LET started == IF ev.event = "SessionStart" THEN ArmActivity(m) ELSE m
        kind == Classify(m.harness, ev)
    IN  CASE m.silence_only /\ ev.event = "SessionStart" -> started
          [] m.silence_only /\ ev.event # "SessionStart" ->
                 [ArmActivity(m) EXCEPT !.state = "working"]
          [] ~m.silence_only /\ kind = NoKind -> started
          [] OTHER -> ApplyKind(started, kind)

(* Only Waiting demotes; the machine is re-armed because real output follows. *)
OnPermissionReply(m) ==
    IF m.state = "waiting"
    THEN [ArmActivity(m) EXCEPT !.state = "working"]
    ELSE m

OnUserAbort(m) ==
    IF m.state \in {"working", "waiting"}
    THEN [m EXCEPT !.state = "idle", !.activity_armed = FALSE]
    ELSE m

(* recent: the last output chunk is younger than the silence threshold. *)
TickSilence(m, recent) ==
    CASE m.state \in {"idle", "waiting", "completed"} /\ recent /\ m.activity_armed ->
             [m EXCEPT !.state = "working"]
      [] m.state = "working" /\ ~recent -> [m EXCEPT !.state = "idle"]
      [] OTHER -> m
=============================================================================
