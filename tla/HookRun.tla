------------------------------- MODULE HookRun -------------------------------
(***************************************************************************)
(* run_hook: a preCreate or postCreate script with a deadline, two capture *)
(* threads that read its pipes to the end, and processes the script leaves *)
(* behind, which keep the pipes open.                                      *)
(***************************************************************************)
EXTENDS Integers

CONSTANT Timeouts  \* the values of timeoutSecs explored, 0 among them: none

VARIABLES
    timeout, script, \* "absent", "unstarted", "running", "passed", "failed", "killed"
    heirs,           \* processes of the script that hold its pipes
    late,            \* the deadline has passed
    pc,              \* "start", "wait", "reap", "join", "over"
    outcome          \* what run_hook will report

vars == <<timeout, script, heirs, late, pc, outcome>>

Init ==
    /\ timeout \in Timeouts
    /\ script \in {"absent", "unstarted"}
    /\ heirs = 0 /\ late = FALSE /\ pc = "start" /\ outcome = "none"

Start ==
    /\ pc = "start"
    /\ \/ /\ script = "unstarted" /\ script' = "running" /\ pc' = "wait" /\ UNCHANGED outcome
       \/ /\ pc' = "over" /\ UNCHANGED script     \* not found, or not executable
          /\ outcome' = IF script = "absent" THEN "not found" ELSE "spawn"
    /\ UNCHANGED <<timeout, heirs, late>>

Ended == script \in {"passed", "failed", "killed"}

\* try_wait sees the exit, or wait without a timeout returns.
NoticeExit ==
    /\ pc = "wait" /\ Ended
    /\ outcome' = script /\ pc' = "join"
    /\ UNCHANGED <<timeout, script, heirs, late>>

\* Mutant: the deadline ends the wait and not the script.
GiveUpAlive ==
    /\ pc = "wait" /\ timeout > 0 /\ late
    /\ pc' = "join" /\ outcome' = "timeout"
    /\ UNCHANGED <<timeout, script, heirs, late>>

\* try_wait has said no and the clock is past the deadline: kill, which does
\* nothing to a script that has ended since, and reap.
GiveUp ==
    /\ pc = "wait" /\ timeout > 0 /\ late
    /\ script' = IF script = "running" THEN "killed" ELSE script
    /\ pc' = "join" /\ outcome' = "timeout"
    /\ UNCHANGED <<timeout, heirs, late>>

\* The capture threads end with the last process that holds the pipes.
PipesOpen == script = "running" \/ heirs > 0

Join ==
    /\ pc = "join" /\ ~PipesOpen
    /\ pc' = "over"
    /\ UNCHANGED <<timeout, script, heirs, late, outcome>>

-----------------------------------------------------------------------------
(* External: the script, what it starts, the clock. *)
Fork == /\ script = "running" /\ heirs = 0 /\ heirs' = 1
        /\ UNCHANGED <<timeout, script, late, pc, outcome>>
HeirEnds == /\ heirs > 0 /\ heirs' = heirs - 1
            /\ UNCHANGED <<timeout, script, late, pc, outcome>>
ScriptEnds == /\ script = "running" /\ script' \in {"passed", "failed"}
              /\ UNCHANGED <<timeout, heirs, late, pc, outcome>>
Deadline == /\ pc = "wait" /\ timeout > 0 /\ ~late /\ late' = TRUE
            /\ UNCHANGED <<timeout, script, heirs, pc, outcome>>

Next == Start \/ NoticeExit \/ GiveUp \/ Join \/ Fork \/ HeirEnds \/ ScriptEnds \/ Deadline

\* The waiting thread runs, the clock goes on, and what a script starts ends.
Fairness == WF_vars(Start) /\ WF_vars(NoticeExit \/ GiveUp) /\ WF_vars(Join)
            /\ WF_vars(Deadline) /\ WF_vars(HeirEnds)

Spec     == Init /\ [][Next]_vars
FairSpec == Spec /\ Fairness

-----------------------------------------------------------------------------
\* hooks.rs: "never wait past the deadline, then kill": with a timeout run_hook
\* returns, also from a script that does not end by itself, once what it has
\* started has ended.
Timed       == timeout > 0
Returned    == pc = "over"
HookReturns == Timed ~> Returned
=============================================================================
