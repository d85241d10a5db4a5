------------------------------ MODULE RepoPolls ------------------------------
(***************************************************************************)
(* GithubRepoService: one task per stream (deployments, releases, open     *)
(* pull requests) of the project that is open. Switching projects aborts   *)
(* the tasks and starts fresh ones; a task asks gh, pushes what differs    *)
(* from its last answer and sleeps until a nudge or, with the window       *)
(* focused, its tick.                                                      *)
(***************************************************************************)
EXTENDS Integers

CONSTANTS
    Projects,
    Streams,
    None,
    MaxMoves  \* bound on changes of what GitHub holds and of gh's health

VARIABLES
    truth,   \* per project and stream: the version GitHub would answer with
    usable,  \* repo_context finds the project and gh is logged in
    up,      \* calls of gh succeed
    moves,
    focused,
    wish,    \* the project the webview has asked for, or None
    asked,   \* the subscribe call has yet to reach the service
    active,  \* the project of the running tasks, or None
    task,    \* per stream: its task
    shown    \* per project and stream: what the webview shows, None before the first push

vars == <<truth, usable, up, moves, focused, wish, asked, active, task, shown>>
github == <<truth, usable, up, moves>>
window == <<focused, wish, asked>>

\* A task that is about to ask.
Fresh == [pc |-> "ask", nudged |-> FALSE, cached |-> None, got |-> None]
Stopped == [Fresh EXCEPT !.pc = "off"]

Init ==
    /\ truth = [p \in Projects |-> [s \in Streams |-> 0]]
    /\ usable = TRUE /\ up = TRUE /\ moves = 0
    /\ focused = TRUE /\ wish = None /\ asked = FALSE /\ active = None
    /\ task = [s \in Streams |-> Stopped]
    /\ shown = [p \in Projects |-> [s \in Streams |-> None]]

-----------------------------------------------------------------------------
(* External: GitHub, gh, the user. *)
Moves == moves < MaxMoves /\ moves' = moves + 1
GitHubChanges(p, s) ==
    /\ Moves /\ truth' = [truth EXCEPT ![p][s] = 1 - @]
    /\ UNCHANGED <<usable, up, window, active, task, shown>>
GhChanges ==
    /\ Moves
    /\ \/ usable' = ~usable /\ UNCHANGED up
       \/ up' = ~up /\ UNCHANGED usable
    /\ UNCHANGED <<truth, window, active, task, shown>>

\* setGithubActiveProject: only a change is sent.
OpenProject(p) ==
    /\ wish /= p /\ ~asked
    /\ wish' = p /\ asked' = TRUE
    /\ UNCHANGED <<github, focused, active, task, shown>>

-----------------------------------------------------------------------------
\* nudge_all.
Nudged == [s \in Streams |-> [task[s] EXCEPT !.nudged = TRUE]]

\* Mutant: the running tasks are kept and only nudged when the project changes.
SetActiveKeeps ==
    /\ asked /\ asked' = FALSE /\ active' = wish
    /\ task' = IF active /= None /\ wish /= None THEN Nudged
               ELSE [s \in Streams |-> IF wish = None THEN Stopped ELSE Fresh]
    /\ UNCHANGED <<github, focused, wish, shown>>

\* set_active.
SetActive ==
    /\ asked /\ asked' = FALSE /\ active' = wish
    /\ task' = IF active = wish THEN Nudged
               ELSE [s \in Streams |-> IF wish = None THEN Stopped ELSE Fresh]
    /\ UNCHANGED <<github, focused, wish, shown>>

\* trigger, from github_repo_refresh or a merge, for the active project.
Trigger ==
    /\ active /= None /\ \E s \in Streams : ~task[s].nudged
    /\ task' = Nudged
    /\ UNCHANGED <<github, window, active, shown>>

\* set_focused.
SetFocused ==
    /\ focused' = ~focused
    /\ task' = IF focused' /\ active /= None THEN Nudged ELSE task
    /\ UNCHANGED <<github, wish, asked, active, shown>>

\* repo_context and the call of gh, which answers with what GitHub holds then.
Ask(s) ==
    /\ task[s].pc = "ask"
    /\ task' = [task EXCEPT ![s] =
         IF usable /\ up THEN [@ EXCEPT !.pc = "apply", !.got = truth[active][s]]
         ELSE [@ EXCEPT !.pc = "sleep"]]
    /\ UNCHANGED <<github, window, active, shown>>

\* The rest of refresh_*: emit on a difference.
Apply(s) ==
    /\ task[s].pc = "apply"
    /\ shown' = IF task[s].cached = task[s].got THEN shown
                ELSE [shown EXCEPT ![active][s] = task[s].got]
    /\ task' = [task EXCEPT ![s] =
         [@ EXCEPT !.pc = "sleep", !.cached = task[s].got, !.got = None]]
    /\ UNCHANGED <<github, window, active>>

\* A nudge, or the tick with the window focused.
Wake(s) ==
    /\ task[s].pc = "sleep" /\ (task[s].nudged \/ focused)
    /\ task' = [task EXCEPT ![s] = [@ EXCEPT !.pc = "ask", !.nudged = FALSE]]
    /\ UNCHANGED <<github, window, active, shown>>

TaskStep(s) == Ask(s) \/ Apply(s) \/ Wake(s)

Next ==
    \/ \E p \in Projects : OpenProject(p) \/ \E s \in Streams : GitHubChanges(p, s)
    \/ OpenProject(None) \/ GhChanges
    \/ SetActive \/ Trigger \/ SetFocused
    \/ \E s \in Streams : TaskStep(s)

\* Commands arrive and the runtime runs its tasks and timers. Nothing is
\* assumed of the user, of GitHub or of gh.
Fairness == WF_vars(SetActive) /\ \A s \in Streams : WF_vars(Ask(s) \/ Apply(s)) /\ WF_vars(Wake(s))

Spec     == Init /\ [][Next]_vars
FairSpec == Spec /\ Fairness

-----------------------------------------------------------------------------
Shows(p) == shown[p] = truth[p]

\* The section of a project that stays open in a focused window comes to show
\* what GitHub holds, once that and gh stay as they are.
Open(p) == wish = p /\ focused /\ usable /\ up
SectionsConverge == \A p \in Projects : <>[]Open(p) => <>[]Shows(p)
=============================================================================
