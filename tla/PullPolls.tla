------------------------------ MODULE PullPolls ------------------------------
(***************************************************************************)
(* GithubPrService: the poll task of one worktree asks gh for the pull     *)
(* request of the branch that is checked out, pushes what differs from its *)
(* last answer to the chip, and announces the edges between two answers.   *)
(* A pull request changes on GitHub, branches change in the worktree, gh   *)
(* fails and logs in and out in between.                                   *)
(*                                                                         *)
(* Named assumption: a task that is aborted while its compute ends has     *)
(* emitted before gh, started after the abort, answers.                    *)
(***************************************************************************)
EXTENDS Integers

CONSTANTS
    Branches, \* branches of the worktree, each with at most one pull request
    None,
    MaxMoves  \* bound on changes of pull requests and on switches of branches

VARIABLES
    head,      \* the branch checked out
    pr,        \* per branch: its pull request on GitHub, or None
    login,     \* gh is logged into the host
    up,        \* calls of gh succeed
    status,    \* gh::status: the cached login, None when older than 60 s
    focused,
    mounted,   \* the webview has subscribed the path
    task,      \* the WatchEntry: None or the state of its task
    chip,      \* what the webview shows: None or <<available, pull request>>
    moves,
    (* history variables: written by actions, read by properties only *)
    announced, \* per branch: how often its merge was announced
    asof,      \* the branch of the last answer
    witnessed, \* the branch this task has seen open, none switched to since
    switched

vars == <<head, pr, login, up, status, focused, mounted, task, chip, moves,
          announced, asof, witnessed, switched>>
github == <<head, pr, login, up, moves, switched>>
screen == <<focused, mounted>>

Pulls == {"OPEN", "MERGED"}
Alive == task /= None /\ task.pc /= "dead"

Seed == [pc |-> "ask", trigger |-> FALSE, remote |-> FALSE, cached |-> None, got |-> None]

Init ==
    /\ head \in Branches /\ pr = [b \in Branches |-> None]
    /\ login \in BOOLEAN /\ up = TRUE /\ status = None
    /\ focused = TRUE /\ mounted = FALSE /\ task = None /\ chip = None /\ moves = 0
    /\ announced = [b \in Branches |-> 0] /\ asof = None /\ witnessed = None
    /\ switched = FALSE

-----------------------------------------------------------------------------
(* External: GitHub, the worktree, gh. *)
Outside == UNCHANGED <<status, screen, task, chip, announced, asof>>

PullChanges(b) ==
    /\ moves < MaxMoves /\ moves' = moves + 1
    /\ \E next \in Pulls :
         /\ pr[b] /= None => pr[b] = "OPEN" /\ next = "MERGED"
         /\ pr[b] = None => next = "OPEN"
         /\ pr' = [pr EXCEPT ![b] = next]
    /\ UNCHANGED <<head, login, up, witnessed, switched>> /\ Outside

SwitchBranch(b) ==
    /\ b /= head /\ moves < MaxMoves /\ moves' = moves + 1
    /\ head' = b /\ witnessed' = None /\ switched' = TRUE
    /\ UNCHANGED <<pr, login, up>> /\ Outside

GhChanges ==
    /\ \/ login' = ~login /\ UNCHANGED up
       \/ up' = ~up /\ UNCHANGED login
    /\ UNCHANGED <<head, pr, moves, witnessed, switched>> /\ Outside

StatusExpires ==
    /\ status /= None /\ status' = None
    /\ UNCHANGED <<github, screen, task, chip, announced, asof, witnessed>>

-----------------------------------------------------------------------------
(* The webview and the service. *)
Polls == UNCHANGED <<github, status, chip, announced, asof>>

\* set_subscriptions with the path: a task that has panicked is replaced.
Subscribe ==
    /\ mounted' = TRUE
    /\ IF Alive THEN UNCHANGED <<task, witnessed>> ELSE task' = Seed /\ witnessed' = None
    /\ UNCHANGED focused /\ Polls

Unsubscribe ==
    /\ mounted /\ mounted' = FALSE
    /\ task' = None /\ witnessed' = None
    /\ UNCHANGED focused /\ Polls

Nudge == IF task = None THEN None ELSE [task EXCEPT !.trigger = TRUE]

\* A push of the branch, or the manual refresh: trigger, trigger_project.
Trigger ==
    /\ task' = Nudge
    /\ UNCHANGED <<screen, witnessed>> /\ Polls

\* github_pr_merge: when the remote branch cannot be deleted because gh fails
\* the command fails, although the merge has landed, and triggers nothing.
MergePull ==
    /\ up /\ pr[head] = "OPEN"
    /\ pr' = [pr EXCEPT ![head] = "MERGED"]
    /\ task' \in {task, Nudge}
    /\ UNCHANGED <<head, login, up, moves, status, screen, chip, announced, asof, witnessed, switched>>

\* Focus gained: all paths are triggered; the webview subscribes again.
SetFocused ==
    /\ focused' = ~focused
    /\ task' = IF focused' THEN Nudge ELSE task
    /\ UNCHANGED <<mounted, witnessed>> /\ Polls

-----------------------------------------------------------------------------
(* spawn_poll_task. *)
Wakes(pc) == task /= None /\ task.pc = pc

\* A trigger, or the tick while focused; then the burst of 200 ms.
Receive ==
    /\ Wakes("quiet") /\ task.trigger
    /\ task' = [task EXCEPT !.pc = "ask", !.trigger = FALSE]
    /\ UNCHANGED <<screen, witnessed>> /\ Polls

\* Mutant: no tick for a path without a pull request.
TickWhileShown ==
    /\ Wakes("quiet") /\ focused /\ task.cached[2] # None
    /\ task' = [task EXCEPT !.pc = "ask"]
    /\ UNCHANGED <<screen, witnessed>> /\ Polls

Tick ==
    /\ Wakes("quiet") /\ focused
    /\ task' = [task EXCEPT !.pc = "ask"]
    /\ UNCHANGED <<screen, witnessed>> /\ Polls

\* gh::resolve, with the cached status.
Resolves(seen) == task.remote \/ seen

\* gh::status, probed again when the cached one is too old.
Seen == IF status = None THEN login ELSE status

\* gh run with the branch: <<available, pull request>>, or <<>> for an error.
Answer == IF ~up \/ ~login THEN <<>> ELSE <<TRUE, pr[head]>>

\* compute.
Ask ==
    /\ Wakes("ask")
    /\ LET can == Resolves(Seen) IN
         task' = [task EXCEPT !.pc = "land", !.remote = can,
                              !.got = IF can THEN Answer ELSE <<FALSE, None>>]
    /\ status' = IF task.remote THEN status ELSE Seen
    /\ asof' = head
    /\ UNCHANGED <<github, screen, chip, announced, witnessed>>

\* transitions, the Merged one of them.
Merges(prev, next) ==
    prev /= None /\ prev[2] = "OPEN" /\ next[2] = "MERGED"

\* Mutant: an error forgets the last answer.
AfterErrorForgets(cached) == <<FALSE, None>>

\* An error keeps the last answer; a first one counts as "no GitHub here".
AfterError(cached) == IF cached = None THEN <<FALSE, None>> ELSE cached

\* recompute_and_emit.
Land ==
    /\ Wakes("land")
    /\ LET fresh == IF task.got = <<>> THEN AfterError(task.cached) ELSE task.got IN
       /\ chip' = IF fresh /= task.cached THEN fresh ELSE chip
       /\ task' = [task EXCEPT !.pc = "quiet", !.cached = fresh, !.got = None]
       /\ announced' = IF task.got /= <<>> /\ Merges(task.cached, fresh)
                       THEN [announced EXCEPT ![asof] = (@ + 1) % 3] ELSE announced
       /\ witnessed' = IF task.got /= <<>> /\ fresh[2] = "OPEN" /\ asof = head
                       THEN head ELSE witnessed
    /\ UNCHANGED <<github, status, screen, asof>>

\* A panic.
TaskDies ==
    /\ Wakes("land")
    /\ task' = [task EXCEPT !.pc = "dead", !.cached = None, !.got = None, !.trigger = FALSE]
    /\ witnessed' = None
    /\ UNCHANGED screen /\ Polls

Next ==
    \/ \E b \in Branches : PullChanges(b) \/ SwitchBranch(b)
    \/ GhChanges \/ StatusExpires
    \/ Subscribe \/ Unsubscribe \/ Trigger \/ MergePull \/ SetFocused
    \/ Receive \/ Tick \/ Ask \/ Land \/ TaskDies

\* The tick is finite in every state of the task (tick_for, TICK_ERROR).
Fairness == /\ WF_vars(Receive \/ Tick) /\ WF_vars(Ask) /\ WF_vars(Land) /\ WF_vars(StatusExpires)

Spec     == Init /\ [][Next]_vars
FairSpec == Spec /\ Fairness

-----------------------------------------------------------------------------
\* What gh answers, and the states of the poll task.
Answers == BOOLEAN \X (Pulls \cup {None})
Tasks   == [pc : {"ask", "quiet", "land", "dead"}, trigger : BOOLEAN, remote : BOOLEAN,
            cached : Answers \cup {None}, got : Answers \cup {<<>>, None}]

TypeOK ==
    /\ head \in Branches /\ pr \in [Branches -> Pulls \cup {None}]
    /\ {login, up, focused, mounted, switched} \subseteq BOOLEAN
    /\ (task /= None) = mounted /\ task \in Tasks \cup {None}

\* The chip of a path whose task lives shows the pull request on GitHub, once
\* the window stays focused and gh answers, whatever failed before.
Polling       == Alive /\ focused /\ up /\ login
ChipShows     == chip = <<TRUE, pr[head]>>
ChipConverges == <>[]Polling => <>[]ChipShows

\* pr_service.rs: an edge between two answers is announced: when a pull request
\* that this task has seen open is known to be merged the toast has been sent,
\* also when calls of gh failed in between...
MergeAnnounced ==
    \A b \in Branches :
        witnessed = b /\ task.cached = <<TRUE, "MERGED">> => announced[b] > 0

\* ... and sent once, while no other branch was checked out.
MergedOnce == ~switched => \A b \in Branches : announced[b] <= 1
=============================================================================
