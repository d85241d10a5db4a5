---------------------------- MODULE StatusService ----------------------------
(***************************************************************************)
(* WorktreeStatusService: one task per worktree the webview shows, woken   *)
(* by the .git watcher of the active project, by a file watcher of its own *)
(* that is attached later, by focus and by commands, which pushes a status *)
(* only when it differs from the last one it has computed.  A status is a  *)
(* version of the working tree and one of the stash list.                  *)
(*                                                                         *)
(* Named assumptions.  A push of worktree_status_subscribe reaches the     *)
(* backend.  A task that is aborted while its compute ends has emitted     *)
(* before a git process started after the abort answers.  git status and   *)
(* git diff, which run side by side, read one version of the tree.         *)
(***************************************************************************)
EXTENDS Integers, FiniteSets

CONSTANTS
    Paths,     \* worktrees, all of one project
    None,
    MaxEdits,  \* bound on changes on disk
    MaxFaults  \* bound on failed computes, tasks that die, watchers that fail

VARIABLES
    disk,     \* per path: what git would report
    entry,    \* ServiceInner.entries: None or a WatchEntry with its task
    builds,   \* watchers being built, <<path, whose>>: for the channel of the entry
              \* ("own") or of one that has been dropped ("old")
    raw,      \* paths whose attached watcher has an edit to report
    pulse,    \* pulse_tx: the .git of the project was touched
    focused,
    wanted,   \* statusStreamRefs: paths mounted in the webview
    push,     \* the worktree_status_subscribe calls of the webview
    shown,    \* worktreeStatusByPath
    edits, faults,
    (* history variable *)
    owed      \* <<path, part>>: a change nothing will report

vars == <<disk, entry, builds, raw, pulse, focused, wanted, push, shown,
          edits, faults, owed>>

Parts == {"work", "stash"}
Alive(p) == entry[p] /= None /\ entry[p].pc /= "dead"
\* A seed that has not been computed yet finds whatever is on disk.
Told(p) == entry[p] = None \/ entry[p].pc = "begin"
Miss(p, parts) == IF Told(p) THEN {} ELSE {p} \X parts
Task(p, pc) == entry[p] /= None /\ entry[p].pc = pc

\* The strongest cause waiting in a trigger channel.
Stronger(a, b) == IF "pulse" \in {a, b} THEN "pulse" ELSE IF "plain" \in {a, b} THEN "plain" ELSE "none"
Sent(e, p, cause) == IF e[p] = None THEN e ELSE [e EXCEPT ![p].trigger = Stronger(@, cause)]
\* trigger_all and trigger_scoped.
SentTo(e, S, cause) == [p \in Paths |-> IF p \in S THEN Sent(e, p, cause)[p] ELSE e[p]]

Init ==
    /\ disk = [p \in Paths |-> [work |-> 0, stash |-> 0]]
    /\ entry = [p \in Paths |-> None]
    /\ builds = {} /\ raw = {} /\ pulse = FALSE /\ focused = TRUE
    /\ wanted = {}
    /\ push = [pc |-> "idle", dirty |-> FALSE, force |-> FALSE, last |-> None]
    /\ shown = [p \in Paths |-> None]
    /\ edits = 0 /\ faults = 0
    /\ owed = {}

-----------------------------------------------------------------------------
(* The webview: worktreeStore.ts. *)
service == <<disk, entry, builds, raw, pulse, focused, shown,
             edits, faults, owed>>

\* Mutant: a change that comes while a push is under way is not remembered.
AskPushForgets(p, force) ==
    IF p.pc = "idle" THEN [p EXCEPT !.pc = "queued", !.force = @ \/ force] ELSE p

\* pushStatusSubscriptions: one request at a time; later signals collapse.
AskPush(p, force) ==
    CASE p.pc = "idle"   -> [p EXCEPT !.pc = "queued", !.force = @ \/ force]
      [] p.pc = "queued" -> [p EXCEPT !.force = @ \/ force]
      [] OTHER           -> [p EXCEPT !.dirty = TRUE, !.force = @ \/ force]

\* A row mounts or unmounts.
Retain(p) ==
    /\ p \notin wanted
    /\ wanted' = wanted \cup {p}
    /\ push' = AskPush(push, FALSE)
    /\ UNCHANGED service

Release(p) ==
    /\ p \in wanted
    /\ wanted' = wanted \ {p}
    /\ push' = AskPush(push, FALSE)
    /\ UNCHANGED service

\* runStatusSubscriptionPush, which skips a set that was pushed last.
PushSubscriptions ==
    /\ push.pc = "queued"
    /\ push' = IF push.force \/ push.last /= wanted
               THEN [push EXCEPT !.pc = "flight", !.force = FALSE, !.last = wanted]
               ELSE [push EXCEPT !.pc = "idle", !.force = FALSE]
    /\ UNCHANGED <<wanted, service>>

-----------------------------------------------------------------------------
(* set_subscriptions. *)
\* Mutant: a finished task stays in the map.
StaysInKept(p, S) == p \in S /\ entry[p] /= None

StaysIn(p, S) == p \in S /\ Alive(p)

\* A new entry: its task is about to compute the seed, its watcher comes later.
NewEntry ==
    [watcher |-> None, trigger |-> "none",
     pc |-> "begin", force |-> FALSE, 
     got |-> None, last |-> None]

\* The backend's side of a push, and its answer, after which a set that has
\* changed meanwhile is pushed again.
SetSubscriptions ==
    /\ push.pc = "flight"
    /\ LET fresh == {p \in push.last : ~StaysIn(p, push.last)} IN
       /\ entry' = [p \in Paths |-> IF p \in fresh THEN NewEntry
                                   ELSE IF StaysIn(p, push.last) THEN entry[p] ELSE None]
       /\ builds' = (fresh \X {"own"})
                     \cup {<<b[1], IF StaysIn(b[1], push.last) THEN b[2] ELSE "old">> : b \in builds}
       /\ raw' = {p \in raw : StaysIn(p, push.last)}
       /\ owed' = {o \in owed : StaysIn(o[1], push.last)}
    /\ push' = [push EXCEPT !.pc = IF push.dirty THEN "queued" ELSE "idle", !.dirty = FALSE]
    /\ UNCHANGED <<disk, pulse, focused, wanted, shown, edits, faults>>

\* same_channel: the entry still owns the channel this watcher pulses.
Attaches(p, whose) == entry[p] /= None /\ whose = "own"

WatcherBuilt(p, whose) ==
    /\ <<p, whose>> \in builds
    /\ builds' = builds \ {<<p, whose>>}
    /\ entry' = IF Attaches(p, whose) THEN [entry EXCEPT ![p].watcher = whose] ELSE entry
    /\ raw' = IF Attaches(p, whose) THEN raw \ {p} ELSE raw
    /\ UNCHANGED <<disk, pulse, focused, wanted, push, shown,
                   edits, faults, owed>>

\* The path is left to the fallback poll.
WatcherFails(p, whose) ==
    /\ <<p, whose>> \in builds /\ faults < MaxFaults
    /\ builds' = builds \ {<<p, whose>>} /\ faults' = faults + 1
    /\ UNCHANGED <<disk, entry, raw, pulse, focused, wanted, push, shown,
                   edits, owed>>

-----------------------------------------------------------------------------
(* What wakes the tasks. *)
notices == <<builds, focused, wanted, push, shown, faults>>

\* A file changes and git is not told: the watcher of the worktree has it, or
\* nobody.
RawEdit(p) ==
    /\ edits < MaxEdits /\ edits' = edits + 1
    /\ disk' = [disk EXCEPT ![p].work = @ + 1]
    /\ IF entry[p] /= None /\ entry[p].watcher /= None
       THEN raw' = raw \cup {p} /\ UNCHANGED owed
       ELSE owed' = owed \cup Miss(p, {"work"}) /\ UNCHANGED raw
    /\ UNCHANGED <<entry, pulse, notices>>

\* git changes the tree, the index or HEAD, a stash with it.  The GitHeadWatcher
\* has it, or the project is not the active one.
GitOp(p) ==
    /\ edits < MaxEdits /\ edits' = edits + 1
    /\ \E s \in {disk[p].stash, disk[p].stash + 1} :
         disk' = [disk EXCEPT ![p] = [work |-> @.work + 1, stash |-> s]]
    /\ raw' = IF entry[p] /= None /\ entry[p].watcher /= None THEN raw \cup {p} ELSE raw
    /\ \/ pulse' = TRUE /\ UNCHANGED owed
       \/ owed' = owed \cup Miss(p, Parts) /\ UNCHANGED pulse
    /\ UNCHANGED <<entry, notices>>

\* git_stage and the other commands nudge the path themselves.
Mutation(p) ==
    /\ edits < MaxEdits /\ edits' = edits + 1
    /\ disk' = [disk EXCEPT ![p].work = @ + 1]
    /\ entry' = Sent(entry, p, "plain")
    /\ UNCHANGED <<raw, pulse, owed, notices>>

\* The debounce task of the file watcher sends FsEdit into its channel, which
\* is the entry's or closed.
FsDebounce(p) ==
    /\ p \in raw
    /\ raw' = raw \ {p}
    /\ entry' = IF entry[p].watcher = "own" THEN Sent(entry, p, "plain") ELSE entry
    /\ UNCHANGED <<disk, pulse, edits, owed, notices>>

\* The drain task: trigger_scoped to the paths of the project.
DrainPulse ==
    /\ pulse /\ pulse' = FALSE
    /\ entry' = SentTo(entry, Paths, "pulse")
    /\ UNCHANGED <<disk, raw, edits, owed, notices>>

\* set_focused; the webview forces a push as well.
Focus ==
    /\ ~focused /\ focused' = TRUE
    /\ entry' = SentTo(entry, Paths, "plain")
    /\ push' = AskPush(push, TRUE)
    /\ owed' = {o \in owed : ~Task(o[1], "dead")}
    /\ UNCHANGED <<disk, builds, raw, pulse, wanted, shown, edits, faults>>

Blur ==
    /\ focused /\ focused' = FALSE
    /\ UNCHANGED <<disk, entry, builds, raw, pulse, wanted, push, shown,
                   edits, faults, owed>>

-----------------------------------------------------------------------------
(* The watch task of a path. *)
rest == <<disk, builds, raw, pulse, focused, wanted, push, edits>>

\* force_stash |= cause == WatcherPulse.
Forces(old, cause) == old \/ cause = "pulse"

\* recv, while quiet or in the 200 ms of a burst.
Receive(p) ==
    /\ Task(p, "quiet") \/ Task(p, "burst")
    /\ entry[p].trigger /= "none"
    /\ entry' = [entry EXCEPT ![p].pc = "burst", ![p].trigger = "none",
                     ![p].force = Forces(@, entry[p].trigger)]
    /\ UNCHANGED <<rest, shown, faults, owed>>

\* The 15 s tick, skipped while the window is unfocused.
Poll(p) ==
    /\ Task(p, "quiet") /\ focused /\ entry[p].trigger = "none"
    /\ entry' = [entry EXCEPT ![p].pc = "burst"]
    /\ UNCHANGED <<rest, shown, faults, owed>>

\* recompute_and_emit begins, at the seed or after a burst, and reads the tree:
\* the stash count is read again when forced, never read, or 30 s old.
ReadTree(p) ==
    /\ Task(p, "begin") \/ Task(p, "burst")
    /\ \E recount \in BOOLEAN :
         /\ entry[p].force \/ entry[p].last = None => recount
         /\ entry' = [entry EXCEPT ![p].got = disk[p].work, ![p].force = FALSE,
                                   ![p].pc = IF recount THEN "counting" ELSE "emitting"]
    /\ owed' = owed \ {<<p, "work">>}
    /\ UNCHANGED <<rest, shown, faults>>

\* git stash list, and the emit when the status has changed.
Emits(p, status) ==
    /\ shown' = IF entry[p].last /= status THEN [shown EXCEPT ![p] = status] ELSE shown
    /\ entry' = [entry EXCEPT ![p].last = status, ![p].pc = "quiet", ![p].got = None]

CountAndEmit(p) ==
    /\ Task(p, "counting")
    /\ Emits(p, [work |-> entry[p].got, stash |-> disk[p].stash])
    /\ owed' = owed \ {<<p, "stash">>}
    /\ UNCHANGED <<rest, faults>>

\* With the cached count.
EmitStatus(p) ==
    /\ Task(p, "emitting")
    /\ Emits(p, [work |-> entry[p].got, stash |-> entry[p].last.stash])
    /\ UNCHANGED <<rest, faults, owed>>

\* A compute that fails is dropped, and with it a forced recount.
ComputeFails(p) ==
    /\ Task(p, "counting") \/ Task(p, "emitting")
    /\ faults < MaxFaults /\ faults' = faults + 1
    /\ entry' = [entry EXCEPT ![p].pc = "quiet", ![p].got = None]
    /\ owed' = owed \cup Miss(p, Parts)
    /\ UNCHANGED <<rest, shown>>

\* A panic ends the task; its entry stays.
TaskDies(p) ==
    /\ Task(p, "counting") \/ Task(p, "emitting")
    /\ faults < MaxFaults /\ faults' = faults + 1
    /\ entry' = [entry EXCEPT ![p].pc = "dead", ![p].got = None]
    /\ owed' = owed \cup Miss(p, Parts)
    /\ UNCHANGED <<rest, shown>>

-----------------------------------------------------------------------------
Webview(p) == Retain(p) \/ Release(p)
Change(p)  == RawEdit(p) \/ GitOp(p) \/ Mutation(p)
Watcher(p) == FsDebounce(p) \/ \E whose \in {"own", "old"} : WatcherBuilt(p, whose) \/ WatcherFails(p, whose)
Computes(p) == ReadTree(p) \/ CountAndEmit(p) \/ EmitStatus(p)
Faults(p)  == ComputeFails(p) \/ TaskDies(p)

Next ==
    \/ \E p \in Paths : Webview(p) \/ Change(p) \/ Watcher(p) \/ Receive(p) \/ Computes(p) \/ Poll(p) \/ Faults(p)
    \/ PushSubscriptions \/ SetSubscriptions
    \/ DrainPulse \/ Focus \/ Blur

\* Tasks of the runtime and callbacks of the webview run; the slow poll is
\* left out on purpose.
Fairness ==
    /\ WF_vars(PushSubscriptions) /\ WF_vars(SetSubscriptions)
    /\ WF_vars(DrainPulse)
    /\ \A p \in Paths : WF_vars(FsDebounce(p)) /\ WF_vars(Receive(p)) /\ WF_vars(Computes(p))

Spec     == Init /\ [][Next]_vars
FairSpec == Spec /\ Fairness

-----------------------------------------------------------------------------
Status == [work : 0..MaxEdits, stash : 0..MaxEdits]

TypeOK ==
    /\ disk \in [Paths -> Status] /\ shown \in [Paths -> Status \cup {None}]
    /\ \A p \in Paths : entry[p] /= None =>
         /\ entry[p].watcher \in {None, "own"}
         /\ entry[p].pc \in {"begin", "quiet", "burst", "counting", "emitting", "dead"}
         /\ entry[p].pc = "emitting" => entry[p].last /= None
    /\ raw \subseteq {p \in Paths : entry[p] /= None /\ entry[p].watcher /= None}
    /\ push.pc \in {"idle", "queued", "flight"} /\ wanted \subseteq Paths
    /\ owed \subseteq Paths \X Parts

\* status_service.rs: what a mounted row shows becomes what is on disk, without
\* the slow poll, whatever the order of mounts, pushes, watcher builds, edits
\* and bursts; except for what nobody was told of: an edit made with no watcher
\* attached, a compute that failed, a task that died and that no
\* focus has had respawned yet.
Informed(p)   == p \in wanted /\ {o \in owed : o[1] = p} = {}
Shows(p)    == shown[p] = disk[p]
Converges   == \A p \in Paths : <>[]Informed(p) => <>[]Shows(p)
=============================================================================
