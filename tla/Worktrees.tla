------------------------------ MODULE Worktrees ------------------------------
(***************************************************************************)
(* Creating, removing and merging the worktrees of one project, as several *)
(* git processes per command with everything else in between: a second     *)
(* command, the agents and the user at work in the same repository, and    *)
(* the supervisor of the .git watcher.  A linked worktree is named after   *)
(* the branch it was made for.  A commit is a number; a branch holds the   *)
(* commits reachable from it.                                              *)
(*                                                                         *)
(* Named assumptions.  Only raum adds and removes worktrees.  A blocking   *)
(* task does not panic.  No branch has an upstream, nobody commits on a    *)
(* detached HEAD, git can be started.  Terminals that are killed change    *)
(* nothing modelled here.                                                  *)
(***************************************************************************)
EXTENDS Integers, Sequences

CONSTANTS
    Trees,      \* linked worktrees, and the branches they are made for
    Old,        \* those there at the start
    Root,       \* the main worktree
    Trunk,      \* the branch the main worktree starts on
    Refusable,  \* directories the system may refuse to watch
    Calls,      \* worktree_create, worktree_remove, worktree_merge calls, each once
    None,
    MaxCommits, \* bound on commits made
    MaxStash,   \* bound on stash entries
    MaxRebuild  \* bound on rebuilds of the watcher

VARIABLES
    head,     \* per worktree: the branch checked out, None when it is not on disk
    log,      \* per branch: its commits
    refs,     \* branches that exist
    base,     \* branch.<name>.raumBase
    edits,    \* worktrees with uncommitted changes
    merging,  \* worktrees in which the user has a merge to conclude
    stash,    \* the branches of the stash entries, newest first
    commits,  \* commits made
    call,     \* per call: its progress
    watcher,  \* the GitHeadWatcher of the project: directories watched, None when stopped
    rebuild,  \* directories found by a rebuild that has not been swapped in
    rebuilds,
    (* history variable *)
    missed    \* worktrees a rescan is owed for: a failed hydration, a crossed rebuild,
              \* a directory the system refused to watch

vars == <<head, log, refs, base, edits, merging, stash, commits, call,
          watcher, rebuild, rebuilds, missed>>
repo    == <<head, log, refs, base, edits, merging, stash, commits>>
watches == <<watcher, rebuild, rebuilds>>

Places   == Trees \cup {Root}
Branches == Trees \cup {Trunk}
Present  == {w \in Places : head[w] /= None}
Held(b)  == \E w \in Places : head[w] = b

Fresh == [op |-> None, pc |-> "idle", tree |-> Root, src |-> None, at |-> Root, onto |-> None,
          base |-> None, make |-> FALSE, force |-> FALSE, clear |-> FALSE, gone |-> FALSE,
          kill |-> FALSE, drop |-> {}]

Init ==
    /\ head = [w \in Places |-> IF w = Root THEN Trunk ELSE IF w \in Old THEN w ELSE None]
    /\ refs = Old \cup {Trunk} /\ watcher = Old \cup {Root}
    /\ log = [b \in Branches |-> {}]
    /\ base = [b \in Branches |-> None]
    /\ edits = {} /\ merging = {} /\ stash = <<>> /\ commits = 0
    /\ call = [c \in Calls |-> Fresh]
    /\ rebuild = None /\ rebuilds = 0 /\ missed = {}

-----------------------------------------------------------------------------
Goes(c, pc) == call' = [call EXCEPT ![c].pc = pc]
\* What is left is the rescan.
Finishes(c) == call' = [call EXCEPT ![c] = [Fresh EXCEPT !.pc = "rescan"]]
\* emit_failed or emit_done; what the call answers is not modelled.
Ends(c)     == call' = [call EXCEPT ![c] = [Fresh EXCEPT !.pc = "over"]]

\* Mutant: the watcher is left alone.
RescanNot(c) ==
    /\ Ends(c)
    /\ UNCHANGED <<watches, missed>>

\* The last step: GitHeadWatcher::rescan makes the watched directories those on
\* disk, but for new ones that the system refuses to watch, and the call closes.
Rescan(c) ==
    /\ Ends(c)
    /\ IF watcher = None
       THEN UNCHANGED <<watcher, missed>>
       ELSE \E refused \in SUBSET ((Present \cap Refusable) \ watcher) :
              watcher' = Present \ refused /\ missed' = refused
    /\ UNCHANGED <<rebuild, rebuilds>>

\* load_effective fails: the first step fails and the call ends.
Unconfigured(c) ==
    /\ call[c].pc = "idle"
    /\ Ends(c)
    /\ UNCHANGED <<repo, watches, missed>>

-----------------------------------------------------------------------------
(* worktree_create and create_worktree. *)
CreateValidates(c) ==
    /\ call[c].pc = "idle"
    /\ \E t \in Trees, make \in BOOLEAN : \E b \in (Branches \ {t}) \cup {None} :
         call' = [call EXCEPT ![c] = [Fresh EXCEPT !.op = "create", !.pc = "pre", !.tree = t,
                                        !.make = make, !.base = b]]
    /\ UNCHANGED <<repo, watches, missed>>

\* A bad pattern, a parent that cannot be made, or a preCreate hook that fails.
CreateRefused(c) ==
    /\ call[c].pc = "pre"
    /\ Ends(c)
    /\ UNCHANGED <<repo, watches, missed>>

CreateReady(c) ==
    /\ call[c].pc = "pre"
    /\ Goes(c, "add")
    /\ UNCHANGED <<repo, watches, missed>>

\* git worktree add [-b <branch>] <target>.
CanAdd(c) == LET t == call[c].tree IN
    /\ head[t] = None
    /\ IF call[c].make THEN t \notin refs ELSE t \in refs /\ ~Held(t)

CreateAdds(c) == LET t == call[c].tree IN
    /\ call[c].pc = "add" /\ CanAdd(c)
    /\ head' = [head EXCEPT ![t] = t]
    /\ refs' = refs \cup {t}
    /\ log' = IF call[c].make THEN [log EXCEPT ![t] = log[head[Root]]] ELSE log
    /\ Goes(c, "meta")
    /\ UNCHANGED <<base, edits, merging, stash, commits, watches, missed>>

CreateAddFails(c) ==
    /\ call[c].pc = "add"   \* also when git itself could have done it
    /\ Ends(c)
    /\ UNCHANGED <<repo, watches, missed>>

\* set_raum_base_branch; a failure is only a warning.
CreateBase(c) == LET t == call[c].tree IN
    /\ call[c].pc = "meta"
    /\ base' \in {base} \cup IF call[c].make /\ call[c].base /= None
                             THEN {[base EXCEPT ![t] = call[c].base]} ELSE {}
    /\ Goes(c, "hydrate")
    /\ UNCHANGED <<head, log, refs, edits, merging, stash, commits, watches, missed>>

\* Hydration makes untracked files, which .gitignore is taken to cover.
CreateHydrates(c) ==
    /\ call[c].pc = "hydrate"
    /\ Goes(c, "post")
    /\ UNCHANGED <<repo, watches, missed>>

\* CreateError::Hydrate: worktree_created() is false, nothing rescans.
CreateHydrateFails(c) ==
    /\ call[c].pc = "hydrate"
    /\ Ends(c)
    /\ missed' = missed \cup {call[c].tree}
    /\ UNCHANGED <<repo, watches>>

\* The postCreate hook ends either way; both ways rescan.
CreateEnds(c) ==
    /\ call[c].pc = "post"
    /\ Rescan(c)
    /\ UNCHANGED repo

-----------------------------------------------------------------------------
(* worktree_remove. *)
\* Kills the terminals and resolves the branch at the path.
RemoveBegins(c) ==
    /\ call[c].pc = "idle"
    /\ \E t \in Trees, force, clear, gone, kill \in BOOLEAN :
         /\ kill => gone  \* force_delete_branch is read with delete_branch only
         /\ call' = [call EXCEPT ![c] = [Fresh EXCEPT !.op = "remove", !.tree = t, !.force = force,
                      !.kill = kill, !.src = IF gone THEN head[t] ELSE None,
                      !.pc = IF clear THEN "list" ELSE "tree"]]
    /\ UNCHANGED <<repo, watches, missed>>

\* drop_stashes_for_branch reads the repository-wide list once.
RemoveListsStashes(c) == LET b == head[call[c].tree] IN
    /\ call[c].pc = "list"
    /\ call' = [call EXCEPT ![c].pc = "drop", ![c].onto = b,
                            ![c].drop = {i \in DOMAIN stash : b /= None /\ stash[i] = b}]
    /\ UNCHANGED <<repo, watches, missed>>

Highest(S) == CHOOSE i \in S : \A j \in S : j <= i
Without(s, i) == SubSeq(s, 1, i - 1) \o SubSeq(s, i + 1, Len(s))

\* One git stash drop, from the highest index down.
RemoveDropsStash(c) == LET todo == call[c].drop IN
    /\ call[c].pc = "drop" /\ todo /= {}
    /\ stash' = IF Highest(todo) \in DOMAIN stash THEN Without(stash, Highest(todo)) ELSE stash
    /\ call' = [call EXCEPT ![c].drop = @ \ {Highest(todo)}]
    /\ UNCHANGED <<head, log, refs, base, edits, merging, commits, watches, missed>>

RemoveStashesDone(c) ==
    /\ call[c].pc = "drop" /\ call[c].drop = {}
    /\ Goes(c, "tree")
    /\ UNCHANGED <<repo, watches, missed>>

\* git worktree remove [--force] refuses a folder with changes unless forced.
CanRemove(c) == LET t == call[c].tree IN head[t] /= None /\ (call[c].force \/ t \notin edits)

RemoveTree(c) == LET t == call[c].tree IN
    /\ call[c].pc = "tree" /\ CanRemove(c)
    /\ head' = [head EXCEPT ![t] = None]
    /\ edits' = edits \ {t} /\ merging' = merging \ {t}
    /\ Goes(c, "branch")
    /\ UNCHANGED <<log, refs, base, stash, commits, watches, missed>>

\* In both commands a refused removal ends the call with no rescan.
RemoveTreeFails(c) ==
    /\ call[c].pc = "tree" /\ ~CanRemove(c)
    /\ Ends(c)
    /\ UNCHANGED <<repo, watches, missed>>

\* Mutant: the merge deletes with -D: the branch was just merged.
CanDeleteMerged(c) == LET b == call[c].src IN
    b \in refs /\ ~Held(b) /\ (call[c].kill \/ call[c].op = "merge" \/ log[b] \subseteq log[head[Root]])

\* git branch -d refuses what is not in the main worktree's HEAD; -D does not.
\* Neither deletes a branch that is checked out.
CanDelete(c) == LET b == call[c].src IN
    b \in refs /\ ~Held(b) /\ (call[c].kill \/ log[b] \subseteq log[head[Root]])

DeleteBranch(c) == LET b == call[c].src IN
    /\ call[c].pc = "branch" /\ call[c].src /= None /\ CanDelete(c)
    /\ refs' = refs \ {b}
    /\ log' = [log EXCEPT ![b] = {}]
    /\ base' = [base EXCEPT ![b] = None]
    /\ Finishes(c)
    /\ UNCHANGED <<head, edits, merging, stash, commits, watches, missed>>

\* The branch lingers: a removal ends failed, a merge goes on; both rescan.
DeleteBranchFails(c) ==
    /\ call[c].pc = "branch" /\ call[c].src /= None /\ ~CanDelete(c)
    /\ Finishes(c)
    /\ UNCHANGED <<repo, watches, missed>>

KeepBranch(c) ==
    /\ call[c].pc = "branch" /\ call[c].src = None
    /\ Finishes(c)
    /\ UNCHANGED <<repo, watches, missed>>

RescanStep(c) ==
    /\ call[c].pc = "rescan"
    /\ Rescan(c)
    /\ UNCHANGED repo

-----------------------------------------------------------------------------
(* worktree_merge. *)
\* raumBase first, then the branch of the main worktree; never the source itself.
ResolveTarget(b) ==
    IF base[b] \notin {None, b} THEN base[b]
    ELSE IF head[Root] /= b THEN head[Root] ELSE None

\* The first blocking task: source, target and the worktree that has the target.
MergeResolves(c) ==
    /\ call[c].pc = "idle"
    /\ \E t \in Trees, gone, kill \in BOOLEAN : LET b == head[t] IN
         /\ b /= None
         /\ \E w \in Places :
              /\ head[w] = ResolveTarget(b) /\ head[w] /= None
              /\ call' = [call EXCEPT ![c] = [Fresh EXCEPT !.op = "merge", !.pc = "guard",
                             !.tree = t, !.src = b, !.onto = head[w], !.at = w,
                             !.gone = gone, !.clear = kill]]
    /\ UNCHANGED <<repo, watches, missed>>

\* The second: neither side dirty, no conflict.
MergeGuards(c) == LET r == call[c] IN
    /\ r.pc = "guard"
    /\ {r.tree, r.at} \cap edits = {}
    /\ Goes(c, "merge")
    /\ UNCHANGED <<repo, watches, missed>>

MergeGuarded(c) == LET r == call[c] IN
    /\ r.pc = "guard"
    /\ \/ {r.tree, r.at} \cap edits /= {}
       \/ r.src \in refs /\ ~(log[r.src] \subseteq log[r.onto])   \* a conflict
    /\ Ends(c)
    /\ UNCHANGED <<repo, watches, missed>>

\* After the terminals are stopped: git merge in the target's folder, whatever
\* is checked out there by now.
CanMerge(c) == LET r == call[c] IN
    /\ r.src \in refs /\ head[r.at] /= None /\ r.at \notin merging

MergeLands(c) == LET r == call[c] IN
    /\ r.pc = "merge" /\ CanMerge(c)
    /\ log' = [log EXCEPT ![head[r.at]] = @ \cup log[r.src]]
    /\ call' = [call EXCEPT ![c].pc = IF r.clear THEN "tree" ELSE "branch",
                            ![c].src = IF r.gone THEN r.src ELSE None]
    /\ UNCHANGED <<head, refs, base, edits, merging, stash, commits, watches, missed>>

MergeFails(c) == LET r == call[c] IN
    /\ r.pc = "merge"
    /\ CanMerge(c) => ~(log[r.src] \subseteq log[head[r.at]])
    /\ Goes(c, "abort")
    /\ UNCHANGED <<repo, watches, missed>>

\* git merge --abort, which ends any unconcluded merge in that folder.
MergeAborts(c) == LET w == call[c].at IN
    /\ call[c].pc = "abort"
    /\ merging' = merging \ {w}
    /\ edits' = IF w \in merging THEN edits \ {w} ELSE edits
    /\ Ends(c)
    /\ UNCHANGED <<head, log, refs, base, stash, commits, watches, missed>>

-----------------------------------------------------------------------------
(* External: agents, the user and other tools in the repository. *)
Edit(w) ==
    /\ head[w] /= None /\ w \notin edits /\ edits' = edits \cup {w}
    /\ UNCHANGED <<head, log, refs, base, merging, stash, commits, call, watches, missed>>

Commit(w) ==
    /\ w \in edits /\ commits < MaxCommits
    /\ commits' = commits + 1
    /\ log' = [log EXCEPT ![head[w]] = @ \cup {commits'}]
    /\ edits' = edits \ {w} /\ merging' = merging \ {w}
    /\ UNCHANGED <<head, refs, base, stash, call, watches, missed>>

Stash(w) ==
    /\ w \in edits \ merging /\ Len(stash) < MaxStash
    /\ stash' = <<head[w]>> \o stash
    /\ edits' = edits \ {w}
    /\ UNCHANGED <<head, log, refs, base, merging, commits, call, watches, missed>>

Switch(w) ==
    /\ head[w] /= None /\ w \notin edits
    /\ \E b \in refs : ~Held(b) /\ head' = [head EXCEPT ![w] = b]
    /\ UNCHANGED <<log, refs, base, edits, merging, stash, commits, call, watches, missed>>

UserMerges(w) ==
    /\ head[w] /= None /\ w \notin edits
    /\ merging' = merging \cup {w} /\ edits' = edits \cup {w}
    /\ UNCHANGED <<head, log, refs, base, stash, commits, call, watches, missed>>

-----------------------------------------------------------------------------
(* GitHeadWatcher. *)
\* set_active_project: the watcher of a project lives while it is selected.
\* Dropping it stops its supervisor.
Deselect ==
    /\ watcher /= None
    /\ watcher' = None /\ rebuild' = None
    /\ UNCHANGED <<repo, call, rebuilds, missed>>

Select ==
    /\ watcher = None
    /\ \E refused \in SUBSET (Present \cap Refusable) : watcher' = Present \ refused /\ missed' = refused
    /\ UNCHANGED <<repo, call, rebuild, rebuilds>>

\* supervise_watcher after sustained errors: the new watcher is built from the
\* directories found now, those of them it may watch, without the lock rescan
\* takes...
RebuildFinds ==
    /\ watcher /= None /\ rebuild = None /\ rebuilds < MaxRebuild
    /\ \E refused \in SUBSET (Present \cap Refusable) : rebuild' = Present \ refused
    /\ rebuilds' = rebuilds + 1
    /\ UNCHANGED <<repo, call, watcher, missed>>

\* ... and takes the place of the old one.
RebuildSwaps ==
    /\ rebuild /= None
    /\ watcher' = rebuild /\ rebuild' = None
    /\ missed' = (Present \ rebuild) \cup (rebuild \ Present)
    /\ UNCHANGED <<repo, call, rebuilds>>

CallStep(c) ==
    \/ Unconfigured(c)
    \/ CreateValidates(c) \/ CreateRefused(c) \/ CreateReady(c) \/ CreateAdds(c)
    \/ CreateAddFails(c) \/ CreateBase(c) \/ CreateHydrates(c) \/ CreateHydrateFails(c)
    \/ CreateEnds(c)
    \/ RemoveBegins(c) \/ RemoveListsStashes(c) \/ RemoveDropsStash(c) \/ RemoveStashesDone(c)
    \/ RemoveTree(c) \/ RemoveTreeFails(c)
    \/ DeleteBranch(c) \/ DeleteBranchFails(c) \/ KeepBranch(c) \/ RescanStep(c)
    \/ MergeResolves(c) \/ MergeGuards(c) \/ MergeGuarded(c) \/ MergeLands(c)
    \/ MergeFails(c) \/ MergeAborts(c)

Next ==
    \/ \E c \in Calls : CallStep(c)
    \/ \E w \in Places : Edit(w) \/ Commit(w) \/ Stash(w) \/ Switch(w) \/ UserMerges(w)
    \/ Deselect \/ Select \/ RebuildFinds \/ RebuildSwaps

Spec == Init /\ [][Next]_vars

-----------------------------------------------------------------------------
Reachable == UNION {log[b] : b \in refs}
Forced(c) == call[c].pc = "branch" /\ call[c].kill /\ call'[c].pc = "rescan"

TypeOK ==
    /\ head \in [Places -> Branches \cup {None}] /\ refs \subseteq Branches
    /\ \A b \in Branches : log[b] \subseteq 1..commits /\ (b \notin refs => log[b] = {})
    /\ \A w1, w2 \in Present : head[w1] \in refs /\ (head[w1] = head[w2] => w1 = w2)
    /\ merging \subseteq edits /\ edits \subseteq Present
    /\ \A c \in Calls : call[c].at \in Places /\ call[c].drop \subseteq 1..MaxStash
    /\ watcher \in {None} \cup SUBSET Places /\ rebuild \in {None} \cup SUBSET Places

\* merge.rs: "If something raced in to add unmerged commits we surface the
\* failure": whatever is committed, switched or removed between the steps of a
\* merge or a removal, no commit leaves the repository but by a deletion the
\* user has asked to force.
KeepsCommits == Reachable \subseteq Reachable' \/ \E c \in Calls : Forced(c)
CommitsKept == [][KeepsCommits]_vars

\* remove.rs: stashes are dropped for the branch of the worktree that goes.  A
\* stash made by another process between the listing and the drops shifts them.
OwnStashesOnly ==
    [][\A c \in Calls : call[c].pc = "drop" /\ call[c].drop /= {} /\ stash' /= stash
                           /\ call'[c] /= call[c]
                        => stash[Highest(call[c].drop)] = call[c].onto]_vars

\* git_watcher.rs: "newly-added worktree HEADs are watched and stale ones are
\* dropped": with no command and no rebuild under way the watched directories
\* are those on disk, up to the worktrees whose hydration failed, what came or
\* went while a rebuild had its list, and what the system refused to watch.
WatchesFollow ==
    (watcher /= None /\ rebuild = None /\ \A c \in Calls : call[c].pc \in {"idle", "over"})
        => \A w \in Places \ missed : w \in watcher <=> w \in Present
=============================================================================
