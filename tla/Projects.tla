------------------------------ MODULE Projects ------------------------------
(***************************************************************************)
(* The registered projects: projects/<slug>/project.toml, the tab the user *)
(* has open, and the one live .git watcher that is meant to follow it.     *)
(*                                                                         *)
(* A project's slug is the base name of its root, so two roots may share   *)
(* one.  Registering, updating and reading are single steps under the      *)
(* store's mutex; project_set_active runs on the blocking pool and takes   *)
(* the store and the watcher map one after the other, so two of them, or   *)
(* one and a removal, may cross.                                           *)
(***************************************************************************)
EXTENDS Naturals

CONSTANTS Slugs, None,
          MaxRegisters, MaxUpdates, MaxSwitches,
          MaxFaults       \* files broken by hand, watchers and removals refused

VARIABLES disk,        \* slug -> None or [root, ok, worktree]
          committed,   \* slug -> the worktree section of the repo's .raum.toml, or None
          global,      \* the path pattern of Settings > Worktrees, or "blank"
          page,        \* [items, active]: the tab strip and the selected tab
          switches,    \* project_set_active calls under way
          removing,    \* slug -> None or the next step of project_remove
          watchers,    \* the watcher map: slug -> None or the root it watches
          used

vars == <<disk, committed, global, page, switches, removing, watchers, used>>

Roots(s) == {<<s, "here">>, <<s, "there">>}       \* two roots with one base name
Strategies == {"sibling-group", "nested", "custom"}
Patterns == {"sibling", "sibling-alias", "nested", "free"}
Worktree == [strategy : Strategies, pattern : Patterns]
DefaultWorktree == [strategy |-> "nested", pattern |-> "nested"]

Count(what, bound) == used[what] < bound /\ used' = [used EXCEPT ![what] = @ + 1]

Init == /\ disk = [s \in Slugs |-> None]
        /\ committed \in [Slugs -> {None, [strategy |-> "nested", pattern |-> "sibling"]}]
        /\ global \in {"blank", "nested", "free"}
        /\ page = [items |-> {}, active |-> None]
        /\ switches = {}
        /\ removing = [s \in Slugs |-> None]
        /\ watchers = [s \in Slugs |-> None]
        /\ used = [registers |-> 0, updates |-> 0, switches |-> 0, faults |-> 0]

-----------------------------------------------------------------------------
(* Path strategies.                                                        *)

\* preset_pattern and infer_from_pattern; the alias tokens count as their own.
Preset(strategy) == IF strategy = "nested" THEN "nested" ELSE "sibling"
Inferred(pattern) == CASE pattern \in {"sibling", "sibling-alias"} -> "sibling-group"
                       [] pattern = "nested" -> "nested"
                       [] OTHER -> "custom"

\* A variant that saves what the page sent.
NormalizedNot(w) == w

\* WorktreeConfig::normalize: a pattern that contradicts its preset wins.
Normalized(w) ==
    CASE w.strategy = "custom" \/ w.pattern = Preset(w.strategy) -> w
      [] Inferred(w.pattern) = w.strategy -> [w EXCEPT !.pattern = Preset(w.strategy)]
      [] OTHER -> [w EXCEPT !.strategy = Inferred(w.pattern)]

GlobalPath(w) == LET p == IF global = "blank" THEN "nested" ELSE global
                 IN  [w EXCEPT !.pattern = p, !.strategy = Inferred(p)]

-----------------------------------------------------------------------------
(* What the store answers, and the configuration a project runs with.      *)

\* read_project: absent or broken, a project is not there.
Readable(s) == s # None /\ disk[s] # None /\ disk[s].ok

\* write_project.
Written(s, project) == disk' = [disk EXCEPT ![s] = project]

\* project_list skips what does not parse.
Listed == {s \in Slugs : Readable(s)}

\* project_find_by_path: the project registered at a root.
FoundAt(root) == {s \in Listed : disk[s].root = root}

\* read_raum_toml: a broken committed file counts as none.
Committed(s) == committed[s]

\* merge_project_with_raum_toml: a committed section replaces the project's own.
Merged(s) == IF Committed(s) # None THEN Committed(s) ELSE disk[s].worktree

\* project_config_effective: the path is always the global one.
Effective(s) == GlobalPath(Merged(s))

-----------------------------------------------------------------------------
(* raum worktree create, a process of its own that reads the same files.   *)

Custom(path) == [strategy |-> "custom", pattern |-> path]

\* apply_cli_strategy: None is a refusal.
CliStrategy(w, flag, path) ==
    CASE flag = None -> IF path = None THEN w ELSE Custom(path)
      [] flag \in {"nested", "sibling-group"} -> [strategy |-> flag, pattern |-> Preset(flag)]
      [] flag = "custom" /\ path # None -> Custom(path)
      [] OTHER -> None

\* resolve_project: the flag, else the pane's environment, else the
\* repository around the working directory.
CliProject(flag, env, here) ==
    LET slug == IF flag # None THEN flag ELSE env
    IN  IF slug # None THEN {slug} \cap Listed ELSE FoundAt(here)

\* create: the root and the paths a worktree would be made with; empty when
\* the command is refused.
CliPlans(where, strategy, path) ==
    {plan \in {[root |-> disk[s].root, worktree |-> CliStrategy(Effective(s), strategy, path)] :
                  s \in CliProject(where.flag, where.env, where.here)} :
       plan.worktree # None}

-----------------------------------------------------------------------------
(* The page.                                                               *)

\* setActiveProjectSlug: nothing when the tab is selected already, else tell
\* the backend, and do not wait.
Selected(s) ==
    /\ page'.active = s
    /\ IF s = page.active
       THEN UNCHANGED <<switches, used>>
       ELSE /\ Count("switches", MaxSwitches)
            /\ switches' = switches \cup
                   {[id |-> used'.switches, slug |-> s, pc |-> "resolve", root |-> None]}

Click ==
    /\ \E s \in page.items :
        /\ s # page.active
        /\ page' = [page EXCEPT !.active = s]
        /\ Selected(s)
    /\ UNCHANGED <<disk, committed, global, removing, watchers>>

\* refreshProjects: malformed projects are skipped, and a selection that is
\* gone moves to another tab.
Refresh ==
    /\ LET items == Listed
       IN /\ items # page.items
          /\ \E s \in IF page.active \in items THEN {page.active}
                      ELSE IF items = {} THEN {None} ELSE items :
              /\ page' = [items |-> items, active |-> s]
              /\ Selected(s)
    /\ UNCHANGED <<disk, committed, global, removing, watchers>>

\* openProjectFromCli (`raum <dir>`): a registered directory is shown and
\* selected; any other waits for the user to register it.
OpenDirectory ==
    /\ \E s \in Slugs : \E root \in Roots(s) :
        /\ s \in FoundAt(root)
        /\ s # page.active
        /\ page' = [items |-> page.items \cup {s}, active |-> s]
        /\ Selected(s)
    /\ UNCHANGED <<disk, committed, global, removing, watchers>>

-----------------------------------------------------------------------------
(* The project commands.                                                   *)

Fresh(root) == [root |-> root, ok |-> TRUE, worktree |-> DefaultWorktree]

\* project_register overwrites a project of the same base name.
Register ==
    /\ used.registers < MaxRegisters
    /\ used' = [used EXCEPT !.registers = @ + 1]
    /\ \E s \in Slugs : \E root \in Roots(s) : Written(s, Fresh(root))
    /\ UNCHANGED <<committed, global, page, switches, removing, watchers>>

\* project_update with a worktree section.
Update ==
    /\ Count("updates", MaxUpdates)
    /\ \E s \in Slugs, w \in Worktree :
        /\ Readable(s)
        /\ Written(s, [disk[s] EXCEPT !.worktree = Normalized(w)])
    /\ UNCHANGED <<committed, global, page, switches, removing, watchers>>

\* Stopping the terminals is SessionLifecycle's; here its time passes.
RemoveStart ==
    /\ \E s \in page.items : removing[s] = None /\ removing' = [removing EXCEPT ![s] = "delete"]
    /\ UNCHANGED <<disk, committed, global, page, switches, watchers, used>>

RemoveDelete(s) ==
    /\ removing[s] = "delete"
    /\ disk' = [disk EXCEPT ![s] = None]
    /\ removing' = [removing EXCEPT ![s] = "watcher"]
    /\ UNCHANGED <<committed, global, page, switches, watchers, used>>

\* The directory cannot be removed, or not all of it: project_remove ends there.
RemoveDeleteFails(s) ==
    /\ removing[s] = "delete"
    /\ Count("faults", MaxFaults)
    /\ disk' = disk \/ disk' = [disk EXCEPT ![s] = None]
    /\ removing' = [removing EXCEPT ![s] = None]
    /\ UNCHANGED <<committed, global, page, switches, watchers>>

RemoveWatcher(s) ==
    /\ removing[s] = "watcher"
    /\ watchers' = [watchers EXCEPT ![s] = None]
    /\ removing' = [removing EXCEPT ![s] = None]
    /\ UNCHANGED <<disk, committed, global, page, switches, used>>

\* The user's editor leaves a file that does not parse, or repairs one.
Break ==
    /\ Count("faults", MaxFaults)
    /\ \E s \in Slugs : disk[s] # None /\ disk' = [disk EXCEPT ![s].ok = ~@]
    /\ UNCHANGED <<committed, global, page, switches, removing, watchers>>

-----------------------------------------------------------------------------
(* set_active_project.                                                     *)

\* The root is resolved before the watcher map is locked.
Resolve(c) ==
    /\ c.pc = "resolve"
    /\ switches' = (switches \ {c}) \cup
           {[c EXCEPT !.pc = "swap", !.root = IF Readable(c.slug) THEN disk[c.slug].root ELSE None]}
    /\ UNCHANGED <<disk, committed, global, page, removing, watchers, used>>

\* A variant that starts the new watcher beside the old ones.
RetainedAll(keep) == watchers

\* retain_only.
Retained(keep) == [s \in Slugs |-> IF s = keep THEN watchers[s] ELSE None]

Target(c) == IF c.root = None THEN None ELSE c.slug

\* A live watcher of the selected project is left as it is; the system may
\* refuse a new one.
Swap(c) ==
    /\ c.pc = "swap"
    /\ switches' = switches \ {c}
    /\ LET kept == Retained(Target(c))
           starts == {s \in {Target(c)} \ {None} : kept[s] = None}
       IN \/ /\ watchers' = [s \in Slugs |-> IF s \in starts THEN c.root ELSE kept[s]]
             /\ UNCHANGED used
          \/ starts # {} /\ watchers' = kept /\ Count("faults", MaxFaults)
    /\ UNCHANGED <<disk, committed, global, page, removing>>

Next == \/ Click \/ Refresh \/ OpenDirectory \/ Register \/ Update \/ RemoveStart \/ Break
        \/ \E s \in Slugs : RemoveDelete(s) \/ RemoveDeleteFails(s) \/ RemoveWatcher(s)
        \/ \E c \in switches : Resolve(c) \/ Swap(c)

Spec == Init /\ [][Next]_vars

-----------------------------------------------------------------------------
(* Properties.                                                             *)

Watched == {s \in Slugs : watchers[s] # None}

\* At most one project has a live watcher, however switches and removals
\* cross, and a watcher's root is a root of that project.
TypeOK ==
    /\ \A s, t \in Watched : s = t
    /\ \A s \in Watched : watchers[s] \in Roots(s)
    /\ page.active \in page.items \cup {None}

Consistent(w) == w.strategy \in {"custom", Inferred(w.pattern)}

\* What is said of a project's paths is consistent: the strategy, saved,
\* shown to the page or used by the command line under any flags, is custom or
\* the one its pattern stands for, and the command line with no flags works on
\* the paths the page shows.
StrategyTold ==
    \A s \in Slugs : disk[s] # None =>
        /\ Consistent(disk[s].worktree)
        /\ Effective(s).strategy = Inferred(Effective(s).pattern)
        /\ \A flag \in Strategies \cup {None}, path \in Patterns \cup {None} :
            \A plan \in CliPlans([flag |-> None, env |-> s, here |-> None], flag, path) :
                /\ Consistent(plan.worktree)
                /\ flag = None /\ path = None => plan.worktree = Effective(s)

\* The module's comment: the watcher is scoped to the project the user has
\* selected.  Once every switch has returned, no other project is watched.
WatcherFollowsTab ==
    switches = {} /\ (\A s \in Slugs : removing[s] = None) => Watched \subseteq {page.active}
=============================================================================
