------------------------------ MODULE MCDesktop ------------------------------
(***************************************************************************)
(* The safety run over the components of the desktop process that share no *)
(* state with one another.  A behaviour is one of one component, chosen at *)
(* the start: ConfigStore and PaneResize with their own variables, every   *)
(* other one in the slots v1, v2, ...; what the component does not use     *)
(* stays as it is.                                                         *)
(***************************************************************************)
EXTENDS ConfigStore, TLC

CONSTANTS Ids, Heirs, Trees, Root, Trunk, Home, Calls, Sides, Drags, Reopens,
          MaxStops, MaxAsks, MaxRevs, MaxLoads, MaxStrays

\* A pane has cells, and the lock that nobody holds is no resize.
ASSUME PaneAssumption == Sides \subseteq Nat \ {0} /\ Reopens \in Nat /\ "free" \notin Drags

VARIABLES transport, window, viewport, known, bridge, client, lock, drag, reopen, crossed, torn

paneVars == <<transport, window, viewport, known, bridge, client, lock, drag, reopen, crossed, torn>>

Pane == INSTANCE PaneResize

VARIABLES which, v1, v2, v3, v4, v5, v6, v7, v8, v9, v10, v11, v12, v13, v14, v15, v16, v17, v18

desktopVars == <<vars, paneVars, which, v1, v2, v3, v4, v5, v6, v7, v8, v9, v10, v11, v12, v13, v14,
                 v15, v16, v17, v18>>

\* Calls run the same code, and so do worktrees that are no older than others.
Symmetry == Permutations(Calls) \cup Permutations(Trees)

Terminals == INSTANCE SessionLifecycle_proofs WITH
    Shells <- {},
    tmux <- v1, doomed <- v2, row <- v3, entry <- v4, ghost <- v5, monitor <- v6, flight <- v7,
    call <- v8, recon <- v9, boot <- v10, bootView <- v11, stops <- v12, asks <- v13,
    closed <- v14, spawned <- v15, reaped <- v16, degraded <- v17, hears <- v18

\* Two new worktrees and two commands; one old worktree, stashes and a rebuild.
TwoTrees == INSTANCE Worktrees_proofs WITH
    Old <- {}, Refusable <- {}, MaxCommits <- 1, MaxStash <- 0, MaxRebuild <- 0,
    head <- v1, log <- v2, refs <- v3, base <- v4, edits <- v5, merging <- v6, stash <- v7,
    commits <- v8, call <- v9, watcher <- v10, rebuild <- v11, rebuilds <- v12, missed <- v13
OldTree == INSTANCE Worktrees_proofs WITH
    Trees <- {"t"}, Old <- {"t"}, Refusable <- {"t"}, Calls <- {"c"},
    MaxCommits <- 1, MaxStash <- 2, MaxRebuild <- 1,
    head <- v1, log <- v2, refs <- v3, base <- v4, edits <- v5, merging <- v6, stash <- v7,
    commits <- v8, call <- v9, watcher <- v10, rebuild <- v11, rebuilds <- v12, missed <- v13

\* A directory with two files, under the checkout's top.
Hydrate == INSTANCE Hydration WITH
    Paths <- {"a", "ab", "ac"}, Top <- "top",
    Parent <- [p \in {"a", "ab", "ac"} |-> IF p = "a" THEN "top" ELSE "a"],
    source <- v1, target <- v2, checkout <- v3, copies <- v4, links <- v5, manifest <- v6,
    result <- v7

\* Harnesses hs: those with JSON files of their own, or Codex, whose file is the
\* user's.
Setup(hs) == INSTANCE HarnessSetup WITH
    Harnesses <- hs, Projects <- {"p"},
    modern <- v1, disk <- v2, script <- v3, call <- v4, crossed <- v5, edits <- v6, faults <- v7

Layout == INSTANCE LayoutSaves WITH
    disk <- v1, aside <- v2, page <- v3, get <- v4, saves <- v5, flush <- v6, quit <- v7,
    landed <- v8, closed <- v9, used <- v10

OpenCode == INSTANCE OpenCodeStream WITH
    Calls <- {"boot", "reattach"}, InboxCap <- 0, SinkCap <- 1,
    server <- v1, port <- v2, conn <- v3, inbox <- v4, sending <- v5, sink <- v6, held <- v7,
    knows <- v8, call <- v9, runtime <- v10, cancelled <- v11, drain <- v12, machine <- v13,
    faults <- v14

\* Projects of these slugs, with bounds on updates, switches and faults.
Tabs(slugs, updates, switchings, breaks) == INSTANCE Projects WITH
    Slugs <- slugs, MaxRegisters <- 2, MaxUpdates <- updates, MaxSwitches <- switchings,
    MaxFaults <- breaks,
    disk <- v1, committed <- v2, global <- v3, page <- v4, switches <- v5, removing <- v6,
    watchers <- v7, used <- v8

\* What the modules behind the slots take the constants for: no directory is two
\* worktrees, None names no registration, and the user has made a grid.
ASSUME SlotsAssumption ==
    /\ TwoTrees!Sites /\ OldTree!Sites
    /\ None \notin {"boot", "reattach", "p", "q", "sibling-group", "nested", "custom"}
    /\ MaxRevs \in Nat \ {0}

-----------------------------------------------------------------------------
\* The slots a component with n variables leaves over.
After14 == <<v15, v16, v17, v18>>
After13 == <<v14, After14>>
After10 == <<v11, v12, v13, After13>>
After8  == <<v9, v10, After10>>
After7  == <<v8, After8>>
After0  == <<v1, v2, v3, v4, v5, v6, v7, After7>>

Unused == "unused"
Unused14 == v15 = Unused /\ v16 = Unused /\ v17 = Unused /\ v18 = Unused
Unused13 == v14 = Unused /\ Unused14
Unused10 == v11 = Unused /\ v12 = Unused /\ v13 = Unused /\ Unused13
Unused8  == v9 = Unused /\ v10 = Unused /\ Unused10
Unused7  == v8 = Unused /\ Unused8
Unused0  == /\ v1 = Unused /\ v2 = Unused /\ v3 = Unused /\ v4 = Unused /\ v5 = Unused
            /\ v6 = Unused /\ v7 = Unused /\ Unused7

\* What the others leave the two at: no config.toml, and no pane resized yet.
NoConfig == Init /\ disk = None
NoResize == Pane!Init /\ transport = "pty" /\ window = [c |-> 1, r |-> 1]

DesktopInit ==
    \/ which = "settings" /\ Init /\ NoResize /\ Unused0
    \/ which = "pane" /\ Pane!Init /\ NoConfig /\ Unused0
    \/ /\ NoConfig /\ NoResize
       /\ \/ which = "terminals" /\ Terminals!Init
          \/ which = "two trees" /\ TwoTrees!Init /\ Unused13
          \/ which = "old tree" /\ OldTree!Init /\ Unused13
          \/ which = "hydrate" /\ Hydrate!Init /\ Unused7
          \/ which = "json setup" /\ Setup({"claude", "opencode"})!Init /\ Unused7
          \/ which = "codex setup" /\ Setup({"codex"})!Init /\ Unused7
          \/ which = "layout" /\ Layout!Init /\ Unused10
          \/ which = "opencode" /\ OpenCode!Init /\ Unused14
          \/ which = "two projects" /\ Tabs({"p", "q"}, 0, 2, 0)!Init /\ Unused8
          \/ which = "one project" /\ Tabs({"p"}, 1, 3, MaxFaults)!Init /\ Unused8

DesktopNext ==
    /\ UNCHANGED which
    /\ \/ which = "settings" /\ Next /\ UNCHANGED <<paneVars, After0>>
       \/ which = "pane" /\ Pane!Next /\ UNCHANGED <<vars, After0>>
       \/ /\ UNCHANGED <<vars, paneVars>>
          /\ \/ which = "terminals" /\ Terminals!Next
             \/ which = "two trees" /\ TwoTrees!Next /\ UNCHANGED After13
             \/ which = "old tree" /\ OldTree!Next /\ UNCHANGED After13
             \/ which = "hydrate" /\ Hydrate!Next /\ UNCHANGED After7
             \/ which = "json setup" /\ Setup({"claude", "opencode"})!Next /\ UNCHANGED After7
             \/ which = "codex setup" /\ Setup({"codex"})!Next /\ UNCHANGED After7
             \/ which = "layout" /\ Layout!Next /\ UNCHANGED After10
             \/ which = "opencode" /\ OpenCode!Next /\ UNCHANGED After14
             \/ which = "two projects" /\ Tabs({"p", "q"}, 0, 2, 0)!Next /\ UNCHANGED After8
             \/ which = "one project" /\ Tabs({"p"}, 1, 3, MaxFaults)!Next /\ UNCHANGED After8

DesktopSpec == DesktopInit /\ [][DesktopNext]_desktopVars

-----------------------------------------------------------------------------
(* The properties, each stated and commented in its component's module;    *)
(* KillsWereAsked is ConfigStore's own.                                    *)

\* The components' states have their types and shapes.
TypesOK ==
    /\ TypeOK /\ Pane!TypeOK
    /\ which = "terminals"    => Terminals!TypeOK
    /\ which = "two trees"    => TwoTrees!TypeOK
    /\ which = "old tree"     => OldTree!TypeOK
    /\ which = "layout"       => Layout!TypeOK
    /\ which = "opencode"     => OpenCode!TypeOK
    /\ which = "two projects" => Tabs({"p", "q"}, 0, 2, 0)!TypeOK
    /\ which = "one project"  => Tabs({"p"}, 1, 3, MaxFaults)!TypeOK

\* A conversation that a start could bring back does not lose its row, and a
\* spawn that succeeds has one with its project.
ConversationKept == [][which = "terminals" => Terminals!KeepsConversations]_desktopVars
SpawnIsTracked   == [][which = "terminals" => Terminals!TracksSpawns]_desktopVars

\* Nothing goes on unseen once the calls are over: no live tmux session that
\* raum neither lists nor would adopt, no worktree without its watch or watch
\* without its worktree, no event channel that no runtime owns.
NothingAdrift ==
    /\ which = "terminals" => Terminals!HiddenIsAdoptable
    /\ which = "two trees" => TwoTrees!WatchesFollow
    /\ which = "old tree"  => OldTree!WatchesFollow
    /\ which = "opencode"  => OpenCode!NoStrayChannel

\* No commit leaves the repository but by a deletion the user asked to force,
\* whatever runs between the steps of a merge or a removal.
CommitsKept ==
    [][/\ which = "two trees" => TwoTrees!KeepsCommits
       /\ which = "old tree"  => OldTree!KeepsCommits]_desktopVars

\* What the user wrote is not overwritten: the main checkout by a hydration
\* rule, a harness's settings by an install, config.toml by a setter for
\* something else, the saved layout by a page that has not read it.
UserFilesKept ==
    [][/\ which = "hydrate"     => Hydrate!LeavesSource
       /\ which = "json setup"  => Setup({"claude", "opencode"})!KeepsUserContent
       /\ which = "codex setup" => Setup({"codex"})!KeepsUserContent
       /\ which = "settings"    => KeepsSettings
       /\ which = "layout"      => Layout!EmptiesOnPurpose]_desktopVars

\* What a caller is told holds: an install that reports success has wired the
\* harness, a hydration has met its manifest, the strategy shown is the one a
\* worktree is made by, the grid the page had acknowledged is on disk.
PromisesMet ==
    /\ which = "hydrate"      => Hydrate!MeetsManifest
    /\ which = "json setup"   => Setup({"claude", "opencode"})!InstalledIsWired
    /\ which = "codex setup"  => Setup({"codex"})!InstalledIsWired
    /\ which = "two projects" => Tabs({"p", "q"}, 0, 2, 0)!StrategyTold
    /\ which = "one project"  => Tabs({"p"}, 1, 3, MaxFaults)!StrategyTold
    /\ which = "layout"       => Layout!LayoutLands

\* Between the calls of a resize the window covers the viewport.
HatchFree == Pane!HatchFree
=============================================================================
