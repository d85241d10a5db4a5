# TLA+ models of raum

raum is a desktop application (Tauri: a Rust backend, a TypeScript/Solid
webview) that runs coding agents (Claude Code, Codex, OpenCode) and shells in
panes backed by a private tmux server, each in a git worktree of its own. What
its users rely on is *attention* (which agent works, waits for a permission, has
finished unseen), *continuity* (panes and conversations survive a reload, a
crash, a reboot) and *care* for what is theirs (commits, settings files, layouts)
while many asynchronous parties write the same state. The models here are about
these three.

    tlc -workers 2 -config MCHookFlow.cfg MCHookFlow     # one run
    tlapm PermissionFlow_proofs.tla                      # one proof module

## 1. Inventory

| Component | State | Operations | Hard behaviour | What makes it correct |
|---|---|---|---|---|
| Agent state machine, event classifier (`agent_state.rs`, `harness/event.rs`) | state, `activity_armed`, `silence_only` per session | hook event, reply, abort, silence tick | harness-dependent classification, arming across states | a transition follows the classified event; only output after arming reclaims a state |
| Hook event socket, `PendingRequests` (`raum-hooks/socket.rs`) | parked writers with an age order, bounded channel | park, reply, evict, sweep, drop | four parties race for one writer; a full channel | one verdict per request; every writer is released; an expiry precedes its proof |
| Registry routing and drain loop (`agent/registry.rs`, `runtime.rs`) | machines, live sessions | route, expire, sibling check, notify | stale session ids, check and act under two locks | no machine is flipped by a foreign event; nobody waits on nothing |
| Permission reply path (`permission.rs`, `io.rs`, `delegate.rs`) | reply task per click | two transports, demotion, Ctrl-C | answers from rail, banner and TUI at once | a reply demotes only a session that is not blocked otherwise |
| OpenCode SSE (`opencode_sse.rs`, `harness_runtime.rs`) | connection, sink, forwarder, runtime | connect, read, push, forward, register, replace, end | no replay, lossy 250 ms send, overlapping registrations | one channel per session; a pane whose answer was lost is freed |
| Notification centre (webview) | badge entries | add, clear | each entry has an authority that clears it | no entry without an authority |
| State fan-out (`runtime.rs`, `silence.rs`, `persistence.rs`) | broadcast bus, bridge | publish, persist, emit | four unsequenced emitters, a bus that drops | persisted before emitted; the webview ends up right |
| Agent store, acknowledgements (`agentStore.ts`) | sessions, acknowledged, pending acks | snapshot, event, ack, retry, re-arm | snapshot against events, ack against transition | what was dismissed stays so, what was not does not vanish |
| Session store (`store.rs`) | `sessions.toml`, cache, debounced value, flusher thread | 8 accessors, quit flush | two threads, failed writes, crashes | the recovery authority never lags |
| Terminal lifecycle (`terminal/*.rs`) | terminal registry, ghosts, tmux sessions, rows | spawn, reattach, resume, replace, close, reap, reconcile | commands cut at awaits, half-failed resumes, crossing reaps | nothing live is hidden, no conversation lost |
| Start-up rehydration (`agent_hydrate.rs`, `reconcile.rs`, `lib.rs`) | plan, ghosts, boot latch | classify, register, recover, forget, adopt | dead server, dead panes, page that loads meanwhile | what a start can bring back it brings back |
| Output pipe (`coalescer.rs`, `pty_bridge.rs`, `control.rs`) | threads, bounded channel, parser, pending commands | read, feed, flush, command, tear down | replies among output, three threads, an exit that crosses a teardown | the terminal shows a prefix of the output; replies reach their callers |
| Terminal resize (`resize.rs`) | window and viewport sizes, resize lock | resize | separate calls that fail, a reattach outside the lock | no hatch |
| Worktrees (`worktree/{create,remove,merge}.rs`, `orchestrate.rs`, `git_watcher.rs`) | branches, worktrees, stashes, watcher | create, remove, merge, rescan, select, rebuild | git processes with agents at work in between | no commit is lost; watches follow the worktrees |
| Hydration and hooks (`raum-hydration`) | rules, a child with pipes | copy, link, run | links that lead out, heirs of the child | the checkout is untouched; the manifest is met; the hook returns |
| Worktree status (`status_service.rs`, `fs_watcher.rs`, `worktreeStore.ts`) | task and watcher per path, shown status | subscribe, pulse, poll, recompute, fetch | watchers built off the lock, diffs only | the row shows what is on disk |
| GitHub (`github/*.rs`, `githubStore.ts`) | poll tasks, gh's cached status | poll, nudge, switch, announce | gh fails, branches and projects switch | the chip is right, a merge is told once |
| Webview health (`webview_health.rs`) | readiness gate, probe, cooldown | probe, reload, reopen | two reloaders, reloads that fail | a dead page is reloaded |
| Harness set-up (`harness/setup.rs` and adapters) | settings files of three harnesses | plan, apply, scan | several files, other writers | what the user wrote stays; success means wired |
| Configuration (`store.rs`, `config.rs`, `commands/config.rs`) | `config.toml`, cache with stamp, restart flag | set, read, quarantine, kill at boot | editor beside raum, crashes | a setter changes its own group only; a kill was asked for |
| Saved layout (`runtimeLayoutStore.ts`, `lifecycle.rs`) | grid, save gate, timer, quit flush | hydrate, save, flush, quit | slow reads, saves in any order, bounded waits | never blanked by a page that has not read it |
| Projects (`project.rs`, `projectStore.ts`, `cli_worktree.rs`) | project files, active watcher | register, update, remove, switch | three layers of settings, crossing switches | the strategy told is the strategy used |
| Ignored-file tree (`project.rs`, settings dialog) | tree, tags | list, expand, tag | paths cut per level | a tag names its file |
| Layout tree, attach, renderer and write schedulers (webview) | tree, slots | split, acquire | context budget | every pane exactly once |
| tmux manager, reviews, git, search, updater, UI | little | I/O | | covered by unit tests |

Calls and messages: harness → hook script or event stream → channel → drain loop
→ registry → broadcast bus → bridge → `sessions.toml` and webview; webview →
commands (`reply_permission`, `agent_ack_state`, `agent_snapshot`,
`terminal_*`, `worktree_*`, `config_set_*`) → registry, `PendingRequests`, store,
tmux, git. Shared state sits behind separate mutexes (`agents`, `config_store`,
`terminals`, `PendingRequests`, the store's own locks); none of them is held over
an `await`, so every await is a place where another command runs.

## 2. Plan and state of it

| Step | Modules | State |
|---|---|---|
| a request from script to decision | `AgentMachine`, `PermissionFlow` | modelled, checked, every safety property proved |
| the file | `SessionsLedger` (abstract), `SessionsStore` | modelled, checked, refinement and every safety property proved |
| states out to the webview and back | `StateFanout` over the ledger | modelled, checked, refinement and every safety property proved |
| sessions, rows and tmux | `SessionLifecycle` | modelled, checked, every safety property proved |
| the pane's bridge | `PaneStream` (abstract), `OutputPipe`; `PaneResize` | modelled, checked, refinement and every safety property proved |
| worktrees | `Worktrees`, `Hydration`, `HookRun` | modelled, checked, the safety of `Worktrees` and `Hydration` proved |
| what the window shows | `StatusService`, `StatusFetch`, `PullPolls`, `RepoPolls`, `WebviewHealth` | modelled, checked, the safety of `WebviewHealth` and `PullPolls` proved |
| files the user shares with raum | `HarnessSetup`, `ConfigStore`, `LayoutSaves`, `Projects`, `IgnoredTree` | modelled, checked, every safety property proved but for `IgnoredTree` |
| OpenCode's stream | `OpenCodeStream` over `AgentMachine` | modelled, checked, safety proved |

Each invariant and each action property that a passing run checks is a theorem
(section 6). Next: the layout tree's operations against structural invariants and
the webview's schedulers; notification banners; `worktree_merge` against the
status service through one `.git`.

## 3. What is modelled

### AgentMachine

`AgentStateMachine` and the classifier as pure operators on a record of the
fields a property can tell apart. `transition()` returns a change exactly when
the state differs, which callers see by comparing. Event names fall into eight
classes, payloads into what the classifier looks for. Prompts and harness
session ids are data that no transition reads.

### PermissionFlow

One action per critical section, channel operation or emit.

| Actions | Code |
|---|---|
| `ReceivePermissionRequest`, `ReceivePostToolUse`, `ReceiveHook`, `Forward` | connection task: park or evict under the mutex, then `tx.send().await` |
| `Sweep`, `SendExpiry` | `spawn_permission_sweeper`, one per parked request |
| `OpenCodeAsks`, `OpenCodeAnswered`, `ForwardSink` | SSE channel and forwarder, with their losses (`Emit`) |
| `DrainTake`, `DrainRoute`, `DrainEmit` | `drive_event_socket`: sibling check, registry section, emit |
| `Click`, `ReplyHttp`, `ReplyHook`, `ReplyCheck`, `ReplyDemote`, `ReplyResolve` | `deliver_permission_decision` and its callers |
| `Submit`, `Abort`, `DropSession`, `Tick` | `terminal_send_keys`, silence tick |
| `Remove`, `AnnounceRemoved` | `cleanup_harness_session`, removal events |
| `ClientGivesUp`, and who asks or answers | external: scripts, harnesses, users |

Abstractions. `conn[c]` is a connection's task and the first of the two chained
channels of `lib.rs`; `channel` is the second. Emits are handled by the webview
when made. Bytes, line limits and JSON errors are left out: a malformed line
changes nothing. Two timing assumptions are named in the module: a person
answers a prompt after its event has reached the channel (`AnswerAfterForward`),
and the 90 s sweep lies beyond the script's 85 s deadline and beyond forwarding.

### SessionsLedger and SessionsStore

The ledger is what the rest of raum is promised: a table of rows, of which only
`last_state` of an unacknowledged row may lag on disk, and a fall back to the
disk after a crash or a failed write. The store has the cache, the pending
debounced value with its deadline, the flusher thread, write-through and
`atomic_write`, step by step between the points where the other thread could
run. `View`, what accessors see, is the refinement mapping: while an operation
has not renamed its file it is the table the operation started from; after the
rename, the new one; while the flusher has taken the value and dropped the
cache, that value. External edits, quarantine of a broken file and power loss
between rename and directory fsync are not modelled. The module assumes that
`sessions.toml`, where it exists, can be read: six accessors turn a read error
into an empty table (`read_sessions().unwrap_or_default()`) and write that back.

### StateFanout

A reading is a state with the number of the transition that led to it, so two
completions are told apart. The drain loop and the tick take a change out of the
registry lock (`hand`), publish it later, and the bridge persists and emits it;
abort and reply tasks emit theirs directly. The store is used through
`SessionsLedger` (`rows`, `saved`), whose promise the second module keeps. The
webview's three structures (`view`, `acks`, `unsent`), the snapshot in its three
steps (registry, join, apply), calls in flight, spawn, kill and restart complete
it. A write of `sessions.toml` may fail in every one of its callers
(`BridgePersistFails`, `AckFails`, `TrackFails`, `KillFails`, `SettleFails`): the
caller logs it and goes on, and readers are back at what the disk says
(`WriteFails`). Each task has one change in hand at a time. `Restart` performs rehydration
in one step, before the new page's snapshot; the seed emits and the `agent_state`
pull after a reattach, which only repeat what the snapshot says, are left out.
tmux is assumed to survive.
`AckState` executes and answers in one step.

### SessionLifecycle

The tmux session on raum's socket, its row in `sessions.toml`, its entry or
ghost in the `TerminalRegistry`, and every command that moves the three:
`terminal_spawn` (`Spawn*`), `terminal_reattach` with its respawn-in-place and
its self-heal (`Attach*`), `terminal_provider_replace` (`Replace*`), the four
ways to close (`KillInteractive`, `RemoveKill`/`RemoveFinish`, `KillOrphan*`, and
the reap that retires a replaced session), the pane-death monitor, the
reconcile pass (`Recon*`) and the boot task (`Boot*`, `RegisterGhost`,
`RecoverGhost`). Commands are cut at their awaits. `Stop` is a quit, a crash
(socket and file stay) or a reboot (the file stays). The ids of replacements
are drawn apart (`Heirs`) so that symmetric choices are made once. Reports of
hooks and the bridge's persists are routed to a session's machine (`hears`), may
still be written after the machine has gone (`LateReport`), and insert a row that
is missing, as `update_session_last_state` and `update_session_harness_id` do
(`Reported`). Every upsert and every forget may fail; the commands go on
(`Registers`, `Cleanup`, `ReplaceTrack`, `ReconTrack`, `BootApply`). Start states
are whatever an earlier run can leave, placeholders of a command that a crash cut
short among them. Left out: the fallback of the register job when `list-panes`
fails (`check_pane_dead` per session instead of one listing), a kill of tmux
that fails,
poisoned locks, the 60 s hard timeout of the pane gate (it does not fire before
the boot task ends), expiry of completed rows (`agent_hydrate.rs` 227-242) and
the collection of old snapshots.

### PaneStream, OutputPipe, PaneResize

`OutputPipe` is one bridge: tmux's client, the reader thread with the control
parser and its phases, the bounded channel, the coalescer, the sink, the exit
waiter, and commands with replies, timeouts and a four-step teardown; both
transports. Output is a run of numbered items, a capture stands for the items
before it, command lines carry a number no step reads (it lets the proof speak
of order). Deadlines are nondeterministic. `PaneStream` is what it promises:
the terminal shows a growing prefix of what the pane printed (`ShowsThePane`
instantiates it). External assumptions: tmux writes `%output` and reply blocks in
the order in which things happened, and does not refuse the commands of the
synchronisation block (the parser takes an `%error` there like an answer). `PaneResize` is `terminal_resize`: the
order of its two or three calls by direction, each of which may fail, several
drags queued on the lock, and a reattach, which takes no part in it.

### Worktrees, Hydration, HookRun

`Worktrees`: create, remove and merge as sequences of git processes; agents and
the user edit, commit, stash, switch and merge between any two; rescans,
project selection and rebuilds of the `.git` watcher run beside them. A commit
is a number and a branch the set of commits reachable from it. The system may
refuse the watch of a single directory (`Refusable`), which is logged. The named
assumptions are in the module's head. `Hydration`: the manifest's rules one by
one over a small tree, where a link leads back into the main checkout. The
directories of the checkout that are copied hold no links of their own
(`copy_dir_walk` makes such a link again, with the target it has, and follows
none).
`HookRun`: the script, processes it leaves behind with its pipes, the polling
wait and the deadline.

### StatusService, StatusFetch, PullPolls, RepoPolls, WebviewHealth

`StatusService`: one watch task per path, the subscription set pushed by the
webview, the two phases in which a task and later its file watcher are started,
triggers of several strengths, the fallback poll, the cached stash count, and
emits that happen on a difference only. `StatusFetch` adds the webview's batch
fetch. `PullPolls` and `RepoPolls` are the two GitHub services; GitHub, gh and
the branch checked out change under them. `WebviewHealth`: probes on focus,
WebKit's terminate callback, two callers of `reload_webview`, cooldown and gate.

### HarnessSetup, ConfigStore, LayoutSaves, Projects, IgnoredTree

`HarnessSetup`: a plan is worked out from the files as they are then, and
applied later, action by action; files are absent, plain, with raum's entries,
stale or broken; the user, the harness and other installs write them too.
`ConfigStore`: each store call is cut at its file accesses (stat, parse,
quarantine, re-stat, rename, stamp), the editor and a crash come between; an
editor may save the buffer it has open, and so put an older restart flag back;
settings are grouped by the setter that owns them. `LayoutSaves`: gate, timer,
saves that land in any order, the quit dance with its bounds, a page that dies.
`Projects`: the three layers of path settings with `normalize` and
`infer_from_pattern`, the command line's choices, and the active project's
watcher. `IgnoredTree`: building and expanding the picker's tree; it is
recursive and therefore checked by TLC only.

### OpenCodeStream

The server's bus, one connection per channel task, translation of its events
(turns, permissions, questions, with the user-message tracker), the bounded sink
with its 250 ms loss, the forwarder and its cancellation, and registrations by
the boot and by a reattach that may overlap. It uses `AgentMachine` for what
the drained events do.

### Composition

Components that share state are composed: `PermissionFlow` and `OpenCodeStream`
over `AgentMachine`; `StateFanout` over `SessionsLedger`, whose promise
`SessionsStore` keeps; `StatusFetch` over `StatusService`. Components that share
none are checked side by side: `MCDesktop`, `MCWindowLive` and `MCSessionsLive`
let a behaviour choose one component at the start (`which`), which then runs
with its own variables in shared slots while the others stand still. This is a
disjoint sum, so each component behaves in it as it would alone, and one
component cannot hide a violation of another. A weak fairness condition of the
sum may hold one condition of each component in disjunction: `which` never
changes, so that in any behaviour all but one of its disjuncts are false for
ever.

## 4. Runs

| Run | Question | Bounds, and why they are enough |
|---|---|---|
| `hook_flow` | do replies, TUI answers, sweeps and aborts of parallel requests keep one verdict, the expiry order, a live Waiting and a cleared badge? | 2 requests with different calls, 2 connections, channel 2, 1 click each: every race in the code is between two parties over one request, or between two siblings |
| `mixed_flow` | can an event move a machine it is not for? | 3 sessions, of which one unknown and one that may be killed; sink and channel of one place, so that every loss occurs |
| `hook_live` | is every writer released and does every expiry arrive? | identical calls, one-place channel, a session unknown to raum: the sweeper is the only authority |
| `sessions_store` | does the file implement the ledger, and does every deferred state reach the disk? | 2 rows, 2 states, 5 operations, 1 failed write, 1 crash: a race needs a debounced touch, a write-through, a failure and a follow-up |
| `state_fanout` | does the webview end up right, do dismissals last, does the bridge respect the ledger? | 1 session spawned and killed, 2 transitions, a one-place bus (so that it overflows), 2 acknowledgement calls (one a retry), 1 reload, 1 crash, 1 failed write (0.83M states); with 3 transitions and one of reload and crash at a time (about 1M and 0.75M states, too slow to repeat every time) it held as well |
| `output_pipe` | does the terminal show the pane, does a reply reach its caller, is only a fall reported? | 2 commands, a one-place channel, batches and flushes of 2, 4 items and commands together: the channel fills, a timed-out waiter is followed by another command, a burst ends in a tail |
| `desktop` | do the components that share no state keep their promises? | per component below |
| `window_live` | does what the window shows become what is there? | 2 misses, 2 deaths, 1 fault; 1 worktree, 1 edit, 1 fault; 2 branches, 2 changes; 2 projects, 1 stream, 2 changes: one thing to see and one failure to miss it by |
| `sessions_live` | does every wait end? | a harness and a shell left by an earlier run with one command; one OpenCode channel with one loss; hooks with and without a deadline |
| `foreign_stash`, `stale_fetch`, `nested_tag` | does the code do what the quoted doc says? | the smallest instance that shows it does not; see Findings |

`desktop`, by `which`: *pane*: sides 1 to 3, 2 drags, 1 reattach (growing,
shrinking and mixed changes exist from 3 lengths on). *terminals*: a harness an
earlier run left in any condition, one id to be made, 2 commands in flight, 1
stop, which counts as a command given; any write may fail. *two trees*: 2 new worktrees, 2 commands, 1 commit; *old tree*: an old
worktree, whose watch may be refused, 1 command, 2 stashes, 1 rebuild. *hydrate*: a directory with two files
and all pairs of manifests of up to two rules per kind. *json setup*, *codex
setup*: 2 installs, 1 edit, 1 fault. *settings*: 2 groups, 2 writes, 1 edit, 3
launches, 1 fault. *layout*: 3 changes, 2 pages, 1 fault, 1 stray save.
*opencode*: 2 registrations, a one-place sink, 1 fault. *two projects*, *one
project*: 2 registrations, 2 or 3 switches, 1 update, 1 fault. Every hazard
listed for these components needs two parties and at most one failure. The sum
has about 2.7 million states. `MCDesktop` takes the harnesses of an install and
the slugs and bounds of the projects as parameters of two instances, `Setup(hs)`
and `Tabs(...)`, so that one proof serves both components made of each.

`CHECK_DEADLOCK FALSE` everywhere: the bounds on the environment (`MaxReplies`,
`MaxOps`, `MaxChanges`, ...) let every instance come to rest, and a program at
rest with nothing to do is no error.

The properties, by hazard:

- *one writer, many claimants*: `AtMostOneVerdict`.
- *order through a FIFO*: `ExpiryAhead`: the badge goes before the Working edge
  of the tool result that proved the answer.
- *two checks of one set at two times*: `NoStuckWaiting`: the reply task counts
  siblings after its removal, the drain loop before its lock; whatever the
  interleaving, a Waiting machine has an open request or is armed.
- *who clears a badge*: `BadgeHasAuthority`; *stale senders*: `NoForeignFlip`.
- *two threads and a file*: `RefinesLedger`, `RecoveryAuthority`, `AckInStep`.
- *reload between persist and emit*: `PersistBeforeEmit`; *lost and reordered
  changes*: `Converges` of `StateFanout`; *dismissals*: `DismissedStaysDismissed`.
- *counting replies*: `RepliesMatch`; *teardown against callers and exit*:
  `NoneLeftWaiting`, `ReportsOnlyFalls`; *capture against live output, tail of a
  burst*: `ShowsThePane`, `TailArrives`.
- *calls in the wrong order*: `HatchFree`.
- *half-done commands*: `NothingAdrift` (no live session that is neither listed
  nor adoptable, no worktree without its watch, no channel without an owner),
  `ConversationKept`, `SpawnIsTracked`.
- *check, then destroy*: `CommitsKept`; *whose files*: `UserFilesKept`.
- *what a success means*: `PromisesMet`; *a one-shot flag*: `KillsWereAsked`.
- *two reloaders and a gate*: `GateOpens`; *edges between polls*: `MergesTold`.
- *liveness*: `EventuallyUnparked`, `ExpiryReachesBadge`, `TouchReachesDisk`,
  `DeadPageReloads`, `Converges` and `GitHubConverges` of `MCWindowLive`,
  `LiveSurfaces`, `WaitsEnd`.

What they except. `NoStuckWaiting`: sessions for which the code knowingly cannot
see the answer (`Unseen`: requests without a session or of another harness
started inside the pane, decisions lost with their script, aborts, lost OpenCode
events). `Converges` and `DismissedStaysDismissed`: sessions
to which an older reading was applied over a newer one (`crossed`) or whose last
change was pushed off the bus (`starved`): the stale snapshot over newer events is
thus a finding and not something they guard; the latter also dismissals whose
flag was confirmed to a page that showed another turn than the row's (`kept`: a
page that has reloaded may send the acknowledgement of an older turn while the
bridge persists a newer one, whose row is then flagged). `HatchFree`: the pipe
transport, crossed
reattaches, and a mixed resize that fails at its last call. `TailArrives`: a sink
that went before the threads ended. `PersistBeforeEmit`: sessions whose newest persist
failed, or was taken back by the failed write of another call (`lapsed`; the
session's next persist ends it), and killed ones. `NothingAdrift`: what the
modules' history variables name. For worktrees, what came or went while a rebuild
had its list, or was refused a watch (`missed`). For sessions, a boot that could
not list the socket (`degraded`), and the session that runs on after the cleanup of
a reattach while its row is in the file again or still: a report routed before its
machine was removed is written after it, or forgetting failed (`hears` is
`"stray"`). `LiveSurfaces` excepts the same. `SpawnIsTracked`: a spawn whose own
upsert failed (`"bare"`); a failed write elsewhere excuses nothing.
`ConversationKept`: an orphan reap excuses the loss of a row only if raum had no
entry, ghost or row of the session when the reap chose it (`reaped`).
`BadgeHasAuthority`: requests whose decision was delivered or lost. `LayoutLands` (in
`PromisesMet`): an older save still in flight when the flush is sent.
`KeepsSettings` (in `UserFilesKept`): an edit between a setter's read and its
write. Each of these is a real gap of the code; section 5 names them.

### Fairness

Weak fairness is assumed of raum's own tasks and threads: runnable tasks of a
work-stealing runtime run, timers elapse, git, gh and tmux return. Strong
fairness: `SendExpiry`, because senders compete for the channel and tokio queues
waiting senders in order; and, in `OpenCodeStream`, the user who answers and
prompts again and the turn that ends, since an orphaned wait is freed by what the
user does next. Of users otherwise: `ClientGivesUp` (the script has a deadline of
its own) and `FocusGained` (the probe is started by focus and by nothing else).
`WaitsEnd` assumes of a hook that processes it leaves behind end, which the code
cannot enforce. `sessions_store`: a burst of submits ends by `MaxOps`; writes
may fail, and no crash is assumed. `PollSpec` of `stale_fetch` adds the poll.

## 5. Findings

Runs that TLC finds violated (quotations in `PROJECT.json`):

- `foreign_stash`: stash indices are listed once and dropped one by one; a stash
  made in between shifts them, and another branch's is dropped.
- `stale_fetch`: an answer of `worktree_status_batch` that is older than a push
  overwrites it; the service, which emits differences only, does not repair it.
- `nested_tag`: a node more than one directory deep gets a suffix of its path,
  and a tag on it hydrates another file or none.

Where a property excepts what the code does against its docs (each exception is
named in the property; without it TLC finds the case):

- `BadgeHasAuthority`: a decision from an OS banner is never reported to the
  webview, so its badge entry stays until the session goes (`ReplyClearsBadge`).
- `AckInStep`: a failed write discards the debounced state and the cache; the
  next acknowledgement puts the flag on disk beside the older state
  (`AckNeverAhead`).
- `Converges` (`StateFanout`): the webview does not buffer events while
  `agent_snapshot` is under way (`SnapshotIsFresh`).
- `DismissedStaysDismissed`: an acknowledgement names no state and flags
  whatever the row holds (`AckSilencesSeen`).
- `PersistBeforeEmit`: a change still on its way when a session is killed
  inserts its row again (`KillPrunes`); and a change whose write failed is
  emitted all the same, against "persisted into state/sessions.toml before we emit".
- `LiveSurfaces`: a reconcile pass between the two steps of a close adopts the
  session the user has just closed (`ClosedStaysClosed`); and a plain reattach whose
  bridge does not open cleans up after a session that runs on: if a report of it is
  under way or the row cannot be forgotten, the session is tracked, not listed, and
  adopted by no pass until raum starts again.
- `KillsWereAsked`: the restart flag that cannot be cleared kills the server at
  every launch, against the comment above it (`KillsOnce`).
- `ExpiryReachesBadge`: `spawn_permission_sweeper` documents a lossy expiry
  where the code waits.

Stated in a module, found violated by TLC, and kept without a run:

- `DemoteOnlyWhenClear` (`PermissionFlow`): a reply to one of two parallel
  OpenCode requests demotes a session that still waits on the other.
- `OwnPaneOnly` (`OutputPipe`): if a foreign tool has split the window before
  raum attaches, `display-message -t <session>` names the foreign pane and the
  terminal shows that one (set `Splits = {"early", "late"}`).
- `WatcherFollowsTab` (`Projects`): `project_set_active` calls of two quick
  clicks may cross and leave the watcher on the tab clicked first.

Also seen while modelling, by component:

- *Permissions, states.* Transitions by abort and by reply are emitted and never
  persisted, although `runtime.rs` says of "each transition" that it is.
  `agentStore.ts` promises to clear an acknowledgement when a session
  "transitions to a non-terminal state" and does so on working and idle, not on
  waiting. Two identical parallel calls cannot be told apart by the eviction.
- *Sessions.* A spawn whose row cannot be written succeeds untracked, and the next
  start forgets or reaps it. The protected set of an orphan reap is read once: a
  session adopted while earlier ones are killed is killed and forgotten in its turn.
  A read error of `sessions.toml` is an empty table that the next write makes true.
- *Bridge.* A command issued after the reader has ended waits the whole
  `REPLY_TIMEOUT`; a sink failure and an exit can both emit bridge-lost; the
  waiter thread holds an `Arc` of the inner bridge, so dropping the last clone
  does not kill the child as documented.
- *Resize.* A reattach that crosses a resize (it takes no part in the lock), and
  a mixed resize that fails at its last call, leave the window smaller than the
  viewport: the `crossed` and `torn` of `HatchFree`.
- *Worktrees.* A failed hydration leaves the worktree on disk while
  `worktree_created()` says false, and nothing rescans; `git merge --abort`
  after a failed merge can abort a merge of the user's; a merge lands in whatever
  the target folder has checked out by then; a base branch that was deleted makes
  its children unmergeable; dirty and conflict probes fail open; the watcher's
  rebuild overwrites a concurrent rescan; sessions to be killed are listed once;
  the command line makes worktrees without the app's locks.
- *Hooks.* A background child that holds the pipes makes `run_hook` outlive its
  deadline; a script that ends between the last poll and the deadline is reported
  as timed out.
- *GitHub.* Transitions compare pull requests of different branches after a
  switch; `github_pr_merge` returns an error and triggers nothing when the merge
  has landed and the branch deletion fails; a page reload loses the open
  project's sections until the project is switched.
- *Webview.* A page that dies while booting is never probed again.
- *Set-up.* Two Codex installs overwrite each other's trust entries; an edit
  between plan and write is lost; settings of the wrong shape are replaced; the
  Codex selftest reads the user-global hooks although the plan writes the
  project's; a scan reports installed when the script's write failed.
- *Configuration.* `write_config` stamps whatever lies at the path after the
  rename; a failed quarantine caches defaults under the bad text's stamp;
  quarantine can move aside a text just repaired; unknown nested keys are lost;
  an edit between a setter's read and its write is lost; an editor's older buffer
  puts the restart flag back.
- *Layout.* Two saves may land in either order, and the older grid can win at
  quit; after a read that timed out the save of one new pane replaces a full
  layout; a second close request during the flush exits at once.
- *OpenCode.* A kill that crosses a registration leaves a channel for a dead
  session; events of child sessions may overwrite the persisted session id;
  sessions without a tracked port share the default one.
- *Projects.* Registering a second root of the same base name overwrites the
  first project; `normalize` is not idempotent for an alias pattern that
  contradicts its preset; a switch resolved before a removal starts a watcher for
  a removed project; `--path` with `--strategy nested|parent` is ignored.

## 6. Proofs

All theorems hold for every value of the constants that meets the named
assumptions, which TLC evaluates in the runs: `FlowAssumption`, `PlainAssumption`;
`StoreAssumption`, `NoRowAssumption`, `NoTableAssumption`; `FanoutAssumption`;
`CapsAssumption`, `WorkAssumption`, `CallsAssumption`, `TransportsAssumption`; and
for the sums `NoneAssumption` (of `ConfigStore` and of `MCWindowLive`: `None` is
none of the values it stands beside), `PaneAssumption` (panes have cells, and the
free lock is no resize) and `SlotsAssumption` (no directory is two worktrees,
`None` is no registration, slug or strategy, and the user makes a change).
Some theorems state a hypothesis of their own:

- `NoQuestions` (`NobodyStuck`): no plain event is a notification that raises a
  question in the harness's terminal. The answer to such a question reaches raum
  as typed input or not at all, and until then the machine rightly waits.
- `Splits \subseteq {"late"}` (`BurstArrives`, `PipeImplementsStream`): no tool
  splits the window before the bridge has asked for the pane's id. Without it the
  claim is false (`OwnPaneOnly`, section 5).
- `Sites` (`Worktrees_proofs`): the main worktree is none of the linked ones,
  `None` names no branch, and the old worktrees are among the linked ones;
  `TypeCorrect` also that the bound on stashes is a number. Both hold of the
  instances in `MCDesktop` (`SlotsAssumption`).

`PermissionFlow_proofs`:

- `TypeCorrect`: `TypeOK` is inductive; one step per action, over lemmas on
  the machine operators and on queues of events.
- `OneVerdict`: `AtMostOneVerdict` is not inductive, for an OpenCode request
  could be answered twice if it were open with a verdict. `VerdictInv` adds
  that parked and open requests have been asked and have no verdict, that one not asked
  has none either, and that the two transports do not mix. Every verdict is given together with the
  removal that makes it the only one.
- `RoutesHome`: `NoForeignFlip` needs `HarnessInv`, that a machine keeps the
  harness it was made for, since the router compares harness names.
- `ExpiryComesFirst` (`ExpiryAhead`) and `BadgesHaveAuthority`
  (`BadgeHasAuthority`), from `FlowInv`. It reads the drain loop's hand and the
  channel as one line with places (`InLine`, `At`), fixes what travels
  (`Traffic`), that a request is announced at one place and once
  (`Announcements`), and follows the expiry of an evicted or swept request: it is
  on its way, ahead of the result that proves the answer, until no announcement
  of the request is behind it and its badge is gone (`Expiries`).
- `NobodyStuck` (`NoStuckWaiting`): `NobodyForgotten` names, for every machine
  that waits unarmed without an open request, what is under way to rescue it
  (`Rescues`): an expiry, a reply about to check or demote, OpenCode's own answer,
  which follows its request (`Answers`). One lemma per way in which a request
  closes and one per rescuer.

`SessionsStore_proofs`:

- `StoreTypeCorrect`: `TypeOK`.
- `Recovers`: `RecoveryAuthority`. The strengthening is `Discipline` (the pending
  value and a warm cache are the table an operation started from, and both are
  gone while a file is written) and
  `Authority` (disk, cache, pending value and promised rows are `Alike`: they
  agree on everything but `last_state`). `ApplyAlike` shows that accessors keep
  tables alike, `DebouncedKeeps` that a deferred one changes nothing but the
  state.
- `StoreImplementsLedger`: every step maps through `View` to a ledger step or to
  a stutter; `LedgerStep` has one case per action.
- `OnlyLastStateLags`: the ledger's own invariant carried over to the store.
- `FlagsStayInStep`: `AckInStep`. Added: an acknowledged row is settled on disk
  (`AckedSettled`), what readers see is what was promised except within an
  operation (`NothingLost`), and a write-through is made only when it changes its
  row (`Needed`).

`StateFanout_proofs`:

- `FanoutTypeCorrect`: `TypeOK` with `Held`, that a bridge which is not
  receiving holds a change, and that the calls under way are among those made.
- `FanoutUsesLedger`: `RefinesLedger`. A row written through is a `Record`, a
  row changed for readers alone is a `Touch` (`PersistIsRecordOrTouch`), a
  restart falls back to the disk, all else stutters.
- `PersistsBeforeEmitting`: `PersistBeforeEmit`. Between the bridge's persist
  and its emit other tasks run, so the invariant is `Recorded`: while the bridge
  is about to emit, the row holds the change, or a write has failed that took it
  back or prevented it (`lapsed`), or a kill has removed the row and
  no spawn of the session can follow that would put a bare one back.
- `ShowsTheMachine`: `Converges`. Every reading of a session that is on its way
  to the webview, in a hand, on the bus, in the bridge or in a snapshot, is the
  machine's own or older (`Ordered`), and the machine's own is shown or on its
  way (`Latest`), unless the session has gone astray. A step that delivers the
  older over the newer, or overflows the bus, leads it astray.
- `DismissedForGood`: `DismissedStaysDismissed`. A kept flag is in the row and on
  disk (`Flags`); a turn still to be persisted is not yet kept (`Unwritten`), for
  no two changes carry one number (`Distinct`); hence the newest turn, once kept,
  is the one in the row (`RowKept`), and a page has it dismissed or is about to
  learn so (`Quieted`). The proof showed that a confirmation must come to a page
  that shows the row's turn, which `kept` now requires.

`OutputPipe_proofs`:

- `TypeCorrect`: `TypeOK`, the channel's capacity among it.
- `OwnReply`: `RepliesMatch`. Replies are counted, not named, so the proof numbers
  the command lines: the blocks on the wire and then the lines in stdin rise
  without a gap (`Rising`, `NoGap`) from the next one due, none is beyond what
  was written (`Bounded`), and a waiter's number is that of its own line
  (`Addressed`, `Counted`, `Mailed`). Timeouts, unawaited input and failed
  writes leave the numbers alone.
- `NobodyWaits`: `NoneLeftWaiting`, from `Closing`: whoever ends the bridge has
  failed the waiters, or will.
- `OnlyFalls`: `ReportsOnlyFalls`: the waiter reports what it saw before the
  mark, and a client killed by raum is killed after it.
- `BurstArrives` (`TailArrives`) and `PipeImplementsStream` (`ShowsThePane`: each
  step maps to a step of `PaneStream` or to a stutter), from `StreamInv`. The
  items of the terminal, the coalescer, the channel's batches and the reader's
  batch are runs of consecutive numbers, each going on where the one before ends
  (`Placed`); a batch is placed by the last item before it, so that no length is
  summed over the channel. On the wire are exactly the items not yet taken
  (`Caught`), and the capture parts those it holds from those after it (`Parts`).
  Which block is the capture follows from the order of commands of `OwnReply`.

`Worktrees_proofs`:

- `CommitsStay`: `CommitsKept`. `git branch -d` leaves the branch's commits in the
  main worktree's branch at that moment; the invariant (`Rooted`) says that the
  main worktree always has a branch, and that branches checked out exist, through
  every create, remove, switch and deletion of concurrent calls.
- `WatcherFollows`: `WatchesFollow`, part of `NothingAdrift`. For every directory
  watched and not there, or there and not watched, some call has yet to rescan or
  `missed` names it (`Owed`); a rescan pays every call's debts.
- `TypeCorrect`: `TypeOK`, which says more than types: a branch is checked out
  once, uncommitted work lies in worktrees that are there, a branch that is gone
  leaves no commits. `Shapes` has these as conjuncts of their own, and that the
  places of the stashes still to be dropped were places of the list when it was
  read.

`SessionLifecycle_proofs`, about terminals, rows and tmux sessions under commands
that are cut at every await:

- `Types`: `TypeOK`.
- `ConversationsKept`: `ConversationKept`. What would break it is a command that
  writes or prunes a row somebody else has filled since the command looked.
  Therefore `OneMaker` (the session a command makes is no other command's),
  `OneFlight` (one reattach of a session at a time is past `begin_reattach`),
  `FreshSpawn` (a harness not launched yet has no conversation, and no report of one
  on its way), `UndoneEnds` (an undone spawn waits for its kill),
  `Unmonitored` (nobody watches the pane of a session that is being made) and `Reaps`
  (what an orphan reap is about to kill raum knew nothing of when it was chosen, and
  no command was making it).
- `SpawnsTracked`: `SpawnIsTracked`, from `TrackedRows`: past its tracking a
  command's session has a row with its project, or was closed, or is one whose
  upsert failed.
- `NoneIsLost`: `HiddenIsAdoptable`, part of `NothingAdrift`. `Accounted` names for
  every live, unlisted session with a row, or with a machine that may still insert
  one, who will see to it: the boot's plan, a command that covers it, a kill already
  due, or the pass that has just tracked it. What it cannot account for is the
  session whose row outlives its cleanup, which `hears` records as `"stray"` until
  raum stops. `BootRows` and `EntryHeld` keep the plan and the commands' knowledge true
  in between.

`Desktop_proofs`, about the components of `MCDesktop`. Each has its inductive
invariant; `DesktopSpec` keeps the invariant of the component that runs, because
a step of the sum is a step of that one or a stutter (`TerminalsRun`,
`TwoTreesRun`, ...).

- `KillsAreAsked`: `KillsWereAsked`. The kills made are not inductive: what
  counts are the kills made and those to come (`Due`): one by a launch about to
  kill, one by a launch that has cleared the flag, and one by whatever may still
  show it to a launch (`Pending`: the file, the cache, a call that holds a setting),
  or by the launch that is about to clear it. An edit that puts the flag back adds at
  most one, which `asked` counts.
- `SettersKeepOthers`: `SettingsKept` of `ConfigStore`. By `Filed`, settings
  cached under the file's stamp are the file's own unless `misfiled` has the stamp: a parse is
  filed only if the stamp is the one it was read at, every change of the file
  has a fresh stamp, and the two ways to misfile are the stamp taken after the
  rename and the failed quarantine.
- `NoHatch`: `HatchFree`, that is, for the pty transport while no reattach has
  crossed a resize, no plan was torn and none is being reattached.
  `HatchFree` says nothing of what is left to do, so the invariant (`PaneInv`)
  adds `LockHeld` (only the holder of the lock runs), `Apart` (resizes and the
  reattach keep out of each other's way), and `Staged`: between resizes
  viewport, recorded size and window are in order (`Settled`), and during one
  each stage of the plan, by the direction of the change, is one from which the
  remaining calls keep the viewport covered.
- `UserFiles`: `UserFilesKept`, from four invariants. `SetupInv`: until somebody
  edits a file (`Current`), the writes that an install still has to make carry
  the user's part as it is on disk, though other installs write the same files
  in between. `HydrateInv`: the worktree is at each moment what the copies and
  links made so far promise (`Kept`), whatever the order of the rules, so that no
  later rule finds a link where it would write. `LayoutInv`: an empty grid that
  the user did not make is no newer than what the file has (`EmptiesOld`). And
  `Filed`, as above.
- `Promises`: `PromisesMet`, from the same: `Provided` (what a harness needs is on
  disk, or in the plan of the install that has not failed; another install never
  undoes it), `HydrateInv` with no rule left, `FlushLeads` (no save behind the
  acknowledged one is older, none is lost before it lands), and `TabsInv`, by
  which a strategy is saved with a pattern it stands for, so that the pages'
  words and the command line's choice agree.
- `NothingGoesAdrift`: `NothingAdrift`, from the two modules above and
  `StreamInv`: an event channel belongs to the runtime or to a registration that
  has not ended.
- `ConversationsKept`, `SpawnsTracked`, `CommitsStay`: the theorems of the two
  modules above, for the behaviours of the run.
- `TypesCorrect`: `TypesOK`. Among the shapes are that at most one project is
  watched, and at one of its own roots (`TabsInv`), and the gate, dates and
  bounds of the saved layout (`GateShape`, `Dated`).

The invariants of `Setup` and `Tabs` are proved for any harnesses, slugs and
bounds, those of `Hydration` for the tree of the run: its rules follow links
upwards, which for trees of any height would be an induction.

`WindowLive_proofs`, about the services of `MCWindowLive`:

- `GateIsOpened`: `GateOpens`: a page that is alive behind a shut gate has a
  caller about to reload it or to undo. Two callers may shut the gate one after
  the other, so the invariant adds `Remembered` (one of them found it open, and
  will open it again should its reload fail) and `OneSequence` (a probe calls
  only at its verdict).
- `MergesAreTold`: `MergesTold`. The announcement is the edge between two answers,
  so the invariant follows the answer: one in flight is what GitHub had
  (`AnswerTrue`), a task that has seen a pull request open holds that answer, or
  the merged one it has announced (`SeenHeld`), and until the branch is switched
  nobody who has announced sees it open again (`OneBranch`).

Only model-checked: liveness, everything under fairness and `ENABLED` (out of
the prover's reach); what the recursive `IgnoredTree` computes; and the
refutations of section 5, which are counterexamples. Every invariant and every
action property of the passing runs is proved.

## 7. Not modelled

- Notification banners: `notifications_send` and `notifications_clear` are
  separate tasks, a send in flight survives a clear, and the 250 ms
  deduplication may swallow a fresh request. They hand the operating system
  requests whose order it decides; what it shows cannot be read back.
- The layout tree's operations and the webview's attach, renderer and write
  schedulers: single-threaded code their unit tests reach; next in the plan.
- The tmux manager beyond the commands the sessions use, git output parsing,
  file helpers, search, paths, logging, updater, hotkeys, keymap, devtools, UI
  and themes: I/O or rendering without a protocol of their own.
- Parsing of TOML, transcripts, models and launch flags: sequential functions of
  text.
- Read errors of `sessions.toml`, an `%error` in answer to the synchronisation
  commands of a control client, links inside the directories a hydration copies, and
  kills of tmux sessions that fail: named where their module is described.
- Everywhere: poisoned locks, out-of-memory, and power loss between a rename and
  the directory's fsync.
