-------------------------- MODULE SessionLifecycle --------------------------
(***************************************************************************)
(* The life of a terminal session: the tmux session on raum's socket, its  *)
(* row in sessions.toml, its entry (or identity-only ghost) in the         *)
(* TerminalRegistry, and the commands that move the three together.        *)
(* Commands are async functions: each is cut into steps at its awaits, and *)
(* steps of different commands, of the monitors and of the boot task       *)
(* interleave.  A crash keeps the socket and the file; a reboot keeps the  *)
(* file only.  A write of the file that fails is logged or ignored, and    *)
(* the command goes on.                                                    *)
(***************************************************************************)
EXTENDS FiniteSets, Naturals

CONSTANTS
    Ids,      \* session ids; an id is generated once and never reused
    Shells,   \* the ids whose kind is Shell: no resume command
    Calls,    \* command invocations that may be in flight at once
    Heirs,    \* the ids terminal_provider_replace draws from; terminal_spawn has the rest
    MaxStops, \* bound: crashes, quits and reboots of a run
    MaxAsks   \* bound: commands the user gives in a run, and stops


VARIABLES
    tmux,      \* per id: "none", "place" (tail -f), "run", or "dead" (remain-on-exit)
    doomed,    \* ids with a tmux kill-session running in the background
    row,       \* per id: its sessions.toml row, or NoRow
    hears,     \* per id: its AgentStateMachine, which hooks are routed to: "no", "yes",
               \* "bare" (yes, but its spawn failed to write the row), "late"
               \* (removed, but what was routed is yet to be written), "stray" (removed,
               \* but the row of the session, which runs on, is there)
    entry,     \* ids with a TerminalEntry (a bridge or a slot for one)
    ghost,     \* per id: its GhostEntry: "none", "live", "dead", "recover"
    monitor,   \* per id: its pane-death monitor: "off", "poll", "reap"
    flight,    \* ids with a reattach in flight
    call,      \* per call: the command it runs and how far it is
    recon,     \* the reconcile pass
    boot,      \* the boot task: "down", "listed", "applied", "kept", "up"
    bootView,  \* what the boot task read: the live ids and the rows
    stops,     \* how often raum has stopped
    asks,      \* how many commands the user has given, stops included
    (* history variables: written by actions, read by properties only *)
    closed,    \* ids the user asked to end
    spawned,   \* ids whose spawn reported success, now or in an earlier run
    reaped,    \* ids this run took for orphans when it knew nothing of them
    degraded   \* a step failed that leaves a tracked session unlisted

tmuxVars == <<tmux, doomed>>
regVars  == <<entry, ghost, monitor, flight>>
bootVars == <<boot, bootView, stops, asks>>
rowVars  == <<row, hears>>
histVars == <<closed, spawned, reaped, degraded>>
vars == <<tmuxVars, rowVars, regVars, call, recon, bootVars, histVars>>

NoRow  == [at |-> "none"]
Row(p, r) == [at |-> "file", project |-> p, resume |-> r]
IsRow(r)  == r.at = "file"
Rows   == {NoRow} \cup {Row(p, r) : p \in BOOLEAN, r \in BOOLEAN}
Idle   == [op |-> "idle"]
Attaching(i, pc, resume, had, made) ==
    [op |-> "attach", id |-> i, pc |-> pc, resume |-> resume,
     had |-> had, made |-> made]
Task(op, i, pc) == [op |-> op, id |-> i, pc |-> pc]
NoRecon == [pc |-> "idle", live |-> {}]
NoView  == [live |-> {}, rows |-> {}]

Live(i)    == tmux[i] /= "none"                  \* list_sessions reports it
Visible(i) == i \in entry \/ ghost[i] /= "none"  \* terminal_list returns it
Known      == {i \in Ids : Visible(i) \/ IsRow(row[i])}
CanResume(r) == IsRow(r) /\ r.resume
Running    == boot /= "down"
Making(i)  == \E c \in Calls : call[c].op \in {"spawn", "replace"} /\ call[c].id = i
Busy(i)    == \E c \in Calls : call[c].op /= "idle" /\ call[c].id = i

-----------------------------------------------------------------------------
(* helpers *)

\* Mutants: an existing row keeps its None; a fresh row lacks a column.
UpsertKeeps(r, project) == IF IsRow(r) THEN r ELSE Row(project, FALSE)
UpsertPartly(r, project) == IF IsRow(r) THEN r ELSE [at |-> "file", project |-> project]

\* upsert_row: metadata is written once; a later Some fills a None and a None
\* never overwrites a Some.
Upsert(r, project) ==
    IF IsRow(r) THEN [r EXCEPT !.project = @ \/ project] ELSE Row(project, FALSE)

Upserted(i, project) == [row EXCEPT ![i] = Upsert(@, project)]

\* new_session_with_env: the pane runs its process, or holds a placeholder until
\* respawn_with replaces whatever is in it.
NewSession(i, pane) == tmux' = [tmux EXCEPT ![i] = pane]
RespawnPane(i)      == tmux' = [tmux EXCEPT ![i] = "run"]

\* registry.remove and shutdown_removed_entry: the entry and its tasks, and the ghost.
Unregister(S) ==
    /\ entry' = entry \ S
    /\ ghost' = [i \in Ids |-> IF i \in S THEN "none" ELSE ghost[i]]
    /\ monitor' = [i \in Ids |-> IF i \in S \cap entry THEN "off" ELSE monitor[i]]

\* register_machine_if_absent (a shell has none) and upsert_tracked_session, which
\* may fail.
Registers(i, project, unsaved) ==
    \/ /\ row' = Upserted(i, project)
       /\ hears' = [hears EXCEPT ![i] = IF i \in Shells THEN "no" ELSE "yes"]
    \/ /\ UNCHANGED row
       /\ hears' = [hears EXCEPT ![i] = IF i \in Shells THEN "no" ELSE unsaved]

\* What is left of a machine that is removed: of a harness that has run, there may
\* be reports on their way.
Remains(i) == IF hears[i] \in {"no", "stray"} \/ tmux[i] = "place" THEN "no" ELSE "late"

\* cleanup_harness_session: forget_session, which may fail, and remove_machine.
Forgotten(S) == [i \in Ids |-> IF i \in S THEN NoRow ELSE row[i]]
Cleanup(i, unforgotten) ==
    \/ row' = Forgotten({i}) /\ hears' = [hears EXCEPT ![i] = Remains(i)]
    \/ UNCHANGED row /\ hears' = [hears EXCEPT ![i] = unforgotten]

\* update_session_harness_id (or _last_prompt, on a row) with h, and
\* update_session_last_state without: both insert a row that is missing.
Reported(r, h) == IF IsRow(r) THEN [r EXCEPT !.resume = @ \/ h] ELSE Row(FALSE, h)

\* upsert_ghost: a no-op when the session has an entry.
UpsertGhost(i, g) == [ghost EXCEPT ![i] = IF i \in entry THEN @ ELSE g]

Done(c) == call' = [call EXCEPT ![c] = Idle]

\* The row a provider resume can start from: an id, or a prompt to find it by.
Resolvable(i) == CanResume(row[i])

Recoverable(i, r) == i \notin Shells /\ CanResume(r) /\ r.project

\* Mutant: a row without a live session is dropped whatever it holds.
RehydrateJobNoRecover(i, live) == IF i \in live THEN "register" ELSE "forget"

\* rehydrate_plan: what the boot does with a tracked row.
RehydrateJob(i, live) ==
    IF i \in live THEN "register"
    ELSE IF Recoverable(i, row[i]) THEN "recover" ELSE "forget"

\* Mutant: reconciliation adopts nothing.
AdoptPlanNone(live) == {}

AdoptPlan(live) == live \ Known

-----------------------------------------------------------------------------
\* An earlier run of raum may have left sessions, live or dead, placeholders (a
\* command a crash cut short), rows without a session (a reboot), and sessions
\* without a row (a lost write).
Init ==
    /\ tmux \in [Ids -> {"none", "place", "run", "dead"}]
    /\ row \in [Ids -> Rows]
    /\ \A i \in Heirs : tmux[i] = "none" /\ row[i] = NoRow
    /\ \A i \in Shells : ~CanResume(row[i])
    /\ doomed = {}
    /\ entry = {} /\ flight = {}
    /\ ghost = [i \in Ids |-> "none"]
    /\ monitor = [i \in Ids |-> "off"]
    /\ call = [c \in Calls |-> Idle]
    /\ recon = NoRecon
    /\ boot = "down" /\ bootView = NoView /\ stops = 0 /\ asks = 0
    /\ hears = [i \in Ids |-> "no"]
    /\ closed = {} /\ reaped = {}
    /\ degraded = FALSE
    /\ spawned = {i \in Ids : Live(i) \/ IsRow(row[i])}

\* generate_session_id never returns an id in use.
Unused(i) ==
    /\ ~Live(i) /\ ~IsRow(row[i]) /\ ~Visible(i) /\ i \notin doomed \cup closed \cup spawned
    /\ i \notin reaped /\ hears[i] = "no" /\ ~Busy(i)

\* The user, through the webview, gives raum one more command.
Asks == Running /\ asks < MaxAsks /\ asks' = asks + 1

-----------------------------------------------------------------------------
(* terminal_spawn *)

\* A shell starts at once, a harness gets a placeholder.
SpawnCreate(c, i) ==
    /\ Asks /\ call[c] = Idle /\ i \notin Heirs /\ Unused(i)
    /\ NewSession(i, IF i \in Shells THEN "run" ELSE "place")
    /\ call' = [call EXCEPT ![c] = Task("spawn", i, "created")]
    /\ UNCHANGED <<doomed, rowVars, regVars, recon, boot, bootView, stops, histVars>>

\* The tracked row, with the project of the request (a harness always has one).
SpawnTrack(c, p) ==
    LET i == call[c].id IN
    /\ call[c].op = "spawn" /\ call[c].pc = "created"
    /\ i \notin Shells => p
    /\ Registers(i, p, "bare")
    /\ call' = [call EXCEPT ![c].pc = "tracked"]
    /\ UNCHANGED <<tmuxVars, regVars, recon, bootVars, histVars>>

\* attach_pipeline: bridge, then the entry; a shell is complete and monitored.
SpawnAttach(c) ==
    LET i == call[c].id IN
    /\ call[c].op = "spawn" /\ call[c].pc = "tracked" /\ Live(i)
    /\ entry' = entry \cup {i}
    /\ ghost' = [ghost EXCEPT ![i] = "none"]
    /\ IF i \in Shells
         THEN /\ monitor' = [monitor EXCEPT ![i] = "poll"]
              /\ spawned' = spawned \cup {i}
              /\ Done(c)
         ELSE /\ call' = [call EXCEPT ![c].pc = "attached"]
              /\ UNCHANGED <<monitor, spawned>>
    /\ UNCHANGED <<tmuxVars, rowVars, flight, recon, bootVars, closed, reaped, degraded>>

\* attach_pipeline fails: row forgotten, tmux session killed; nothing was inserted.
SpawnAttachFails(c) ==
    LET i == call[c].id IN
    /\ call[c].op = "spawn" /\ call[c].pc = "tracked"
    /\ Cleanup(i, "no")
    /\ doomed' = doomed \cup {i}
    /\ Done(c)
    /\ UNCHANGED <<tmux, regVars, recon, bootVars, histVars>>

\* respawn_with puts the harness in the pane; the monitor starts if the entry lives.
SpawnLaunch(c) ==
    LET i == call[c].id IN
    /\ call[c].op = "spawn" /\ call[c].pc = "attached" /\ Live(i)
    /\ RespawnPane(i)
    /\ monitor' = [monitor EXCEPT ![i] = IF i \in entry THEN "poll" ELSE @]
    /\ spawned' = spawned \cup {i}
    /\ Done(c)
    /\ UNCHANGED <<doomed, rowVars, entry, ghost, flight, recon, bootVars,
                   closed, reaped, degraded>>

\* The respawn fails: row forgotten, tmux session killed ...
SpawnLaunchFails(c) ==
    LET i == call[c].id IN
    /\ call[c].op = "spawn" /\ call[c].pc = "attached"
    /\ Cleanup(i, "no")
    /\ doomed' = doomed \cup {i}
    /\ call' = [call EXCEPT ![c].pc = "undo"]
    /\ UNCHANGED <<tmux, regVars, recon, bootVars, histVars>>

\* ... and, when the kill is through, the entry removed.
SpawnUndo(c) ==
    LET i == call[c].id IN
    /\ call[c].op = "spawn" /\ call[c].pc = "undo" /\ i \notin doomed
    /\ Unregister({i})
    /\ Done(c)
    /\ UNCHANGED <<tmuxVars, rowVars, flight, recon, bootVars, histVars>>

-----------------------------------------------------------------------------
(* terminal_reattach (terminal_provider_replay, terminal_respawn_dead and  *)
(* terminal_self_heal end in it with resume set)                           *)

\* The session is looked up first; a resume resolves its target, which needs a
\* row with an id or a prompt.  Every refusal here leaves the state alone.  The
\* webview knows the id of a new session when the call that makes it returns.
AttachLook(c, i, resume) ==
    /\ Asks /\ call[c] = Idle /\ i \notin closed /\ ~Making(i)
    /\ \/ Visible(i)                     \* listed, or a pane of the saved
       \/ IsRow(row[i]) /\ boot = "up"   \* layout, which awaits the rehydration
          /\ ~Busy(i)
    /\ resume => i \notin Shells
    /\ Live(i) \/ resume
    /\ resume => Resolvable(i)
    /\ call' = [call EXCEPT ![c] =
                 Attaching(i, IF Live(i) THEN "begin" ELSE "create", resume, FALSE, FALSE)]
    /\ UNCHANGED <<tmuxVars, rowVars, regVars, recon, boot, bootView, stops, histVars>>

\* The lazily created placeholder, owned by PlaceholderKillGuard from here on;
\* tmux refuses a second session of the same name.
AttachCreate(c) ==
    LET i == call[c].id IN
    /\ call[c].op = "attach" /\ call[c].pc = "create"
    /\ IF Live(i)
         THEN Done(c) /\ UNCHANGED tmux
         ELSE /\ NewSession(i, "place")
              /\ call' = [call EXCEPT ![c].pc = "begin", ![c].made = TRUE]
    /\ UNCHANGED <<doomed, rowVars, regVars, recon, bootVars, histVars>>

\* The guard's drop: a placeholder this call created is killed.
KillIfMade(c) ==
    /\ tmux' = [tmux EXCEPT ![call[c].id] = IF call[c].made THEN "none" ELSE @]

AttachRefused(c) ==
    /\ call[c].op = "attach" /\ call[c].pc = "begin" /\ call[c].id \in flight
    /\ KillIfMade(c)
    /\ Done(c)
    /\ UNCHANGED <<doomed, rowVars, regVars, recon, bootVars, histVars>>

\* begin_reattach, detach_bridge (the monitor goes, the entry stays) and
\* promote_ghost; a shell's row is written back.
AttachBegin(c, p) ==
    LET i == call[c].id IN
    /\ call[c].op = "attach" /\ call[c].pc = "begin" /\ i \notin flight
    /\ flight' = flight \cup {i}
    /\ monitor' = [monitor EXCEPT ![i] = IF i \in entry THEN "off" ELSE @]
    /\ ghost' = [ghost EXCEPT ![i] = "none"]
    /\ IF i \in Shells THEN Registers(i, p, "no") ELSE UNCHANGED rowVars
    /\ call' = [call EXCEPT ![c].pc = "register", ![c].had = i \in entry]
    /\ UNCHANGED <<tmuxVars, entry, recon, bootVars, histVars>>

\* Past the resize lock: register_harness_session_runtime_opts, whose upsert
\* carries the project of the entry, the ghost or the row, or the caller's.
AttachRegister(c, p) ==
    LET i == call[c].id IN
    /\ call[c].op = "attach" /\ call[c].pc = "register"
    /\ IF i \in Shells THEN UNCHANGED rowVars ELSE Registers(i, p, "yes")
    /\ call' = [call EXCEPT ![c].pc = "open"]
    /\ UNCHANGED <<tmuxVars, regVars, recon, bootVars, histVars>>

\* The bridge opened: replace_bridge on the entry that was there (if it still
\* is), insert otherwise.  A resume gets its monitor after the grace period.
AttachOpen(c) ==
    LET i == call[c].id IN
    /\ call[c].op = "attach" /\ call[c].pc = "open" /\ Live(i)
    /\ IF call[c].had
         THEN UNCHANGED <<entry, ghost>>
         ELSE /\ entry' = entry \cup {i}
              /\ ghost' = [ghost EXCEPT ![i] = "none"]
    /\ IF call[c].resume
         THEN /\ call' = [call EXCEPT ![c].pc = "respawn"]
              /\ UNCHANGED <<monitor, flight>>
         ELSE /\ monitor' = [monitor EXCEPT ![i] = IF i \in entry' THEN "poll" ELSE @]
              /\ flight' = flight \ {i}
              /\ Done(c)
    /\ UNCHANGED <<tmuxVars, rowVars, recon, bootVars, histVars>>

\* The bridge did not open on a plain reattach: the legacy destructive cleanup.
AttachOpenFails(c) ==
    LET i == call[c].id IN
    /\ call[c].op = "attach" /\ call[c].pc = "open" /\ ~call[c].resume
    /\ Cleanup(i, "stray")
    /\ IF call[c].had THEN Unregister({i}) ELSE UNCHANGED <<entry, ghost, monitor>>
    /\ flight' = flight \ {i}
    /\ Done(c)
    /\ UNCHANGED <<tmuxVars, recon, bootVars, histVars>>

\* The bridge did not open, or the pane refused the resume command or died in
\* its grace period: the entry goes, a placeholder is killed, the row stays.
AttachResumeFails(c) ==
    LET i == call[c].id IN
    /\ call[c].op = "attach" /\ call[c].resume
    /\ \/ call[c].pc = "open"
       \/ call[c].pc = "respawn"
       \/ call[c].pc = "grace" /\ tmux[i] = "dead"
    /\ Unregister({i})
    /\ IF call[c].pc = "open"
         THEN UNCHANGED tmux /\ call' = [call EXCEPT ![c].pc = "surface"]
         ELSE KillIfMade(c) /\ call' = [call EXCEPT ![c].pc = "surface", ![c].made = FALSE]
    /\ UNCHANGED <<doomed, rowVars, flight, recon, bootVars, histVars>>

\* Mutant: the failed resume ends without its ghost.
AttachResurfaceNot(c) ==
    /\ call[c].op = "attach" /\ call[c].pc = "surface"
    /\ flight' = flight \ {call[c].id}
    /\ Done(c)
    /\ UNCHANGED <<tmuxVars, rowVars, entry, ghost, monitor, recon, bootVars, histVars>>

\* resurface_recoverable_ghost; the in-flight guard ends with the call, and the
\* placeholder's guard last, if it is still armed.
AttachResurface(c) ==
    LET i == call[c].id IN
    /\ call[c].op = "attach" /\ call[c].pc = "surface"
    /\ ghost' = UpsertGhost(i, "recover")
    /\ flight' = flight \ {i}
    /\ IF call[c].made THEN call' = [call EXCEPT ![c].pc = "drop"] ELSE Done(c)
    /\ UNCHANGED <<tmuxVars, rowVars, entry, monitor, recon, bootVars, histVars>>

AttachDrop(c) ==
    /\ call[c].op = "attach" /\ call[c].pc = "drop"
    /\ KillIfMade(c)
    /\ Done(c)
    /\ UNCHANGED <<doomed, rowVars, regVars, recon, bootVars, histVars>>

\* respawn-pane -k: whatever ran in the pane is replaced by the resume command.
AttachRespawn(c) ==
    LET i == call[c].id IN
    /\ call[c].op = "attach" /\ call[c].pc = "respawn" /\ Live(i)
    /\ RespawnPane(i)
    /\ call' = [call EXCEPT ![c].pc = "grace"]
    /\ UNCHANGED <<doomed, rowVars, regVars, recon, bootVars, histVars>>

\* The pane outlived its grace period, or could not be probed (taken as alive).
AttachCommit(c) ==
    LET i == call[c].id IN
    /\ call[c].op = "attach" /\ call[c].pc = "grace" /\ tmux[i] /= "dead"
    /\ monitor' = [monitor EXCEPT ![i] = IF i \in entry THEN "poll" ELSE @]
    /\ flight' = flight \ {i}
    /\ Done(c)
    /\ UNCHANGED <<tmuxVars, rowVars, entry, ghost, recon, bootVars, histVars>>

-----------------------------------------------------------------------------
(* Closing *)

\* kill_session_interactive: raum's records go at once, tmux in the background.
KillInteractive(i) ==
    /\ Asks /\ Visible(i)
    /\ Unregister({i})
    /\ Cleanup(i, "no")
    /\ doomed' = doomed \cup {i}
    /\ closed' = closed \cup {i}
    /\ UNCHANGED <<tmux, flight, call, recon, boot, bootView, stops, spawned, reaped, degraded>>

\* A background kill-session lands.
TmuxKill(i) ==
    /\ i \in doomed
    /\ doomed' = doomed \ {i}
    /\ tmux' = [tmux EXCEPT ![i] = "none"]
    /\ UNCHANGED <<rowVars, regVars, call, recon, bootVars, histVars>>

\* kill_session_inner, of a worktree or project removal: tmux first ...
RemoveKill(c, i) ==
    /\ Asks /\ call[c] = Idle /\ Visible(i)
    /\ tmux' = [tmux EXCEPT ![i] = "none"]
    /\ closed' = closed \cup {i}
    /\ call' = [call EXCEPT ![c] = Task("remove", i, "killed")]
    /\ UNCHANGED <<doomed, rowVars, regVars, recon, boot, bootView, stops, spawned, reaped, degraded>>

\* ... then raum's records, whatever tmux answered.
RemoveFinish(c) ==
    LET i == call[c].id IN
    /\ call[c].op = "remove"
    /\ Unregister({i})
    /\ Cleanup(i, "no")
    /\ Done(c)
    /\ UNCHANGED <<tmuxVars, flight, recon, bootVars, histVars>>

\* The monitor sees the process gone: the tmux session is killed first.  A pane
\* no longer on the server ends the monitor and nothing else.
MonitorSees(i) ==
    /\ monitor[i] = "poll" /\ tmux[i] \in {"dead", "none"}
    /\ IF Live(i)
         THEN /\ monitor' = [monitor EXCEPT ![i] = "reap"]
              /\ doomed' = doomed \cup {i}
         ELSE /\ monitor' = [monitor EXCEPT ![i] = "off"]
              /\ UNCHANGED doomed
    /\ UNCHANGED <<tmux, rowVars, entry, ghost, flight, call, recon, bootVars, histVars>>

\* The kill returned: entry, row and monitor end together.
MonitorReaps(i) ==
    /\ monitor[i] = "reap" /\ i \notin doomed
    /\ entry' = entry \ {i}
    /\ ghost' = [ghost EXCEPT ![i] = "none"]
    /\ monitor' = [monitor EXCEPT ![i] = "off"]
    /\ Cleanup(i, "no")
    /\ UNCHANGED <<tmuxVars, flight, call, recon, bootVars, histVars>>

\* Mutant: the protected set leaves out the tracked rows.
KillOrphanListed(c, i) ==
    /\ Asks /\ call[c] = Idle
    /\ Live(i) /\ ~Visible(i) /\ ~Busy(i)
    /\ call' = [call EXCEPT ![c] = Task("orphan", i, "chosen")]
    /\ reaped' = reaped \cup ({i} \ Known)
    /\ UNCHANGED <<tmuxVars, rowVars, regVars, recon, boot, bootView, stops,
                   closed, spawned, degraded>>

\* terminal_kill_orphans, for one unprotected session past the age floor (no
\* command on it takes that long): the list and the protected set, once ...
KillOrphan(c, i) ==
    /\ Asks /\ call[c] = Idle
    /\ Live(i) /\ i \notin Known /\ ~Busy(i)
    /\ call' = [call EXCEPT ![c] = Task("orphan", i, "chosen")]
    /\ reaped' = reaped \cup ({i} \ Known)
    /\ UNCHANGED <<tmuxVars, rowVars, regVars, recon, boot, bootView, stops,
                   closed, spawned, degraded>>

\* ... the kill and finalize_session_removal, after the kills of all before it,
\* whatever the session has become meanwhile.
KillOrphanFinish(c) ==
    LET i == call[c].id IN
    /\ call[c].op = "orphan"
    /\ tmux' = [tmux EXCEPT ![i] = "none"]
    /\ Unregister({i})
    /\ Cleanup(i, "no")
    /\ Done(c)
    /\ UNCHANGED <<doomed, flight, recon, bootVars, histVars>>

-----------------------------------------------------------------------------
(* terminal_provider_replace: a new session resumes the conversation of i, *)
(* and i is retired once the new pane has outlived its grace period        *)

ReplaceCreate(c, i, n) ==
    /\ Asks /\ call[c] = Idle
    /\ i \notin Shells /\ Visible(i) /\ Resolvable(i) /\ row[i].project
    /\ n \in Heirs /\ Unused(n)
    /\ NewSession(n, "place")
    /\ call' = [call EXCEPT ![c] = [op |-> "replace", id |-> n, pc |-> "created", was |-> i]]
    /\ UNCHANGED <<doomed, rowVars, regVars, recon, boot, bootView, stops, histVars>>

\* The new row carries the harness id of the conversation it resumes: two writes,
\* of which either may fail.
ReplaceTrack(c) ==
    LET n == call[c].id IN
    /\ call[c].op = "replace" /\ call[c].pc = "created"
    /\ \/ /\ row' = [row EXCEPT ![n] = Reported(Upsert(@, TRUE), TRUE)]
          /\ hears' = [hears EXCEPT ![n] = "yes"]
       \/ /\ row' \in {row, Upserted(n, TRUE), [row EXCEPT ![n] = Reported(@, TRUE)]}
          /\ hears' = [hears EXCEPT ![n] = "bare"]
    /\ call' = [call EXCEPT ![c].pc = "tracked"]
    /\ UNCHANGED <<tmuxVars, regVars, recon, bootVars, histVars>>

ReplaceAttach(c) ==
    LET n == call[c].id IN
    /\ call[c].op = "replace" /\ call[c].pc = "tracked" /\ Live(n)
    /\ entry' = entry \cup {n}
    /\ ghost' = [ghost EXCEPT ![n] = "none"]
    /\ call' = [call EXCEPT ![c].pc = "attached"]
    /\ UNCHANGED <<tmuxVars, rowVars, monitor, flight, recon, bootVars, histVars>>

ReplaceLaunch(c) ==
    LET n == call[c].id IN
    /\ call[c].op = "replace" /\ call[c].pc = "attached"
    /\ \/ /\ Live(n)
          /\ RespawnPane(n)
          /\ call' = [call EXCEPT ![c].pc = "grace"]
       \/ UNCHANGED tmux /\ Done(c)     \* an error leaves the placeholder as it is
    /\ UNCHANGED <<doomed, rowVars, regVars, recon, bootVars, histVars>>

\* cleanup_new_session: no bridge, or the resume command exited early.
ReplaceFails(c) ==
    LET n == call[c].id IN
    /\ call[c].op = "replace"
    /\ \/ call[c].pc = "tracked"
       \/ call[c].pc = "grace" /\ tmux[n] = "dead"
    /\ Cleanup(n, "no")
    /\ Unregister({n})
    /\ doomed' = doomed \cup {n}
    /\ Done(c)
    /\ UNCHANGED <<tmux, flight, recon, bootVars, histVars>>

ReplaceCommit(c) ==
    LET n == call[c].id
        i == call[c].was IN
    /\ call[c].op = "replace" /\ call[c].pc = "grace" /\ tmux[n] /= "dead"
    /\ Cleanup(i, "no")
    /\ entry' = entry \ {i}
    /\ ghost' = [ghost EXCEPT ![i] = "none"]
    /\ monitor' = [monitor EXCEPT ![n] = IF n \in entry THEN "poll" ELSE @,
                                  ![i] = IF i \in entry THEN "off" ELSE @]
    /\ doomed' = doomed \cup {i}
    /\ closed' = closed \cup {i}
    /\ spawned' = spawned \cup {n}
    /\ Done(c)
    /\ UNCHANGED <<tmux, flight, recon, bootVars, reaped, degraded>>

-----------------------------------------------------------------------------
(* reconcile_inner: by the boot task, the timer, a focus, or a reload *)

\* The boot task makes a pass of its own; every other waits for the latch.
BootPass == boot = "applied"
GatedPass == boot = "up"

ReconList ==
    /\ recon.pc = "idle" /\ (BootPass \/ GatedPass)
    /\ recon' = [pc |-> "listed", live |-> {i \in Ids : Live(i)}]
    /\ UNCHANGED <<tmuxVars, rowVars, regVars, call, bootVars, histVars>>

\* The protected set is read after the list; the adopted get a bare row.
ReconTrack ==
    LET plan == AdoptPlan(recon.live) IN
    /\ recon.pc = "listed"
    /\ \/ row' = [i \in Ids |-> IF i \in plan THEN Upsert(row[i], FALSE) ELSE row[i]]
       \/ UNCHANGED row     \* the write fails
    /\ recon' = [pc |-> "tracked", live |-> plan]
    /\ UNCHANGED <<tmuxVars, hears, regVars, call, bootVars, histVars>>

\* One ghost per adopted session, dead if its pane is; a probe that fails (the
\* session has gone) reads as alive.
ReconGhosts ==
    /\ recon.pc = "tracked"
    /\ ghost' = [i \in Ids |->
                   IF i \in recon.live /\ i \notin entry
                     THEN IF tmux[i] = "dead" THEN "dead" ELSE "live"
                     ELSE ghost[i]]
    /\ recon' = [pc |-> IF BootPass THEN "done" ELSE "idle", live |-> {}]
    /\ UNCHANGED <<tmuxVars, rowVars, entry, monitor, flight, call, bootVars, histVars>>

-----------------------------------------------------------------------------
(* bootstrap_rehydrate_sessions *)

\* The app starts and lists the socket.  An accepted server restart has killed
\* the server before.
BootList(restart) ==
    /\ boot = "down"
    /\ tmux' = IF restart THEN [i \in Ids |-> "none"] ELSE tmux
    /\ boot' = "listed"
    /\ bootView' = [NoView EXCEPT !.live = {i \in Ids : tmux'[i] /= "none"},
                                  !.rows = {i \in Ids : IsRow(row[i])}]
    /\ UNCHANGED <<stops, asks, doomed, rowVars, regVars, call, recon, histVars>>

\* list-sessions failed: rehydration is skipped and latched as done.
BootListFails ==
    /\ boot = "down"
    /\ boot' = "up"
    /\ degraded' = TRUE
    /\ UNCHANGED <<stops, asks, tmuxVars, rowVars, regVars, call, recon, bootView, closed, spawned, reaped>>

\* apply_register_job: a pane that died is not bridged, nor one whose session is
\* gone by now.
RegisterGhost(i) == IF tmux[i] \in {"dead", "none"} THEN "dead" ELSE "live"

\* apply_recover_job.
RecoverGhost(i) == "recover"

\* The plan over the two reads, one job per tracked row.
BootPlan == [i \in bootView.rows |-> RehydrateJob(i, bootView.live)]

\* apply_rehydrate_plan: rows that cannot come back are forgotten, the rest become
\* ghosts, those that run with a machine.  Dead panes are found by a fresh
\* list-panes, where an absent session counts as dead.
BootApply ==
    /\ boot = "listed"
    /\ \/ row' = Forgotten({i \in bootView.rows : BootPlan[i] = "forget"})
       \/ UNCHANGED row     \* the write fails
    /\ hears' = [i \in Ids |->
          IF i \in bootView.rows \ Shells /\ BootPlan[i] = "register" /\ RegisterGhost(i) = "live"
            THEN "yes" ELSE hears[i]]
    /\ ghost' = [i \in Ids |->
          IF i \notin bootView.rows \/ i \in entry \/ BootPlan[i] = "forget" THEN ghost[i]
          ELSE IF BootPlan[i] = "recover" THEN RecoverGhost(i)
          ELSE RegisterGhost(i)]
    /\ boot' = "applied"
    /\ UNCHANGED <<stops, asks, tmuxVars, entry, monitor, flight, call, recon, bootView, histVars>>

\* Its reconcile pass is over: what protected_session_ids leaves to the age reap.
BootKeep ==
    /\ boot = "applied" /\ recon.pc = "done"
    /\ boot' = "kept"
    /\ bootView' = [NoView EXCEPT !.live = bootView.live \ Known]
    /\ recon' = NoRecon
    /\ UNCHANGED <<stops, asks, tmuxVars, rowVars, regVars, call, histVars>>

\* reap_stale over whichever of them are past the threshold, and
\* latch_rehydrate_done.  Its kills touch no record of raum.
BootReap(stale) ==
    /\ boot = "kept" /\ stale \subseteq bootView.live
    /\ tmux' = [i \in Ids |-> IF i \in stale THEN "none" ELSE tmux[i]]
    /\ boot' = "up"
    /\ bootView' = NoView
    /\ UNCHANGED <<stops, asks, doomed, rowVars, regVars, call, recon, histVars>>

-----------------------------------------------------------------------------
(* The environment *)

\* A process in a pane exits; remain-on-exit keeps the pane.
ProcessExits(i) ==
    /\ tmux[i] = "run"
    /\ tmux' = [tmux EXCEPT ![i] = "dead"]
    /\ UNCHANGED <<doomed, rowVars, regVars, call, recon, bootVars, histVars>>

\* A hook of a running harness reports its session id or a prompt (h), or a state.
HarnessReports(i, h) ==
    /\ hears[i] \in {"yes", "bare"} /\ tmux[i] = "run"
    /\ row' = [row EXCEPT ![i] = Reported(@, h)]
    /\ UNCHANGED <<tmuxVars, hears, regVars, call, recon, bootVars, histVars>>

\* One that was routed before its machine was removed is written after it.
LateReport(i, h) ==
    /\ hears[i] = "late"
    /\ hears' = [hears EXCEPT ![i] = IF Live(i) /\ ~IsRow(row[i]) THEN "stray" ELSE "no"]
    /\ row' = [row EXCEPT ![i] = Reported(@, h)]
    /\ UNCHANGED <<tmuxVars, regVars, call, recon, bootVars, histVars>>

\* raum exits or crashes; a reboot takes the tmux server with it.
Stop(reboot) ==
    /\ Asks /\ stops < MaxStops /\ stops' = stops + 1
    /\ tmux' = IF reboot THEN [i \in Ids |-> "none"] ELSE tmux
    /\ doomed' = {} /\ entry' = {} /\ flight' = {}
    /\ ghost' = [i \in Ids |-> "none"]
    /\ monitor' = [i \in Ids |-> "off"]
    /\ call' = [c \in Calls |-> Idle]
    /\ recon' = NoRecon
    /\ boot' = "down" /\ bootView' = NoView
    /\ hears' = [i \in Ids |-> "no"]
    /\ reaped' = {} /\ degraded' = FALSE
    /\ UNCHANGED <<row, closed, spawned>>

-----------------------------------------------------------------------------
Step(c) ==
    \/ \E p \in BOOLEAN : SpawnTrack(c, p)
    \/ SpawnAttach(c) \/ SpawnAttachFails(c) \/ SpawnLaunch(c) \/ SpawnLaunchFails(c) \/ SpawnUndo(c)
    \/ AttachCreate(c) \/ AttachRefused(c)
    \/ \E p \in BOOLEAN : AttachBegin(c, p) \/ AttachRegister(c, p)
    \/ AttachOpen(c) \/ AttachOpenFails(c) \/ AttachResumeFails(c)
    \/ AttachResurface(c) \/ AttachDrop(c) \/ AttachRespawn(c) \/ AttachCommit(c)
    \/ RemoveFinish(c) \/ KillOrphanFinish(c)
    \/ ReplaceTrack(c) \/ ReplaceAttach(c) \/ ReplaceLaunch(c)
    \/ ReplaceFails(c) \/ ReplaceCommit(c)

Request(c, i) ==
    \/ SpawnCreate(c, i)
    \/ \E resume \in BOOLEAN : AttachLook(c, i, resume)
    \/ RemoveKill(c, i)
    \/ KillOrphan(c, i)
    \/ \E n \in Ids : ReplaceCreate(c, i, n)

ReconStep == ReconList \/ ReconTrack \/ ReconGhosts
BootStep  == BootApply \/ BootKeep \/ \E stale \in SUBSET Ids : BootReap(stale)

Tasks ==
    \/ \E i \in Ids : TmuxKill(i) \/ MonitorSees(i) \/ MonitorReaps(i)
    \/ ReconStep \/ BootStep
    \/ \E restart \in BOOLEAN : BootList(restart)

Environment ==
    \/ \E i \in Ids : \/ KillInteractive(i) \/ ProcessExits(i)
                      \/ \E h \in BOOLEAN : HarnessReports(i, h) \/ LateReport(i, h)
    \/ BootListFails
    \/ \E reboot \in BOOLEAN : Stop(reboot)

Next ==
    \/ \E c \in Calls : Step(c) \/ \E i \in Ids : Request(c, i)
    \/ Tasks
    \/ Environment

Spec == Init /\ [][Next]_vars

\* Async tasks are polled until they end, the timer keeps calling for a
\* reconcile, and a background kill is carried out.
Fairness ==
    /\ \A c \in Calls : WF_vars(Step(c))
    /\ WF_vars(ReconStep) /\ WF_vars(BootStep)
    /\ \A i \in Ids : WF_vars(TmuxKill(i)) /\ WF_vars(MonitorReaps(i))

FairSpec == Spec /\ Fairness

-----------------------------------------------------------------------------
(* Properties *)

TypeOK ==
    /\ tmux \in [Ids -> {"none", "place", "run", "dead"}]
    /\ doomed \subseteq Ids
    /\ row \in [Ids -> Rows]
    /\ entry \subseteq Ids /\ flight \subseteq Ids
    /\ ghost \in [Ids -> {"none", "live", "dead", "recover"}]
    /\ monitor \in [Ids -> {"off", "poll", "reap"}]
    /\ boot \in {"down", "listed", "applied", "kept", "up"}
    /\ hears \in [Ids -> {"no", "yes", "bare", "late", "stray"}]
    /\ closed \subseteq Ids /\ spawned \subseteq Ids /\ reaped \subseteq Ids
    /\ degraded \in BOOLEAN

Quiet(i) == boot = "up" /\ recon.pc = "idle" /\ ~Busy(i) /\ i \notin doomed

\* "The set of live tmux sessions on the socket is always exactly the set of
\* sessions the user can see and close": when nothing is under way on a live
\* session the user has not closed, terminal_list shows it, or nothing keeps the
\* next reconcile pass from adopting it (a tracked row would).  Every failure
\* path of the reattach and of the boot has to leave it so.  Until raum starts
\* again, it does not when the row outlives the cleanup of a session that runs
\* on: a late report writes it anew, or forgetting it fails.
HiddenIsAdoptable ==
    ~degraded => \A i \in Ids \ closed :
        Quiet(i) /\ Live(i) /\ ~Visible(i) => ~IsRow(row[i]) \/ hears[i] = "stray"

\* A harness whose spawn or replacement succeeds, and that was not closed
\* meanwhile, has a row with its project, whoever else wrote the row first (a
\* reconcile pass that listed the new session, a hook): without the project the
\* next start forgets it.  Only an upsert that failed leaves it without: that is
\* logged or ignored, and the spawn succeeds all the same.
TracksSpawns ==
    \A i \in ((spawned' \ spawned) \cap entry') \ (closed \cup Shells) :
        (IsRow(row'[i]) /\ row'[i].project) \/ hears[i] = "bare"
SpawnIsTracked == [][TracksSpawns]_vars

\* A conversation that a start could bring back loses its row only when the
\* user ends the session, the pane dies under its monitor, a plain reattach
\* finds no bridge, or the row belongs to a replacement that failed: never by a
\* resume that fails, a reboot or a reconcile pass, and by an orphan reap only if
\* raum knew nothing of the session when it was chosen.
KeepsConversations ==
    \A i \in Ids :
        Recoverable(i, row[i]) /\ ~IsRow(row'[i]) =>
            \/ i \in closed' \/ monitor[i] = "reap"
            \/ \E c \in Calls :
                  /\ \/ call[c].op = "replace"
                     \/ call[c].op = "attach" /\ call[c].pc = "open" /\ ~call[c].resume
                     \/ call[c].op = "orphan" /\ i \in reaped
                  /\ call[c].id = i
ConversationKept == [][KeepsConversations]_vars

\* While raum runs, a live session it does not list is listed sooner or later
\* (or ends, or the user had closed it, or its row has outlived a cleanup).
Lives(i)     == Running /\ Live(i)
Surfaced(i)  == ~Running \/ degraded \/ Visible(i) \/ ~Live(i) \/ i \in closed \/ hears[i] = "stray"
LiveSurfaces == \A i \in Ids : Lives(i) ~> Surfaced(i)

\* A session the user closed does not come back to the terminal list.
ClosedStaysClosed ==
    [][\A i \in closed : ~Visible(i) => ~Visible(i)']_vars
=============================================================================
