----------------------------- MODULE StateFanout -----------------------------
(***************************************************************************)
(* How a session's state leaves its machine: the drain loop and the        *)
(* silence tick publish on a broadcast bus whose bridge task persists a    *)
(* change and then emits it, Ctrl-C and permission replies emit at once;   *)
(* and how it comes back: the webview's store with the acknowledgements of *)
(* finished turns, page reloads with their snapshot, kills and restarts.   *)
(*                                                                         *)
(* sessions.toml is used through the ledger that SessionsStore implements: *)
(* rows is what its readers see, saved what a restart would find.  A step  *)
(* is one critical section of the registry or of the store, one bus        *)
(* operation or one emit; the webview handles an emit when it is made.     *)
(***************************************************************************)
EXTENDS AgentMachine, Sequences

CONSTANTS
    Session,     \* raum session ids, each spawned at most once
    NoRow,       \* no row in sessions.toml, no entry in the webview
    KindOf,      \* harness of each session
    HookEvents,  \* the hook events the drain loop routes to a session
    BusCap,      \* AGENT_EVENT_CHANNEL_CAPACITY
    MaxChanges,  \* bound: transitions
    MaxAcks,     \* bound: acknowledgements sent, retries included
    MaxReloads,  \* bound: page reloads
    MaxFails,    \* bound: failed writes of sessions.toml
    MaxRestarts  \* bound: crashes of the process

(* A reading is a state with the number of the transition that led to it:   *)
(* two completions of one session are told apart by their numbers.          *)
Unset == [state |-> "none", gen |-> 0]

Reading == [state : AgentState, gen : 0..MaxChanges] \cup {Unset}

NewRow(reading) == [state |-> reading, acked |-> FALSE, key |-> FALSE]

Row == [state : Reading, acked : BOOLEAN, key : {FALSE}]

ASSUME FanoutAssumption ==
    /\ KindOf \in [Session -> AgentKind]
    /\ BusCap \in Nat \ {0}
    /\ MaxChanges \in Nat /\ MaxAcks \in Nat /\ MaxReloads \in Nat
    /\ MaxFails \in Nat /\ MaxRestarts \in Nat

ASSUME NoRowAssumption == NoRow \notin Row /\ NoRow \notin Reading

Change == [s : Session, to : Reading]

(* The tasks that hold a change between the registry lock and its next stop. *)
OnBus == {"drain", "tick"}
Direct == {"abort", "reply"}

VARIABLES
    machines, \* AgentRegistry.machines; meaningful for live sessions
    entered,  \* the number of the transition each machine last made
    live,     \* sessions that have a machine
    hand,     \* per task, the change it has still to publish or to emit
    bus,      \* the broadcast channel, as the bridge will read it
    bridge,   \* the bridge task: program counter and change
    rows,     \* sessions.toml as its readers see it
    saved,    \* sessions.toml as a restart would find it
    view,     \* webview: agentStore.sessions
    acks,     \* webview: acknowledgedSessions
    unsent,   \* webview: pendingAcks
    calls,    \* agent_ack_state calls under way
    snap,     \* the agent_snapshot call of a loading page
    stage,    \* per session, how far terminal_spawn or terminal_kill has come
    clock, sends, reloads, fails, restarts,
    seen,     \* history: the finished turns the user has dismissed
    kept,     \* history: those whose flag was confirmed to the page showing them
    crossed,  \* history: sessions that had an older reading applied over a newer
    starved,  \* history: sessions with a change pushed out and no newer one behind it
    lapsed    \* history: sessions whose newest persist a failed write undid

backend == <<machines, entered, live>>
store == <<rows, saved>>
webview == <<view, acks, unsent, snap>>
bounds == <<clock, sends, reloads, fails, restarts>>
history == <<seen, kept, crossed, starved, lapsed>>
vars == <<backend, hand, bus, bridge, store, webview, calls, stage, bounds, history>>

None == [s |-> "none", to |-> Unset]

Done == {"completed", "errored"}

Read(s) == [state |-> machines[s].state, gen |-> entered[s]]

NoSnap == [pc |-> "none", of |-> [s \in Session |-> NoRow], acked |-> {}]

Load == [NoSnap EXCEPT !.pc = "read"]

Init ==
    /\ machines = [s \in Session |-> NewMachine(KindOf[s])]
    /\ entered = [s \in Session |-> 0]
    /\ live = {}
    /\ hand = [p \in OnBus \cup Direct |-> None]
    /\ bus = <<>>
    /\ bridge = [pc |-> "recv", change |-> None]
    /\ rows = [s \in Session |-> NoRow]
    /\ saved = rows
    /\ view = [s \in Session |-> NoRow] /\ acks = {} /\ unsent = {}
    /\ snap = Load
    /\ calls = [s \in Session |-> 0]
    /\ stage = [s \in Session |-> "new"]
    /\ clock = 0 /\ sends = 0 /\ reloads = 0 /\ fails = 0 /\ restarts = 0
    /\ seen = [s \in Session |-> {}] /\ kept = [s \in Session |-> {}]
    /\ crossed = {} /\ starved = {} /\ lapsed = {}

-----------------------------------------------------------------------------
(* Transitions: under the registry lock the machine becomes m; task p is    *)
(* left with the change in hand, if there is one.                           *)
Transition(p, s, m) ==
    /\ s \in live /\ hand[p] = None
    /\ machines' = [machines EXCEPT ![s] = m]
    /\ IF m.state = machines[s].state
       THEN UNCHANGED <<entered, hand, clock>>
       ELSE /\ clock < MaxChanges
            /\ clock' = clock + 1
            /\ entered' = [entered EXCEPT ![s] = clock']
            /\ hand' = [hand EXCEPT ![p] = [s |-> s, to |-> [state |-> m.state, gen |-> clock']]]
    /\ UNCHANGED <<live, bus, bridge, store, webview, calls, stage, sends, reloads, fails,
                   restarts, history>>

DrainHook(s, ev) == Transition("drain", s, OnHookEvent(machines[s], ev))

Tick(s, recent) == Transition("tick", s, TickSilence(machines[s], recent))

Abort(s) == Transition("abort", s, OnUserAbort(machines[s]))

Demote(s) == Transition("reply", s, OnPermissionReply(machines[s]))

-----------------------------------------------------------------------------
(* The bus keeps the newest BusCap changes.                                 *)

Older(reading, than) == than # NoRow /\ (reading = NoRow \/ reading.gen < than.gen)

(* Mutant of Push: a full bus refuses the newcomer. *)
PushRefuses(change) ==
    IF Len(bus) < BusCap THEN bus' = Append(bus, change) /\ UNCHANGED starved
    ELSE UNCHANGED <<bus, starved>>

Push(change) ==
    IF Len(bus) < BusCap THEN bus' = Append(bus, change) /\ UNCHANGED starved
    ELSE /\ bus' = Append(Tail(bus), change)
         /\ starved' = IF \E i \in DOMAIN bus' :
                               bus'[i].s = Head(bus).s /\ Older(Head(bus).to, bus'[i].to)
                       THEN starved ELSE starved \cup {Head(bus).s}

Publish(p) ==
    /\ hand[p] # None
    /\ Push(hand[p])
    /\ hand' = [hand EXCEPT ![p] = None]
    /\ UNCHANGED <<backend, bridge, store, webview, calls, stage, bounds, seen, kept, crossed,
                   lapsed>>

(* Mutant of BridgeTake: the change is emitted without being persisted. *)
BridgeTakeToEmit ==
    /\ bridge.pc = "recv" /\ bus # <<>>
    /\ bridge' = [pc |-> "emit", change |-> Head(bus)]
    /\ bus' = Tail(bus)
    /\ UNCHANGED <<backend, hand, store, webview, calls, stage, bounds, history>>

BridgeTake ==
    /\ bridge.pc = "recv" /\ bus # <<>>
    /\ bridge' = [pc |-> "persist", change |-> Head(bus)]
    /\ bus' = Tail(bus)
    /\ UNCHANGED <<backend, hand, store, webview, calls, stage, bounds, history>>

-----------------------------------------------------------------------------
(* The store.  Write-through operations take the whole table to disk.       *)

WriteRow(s, row) == rows' = [rows EXCEPT ![s] = row] /\ saved' = rows'

TouchRow(s, row) == rows' = [rows EXCEPT ![s] = row] /\ UNCHANGED saved

(* Mutant of Persist: a missing row is inserted without a write. *)
PersistLazily(s, reading) ==
    IF rows[s] = NoRow \/ ~rows[s].acked
    THEN TouchRow(s, NewRow(reading))
    ELSE WriteRow(s, [rows[s] EXCEPT !.state = reading, !.acked = FALSE])

(* update_session_last_state *)
Persist(s, reading) ==
    CASE rows[s] = NoRow -> WriteRow(s, NewRow(reading))
      [] rows[s] # NoRow /\ rows[s].acked ->
             WriteRow(s, [rows[s] EXCEPT !.state = reading, !.acked = FALSE])
      [] OTHER -> TouchRow(s, [rows[s] EXCEPT !.state = reading])

BridgePersist ==
    LET s == bridge.change.s
        to == bridge.change.to
    IN  /\ bridge.pc = "persist"
        /\ Persist(s, to)
        /\ bridge' = [bridge EXCEPT !.pc = "emit"]
        /\ crossed' = IF rows[s] # NoRow /\ Older(to, rows[s].state)
                      THEN crossed \cup {s} ELSE crossed
        /\ lapsed' = lapsed \ {s}
        /\ UNCHANGED <<backend, hand, bus, webview, calls, stage, bounds, seen, kept, starved>>

(* A write fails before its rename.  Nothing is recorded, and the readers   *)
(* are back at what the disk says, the deferred states of other rows lost.  *)
WriteFails(unwritten) ==
    /\ fails < MaxFails /\ fails' = fails + 1
    /\ rows' = saved /\ UNCHANGED saved
    /\ lapsed' = lapsed \cup unwritten \cup {q \in Session : rows[q] # saved[q]}

(* persist_last_state logs the error, and the bridge goes on to emit.       *)
BridgePersistFails ==
    LET s == bridge.change.s
    IN  /\ bridge.pc = "persist" /\ (rows[s] # NoRow => rows[s].acked)
        /\ WriteFails({s})
        /\ bridge' = [bridge EXCEPT !.pc = "emit"]
        /\ UNCHANGED <<backend, hand, bus, webview, calls, stage, clock, sends, reloads,
                       restarts, seen, kept, crossed, starved>>

(* The debounced write catches up. *)
Settle ==
    /\ saved # rows /\ saved' = rows
    /\ UNCHANGED <<backend, hand, bus, bridge, rows, webview, calls, stage, bounds, history>>

SettleFails ==
    /\ saved # rows /\ WriteFails({})
    /\ UNCHANGED <<backend, hand, bus, bridge, webview, calls, stage, clock, sends, reloads,
                   restarts, seen, kept, crossed, starved>>

-----------------------------------------------------------------------------
(* The webview.                                                             *)

(* updateSessionState: working and idle revoke the acknowledgement and its  *)
(* queued retry.                                                            *)
(* Mutant of Deliver: the queued retry survives the revocation. *)
DeliverKeepsQueue(change) ==
    LET rearmed == IF change.to.state \in {"working", "idle"} THEN {change.s} ELSE {}
    IN  /\ view' = [view EXCEPT ![change.s] = change.to]
        /\ acks' = acks \ rearmed
        /\ crossed' = IF Older(change.to, view[change.s])
                      THEN crossed \cup {change.s} ELSE crossed
        /\ UNCHANGED <<unsent, snap, seen, kept, starved, lapsed>>

Deliver(change) ==
    LET rearmed == IF change.to.state \in {"working", "idle"} THEN {change.s} ELSE {}
    IN  /\ view' = [view EXCEPT ![change.s] = change.to]
        /\ acks' = acks \ rearmed
        /\ unsent' = unsent \ rearmed
        /\ crossed' = IF Older(change.to, view[change.s])
                      THEN crossed \cup {change.s} ELSE crossed
        /\ UNCHANGED <<snap, seen, kept, starved, lapsed>>

BridgeEmit ==
    /\ bridge.pc = "emit"
    /\ Deliver(bridge.change)
    /\ bridge' = [pc |-> "recv", change |-> None]
    /\ UNCHANGED <<backend, hand, bus, store, calls, stage, bounds>>

(* An abort or a reply emits its change itself and persists nothing. *)
EmitDirect(p) ==
    /\ hand[p] # None
    /\ Deliver(hand[p])
    /\ hand' = [hand EXCEPT ![p] = None]
    /\ UNCHANGED <<backend, bus, bridge, store, calls, stage, bounds>>

(* markAcknowledged, from the rail, a toast, a banner or a focused pane. *)
MarkAcknowledged(s) ==
    /\ view[s] # NoRow /\ view[s].state \in Done /\ s \notin acks /\ sends < MaxAcks
    /\ acks' = acks \cup {s} /\ unsent' = unsent \cup {s}
    /\ calls' = [calls EXCEPT ![s] = @ + 1] /\ sends' = sends + 1
    /\ seen' = [seen EXCEPT ![s] = @ \cup {view[s].gen}]
    /\ UNCHANGED <<backend, hand, bus, bridge, store, view, snap, stage, clock, reloads,
                   fails, restarts, kept, crossed, starved, lapsed>>

(* flushPendingAcks, when the page is hidden: unconfirmed ones go again. *)
RetryAck(s) ==
    /\ s \in unsent /\ sends < MaxAcks
    /\ calls' = [calls EXCEPT ![s] = @ + 1] /\ sends' = sends + 1
    /\ UNCHANGED <<backend, hand, bus, bridge, store, webview, stage, clock, reloads,
                   fails, restarts, history>>

(* ack_session_last_state: whatever state the row is in by now.  The answer *)
(* takes the session out of pendingAcks ...                                 *)
AckState(s) ==
    /\ calls[s] > 0
    /\ calls' = [calls EXCEPT ![s] = @ - 1]
    /\ IF rows[s] = NoRow \/ rows[s].acked
       THEN UNCHANGED store
       ELSE WriteRow(s, [rows[s] EXCEPT !.acked = TRUE])
    /\ unsent' = unsent \ {s}
    /\ kept' = IF s \in unsent /\ rows[s] # NoRow /\ view[s] = rows[s].state
               THEN [kept EXCEPT ![s] = @ \cup ({rows[s].state.gen} \cap seen[s])]
               ELSE kept
    /\ UNCHANGED <<backend, hand, bus, bridge, view, acks, snap, stage, bounds, seen,
                   crossed, starved, lapsed>>

(* ... and a failed write leaves it in.                                     *)
AckFails(s) ==
    /\ calls[s] > 0 /\ rows[s] # NoRow /\ ~rows[s].acked
    /\ calls' = [calls EXCEPT ![s] = @ - 1]
    /\ WriteFails({})
    /\ UNCHANGED <<backend, hand, bus, bridge, webview, stage, clock, sends, reloads,
                   restarts, seen, kept, crossed, starved>>

-----------------------------------------------------------------------------
(* A page load: the listeners are attached, then agent_snapshot reads the   *)
(* registry, joins the persisted flags and answers.                         *)

Reload ==
    /\ reloads < MaxReloads /\ reloads' = reloads + 1
    /\ view' = [s \in Session |-> NoRow] /\ acks' = {} /\ unsent' = {}
    /\ snap' = Load
    /\ UNCHANGED <<backend, hand, bus, bridge, store, calls, stage, clock, sends, fails,
                   restarts, history>>

SnapshotRead ==
    /\ snap.pc = "read"
    /\ snap' = [snap EXCEPT !.pc = "join",
                            !.of = [s \in Session |-> IF s \in live THEN Read(s) ELSE NoRow]]
    /\ UNCHANGED <<backend, hand, bus, bridge, store, view, acks, unsent, calls, stage,
                   bounds, history>>

SnapshotJoin ==
    /\ snap.pc = "join"
    /\ snap' = [snap EXCEPT !.pc = "apply",
                            !.acked = {s \in Session : rows[s] # NoRow /\ rows[s].acked}]
    /\ UNCHANGED <<backend, hand, bus, bridge, store, view, acks, unsent, calls, stage,
                   bounds, history>>

(* Mutant of Seeded: a reload forgets what was dismissed. *)
SeededNone(of, acked) == {}

Seeded(of, acked) == {s \in acked : of[s] # NoRow /\ of[s].state \in Done}

(* setAdapters replaces the whole store. *)
SnapshotApply ==
    /\ snap.pc = "apply"
    /\ view' = snap.of
    /\ acks' = acks \cup Seeded(snap.of, snap.acked)
    /\ snap' = NoSnap
    /\ crossed' = crossed \cup
           {s \in Session : Older(snap.of[s], view[s])}
    /\ UNCHANGED <<backend, hand, bus, bridge, store, unsent, calls, stage, bounds, seen,
                   kept, starved, lapsed>>

-----------------------------------------------------------------------------
(* register_harness_session_runtime: the machine first, then the row, which *)
(* the bridge may have inserted by then.                                     *)
Register(s) ==
    /\ stage[s] = "new" /\ stage' = [stage EXCEPT ![s] = "track"]
    /\ live' = live \cup {s}
    /\ UNCHANGED <<machines, entered, hand, bus, bridge, store, webview, calls, bounds, history>>

Track(s) ==
    /\ stage[s] = "track" /\ stage' = [stage EXCEPT ![s] = "open"]
    /\ WriteRow(s, IF rows[s] = NoRow THEN NewRow(Unset) ELSE rows[s])
    /\ UNCHANGED <<backend, hand, bus, bridge, webview, calls, bounds, history>>

(* The write of the row fails; the spawn succeeds without it.               *)
TrackFails(s) ==
    /\ stage[s] = "track" /\ stage' = [stage EXCEPT ![s] = "open"]
    /\ WriteFails({s})
    /\ UNCHANGED <<backend, hand, bus, bridge, webview, calls, clock, sends, reloads,
                   restarts, seen, kept, crossed, starved>>

(* terminal_kill: forget the row, drop the machine, tell the webview. *)
Kill(s) ==
    /\ stage[s] = "open"
    /\ IF rows[s] = NoRow THEN UNCHANGED store ELSE WriteRow(s, NoRow)
    /\ stage' = [stage EXCEPT ![s] = "machine"]
    /\ UNCHANGED <<backend, hand, bus, bridge, webview, calls, bounds, history>>

(* A row that cannot be forgotten stays; the rest of the kill goes on.      *)
KillFails(s) ==
    /\ stage[s] = "open" /\ rows[s] # NoRow
    /\ WriteFails({})
    /\ stage' = [stage EXCEPT ![s] = "machine"]
    /\ UNCHANGED <<backend, hand, bus, bridge, webview, calls, clock, sends, reloads,
                   restarts, seen, kept, crossed, starved>>

RemoveMachine(s) ==
    /\ stage[s] = "machine"
    /\ live' = live \ {s}
    /\ stage' = [stage EXCEPT ![s] = "announce"]
    /\ UNCHANGED <<machines, entered, hand, bus, bridge, store, webview, calls, bounds, history>>

AnnounceRemoved(s) ==
    /\ stage[s] = "announce"
    /\ view' = [view EXCEPT ![s] = NoRow]
    /\ acks' = acks \ {s} /\ unsent' = unsent \ {s}
    /\ stage' = [stage EXCEPT ![s] = "gone"]
    /\ UNCHANGED <<backend, hand, bus, bridge, store, snap, calls, bounds, history>>

(* The process dies.  The rehydrate task registers a machine for each row,  *)
(* seeded with its last_state; a new page loads.                            *)
Restart ==
    /\ restarts < MaxRestarts /\ restarts' = restarts + 1
    /\ rows' = saved
    /\ live' = {s \in Session : saved[s] # NoRow}
    /\ machines' = [s \in Session |->
           IF s \in live' /\ saved[s].state # Unset
           THEN [NewMachine(KindOf[s]) EXCEPT !.state = saved[s].state.state]
           ELSE NewMachine(KindOf[s])]
    /\ entered' = [s \in Session |-> IF s \in live' THEN saved[s].state.gen ELSE 0]
    /\ hand' = [p \in OnBus \cup Direct |-> None]
    /\ bus' = <<>> /\ bridge' = [pc |-> "recv", change |-> None]
    /\ view' = [s \in Session |-> NoRow] /\ acks' = {} /\ unsent' = {} /\ snap' = Load
    /\ calls' = [s \in Session |-> 0]
    /\ stage' = [s \in Session |-> IF s \in live' THEN "open"
                                   ELSE IF stage[s] = "new" THEN "new" ELSE "gone"]
    /\ UNCHANGED <<saved, clock, sends, reloads, fails, history>>

-----------------------------------------------------------------------------
Next ==
    \/ \E s \in Session : \/ \E ev \in HookEvents : DrainHook(s, ev)
                          \/ \E recent \in BOOLEAN : Tick(s, recent)
                          \/ Abort(s) \/ Demote(s)
    \/ \E p \in OnBus : Publish(p)
    \/ \E p \in Direct : EmitDirect(p)
    \/ BridgeTake \/ BridgePersist \/ BridgePersistFails \/ BridgeEmit
    \/ Settle \/ SettleFails
    \/ \E s \in Session : MarkAcknowledged(s) \/ RetryAck(s) \/ AckState(s) \/ AckFails(s)
    \/ Reload \/ SnapshotRead \/ SnapshotJoin \/ SnapshotApply
    \/ \E s \in Session : \/ Register(s) \/ Track(s) \/ TrackFails(s)
                          \/ Kill(s) \/ KillFails(s) \/ RemoveMachine(s) \/ AnnounceRemoved(s)
    \/ Restart

Spec == Init /\ [][Next]_vars
-----------------------------------------------------------------------------
(* Properties.                                                             *)

(* Every variable holds what its declaration says; in particular the webview *)
(* only ever queues an acknowledgement that it also shows.                   *)
TypeOK ==
    /\ machines \in [Session -> Machine] /\ entered \in [Session -> 0..MaxChanges]
    /\ live \subseteq Session
    /\ hand \in [OnBus \cup Direct -> Change \cup {None}]
    /\ bus \in Seq(Change) /\ Len(bus) <= BusCap
    /\ bridge \in [pc : {"recv", "persist", "emit"}, change : Change \cup {None}]
    /\ rows \in [Session -> Row \cup {NoRow}] /\ saved \in [Session -> Row \cup {NoRow}]
    /\ view \in [Session -> Reading \cup {NoRow}]
    /\ acks \subseteq Session /\ unsent \subseteq acks
    /\ calls \in [Session -> 0..MaxAcks]
    /\ snap \in [pc : {"none", "read", "join", "apply"},
                 of : [Session -> Reading \cup {NoRow}], acked : SUBSET Session]
    /\ stage \in [Session -> {"new", "track", "open", "machine", "announce", "gone"}]
    /\ clock \in 0..MaxChanges /\ sends \in 0..MaxAcks
    /\ reloads \in 0..MaxReloads /\ fails \in 0..MaxFails /\ restarts \in 0..MaxRestarts
    /\ seen \in [Session -> SUBSET (0..MaxChanges)]
    /\ kept \in [Session -> SUBSET (0..MaxChanges)]
    /\ crossed \subseteq Session /\ starved \subseteq Session /\ lapsed \subseteq Session

Ledger == INSTANCE SessionsLedger WITH State <- Reading, NoState <- Unset,
                                       view <- rows, disk <- saved

(* The bridge, the acknowledgements, the spawns, the kills and the restarts *)
(* use sessions.toml as its ledger allows, through the failures of their    *)
(* writes: only last_state ever lags on disk.                               *)
RefinesLedger == Ledger!LedgerSpec

Quiet ==
    /\ \A p \in OnBus \cup Direct : hand[p] = None
    /\ bus = <<>> /\ bridge.pc = "recv"
    /\ snap.pc = "none"
    /\ \A s \in Session : stage[s] \notin {"machine", "announce"}

Astray == crossed \cup starved

(* The webview ends up showing what the machine says, through reloads,      *)
(* restarts and a bus that overflows with the session's own changes: a      *)
(* session goes wrong only when an older reading was applied over a newer   *)
(* one, or another session's burst pushed its change off the bus.           *)
Converges ==
    \A s \in live : Quiet /\ s \notin Astray
        => view[s] = IF entered[s] = 0 /\ view[s] = NoRow THEN NoRow ELSE Read(s)

(* A finished turn the user has dismissed, with the flag on disk and        *)
(* confirmed to the page that shows the turn, does not come back: not on a  *)
(* reload, not on a restart (agentStore.ts setAdapters: "an already-seen    *)
(* completion/error stays quiet").                                          *)
DismissedStaysDismissed ==
    \A s \in live :
        /\ Quiet /\ s \notin Astray
        /\ view[s] # NoRow /\ view[s].gen \in kept[s]
        => s \in acks

(* What the bridge tells the webview a reload finds in sessions.toml, unless *)
(* a write failed: persist_last_state logs the error and the change is       *)
(* emitted all the same, whatever ensure_bridge_running says ("Each          *)
(* transition is persisted into state/sessions.toml before we emit"), and    *)
(* any failed write takes deferred states back with it.  The row may be      *)
(* missing once the session's kill is under way, and not before.             *)
PersistBeforeEmit ==
    [][\A s \in Session :
        bridge.pc = "emit" /\ bridge'.pc = "recv" /\ restarts' = restarts /\ bridge.change.s = s
        => \/ s \in lapsed
           \/ rows[s] # NoRow /\ rows[s].state = bridge.change.to
           \/ rows[s] = NoRow /\ stage[s] \in {"machine", "announce", "gone"}]_vars

(* An acknowledgement on record is for a turn whose end the user has seen   *)
(* (ack_session_last_state: "an ack only silences the exact state the user  *)
(* actually saw").                                                          *)
AckSilencesSeen ==
    \A s \in Session :
        rows[s] # NoRow /\ rows[s].acked /\ rows[s].state.state \in Done
        => rows[s].state.gen \in seen[s]

(* A snapshot never takes the webview back to an older reading (top-row.tsx: *)
(* an event "that races the snapshot still lands on the fresh state").       *)
SnapshotIsFresh ==
    [][\A s \in Session :
        snap.pc = "apply" /\ snap'.pc = "none" /\ view'[s] # NoRow
        => ~Older(view'[s], view[s])]_vars

(* A killed session leaves sessions.toml for good (kill.rs: "every          *)
(* spawn/reattach writes and every kill prunes").                           *)
KillPrunes ==
    \A s \in Session : Quiet /\ stage[s] = "gone" => rows[s] = NoRow
=============================================================================
