---------------------------- MODULE SessionsStore ----------------------------
(***************************************************************************)
(* ConfigStore's sessions.toml (crates/raum-core/src/store.rs): the parsed *)
(* cache, the debounced write waiting for its quiet window, the flusher    *)
(* thread that performs it, the write-through path and atomic_write's      *)
(* rename, with crashes and failed writes anywhere in between.             *)
(*                                                                         *)
(* Every accessor runs under the config_store mutex, so one operation is   *)
(* in progress at a time; the flusher takes only sessions_pending and      *)
(* sessions_cache and runs beside it.  A step is what one thread does      *)
(* between two points where the other could run.                           *)
(*                                                                         *)
(* Named assumption: the file can be read, and parses.  An accessor takes   *)
(* a failed read for an empty table and writes its row into that; a text    *)
(* that does not parse is set aside and reads as empty too.                *)
(***************************************************************************)
EXTENDS Naturals

CONSTANTS
    Session,   \* session ids
    State,     \* values of last_state
    NoState,   \* last_state = None
    NoRow,     \* no row with that id
    NoTable,   \* an empty cache, an empty pending slot
    MaxOps,    \* bound: operations begun
    MaxFails,  \* bound: failed file writes
    MaxCrashes \* bound: crashes

ASSUME StoreAssumption ==
    /\ NoState \notin State
    /\ MaxOps \in Nat /\ MaxFails \in Nat /\ MaxCrashes \in Nat

(* The fields of TrackedSession a property can tell apart; key: a prompt or *)
(* a harness session id is known, which makes a dead session recoverable.   *)
Row == [state : State \cup {NoState}, acked : BOOLEAN, key : BOOLEAN]

ASSUME NoRowAssumption == NoRow \notin Row

Table == [Session -> Row \cup {NoRow}]

ASSUME NoTableAssumption == NoTable \notin Table

VARIABLES
    disk,     \* the parsed content of sessions.toml
    cache,    \* sessions_cache, NoTable when cold
    pending,  \* PendingSessions.state
    deadline, \* PendingSessions.deadline: none, set (in the future) or passed
    armed,    \* PendingSessions.armed: a flusher thread is alive
    op,       \* the operation under the config_store mutex
    flush,    \* the flusher's write, once it has taken the pending value
    promised, \* history: the rows as the operations that returned Ok left them
    ops, fails, crashes

vars == <<disk, cache, pending, deadline, armed, op, flush, promised, ops, fails, crashes>>

Bare == [state |-> NoState, acked |-> FALSE, key |-> FALSE]

-----------------------------------------------------------------------------
(* The accessors, as functions on a table.  A request names the accessor,   *)
(* its row and, for update_session_last_state, the new state.               *)
Request ==
    [do : {"track", "ack", "harness_id", "prompt", "forget", "flush"}, s : Session,
     to : {NoState}]
    \cup [do : {"state"}, s : Session, to : State]

(* Requests that return without a write. *)
NothingToDo(t, q) ==
    CASE q.do \in {"forget", "prompt"} -> t[q.s] = NoRow
      [] q.do = "ack" -> t[q.s] = NoRow \/ t[q.s].acked
      [] q.do = "harness_id" -> t[q.s] # NoRow /\ t[q.s].key
      [] OTHER -> FALSE

Effect(t, q) ==
    LET row == IF t[q.s] = NoRow THEN Bare ELSE t[q.s]
    IN  CASE q.do = "track" -> row
          [] q.do = "state" -> [row EXCEPT !.state = q.to, !.acked = FALSE]
          [] q.do = "ack" -> [row EXCEPT !.acked = TRUE]
          [] q.do \in {"harness_id", "prompt"} -> [row EXCEPT !.key = TRUE]
          [] q.do = "forget" -> NoRow
          [] OTHER -> t[q.s]

Apply(t, q) == [t EXCEPT ![q.s] = Effect(t, q)]

(* Mutant of Debounced: a cleared acknowledgement is deferred as well. *)
DebouncedAcks(t, q) == q.do = "state" /\ t[q.s] # NoRow

(* Only an ack-neutral touch of an existing row is deferred. *)
Debounced(t, q) == q.do = "state" /\ t[q.s] # NoRow /\ ~t[q.s].acked

-----------------------------------------------------------------------------
Idle == [pc |-> "idle"]

(* What read_sessions returns. *)
Read == IF cache = NoTable THEN disk ELSE cache

(* sessions_pending, and inside write_sessions_to sessions_cache, are held. *)
Locked == op.pc \in {"write", "refresh"} \/ flush.pc # "idle"

Init ==
    /\ disk = [s \in Session |-> NoRow]
    /\ cache = NoTable
    /\ pending = NoTable /\ deadline = "none" /\ armed = FALSE
    /\ op = Idle /\ flush = Idle
    /\ promised = disk
    /\ ops = 0 /\ fails = 0 /\ crashes = 0

(* read_sessions fills a cold cache; an accessor with nothing to do returns. *)
Begin(q) ==
    /\ op = Idle /\ ~Locked /\ ops < MaxOps /\ q.do # "flush"
    /\ ops' = ops + 1
    /\ cache' = Read
    /\ op' = IF NothingToDo(Read, q) THEN Idle
             ELSE [pc |-> "commit", q |-> q, base |-> Read, new |-> Apply(Read, q)]
    /\ UNCHANGED <<disk, pending, deadline, armed, flush, promised, fails, crashes>>

(* Mutant of WriteThrough: the older debounced value stays behind. *)
WriteThroughKeeps ==
    /\ op.pc = "commit" /\ ~Locked /\ ~Debounced(op.base, op.q)
    /\ cache' = NoTable
    /\ op' = [op EXCEPT !.pc = "write"]
    /\ UNCHANGED <<disk, pending, deadline, armed, flush, promised, ops, fails, crashes>>

(* write_sessions: the pending value is discarded, the cache dropped. *)
WriteThrough ==
    /\ op.pc = "commit" /\ ~Locked /\ ~Debounced(op.base, op.q)
    /\ pending' = NoTable /\ deadline' = "none"
    /\ cache' = NoTable
    /\ op' = [op EXCEPT !.pc = "write"]
    /\ UNCHANGED <<disk, armed, flush, promised, ops, fails, crashes>>

(* Mutant of WriteDebounced: no flusher is spawned. *)
WriteDebouncedUnarmed ==
    /\ op.pc = "commit" /\ ~Locked /\ Debounced(op.base, op.q)
    /\ cache' = op.new
    /\ pending' = op.new /\ deadline' = "set"
    /\ promised' = Apply(promised, op.q)
    /\ op' = Idle
    /\ UNCHANGED <<disk, armed, flush, ops, fails, crashes>>

(* write_sessions_debounced: cache now, disk after the quiet window; every  *)
(* submit pushes the deadline out.                                          *)
WriteDebounced ==
    /\ op.pc = "commit" /\ ~Locked /\ Debounced(op.base, op.q)
    /\ cache' = op.new
    /\ pending' = op.new /\ deadline' = "set" /\ armed' = TRUE
    /\ promised' = Apply(promised, op.q)
    /\ op' = Idle
    /\ UNCHANGED <<disk, flush, ops, fails, crashes>>

(* flush_sessions, on quit: the flusher thread stays alive, with nothing to *)
(* write.                                                                   *)
QuitFlush(q) ==
    /\ op = Idle /\ ~Locked /\ q.do = "flush" /\ pending # NoTable
    /\ pending' = NoTable /\ deadline' = "none"
    /\ cache' = NoTable
    /\ op' = [pc |-> "write", q |-> q, base |-> pending, new |-> pending]
    /\ UNCHANGED <<disk, armed, flush, promised, ops, fails, crashes>>

(* atomic_write: the rename makes the new content visible at once. *)
Rename ==
    /\ op.pc = "write"
    /\ disk' = op.new
    /\ op' = [op EXCEPT !.pc = "refresh"]
    /\ UNCHANGED <<cache, pending, deadline, armed, flush, promised, ops, fails, crashes>>

(* The cache is stamped and the accessor returns Ok. *)
Refresh ==
    /\ op.pc = "refresh"
    /\ cache' = op.new
    /\ promised' = Apply(promised, op.q)
    /\ op' = Idle
    /\ UNCHANGED <<disk, pending, deadline, armed, flush, ops, fails, crashes>>

(* Mutant of Fail: the cache is filled with what could not be written. *)
FailFills ==
    /\ op.pc = "write" /\ fails < MaxFails
    /\ fails' = fails + 1
    /\ cache' = op.new
    /\ op' = Idle
    /\ UNCHANGED <<disk, pending, deadline, armed, flush, promised, crashes, ops>>

(* The write fails before the rename: the cache stays cold. *)
Fail ==
    /\ op.pc = "write" /\ fails < MaxFails
    /\ fails' = fails + 1
    /\ op' = Idle
    /\ UNCHANGED <<disk, cache, pending, deadline, armed, flush, promised, ops, crashes>>

-----------------------------------------------------------------------------
(* The flusher thread.                                                      *)

Elapse ==
    /\ deadline = "set"
    /\ deadline' = "passed"
    /\ UNCHANGED <<disk, cache, pending, armed, op, flush, promised, ops, fails, crashes>>

(* Mutant of Take: the slot is written without a look at it. *)
TakeUnguarded ==
    /\ armed /\ deadline # "set" /\ ~Locked
    /\ deadline' = "none"
    /\ pending' = NoTable
    /\ flush' = [pc |-> "write", new |-> pending]
    /\ cache' = NoTable
    /\ UNCHANGED <<disk, armed, op, promised, ops, fails, crashes>>

(* It takes the value under the lock it then holds across the write; with   *)
(* nothing left to write it disarms.                                        *)
Take ==
    /\ armed /\ deadline # "set" /\ ~Locked
    /\ deadline' = "none"
    /\ pending' = NoTable
    /\ IF pending = NoTable
       THEN armed' = FALSE /\ UNCHANGED <<cache, flush>>
       ELSE /\ flush' = [pc |-> "write", new |-> pending]
            /\ cache' = NoTable
            /\ UNCHANGED armed
    /\ UNCHANGED <<disk, op, promised, ops, fails, crashes>>

FlushRename ==
    /\ flush.pc = "write"
    /\ disk' = flush.new
    /\ flush' = [flush EXCEPT !.pc = "refresh"]
    /\ UNCHANGED <<cache, pending, deadline, armed, op, promised, ops, fails, crashes>>

FlushRefresh ==
    /\ flush.pc = "refresh"
    /\ cache' = flush.new
    /\ flush' = Idle /\ armed' = FALSE
    /\ UNCHANGED <<disk, pending, deadline, op, promised, ops, fails, crashes>>

FlushFail ==
    /\ flush.pc = "write" /\ fails < MaxFails
    /\ fails' = fails + 1
    /\ flush' = Idle /\ armed' = FALSE
    /\ UNCHANGED <<disk, cache, pending, deadline, op, promised, ops, crashes>>

-----------------------------------------------------------------------------
(* The process dies; a restart reads what is on disk, and the machines are  *)
(* seeded from it.                                                          *)
Crash ==
    /\ crashes < MaxCrashes
    /\ crashes' = crashes + 1
    /\ cache' = NoTable
    /\ pending' = NoTable /\ deadline' = "none" /\ armed' = FALSE
    /\ op' = Idle /\ flush' = Idle
    /\ promised' = disk
    /\ UNCHANGED <<disk, ops, fails>>

-----------------------------------------------------------------------------
Operation ==
    \/ \E q \in Request : Begin(q) \/ QuitFlush(q)
    \/ WriteThrough \/ WriteDebounced \/ Rename \/ Refresh \/ Fail

Flusher == Elapse \/ Take \/ FlushRename \/ FlushRefresh \/ FlushFail

Next == Operation \/ Flusher \/ Crash

Spec == Init /\ [][Next]_vars

(* Threads that have work go on with it, and a quiet window passes.  That a *)
(* burst of submits ends follows from MaxOps; nothing is assumed of writes, *)
(* which may fail, or of crashes.                                           *)
Fairness ==
    /\ WF_vars(WriteThrough) /\ WF_vars(WriteDebounced)
    /\ WF_vars(Rename) /\ WF_vars(Refresh)
    /\ WF_vars(Elapse) /\ WF_vars(Take)
    /\ WF_vars(FlushRename) /\ WF_vars(FlushRefresh)

FairSpec == Spec /\ Fairness

-----------------------------------------------------------------------------
(* Properties.                                                             *)

(* Tables are tables wherever they are kept; in particular nothing but a    *)
(* table is ever written over sessions.toml.                                *)
TypeOK ==
    /\ disk \in Table /\ promised \in Table
    /\ cache \in Table \cup {NoTable} /\ pending \in Table \cup {NoTable}
    /\ deadline \in {"none", "set", "passed"}
    /\ armed \in BOOLEAN
    /\ op \in {Idle} \cup [pc : {"commit", "write", "refresh"}, q : Request,
                            base : Table, new : Table]
    /\ flush \in {Idle} \cup [pc : {"write", "refresh"}, new : Table]
    /\ ops \in 0..MaxOps /\ fails \in 0..MaxFails /\ crashes \in 0..MaxCrashes

(* What the accessors of raum see: the config_store mutex hides what an     *)
(* operation has not finished, sessions_cache what the flusher has not.     *)
View ==
    CASE op.pc \in {"commit", "write"} -> op.base
      [] op.pc = "refresh" -> op.new
      [] op.pc = "idle" /\ flush.pc = "write" -> flush.new
      [] OTHER -> Read

Ledger == INSTANCE SessionsLedger WITH view <- View

(* The cache, the debounce, the flusher and the two-step write together     *)
(* behave like a table whose disk copy lags in last_state only (store.rs    *)
(* write_sessions, write_sessions_debounced).                               *)
RefinesLedger == Ledger!LedgerSpec

(* The tracked set, the recovery keys and the acknowledgements of every     *)
(* operation that returned Ok are on disk, through failed writes of other   *)
(* operations, flushes and crashes ("that set is the recovery authority").  *)
RecoveryAuthority ==
    op.pc # "refresh" =>
        \A s \in Session :
            /\ (promised[s] = NoRow) <=> (disk[s] = NoRow)
            /\ promised[s] # NoRow => /\ promised[s].key = disk[s].key
                                      /\ promised[s].acked = disk[s].acked

(* An acknowledgement on disk stands beside the state it acknowledged       *)
(* (store.rs: the lost tail is "self-correcting as long as last_state_acked *)
(* on disk never gets *ahead* of it").                                      *)
AckNeverAhead ==
    \A s \in Session :
        disk[s] # NoRow /\ disk[s].acked
        => promised[s] # NoRow /\ promised[s].state = disk[s].state

(* AckNeverAhead as long as every file write succeeds. *)
AckInStep == fails = 0 => AckNeverAhead

(* A debounced transition reaches the disk once the burst is over, unless a *)
(* failed write or a crash takes it back.                                   *)
TouchReachesDisk == View # disk ~> View = disk
=============================================================================
