------------------------- MODULE StateFanout_proofs -------------------------
(***************************************************************************)
(* Theorems about StateFanout, for every set of sessions and hook events,  *)
(* every bus capacity and every bound.                                     *)
(***************************************************************************)
EXTENDS StateFanout, TLAPS

-----------------------------------------------------------------------------
(* A lemma about the operators of AgentMachine.                            *)

(* Every event, reply, abort and tick leaves a machine a machine. *)
LEMMA MachineOps ==
    ASSUME NEW m \in Machine
    PROVE  /\ \A ev : OnHookEvent(m, ev) \in Machine
           /\ OnPermissionReply(m) \in Machine
           /\ OnUserAbort(m) \in Machine
           /\ \A recent \in BOOLEAN : TickSilence(m, recent) \in Machine
<1>1. ASSUME NEW ev PROVE OnHookEvent(m, ev) \in Machine
  <2> DEFINE kind == Classify(m.harness, ev)
             started == IF ev.event = "SessionStart" THEN ArmActivity(m) ELSE m
  <2>1. started \in Machine /\ [ArmActivity(m) EXCEPT !.state = "working"] \in Machine
    BY DEF ArmActivity, Machine, AgentState
  <2>2. kind # NoKind => TargetState(kind) \in AgentState
    BY DEF Classify, ClassifyPayload, TargetState, AgentState, NoKind
  <2> HIDE DEF kind, started
  <2>3. kind # NoKind => ApplyKind(started, kind) \in Machine
    <3> DEFINE armed == kind = "TurnStart"
               target == TargetState(kind)
    <3>1. armed \in BOOLEAN /\ (kind # NoKind => target \in AgentState)
      BY <2>2
    <3>2. ApplyKind(started, kind) = [started EXCEPT !.activity_armed = armed, !.state = target]
      BY DEF ApplyKind
    <3> HIDE DEF armed, target
    <3> QED
      BY <2>1, <3>1, <3>2 DEF Machine
  <2>4. m.silence_only \in BOOLEAN
    BY DEF Machine
  <2>5. OnHookEvent(m, ev) =
          CASE m.silence_only /\ ev.event = "SessionStart" -> started
            [] m.silence_only /\ ev.event # "SessionStart" ->
                   [ArmActivity(m) EXCEPT !.state = "working"]
            [] ~m.silence_only /\ kind = NoKind -> started
            [] OTHER -> ApplyKind(started, kind)
    BY DEF OnHookEvent, started, kind
  <2>6. CASE m.silence_only /\ ev.event = "SessionStart"
    BY <2>1, <2>5, <2>6
  <2>7. CASE m.silence_only /\ ev.event # "SessionStart"
    BY <2>1, <2>5, <2>7
  <2>8. CASE ~m.silence_only /\ kind = NoKind
    BY <2>1, <2>5, <2>8
  <2>9. CASE ~m.silence_only /\ kind # NoKind
    BY <2>3, <2>5, <2>9
  <2> QED
    BY <2>4, <2>6, <2>7, <2>8, <2>9
<1>2. OnPermissionReply(m) \in Machine
  BY DEF OnPermissionReply, ArmActivity, Machine, AgentState
<1>3. OnUserAbort(m) \in Machine
  BY DEF OnUserAbort, Machine, AgentState
<1>4. \A recent \in BOOLEAN : TickSilence(m, recent) \in Machine
  BY DEF TickSilence, Machine, AgentState
<1> QED
  BY <1>1, <1>2, <1>3, <1>4

-----------------------------------------------------------------------------
(* Lemmas about readings and rows.                                         *)

(* A session's reading, and a state entered now, are readings. *)
LEMMA ReadingType ==
    /\ Unset \in Reading
    /\ \A st \in AgentState, n \in 0..MaxChanges : [state |-> st, gen |-> n] \in Reading
    /\ TypeOK => \A s \in Session : Read(s) \in Reading
BY DEF Unset, Reading, Read, TypeOK, Machine

(* What the operations make of a row is a row. *)
LEMMA RowType ==
    ASSUME NEW reading \in Reading, NEW row \in Row, NEW b \in BOOLEAN
    PROVE  /\ NewRow(reading) \in Row
           /\ [row EXCEPT !.acked = b] \in Row
           /\ [row EXCEPT !.state = reading] \in Row
           /\ [row EXCEPT !.state = reading, !.acked = b] \in Row
           /\ row.state \in Reading /\ row.acked \in BOOLEAN
BY DEF NewRow, Row

(* No row is mistaken for a missing one. *)
LEMMA RowIsThere == \A row \in Row : row # NoRow
BY NoRowAssumption

(* Writes of a row keep both tables tables. *)
LEMMA WriteType ==
    ASSUME TypeOK, NEW s \in Session, NEW row \in Row \cup {NoRow},
           WriteRow(s, row) \/ TouchRow(s, row)
    PROVE  /\ rows' \in [Session -> Row \cup {NoRow}]
           /\ saved' \in [Session -> Row \cup {NoRow}]
<1>1. rows \in [Session -> Row \cup {NoRow}] /\ saved \in [Session -> Row \cup {NoRow}]
  BY DEF TypeOK
<1>2. rows' = [rows EXCEPT ![s] = row] /\ (saved' = rows' \/ saved' = saved)
  BY DEF WriteRow, TouchRow
<1>3. rows' \in [Session -> Row \cup {NoRow}]
  BY <1>1, <1>2
<1> QED
  BY <1>1, <1>2, <1>3

(* update_session_last_state keeps both tables tables. *)
LEMMA PersistType ==
    ASSUME TypeOK, NEW s \in Session, NEW reading \in Reading, Persist(s, reading)
    PROVE  /\ rows' \in [Session -> Row \cup {NoRow}]
           /\ saved' \in [Session -> Row \cup {NoRow}]
<1>1. CASE rows[s] = NoRow
  <2>1. NewRow(reading) \in Row
    BY DEF NewRow, Row
  <2>2. WriteRow(s, NewRow(reading))
    BY <1>1 DEF Persist
  <2> QED
    BY <2>1, <2>2, WriteType
<1>2. CASE rows[s] # NoRow
  <2>1. rows[s] \in Row
    BY <1>2 DEF TypeOK
  <2>2. \/ WriteRow(s, [rows[s] EXCEPT !.state = reading, !.acked = FALSE])
        \/ TouchRow(s, [rows[s] EXCEPT !.state = reading])
    BY <1>2 DEF Persist
  <2>3. /\ [rows[s] EXCEPT !.state = reading, !.acked = FALSE] \in Row
        /\ [rows[s] EXCEPT !.state = reading] \in Row
    BY <2>1, RowType
  <2> QED
    BY <2>2, <2>3, WriteType
<1> QED
  BY <1>1, <1>2

(* Taking the head of the bus. *)
LEMMA BusType ==
    ASSUME NEW q \in Seq(Change), q # <<>>
    PROVE  /\ Head(q) \in Change /\ Tail(q) \in Seq(Change)
           /\ Len(Tail(q)) = Len(q) - 1
OBVIOUS

-----------------------------------------------------------------------------
(* Type correctness.  A bridge that is not receiving holds a change, and    *)
(* calls under way are no more than calls made.                             *)
Held ==
    /\ bridge.pc # "recv" => bridge.change \in Change
    /\ \A s \in Session : calls[s] <= sends

FanoutInv == TypeOK /\ Held

\* The types at the start.
LEMMA FanoutInit == Init => FanoutInv
<1> SUFFICES ASSUME Init PROVE FanoutInv
  OBVIOUS
<1>1. machines \in [Session -> Machine]
  BY FanoutAssumption DEF Init, FanoutAssumption, NewMachine, Machine, AgentState
<1>2. /\ bridge \in [pc : {"recv", "persist", "emit"}, change : Change \cup {None}]
      /\ hand \in [OnBus \cup Direct -> Change \cup {None}]
      /\ bus \in Seq(Change) /\ Len(bus) <= BusCap
  BY FanoutAssumption DEF Init, FanoutAssumption
<1>3. snap \in [pc : {"none", "read", "join", "apply"},
                of : [Session -> Reading \cup {NoRow}], acked : SUBSET Session]
  BY DEF Init, Load, NoSnap
<1>4. TypeOK
  BY <1>1, <1>2, <1>3, FanoutAssumption DEF Init, FanoutAssumption, TypeOK
<1>5. Held
  BY DEF Init, Held
<1> QED
  BY <1>4, <1>5 DEF FanoutInv

(* A transition leaves a machine and at most one change in hand. *)
LEMMA TransitionType ==
    ASSUME FanoutInv, NEW p \in OnBus \cup Direct, NEW s \in Session, NEW m \in Machine,
           Transition(p, s, m)
    PROVE  FanoutInv'
<1>1. machines' \in [Session -> Machine]
  BY DEF FanoutInv, TypeOK, Transition
<1>2. /\ entered' \in [Session -> 0..MaxChanges]
      /\ hand' \in [OnBus \cup Direct -> Change \cup {None}]
      /\ clock' \in 0..MaxChanges
  <2>1. CASE m.state = machines[s].state
    BY <2>1 DEF FanoutInv, TypeOK, Transition
  <2>2. CASE m.state # machines[s].state
    <3>1. clock' = clock + 1 /\ clock' \in 0..MaxChanges
      BY <2>2, FanoutAssumption DEF FanoutAssumption, FanoutInv, TypeOK, Transition
    <3> DEFINE change == [s |-> s, to |-> [state |-> m.state, gen |-> clock']]
    <3>2. m.state \in AgentState
      BY DEF Machine
    <3>3. change \in Change
      BY <3>1, <3>2, ReadingType DEF Change
    <3>4. hand' = [hand EXCEPT ![p] = change] /\ entered' = [entered EXCEPT ![s] = clock']
      BY <2>2 DEF Transition
    <3> HIDE DEF change
    <3> QED
      BY <3>1, <3>3, <3>4 DEF FanoutInv, TypeOK
  <2> QED
    BY <2>1, <2>2
<1>3. TypeOK'
  BY <1>1, <1>2 DEF FanoutInv, TypeOK, Transition, store, webview, history
<1>4. Held'
  BY DEF FanoutInv, Held, Transition
<1> QED
  BY <1>3, <1>4 DEF FanoutInv

(* The webview's handler of a state event keeps its sets and its entries. *)
LEMMA DeliverType ==
    ASSUME TypeOK, NEW change \in Change, Deliver(change)
    PROVE  /\ view' \in [Session -> Reading \cup {NoRow}]
           /\ acks' \subseteq Session /\ unsent' \subseteq acks'
           /\ crossed' \subseteq Session
           /\ UNCHANGED <<snap, seen, kept, starved, lapsed>>
BY DEF TypeOK, Deliver, Change

(* A failed write takes the readers back to what the disk says. *)
LEMMA FailType ==
    ASSUME TypeOK, NEW unwritten \in SUBSET Session, WriteFails(unwritten)
    PROVE  /\ rows' \in [Session -> Row \cup {NoRow}] /\ saved' \in [Session -> Row \cup {NoRow}]
           /\ fails' \in 0..MaxFails /\ lapsed' \subseteq Session
<1>1. fails' \in 0..MaxFails
  BY FanoutAssumption DEF TypeOK, WriteFails, FanoutAssumption
<1> QED
  BY <1>1 DEF TypeOK, WriteFails

\* Every step preserves the types.
LEMMA TypeStep == FanoutInv /\ [Next]_vars => FanoutInv'
<1> SUFFICES ASSUME FanoutInv, [Next]_vars PROVE FanoutInv'
  OBVIOUS
<1> USE DEF FanoutInv
<1>1. ASSUME NEW s \in Session, NEW ev \in HookEvents, DrainHook(s, ev) PROVE FanoutInv'
  <2>1. OnHookEvent(machines[s], ev) \in Machine
    BY MachineOps DEF TypeOK
  <2> QED
    BY <1>1, <2>1, TransitionType DEF DrainHook, OnBus
<1>2. ASSUME NEW s \in Session, NEW recent \in BOOLEAN, Tick(s, recent) PROVE FanoutInv'
  <2>1. TickSilence(machines[s], recent) \in Machine
    BY MachineOps DEF TypeOK
  <2> QED
    BY <1>2, <2>1, TransitionType DEF Tick, OnBus
<1>3. ASSUME NEW s \in Session, Abort(s) PROVE FanoutInv'
  <2>1. OnUserAbort(machines[s]) \in Machine
    BY MachineOps DEF TypeOK
  <2> QED
    BY <1>3, <2>1, TransitionType DEF Abort, Direct
<1>4. ASSUME NEW s \in Session, Demote(s) PROVE FanoutInv'
  <2>1. OnPermissionReply(machines[s]) \in Machine
    BY MachineOps DEF TypeOK
  <2> QED
    BY <1>4, <2>1, TransitionType DEF Demote, Direct
<1>5. ASSUME NEW p \in OnBus, Publish(p) PROVE FanoutInv'
  <2>1. hand[p] \in Change
    BY <1>5 DEF Publish, TypeOK
  <2>2. bus' \in Seq(Change) /\ Len(bus') <= BusCap /\ starved' \subseteq Session
    <3>1. CASE Len(bus) < BusCap
      <4>1. bus' = Append(bus, hand[p]) /\ starved' = starved
        BY <1>5, <3>1 DEF Publish, Push
      <4> QED
        BY <2>1, <3>1, <4>1, FanoutAssumption DEF FanoutAssumption, TypeOK
    <3>2. CASE ~(Len(bus) < BusCap)
      <4>1. bus # <<>>
        BY <3>2, FanoutAssumption DEF FanoutAssumption, TypeOK
      <4>2. /\ Head(bus) \in Change /\ Tail(bus) \in Seq(Change)
            /\ Len(Tail(bus)) = Len(bus) - 1
        BY <4>1, BusType DEF TypeOK
      <4>3. /\ bus' = Append(Tail(bus), hand[p])
            /\ starved' = starved \/ starved' = starved \cup {Head(bus).s}
        BY <1>5, <3>2 DEF Publish, Push
      <4>4. Head(bus).s \in Session
        BY <4>2 DEF Change
      <4> QED
        BY <2>1, <4>2, <4>3, <4>4, FanoutAssumption DEF FanoutAssumption, TypeOK
    <3> QED
      BY <3>1, <3>2
  <2> QED
    BY <1>5, <2>2 DEF Publish, TypeOK, Held, backend, store, webview, bounds
<1>6. ASSUME NEW p \in Direct, EmitDirect(p) PROVE FanoutInv'
  <2>1. hand[p] \in Change
    BY <1>6 DEF EmitDirect, TypeOK
  <2>2. hand' \in [OnBus \cup Direct -> Change \cup {None}]
    BY <1>6 DEF EmitDirect, TypeOK
  <2> QED
    BY <1>6, <2>1, <2>2, DeliverType DEF EmitDirect, TypeOK, Held, backend, store, bounds
<1>7. ASSUME BridgeTake PROVE FanoutInv'
  <2>1. Head(bus) \in Change /\ Tail(bus) \in Seq(Change) /\ Len(Tail(bus)) = Len(bus) - 1
    BY <1>7, BusType DEF BridgeTake, TypeOK
  <2>2. bus' \in Seq(Change) /\ Len(bus') <= BusCap
    BY <1>7, <2>1, FanoutAssumption DEF BridgeTake, TypeOK, FanoutAssumption
  <2> QED
    BY <1>7, <2>1, <2>2 DEF BridgeTake, TypeOK, Held, backend, store, webview, bounds, history
<1>8. ASSUME BridgePersist PROVE FanoutInv'
  <2>1. bridge.change \in Change
    BY <1>8 DEF BridgePersist, Held
  <2>2. bridge.change.s \in Session /\ bridge.change.to \in Reading
    BY <2>1 DEF Change
  <2>3. /\ rows' \in [Session -> Row \cup {NoRow}] /\ saved' \in [Session -> Row \cup {NoRow}]
        /\ crossed' \subseteq Session
    BY <1>8, <2>2, PersistType DEF BridgePersist, TypeOK
  <2>4. /\ bridge' \in [pc : {"recv", "persist", "emit"}, change : Change \cup {None}]
        /\ bridge'.change = bridge.change
    BY <1>8 DEF BridgePersist, TypeOK
  <2>5. lapsed' \subseteq Session
    BY <1>8 DEF BridgePersist, TypeOK
  <2> QED
    BY <1>8, <2>1, <2>3, <2>4, <2>5 DEF BridgePersist, TypeOK, Held, backend, webview, bounds
<1>9. ASSUME BridgeEmit PROVE FanoutInv'
  <2>1. bridge.change \in Change
    BY <1>9 DEF BridgeEmit, Held
  <2> QED
    BY <1>9, <2>1, DeliverType DEF BridgeEmit, TypeOK, Held, backend, store, bounds
<1>10. ASSUME Settle PROVE FanoutInv'
  BY <1>10 DEF Settle, TypeOK, Held, backend, webview, bounds, history
<1>11. ASSUME NEW s \in Session, MarkAcknowledged(s) PROVE FanoutInv'
  <2>1. calls' \in [Session -> 0..MaxAcks] /\ sends' \in 0..MaxAcks
        /\ \A q \in Session : calls'[q] <= sends'
    BY <1>11, FanoutAssumption DEF MarkAcknowledged, FanoutAssumption, TypeOK, Held
  <2>2. view[s].gen \in 0..MaxChanges
    BY <1>11, FanoutAssumption DEF MarkAcknowledged, FanoutAssumption, TypeOK, Reading, Unset
  <2>3. seen' \in [Session -> SUBSET (0..MaxChanges)]
    BY <1>11, <2>2 DEF MarkAcknowledged, TypeOK
  <2> QED
    BY <1>11, <2>1, <2>3 DEF MarkAcknowledged, TypeOK, Held, backend, store
<1>12. ASSUME NEW s \in Session, RetryAck(s) PROVE FanoutInv'
  <2>1. calls' \in [Session -> 0..MaxAcks] /\ sends' \in 0..MaxAcks
        /\ \A q \in Session : calls'[q] <= sends'
    BY <1>12, FanoutAssumption DEF RetryAck, FanoutAssumption, TypeOK, Held
  <2> QED
    BY <1>12, <2>1 DEF RetryAck, TypeOK, Held, backend, store, webview, history
<1>13. ASSUME NEW s \in Session, AckState(s) PROVE FanoutInv'
  <2>1. calls' \in [Session -> 0..MaxAcks] /\ \A q \in Session : calls'[q] <= sends
    BY <1>13, FanoutAssumption DEF AckState, FanoutAssumption, TypeOK, Held
  <2>2. rows' \in [Session -> Row \cup {NoRow}] /\ saved' \in [Session -> Row \cup {NoRow}]
    <3>1. CASE UNCHANGED store
      BY <3>1 DEF store, TypeOK
    <3>2. CASE rows[s] # NoRow /\ WriteRow(s, [rows[s] EXCEPT !.acked = TRUE])
      <4>1. rows[s] \in Row
        BY <3>2 DEF TypeOK
      <4>2. TRUE \in BOOLEAN
        OBVIOUS
      <4>3. [rows[s] EXCEPT !.acked = TRUE] \in Row
        BY <4>1, <4>2, RowType, ReadingType
      <4> QED
        BY <3>2, <4>3, WriteType
    <3> QED
      BY <1>13, <3>1, <3>2 DEF AckState, store
  <2>3. unsent' \subseteq acks
    BY <1>13 DEF AckState, TypeOK
  <2>4. kept' \in [Session -> SUBSET (0..MaxChanges)]
    <3> DEFINE known == kept[s] \cup ({rows[s].state.gen} \cap seen[s])
    <3>1. known \in SUBSET (0..MaxChanges)
      BY DEF TypeOK
    <3>2. kept' = kept \/ kept' = [kept EXCEPT ![s] = known]
      BY <1>13 DEF AckState
    <3> HIDE DEF known
    <3> QED
      BY <3>1, <3>2 DEF TypeOK
  <2> QED
    BY <1>13, <2>1, <2>2, <2>3, <2>4 DEF AckState, TypeOK, Held, backend, bounds
<1>14. ASSUME Reload PROVE FanoutInv'
  <2>1. /\ snap' \in [pc : {"none", "read", "join", "apply"},
                      of : [Session -> Reading \cup {NoRow}], acked : SUBSET Session]
        /\ view' \in [Session -> Reading \cup {NoRow}]
        /\ acks' \subseteq Session /\ unsent' \subseteq acks'
    BY <1>14 DEF Reload, Load, NoSnap
  <2>2. reloads' \in 0..MaxReloads
    BY <1>14, FanoutAssumption DEF Reload, FanoutAssumption, TypeOK
  <2> QED
    BY <1>14, <2>1, <2>2 DEF Reload, TypeOK, Held, backend, store, history
<1>15. ASSUME SnapshotRead PROVE FanoutInv'
  <2>1. [s \in Session |-> IF s \in live THEN Read(s) ELSE NoRow]
            \in [Session -> Reading \cup {NoRow}]
    BY ReadingType
  <2> QED
    BY <1>15, <2>1 DEF SnapshotRead, TypeOK, Held, backend, store, bounds, history
<1>16. ASSUME SnapshotJoin PROVE FanoutInv'
  BY <1>16 DEF SnapshotJoin, TypeOK, Held, backend, store, bounds, history
<1>17. ASSUME SnapshotApply PROVE FanoutInv'
  <2>1. Seeded(snap.of, snap.acked) \subseteq Session
    BY DEF Seeded, TypeOK
  <2> QED
    BY <1>17, <2>1 DEF SnapshotApply, NoSnap, TypeOK, Held, backend, store, bounds
<1>18. ASSUME NEW s \in Session, Register(s) PROVE FanoutInv'
  BY <1>18 DEF Register, TypeOK, Held, store, webview, bounds, history
<1>19. ASSUME NEW s \in Session, Track(s) PROVE FanoutInv'
  <2>1. (IF rows[s] = NoRow THEN NewRow(Unset) ELSE rows[s]) \in Row \cup {NoRow}
    BY ReadingType DEF NewRow, Row, TypeOK
  <2>2. rows' \in [Session -> Row \cup {NoRow}] /\ saved' \in [Session -> Row \cup {NoRow}]
    BY <1>19, <2>1, WriteType DEF Track
  <2> QED
    BY <1>19, <2>2 DEF Track, TypeOK, Held, backend, webview, bounds, history
<1>20. ASSUME NEW s \in Session, Kill(s) PROVE FanoutInv'
  <2>1. rows' \in [Session -> Row \cup {NoRow}] /\ saved' \in [Session -> Row \cup {NoRow}]
    BY <1>20, WriteType DEF Kill, TypeOK, store
  <2> QED
    BY <1>20, <2>1 DEF Kill, TypeOK, Held, backend, webview, bounds, history
<1>21. ASSUME NEW s \in Session, RemoveMachine(s) PROVE FanoutInv'
  BY <1>21 DEF RemoveMachine, TypeOK, Held, store, webview, bounds, history
<1>22. ASSUME NEW s \in Session, AnnounceRemoved(s) PROVE FanoutInv'
  BY <1>22 DEF AnnounceRemoved, TypeOK, Held, backend, store, bounds, history
<1>23. ASSUME Restart PROVE FanoutInv'
  <2>1. machines' \in [Session -> Machine]
    <3> DEFINE Fresh(s) == NewMachine(KindOf[s])
               Seed(s) == [Fresh(s) EXCEPT !.state = saved[s].state.state]
    <3>1. \A s \in Session : Fresh(s) \in Machine
      BY FanoutAssumption DEF FanoutAssumption, NewMachine, Machine, AgentState
    <3>2. ASSUME NEW s \in Session, saved[s] # NoRow, saved[s].state # Unset
          PROVE  Seed(s) \in Machine
      <4>1. saved[s] \in Row
        BY <3>2 DEF TypeOK
      <4>2. saved[s].state \in [state : AgentState, gen : 0..MaxChanges]
        BY <3>2, <4>1 DEF Row, Reading
      <4>3. saved[s].state.state \in AgentState
        BY <4>2
      <4> QED
        BY <3>1, <4>3 DEF Machine
    <3>3. machines' = [s \in Session |-> IF s \in live' /\ saved[s].state # Unset
                                         THEN Seed(s) ELSE Fresh(s)]
      BY <1>23 DEF Restart
    <3>4. \A s \in live' : saved[s] # NoRow
      BY <1>23 DEF Restart
    <3> HIDE DEF Fresh, Seed
    <3> QED
      BY <3>1, <3>2, <3>3, <3>4
  <2>2. entered' \in [Session -> 0..MaxChanges]
    <3>1. ASSUME NEW s \in Session, saved[s] # NoRow PROVE saved[s].state.gen \in 0..MaxChanges
      <4>1. saved[s] \in Row
        BY <3>1 DEF TypeOK
      <4>2. saved[s].state \in Reading
        BY <4>1, RowType, ReadingType
      <4>3. \A reading \in Reading : reading.gen \in 0..MaxChanges
        BY FanoutAssumption DEF FanoutAssumption, Reading, Unset
      <4> QED
        BY <4>2, <4>3
    <3>2. 0 \in 0..MaxChanges
      BY FanoutAssumption DEF FanoutAssumption
    <3>3. \A s \in live' : saved[s] # NoRow
      BY <1>23 DEF Restart
    <3> QED
      BY <1>23, <3>1, <3>2, <3>3 DEF Restart
  <2>3. stage' \in [Session -> {"new", "track", "open", "machine", "announce", "gone"}]
    BY <1>23 DEF Restart
  <2>4. /\ hand' \in [OnBus \cup Direct -> Change \cup {None}]
        /\ bridge' \in [pc : {"recv", "persist", "emit"}, change : Change \cup {None}]
        /\ bus' \in Seq(Change) /\ Len(bus') <= BusCap
    BY <1>23, FanoutAssumption DEF Restart, FanoutAssumption
  <2>5. /\ snap' \in [pc : {"none", "read", "join", "apply"},
                      of : [Session -> Reading \cup {NoRow}], acked : SUBSET Session]
        /\ view' \in [Session -> Reading \cup {NoRow}]
        /\ acks' \subseteq Session /\ unsent' \subseteq acks'
    BY <1>23 DEF Restart, Load, NoSnap
  <2>6. /\ calls' \in [Session -> 0..MaxAcks] /\ restarts' \in 0..MaxRestarts
        /\ live' \subseteq Session /\ rows' \in [Session -> Row \cup {NoRow}]
    BY <1>23, FanoutAssumption DEF Restart, FanoutAssumption, TypeOK
  <2>7. TypeOK'
    BY <1>23, <2>1, <2>2, <2>3, <2>4, <2>5, <2>6 DEF Restart, TypeOK, history
  <2>8. Held'
    BY <1>23, FanoutAssumption DEF Restart, FanoutAssumption, Held, TypeOK
  <2> QED
    BY <2>7, <2>8
<1>24. CASE UNCHANGED vars
  BY <1>24 DEF vars, TypeOK, Held, backend, store, webview, bounds, history
<1>25. ASSUME BridgePersistFails PROVE FanoutInv'
  <2>1. bridge.change \in Change /\ {bridge.change.s} \in SUBSET Session
    BY <1>25 DEF BridgePersistFails, Held, Change
  <2>2. /\ bridge' \in [pc : {"recv", "persist", "emit"}, change : Change \cup {None}]
        /\ bridge'.change = bridge.change
    BY <1>25 DEF BridgePersistFails, TypeOK
  <2> QED
    BY <1>25, <2>1, <2>2, FailType DEF BridgePersistFails, TypeOK, Held, backend, webview
<1>26. ASSUME SettleFails PROVE FanoutInv'
  <2>1. {} \in SUBSET Session
    OBVIOUS
  <2> QED
    BY <1>26, <2>1, FailType DEF SettleFails, TypeOK, Held, backend, webview
<1>27. ASSUME NEW s \in Session, AckFails(s) PROVE FanoutInv'
  <2>1. calls' \in [Session -> 0..MaxAcks] /\ \A q \in Session : calls'[q] <= sends
    BY <1>27, FanoutAssumption DEF AckFails, FanoutAssumption, TypeOK, Held
  <2>2. {} \in SUBSET Session
    OBVIOUS
  <2> QED
    BY <1>27, <2>1, <2>2, FailType DEF AckFails, TypeOK, Held, backend, webview
<1>28. ASSUME NEW s \in Session, TrackFails(s) \/ KillFails(s) PROVE FanoutInv'
  <2>1. /\ rows' \in [Session -> Row \cup {NoRow}] /\ saved' \in [Session -> Row \cup {NoRow}]
        /\ fails' \in 0..MaxFails /\ lapsed' \subseteq Session
    <3>1. {s} \in SUBSET Session /\ {} \in SUBSET Session
      OBVIOUS
    <3> QED
      BY <1>28, <3>1, FailType DEF TrackFails, KillFails
  <2>2. stage' \in [Session -> {"new", "track", "open", "machine", "announce", "gone"}]
    <3>1. \/ stage' = [stage EXCEPT ![s] = "open"]
          \/ stage' = [stage EXCEPT ![s] = "machine"]
      BY <1>28 DEF TrackFails, KillFails
    <3> QED
      BY <3>1 DEF TypeOK
  <2>3. UNCHANGED <<backend, hand, bus, bridge, webview, calls, clock, sends, reloads, restarts,
                    seen, kept, crossed, starved>>
    BY <1>28 DEF TrackFails, KillFails
  <2>4. TypeOK'
    BY <2>1, <2>2, <2>3 DEF TypeOK, backend, webview
  <2>5. Held'
    BY <2>3 DEF Held
  <2> QED
    BY <2>4, <2>5
<1> QED
  BY <1>1, <1>2, <1>3, <1>4, <1>5, <1>6, <1>7, <1>8, <1>9, <1>10, <1>11, <1>12, <1>13,
     <1>14, <1>15, <1>16, <1>17, <1>18, <1>19, <1>20, <1>21, <1>22, <1>23, <1>24, <1>25,
     <1>26, <1>27, <1>28 DEF Next

\* The types hold in every behaviour.
LEMMA FanoutInvariant == Spec => []FanoutInv
BY FanoutInit, TypeStep, PTL DEF Spec

(* TypeOK holds for all values of the constants. *)
THEOREM FanoutTypeCorrect == Spec => []TypeOK
<1>1. FanoutInv => TypeOK
  BY DEF FanoutInv
<1> QED
  BY <1>1, FanoutInvariant, PTL

-----------------------------------------------------------------------------
(* The bridge, the acknowledgements, the spawns and the kills implement the *)
(* ledger.  A row written through is a Record, a row changed for readers    *)
(* alone is a Touch.                                                        *)

\* A row of the fan-out is a row of the ledger.
LEMMA LedgerRow == \A row \in Row : row \in Ledger!Row
BY DEF Row, Ledger!Row

\* A row written through is a step of the ledger.
LEMMA WriteIsRecord ==
    ASSUME NEW s \in Session, NEW row \in Row \cup {NoRow}, WriteRow(s, row)
    PROVE  Ledger!LedgerNext
<1>1. rows' = [rows EXCEPT ![s] = row] /\ saved' = rows'
  BY DEF WriteRow
<1>2. row \in Ledger!Row \cup {NoRow}
  BY LedgerRow
<1>3. Ledger!Record(s)
  BY <1>1, <1>2 DEF Ledger!Record
<1> QED
  BY <1>3 DEF Ledger!LedgerNext

\* What persist_last_state does to a row is a step of the ledger.
LEMMA PersistIsRecordOrTouch ==
    ASSUME TypeOK, NEW s \in Session, NEW reading \in Reading, Persist(s, reading)
    PROVE  Ledger!LedgerNext
<1>1. CASE rows[s] = NoRow
  <2>1. NewRow(reading) \in Row
    BY DEF NewRow, Row
  <2>2. WriteRow(s, NewRow(reading))
    BY <1>1 DEF Persist
  <2> QED
    BY <2>1, <2>2, WriteIsRecord
<1>2. CASE rows[s] # NoRow
  <2> DEFINE touched == [rows[s] EXCEPT !.state = reading]
             cleared == [rows[s] EXCEPT !.state = reading, !.acked = FALSE]
  <2>1. rows[s] \in Row
    BY <1>2 DEF TypeOK
  <2>2. touched \in Row /\ cleared \in Row /\ touched.state = reading
    BY <2>1 DEF Row
  <2>3. CASE rows[s].acked
    <3>1. WriteRow(s, cleared)
      BY <1>2, <2>3 DEF Persist
    <3> QED
      BY <2>2, <3>1, WriteIsRecord
  <2>4. CASE ~rows[s].acked
    <3>1. TouchRow(s, touched)
      BY <1>2, <2>4 DEF Persist
    <3>2. touched \in Ledger!Row /\ touched = [rows[s] EXCEPT !.state = touched.state]
      BY <2>2, LedgerRow
    <3>3. rows' = [rows EXCEPT ![s] = touched] /\ UNCHANGED saved
      BY <3>1 DEF TouchRow
    <3> HIDE DEF touched
    <3>4. Ledger!Touch(s)
      BY <1>2, <2>4, <3>2, <3>3 DEF Ledger!Touch
    <3> QED
      BY <3>4 DEF Ledger!LedgerNext
  <2> QED
    BY <2>3, <2>4
<1> QED
  BY <1>1, <1>2

\* Every step is a step of the ledger or leaves its variables alone.
LEMMA FanoutLedgerStep ==
    FanoutInv /\ [Next]_vars => [Ledger!LedgerNext]_<<rows, saved>>
<1> SUFFICES ASSUME FanoutInv, [Next]_vars
             PROVE  Ledger!LedgerNext \/ UNCHANGED store
  BY DEF store
<1> USE DEF FanoutInv
<1>1. ASSUME BridgePersist PROVE Ledger!LedgerNext
  <2>1. bridge.change \in Change
    BY <1>1 DEF BridgePersist, Held
  <2>2. bridge.change.s \in Session /\ bridge.change.to \in Reading
    BY <2>1 DEF Change
  <2> QED
    BY <1>1, <2>2, PersistIsRecordOrTouch DEF BridgePersist
<1>2. ASSUME Settle PROVE Ledger!LedgerNext
  BY <1>2 DEF Settle, Ledger!LedgerNext, Ledger!Settle
<1>3. ASSUME NEW s \in Session, AckState(s) PROVE Ledger!LedgerNext \/ UNCHANGED store
  <2>1. CASE rows[s] # NoRow /\ WriteRow(s, [rows[s] EXCEPT !.acked = TRUE])
    <3>1. rows[s] \in Row
      BY <2>1 DEF TypeOK
    <3>2. [rows[s] EXCEPT !.acked = TRUE] \in Row
      BY <3>1 DEF Row
    <3> QED
      BY <2>1, <3>2, WriteIsRecord
  <2> QED
    BY <1>3, <2>1 DEF AckState
<1>4. ASSUME NEW s \in Session, Track(s) PROVE Ledger!LedgerNext
  <2>1. (IF rows[s] = NoRow THEN NewRow(Unset) ELSE rows[s]) \in Row \cup {NoRow}
    BY ReadingType DEF NewRow, Row, TypeOK
  <2> QED
    BY <1>4, <2>1, WriteIsRecord DEF Track
<1>5. ASSUME NEW s \in Session, Kill(s) PROVE Ledger!LedgerNext \/ UNCHANGED store
  BY <1>5, WriteIsRecord DEF Kill
<1>6. ASSUME Restart PROVE Ledger!LedgerNext
  BY <1>6 DEF Restart, Ledger!LedgerNext, Ledger!FallBack
<1>7. ASSUME NEW s \in Session,
             \/ \E ev \in HookEvents : DrainHook(s, ev)
             \/ \E recent \in BOOLEAN : Tick(s, recent)
             \/ Abort(s) \/ Demote(s)
      PROVE  UNCHANGED store
  BY <1>7 DEF DrainHook, Tick, Abort, Demote, Transition, store
<1>8. ASSUME \/ \E p \in OnBus : Publish(p)
             \/ \E p \in Direct : EmitDirect(p)
             \/ BridgeTake \/ BridgeEmit
      PROVE  UNCHANGED store
  BY <1>8 DEF Publish, EmitDirect, BridgeTake, BridgeEmit, store
<1>9. ASSUME \/ \E s \in Session : MarkAcknowledged(s) \/ RetryAck(s)
             \/ Reload \/ SnapshotRead \/ SnapshotJoin \/ SnapshotApply
      PROVE  UNCHANGED store
  BY <1>9 DEF MarkAcknowledged, RetryAck, Reload, SnapshotRead, SnapshotJoin,
              SnapshotApply, store
<1>10. ASSUME NEW s \in Session, Register(s) \/ RemoveMachine(s) \/ AnnounceRemoved(s)
       PROVE  UNCHANGED store
  BY <1>10 DEF Register, RemoveMachine, AnnounceRemoved, store
<1>11. CASE UNCHANGED vars
  BY <1>11 DEF vars, store
<1>12. ASSUME \/ BridgePersistFails \/ SettleFails
              \/ \E s \in Session : AckFails(s) \/ TrackFails(s) \/ KillFails(s)
       PROVE  Ledger!LedgerNext
  <2>1. rows' = saved /\ saved' = saved
    BY <1>12 DEF BridgePersistFails, SettleFails, AckFails, TrackFails, KillFails, WriteFails
  <2> QED
    BY <2>1 DEF Ledger!LedgerNext, Ledger!FallBack
<1> QED
  BY <1>1, <1>2, <1>3, <1>4, <1>5, <1>6, <1>7, <1>8, <1>9, <1>10, <1>11, <1>12 DEF Next

(* Everything that moves session state around uses sessions.toml as its     *)
(* ledger allows: only the last_state of an unacknowledged row lags on disk. *)
THEOREM FanoutUsesLedger == Spec => RefinesLedger
<1>1. Init => Ledger!LedgerInit
  BY DEF Init, Ledger!LedgerInit, Ledger!Empty
<1> QED
  BY <1>1, FanoutLedgerStep, FanoutInvariant, PTL DEF Spec, RefinesLedger, Ledger!LedgerSpec

-----------------------------------------------------------------------------
(* A change is emitted only over the row that records it, or after a failed *)
(* write.  Between the persist and the emit an acknowledgement may rewrite  *)
(* the row, a spawn may find it, only a kill, which no spawn follows, may   *)
(* remove it, and only a failed write, of this row or of another, undo it.  *)
Killed == {"machine", "announce", "gone"}

Recorded ==
    bridge.pc = "emit" =>
        LET s == bridge.change.s
        IN  \/ s \in lapsed
            \/ IF rows[s] = NoRow THEN stage[s] \in Killed
               ELSE rows[s].state = bridge.change.to

(* Persisting makes it so. *)
LEMMA PersistRecords ==
    ASSUME TypeOK, NEW s \in Session, NEW reading \in Reading, Persist(s, reading)
    PROVE  rows'[s] # NoRow /\ rows'[s].state = reading
<1>1. rows \in [Session -> Row \cup {NoRow}]
  BY DEF TypeOK
<1>2. CASE rows[s] = NoRow
  <2>1. NewRow(reading) \in Row /\ NewRow(reading).state = reading
    BY DEF NewRow, Row
  <2>2. rows' = [rows EXCEPT ![s] = NewRow(reading)]
    BY <1>2 DEF Persist, WriteRow
  <2> QED
    BY <1>1, <2>1, <2>2, RowIsThere
<1>3. CASE rows[s] # NoRow
  <2> DEFINE touched == [rows[s] EXCEPT !.state = reading]
             cleared == [rows[s] EXCEPT !.state = reading, !.acked = FALSE]
  <2>1. rows[s] \in Row
    BY <1>1, <1>3
  <2>2. /\ touched \in Row /\ cleared \in Row
        /\ touched.state = reading /\ cleared.state = reading
    BY <2>1 DEF Row
  <2>3. rows' = [rows EXCEPT ![s] = touched] \/ rows' = [rows EXCEPT ![s] = cleared]
    BY <1>3 DEF Persist, WriteRow, TouchRow
  <2> HIDE DEF touched, cleared
  <2> QED
    BY <1>1, <2>2, <2>3, RowIsThere
<1> QED
  BY <1>2, <1>3

\* Every step keeps on record what the bridge is about to emit, or notes that a write failed.
LEMMA RecordedStep == FanoutInv /\ Recorded /\ [Next]_vars => Recorded'
<1> SUFFICES ASSUME FanoutInv, Recorded, [Next]_vars PROVE Recorded'
  OBVIOUS
<1> USE DEF FanoutInv
<1>0. bridge.pc # "recv" =>
          /\ bridge.change.s \in Session /\ bridge.change.to \in Reading
  BY DEF Held, Change
<1>1. CASE BridgePersist
  <2>1. bridge'.pc = "emit" /\ bridge'.change = bridge.change
    BY <1>1 DEF BridgePersist, TypeOK
  <2>2. /\ rows'[bridge.change.s] # NoRow
        /\ rows'[bridge.change.s].state = bridge.change.to
    BY <1>0, <1>1, PersistRecords DEF BridgePersist
  <2> QED
    BY <2>1, <2>2 DEF Recorded
<1>2. CASE BridgeTake \/ BridgeEmit \/ Restart
  BY <1>2 DEF BridgeTake, BridgeEmit, Restart, Recorded
<1>3. ASSUME NEW s \in Session, AckState(s) PROVE Recorded'
  <2>1. UNCHANGED <<bridge, stage, lapsed>>
    BY <1>3 DEF AckState
  <2>2. CASE rows[s] # NoRow /\ rows' = [rows EXCEPT ![s] = [rows[s] EXCEPT !.acked = TRUE]]
    <3> DEFINE row == [rows[s] EXCEPT !.acked = TRUE]
    <3>1. rows[s] \in Row
      BY <2>2 DEF TypeOK
    <3>2. row \in Row /\ row.state = rows[s].state
      BY <3>1 DEF Row
    <3>3. rows' = [rows EXCEPT ![s] = row] /\ row # NoRow
      BY <2>2, <3>2, RowIsThere
    <3> HIDE DEF row
    <3> QED
      BY <1>0, <2>1, <2>2, <3>2, <3>3 DEF Recorded, TypeOK
  <2> QED
    BY <1>3, <2>1, <2>2 DEF AckState, WriteRow, store, Recorded
<1>4. ASSUME NEW s \in Session, Track(s) PROVE Recorded'
  <2>1. CASE bridge.pc = "emit" /\ bridge.change.s = s
    <3>1. s \in lapsed \/ rows[s] # NoRow
      BY <1>4, <2>1 DEF Track, Recorded, Killed
    <3>2. bridge' = bridge /\ lapsed' = lapsed /\ (rows[s] # NoRow => rows'[s] = rows[s])
      BY <1>4 DEF Track, WriteRow, TypeOK, history
    <3> QED
      BY <2>1, <3>1, <3>2 DEF Recorded
  <2>2. CASE ~(bridge.pc = "emit" /\ bridge.change.s = s)
    BY <1>0, <1>4, <2>2 DEF Track, WriteRow, TypeOK, Recorded, history
  <2> QED
    BY <2>1, <2>2
<1>5. ASSUME NEW s \in Session, Kill(s) PROVE Recorded'
  <2>1. bridge' = bridge /\ stage' = [stage EXCEPT ![s] = "machine"] /\ lapsed' = lapsed
    BY <1>5 DEF Kill, history
  <2>2. rows' = rows \/ rows' = [rows EXCEPT ![s] = NoRow]
    BY <1>5 DEF Kill, WriteRow, store
  <2> QED
    BY <1>0, <2>1, <2>2 DEF Recorded, Killed, TypeOK
<1>6. ASSUME NEW s \in Session, Register(s) \/ RemoveMachine(s) \/ AnnounceRemoved(s)
      PROVE  Recorded'
  <2>1. UNCHANGED <<bridge, rows, lapsed>>
    BY <1>6 DEF Register, RemoveMachine, AnnounceRemoved, store, history
  <2>2. \/ stage[s] = "new" /\ stage' = [stage EXCEPT ![s] = "track"]
        \/ stage' = [stage EXCEPT ![s] = "announce"]
        \/ stage' = [stage EXCEPT ![s] = "gone"]
    BY <1>6 DEF Register, RemoveMachine, AnnounceRemoved
  <2> QED
    BY <1>0, <2>1, <2>2 DEF Recorded, Killed, TypeOK
<1>7. ASSUME NEW s \in Session,
             \/ \E ev \in HookEvents : DrainHook(s, ev)
             \/ \E recent \in BOOLEAN : Tick(s, recent)
             \/ Abort(s) \/ Demote(s)
      PROVE  UNCHANGED <<bridge, rows, stage, lapsed>>
  BY <1>7 DEF DrainHook, Tick, Abort, Demote, Transition, store, history
<1>8. ASSUME \/ \E p \in OnBus : Publish(p)
             \/ \E p \in Direct : EmitDirect(p)
             \/ Settle
             \/ \E s \in Session : MarkAcknowledged(s) \/ RetryAck(s)
             \/ Reload \/ SnapshotRead \/ SnapshotJoin \/ SnapshotApply
      PROVE  UNCHANGED <<bridge, rows, stage, lapsed>>
  BY <1>8 DEF Publish, EmitDirect, Deliver, Settle, MarkAcknowledged, RetryAck, Reload,
              SnapshotRead, SnapshotJoin, SnapshotApply, store, history
<1>9. CASE UNCHANGED vars
  BY <1>9 DEF vars, store, history, Recorded
<1>10. UNCHANGED <<bridge, rows, stage, lapsed>> => Recorded'
  BY DEF Recorded
<1>11. CASE BridgePersistFails
  BY <1>0, <1>11 DEF BridgePersistFails, WriteFails, Recorded, TypeOK
<1>12. CASE \/ SettleFails
            \/ \E s \in Session : AckFails(s) \/ TrackFails(s) \/ KillFails(s)
  <2>1. /\ bridge' = bridge /\ rows' = saved
        /\ lapsed \cup {q \in Session : rows[q] # saved[q]} \subseteq lapsed'
    BY <1>12 DEF SettleFails, AckFails, TrackFails, KillFails, WriteFails
  <2>2. CASE bridge.pc = "emit"
    <3> DEFINE s == bridge.change.s
    <3>1. s \in Session
      BY <1>0, <2>2
    <3>2. CASE s \in lapsed'
      BY <2>1, <3>2 DEF Recorded
    <3>3. CASE s \notin lapsed'
      <4>1. rows'[s] = rows[s] /\ s \notin lapsed
        BY <2>1, <3>1, <3>3
      <4>2. stage[s] \in Killed => stage'[s] \in Killed
        <5>1. \/ stage' = stage
              \/ \E q \in Session : \/ stage[q] = "track" /\ stage' = [stage EXCEPT ![q] = "open"]
                                   \/ stage' = [stage EXCEPT ![q] = "machine"]
          BY <1>12 DEF SettleFails, AckFails, TrackFails, KillFails
        <5>2. stage \in [Session -> {"new", "track", "open", "machine", "announce", "gone"}]
          BY DEF TypeOK
        <5> HIDE DEF s
        <5> QED
          BY <3>1, <5>1, <5>2 DEF Killed
      <4> QED
        BY <2>1, <2>2, <4>1, <4>2 DEF Recorded
    <3> QED
      BY <3>2, <3>3
  <2> QED
    BY <2>1, <2>2 DEF Recorded
<1> QED
  BY <1>1, <1>2, <1>3, <1>4, <1>5, <1>6, <1>7, <1>8, <1>9, <1>10, <1>11, <1>12 DEF Next

(* A change reaches the webview over the row that records it, whatever the  *)
(* acknowledgements, spawns and kills do meanwhile, unless a write failed   *)
(* after which it was not written again; or over no row, and then only      *)
(* because the session was killed.                                          *)
THEOREM PersistsBeforeEmitting == Spec => PersistBeforeEmit /\ []Recorded
<1>1. Init => Recorded
  BY DEF Init, Recorded
<1> DEFINE Safe == \A s \in Session :
             bridge.pc = "emit" /\ bridge'.pc = "recv" /\ restarts' = restarts
                 /\ bridge.change.s = s
             => \/ s \in lapsed
                \/ rows[s] # NoRow /\ rows[s].state = bridge.change.to
                \/ rows[s] = NoRow /\ stage[s] \in {"machine", "announce", "gone"}
<1>2. Recorded /\ [Next]_vars => [Safe]_vars
  BY DEF Recorded, Killed
<1>3. Spec => []Recorded
  BY <1>1, RecordedStep, FanoutInvariant, PTL DEF Spec
<1>4. Spec => [][Safe]_vars
  BY <1>2, <1>3, PTL DEF Spec
<1> QED
  BY <1>3, <1>4, PTL DEF PersistBeforeEmit

-----------------------------------------------------------------------------
(* What a step does to the readings: nothing (a call sent again, a hook     *)
(* event that leaves the state), a transition, or one of the named actions. *)
Turn == [state : AgentState, gen : 1..MaxChanges]

Born == [state |-> "idle", gen |-> 0]

Calm ==
    /\ \A q \in Session : Read(q)' = Read(q)
    /\ UNCHANGED <<entered, live, hand, bus, bridge, rows, saved, view, acks, unsent, snap,
                   stage, clock, seen, kept, crossed, starved>>

Turns(p, s, r) ==
    /\ s \in live /\ hand[p] = None
    /\ r.gen = clock + 1 /\ clock' = clock + 1
    /\ Read(s)' = r /\ \A q \in Session \ {s} : Read(q)' = Read(q)
    /\ entered' = [entered EXCEPT ![s] = r.gen]
    /\ hand' = [hand EXCEPT ![p] = [s |-> s, to |-> r]]
    /\ UNCHANGED <<live, bus, bridge, rows, saved, view, acks, unsent, snap,
                   stage, seen, kept, crossed, starved>>

TurnStep == \E p \in OnBus \cup Direct, s \in Session, r \in Turn : Turns(p, s, r)

(* A failed write: the readers are back at the disk; the step it was part   *)
(* of goes on, the bridge's to its emit, a spawn to its end, a kill too.    *)
Lapses ==
    /\ rows' = saved /\ saved' = saved
    /\ \A q \in Session : Read(q)' = Read(q)
    /\ \/ stage' = stage
       \/ \E s \in Session : stage[s] = "track" /\ stage' = [stage EXCEPT ![s] = "open"]
       \/ \E s \in Session : stage[s] = "open" /\ stage' = [stage EXCEPT ![s] = "machine"]
    /\ \/ bridge' = bridge
       \/ bridge.pc = "persist" /\ bridge'.pc = "emit" /\ bridge'.change = bridge.change
    /\ UNCHANGED <<entered, live, hand, bus, view, acks, unsent, snap, clock, seen, kept,
                   crossed, starved>>

LEMMA FailuresLapse ==
    ASSUME FanoutInv,
           \/ BridgePersistFails \/ SettleFails
           \/ \E s \in Session : AckFails(s) \/ TrackFails(s) \/ KillFails(s)
    PROVE  Lapses
<1>1. \A q \in Session : Read(q)' = Read(q)
  BY DEF BridgePersistFails, SettleFails, AckFails, TrackFails, KillFails, Read, backend
<1>2. rows' = saved /\ saved' = saved
  BY DEF BridgePersistFails, SettleFails, AckFails, TrackFails, KillFails, WriteFails
<1>3. UNCHANGED <<entered, live, hand, bus, view, acks, unsent, snap, clock, seen, kept,
                  crossed, starved>>
  BY DEF BridgePersistFails, SettleFails, AckFails, TrackFails, KillFails, backend, webview
<1>4. \/ bridge' = bridge
      \/ bridge.pc = "persist" /\ bridge'.pc = "emit" /\ bridge'.change = bridge.change
  BY DEF BridgePersistFails, SettleFails, AckFails, TrackFails, KillFails, FanoutInv, TypeOK
<1>5. \/ stage' = stage
      \/ \E s \in Session : stage[s] = "track" /\ stage' = [stage EXCEPT ![s] = "open"]
      \/ \E s \in Session : stage[s] = "open" /\ stage' = [stage EXCEPT ![s] = "machine"]
  BY DEF BridgePersistFails, SettleFails, AckFails, TrackFails, KillFails
<1> QED
  BY <1>1, <1>2, <1>3, <1>4, <1>5 DEF Lapses

(* A transition turns its session, or leaves every reading as it was.       *)
LEMMA TransitionTurns ==
    ASSUME FanoutInv, NEW p \in OnBus \cup Direct, NEW s \in Session, NEW m \in Machine,
           Transition(p, s, m)
    PROVE  Calm \/ TurnStep
<1>1. /\ machines \in [Session -> Machine] /\ entered \in [Session -> 0..MaxChanges]
      /\ machines' = [machines EXCEPT ![s] = m]
      /\ clock \in 0..MaxChanges
  BY DEF FanoutInv, TypeOK, Transition
<1>2. CASE m.state = machines[s].state
  <2>1. \A q \in Session : Read(q)' = Read(q)
    BY <1>1, <1>2 DEF Transition, Read
  <2> QED
    BY <1>2, <2>1 DEF Transition, Calm, store, webview, history
<1>3. CASE m.state # machines[s].state
  <2> DEFINE r == [state |-> m.state, gen |-> clock + 1]
  <2>1. /\ clock < MaxChanges /\ clock' = clock + 1
        /\ entered' = [entered EXCEPT ![s] = clock + 1]
        /\ hand' = [hand EXCEPT ![p] = [s |-> s, to |-> r]]
    BY <1>3 DEF Transition
  <2>2. r \in Turn /\ r.gen = clock + 1
    BY <1>1, <2>1, FanoutAssumption DEF Turn, Machine, FanoutAssumption
  <2>3. Read(s)' = r /\ \A q \in Session \ {s} : Read(q)' = Read(q)
    BY <1>1, <2>1 DEF Read
  <2> HIDE DEF r
  <2>4. Turns(p, s, r)
    BY <2>1, <2>2, <2>3 DEF Turns, Transition, store, webview, history
  <2> QED
    BY <2>2, <2>4 DEF TurnStep
<1> QED
  BY <1>2, <1>3

(* The steps of the fan-out, transitions taken together. *)
LEMMA NextCases ==
    ASSUME FanoutInv, [Next]_vars
    PROVE  \/ Calm \/ TurnStep \/ Lapses
           \/ \E p \in OnBus : Publish(p)
           \/ \E p \in Direct : EmitDirect(p)
           \/ BridgeTake \/ BridgePersist \/ BridgeEmit \/ Settle
           \/ \E s \in Session : MarkAcknowledged(s) \/ AckState(s)
           \/ Reload \/ SnapshotRead \/ SnapshotJoin \/ SnapshotApply
           \/ \E s \in Session : Register(s) \/ Track(s) \/ Kill(s) \/ RemoveMachine(s)
                                 \/ AnnounceRemoved(s)
           \/ Restart
<1> USE DEF FanoutInv
<1>1. ASSUME NEW s \in Session, NEW ev \in HookEvents, DrainHook(s, ev)
      PROVE  Calm \/ TurnStep
  <2>1. OnHookEvent(machines[s], ev) \in Machine
    BY MachineOps DEF TypeOK
  <2> QED
    BY <1>1, <2>1, TransitionTurns DEF DrainHook, OnBus
<1>2. ASSUME NEW s \in Session, NEW recent \in BOOLEAN, Tick(s, recent)
      PROVE  Calm \/ TurnStep
  <2>1. TickSilence(machines[s], recent) \in Machine
    BY MachineOps DEF TypeOK
  <2> QED
    BY <1>2, <2>1, TransitionTurns DEF Tick, OnBus
<1>3. ASSUME NEW s \in Session, Abort(s) \/ Demote(s) PROVE Calm \/ TurnStep
  <2>1. OnUserAbort(machines[s]) \in Machine /\ OnPermissionReply(machines[s]) \in Machine
    BY MachineOps DEF TypeOK
  <2> QED
    BY <1>3, <2>1, TransitionTurns DEF Abort, Demote, Direct
<1>4. ASSUME NEW s \in Session, RetryAck(s) PROVE Calm
  BY <1>4 DEF RetryAck, Calm, Read, backend, store, webview, history
<1>5. CASE UNCHANGED vars
  BY <1>5 DEF vars, Calm, Read, backend, store, webview, bounds, history
<1> QED
  BY <1>1, <1>2, <1>3, <1>4, <1>5, FailuresLapse DEF Next

-----------------------------------------------------------------------------
(* Only numbered turns travel; what is shown or registered is a turn or the *)
(* state a machine is born in, what is recorded a turn or nothing yet.      *)
Sorted ==
    /\ \A p \in OnBus \cup Direct : hand[p] # None => hand[p].to \in Turn
    /\ \A i \in DOMAIN bus : bus[i].to \in Turn
    /\ bridge.pc # "recv" => bridge.change.to \in Turn
    /\ \A s \in Session :
          /\ view[s] \in Turn \cup {Born, NoRow}
          /\ snap.of[s] \in Turn \cup {Born, NoRow}
          /\ Read(s) \in Turn \cup {Born}
          /\ rows[s] # NoRow => rows[s].state \in Turn \cup {Unset}
          /\ saved[s] # NoRow => saved[s].state \in Turn \cup {Unset}

(* The state of a persisted row. *)
LEMMA PersistState ==
    ASSUME TypeOK, NEW s \in Session, NEW reading \in Reading, Persist(s, reading)
    PROVE  /\ rows' \in [Session -> Row \cup {NoRow}]
           /\ rows'[s] # NoRow /\ rows'[s].state = reading
           /\ rows'[s].acked = FALSE
           /\ \A q \in Session \ {s} : rows'[q] = rows[q]
           /\ saved' = rows' \/ (saved' = saved /\ (rows[s] # NoRow /\ ~rows[s].acked))
<1>1. rows \in [Session -> Row \cup {NoRow}]
  BY DEF TypeOK
<1>2. CASE rows[s] = NoRow
  <2>1. NewRow(reading).acked = FALSE
    BY DEF NewRow
  <2>2. rows' = [rows EXCEPT ![s] = NewRow(reading)] /\ saved' = rows'
    BY <1>2 DEF Persist, WriteRow
  <2> QED
    BY <1>1, <2>1, <2>2, PersistRecords, PersistType
<1>3. CASE rows[s] # NoRow
  <2> DEFINE touched == [rows[s] EXCEPT !.state = reading]
             cleared == [rows[s] EXCEPT !.state = reading, !.acked = FALSE]
  <2>1. rows[s] \in Row
    BY <1>1, <1>3
  <2>2. cleared.acked = FALSE /\ touched.acked = rows[s].acked
    BY <2>1 DEF Row
  <2>3. \/ rows' = [rows EXCEPT ![s] = cleared] /\ saved' = rows'
        \/ rows' = [rows EXCEPT ![s] = touched] /\ saved' = saved /\ ~rows[s].acked
    BY <1>3 DEF Persist, WriteRow, TouchRow
  <2>4. rows[s].acked \in BOOLEAN
    BY <2>1 DEF Row
  <2> HIDE DEF touched, cleared
  <2> QED
    BY <1>1, <1>3, <2>2, <2>3, <2>4, PersistRecords, PersistType
<1> QED
  BY <1>2, <1>3

(* Where the bridge's change and the bus stand. *)
LEMMA BridgeHolds ==
    ASSUME FanoutInv
    PROVE  /\ bridge.pc # "recv" => /\ bridge.change.s \in Session
                                    /\ bridge.change.to \in Reading
           /\ \A i \in DOMAIN bus : bus[i].s \in Session /\ bus[i].to \in Reading
           /\ \A p \in OnBus \cup Direct :
                 hand[p] # None => hand[p].s \in Session /\ hand[p].to \in Reading
           /\ DOMAIN bus = 1..Len(bus) /\ Len(bus) \in Nat
<1>1. \A c \in Change : c.s \in Session /\ c.to \in Reading
  BY DEF Change
<1>2. bus \in Seq(Change) /\ hand \in [OnBus \cup Direct -> Change \cup {None}]
  BY DEF FanoutInv, TypeOK
<1>3. bridge.pc # "recv" => bridge.change \in Change
  BY DEF FanoutInv, Held
<1>4. DOMAIN bus = 1..Len(bus) /\ Len(bus) \in Nat /\ \A i \in DOMAIN bus : bus[i] \in Change
  BY <1>2
<1>5. \A p \in OnBus \cup Direct : hand[p] # None => hand[p] \in Change
  BY <1>2
<1> QED
  BY <1>1, <1>3, <1>4, <1>5

(* Publishing lengthens the bus by the change in hand, or shifts it. *)
LEMMA PushBus ==
    ASSUME FanoutInv, NEW p \in OnBus, Publish(p)
    PROVE  /\ hand[p] \in Change /\ hand[p] # None
           /\ hand' = [hand EXCEPT ![p] = None]
           /\ \/ /\ Len(bus') = Len(bus) + 1 /\ bus'[Len(bus')] = hand[p]
                 /\ \A i \in 1..Len(bus) : bus'[i] = bus[i]
                 /\ starved' = starved
              \/ /\ Len(bus') = Len(bus) /\ bus'[Len(bus')] = hand[p] /\ Len(bus) > 0
                 /\ \A i \in 1..(Len(bus) - 1) : bus'[i] = bus[i + 1]
                 /\ \/ starved' = starved /\ \E i \in DOMAIN bus' :
                            bus'[i].s = bus[1].s /\ Older(bus[1].to, bus'[i].to)
                    \/ starved' = starved \cup {bus[1].s}
           /\ DOMAIN bus' = 1..Len(bus') /\ Len(bus') \in Nat \ {0}
           /\ \A q \in Session : Read(q)' = Read(q)
           /\ UNCHANGED <<entered, live, bridge, rows, saved, view, acks, unsent, snap, stage,
                          clock, seen, kept, crossed>>
<1>1. bus \in Seq(Change) /\ hand \in [OnBus \cup Direct -> Change \cup {None}]
  BY DEF FanoutInv, TypeOK
<1>2. hand[p] \in Change /\ hand[p] # None /\ hand' = [hand EXCEPT ![p] = None]
  BY <1>1 DEF Publish
<1>3. UNCHANGED <<entered, live, bridge, rows, saved, view, acks, unsent, snap, stage, clock,
                  seen, kept, crossed>> /\ \A q \in Session : Read(q)' = Read(q)
  BY DEF Publish, Read, backend, store, webview, bounds
<1>4. CASE Len(bus) < BusCap
  <2>1. bus' = Append(bus, hand[p]) /\ starved' = starved
    BY <1>4 DEF Publish, Push
  <2> QED
    BY <1>1, <1>2, <1>3, <2>1
<1>5. CASE ~(Len(bus) < BusCap)
  <2>1. bus' = Append(Tail(bus), hand[p])
    BY <1>5 DEF Publish, Push
  <2>2. Len(bus) > 0 /\ Head(bus) = bus[1]
    BY <1>1, <1>5, FanoutAssumption DEF FanoutAssumption
  <2>3. \/ starved' = starved /\ \E i \in DOMAIN bus' :
               bus'[i].s = bus[1].s /\ Older(bus[1].to, bus'[i].to)
        \/ starved' = starved \cup {bus[1].s}
    BY <1>5, <2>2 DEF Publish, Push
  <2>4. /\ Len(bus') = Len(bus) /\ bus'[Len(bus')] = hand[p]
        /\ \A i \in 1..(Len(bus) - 1) : bus'[i] = bus[i + 1]
        /\ DOMAIN bus' = 1..Len(bus') /\ Len(bus') \in Nat \ {0}
    <3>1. Tail(bus) \in Seq(Change) /\ Len(Tail(bus)) = Len(bus) - 1
      BY <1>1, <2>2
    <3>2. \A i \in 1..(Len(bus) - 1) : Tail(bus)[i] = bus[i + 1]
      BY <1>1, <2>2
    <3> QED
      BY <1>1, <1>2, <2>1, <2>2, <3>1, <3>2
  <2> QED
    BY <1>2, <1>3, <2>2, <2>3, <2>4
<1> QED
  BY <1>4, <1>5

(* What is on the bus after a publication was there before, or is the       *)
(* change just published.                                                   *)
LEMMA PushedFrom ==
    ASSUME FanoutInv, NEW p \in OnBus, Publish(p)
    PROVE  \A i \in DOMAIN bus' : bus'[i] = hand[p] \/ \E j \in DOMAIN bus : bus'[i] = bus[j]
<1> DEFINE n == Len(bus)
           m == Len(bus')
<1>1. /\ DOMAIN bus = 1..n /\ n \in Nat
      /\ DOMAIN bus' = 1..m /\ m \in Nat \ {0} /\ bus'[m] = hand[p]
      /\ \/ m = n + 1 /\ \A i \in 1..n : bus'[i] = bus[i]
         \/ m = n /\ \A i \in 1..(n - 1) : bus'[i] = bus[i + 1]
  BY PushBus, BridgeHolds
<1> HIDE DEF n, m
<1> TAKE i \in DOMAIN bus'
<1>2. i \in 1..m
  BY <1>1
<1>3. CASE i = m
  BY <1>1, <1>3
<1>4. CASE i # m /\ m = n + 1 /\ \A k \in 1..n : bus'[k] = bus[k]
  <2>1. i \in 1..n
    BY <1>1, <1>2, <1>4
  <2> QED
    BY <1>1, <1>4, <2>1
<1>5. CASE i # m /\ m = n /\ \A k \in 1..(n - 1) : bus'[k] = bus[k + 1]
  <2>1. i \in 1..(n - 1) /\ i + 1 \in 1..n
    BY <1>1, <1>2, <1>5
  <2> QED
    BY <1>1, <1>5, <2>1
<1> QED
  BY <1>1, <1>3, <1>4, <1>5

(* The bridge takes the head of the bus. *)
LEMMA TakeBus ==
    ASSUME FanoutInv, BridgeTake
    PROVE  /\ bridge.pc = "recv" /\ bridge' = [pc |-> "persist", change |-> bus[1]]
           /\ Len(bus) > 0 /\ Len(bus') = Len(bus) - 1 /\ Len(bus') \in Nat
           /\ \A i \in 1..Len(bus') : bus'[i] = bus[i + 1]
           /\ DOMAIN bus' = 1..Len(bus')
           /\ \A q \in Session : Read(q)' = Read(q)
           /\ UNCHANGED <<entered, live, hand, rows, saved, view, acks, unsent, snap, stage,
                          clock, seen, kept, crossed, starved>>
<1>1. bus \in Seq(Change)
  BY DEF FanoutInv, TypeOK
<1>2. /\ bridge.pc = "recv" /\ bus # <<>> /\ bus' = Tail(bus)
      /\ bridge' = [pc |-> "persist", change |-> Head(bus)]
  BY DEF BridgeTake
<1>3. Len(bus) > 0 /\ Head(bus) = bus[1] /\ Len(bus') = Len(bus) - 1
      /\ bus' \in Seq(Change) /\ \A i \in 1..Len(bus') : bus'[i] = bus[i + 1]
  BY <1>1, <1>2
<1>4. UNCHANGED <<entered, live, hand, rows, saved, view, acks, unsent, snap, stage, clock,
                  seen, kept, crossed, starved>> /\ \A q \in Session : Read(q)' = Read(q)
  BY DEF BridgeTake, Read, backend, store, webview, bounds, history
<1> QED
  BY <1>2, <1>3, <1>4

(* What the other steps leave alone, and what they do to the webview. *)
LEMMA DeliverShows ==
    ASSUME FanoutInv, NEW change \in Change, Deliver(change)
    PROVE  /\ view'[change.s] = change.to
           /\ \A q \in Session \ {change.s} : view'[q] = view[q]
           /\ \A q \in Session \ {change.s} : q \in acks => q \in acks'
           /\ acks' \subseteq acks
           /\ change.to.state \notin {"working", "idle"} => acks' = acks
           /\ crossed \subseteq crossed'
           /\ Older(change.to, view[change.s]) => change.s \in crossed'
           /\ UNCHANGED <<snap, seen, kept, starved>>
BY DEF FanoutInv, TypeOK, Deliver, Change

\* What the bridge's emit changes, and what it leaves.
LEMMA EmitsChange ==
    ASSUME FanoutInv, BridgeEmit
    PROVE  /\ bridge.pc = "emit" /\ bridge.change \in Change /\ Deliver(bridge.change)
           /\ bridge'.pc = "recv"
           /\ \A q \in Session : Read(q)' = Read(q)
           /\ UNCHANGED <<entered, live, hand, bus, rows, saved, stage, clock>>
BY DEF FanoutInv, Held, BridgeEmit, Read, backend, store, bounds

\* What an emit past the bus changes, and what it leaves.
LEMMA EmitsDirect ==
    ASSUME FanoutInv, NEW p \in Direct, EmitDirect(p)
    PROVE  /\ hand[p] # None /\ hand[p] \in Change /\ Deliver(hand[p])
           /\ hand' = [hand EXCEPT ![p] = None]
           /\ \A q \in Session : Read(q)' = Read(q)
           /\ UNCHANGED <<entered, live, bridge, bus, rows, saved, stage, clock>>
BY DEF FanoutInv, TypeOK, EmitDirect, Read, backend, store, bounds

\* What the bridge's persist changes, and what it leaves.
LEMMA PersistsChange ==
    ASSUME FanoutInv, BridgePersist
    PROVE  /\ bridge.pc = "persist" /\ bridge.change \in Change
           /\ bridge'.pc = "emit" /\ bridge'.change = bridge.change
           /\ rows'[bridge.change.s] # NoRow /\ rows'[bridge.change.s].state = bridge.change.to
           /\ rows'[bridge.change.s].acked = FALSE
           /\ \A q \in Session \ {bridge.change.s} : rows'[q] = rows[q]
           /\ \/ saved' = rows'
              \/ /\ saved' = saved
                 /\ rows[bridge.change.s] # NoRow /\ ~rows[bridge.change.s].acked
           /\ crossed \subseteq crossed'
           /\ rows[bridge.change.s] # NoRow /\ Older(bridge.change.to, rows[bridge.change.s].state)
                => bridge.change.s \in crossed'
           /\ \A q \in Session : Read(q)' = Read(q)
           /\ UNCHANGED <<entered, live, hand, bus, view, acks, unsent, snap, stage, clock,
                          seen, kept, starved>>
<1>1. bridge.pc = "persist" /\ bridge.change \in Change
  BY DEF FanoutInv, Held, BridgePersist
<1>2. bridge.change.s \in Session /\ bridge.change.to \in Reading
  BY <1>1 DEF Change
<1>3. bridge'.pc = "emit" /\ bridge'.change = bridge.change
  BY DEF FanoutInv, TypeOK, BridgePersist
<1>4. Persist(bridge.change.s, bridge.change.to)
  BY DEF BridgePersist
<1>5. \A q \in Session : Read(q)' = Read(q)
  BY DEF BridgePersist, Read, backend
<1>6. /\ crossed \subseteq crossed'
      /\ rows[bridge.change.s] # NoRow /\ Older(bridge.change.to, rows[bridge.change.s].state)
           => bridge.change.s \in crossed'
      /\ UNCHANGED <<entered, live, hand, bus, view, acks, unsent, snap, stage, clock,
                     seen, kept, starved>>
  BY DEF BridgePersist, backend, webview, bounds
<1> QED
  BY <1>1, <1>2, <1>3, <1>4, <1>5, <1>6, PersistState DEF FanoutInv

(* An answered acknowledgement flags the row it finds, on disk too. *)
LEMMA AckFlags ==
    ASSUME FanoutInv, NEW s \in Session, AckState(s)
    PROVE  /\ \/ rows' = rows /\ saved' = saved
              \/ /\ rows[s] # NoRow /\ ~rows[s].acked /\ saved' = rows'
                 /\ rows'[s] # NoRow /\ rows'[s].acked /\ rows'[s].state = rows[s].state
                 /\ \A q \in Session \ {s} : rows'[q] = rows[q]
           /\ \/ kept' = kept
              \/ /\ s \in unsent /\ rows[s] # NoRow /\ view[s] = rows[s].state
                 /\ kept' = [kept EXCEPT ![s] = @ \cup ({rows[s].state.gen} \cap seen[s])]
                 /\ rows'[s] # NoRow /\ rows'[s].acked /\ rows'[s].state = rows[s].state
           /\ \A q \in Session : Read(q)' = Read(q)
           /\ UNCHANGED <<entered, live, hand, bus, bridge, view, acks, snap, stage, clock, seen,
                          crossed, starved>>
<1>1. \A q \in Session : Read(q)' = Read(q)
  BY DEF AckState, Read, backend
<1>2. UNCHANGED <<entered, live, hand, bus, bridge, view, acks, snap, stage, clock, seen,
                  crossed, starved>>
  BY DEF AckState, backend, bounds
<1> DEFINE row == [rows[s] EXCEPT !.acked = TRUE]
<1>3. CASE rows[s] # NoRow /\ ~rows[s].acked
  <2>1. rows[s] \in Row
    BY <1>3 DEF FanoutInv, TypeOK
  <2>2. row \in Row /\ row.acked /\ row.state = rows[s].state /\ row # NoRow
    BY <2>1, RowIsThere DEF Row
  <2>3. /\ rows' = [rows EXCEPT ![s] = row] /\ saved' = rows'
        /\ \/ kept' = kept
           \/ /\ s \in unsent /\ rows[s] # NoRow /\ view[s] = rows[s].state
              /\ kept' = [kept EXCEPT ![s] = @ \cup ({rows[s].state.gen} \cap seen[s])]
    BY <1>3 DEF AckState, WriteRow, store
  <2> HIDE DEF row
  <2>4. rows \in [Session -> Row \cup {NoRow}]
    BY DEF FanoutInv, TypeOK
  <2> QED
    BY <1>1, <1>2, <1>3, <2>2, <2>3, <2>4
<1>4. CASE rows[s] = NoRow
  BY <1>1, <1>2, <1>4 DEF AckState, store
<1>5. CASE rows[s] # NoRow /\ rows[s].acked
  <2>1. /\ rows' = rows /\ saved' = saved
        /\ \/ kept' = kept
           \/ /\ s \in unsent /\ rows[s] # NoRow /\ view[s] = rows[s].state
              /\ kept' = [kept EXCEPT ![s] = @ \cup ({rows[s].state.gen} \cap seen[s])]
    BY <1>5 DEF AckState, store
  <2> QED
    BY <1>1, <1>2, <1>5, <2>1
<1> QED
  BY <1>3, <1>4, <1>5

(* The user's own step, a page load and the snapshot's three. *)
LEMMA PageSteps ==
    ASSUME FanoutInv
    PROVE  /\ \A s \in Session : MarkAcknowledged(s) =>
                 /\ view[s] # NoRow /\ view[s].state \in Done
                 /\ acks' = acks \cup {s}
                 /\ seen' = [seen EXCEPT ![s] = @ \cup {view[s].gen}]
                 /\ view' = view /\ snap' = snap
           /\ Reload =>
                 /\ view' = [s \in Session |-> NoRow] /\ acks' = {} /\ snap' = Load
                 /\ seen' = seen
           /\ SnapshotRead =>
                 /\ snap.pc = "read" /\ snap'.pc = "join"
                 /\ snap'.of = [s \in Session |-> IF s \in live THEN Read(s) ELSE NoRow]
                 /\ view' = view /\ acks' = acks /\ seen' = seen
           /\ SnapshotJoin =>
                 /\ snap.pc = "join" /\ snap'.pc = "apply" /\ snap'.of = snap.of
                 /\ snap'.acked = {s \in Session : rows[s] # NoRow /\ rows[s].acked}
                 /\ view' = view /\ acks' = acks /\ seen' = seen
           /\ SnapshotApply =>
                 /\ snap.pc = "apply" /\ snap' = NoSnap
                 /\ view' = snap.of /\ acks' = acks \cup Seeded(snap.of, snap.acked)
                 /\ crossed' = crossed \cup {s \in Session : Older(snap.of[s], view[s])}
                 /\ seen' = seen
           /\ Reload \/ SnapshotRead \/ SnapshotJoin \/ SnapshotApply
                 \/ (\E s \in Session : MarkAcknowledged(s)) =>
                 /\ \A q \in Session : Read(q)' = Read(q)
                 /\ UNCHANGED <<entered, live, hand, bus, bridge, rows, saved, stage, clock,
                                kept, starved>>
                 /\ SnapshotApply \/ crossed' = crossed
<1>1. snap \in [pc : {"none", "read", "join", "apply"},
                of : [Session -> Reading \cup {NoRow}], acked : SUBSET Session]
  BY DEF FanoutInv, TypeOK
<1>2. ASSUME Reload \/ SnapshotRead \/ SnapshotJoin \/ SnapshotApply
                 \/ (\E s \in Session : MarkAcknowledged(s))
      PROVE  /\ \A q \in Session : Read(q)' = Read(q)
             /\ UNCHANGED <<entered, live, hand, bus, bridge, rows, saved, stage, clock,
                            kept, starved>>
             /\ SnapshotApply \/ crossed' = crossed
  BY <1>2 DEF Reload, SnapshotRead, SnapshotJoin, SnapshotApply, MarkAcknowledged, Read, backend,
              store, history, bounds
<1>3. \A s \in Session : MarkAcknowledged(s) =>
                 /\ view[s] # NoRow /\ view[s].state \in Done
                 /\ acks' = acks \cup {s}
                 /\ seen' = [seen EXCEPT ![s] = @ \cup {view[s].gen}]
                 /\ view' = view /\ snap' = snap
  BY DEF MarkAcknowledged
<1>4. Reload => /\ view' = [s \in Session |-> NoRow] /\ acks' = {} /\ snap' = Load
                /\ seen' = seen
  BY DEF Reload, history
<1>5. SnapshotRead =>
                 /\ snap.pc = "read" /\ snap'.pc = "join"
                 /\ snap'.of = [s \in Session |-> IF s \in live THEN Read(s) ELSE NoRow]
                 /\ view' = view /\ acks' = acks /\ seen' = seen
  BY <1>1 DEF SnapshotRead, history
<1>6. SnapshotJoin =>
                 /\ snap.pc = "join" /\ snap'.pc = "apply" /\ snap'.of = snap.of
                 /\ snap'.acked = {s \in Session : rows[s] # NoRow /\ rows[s].acked}
                 /\ view' = view /\ acks' = acks /\ seen' = seen
  BY <1>1 DEF SnapshotJoin, history
<1>7. SnapshotApply =>
                 /\ snap.pc = "apply" /\ snap' = NoSnap
                 /\ view' = snap.of /\ acks' = acks \cup Seeded(snap.of, snap.acked)
                 /\ crossed' = crossed \cup {s \in Session : Older(snap.of[s], view[s])}
                 /\ seen' = seen
  BY DEF SnapshotApply
<1> QED
  BY <1>2, <1>3, <1>4, <1>5, <1>6, <1>7

(* Spawns and kills, and the store catching up. *)
LEMMA LifeSteps ==
    ASSUME FanoutInv
    PROVE  /\ \A s \in Session : Register(s) =>
                 /\ stage[s] = "new" /\ stage' = [stage EXCEPT ![s] = "track"]
                 /\ live' = live \cup {s}
                 /\ UNCHANGED <<rows, saved, view, acks>>
           /\ \A s \in Session : Track(s) =>
                 /\ stage[s] = "track" /\ stage' = [stage EXCEPT ![s] = "open"]
                 /\ saved' = rows' /\ UNCHANGED <<live, view, acks>>
                 /\ \/ rows' = rows
                    \/ rows[s] = NoRow /\ rows' = [rows EXCEPT ![s] = NewRow(Unset)]
           /\ \A s \in Session : Kill(s) =>
                 /\ stage[s] = "open" /\ stage' = [stage EXCEPT ![s] = "machine"]
                 /\ UNCHANGED <<live, view, acks>>
                 /\ \/ rows' = rows /\ saved' = saved
                    \/ rows' = [rows EXCEPT ![s] = NoRow] /\ saved' = rows'
           /\ \A s \in Session : RemoveMachine(s) =>
                 /\ stage[s] = "machine" /\ stage' = [stage EXCEPT ![s] = "announce"]
                 /\ live' = live \ {s}
                 /\ UNCHANGED <<rows, saved, view, acks>>
           /\ \A s \in Session : AnnounceRemoved(s) =>
                 /\ stage[s] = "announce" /\ stage' = [stage EXCEPT ![s] = "gone"]
                 /\ view' = [view EXCEPT ![s] = NoRow] /\ acks' = acks \ {s}
                 /\ UNCHANGED <<live, rows, saved>>
           /\ Settle => saved' = rows /\ UNCHANGED <<rows, view, acks, stage, live>>
           /\ Settle \/ (\E s \in Session : \/ Register(s) \/ Track(s) \/ Kill(s)
                                            \/ RemoveMachine(s) \/ AnnounceRemoved(s)) =>
                 /\ \A q \in Session : Read(q)' = Read(q)
                 /\ UNCHANGED <<entered, hand, bus, bridge, snap, clock, seen, kept, crossed,
                                starved>>
<1>1. ASSUME Settle \/ (\E s \in Session : \/ Register(s) \/ Track(s) \/ Kill(s)
                                           \/ RemoveMachine(s) \/ AnnounceRemoved(s))
      PROVE  /\ \A q \in Session : Read(q)' = Read(q)
             /\ UNCHANGED <<entered, hand, bus, bridge, snap, clock, seen, kept, crossed, starved>>
  BY <1>1 DEF Settle, Register, Track, Kill, RemoveMachine, AnnounceRemoved, Read, backend,
              webview, history, bounds
<1>2. \A s \in Session : Register(s) =>
                 /\ stage[s] = "new" /\ stage' = [stage EXCEPT ![s] = "track"]
                 /\ live' = live \cup {s}
                 /\ UNCHANGED <<rows, saved, view, acks>>
  BY DEF Register, store, webview
<1>3. ASSUME NEW s \in Session, Track(s)
      PROVE  /\ stage[s] = "track" /\ stage' = [stage EXCEPT ![s] = "open"]
             /\ saved' = rows' /\ UNCHANGED <<live, view, acks>>
             /\ \/ rows' = rows
                \/ rows[s] = NoRow /\ rows' = [rows EXCEPT ![s] = NewRow(Unset)]
  BY <1>3 DEF FanoutInv, TypeOK, Track, WriteRow, webview, backend
<1>4. \A s \in Session : Kill(s) =>
                 /\ stage[s] = "open" /\ stage' = [stage EXCEPT ![s] = "machine"]
                 /\ UNCHANGED <<live, view, acks>>
                 /\ \/ rows' = rows /\ saved' = saved
                    \/ rows' = [rows EXCEPT ![s] = NoRow] /\ saved' = rows'
  BY DEF Kill, WriteRow, store, webview, backend
<1>5. \A s \in Session : RemoveMachine(s) =>
                 /\ stage[s] = "machine" /\ stage' = [stage EXCEPT ![s] = "announce"]
                 /\ live' = live \ {s}
                 /\ UNCHANGED <<rows, saved, view, acks>>
  BY DEF RemoveMachine, store, webview
<1>6. \A s \in Session : AnnounceRemoved(s) =>
                 /\ stage[s] = "announce" /\ stage' = [stage EXCEPT ![s] = "gone"]
                 /\ view' = [view EXCEPT ![s] = NoRow] /\ acks' = acks \ {s}
                 /\ UNCHANGED <<live, rows, saved>>
  BY DEF AnnounceRemoved, store, backend
<1>7. Settle => saved' = rows /\ UNCHANGED <<rows, view, acks, stage, live>>
  BY DEF Settle, backend, webview
<1> QED
  BY <1>1, <1>2, <1>3, <1>4, <1>5, <1>6, <1>7

(* A restart: each machine is what its row on disk says, nothing is under way. *)
LEMMA RestartSteps ==
    ASSUME FanoutInv, Restart
    PROVE  /\ rows' = saved /\ saved' = saved
           /\ live' = {s \in Session : saved[s] # NoRow}
           /\ \A s \in Session :
                 Read(s)' = IF saved[s] # NoRow /\ saved[s].state # Unset
                            THEN saved[s].state ELSE Born
           /\ entered' \in [Session -> 0..MaxChanges]
           /\ \A p \in OnBus \cup Direct : hand'[p] = None
           /\ bus' = <<>> /\ bridge'.pc = "recv"
           /\ view' = [s \in Session |-> NoRow] /\ snap' = Load /\ acks' = {}
           /\ stage' = [s \in Session |-> IF s \in live' THEN "open"
                                          ELSE IF stage[s] = "new" THEN "new" ELSE "gone"]
           /\ UNCHANGED <<clock, seen, kept, crossed, starved>>
<1>1. /\ rows' = saved /\ saved' = saved
      /\ live' = {s \in Session : saved[s] # NoRow}
      /\ hand' = [p \in OnBus \cup Direct |-> None]
      /\ bus' = <<>> /\ bridge'.pc = "recv"
      /\ view' = [s \in Session |-> NoRow] /\ snap' = Load /\ acks' = {}
      /\ stage' = [s \in Session |-> IF s \in live' THEN "open"
                                     ELSE IF stage[s] = "new" THEN "new" ELSE "gone"]
      /\ UNCHANGED <<clock, seen, kept, crossed, starved>>
  BY DEF Restart, history
<1>2. entered' \in [Session -> 0..MaxChanges]
  BY TypeStep DEF Next, FanoutInv, TypeOK
<1>3. ASSUME NEW s \in Session
      PROVE  Read(s)' = IF saved[s] # NoRow /\ saved[s].state # Unset
                        THEN saved[s].state ELSE Born
  <2> DEFINE Fresh == NewMachine(KindOf[s])
  <2>1. Fresh \in Machine /\ Fresh.state = "idle"
    BY FanoutAssumption DEF FanoutAssumption, NewMachine, Machine, AgentState
  <2>2. machines'[s] = IF s \in live' /\ saved[s].state # Unset
                       THEN [Fresh EXCEPT !.state = saved[s].state.state]
                       ELSE Fresh
    BY DEF Restart
  <2>3. entered'[s] = IF s \in live' THEN saved[s].state.gen ELSE 0
    BY DEF Restart
  <2>4. s \in live' <=> saved[s] # NoRow
    BY <1>1
  <2> HIDE DEF Fresh
  <2>5. CASE saved[s] # NoRow /\ saved[s].state # Unset
    <3>1. saved[s] \in Row
      BY <2>5 DEF FanoutInv, TypeOK
    <3>2. saved[s].state \in [state : AgentState, gen : 0..MaxChanges]
      BY <2>5, <3>1 DEF Row, Reading
    <3>3. machines'[s].state = saved[s].state.state /\ entered'[s] = saved[s].state.gen
      BY <2>1, <2>2, <2>3, <2>4, <2>5 DEF Machine
    <3> QED
      BY <2>5, <3>2, <3>3 DEF Read
  <2>6. CASE ~(saved[s] # NoRow /\ saved[s].state # Unset)
    <3>1. machines'[s].state = "idle"
      BY <2>1, <2>2, <2>4, <2>6
    <3>2. entered'[s] = 0
      BY <2>3, <2>4, <2>6 DEF Unset
    <3> QED
      BY <2>6, <3>1, <3>2 DEF Read, Born
  <2> QED
    BY <2>5, <2>6
<1> QED
  BY <1>1, <1>2, <1>3

(* A turn has a number, and is neither nothing nor the state of birth. *)
LEMMA TurnFacts ==
    /\ MaxChanges \in Nat
    /\ \A r \in Turn : /\ r.gen \in 1..MaxChanges /\ r.state \in AgentState
                       /\ r # NoRow /\ r # Unset /\ r # Born /\ r \in Reading
    /\ Born # NoRow /\ Born # Unset /\ Born.gen = 0 /\ Born.state = "idle"
    /\ Unset # NoRow /\ Unset.gen = 0 /\ None.to = Unset
    /\ \A r \in Reading : r.gen \in Nat /\ r # NoRow
<1>1. MaxChanges \in Nat
  BY FanoutAssumption DEF FanoutAssumption
<1>2. Born \in Reading
  BY <1>1 DEF Born, Reading, AgentState
<1>3. \A r \in Turn : r \in Reading
  BY <1>1 DEF Turn, Reading
<1>4. \A r \in Turn : r.gen \in 1..MaxChanges /\ r.state \in AgentState
  BY DEF Turn
<1>5. \A r \in Reading : r.gen \in Nat /\ r # NoRow
  BY <1>1, NoRowAssumption DEF Reading, Unset
<1> QED
  BY <1>1, <1>2, <1>3, <1>4, <1>5, ReadingType DEF Born, Unset, None

\* No step makes a reading that is neither a numbered turn nor a state a session starts with.
LEMMA SortedStep == FanoutInv /\ Sorted /\ [Next]_vars => Sorted'
<1> SUFFICES ASSUME FanoutInv, Sorted, [Next]_vars PROVE Sorted'
  OBVIOUS
<1>a. hand \in [OnBus \cup Direct -> Change \cup {None}] /\ saved \in [Session -> Row \cup {NoRow}]
      /\ rows \in [Session -> Row \cup {NoRow}] /\ view \in [Session -> Reading \cup {NoRow}]
  BY DEF FanoutInv, TypeOK
<1>b. DOMAIN bus = 1..Len(bus) /\ Len(bus) \in Nat
  BY BridgeHolds
<1>1. CASE Calm
  BY <1>1 DEF Calm, Sorted
<1>2. ASSUME NEW p \in OnBus \cup Direct, NEW s \in Session, NEW r \in Turn, Turns(p, s, r)
      PROVE  Sorted'
  <2>1. [s |-> s, to |-> r].to = r
    OBVIOUS
  <2>2. \A q \in OnBus \cup Direct : hand'[q] = hand[q] \/ hand'[q] = [s |-> s, to |-> r]
    BY <1>a, <1>2 DEF Turns
  <2>3. \A q \in Session : Read(q)' \in Turn \cup {Born}
    BY <1>2 DEF Turns, Sorted
  <2>4. \A q \in OnBus \cup Direct : hand'[q] # None => hand'[q].to \in Turn
    BY <2>1, <2>2 DEF Sorted
  <2>5. UNCHANGED <<bus, bridge, view, snap, rows, saved>>
    BY <1>2 DEF Turns
  <2> QED
    BY <2>3, <2>4, <2>5 DEF Sorted
<1>3. ASSUME NEW p \in OnBus, Publish(p) PROVE Sorted'
  <2>1. hand[p].to \in Turn
    BY <1>3, PushBus DEF Sorted, OnBus
  <2>2. \A i \in DOMAIN bus' : bus'[i] = hand[p] \/ \E j \in DOMAIN bus : bus'[i] = bus[j]
    BY <1>3, PushedFrom
  <2>3. \A i \in DOMAIN bus' : bus'[i].to \in Turn
    BY <2>1, <2>2 DEF Sorted
  <2>4. \A q \in OnBus \cup Direct : hand'[q] = hand[q] \/ hand'[q] = None
    BY <1>3, <1>a, PushBus
  <2>5. UNCHANGED <<bridge, view, snap, rows, saved>> /\ \A q \in Session : Read(q)' = Read(q)
    BY <1>3, PushBus
  <2> QED
    BY <2>3, <2>4, <2>5 DEF Sorted
<1>4. ASSUME NEW p \in Direct, EmitDirect(p) PROVE Sorted'
  <2>1. hand[p].to \in Turn /\ hand[p].s \in Session
    BY <1>4, EmitsDirect DEF Sorted, Change, Direct
  <2>2. \A q \in Session : view'[q] = view[q] \/ view'[q] \in Turn
    BY <1>4, <2>1, EmitsDirect, DeliverShows
  <2>3. \A q \in OnBus \cup Direct : hand'[q] = hand[q] \/ hand'[q] = None
    BY <1>4, <1>a, EmitsDirect
  <2>4. UNCHANGED <<bus, bridge, snap, rows, saved>> /\ \A q \in Session : Read(q)' = Read(q)
    BY <1>4, EmitsDirect, DeliverShows
  <2> QED
    BY <2>2, <2>3, <2>4 DEF Sorted
<1>5. CASE BridgeTake
  <2>1. \A i \in DOMAIN bus' : i + 1 \in DOMAIN bus /\ bus'[i] = bus[i + 1]
    BY <1>5, <1>b, TakeBus
  <2>2. bridge'.change = bus[1] /\ bus[1].to \in Turn
    BY <1>5, <1>b, TakeBus DEF Sorted
  <2>3. UNCHANGED <<hand, view, snap, rows, saved>> /\ \A q \in Session : Read(q)' = Read(q)
    BY <1>5, TakeBus
  <2> QED
    BY <2>1, <2>2, <2>3 DEF Sorted
<1>6. CASE BridgePersist
  <2>1. bridge.change.s \in Session /\ bridge.change.to \in Turn
    BY <1>6, PersistsChange DEF Change, Sorted
  <2>2. \A q \in Session : rows'[q] # NoRow => rows'[q].state \in Turn \cup {Unset}
    BY <1>6, <2>1, PersistsChange DEF Sorted
  <2>3. \A q \in Session : saved'[q] # NoRow => saved'[q].state \in Turn \cup {Unset}
    BY <1>6, <2>2, PersistsChange DEF Sorted
  <2>4. UNCHANGED <<hand, bus, view, snap>> /\ \A q \in Session : Read(q)' = Read(q)
    BY <1>6, PersistsChange
  <2>5. bridge'.change = bridge.change
    BY <1>6, PersistsChange
  <2> QED
    BY <2>1, <2>2, <2>3, <2>4, <2>5 DEF Sorted
<1>7. CASE BridgeEmit
  <2>1. bridge.change.to \in Turn /\ bridge.change.s \in Session
    BY <1>7, EmitsChange DEF Sorted, Change
  <2>2. \A q \in Session : view'[q] = view[q] \/ view'[q] \in Turn
    BY <1>7, <2>1, EmitsChange, DeliverShows
  <2>3. UNCHANGED <<bus, hand, snap, rows, saved>> /\ \A q \in Session : Read(q)' = Read(q)
    BY <1>7, EmitsChange, DeliverShows
  <2>4. bridge'.pc = "recv"
    BY <1>7, EmitsChange
  <2> QED
    BY <2>2, <2>3, <2>4 DEF Sorted
<1>8. ASSUME NEW s \in Session, AckState(s) PROVE Sorted'
  <2>1. \A q \in Session : rows'[q] # NoRow => rows'[q].state \in Turn \cup {Unset}
    BY <1>8, AckFlags DEF Sorted
  <2>2. \A q \in Session : saved'[q] # NoRow => saved'[q].state \in Turn \cup {Unset}
    BY <1>8, <2>1, AckFlags DEF Sorted
  <2>3. UNCHANGED <<hand, bus, bridge, view, snap>> /\ \A q \in Session : Read(q)' = Read(q)
    BY <1>8, AckFlags
  <2> QED
    BY <2>1, <2>2, <2>3 DEF Sorted
<1>9. CASE Reload \/ SnapshotRead \/ SnapshotJoin \/ SnapshotApply
               \/ (\E s \in Session : MarkAcknowledged(s))
  <2>1. UNCHANGED <<hand, bus, bridge, rows, saved>> /\ \A q \in Session : Read(q)' = Read(q)
    BY <1>9, PageSteps
  <2>2. \A q \in Session : Load.of[q] = NoRow /\ NoSnap.of[q] = NoRow
    BY DEF Load, NoSnap
  <2>3. \A q \in Session : /\ view'[q] \in Turn \cup {Born, NoRow}
                           /\ snap'.of[q] \in Turn \cup {Born, NoRow}
    BY <1>9, <2>2, PageSteps DEF Sorted
  <2> QED
    BY <2>1, <2>3 DEF Sorted
<1>10. CASE Settle \/ (\E s \in Session : \/ Register(s) \/ Track(s) \/ Kill(s)
                                          \/ RemoveMachine(s) \/ AnnounceRemoved(s))
  <2>1. UNCHANGED <<hand, bus, bridge, snap>> /\ \A q \in Session : Read(q)' = Read(q)
    BY <1>10, LifeSteps
  <2>2. NewRow(Unset).state = Unset
    BY DEF NewRow
  <2>3. \A q \in Session : view'[q] = view[q] \/ view'[q] = NoRow
    BY <1>10, <1>a, LifeSteps
  <2>4. \A q \in Session : rows'[q] # NoRow => rows'[q].state \in Turn \cup {Unset}
    BY <1>10, <1>a, <2>2, LifeSteps DEF Sorted
  <2>5. \A q \in Session : saved'[q] # NoRow => saved'[q].state \in Turn \cup {Unset}
    BY <1>10, <2>4, LifeSteps DEF Sorted
  <2> QED
    BY <2>1, <2>3, <2>4, <2>5 DEF Sorted
<1>11. CASE Restart
  <2>1. \A q \in Session : Load.of[q] = NoRow
    BY DEF Load, NoSnap
  <2>2. \A q \in Session : saved[q] # NoRow /\ saved[q].state # Unset => saved[q].state \in Turn
    BY DEF Sorted
  <2> QED
    BY <1>11, <2>1, <2>2, RestartSteps DEF Sorted
<1>12. CASE Lapses
  <2>1. bridge'.pc # "recv" => bridge'.change.to \in Turn
    BY <1>12 DEF Lapses, Sorted
  <2>2. \A q \in Session :
            /\ rows'[q] # NoRow => rows'[q].state \in Turn \cup {Unset}
            /\ saved'[q] # NoRow => saved'[q].state \in Turn \cup {Unset}
    BY <1>12 DEF Lapses, Sorted
  <2>3. UNCHANGED <<hand, bus, view, snap>> /\ \A q \in Session : Read(q)' = Read(q)
    BY <1>12 DEF Lapses
  <2> QED
    BY <2>1, <2>2, <2>3 DEF Sorted
<1> QED
  BY <1>1, <1>2, <1>3, <1>4, <1>5, <1>6, <1>7, <1>8, <1>9, <1>10, <1>11, <1>12, NextCases
     DEF TurnStep

-----------------------------------------------------------------------------
(* Readings under way: carried by a task, the bus or the bridge, ahead of   *)
(* the machine's own if the webview has or will have them too, and all      *)
(* readings there are of a session.                                         *)
Carried(s, r) ==
    \/ \E p \in OnBus \cup Direct : hand[p] = [s |-> s, to |-> r]
    \/ \E i \in DOMAIN bus : bus[i] = [s |-> s, to |-> r]
    \/ bridge.pc # "recv" /\ bridge.change = [s |-> s, to |-> r]

Ahead(s, r) == Carried(s, r) \/ view[s] = r \/ snap.of[s] = r

About(s, r) ==
    \/ Ahead(s, r) \/ Read(s) = r
    \/ rows[s] # NoRow /\ rows[s].state = r
    \/ saved[s] # NoRow /\ saved[s].state = r

(* A change is its session and its reading. *)
LEMMA ChangeIs ==
    /\ \A s \in Session, r \in Turn : /\ [s |-> s, to |-> r] # None
                                      /\ [s |-> s, to |-> r].s = s
                                      /\ [s |-> s, to |-> r].to = r
    /\ \A c \in Change : c = [s |-> c.s, to |-> c.to]
BY TurnFacts DEF Change, None

(* Every carried turn was carried before, or is the one just entered. *)
LEMMA CarriedFrom ==
    ASSUME FanoutInv, [Next]_vars, NEW s \in Session, NEW r \in Turn, Carried(s, r)'
    PROVE  \/ Carried(s, r)
           \/ /\ s \in live /\ r = Read(s)' /\ clock' = clock + 1 /\ r.gen = clock'
<1> DEFINE c == [s |-> s, to |-> r]
<1>a. c # None /\ c.s = s /\ c.to = r
  BY ChangeIs
<1>b. /\ hand \in [OnBus \cup Direct -> Change \cup {None}]
      /\ DOMAIN bus = 1..Len(bus) /\ Len(bus) \in Nat
  BY BridgeHolds DEF FanoutInv, TypeOK
<1>c. /\ Carried(s, r) <=> \/ \E p \in OnBus \cup Direct : hand[p] = c
                           \/ \E i \in DOMAIN bus : bus[i] = c
                           \/ bridge.pc # "recv" /\ bridge.change = c
      /\ Carried(s, r)' <=> \/ \E p \in OnBus \cup Direct : hand'[p] = c
                            \/ \E i \in DOMAIN bus' : bus'[i] = c
                            \/ bridge'.pc # "recv" /\ bridge'.change = c
  BY DEF Carried
<1> HIDE DEF c
<1>1. CASE UNCHANGED <<hand, bus, bridge>>
  BY <1>1, <1>c
<1>2. ASSUME NEW p \in OnBus \cup Direct, NEW q \in Session, NEW t \in Turn, Turns(p, q, t)
      PROVE  Carried(s, r) \/ (s \in live /\ r = Read(s)' /\ clock' = clock + 1 /\ r.gen = clock')
  <2>1. \A o \in OnBus \cup Direct : hand'[o] = hand[o] \/ hand'[o] = [s |-> q, to |-> t]
    BY <1>2, <1>b DEF Turns
  <2>2. CASE c = [s |-> q, to |-> t]
    <3>1. s = q /\ r = t
      BY <1>a, <2>2
    <3> QED
      BY <1>2, <3>1 DEF Turns
  <2>3. CASE c # [s |-> q, to |-> t]
    BY <1>2, <1>c, <2>1, <2>3 DEF Turns
  <2> QED
    BY <2>2, <2>3
<1>3. ASSUME NEW p \in OnBus, Publish(p) PROVE Carried(s, r)
  <2>1. \A i \in DOMAIN bus' : bus'[i] = hand[p] \/ \E j \in DOMAIN bus : bus'[i] = bus[j]
    BY <1>3, PushedFrom
  <2>2. \A o \in OnBus \cup Direct : hand'[o] = hand[o] \/ hand'[o] = None
    BY <1>3, <1>b, PushBus
  <2>3. bridge' = bridge
    BY <1>3, PushBus
  <2>4. CASE \E o \in OnBus \cup Direct : hand'[o] = c
    BY <1>a, <1>c, <2>2, <2>4
  <2>5. CASE \E i \in DOMAIN bus' : bus'[i] = c
    <3>1. p \in OnBus \cup Direct
      OBVIOUS
    <3> QED
      BY <1>c, <2>1, <2>5, <3>1
  <2> QED
    BY <1>c, <2>3, <2>4, <2>5
<1>4. ASSUME NEW p \in Direct, EmitDirect(p) PROVE Carried(s, r)
  <2>1. \A o \in OnBus \cup Direct : hand'[o] = hand[o] \/ hand'[o] = None
    BY <1>4, <1>b, EmitsDirect
  <2>2. UNCHANGED <<bus, bridge>>
    BY <1>4, EmitsDirect
  <2> QED
    BY <1>a, <1>c, <2>1, <2>2
<1>5. CASE BridgeTake
  <2>1. \A i \in DOMAIN bus' : i + 1 \in DOMAIN bus /\ bus'[i] = bus[i + 1]
    BY <1>5, <1>b, TakeBus
  <2>2. bridge'.change = bus[1] /\ 1 \in DOMAIN bus /\ hand' = hand
    BY <1>5, <1>b, TakeBus
  <2> QED
    BY <1>c, <2>1, <2>2
<1>6. CASE BridgePersist
  BY <1>6, <1>c, PersistsChange
<1>7. CASE BridgeEmit
  BY <1>7, <1>c, EmitsChange
<1>8. CASE Restart
  BY <1>8, <1>a, <1>c, RestartSteps
<1>9. ASSUME NEW q \in Session, AckState(q) PROVE UNCHANGED <<hand, bus, bridge>>
  BY <1>9, AckFlags
<1>10. ASSUME \/ Calm \/ Settle \/ Reload \/ SnapshotRead \/ SnapshotJoin \/ SnapshotApply
              \/ \E q \in Session : \/ MarkAcknowledged(q) \/ Register(q) \/ Track(q) \/ Kill(q)
                                    \/ RemoveMachine(q) \/ AnnounceRemoved(q)
       PROVE  UNCHANGED <<hand, bus, bridge>>
  BY <1>10, PageSteps, LifeSteps DEF Calm
<1>11. CASE Lapses
  BY <1>11, <1>c DEF Lapses
<1> QED
  BY <1>1, <1>2, <1>3, <1>4, <1>5, <1>6, <1>7, <1>8, <1>9, <1>10, <1>11, NextCases DEF TurnStep

(* Every reading ahead of the machine's was so before, or is the machine's. *)
LEMMA AheadFrom ==
    ASSUME FanoutInv, Sorted, [Next]_vars, NEW s \in Session, NEW r \in Turn \cup {Born},
           Ahead(s, r)'
    PROVE  Ahead(s, r) \/ (s \in live /\ r = Read(s)')
<1>a. Sorted'
  BY SortedStep
<1>b. r # NoRow
  BY TurnFacts
<1>1. CASE Carried(s, r)'
  <2>1. r \in Turn
    <3>1. /\ \A p \in OnBus \cup Direct : hand'[p] # None => hand'[p].to # Born
          /\ \A i \in DOMAIN bus' : bus'[i].to # Born
          /\ bridge'.pc # "recv" => bridge'.change.to # Born
      BY <1>a, TurnFacts DEF Sorted
    <3>2. [s |-> s, to |-> r].to = r /\ (r = Born => [s |-> s, to |-> r] # None)
      BY TurnFacts DEF None
    <3> QED
      BY <1>1, <3>1, <3>2 DEF Carried
  <2> QED
    BY <1>1, <2>1, CarriedFrom DEF Ahead
<1>2. CASE view'[s] = r /\ view'[s] # view[s]
  <2>1. ASSUME NEW p \in Direct, EmitDirect(p) PROVE Ahead(s, r)
    <3>1. hand[p] \in Change /\ Deliver(hand[p])
      BY <2>1, EmitsDirect
    <3>2. hand[p].s \in Session
      BY <3>1 DEF Change
    <3>3. hand[p].s = s /\ hand[p].to = r
      BY <1>2, <3>1, <3>2, DeliverShows
    <3>4. hand[p] = [s |-> s, to |-> r]
      BY <3>1, <3>3, ChangeIs
    <3>5. p \in OnBus \cup Direct
      OBVIOUS
    <3> QED
      BY <3>4, <3>5 DEF Ahead, Carried
  <2>2. CASE BridgeEmit
    <3>1. bridge.pc = "emit" /\ bridge.change \in Change /\ Deliver(bridge.change)
      BY <2>2, EmitsChange
    <3>2. bridge.change.s \in Session
      BY <3>1 DEF Change
    <3>3. bridge.change.s = s /\ bridge.change.to = r
      BY <1>2, <3>1, <3>2, DeliverShows
    <3>4. bridge.change = [s |-> s, to |-> r]
      BY <3>1, <3>3, ChangeIs
    <3> QED
      BY <3>1, <3>4 DEF Ahead, Carried
  <2>3. CASE SnapshotApply
    BY <1>2, <2>3, PageSteps DEF Ahead
  <2>4. CASE Restart \/ Reload
    BY <1>b, <1>2, <2>4, PageSteps, RestartSteps
  <2>5. ASSUME NEW q \in Session, AckState(q) PROVE FALSE
    BY <1>2, <2>5, AckFlags
  <2>6. ASSUME NEW p \in OnBus, Publish(p) PROVE FALSE
    BY <1>2, <2>6, PushBus
  <2>7. ASSUME \/ SnapshotRead \/ SnapshotJoin \/ (\E q \in Session : MarkAcknowledged(q))
        PROVE  FALSE
    BY <1>2, <2>7, PageSteps
  <2>8. ASSUME NEW q \in Session, AnnounceRemoved(q) PROVE FALSE
    <3>1. view \in [Session -> Reading \cup {NoRow}]
      BY DEF FanoutInv, TypeOK
    <3> QED
      BY <1>b, <1>2, <2>8, <3>1, LifeSteps
  <2>9. ASSUME \/ Settle
               \/ (\E q \in Session : Register(q) \/ Track(q) \/ Kill(q) \/ RemoveMachine(q))
        PROVE  FALSE
    BY <1>2, <2>9, LifeSteps
  <2>10. ASSUME Calm \/ TurnStep \/ Lapses PROVE FALSE
    BY <1>2, <2>10 DEF Calm, TurnStep, Turns, Lapses
  <2>11. ASSUME BridgeTake \/ BridgePersist PROVE FALSE
    BY <1>2, <2>11, TakeBus, PersistsChange
  <2> QED
    BY <2>1, <2>2, <2>3, <2>4, <2>5, <2>6, <2>7, <2>8, <2>9, <2>10, <2>11, NextCases
<1>3. CASE snap'.of[s] = r /\ snap'.of[s] # snap.of[s]
  <2>0. Load.of[s] = NoRow /\ NoSnap.of[s] = NoRow
    BY DEF Load, NoSnap
  <2>1. CASE SnapshotRead
    BY <1>b, <1>3, <2>1, PageSteps
  <2>2. CASE Reload \/ SnapshotJoin \/ SnapshotApply \/ Restart
    BY <1>b, <1>3, <2>0, <2>2, PageSteps, RestartSteps
  <2>3. ASSUME NEW q \in Session, AckState(q) PROVE FALSE
    BY <1>3, <2>3, AckFlags
  <2>4. ASSUME NEW p \in OnBus, Publish(p) PROVE FALSE
    BY <1>3, <2>4, PushBus
  <2>5. ASSUME NEW q \in Session, MarkAcknowledged(q) PROVE FALSE
    BY <1>3, <2>5, PageSteps
  <2>6. ASSUME \/ Settle
               \/ (\E q \in Session : \/ Register(q) \/ Track(q) \/ Kill(q) \/ RemoveMachine(q)
                                      \/ AnnounceRemoved(q))
        PROVE  FALSE
    BY <1>3, <2>6, LifeSteps
  <2>7. ASSUME Calm \/ TurnStep \/ Lapses PROVE FALSE
    BY <1>3, <2>7 DEF Calm, TurnStep, Turns, Lapses
  <2>8. ASSUME BridgeTake \/ BridgePersist PROVE FALSE
    BY <1>3, <2>8, TakeBus, PersistsChange
  <2>9. ASSUME NEW p \in Direct, EmitDirect(p) PROVE FALSE
    BY <1>3, <2>9, EmitsDirect, DeliverShows
  <2>10. ASSUME BridgeEmit PROVE FALSE
    BY <1>3, <2>10, EmitsChange, DeliverShows
  <2> QED
    BY <2>1, <2>2, <2>3, <2>4, <2>5, <2>6, <2>7, <2>8, <2>9, <2>10, NextCases
<1> QED
  BY <1>1, <1>2, <1>3 DEF Ahead

(* The clock counts the transitions. *)
LEMMA ClockStep ==
    ASSUME FanoutInv, [Next]_vars
    PROVE  /\ clock \in Nat /\ clock' \in Nat
           /\ \/ TurnStep /\ clock' = clock + 1
              \/ clock' = clock /\ \A q \in Session : Read(q)' = Read(q)
              \/ clock' = clock /\ Restart
<1>1. clock \in Nat
  BY FanoutAssumption DEF FanoutAssumption, FanoutInv, TypeOK
<1>2. CASE TurnStep
  <2>1. clock' = clock + 1
    BY <1>2, Zenon DEF TurnStep, Turns
  <2> QED
    BY <1>1, <1>2, <2>1
<1>3. CASE Calm \/ Lapses
  BY <1>1, <1>3 DEF Calm, Lapses
<1>4. ASSUME NEW p \in OnBus, Publish(p)
      PROVE  clock' = clock /\ \A q \in Session : Read(q)' = Read(q)
  BY <1>4, PushBus
<1>5. ASSUME \/ BridgeTake \/ BridgePersist \/ BridgeEmit
             \/ \E p \in Direct : EmitDirect(p)
      PROVE  clock' = clock /\ \A q \in Session : Read(q)' = Read(q)
  BY <1>5, TakeBus, PersistsChange, EmitsChange, EmitsDirect
<1>6. ASSUME NEW q \in Session, AckState(q)
      PROVE  clock' = clock /\ \A o \in Session : Read(o)' = Read(o)
  BY <1>6, AckFlags
<1>7. ASSUME \/ Settle \/ Reload \/ SnapshotRead \/ SnapshotJoin \/ SnapshotApply
             \/ \E q \in Session : \/ MarkAcknowledged(q) \/ Register(q) \/ Track(q) \/ Kill(q)
                                   \/ RemoveMachine(q) \/ AnnounceRemoved(q)
      PROVE  clock' = clock /\ \A q \in Session : Read(q)' = Read(q)
  BY <1>7, PageSteps, LifeSteps
<1>8. CASE Restart
  BY <1>1, <1>8, RestartSteps
<1> QED
  BY <1>1, <1>2, <1>3, <1>4, <1>5, <1>6, <1>7, <1>8, NextCases

(* What sessions.toml comes to say of a session was said or carried before. *)
LEMMA RecordsFrom ==
    ASSUME FanoutInv, [Next]_vars, NEW s \in Session, NEW r \in Turn,
           \/ rows'[s] # NoRow /\ rows'[s].state = r
           \/ saved'[s] # NoRow /\ saved'[s].state = r
    PROVE  \/ rows[s] # NoRow /\ rows[s].state = r
           \/ saved[s] # NoRow /\ saved[s].state = r
           \/ bridge.pc = "persist" /\ bridge.change = [s |-> s, to |-> r]
<1>a. rows \in [Session -> Row \cup {NoRow}]
  BY DEF FanoutInv, TypeOK
<1>1. CASE BridgePersist
  <2>1. bridge.change \in Change /\ bridge.change.s \in Session
    BY <1>1, PersistsChange DEF Change
  <2>2. CASE bridge.change.s = s /\ bridge.change.to = r
    BY <1>1, <2>1, <2>2, PersistsChange, ChangeIs
  <2>3. CASE bridge.change.s # s
    <3>1. rows'[s] = rows[s]
      BY <1>1, <2>1, <2>3, PersistsChange
    <3>2. saved' = rows' \/ saved' = saved
      BY <1>1, PersistsChange
    <3> QED
      BY <3>1, <3>2
  <2>4. CASE bridge.change.s = s /\ bridge.change.to # r
    <3>1. rows'[s].state # r
      BY <1>1, <2>4, PersistsChange
    <3>2. saved' = rows' \/ saved' = saved
      BY <1>1, PersistsChange
    <3> QED
      BY <3>1, <3>2
  <2> QED
    BY <2>2, <2>3, <2>4
<1>2. ASSUME NEW q \in Session, AckState(q)
      PROVE  \/ rows[s] # NoRow /\ rows[s].state = r
             \/ saved[s] # NoRow /\ saved[s].state = r
  <2>1. rows'[s] = rows[s] \/ (rows[s] # NoRow /\ rows'[s].state = rows[s].state)
    BY <1>2, AckFlags
  <2>2. saved' = rows' \/ saved' = saved
    BY <1>2, AckFlags
  <2> QED
    BY <2>1, <2>2
<1>3. ASSUME NEW q \in Session,
             Register(q) \/ Track(q) \/ Kill(q) \/ RemoveMachine(q) \/ AnnounceRemoved(q)
      PROVE  \/ rows[s] # NoRow /\ rows[s].state = r
             \/ saved[s] # NoRow /\ saved[s].state = r
  <2>1. NewRow(Unset).state # r
    BY TurnFacts DEF NewRow
  <2>2. rows'[s] = rows[s] \/ rows'[s] = NoRow \/ rows'[s] = NewRow(Unset)
    BY <1>3, <1>a, LifeSteps
  <2>3. saved' = rows' \/ saved' = saved
    BY <1>3, LifeSteps
  <2> QED
    BY <2>1, <2>2, <2>3
<1>4. CASE Settle
  BY <1>4, LifeSteps
<1>5. CASE Restart
  BY <1>5, RestartSteps
<1>6. ASSUME \/ Calm \/ TurnStep \/ BridgeTake
             \/ \E p \in OnBus : Publish(p)
      PROVE  rows' = rows /\ saved' = saved
  BY <1>6, PushBus, TakeBus DEF Calm, TurnStep, Turns
<1>7. ASSUME BridgeEmit \/ \E p \in Direct : EmitDirect(p)
      PROVE  rows' = rows /\ saved' = saved
  BY <1>7, EmitsChange, EmitsDirect
<1>8. ASSUME \/ Reload \/ SnapshotRead \/ SnapshotJoin \/ SnapshotApply
             \/ \E q \in Session : MarkAcknowledged(q)
      PROVE  rows' = rows /\ saved' = saved
  BY <1>8, PageSteps
<1>9. CASE Lapses
  BY <1>9 DEF Lapses
<1> QED
  BY <1>1, <1>2, <1>3, <1>4, <1>5, <1>6, <1>7, <1>8, <1>9, NextCases

(* So there is no turn about a session but the old ones and the one it takes. *)
LEMMA AboutFrom ==
    ASSUME FanoutInv, Sorted, [Next]_vars, NEW s \in Session, NEW r \in Turn, About(s, r)'
    PROVE  \/ About(s, r)
           \/ /\ s \in live /\ r = Read(s)' /\ clock' = clock + 1 /\ r.gen = clock'
<1>1. CASE Ahead(s, r)' /\ ~(r = Read(s)')
  BY <1>1, AheadFrom DEF About
<1>2. CASE Read(s)' = r
  <2>1. ASSUME NEW p \in OnBus \cup Direct, NEW q \in Session, NEW t \in Turn, Turns(p, q, t)
        PROVE  \/ About(s, r)
               \/ /\ s \in live /\ r = Read(s)' /\ clock' = clock + 1 /\ r.gen = clock'
    BY <1>2, <2>1 DEF Turns, About
  <2>2. CASE Restart
    <3>1. saved[s] # NoRow /\ saved[s].state = r
      BY <1>2, <2>2, RestartSteps, TurnFacts
    <3> QED
      BY <3>1 DEF About
  <2>3. CASE \A q \in Session : Read(q)' = Read(q)
    BY <1>2, <2>3 DEF About
  <2> QED
    BY <2>1, <2>2, <2>3, ClockStep DEF TurnStep
<1>3. CASE \/ rows'[s] # NoRow /\ rows'[s].state = r
           \/ saved'[s] # NoRow /\ saved'[s].state = r
  <2>1. bridge.pc = "persist" /\ bridge.change = [s |-> s, to |-> r] => Ahead(s, r)
    BY DEF Ahead, Carried
  <2> QED
    BY <1>3, <2>1, RecordsFrom DEF About
<1> QED
  BY <1>1, <1>2, <1>3 DEF About

(* No turn is numbered ahead of the clock. *)
Counted == \A s \in Session : \A r \in Turn : About(s, r) => r.gen <= clock

\* No step numbers a turn ahead of the clock.
LEMMA CountedStep == FanoutInv /\ Sorted /\ Counted /\ [Next]_vars => Counted'
<1> SUFFICES ASSUME FanoutInv, Sorted, Counted, [Next]_vars, NEW s \in Session, NEW r \in Turn,
                    About(s, r)'
             PROVE  r.gen <= clock'
  BY DEF Counted
<1>1. r.gen \in Nat
  BY TurnFacts
<1>2. CASE About(s, r)
  <2>1. r.gen <= clock
    BY <1>2 DEF Counted
  <2> QED
    BY <1>1, <2>1, ClockStep
<1>3. CASE r.gen = clock'
  BY <1>1, <1>3
<1> QED
  BY <1>2, <1>3, AboutFrom

-----------------------------------------------------------------------------
(* A machine exists from the registration to the kill; of a session still   *)
(* to be spawned nothing is known.                                          *)
Stages ==
    \A s \in Session :
        /\ s \in live <=> stage[s] \in {"track", "open", "machine"}
        /\ stage[s] = "new" => /\ Read(s) = Born /\ view[s] = NoRow
                               /\ \A r \in Turn \cup {Born} : ~Ahead(s, r)

(* What becomes of the stages and the machines. *)
LEMMA StageMoves ==
    ASSUME FanoutInv, [Next]_vars
    PROVE  \/ stage' = stage /\ live' = live
           \/ \E s \in Session :
                 /\ \A q \in Session \ {s} : stage'[q] = stage[q] /\ (q \in live' <=> q \in live)
                 /\ \/ stage[s] = "new" /\ stage'[s] = "track" /\ live' = live \cup {s}
                    \/ stage[s] = "track" /\ stage'[s] = "open" /\ live' = live
                    \/ stage[s] = "open" /\ stage'[s] = "machine" /\ live' = live
                    \/ stage[s] = "machine" /\ stage'[s] = "announce" /\ live' = live \ {s}
                    \/ stage[s] = "announce" /\ stage'[s] = "gone" /\ live' = live
           \/ Restart
<1>a. stage \in [Session -> {"new", "track", "open", "machine", "announce", "gone"}]
  BY DEF FanoutInv, TypeOK
<1>1. ASSUME NEW s \in Session,
             Register(s) \/ Track(s) \/ Kill(s) \/ RemoveMachine(s) \/ AnnounceRemoved(s)
      PROVE  /\ \A q \in Session \ {s} : stage'[q] = stage[q] /\ (q \in live' <=> q \in live)
             /\ \/ stage[s] = "new" /\ stage'[s] = "track" /\ live' = live \cup {s}
                \/ stage[s] = "track" /\ stage'[s] = "open" /\ live' = live
                \/ stage[s] = "open" /\ stage'[s] = "machine" /\ live' = live
                \/ stage[s] = "machine" /\ stage'[s] = "announce" /\ live' = live \ {s}
                \/ stage[s] = "announce" /\ stage'[s] = "gone" /\ live' = live
  BY <1>1, <1>a, LifeSteps
<1>2. Settle => stage' = stage /\ live' = live
  BY LifeSteps
<1>3. ASSUME Calm \/ TurnStep \/ BridgeTake \/ BridgePersist \/ \E p \in OnBus : Publish(p)
      PROVE  stage' = stage /\ live' = live
  BY <1>3, PushBus, TakeBus, PersistsChange DEF Calm, TurnStep, Turns
<1>4. ASSUME BridgeEmit \/ \E p \in Direct : EmitDirect(p)
      PROVE  stage' = stage /\ live' = live
  BY <1>4, EmitsChange, EmitsDirect
<1>5. ASSUME NEW q \in Session, AckState(q) PROVE stage' = stage /\ live' = live
  BY <1>5, AckFlags
<1>6. ASSUME \/ Reload \/ SnapshotRead \/ SnapshotJoin \/ SnapshotApply
             \/ \E q \in Session : MarkAcknowledged(q)
      PROVE  stage' = stage /\ live' = live
  BY <1>6, PageSteps
<1>7. CASE Lapses
  <2>1. ASSUME NEW s \in Session, stage[s] = "track", stage' = [stage EXCEPT ![s] = "open"]
        PROVE  stage'[s] = "open" /\ \A q \in Session \ {s} : stage'[q] = stage[q]
    BY <1>a, <2>1
  <2>2. ASSUME NEW s \in Session, stage[s] = "open", stage' = [stage EXCEPT ![s] = "machine"]
        PROVE  stage'[s] = "machine" /\ \A q \in Session \ {s} : stage'[q] = stage[q]
    BY <1>a, <2>2
  <2> QED
    BY <1>7, <2>1, <2>2 DEF Lapses
<1> QED
  BY <1>1, <1>2, <1>3, <1>4, <1>5, <1>6, <1>7, NextCases

\* No step leaves a trace of a session before it is spawned, or a machine after its kill.
LEMMA StagesStep == FanoutInv /\ Sorted /\ Stages /\ [Next]_vars => Stages'
<1> SUFFICES ASSUME FanoutInv, Sorted, Stages, [Next]_vars, NEW s \in Session
             PROVE  /\ s \in live' <=> stage'[s] \in {"track", "open", "machine"}
                    /\ stage'[s] = "new" =>
                          /\ Read(s)' = Born /\ view'[s] = NoRow
                          /\ \A r \in Turn \cup {Born} : ~Ahead(s, r)'
  BY DEF Stages
<1>1. s \in live' <=> stage'[s] \in {"track", "open", "machine"}
  <2>1. CASE Restart
    BY <2>1, RestartSteps
  <2>2. CASE stage' = stage /\ live' = live
    BY <2>2 DEF Stages
  <2>3. ASSUME NEW q \in Session,
               /\ \A o \in Session \ {q} : stage'[o] = stage[o] /\ (o \in live' <=> o \in live),
               \/ stage[q] = "new" /\ stage'[q] = "track" /\ live' = live \cup {q}
               \/ stage[q] = "track" /\ stage'[q] = "open" /\ live' = live
               \/ stage[q] = "open" /\ stage'[q] = "machine" /\ live' = live
               \/ stage[q] = "machine" /\ stage'[q] = "announce" /\ live' = live \ {q}
               \/ stage[q] = "announce" /\ stage'[q] = "gone" /\ live' = live
        PROVE  s \in live' <=> stage'[s] \in {"track", "open", "machine"}
    <3>1. CASE s = q
      BY <2>3, <3>1 DEF Stages
    <3>2. CASE s # q
      BY <2>3, <3>2 DEF Stages
    <3> QED
      BY <3>1, <3>2
  <2> QED
    BY <2>1, <2>2, <2>3, StageMoves
<1>2. ASSUME stage'[s] = "new"
      PROVE  Read(s)' = Born /\ \A r \in Turn \cup {Born} : ~Ahead(s, r)'
  <2>1. stage[s] = "new"
    <3>1. CASE Restart
      BY <1>2, <3>1, RestartSteps
    <3> QED
      BY <1>2, <3>1, StageMoves
  <2>2. s \notin live /\ Read(s) = Born
    BY <2>1 DEF Stages
  <2>3. \A r \in Turn \cup {Born} : ~Ahead(s, r)'
    BY <2>1, <2>2, AheadFrom DEF Stages
  <2>4. Read(s)' = Born
    <3>1. CASE Restart
      <4>1. s \notin live'
        BY <1>1, <1>2
      <4> QED
        BY <3>1, <4>1, RestartSteps
    <3>2. CASE TurnStep
      BY <2>2, <3>2 DEF TurnStep, Turns
    <3> QED
      BY <2>2, <3>1, <3>2, ClockStep
  <2> QED
    BY <2>3, <2>4
<1>3. ASSUME stage'[s] = "new" PROVE view'[s] = NoRow
  <2>1. Sorted'
    BY SortedStep
  <2>2. view'[s] \in Turn \cup {Born, NoRow}
    BY <2>1 DEF Sorted
  <2>3. \A r \in Turn \cup {Born} : view'[s] # r
    BY <1>2, <1>3 DEF Ahead
  <2> QED
    BY <2>2, <2>3
<1> QED
  BY <1>1, <1>2, <1>3

(* What a live session's webview has or will have is the machine's own      *)
(* reading or an older one.                                                 *)
Ordered ==
    \A s \in live : \A r \in Turn \cup {Born} :
        Ahead(s, r) => r.gen < Read(s).gen \/ r = Read(s)

\* No step puts a reading of a live session ahead of the machine's own.
LEMMA OrderedStep ==
    FanoutInv /\ Sorted /\ Counted /\ Stages /\ Ordered /\ [Next]_vars => Ordered'
<1> SUFFICES ASSUME FanoutInv, Sorted, Counted, Stages, Ordered, [Next]_vars,
                    NEW s \in live', NEW r \in Turn \cup {Born}, Ahead(s, r)'
             PROVE  r.gen < Read(s)'.gen \/ r = Read(s)'
  BY DEF Ordered
<1>1. s \in Session
  BY TypeStep DEF FanoutInv, TypeOK
<1>2. CASE Restart
  <2>1. \A q \in Session : Load.of[q] = NoRow
    BY DEF Load, NoSnap
  <2>2. r # NoRow /\ \A p \in OnBus \cup Direct : None # [s |-> s, to |-> r]
    BY TurnFacts DEF None
  <2>3. ~Carried(s, r)'
    BY <1>2, <2>2, RestartSteps DEF Carried
  <2> QED
    BY <1>1, <1>2, <2>1, <2>2, <2>3, RestartSteps DEF Ahead
<1>3. CASE ~Restart /\ Ahead(s, r)
  <2>1. s \in live
    <3>1. ASSUME s \notin live PROVE stage[s] = "new"
      BY <1>1, <1>3, <3>1, StageMoves
    <3> QED
      BY <1>1, <1>3, <3>1 DEF Stages
  <2>2. r.gen < Read(s).gen \/ r = Read(s)
    BY <1>3, <2>1 DEF Ordered
  <2>3. CASE Read(s)' = Read(s)
    BY <2>2, <2>3
  <2>4. ASSUME NEW p \in OnBus \cup Direct, NEW q \in Session, NEW t \in Turn, Turns(p, q, t),
               Read(s)' # Read(s)
        PROVE  r.gen < Read(s)'.gen
    <3>1. q = s /\ Read(s)' = t /\ t.gen = clock + 1
      BY <1>1, <2>4 DEF Turns
    <3>2. r.gen <= clock /\ r.gen \in Nat /\ clock \in Nat
      <4>1. r \in Turn => r.gen <= clock
        BY <1>1, <1>3 DEF Counted, About
      <4> QED
        BY <4>1, ClockStep, TurnFacts
    <3> QED
      BY <3>1, <3>2
  <2> QED
    BY <1>1, <1>3, <2>3, <2>4, ClockStep DEF TurnStep
<1> QED
  BY <1>1, <1>2, <1>3, AheadFrom

(* The machine's own reading, once under way, stays under way until the     *)
(* webview has it, unless a full bus drops it.                              *)
LEMMA CarriedStays ==
    ASSUME FanoutInv, Sorted, Ordered, [Next]_vars, ~Restart,
           NEW s \in live, NEW r \in Turn, r = Read(s), Carried(s, r)
    PROVE  Carried(s, r)' \/ s \in starved' \/ view'[s] = r
<1> DEFINE c == [s |-> s, to |-> r]
<1>0. s \in Session
  BY DEF FanoutInv, TypeOK
<1>a. c # None /\ c.s = s /\ c.to = r
  BY <1>0, ChangeIs
<1>b. /\ hand \in [OnBus \cup Direct -> Change \cup {None}]
      /\ DOMAIN bus = 1..Len(bus) /\ Len(bus) \in Nat
  BY BridgeHolds DEF FanoutInv, TypeOK
<1>c. /\ Carried(s, r) <=> \/ \E p \in OnBus \cup Direct : hand[p] = c
                           \/ \E i \in DOMAIN bus : bus[i] = c
                           \/ bridge.pc # "recv" /\ bridge.change = c
      /\ Carried(s, r)' <=> \/ \E p \in OnBus \cup Direct : hand'[p] = c
                            \/ \E i \in DOMAIN bus' : bus'[i] = c
                            \/ bridge'.pc # "recv" /\ bridge'.change = c
  BY DEF Carried
<1> HIDE DEF c
<1>1. CASE UNCHANGED <<hand, bus, bridge>>
  BY <1>1, <1>c
<1>2. ASSUME NEW p \in OnBus \cup Direct, NEW q \in Session, NEW t \in Turn, Turns(p, q, t)
      PROVE  Carried(s, r)'
  <2>1. hand[p] = None /\ \A o \in OnBus \cup Direct : o = p \/ hand'[o] = hand[o]
    BY <1>2, <1>b DEF Turns
  <2>2. UNCHANGED <<bus, bridge>>
    BY <1>2 DEF Turns
  <2> QED
    BY <1>a, <1>c, <2>1, <2>2
<1>3. ASSUME NEW p \in OnBus, Publish(p) PROVE Carried(s, r)' \/ s \in starved'
  <2> DEFINE n == Len(bus)
             m == Len(bus')
  <2>1. /\ n \in Nat /\ DOMAIN bus = 1..n /\ DOMAIN bus' = 1..m /\ m \in Nat \ {0}
        /\ bus'[m] = hand[p] /\ bridge' = bridge
    BY <1>3, <1>b, PushBus
  <2>2. \A o \in OnBus \cup Direct : o = p \/ hand'[o] = hand[o]
    BY <1>3, <1>b, PushBus
  <2>3. \/ m = n + 1 /\ \A i \in 1..n : bus'[i] = bus[i]
        \/ m = n /\ \A i \in 1..(n - 1) : bus'[i] = bus[i + 1]
    BY <1>3, PushBus
  <2>4. m = n => \/ \E i \in DOMAIN bus' : bus'[i].s = bus[1].s /\ Older(bus[1].to, bus'[i].to)
                 \/ bus[1].s \in starved'
    <3>1. \A k \in Nat : k # k + 1
      OBVIOUS
    <3>2. \/ Len(bus') = Len(bus) + 1
          \/ \E i \in DOMAIN bus' : bus'[i].s = bus[1].s /\ Older(bus[1].to, bus'[i].to)
          \/ starved' = starved \cup {bus[1].s}
      BY <1>3, PushBus, Zenon
    <3> QED
      BY <2>1, <3>1, <3>2, Zenon
  <2>5. m \in DOMAIN bus'
    BY <2>1
  <2> HIDE DEF n, m
  <2>6. ASSUME NEW o \in OnBus \cup Direct, hand[o] = c PROVE Carried(s, r)'
    <3>1. CASE o = p
      <4>1. bus'[m] = c
        BY <2>1, <2>6, <3>1
      <4> QED
        BY <1>c, <2>5, <4>1
    <3>2. CASE o # p
      BY <1>c, <2>2, <2>6, <3>2
    <3> QED
      BY <3>1, <3>2
  <2>7. CASE bridge.pc # "recv" /\ bridge.change = c
    BY <1>c, <2>1, <2>7
  <2>8. ASSUME NEW i \in DOMAIN bus, bus[i] = c PROVE Carried(s, r)' \/ s \in starved'
    <3>1. CASE m = n + 1 /\ \A k \in 1..n : bus'[k] = bus[k]
      <4>1. i \in 1..m /\ bus'[i] = c
        BY <2>1, <2>8, <3>1
      <4> QED
        BY <1>c, <2>1, <4>1
    <3>2. CASE m = n /\ (\A k \in 1..(n - 1) : bus'[k] = bus[k + 1]) /\ i # 1
      <4>1. i - 1 \in 1..(n - 1) /\ i - 1 \in 1..m
        BY <2>1, <2>8, <3>2
      <4>2. bus'[i - 1] = bus[(i - 1) + 1] /\ (i - 1) + 1 = i
        BY <2>1, <2>8, <3>2, <4>1
      <4> QED
        BY <1>c, <2>1, <2>8, <4>1, <4>2
    <3>3. CASE m = n /\ i = 1
      <4>1. CASE bus[1].s \in starved'
        BY <1>a, <2>8, <3>3, <4>1
      <4>2. ASSUME NEW k \in DOMAIN bus', bus'[k].s = bus[1].s, Older(bus[1].to, bus'[k].to)
            PROVE  FALSE
        <5>1. bus'[k] = hand[p] \/ \E j \in DOMAIN bus : bus'[k] = bus[j]
          BY <1>3, PushedFrom
        <5>2. p \in OnBus \cup Direct /\ hand[p] # None /\ hand[p] \in Change
          BY <1>3, PushBus
        <5>3. \A j \in DOMAIN bus : bus[j] \in Change /\ bus[j].to \in Turn
          BY DEF FanoutInv, TypeOK, Sorted
        <5>4. hand[p].to \in Turn
          BY <5>2 DEF Sorted
        <5>5. bus'[k] \in Change /\ bus'[k].to \in Turn
          BY <5>1, <5>2, <5>3, <5>4
        <5>6. bus'[k] = [s |-> s, to |-> bus'[k].to]
          BY <1>a, <2>8, <3>3, <4>2, <5>5, ChangeIs
        <5>7. Carried(s, bus'[k].to)
          BY <5>1, <5>2, <5>6 DEF Carried
        <5>8. bus'[k].to.gen < r.gen \/ bus'[k].to = r
          BY <5>5, <5>7 DEF Ordered, Ahead
        <5>9. r.gen < bus'[k].to.gen
          BY <1>a, <2>8, <3>3, <4>2, TurnFacts DEF Older
        <5> QED
          BY <5>5, <5>8, <5>9, TurnFacts
      <4> QED
        BY <2>4, <3>3, <4>1, <4>2
    <3> QED
      BY <2>3, <3>1, <3>2, <3>3
  <2> QED
    BY <1>c, <2>6, <2>7, <2>8
<1>4. ASSUME NEW p \in Direct, EmitDirect(p) PROVE Carried(s, r)' \/ view'[s] = r
  <2>1. \A o \in OnBus \cup Direct : o = p \/ hand'[o] = hand[o]
    BY <1>4, <1>b, EmitsDirect
  <2>2. UNCHANGED <<bus, bridge>>
    BY <1>4, EmitsDirect
  <2>3. hand[p] = c => view'[s] = r
    BY <1>4, <1>a, EmitsDirect, DeliverShows
  <2> QED
    BY <1>c, <2>1, <2>2, <2>3
<1>5. CASE BridgeTake
  <2>1. \A i \in 1..Len(bus') : bus'[i] = bus[i + 1]
    BY <1>5, TakeBus
  <2>2. bridge.pc = "recv" /\ bridge'.change = bus[1] /\ bridge'.pc # "recv" /\ hand' = hand
    BY <1>5, TakeBus
  <2>3. ASSUME NEW i \in DOMAIN bus, bus[i] = c PROVE Carried(s, r)'
    <3>1. CASE i = 1
      BY <1>c, <2>2, <2>3, <3>1
    <3>2. CASE i # 1
      <4>1. i - 1 \in 1..Len(bus') /\ (i - 1) + 1 = i /\ DOMAIN bus' = 1..Len(bus')
        BY <1>5, <1>b, <2>3, <3>2, TakeBus
      <4>2. bus'[i - 1] = bus[(i - 1) + 1]
        BY <2>1, <4>1
      <4> QED
        BY <1>c, <2>3, <4>1, <4>2
    <3> QED
      BY <3>1, <3>2
  <2> QED
    BY <1>c, <2>2, <2>3
<1>6. CASE BridgePersist
  BY <1>6, <1>c, PersistsChange
<1>7. CASE BridgeEmit
  BY <1>7, <1>a, <1>c, EmitsChange, DeliverShows
<1>8. ASSUME NEW q \in Session, AckState(q) PROVE UNCHANGED <<hand, bus, bridge>>
  BY <1>8, AckFlags
<1>9. ASSUME \/ Calm \/ Settle \/ Reload \/ SnapshotRead \/ SnapshotJoin \/ SnapshotApply
             \/ \E q \in Session : \/ MarkAcknowledged(q) \/ Register(q) \/ Track(q) \/ Kill(q)
                                   \/ RemoveMachine(q) \/ AnnounceRemoved(q)
      PROVE  UNCHANGED <<hand, bus, bridge>>
  BY <1>9, PageSteps, LifeSteps DEF Calm
<1>10. CASE Lapses
  BY <1>10, <1>c DEF Lapses
<1> QED
  BY <1>1, <1>2, <1>3, <1>4, <1>5, <1>6, <1>7, <1>8, <1>9, <1>10, NextCases DEF TurnStep

(* A live session's newest reading is shown, or is on its way: carried, or  *)
(* with the snapshot of a page that is loading.                             *)
Latest ==
    \A s \in live \ Astray :
        \/ view[s] = Read(s)
        \/ view[s] = NoRow /\ Read(s) = Born
        \/ Read(s) \in Turn /\ Carried(s, Read(s))
        \/ snap.pc = "read"
        \/ snap.pc \in {"join", "apply"} /\ snap.of[s] = Read(s)

(* A session that has gone astray stays astray. *)
LEMMA AstrayStays ==
    ASSUME FanoutInv, [Next]_vars
    PROVE  crossed \subseteq crossed' /\ starved \subseteq starved'
<1>1. ASSUME \/ Calm \/ TurnStep \/ Lapses \/ BridgeTake \/ BridgePersist
             \/ \E p \in OnBus : Publish(p)
      PROVE  crossed \subseteq crossed' /\ starved \subseteq starved'
  BY <1>1, PushBus, TakeBus, PersistsChange DEF Calm, TurnStep, Turns, Lapses
<1>2. ASSUME BridgeEmit \/ \E p \in Direct : EmitDirect(p)
      PROVE  crossed \subseteq crossed' /\ starved \subseteq starved'
  BY <1>2, EmitsChange, EmitsDirect, DeliverShows
<1>3. ASSUME NEW q \in Session, AckState(q)
      PROVE  crossed \subseteq crossed' /\ starved \subseteq starved'
  BY <1>3, AckFlags
<1>4. ASSUME \/ Reload \/ SnapshotRead \/ SnapshotJoin \/ SnapshotApply
             \/ \E q \in Session : MarkAcknowledged(q)
      PROVE  crossed \subseteq crossed' /\ starved \subseteq starved'
  BY <1>4, PageSteps
<1>5. ASSUME Settle \/ (\E s \in Session : \/ Register(s) \/ Track(s) \/ Kill(s)
                                           \/ RemoveMachine(s) \/ AnnounceRemoved(s))
      PROVE  crossed \subseteq crossed' /\ starved \subseteq starved'
  BY <1>5, LifeSteps
<1>6. CASE Restart
  BY <1>6, RestartSteps
<1> QED
  BY <1>1, <1>2, <1>3, <1>4, <1>5, <1>6, NextCases

(* What a delivery does to a live session: it shows the machine's reading,  *)
(* or one older than that.                                                  *)
LEMMA DeliverOrdered ==
    ASSUME FanoutInv, Sorted, Ordered, NEW change \in Change, Deliver(change),
           change.to \in Turn, Carried(change.s, change.to),
           NEW s \in live, s \notin crossed'
    PROVE  /\ view'[s] = view[s] \/ view'[s] = change.to
           /\ view[s] = Read(s) => view'[s] = Read(s)
           /\ view[s] = NoRow /\ Read(s) = Born => view'[s] = NoRow
<1>1. s \in Session /\ change.s \in Session
  BY DEF FanoutInv, TypeOK, Change
<1>2. CASE change.s # s
  BY <1>1, <1>2, DeliverShows
<1>3. CASE change.s = s
  <2>1. change.to.gen < Read(s).gen \/ change.to = Read(s)
    BY <1>3 DEF Ordered, Ahead
  <2>2. view'[s] = change.to
    BY <1>3, DeliverShows
  <2>3. ~Older(change.to, view[s])
    BY <1>3, DeliverShows
  <2>4. CASE view[s] = Read(s)
    <3>1. Read(s) # NoRow
      BY <1>1, TurnFacts DEF Sorted
    <3>2. ~(change.to.gen < Read(s).gen)
      BY <2>3, <2>4, <3>1, TurnFacts DEF Older
    <3> QED
      BY <2>1, <2>2, <2>4, <3>1, <3>2
  <2>5. CASE Read(s) = Born
    BY <2>1, <2>5, TurnFacts
  <2> QED
    BY <2>2, <2>4, <2>5
<1> QED
  BY <1>2, <1>3

\* Every step keeps the newest reading shown or on its way, or leads the session astray.
LEMMA LatestStep ==
    FanoutInv /\ Sorted /\ Stages /\ Ordered /\ Latest /\ [Next]_vars => Latest'
<1> SUFFICES ASSUME FanoutInv, Sorted, Stages, Ordered, Latest, [Next]_vars,
                    NEW s \in (live \ Astray)'
             PROVE  \/ view'[s] = Read(s)'
                    \/ view'[s] = NoRow /\ Read(s)' = Born
                    \/ Read(s)' \in Turn /\ Carried(s, Read(s))'
                    \/ snap'.pc = "read"
                    \/ snap'.pc \in {"join", "apply"} /\ snap'.of[s] = Read(s)'
  BY DEF Latest
<1>0. s \in Session /\ s \in live' /\ s \notin starved' /\ s \notin crossed'
  BY TypeStep DEF FanoutInv, TypeOK, Astray
<1>1. CASE Restart
  BY <1>1, RestartSteps DEF Load, NoSnap
<1>2. CASE s \notin live /\ ~Restart
  <2>1. stage[s] = "new"
    BY <1>0, <1>2, StageMoves
  <2>3. \E q \in Session : Register(q)
    <3>1. live' # live
      BY <1>0, <1>2
    <3>2. ASSUME \/ Calm \/ TurnStep \/ Lapses \/ BridgeTake \/ BridgePersist
                 \/ \E p \in OnBus : Publish(p)
          PROVE  live' = live
      BY <3>2, PushBus, TakeBus, PersistsChange DEF Calm, TurnStep, Turns, Lapses
    <3>3. ASSUME BridgeEmit \/ \E p \in Direct : EmitDirect(p) PROVE live' = live
      BY <3>3, EmitsChange, EmitsDirect
    <3>4. ASSUME NEW q \in Session, AckState(q) PROVE live' = live
      BY <3>4, AckFlags
    <3>5. ASSUME \/ Reload \/ SnapshotRead \/ SnapshotJoin \/ SnapshotApply
                 \/ \E q \in Session : MarkAcknowledged(q)
          PROVE  live' = live
      BY <3>5, PageSteps
    <3>6. ASSUME Settle \/ (\E q \in Session : Track(q) \/ Kill(q) \/ AnnounceRemoved(q))
          PROVE  live' = live
      BY <3>6, LifeSteps
    <3>7. ASSUME NEW q \in Session, RemoveMachine(q) PROVE FALSE
      BY <1>0, <1>2, <3>7, LifeSteps
    <3> QED
      BY <1>2, <3>1, <3>2, <3>3, <3>4, <3>5, <3>6, <3>7, NextCases
  <2>4. view' = view /\ Read(s)' = Read(s)
    BY <1>0, <2>3, LifeSteps
  <2> QED
    BY <1>0, <2>1, <2>4 DEF Stages
<1> SUFFICES ASSUME s \in live, ~Restart
             PROVE  \/ view'[s] = Read(s)'
                    \/ view'[s] = NoRow /\ Read(s)' = Born
                    \/ Read(s)' \in Turn /\ Carried(s, Read(s))'
                    \/ snap'.pc = "read"
                    \/ snap'.pc \in {"join", "apply"} /\ snap'.of[s] = Read(s)'
  BY <1>1, <1>2
<1>3. s \notin Astray
  BY <1>0, AstrayStays DEF Astray
<1>4. ASSUME NEW p \in OnBus \cup Direct, NEW q \in Session, NEW t \in Turn, Turns(p, q, t),
             Read(s)' # Read(s)
      PROVE  Read(s)' \in Turn /\ Carried(s, Read(s))'
  <2>1. q = s /\ Read(s)' = t
    BY <1>0, <1>4 DEF Turns
  <2>2. hand'[p] = [s |-> s, to |-> t]
    BY <1>4, <2>1 DEF Turns, FanoutInv, TypeOK
  <2> QED
    BY <2>1, <2>2 DEF Carried
<1> SUFFICES ASSUME Read(s)' = Read(s)
             PROVE  \/ view'[s] = Read(s)'
                    \/ view'[s] = NoRow /\ Read(s)' = Born
                    \/ Read(s)' \in Turn /\ Carried(s, Read(s))'
                    \/ snap'.pc = "read"
                    \/ snap'.pc \in {"join", "apply"} /\ snap'.of[s] = Read(s)'
  BY <1>0, <1>4, ClockStep DEF TurnStep
<1>5. CASE Read(s) \in Turn /\ Carried(s, Read(s))
  <2>1. PICK r \in Turn : r = Read(s)
    BY <1>5
  <2>2. Carried(s, r) /\ (Carried(s, r)' => Carried(s, Read(s))')
    BY <1>5, <2>1 DEF Carried
  <2>3. Carried(s, r)' \/ s \in starved' \/ view'[s] = r
    BY <2>1, <2>2, CarriedStays
  <2> QED
    BY <1>0, <2>1, <2>2, <2>3
<1>6. ASSUME \/ view[s] = Read(s)
             \/ view[s] = NoRow /\ Read(s) = Born
             \/ snap.pc = "read"
             \/ snap.pc \in {"join", "apply"} /\ snap.of[s] = Read(s)
      PROVE  \/ view'[s] = Read(s)
             \/ view'[s] = NoRow /\ Read(s) = Born
             \/ snap'.pc = "read"
             \/ snap'.pc \in {"join", "apply"} /\ snap'.of[s] = Read(s)
  <2>1. ASSUME \/ Calm \/ TurnStep \/ Lapses \/ BridgeTake \/ BridgePersist
               \/ \E p \in OnBus : Publish(p)
        PROVE  view' = view /\ snap' = snap
    BY <2>1, PushBus, TakeBus, PersistsChange DEF Calm, TurnStep, Turns, Lapses
  <2>2. CASE BridgeEmit
    <3>1. /\ bridge.change \in Change /\ Deliver(bridge.change) /\ bridge.pc = "emit"
          /\ bridge.change.to \in Turn
      BY <2>2, EmitsChange DEF Sorted
    <3>2. Carried(bridge.change.s, bridge.change.to)
      BY <3>1, ChangeIs DEF Carried
    <3> QED
      BY <1>0, <1>6, <3>1, <3>2, DeliverOrdered, DeliverShows
  <2>3. ASSUME NEW p \in Direct, EmitDirect(p)
        PROVE  \/ view'[s] = Read(s)
               \/ view'[s] = NoRow /\ Read(s) = Born
               \/ snap'.pc = "read"
               \/ snap'.pc \in {"join", "apply"} /\ snap'.of[s] = Read(s)
    <3>0. p \in OnBus \cup Direct
      OBVIOUS
    <3>1. hand[p] \in Change /\ Deliver(hand[p]) /\ hand[p].to \in Turn
      BY <2>3, <3>0, EmitsDirect DEF Sorted
    <3>2. Carried(hand[p].s, hand[p].to)
      BY <3>0, <3>1, ChangeIs DEF Carried
    <3> QED
      BY <1>0, <1>6, <3>1, <3>2, DeliverOrdered, DeliverShows
  <2>4. ASSUME NEW q \in Session, AckState(q) PROVE view' = view /\ snap' = snap
    BY <2>4, AckFlags
  <2>5. ASSUME NEW q \in Session, MarkAcknowledged(q) PROVE view' = view /\ snap' = snap
    BY <2>5, PageSteps
  <2>6. CASE Reload
    BY <2>6, PageSteps DEF Load, NoSnap
  <2>7. CASE SnapshotRead
    BY <1>0, <1>6, <2>7, PageSteps
  <2>8. CASE SnapshotJoin
    BY <1>6, <2>8, PageSteps
  <2>9. CASE SnapshotApply
    <3>1. snap.pc = "apply" /\ view'[s] = snap.of[s] /\ ~Older(snap.of[s], view[s])
      BY <1>0, <2>9, PageSteps
    <3>2. Read(s) \in Turn \cup {Born} /\ snap.of[s] \in Turn \cup {Born, NoRow}
      BY <1>0 DEF Sorted
    <3>3. snap.of[s] # NoRow => snap.of[s].gen < Read(s).gen \/ snap.of[s] = Read(s)
      BY <3>2 DEF Ordered, Ahead
    <3>4. CASE view[s] = Read(s)
      <4>1. ~(snap.of[s] = NoRow) /\ ~(snap.of[s].gen < Read(s).gen)
        BY <3>1, <3>2, <3>4, TurnFacts DEF Older
      <4> QED
        BY <3>1, <3>3, <4>1
    <3>5. CASE view[s] = NoRow /\ Read(s) = Born
      <4>1. snap.of[s] # NoRow => ~(snap.of[s].gen < Read(s).gen)
        BY <3>2, <3>5, TurnFacts
      <4> QED
        BY <3>1, <3>3, <3>5, <4>1
    <3> QED
      BY <1>6, <3>1, <3>4, <3>5
  <2>10. ASSUME NEW q \in Session, AnnounceRemoved(q)
         PROVE  view'[s] = view[s] /\ snap' = snap
    <3>1. q # s
      BY <1>0, <2>10, LifeSteps DEF Stages
    <3> QED
      BY <1>0, <2>10, <3>1, LifeSteps DEF FanoutInv, TypeOK
  <2>11. ASSUME Settle \/ (\E q \in Session : Register(q) \/ Track(q) \/ Kill(q) \/ RemoveMachine(q))
         PROVE  view' = view /\ snap' = snap
    BY <2>11, LifeSteps
  <2> QED
    BY <1>6, <2>1, <2>2, <2>3, <2>4, <2>5, <2>6, <2>7, <2>8, <2>9, <2>10, <2>11, NextCases
<1> QED
  BY <1>3, <1>5, <1>6 DEF Latest

(* Together they are inductive. *)
FlowInv == FanoutInv /\ Sorted /\ Counted /\ Stages /\ Ordered /\ Latest

\* The invariant of the fan-out at the start.
LEMMA FlowInit == Init => FlowInv
<1> SUFFICES ASSUME Init PROVE FlowInv
  OBVIOUS
<1>1. FanoutInv
  BY FanoutInit
<1>2. \A s \in Session : Read(s) = Born /\ view[s] = NoRow /\ snap.of[s] = NoRow
                         /\ rows[s] = NoRow /\ saved[s] = NoRow /\ stage[s] = "new"
  BY FanoutAssumption DEF FanoutAssumption, Init, Read, Born, NewMachine, Load, NoSnap
<1>3. bus = <<>> /\ bridge.pc = "recv" /\ live = {} /\ \A p \in OnBus \cup Direct : hand[p] = None
  BY DEF Init
<1>4. Sorted
  BY <1>2, <1>3 DEF Sorted
<1>5. \A s \in Session : \A r \in Turn \cup {Born} : ~Ahead(s, r)
  <2>1. \A s \in Session, r \in Turn \cup {Born} : [s |-> s, to |-> r] # None
    BY TurnFacts DEF None
  <2>2. \A s \in Session : \A r \in Turn \cup {Born} : ~Carried(s, r)
    BY <1>3, <2>1 DEF Carried
  <2> QED
    BY <1>2, <2>2, TurnFacts DEF Ahead
<1>6. Counted
  BY <1>2, <1>5, TurnFacts DEF Counted, About
<1>7. Stages
  BY <1>2, <1>3, <1>5 DEF Stages
<1>8. Ordered /\ Latest
  BY <1>3 DEF Ordered, Latest
<1> QED
  BY <1>1, <1>4, <1>6, <1>7, <1>8 DEF FlowInv

\* Every step preserves the invariant of the fan-out.
LEMMA FlowStep == FlowInv /\ [Next]_vars => FlowInv'
BY TypeStep, SortedStep, CountedStep, StagesStep, OrderedStep, LatestStep DEF FlowInv

\* The invariant of the fan-out holds in every behaviour.
LEMMA FlowInvariant == Spec => []FlowInv
BY FlowInit, FlowStep, PTL DEF Spec

(* When everything is quiet, the webview shows what the machines say: the   *)
(* newest reading of a session is nowhere else any more.                    *)
THEOREM ShowsTheMachine == Spec => []Converges
<1>1. FlowInv => Converges
  <2> SUFFICES ASSUME FlowInv, NEW s \in live, Quiet, s \notin Astray
               PROVE  view[s] = IF entered[s] = 0 /\ view[s] = NoRow THEN NoRow ELSE Read(s)
    BY DEF Converges
  <2>0. s \in Session
    BY DEF FlowInv, FanoutInv, TypeOK
  <2>1. ASSUME NEW r \in Turn PROVE ~Carried(s, r)
    BY <2>0, ChangeIs DEF Quiet, Carried
  <2>2. snap.pc = "none"
    BY DEF Quiet
  <2>3. view[s] = Read(s) \/ (view[s] = NoRow /\ Read(s) = Born)
    BY <2>1, <2>2 DEF FlowInv, Latest
  <2>4. Read(s) = Born => entered[s] = 0
    BY DEF Read, Born
  <2>5. Read(s) # NoRow
    BY <2>0, TurnFacts DEF FlowInv, Sorted
  <2> QED
    BY <2>3, <2>4, <2>5
<1> QED
  BY <1>1, FlowInvariant, PTL

-----------------------------------------------------------------------------
(* The turns of a session.  A number tells its turns apart, and those the   *)
(* user dismissed were finished ones.                                       *)
Story ==
    \A s \in Session : \A r \in Turn : About(s, r) =>
        /\ r.gen \in seen[s] => r.state \in Done
        /\ \A q \in Turn : About(s, q) /\ q.gen = r.gen => q = r

Dismissals ==
    \A s \in Session :
        /\ \A g \in seen[s] : g \in 1..MaxChanges /\ g <= clock
        /\ kept[s] \subseteq seen[s]

(* Only the user dismisses, and only an answer makes it known to be kept. *)
LEMMA HistoryMoves ==
    ASSUME FanoutInv, [Next]_vars
    PROVE  /\ seen' = seen \/ \E q \in Session : MarkAcknowledged(q)
           /\ kept' = kept \/ \E q \in Session : AckState(q)
<1>1. ASSUME \/ Calm \/ TurnStep \/ Lapses \/ BridgeTake \/ BridgePersist
             \/ \E p \in OnBus : Publish(p)
      PROVE  seen' = seen /\ kept' = kept
  BY <1>1, PushBus, TakeBus, PersistsChange DEF Calm, TurnStep, Turns, Lapses
<1>2. ASSUME BridgeEmit \/ \E p \in Direct : EmitDirect(p)
      PROVE  seen' = seen /\ kept' = kept
  BY <1>2, EmitsChange, EmitsDirect, DeliverShows
<1>3. ASSUME NEW q \in Session, AckState(q) PROVE seen' = seen
  BY <1>3, AckFlags
<1>4. ASSUME Reload \/ SnapshotRead \/ SnapshotJoin \/ SnapshotApply
      PROVE  seen' = seen /\ kept' = kept
  BY <1>4, PageSteps
<1>5. ASSUME NEW q \in Session, MarkAcknowledged(q) PROVE kept' = kept
  BY <1>5, PageSteps
<1>6. ASSUME Settle \/ (\E s \in Session : \/ Register(s) \/ Track(s) \/ Kill(s)
                                           \/ RemoveMachine(s) \/ AnnounceRemoved(s))
      PROVE  seen' = seen /\ kept' = kept
  BY <1>6, LifeSteps
<1>7. CASE Restart
  BY <1>7, RestartSteps
<1> QED
  BY <1>1, <1>2, <1>3, <1>4, <1>5, <1>6, <1>7, NextCases

(* What the user dismisses is a numbered, finished turn. *)
LEMMA MarksTurn ==
    ASSUME FanoutInv, Sorted, Counted, NEW q \in Session, MarkAcknowledged(q)
    PROVE  /\ view[q] \in Turn /\ view[q].state \in Done /\ About(q, view[q])
           /\ view[q].gen <= clock /\ clock' = clock
           /\ \A s \in Session : seen'[s] = IF s = q THEN seen[s] \cup {view[q].gen} ELSE seen[s]
<1>1. view[q] # NoRow /\ view[q].state \in Done
  BY PageSteps
<1>2. Born.state \notin Done
  BY DEF Born, Done
<1>3. view[q] \in Turn
  BY <1>1, <1>2 DEF Sorted
<1>4. About(q, view[q])
  BY DEF About, Ahead
<1>5. seen' = [seen EXCEPT ![q] = @ \cup {view[q].gen}] /\ clock' = clock
  BY PageSteps
<1> QED
  BY <1>1, <1>3, <1>4, <1>5 DEF Counted, FanoutInv, TypeOK

\* What is dismissed has happened, and what is kept was dismissed.
LEMMA DismissalsStep ==
    FanoutInv /\ Sorted /\ Counted /\ Dismissals /\ [Next]_vars => Dismissals'
<1> SUFFICES ASSUME FanoutInv, Sorted, Counted, Dismissals, [Next]_vars, NEW s \in Session
             PROVE  /\ \A g \in seen'[s] : g \in 1..MaxChanges /\ g <= clock'
                    /\ kept'[s] \subseteq seen'[s]
  BY DEF Dismissals
<1>1. clock \in Nat /\ clock' \in Nat /\ clock <= clock'
  <2>1. clock \in Nat /\ clock' \in Nat /\ (clock' = clock + 1 \/ clock' = clock)
    BY ClockStep, Zenon
  <2> QED
    BY <2>1
<1>2. /\ \A g \in seen[s] : g \in 1..MaxChanges /\ g <= clock
      /\ kept[s] \subseteq seen[s]
  BY DEF Dismissals
<1>3. \A g \in seen[s] : g <= clock'
  BY <1>1, <1>2, TurnFacts
<1>4. ASSUME NEW q \in Session, MarkAcknowledged(q)
      PROVE  /\ \A g \in seen'[s] : g \in 1..MaxChanges /\ g <= clock'
             /\ kept'[s] \subseteq seen'[s]
  <2>1. kept' = kept
    BY <1>4, PageSteps
  <2>2. view[q].gen \in 1..MaxChanges /\ view[q].gen <= clock'
    BY <1>4, MarksTurn, TurnFacts
  <2>3. seen'[s] = seen[s] \/ seen'[s] = seen[s] \cup {view[q].gen}
    BY <1>4, MarksTurn
  <2> QED
    BY <1>2, <1>3, <2>1, <2>2, <2>3
<1>5. ASSUME NEW q \in Session, AckState(q)
      PROVE  seen' = seen /\ kept'[s] \subseteq seen[s]
  <2>1. seen' = seen /\ kept \in [Session -> SUBSET (0..MaxChanges)]
    BY <1>5, AckFlags DEF FanoutInv, TypeOK
  <2>2. kept' = kept \/ kept' = [kept EXCEPT ![q] = @ \cup ({rows[q].state.gen} \cap seen[q])]
    BY <1>5, AckFlags, Zenon
  <2>3. kept'[s] = kept[s] \/ kept'[s] \subseteq kept[s] \cup seen[s]
    BY <2>1, <2>2
  <2> QED
    BY <1>2, <2>1, <2>3
<1>6. CASE seen' = seen /\ kept' = kept
  BY <1>2, <1>3, <1>6
<1> QED
  BY <1>2, <1>3, <1>4, <1>5, <1>6, HistoryMoves

\* A number goes on telling the turns of a session apart.
LEMMA StoryStep ==
    FanoutInv /\ Sorted /\ Counted /\ Dismissals /\ Story /\ [Next]_vars => Story'
<1> SUFFICES ASSUME FanoutInv, Sorted, Counted, Dismissals, Story, [Next]_vars,
                    NEW s \in Session, NEW r \in Turn, About(s, r)'
             PROVE  /\ r.gen \in seen'[s] => r.state \in Done
                    /\ \A q \in Turn : About(s, q)' /\ q.gen = r.gen => q = r
  BY DEF Story
<1>1. \A q \in Turn : About(s, q)' =>
          About(s, q) \/ (clock' = clock + 1 /\ q.gen = clock' /\ q = Read(s)')
  BY AboutFrom
<1>2. \A q \in Turn : About(s, q) => q.gen # clock + 1
  <2> SUFFICES ASSUME NEW q \in Turn, About(s, q) PROVE q.gen # clock + 1
    OBVIOUS
  <2>1. q.gen <= clock /\ q.gen \in Nat /\ clock \in Nat
    BY ClockStep, TurnFacts DEF Counted
  <2> QED
    BY <2>1
<1>3. ASSUME NEW q \in Turn, About(s, q)', q.gen = r.gen PROVE q = r
  <2>1. CASE About(s, q) /\ About(s, r)
    BY <1>3, <2>1 DEF Story
  <2>2. CASE ~(About(s, q) /\ About(s, r))
    BY <1>1, <1>2, <1>3, <2>2
  <2> QED
    BY <2>1, <2>2
<1>4. ASSUME r.gen \in seen'[s] PROVE r.state \in Done
  <2>1. CASE About(s, r) /\ r.gen \in seen[s]
    BY <2>1 DEF Story
  <2>2. ASSUME NEW q \in Session, MarkAcknowledged(q), r.gen \notin seen[s] PROVE r.state \in Done
    <3>1. q = s /\ r.gen = view[s].gen
      BY <1>4, <2>2, MarksTurn
    <3>2. /\ view[s] \in Turn /\ view[s].state \in Done /\ About(s, view[s])
          /\ clock' = clock
      BY <2>2, <3>1, MarksTurn
    <3>3. About(s, r)
      BY <1>1, <3>2, ClockStep
    <3> QED
      BY <3>1, <3>2, <3>3 DEF Story
  <2>3. CASE ~About(s, r) /\ r.gen \in seen[s]
    <3>1. r.gen = clock + 1 /\ clock \in Nat
      BY <1>1, <2>3, ClockStep
    <3>2. r.gen <= clock
      BY <2>3 DEF Dismissals
    <3> QED
      BY <3>1, <3>2
  <2> QED
    BY <1>4, <2>1, <2>2, <2>3, HistoryMoves
<1> QED
  BY <1>3, <1>4

-----------------------------------------------------------------------------
(* A change is persisted at most once: those on their way to sessions.toml  *)
(* have different numbers, none that a row or a confirmed flag has.         *)
Pending(s, r) ==
    \/ \E p \in OnBus : hand[p] = [s |-> s, to |-> r]
    \/ \E i \in DOMAIN bus : bus[i] = [s |-> s, to |-> r]
    \/ bridge.pc = "persist" /\ bridge.change = [s |-> s, to |-> r]

Distinct ==
    /\ \A p, q \in OnBus :
          p # q /\ hand[p] # None /\ hand[q] # None => hand[p].to.gen # hand[q].to.gen
    /\ \A p \in OnBus, i \in DOMAIN bus : hand[p] # None => hand[p].to.gen # bus[i].to.gen
    /\ \A i, j \in DOMAIN bus : i # j => bus[i].to.gen # bus[j].to.gen
    /\ bridge.pc = "persist" =>
          /\ \A p \in OnBus : hand[p] # None => hand[p].to.gen # bridge.change.to.gen
          /\ \A i \in DOMAIN bus : bus[i].to.gen # bridge.change.to.gen

Unwritten ==
    \A s \in Session : \A r \in Turn : Pending(s, r) =>
        /\ r.gen \notin kept[s]
        /\ rows[s] # NoRow => rows[s].state.gen # r.gen
        /\ saved[s] # NoRow => saved[s].state.gen # r.gen

(* Where the bus was before a publication. *)
LEMMA PushedAt ==
    ASSUME FanoutInv, NEW p \in OnBus, Publish(p), NEW i \in DOMAIN bus', NEW j \in DOMAIN bus',
           i # j
    PROVE  \/ bus'[i] = hand[p] /\ \E k \in DOMAIN bus : bus'[j] = bus[k]
           \/ bus'[j] = hand[p] /\ \E k \in DOMAIN bus : bus'[i] = bus[k]
           \/ \E k, l \in DOMAIN bus : k # l /\ bus'[i] = bus[k] /\ bus'[j] = bus[l]
<1> DEFINE n == Len(bus)
           m == Len(bus')
<1>1. /\ DOMAIN bus = 1..n /\ n \in Nat
      /\ DOMAIN bus' = 1..m /\ m \in Nat \ {0} /\ bus'[m] = hand[p]
      /\ \/ m = n + 1 /\ \A k \in 1..n : bus'[k] = bus[k]
         \/ m = n /\ \A k \in 1..(n - 1) : bus'[k] = bus[k + 1]
  BY PushBus, BridgeHolds
<1> HIDE DEF n, m
<1>2. i \in 1..m /\ j \in 1..m
  BY <1>1
<1>3. CASE m = n + 1 /\ \A k \in 1..n : bus'[k] = bus[k]
  <2>1. \A k \in 1..m : k = m \/ k \in 1..n
    BY <1>1, <1>3
  <2> QED
    BY <1>1, <1>2, <1>3, <2>1
<1>4. CASE m = n /\ \A k \in 1..(n - 1) : bus'[k] = bus[k + 1]
  <2>1. \A k \in 1..m : k = m \/ (k \in 1..(n - 1) /\ k + 1 \in 1..n)
    BY <1>1, <1>4
  <2>2. i + 1 # j + 1
    BY <1>2
  <2>3. \A k \in 1..m : k = m \/ bus'[k] = bus[k + 1]
    BY <1>4, <2>1
  <2>4. CASE i = m
    <3>1. j + 1 \in 1..n /\ bus'[j] = bus[j + 1]
      BY <1>2, <2>1, <2>3, <2>4
    <3> QED
      BY <1>1, <2>4, <3>1
  <2>5. CASE j = m
    <3>1. i + 1 \in 1..n /\ bus'[i] = bus[i + 1]
      BY <1>2, <2>1, <2>3, <2>5
    <3> QED
      BY <1>1, <2>5, <3>1
  <2>6. CASE i # m /\ j # m
    <3>1. /\ i + 1 \in 1..n /\ bus'[i] = bus[i + 1]
          /\ j + 1 \in 1..n /\ bus'[j] = bus[j + 1]
      BY <1>2, <2>1, <2>3, <2>6
    <3> QED
      BY <1>1, <2>2, <3>1
  <2> QED
    BY <2>4, <2>5, <2>6
<1> QED
  BY <1>1, <1>3, <1>4

(* The tasks other than the one that steps keep what they hold. *)
LEMMA PathMoves ==
    ASSUME FanoutInv, [Next]_vars
    PROVE  \/ UNCHANGED <<hand, bus, bridge>>
           \/ \E p \in OnBus \cup Direct, s \in Session, r \in Turn : Turns(p, s, r)
           \/ \E p \in OnBus : Publish(p)
           \/ \E p \in Direct : EmitDirect(p)
           \/ BridgeTake \/ BridgePersist \/ BridgeEmit \/ Restart
           \/ /\ UNCHANGED <<hand, bus>>
              /\ bridge.pc = "persist" /\ bridge'.pc = "emit" /\ bridge'.change = bridge.change
<1>1. ASSUME NEW q \in Session, AckState(q) PROVE UNCHANGED <<hand, bus, bridge>>
  BY <1>1, AckFlags
<1>2. ASSUME \/ Calm \/ Settle \/ Reload \/ SnapshotRead \/ SnapshotJoin \/ SnapshotApply
             \/ \E q \in Session : \/ MarkAcknowledged(q) \/ Register(q) \/ Track(q) \/ Kill(q)
                                   \/ RemoveMachine(q) \/ AnnounceRemoved(q)
      PROVE  UNCHANGED <<hand, bus, bridge>>
  BY <1>2, PageSteps, LifeSteps DEF Calm
<1>3. CASE Lapses
  BY <1>3 DEF Lapses
<1> QED
  BY <1>1, <1>2, <1>3, NextCases DEF TurnStep

(* What is carried has been counted. *)
LEMMA CarriedCounted ==
    ASSUME FanoutInv, Sorted, Counted
    PROVE  /\ \A p \in OnBus \cup Direct : hand[p] # None => hand[p].to.gen <= clock
           /\ \A i \in DOMAIN bus : bus[i].to.gen <= clock
           /\ bridge.pc # "recv" => bridge.change.to.gen <= clock
<1>1. ASSUME NEW c \in Change, c.to \in Turn, Carried(c.s, c.to) PROVE c.to.gen <= clock
  BY <1>1 DEF Counted, About, Ahead, Change
<1>2. ASSUME NEW p \in OnBus \cup Direct, hand[p] # None PROVE hand[p].to.gen <= clock
  <2>1. hand[p] \in Change /\ hand[p].to \in Turn
    BY <1>2 DEF Sorted, FanoutInv, TypeOK
  <2>2. Carried(hand[p].s, hand[p].to)
    BY <2>1, ChangeIs DEF Carried
  <2> QED
    BY <1>1, <2>1, <2>2
<1>3. ASSUME NEW i \in DOMAIN bus PROVE bus[i].to.gen <= clock
  <2>1. bus[i] \in Change /\ bus[i].to \in Turn
    BY <1>3 DEF Sorted, FanoutInv, TypeOK
  <2>2. Carried(bus[i].s, bus[i].to)
    BY <2>1, ChangeIs DEF Carried
  <2> QED
    BY <1>1, <2>1, <2>2
<1>4. ASSUME bridge.pc # "recv" PROVE bridge.change.to.gen <= clock
  <2>1. bridge.change \in Change /\ bridge.change.to \in Turn
    BY <1>4 DEF Sorted, FanoutInv, Held
  <2>2. Carried(bridge.change.s, bridge.change.to)
    BY <1>4, <2>1, ChangeIs DEF Carried
  <2> QED
    BY <1>1, <2>1, <2>2
<1> QED
  BY <1>2, <1>3, <1>4

\* No step has two changes to persist with one number.
LEMMA DistinctStep == FanoutInv /\ Sorted /\ Counted /\ Distinct /\ [Next]_vars => Distinct'
<1> SUFFICES ASSUME FanoutInv, Sorted, Counted, Distinct, [Next]_vars PROVE Distinct'
  OBVIOUS
<1>a. /\ hand \in [OnBus \cup Direct -> Change \cup {None}]
      /\ DOMAIN bus = 1..Len(bus) /\ Len(bus) \in Nat
  BY BridgeHolds DEF FanoutInv, TypeOK
<1>1. CASE UNCHANGED <<hand, bus, bridge>>
  BY <1>1 DEF Distinct
<1>2. ASSUME NEW p \in OnBus \cup Direct, NEW s \in Session, NEW r \in Turn, Turns(p, s, r)
      PROVE  Distinct'
  <2>1. hand'[p].to.gen = clock + 1 /\ hand[p] = None /\ clock \in Nat
    <3>1. hand'[p] = [s |-> s, to |-> r] /\ hand[p] = None /\ r.gen = clock + 1
      BY <1>2, <1>a DEF Turns
    <3> QED
      BY <3>1, ClockStep
  <2>2. \A q \in OnBus \cup Direct : q # p => hand'[q] = hand[q]
    BY <1>2, <1>a DEF Turns
  <2>3. UNCHANGED <<bus, bridge>>
    BY <1>2 DEF Turns
  <2>4. /\ \A q \in OnBus \cup Direct : hand[q] # None => hand[q].to.gen # clock + 1
        /\ \A i \in DOMAIN bus : bus[i].to.gen # clock + 1
        /\ bridge.pc # "recv" => bridge.change.to.gen # clock + 1
    <3>1. \A r1 \in Turn : r1.gen <= clock => r1.gen # clock + 1
      BY <2>1, TurnFacts
    <3> QED
      BY <3>1, CarriedCounted DEF Sorted
  <2>5. \A q \in OnBus \cup Direct : hand'[q].to.gen = hand[q].to.gen \/ q = p
    BY <2>2
  <2> QED
    BY <2>1, <2>2, <2>3, <2>4 DEF Distinct
<1>3. ASSUME NEW p \in OnBus, Publish(p) PROVE Distinct'
  <2>1. hand[p] # None /\ hand' = [hand EXCEPT ![p] = None] /\ bridge' = bridge
    BY <1>3, PushBus
  <2>2. \A q \in OnBus : hand'[q] # None => q # p /\ hand'[q] = hand[q]
    BY <1>a, <2>1
  <2>3. \A i \in DOMAIN bus' : bus'[i] = hand[p] \/ \E k \in DOMAIN bus : bus'[i] = bus[k]
    BY <1>3, PushedFrom
  <2>4. ASSUME NEW i \in DOMAIN bus', NEW j \in DOMAIN bus', i # j
        PROVE  bus'[i].to.gen # bus'[j].to.gen
    <3>1. \/ bus'[i] = hand[p] /\ \E k \in DOMAIN bus : bus'[j] = bus[k]
          \/ bus'[j] = hand[p] /\ \E k \in DOMAIN bus : bus'[i] = bus[k]
          \/ \E k, l \in DOMAIN bus : k # l /\ bus'[i] = bus[k] /\ bus'[j] = bus[l]
      BY <1>3, <2>4, PushedAt
    <3> QED
      BY <2>1, <3>1 DEF Distinct
  <2>5. \A q \in OnBus, i \in DOMAIN bus' : hand'[q] # None => hand'[q].to.gen # bus'[i].to.gen
    BY <2>1, <2>2, <2>3 DEF Distinct
  <2>6. \A p1, q \in OnBus :
            p1 # q /\ hand'[p1] # None /\ hand'[q] # None => hand'[p1].to.gen # hand'[q].to.gen
    BY <2>2 DEF Distinct
  <2>7. bridge'.pc = "persist" =>
            /\ \A q \in OnBus : hand'[q] # None => hand'[q].to.gen # bridge'.change.to.gen
            /\ \A i \in DOMAIN bus' : bus'[i].to.gen # bridge'.change.to.gen
    BY <2>1, <2>2, <2>3 DEF Distinct
  <2> QED
    BY <2>4, <2>5, <2>6, <2>7 DEF Distinct
<1>4. ASSUME NEW p \in Direct, EmitDirect(p) PROVE Distinct'
  <2>1. UNCHANGED <<bus, bridge>> /\ hand' = [hand EXCEPT ![p] = None]
    BY <1>4, EmitsDirect
  <2>2. \A q \in OnBus : hand'[q] # None => hand'[q] = hand[q]
    BY <1>a, <2>1
  <2> QED
    BY <2>1, <2>2 DEF Distinct
<1>5. CASE BridgeTake
  <2>1. /\ \A i \in DOMAIN bus' : i + 1 \in DOMAIN bus /\ i + 1 # 1 /\ bus'[i] = bus[i + 1]
        /\ 1 \in DOMAIN bus
    BY <1>5, <1>a, TakeBus
  <2>2. \A i, j \in DOMAIN bus' : i # j => i + 1 # j + 1
    BY <1>5, <1>a, TakeBus
  <2>3. bridge'.change = bus[1] /\ hand' = hand
    BY <1>5, TakeBus
  <2>4. \A i, j \in DOMAIN bus' : i # j => bus'[i].to.gen # bus'[j].to.gen
    <3> SUFFICES ASSUME NEW i \in DOMAIN bus', NEW j \in DOMAIN bus', i # j
                 PROVE  bus'[i].to.gen # bus'[j].to.gen
      OBVIOUS
    <3>1. PICK k \in DOMAIN bus, l \in DOMAIN bus : k # l /\ bus'[i] = bus[k] /\ bus'[j] = bus[l]
      BY <2>1, <2>2
    <3> QED
      BY <3>1 DEF Distinct
  <2>5. \A i \in DOMAIN bus' : bus'[i].to.gen # bus[1].to.gen
    <3> SUFFICES ASSUME NEW i \in DOMAIN bus' PROVE bus'[i].to.gen # bus[1].to.gen
      OBVIOUS
    <3>1. PICK k \in DOMAIN bus : k # 1 /\ bus'[i] = bus[k]
      BY <2>1
    <3> QED
      BY <2>1, <3>1 DEF Distinct
  <2>6. \A q \in OnBus, i \in DOMAIN bus' : hand'[q] # None => hand'[q].to.gen # bus'[i].to.gen
    <3> SUFFICES ASSUME NEW q \in OnBus, NEW i \in DOMAIN bus', hand'[q] # None
                 PROVE  hand'[q].to.gen # bus'[i].to.gen
      OBVIOUS
    <3>1. PICK k \in DOMAIN bus : bus'[i] = bus[k]
      BY <2>1
    <3> QED
      BY <2>3, <3>1 DEF Distinct
  <2> QED
    BY <2>1, <2>3, <2>4, <2>5, <2>6 DEF Distinct
<1>6. CASE BridgePersist
  BY <1>6, PersistsChange DEF Distinct
<1>7. CASE BridgeEmit
  BY <1>7, EmitsChange DEF Distinct
<1>8. CASE Restart
  BY <1>8, RestartSteps DEF Distinct
<1>9. CASE UNCHANGED <<hand, bus>> /\ bridge'.pc = "emit"
  BY <1>9 DEF Distinct
<1> QED
  BY <1>1, <1>2, <1>3, <1>4, <1>5, <1>6, <1>7, <1>8, <1>9, PathMoves

(* Every pending turn was pending before, or is the one just entered. *)
LEMMA PendingFrom ==
    ASSUME FanoutInv, [Next]_vars, NEW s \in Session, NEW r \in Turn, Pending(s, r)'
    PROVE  \/ Pending(s, r)
           \/ clock' = clock + 1 /\ r.gen = clock'
<1> DEFINE c == [s |-> s, to |-> r]
<1>a. c # None
  BY ChangeIs
<1>b. /\ hand \in [OnBus \cup Direct -> Change \cup {None}]
      /\ DOMAIN bus = 1..Len(bus) /\ Len(bus) \in Nat
  BY BridgeHolds DEF FanoutInv, TypeOK
<1>c. /\ Pending(s, r) <=> \/ \E p \in OnBus : hand[p] = c
                           \/ \E i \in DOMAIN bus : bus[i] = c
                           \/ bridge.pc = "persist" /\ bridge.change = c
      /\ Pending(s, r)' <=> \/ \E p \in OnBus : hand'[p] = c
                            \/ \E i \in DOMAIN bus' : bus'[i] = c
                            \/ bridge'.pc = "persist" /\ bridge'.change = c
  BY DEF Pending
<1>d. c.s = s /\ c.to = r
  OBVIOUS
<1> HIDE DEF c
<1>1. CASE UNCHANGED <<hand, bus, bridge>>
  BY <1>1, <1>c
<1>2. ASSUME NEW p \in OnBus \cup Direct, NEW q \in Session, NEW t \in Turn, Turns(p, q, t)
      PROVE  Pending(s, r) \/ (clock' = clock + 1 /\ r.gen = clock')
  <2>1. \A o \in OnBus : hand'[o] = hand[o] \/ hand'[o] = [s |-> q, to |-> t]
    BY <1>2, <1>b DEF Turns
  <2>2. CASE c = [s |-> q, to |-> t]
    <3>1. r = t
      BY <1>d, <2>2
    <3> QED
      BY <1>2, <3>1 DEF Turns
  <2>3. CASE c # [s |-> q, to |-> t]
    BY <1>2, <1>c, <2>1, <2>3 DEF Turns
  <2> QED
    BY <2>2, <2>3
<1>3. ASSUME NEW p \in OnBus, Publish(p) PROVE Pending(s, r)
  <2>1. \A i \in DOMAIN bus' : bus'[i] = hand[p] \/ \E j \in DOMAIN bus : bus'[i] = bus[j]
    BY <1>3, PushedFrom
  <2>2. \A o \in OnBus : hand'[o] = hand[o] \/ hand'[o] = None
    BY <1>3, <1>b, PushBus
  <2>3. bridge' = bridge
    BY <1>3, PushBus
  <2>4. CASE \E o \in OnBus : hand'[o] = c
    BY <1>a, <1>c, <2>2, <2>4
  <2>5. CASE \E i \in DOMAIN bus' : bus'[i] = c
    BY <1>c, <2>1, <2>5
  <2> QED
    BY <1>c, <2>3, <2>4, <2>5
<1>4. ASSUME NEW p \in Direct, EmitDirect(p) PROVE Pending(s, r)
  <2>1. \A o \in OnBus : hand'[o] = hand[o] \/ hand'[o] = None
    BY <1>4, <1>b, EmitsDirect
  <2>2. UNCHANGED <<bus, bridge>>
    BY <1>4, EmitsDirect
  <2> QED
    BY <1>a, <1>c, <2>1, <2>2
<1>5. CASE BridgeTake
  <2>1. \A i \in DOMAIN bus' : i + 1 \in DOMAIN bus /\ bus'[i] = bus[i + 1]
    BY <1>5, <1>b, TakeBus
  <2>2. bridge'.change = bus[1] /\ 1 \in DOMAIN bus /\ hand' = hand
    BY <1>5, <1>b, TakeBus
  <2> QED
    BY <1>c, <2>1, <2>2
<1>6. CASE BridgePersist
  BY <1>6, <1>c, PersistsChange
<1>7. CASE BridgeEmit
  BY <1>7, <1>c, EmitsChange
<1>8. CASE Restart
  BY <1>8, <1>a, <1>c, RestartSteps
<1>9. CASE UNCHANGED <<hand, bus>> /\ bridge'.pc = "emit"
  BY <1>9, <1>c
<1> QED
  BY <1>1, <1>2, <1>3, <1>4, <1>5, <1>6, <1>7, <1>8, <1>9, PathMoves

(* What a step does to the row of a session. *)
LEMMA RowMoves ==
    ASSUME FanoutInv, [Next]_vars, NEW s \in Session
    PROVE  \/ BridgePersist /\ bridge.change.s = s
           \/ rows'[s] = rows[s]
           \/ rows[s] # NoRow /\ rows'[s] # NoRow /\ rows'[s].state = rows[s].state
           \/ rows[s] = NoRow /\ rows'[s] = NewRow(Unset)
           \/ rows'[s] = NoRow /\ stage'[s] = "machine"
           \/ Lapses /\ rows'[s] = saved[s]
           \/ Restart
<1>a. rows \in [Session -> Row \cup {NoRow}]
      /\ stage \in [Session -> {"new", "track", "open", "machine", "announce", "gone"}]
  BY DEF FanoutInv, TypeOK
<1>1. CASE BridgePersist
  BY <1>1, PersistsChange
<1>2. ASSUME NEW q \in Session, AckState(q)
      PROVE  \/ rows'[s] = rows[s]
             \/ rows[s] # NoRow /\ rows'[s] # NoRow /\ rows'[s].state = rows[s].state
  BY <1>2, AckFlags
<1>3. ASSUME NEW q \in Session, Track(q)
      PROVE  rows'[s] = rows[s] \/ (rows[s] = NoRow /\ rows'[s] = NewRow(Unset))
  BY <1>3, <1>a, LifeSteps
<1>4. ASSUME NEW q \in Session, Kill(q)
      PROVE  rows'[s] = rows[s] \/ (rows'[s] = NoRow /\ stage'[s] = "machine")
  BY <1>4, <1>a, LifeSteps
<1>5. ASSUME Settle \/ \E q \in Session : Register(q) \/ RemoveMachine(q) \/ AnnounceRemoved(q)
      PROVE  rows' = rows
  BY <1>5, LifeSteps
<1>6. ASSUME \/ Calm \/ TurnStep \/ BridgeTake
             \/ \E p \in OnBus : Publish(p)
      PROVE  rows' = rows
  BY <1>6, PushBus, TakeBus DEF Calm, TurnStep, Turns
<1>7. ASSUME BridgeEmit \/ \E p \in Direct : EmitDirect(p)
      PROVE  rows' = rows
  BY <1>7, EmitsChange, EmitsDirect
<1>8. ASSUME \/ Reload \/ SnapshotRead \/ SnapshotJoin \/ SnapshotApply
             \/ \E q \in Session : MarkAcknowledged(q)
      PROVE  rows' = rows
  BY <1>8, PageSteps
<1>9. CASE Lapses
  BY <1>9 DEF Lapses
<1> QED
  BY <1>1, <1>2, <1>3, <1>4, <1>5, <1>6, <1>7, <1>8, <1>9, NextCases

(* The disk only ever takes what the readers see. *)
LEMMA SavedMoves ==
    ASSUME FanoutInv, [Next]_vars
    PROVE  saved' = saved \/ saved' = rows'
<1>1. Ledger!LedgerNext \/ UNCHANGED <<rows, saved>>
  BY FanoutLedgerStep
<1>2. ASSUME NEW s \in Session, Ledger!Record(s) \/ Ledger!Touch(s)
      PROVE  saved' = saved \/ saved' = rows'
  BY <1>2 DEF Ledger!Record, Ledger!Touch
<1>3. Ledger!Settle \/ Ledger!FallBack => saved' = saved \/ saved' = rows'
  BY DEF Ledger!Settle, Ledger!FallBack
<1> QED
  BY <1>1, <1>2, <1>3 DEF Ledger!LedgerNext

(* Confirming adds the number of the row to the turns known to be kept. *)
LEMMA KeptMoves ==
    ASSUME FanoutInv, [Next]_vars, NEW s \in Session, NEW g \in kept'[s], g \notin kept[s]
    PROVE  /\ AckState(s) /\ s \in unsent /\ g \in seen[s]
           /\ rows[s] # NoRow /\ view[s] = rows[s].state /\ g = rows[s].state.gen
<1>1. PICK q \in Session : AckState(q)
  BY HistoryMoves
<1>2. \/ kept' = kept
      \/ /\ q \in unsent /\ rows[q] # NoRow /\ view[q] = rows[q].state
         /\ kept' = [kept EXCEPT ![q] = @ \cup ({rows[q].state.gen} \cap seen[q])]
  BY <1>1, AckFlags, Zenon
<1>3. kept \in [Session -> SUBSET (0..MaxChanges)]
  BY DEF FanoutInv, TypeOK
<1>4. q = s
  BY <1>2, <1>3
<1>5. g \in kept[s] \cup ({rows[s].state.gen} \cap seen[s])
  BY <1>2, <1>3, <1>4
<1> QED
  BY <1>1, <1>2, <1>4, <1>5

\* A turn still to be persisted is neither in its row nor known to be kept.
LEMMA UnwrittenStep ==
    FanoutInv /\ Sorted /\ Counted /\ Dismissals /\ Distinct /\ Unwritten /\ [Next]_vars
        => Unwritten'
<1> SUFFICES ASSUME FanoutInv, Sorted, Counted, Dismissals, Distinct, Unwritten, [Next]_vars,
                    NEW s \in Session, NEW r \in Turn, Pending(s, r)'
             PROVE  /\ r.gen \notin kept'[s]
                    /\ rows'[s] # NoRow => rows'[s].state.gen # r.gen
                    /\ saved'[s] # NoRow => saved'[s].state.gen # r.gen
  BY DEF Unwritten
<1>1. clock \in Nat /\ r.gen \in Nat /\ r.gen # 0
  BY ClockStep, TurnFacts
<1>2. ~Restart
  <2>1. CASE Restart
    BY <2>1, RestartSteps, ChangeIs DEF Pending
  <2> QED
    BY <2>1
<1>3. /\ r.gen \notin kept[s]
      /\ rows[s] # NoRow => rows[s].state.gen # r.gen
      /\ saved[s] # NoRow => saved[s].state.gen # r.gen
  <2>1. CASE Pending(s, r)
    BY <2>1 DEF Unwritten
  <2>2. CASE r.gen = clock + 1
    <3>1. r.gen \notin seen[s]
      <4>1. \A g \in seen[s] : g <= clock /\ g \in Nat
        BY TurnFacts DEF Dismissals
      <4> QED
        BY <1>1, <2>2, <4>1
    <3>2. ASSUME rows[s] # NoRow PROVE rows[s].state.gen # r.gen
      <4>1. CASE rows[s].state = Unset
        BY <1>1, <4>1, TurnFacts
      <4>2. CASE rows[s].state \in Turn
        <5>1. rows[s].state.gen <= clock
          BY <3>2, <4>2 DEF Counted, About
        <5> QED
          BY <1>1, <2>2, <4>2, <5>1, TurnFacts
      <4> QED
        BY <3>2, <4>1, <4>2 DEF Sorted
    <3>3. ASSUME saved[s] # NoRow PROVE saved[s].state.gen # r.gen
      <4>1. CASE saved[s].state = Unset
        BY <1>1, <4>1, TurnFacts
      <4>2. CASE saved[s].state \in Turn
        <5>1. saved[s].state.gen <= clock
          BY <3>3, <4>2 DEF Counted, About
        <5> QED
          BY <1>1, <2>2, <4>2, <5>1, TurnFacts
      <4> QED
        BY <3>3, <4>1, <4>2 DEF Sorted
    <3> QED
      BY <3>1, <3>2, <3>3 DEF Dismissals
  <2>3. Pending(s, r) \/ r.gen = clock + 1
    BY PendingFrom
  <2> QED
    BY <2>1, <2>2, <2>3
<1>4. r.gen \notin kept'[s]
  BY <1>3, KeptMoves
<1>5. ASSUME rows'[s] # NoRow PROVE rows'[s].state.gen # r.gen
  <2>1. CASE BridgePersist /\ bridge.change.s = s
    <3>1. rows'[s].state = bridge.change.to /\ bridge.pc = "persist" /\ bridge'.pc = "emit"
          /\ hand' = hand /\ bus' = bus
      BY <2>1, PersistsChange
    <3>2. \/ \E p \in OnBus : hand[p] = [s |-> s, to |-> r]
          \/ \E i \in DOMAIN bus : bus[i] = [s |-> s, to |-> r]
      BY <3>1 DEF Pending
    <3>3. [s |-> s, to |-> r] # None /\ [s |-> s, to |-> r].to = r
      BY ChangeIs
    <3> QED
      BY <3>1, <3>2, <3>3 DEF Distinct
  <2>2. CASE rows[s] = NoRow /\ rows'[s] = NewRow(Unset)
    BY <1>1, <2>2, TurnFacts DEF NewRow
  <2> QED
    BY <1>2, <1>3, <1>5, <2>1, <2>2, RowMoves
<1>6. ASSUME saved'[s] # NoRow PROVE saved'[s].state.gen # r.gen
  BY <1>3, <1>5, <1>6, SavedMoves
<1> QED
  BY <1>4, <1>5, <1>6

-----------------------------------------------------------------------------
(* A flag known to be kept is on its row and on disk.  A flagged row never  *)
(* lags on disk.                                                            *)
Flags ==
    \A s \in Session :
        /\ rows[s] # NoRow /\ rows[s].acked => saved[s] = rows[s]
        /\ rows[s] # NoRow /\ rows[s].state.gen \in kept[s] => rows[s].acked
        /\ saved[s] # NoRow /\ saved[s].state.gen \in kept[s] => saved[s].acked

(* Steps that leave the table alone, or write what readers see.             *)
LEMMA FlagsFrame ==
    ASSUME Flags, NEW s \in Session, kept'[s] = kept[s], rows'[s] = rows[s],
           saved'[s] = saved[s] \/ saved'[s] = rows'[s]
    PROVE  /\ rows'[s] # NoRow /\ rows'[s].acked => saved'[s] = rows'[s]
           /\ rows'[s] # NoRow /\ rows'[s].state.gen \in kept'[s] => rows'[s].acked
           /\ saved'[s] # NoRow /\ saved'[s].state.gen \in kept'[s] => saved'[s].acked
BY DEF Flags

\* No step loses the flag of a turn known to be kept, in the row or on disk.
LEMMA FlagsStep ==
    FanoutInv /\ Sorted /\ Dismissals /\ Unwritten /\ Flags /\ [Next]_vars => Flags'
<1> SUFFICES ASSUME FanoutInv, Sorted, Dismissals, Unwritten, Flags, [Next]_vars, NEW s \in Session
             PROVE  /\ rows'[s] # NoRow /\ rows'[s].acked => saved'[s] = rows'[s]
                    /\ rows'[s] # NoRow /\ rows'[s].state.gen \in kept'[s] => rows'[s].acked
                    /\ saved'[s] # NoRow /\ saved'[s].state.gen \in kept'[s] => saved'[s].acked
  BY DEF Flags
<1>a. /\ rows \in [Session -> Row \cup {NoRow}] /\ saved \in [Session -> Row \cup {NoRow}]
      /\ kept \in [Session -> SUBSET (0..MaxChanges)]
  BY DEF FanoutInv, TypeOK
<1>1. CASE BridgePersist
  <2>1. bridge.change \in Change /\ bridge.change.s \in Session /\ bridge.change.to \in Turn
        /\ bridge.pc = "persist"
    BY <1>1, PersistsChange DEF Change, Sorted
  <2>2. kept' = kept /\ (saved' = rows' \/ saved' = saved)
    BY <1>1, PersistsChange, HistoryMoves
  <2>3. CASE bridge.change.s # s
    <3>1. rows'[s] = rows[s]
      BY <1>1, <2>3, PersistsChange
    <3>2. saved'[s] = saved[s] \/ saved'[s] = rows'[s]
      BY <2>2
    <3> QED
      BY <2>2, <3>1, <3>2, FlagsFrame
  <2>4. CASE bridge.change.s = s
    <3>1. rows'[s].acked = FALSE /\ rows'[s].state = bridge.change.to
      BY <1>1, <2>4, PersistsChange
    <3>2. Pending(s, bridge.change.to)
      BY <2>1, <2>4, ChangeIs DEF Pending
    <3>3. bridge.change.to.gen \notin kept'[s]
      BY <2>1, <2>2, <3>2 DEF Unwritten
    <3>4. CASE saved' = rows'
      BY <3>1, <3>3, <3>4
    <3>5. CASE saved' = saved
      BY <2>2, <3>1, <3>3, <3>5 DEF Flags
    <3> QED
      BY <2>2, <3>4, <3>5
  <2> QED
    BY <2>3, <2>4
<1>2. ASSUME NEW q \in Session, AckState(q)
      PROVE  /\ rows'[s] # NoRow /\ rows'[s].acked => saved'[s] = rows'[s]
             /\ rows'[s] # NoRow /\ rows'[s].state.gen \in kept'[s] => rows'[s].acked
             /\ saved'[s] # NoRow /\ saved'[s].state.gen \in kept'[s] => saved'[s].acked
  <2>1. \/ rows' = rows /\ saved' = saved
        \/ /\ rows[q] # NoRow /\ ~rows[q].acked /\ saved' = rows'
           /\ rows'[q] # NoRow /\ rows'[q].acked /\ rows'[q].state = rows[q].state
           /\ \A o \in Session \ {q} : rows'[o] = rows[o]
    BY <1>2, AckFlags, Zenon
  <2>2. \/ kept' = kept
        \/ /\ kept' = [kept EXCEPT ![q] = @ \cup ({rows[q].state.gen} \cap seen[q])]
           /\ rows'[q] # NoRow /\ rows'[q].acked /\ rows'[q].state = rows[q].state
    BY <1>2, AckFlags, Zenon
  <2>3. CASE q # s
    <3>1. kept'[s] = kept[s] /\ rows'[s] = rows[s]
      BY <1>a, <2>1, <2>2, <2>3
    <3>2. saved'[s] = saved[s] \/ saved'[s] = rows'[s]
      BY <2>1
    <3> QED
      BY <3>1, <3>2, FlagsFrame
  <2>4. CASE q = s /\ rows'[s] # NoRow /\ rows'[s].acked
    <3>1. saved'[s] = rows'[s]
      BY <2>1, <2>4 DEF Flags
    <3> QED
      BY <2>4, <3>1
  <2>5. CASE q = s /\ ~(rows'[s] # NoRow /\ rows'[s].acked)
    <3>1. kept' = kept /\ rows' = rows /\ saved' = saved
      BY <2>1, <2>2, <2>5
    <3> QED
      BY <3>1, FlagsFrame
  <2> QED
    BY <2>3, <2>4, <2>5
<1>3. ASSUME NEW q \in Session,
             Register(q) \/ Track(q) \/ Kill(q) \/ RemoveMachine(q) \/ AnnounceRemoved(q)
      PROVE  /\ rows'[s] # NoRow /\ rows'[s].acked => saved'[s] = rows'[s]
             /\ rows'[s] # NoRow /\ rows'[s].state.gen \in kept'[s] => rows'[s].acked
             /\ saved'[s] # NoRow /\ saved'[s].state.gen \in kept'[s] => saved'[s].acked
  <2>1. kept' = kept /\ (saved' = rows' \/ (saved' = saved /\ rows' = rows))
    BY <1>3, LifeSteps
  <2>2. CASE rows'[s] = rows[s]
    <3>1. saved'[s] = saved[s] \/ saved'[s] = rows'[s]
      BY <2>1
    <3> QED
      BY <2>1, <2>2, <3>1, FlagsFrame
  <2>3. CASE rows'[s] = NoRow /\ saved' = rows'
    BY <2>3
  <2>4. CASE rows'[s] = NewRow(Unset) /\ saved' = rows'
    <3>1. rows'[s].acked = FALSE /\ rows'[s].state = Unset
      BY <2>4 DEF NewRow
    <3>2. 0 \notin kept[s]
      BY TurnFacts DEF Dismissals
    <3> QED
      BY <2>1, <2>4, <3>1, <3>2, TurnFacts
  <2>5. rows'[s] = rows[s] \/ (saved' = rows' /\ (rows'[s] = NoRow \/ rows'[s] = NewRow(Unset)))
    BY <1>3, <1>a, LifeSteps
  <2> QED
    BY <2>2, <2>3, <2>4, <2>5
<1>4. CASE Settle
  <2>1. kept' = kept /\ rows' = rows /\ saved' = rows
    BY <1>4, LifeSteps
  <2> QED
    BY <2>1, FlagsFrame
<1>5. CASE Restart
  BY <1>5, RestartSteps DEF Flags
<1>6. ASSUME \/ Calm \/ TurnStep \/ BridgeTake
             \/ \E p \in OnBus : Publish(p)
      PROVE  rows' = rows /\ saved' = saved /\ kept' = kept
  BY <1>6, PushBus, TakeBus DEF Calm, TurnStep, Turns
<1>7. ASSUME BridgeEmit \/ \E p \in Direct : EmitDirect(p)
      PROVE  rows' = rows /\ saved' = saved /\ kept' = kept
  BY <1>7, EmitsChange, EmitsDirect, DeliverShows
<1>8. ASSUME \/ Reload \/ SnapshotRead \/ SnapshotJoin \/ SnapshotApply
             \/ \E q \in Session : MarkAcknowledged(q)
      PROVE  rows' = rows /\ saved' = saved /\ kept' = kept
  BY <1>8, PageSteps
<1>9. CASE rows' = rows /\ saved' = saved /\ kept' = kept
  BY <1>9, FlagsFrame
<1>10. CASE Lapses
  BY <1>10 DEF Lapses, Flags
<1> QED
  BY <1>1, <1>2, <1>3, <1>4, <1>5, <1>6, <1>7, <1>8, <1>9, <1>10, NextCases

(* The newest turn of a live session, when it is known to be kept, is the   *)
(* one in the session's row.                                                *)
Placed(s) == s \notin Astray /\ stage[s] # "machine" /\ Read(s).gen \in kept[s]

RowKept == \A s \in live : Placed(s) => rows[s] # NoRow /\ rows[s].state = Read(s)

(* Where a placed session comes from. *)
LEMMA PlacedFrom ==
    ASSUME FlowInv, Dismissals, [Next]_vars, ~Restart,
           NEW s \in live', Placed(s)'
    PROVE  /\ s \in Session /\ s \in live /\ Read(s)' = Read(s) /\ Read(s) \in Turn
           /\ s \notin crossed' /\ s \notin starved'
           /\ s \notin Astray /\ stage[s] # "machine" /\ stage'[s] # "machine"
           /\ Read(s).gen \in kept'[s]
<1> USE DEF FlowInv
<1>0. s \in Session
  BY TypeStep DEF FanoutInv, TypeOK
<1>1. s \notin Astray /\ s \notin crossed' /\ s \notin starved' /\ stage'[s] # "machine"
      /\ Read(s)'.gen \in kept'[s]
  BY AstrayStays DEF Placed, Astray
<1>2. Read(s)' = Read(s) /\ (s \notin live => stage[s] = "new")
  <2>1. s \notin live => stage[s] = "new"
    BY <1>0, StageMoves
  <2>2. ASSUME NEW p \in OnBus \cup Direct, NEW q \in Session, NEW t \in Turn, Turns(p, q, t)
        PROVE  Read(s)' = Read(s)
    <3>1. CASE q = s
      <4>1. Read(s)'.gen = clock + 1 /\ kept' = kept
        BY <2>2, <3>1 DEF Turns
      <4>2. clock + 1 \in kept[s]
        BY <1>1, <4>1
      <4>3. clock + 1 <= clock /\ clock \in Nat
        BY <1>0, <4>2, ClockStep DEF Dismissals
      <4> QED
        BY <4>3
    <3>2. CASE q # s
      BY <1>0, <2>2, <3>2 DEF Turns
    <3> QED
      BY <3>1, <3>2
  <2> QED
    BY <1>0, <2>1, <2>2, ClockStep DEF TurnStep
<1>3. s \in live
  <2> SUFFICES ASSUME s \notin live PROVE FALSE
    OBVIOUS
  <2>1. Read(s) = Born
    BY <1>0, <1>2 DEF Stages
  <2>2. 0 \in kept'[s]
    BY <1>1, <1>2, <2>1, TurnFacts
  <2> QED
    BY <1>0, <2>2, DismissalsStep, TurnFacts DEF Dismissals
<1>4. stage[s] # "machine"
  <2>1. stage[s] = "machine" => stage'[s] = "machine" \/ s \notin live'
    BY <1>0, StageMoves
  <2> QED
    BY <1>1, <2>1
<1>5. Read(s) \in Turn
  <2>1. Read(s)'.gen # 0
    BY <1>0, <1>1, DismissalsStep, TurnFacts DEF Dismissals
  <2> QED
    BY <1>0, <1>2, <2>1, TurnFacts DEF Sorted
<1> QED
  BY <1>0, <1>1, <1>2, <1>3, <1>4, <1>5

(* A turn just confirmed: the row, the webview and the machine have it.     *)
LEMMA Confirmed ==
    ASSUME FanoutInv, Sorted, Dismissals, Story, [Next]_vars, NEW s \in Session, Read(s) \in Turn,
           Read(s).gen \in kept'[s], Read(s).gen \notin kept[s]
    PROVE  /\ AckState(s) /\ s \in acks
           /\ rows[s] # NoRow /\ rows[s].state = Read(s) /\ view[s] = Read(s)
<1>1. /\ AckState(s) /\ s \in unsent
      /\ rows[s] # NoRow /\ view[s] = rows[s].state /\ Read(s).gen = rows[s].state.gen
  BY KeptMoves
<1>2. rows[s].state \in Turn
  BY <1>1, TurnFacts DEF Sorted
<1>3. About(s, rows[s].state) /\ About(s, Read(s))
  BY <1>1 DEF About
<1>4. rows[s].state = Read(s)
  BY <1>1, <1>2, <1>3 DEF Story
<1> QED
  BY <1>1, <1>4 DEF FanoutInv, TypeOK

\* While the newest turn is known to be kept, every step leaves it in the row.
LEMMA RowKeptStep ==
    FlowInv /\ Dismissals /\ Story /\ Unwritten /\ Flags /\ RowKept /\ [Next]_vars => RowKept'
<1> SUFFICES ASSUME FlowInv, Dismissals, Story, Unwritten, Flags, RowKept, [Next]_vars,
                    NEW s \in live', Placed(s)'
             PROVE  rows'[s] # NoRow /\ rows'[s].state = Read(s)'
  BY DEF RowKept
<1> USE DEF FlowInv
<1>0. s \in Session
  BY TypeStep DEF FanoutInv, TypeOK
<1>1. CASE Restart
  <2>1. rows'[s] = saved[s] /\ saved[s] # NoRow
    BY <1>0, <1>1, RestartSteps
  <2>2. Read(s)' # Born
    <3>1. 0 \notin kept'[s]
      BY <1>0, DismissalsStep, TurnFacts DEF Dismissals
    <3> QED
      BY <3>1, TurnFacts DEF Placed
  <2> QED
    BY <1>0, <1>1, <2>1, <2>2, RestartSteps
<1>2. CASE ~Restart
  <2>1. /\ s \in live /\ Read(s)' = Read(s) /\ Read(s) \in Turn /\ s \notin crossed'
        /\ s \notin Astray /\ stage[s] # "machine" /\ stage'[s] # "machine"
        /\ Read(s).gen \in kept'[s]
    BY <1>2, PlacedFrom
  <2>2. rows[s] # NoRow /\ rows[s].state = Read(s)
    <3>1. CASE Read(s).gen \in kept[s]
      BY <2>1, <3>1 DEF RowKept, Placed
    <3>2. CASE Read(s).gen \notin kept[s]
      BY <1>0, <2>1, <3>2, Confirmed
    <3> QED
      BY <3>1, <3>2
  <2>3. ASSUME BridgePersist, bridge.change.s = s PROVE FALSE
    <3>1. /\ bridge.pc = "persist" /\ bridge.change \in Change /\ bridge.change.to \in Turn
          /\ kept' = kept
      BY <2>3, PersistsChange, HistoryMoves DEF Sorted
    <3>2. Pending(s, bridge.change.to) /\ Ahead(s, bridge.change.to)
      BY <2>3, <3>1, ChangeIs DEF Pending, Ahead, Carried
    <3>3. bridge.change.to.gen < Read(s).gen \/ bridge.change.to = Read(s)
      BY <2>1, <3>1, <3>2 DEF Ordered
    <3>4. bridge.change.to # Read(s)
      BY <1>0, <2>1, <3>1, <3>2 DEF Unwritten
    <3>5. Older(bridge.change.to, rows[s].state)
      BY <2>1, <2>2, <3>3, <3>4, TurnFacts DEF Older
    <3> QED
      BY <2>1, <2>2, <2>3, <3>5, PersistsChange
  <2>4. CASE Lapses /\ rows'[s] = saved[s]
    <3>1. Read(s).gen \in kept[s]
      BY <2>1, <2>4 DEF Lapses
    <3>2. saved[s] = rows[s]
      BY <1>0, <2>2, <3>1 DEF Flags
    <3> QED
      BY <2>1, <2>2, <2>4, <3>2
  <2> QED
    BY <1>0, <1>2, <2>1, <2>2, <2>3, <2>4, RowMoves
<1> QED
  BY <1>1, <1>2

(* The webview has dismissed such a turn, or a loading page is about to:    *)
(* its snapshot reads the turn, and finds the flag on the row.              *)
Quieted ==
    \A s \in live : Placed(s) =>
        \/ s \in acks /\ view[s] = Read(s)
        \/ snap.pc = "read"
        \/ snap.pc = "join" /\ snap.of[s] = Read(s)
        \/ snap.pc = "apply" /\ snap.of[s] = Read(s) /\ s \in snap.acked

(* A finished turn stays dismissed when a change is delivered. *)
LEMMA DeliverQuiet ==
    ASSUME FanoutInv, Sorted, Ordered, Dismissals, Story, NEW change \in Change, Deliver(change),
           change.to \in Turn, Carried(change.s, change.to),
           NEW s \in live, s \notin crossed', s \in acks, view[s] = Read(s), Read(s) \in Turn,
           Read(s).gen \in kept[s]
    PROVE  s \in acks' /\ view'[s] = Read(s)
<1>1. s \in Session /\ change.s \in Session
  BY DEF FanoutInv, TypeOK, Change
<1>2. view'[s] = Read(s)
  BY DeliverOrdered
<1>3. CASE change.s # s
  BY <1>1, <1>2, <1>3, DeliverShows
<1>4. CASE change.s = s
  <2>1. change.to = Read(s)
    BY <1>2, <1>4, DeliverShows
  <2>2. Read(s).gen \in seen[s] /\ About(s, Read(s))
    BY <1>1 DEF Dismissals, About
  <2>3. change.to.state \notin {"working", "idle"}
    BY <1>1, <2>1, <2>2 DEF Story, Done
  <2> QED
    BY <1>2, <2>3, DeliverShows
<1> QED
  BY <1>3, <1>4

\* No step shows the newest turn undismissed once it is known to be kept.
LEMMA QuietedStep ==
    FlowInv /\ Dismissals /\ Story /\ Flags /\ RowKept /\ Quieted /\ [Next]_vars => Quieted'
<1> SUFFICES ASSUME FlowInv, Dismissals, Story, Flags, RowKept, Quieted, [Next]_vars,
                    NEW s \in live', Placed(s)'
             PROVE  \/ s \in acks' /\ view'[s] = Read(s)'
                    \/ snap'.pc = "read"
                    \/ snap'.pc = "join" /\ snap'.of[s] = Read(s)'
                    \/ snap'.pc = "apply" /\ snap'.of[s] = Read(s)' /\ s \in snap'.acked
  BY DEF Quieted
<1> USE DEF FlowInv
<1>1. CASE Restart
  BY <1>1, RestartSteps DEF Load, NoSnap
<1> SUFFICES ASSUME ~Restart
             PROVE  \/ s \in acks' /\ view'[s] = Read(s)
                    \/ snap'.pc = "read"
                    \/ snap'.pc = "join" /\ snap'.of[s] = Read(s)
                    \/ snap'.pc = "apply" /\ snap'.of[s] = Read(s) /\ s \in snap'.acked
  BY <1>1, PlacedFrom
<1>2. /\ s \in Session /\ s \in live /\ Read(s) \in Turn /\ Read(s)' = Read(s)
      /\ s \notin crossed' /\ s \notin Astray /\ stage[s] # "machine"
      /\ Read(s).gen \in kept'[s]
  BY PlacedFrom
<1>3. CASE Read(s).gen \notin kept[s]
  <2>1. AckState(s) /\ s \in acks /\ view[s] = Read(s)
    BY <1>2, <1>3, Confirmed
  <2> QED
    BY <1>2, <2>1, AckFlags
<1> SUFFICES ASSUME Read(s).gen \in kept[s]
             PROVE  \/ s \in acks' /\ view'[s] = Read(s)
                    \/ snap'.pc = "read"
                    \/ snap'.pc = "join" /\ snap'.of[s] = Read(s)
                    \/ snap'.pc = "apply" /\ snap'.of[s] = Read(s) /\ s \in snap'.acked
  BY <1>3
<1>4. \/ s \in acks /\ view[s] = Read(s)
      \/ snap.pc = "read"
      \/ snap.pc = "join" /\ snap.of[s] = Read(s)
      \/ snap.pc = "apply" /\ snap.of[s] = Read(s) /\ s \in snap.acked
  BY <1>2 DEF Quieted, Placed
<1>5. rows[s] # NoRow /\ rows[s].state = Read(s) /\ rows[s].acked
  BY <1>2 DEF RowKept, Placed, Flags
<1>6. Read(s).state \in Done
  <2>1. About(s, Read(s)) /\ Read(s).gen \in seen[s]
    BY <1>2 DEF About, Dismissals
  <2> QED
    BY <1>2, <2>1 DEF Story
<1>7. ASSUME \/ Calm \/ TurnStep \/ Lapses \/ BridgeTake \/ BridgePersist
             \/ \E p \in OnBus : Publish(p)
      PROVE  UNCHANGED <<view, snap, acks>>
  BY <1>7, PushBus, TakeBus, PersistsChange DEF Calm, TurnStep, Turns, Lapses
<1>8. ASSUME NEW change \in Change, Deliver(change), change.to \in Turn,
             Carried(change.s, change.to)
      PROVE  \/ s \in acks' /\ view'[s] = Read(s)
             \/ snap'.pc = "read"
             \/ snap'.pc = "join" /\ snap'.of[s] = Read(s)
             \/ snap'.pc = "apply" /\ snap'.of[s] = Read(s) /\ s \in snap'.acked
  BY <1>2, <1>4, <1>8, DeliverQuiet, DeliverShows
<1>9. ASSUME BridgeEmit
      PROVE  /\ bridge.change \in Change /\ Deliver(bridge.change) /\ bridge.change.to \in Turn
             /\ Carried(bridge.change.s, bridge.change.to)
  <2>1. bridge.change \in Change /\ Deliver(bridge.change) /\ bridge.pc = "emit"
        /\ bridge.change.to \in Turn
    BY <1>9, EmitsChange DEF Sorted
  <2> QED
    BY <2>1, ChangeIs DEF Carried
<1>10. ASSUME NEW p \in Direct, EmitDirect(p)
       PROVE  /\ hand[p] \in Change /\ Deliver(hand[p]) /\ hand[p].to \in Turn
              /\ Carried(hand[p].s, hand[p].to)
  <2>0. p \in OnBus \cup Direct
    OBVIOUS
  <2>1. hand[p] \in Change /\ Deliver(hand[p]) /\ hand[p].to \in Turn
    BY <1>10, <2>0, EmitsDirect DEF Sorted
  <2> QED
    BY <2>0, <2>1, ChangeIs DEF Carried
<1>11. ASSUME NEW q \in Session, AckState(q) PROVE UNCHANGED <<view, snap, acks>>
  BY <1>11, AckFlags
<1>12. ASSUME NEW q \in Session, MarkAcknowledged(q)
       PROVE  UNCHANGED <<view, snap>> /\ acks \subseteq acks'
  BY <1>12, PageSteps
<1>13. CASE Reload
  BY <1>13, PageSteps DEF Load, NoSnap
<1>14. CASE SnapshotRead
  BY <1>2, <1>14, PageSteps
<1>15. CASE SnapshotJoin
  BY <1>2, <1>4, <1>5, <1>15, PageSteps
<1>16. CASE SnapshotApply
  <2>1. /\ snap.pc = "apply" /\ view'[s] = snap.of[s] /\ ~Older(snap.of[s], view[s])
        /\ acks' = acks \cup Seeded(snap.of, snap.acked)
    BY <1>2, <1>16, PageSteps
  <2>2. CASE s \in acks /\ view[s] = Read(s)
    <3>1. snap.of[s] \in Turn \cup {Born, NoRow} /\ Read(s) # NoRow
      BY <1>2, TurnFacts DEF Sorted
    <3>2. snap.of[s] # NoRow
      BY <2>1, <2>2, <3>1 DEF Older
    <3>3. snap.of[s].gen < Read(s).gen \/ snap.of[s] = Read(s)
      BY <1>2, <3>1, <3>2 DEF Ordered, Ahead
    <3>4. ~(snap.of[s].gen < Read(s).gen)
      BY <2>1, <2>2, <3>1, <3>2 DEF Older
    <3> QED
      BY <2>1, <2>2, <3>3, <3>4
  <2>3. CASE snap.of[s] = Read(s) /\ s \in snap.acked
    <3>1. s \in Seeded(snap.of, snap.acked)
      BY <1>2, <1>6, <2>3, TurnFacts DEF Seeded
    <3> QED
      BY <2>1, <2>3, <3>1
  <2> QED
    BY <1>4, <2>1, <2>2, <2>3
<1>17. ASSUME NEW q \in Session, AnnounceRemoved(q)
       PROVE  view'[s] = view[s] /\ snap' = snap /\ (s \in acks => s \in acks')
  <2>1. q # s
    BY <1>2, <1>17, LifeSteps DEF Stages
  <2>2. view' = [view EXCEPT ![q] = NoRow] /\ acks' = acks \ {q} /\ snap' = snap
    BY <1>17, LifeSteps
  <2> QED
    BY <1>2, <2>1, <2>2 DEF FanoutInv, TypeOK
<1>18. ASSUME Settle \/ (\E q \in Session : Register(q) \/ Track(q) \/ Kill(q) \/ RemoveMachine(q))
       PROVE  UNCHANGED <<view, snap, acks>>
  BY <1>18, LifeSteps
<1> QED
  BY <1>4, <1>7, <1>8, <1>9, <1>10, <1>11, <1>12, <1>13, <1>14, <1>15, <1>16, <1>17, <1>18,
     NextCases

(* Together they are inductive. *)
DismissInv ==
    FlowInv /\ Dismissals /\ Story /\ Distinct /\ Unwritten /\ Flags /\ RowKept /\ Quieted

\* The dismissals' invariant at the start.
LEMMA DismissInit == Init => DismissInv
<1> SUFFICES ASSUME Init PROVE DismissInv
  OBVIOUS
<1>1. FlowInv
  BY FlowInit
<1>2. Dismissals
  BY DEF Init, Dismissals
<1>3. /\ live = {} /\ bus = <<>> /\ bridge.pc = "recv"
      /\ \A p \in OnBus \cup Direct : hand[p] = None
      /\ \A s \in Session : /\ rows[s] = NoRow /\ saved[s] = NoRow /\ view[s] = NoRow
                            /\ snap.of[s] = NoRow /\ stage[s] = "new"
  BY DEF Init, Load, NoSnap
<1>4. Story
  <2>1. \A s \in Session : \A r \in Turn : ~About(s, r)
    BY <1>1, <1>3, TurnFacts DEF FlowInv, Stages, About
  <2> QED
    BY <2>1 DEF Story
<1>5. Distinct
  BY <1>3 DEF Distinct
<1>6. Unwritten
  BY <1>3, ChangeIs DEF Unwritten, Pending
<1>7. Flags /\ RowKept /\ Quieted
  BY <1>3 DEF Flags, RowKept, Quieted
<1> QED
  BY <1>1, <1>2, <1>4, <1>5, <1>6, <1>7 DEF DismissInv

\* Every step preserves the dismissals' invariant.
LEMMA DismissStep == DismissInv /\ [Next]_vars => DismissInv'
<1> SUFFICES ASSUME DismissInv, [Next]_vars PROVE DismissInv'
  OBVIOUS
<1>1. FlowInv'
  BY FlowStep DEF DismissInv
<1>2. Dismissals' /\ Story' /\ Distinct' /\ Unwritten'
  BY DismissalsStep, StoryStep, DistinctStep, UnwrittenStep DEF DismissInv, FlowInv
<1>3. Flags' /\ RowKept' /\ Quieted'
  BY FlagsStep, RowKeptStep, QuietedStep DEF DismissInv, FlowInv
<1> QED
  BY <1>1, <1>2, <1>3 DEF DismissInv

(* A finished turn that the user dismissed and whose flag was confirmed is  *)
(* still dismissed whenever everything is quiet.                            *)
THEOREM DismissedForGood == Spec => []DismissedStaysDismissed
<1>1. DismissInv => DismissedStaysDismissed
  <2> SUFFICES ASSUME DismissInv, NEW s \in live, Quiet, s \notin Astray, view[s] # NoRow,
                      view[s].gen \in kept[s]
               PROVE  s \in acks
    BY DEF DismissedStaysDismissed
  <2> USE DEF DismissInv, FlowInv
  <2>0. s \in Session
    BY DEF FanoutInv, TypeOK
  <2>1. ASSUME NEW r \in Turn PROVE ~Carried(s, r)
    BY <2>0, ChangeIs DEF Quiet, Carried
  <2>2. view[s] = Read(s)
    BY <2>1 DEF Quiet, Latest
  <2>3. Placed(s)
    BY <2>0, <2>2 DEF Quiet, Placed
  <2> QED
    BY <2>3 DEF Quiet, Quieted
<1>2. Spec => []DismissInv
  BY DismissInit, DismissStep, PTL DEF Spec
<1> QED
  BY <1>1, <1>2, PTL

=============================================================================
