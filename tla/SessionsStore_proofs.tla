------------------------ MODULE SessionsStore_proofs ------------------------
(***************************************************************************)
(* sessions.toml implements the ledger, for every set of sessions and      *)
(* states and every number of operations, failed writes and crashes.       *)
(***************************************************************************)
EXTENDS SessionsStore, TLAPS

-----------------------------------------------------------------------------
(* An accessor turns tables into tables. *)
LEMMA ApplyType ==
    ASSUME NEW t \in Table, NEW q \in Request
    PROVE  Apply(t, q) \in Table
<1>1. q.s \in Session /\ (q.do = "state" => q.to \in State)
  BY DEF Request
<1>2. Bare \in Row
  BY DEF Bare, Row
<1> DEFINE row == IF t[q.s] = NoRow THEN Bare ELSE t[q.s]
<1>3. row \in Row
  BY <1>1, <1>2 DEF Table
<1>4. /\ [row EXCEPT !.state = q.to, !.acked = FALSE] \in Row \/ q.do # "state"
      /\ [row EXCEPT !.acked = TRUE] \in Row
      /\ [row EXCEPT !.key = TRUE] \in Row
  BY <1>1, <1>3 DEF Row
<1>5. t[q.s] \in Row \cup {NoRow}
  BY <1>1 DEF Table
<1> HIDE DEF row
<1>6. Effect(t, q) = CASE q.do = "track" -> row
                       [] q.do = "state" -> [row EXCEPT !.state = q.to, !.acked = FALSE]
                       [] q.do = "ack" -> [row EXCEPT !.acked = TRUE]
                       [] q.do \in {"harness_id", "prompt"} -> [row EXCEPT !.key = TRUE]
                       [] q.do = "forget" -> NoRow
                       [] OTHER -> t[q.s]
  BY DEF Effect, row
<1>7. Effect(t, q) \in Row \cup {NoRow}
  BY <1>3, <1>4, <1>5, <1>6
<1> QED
  BY <1>7 DEF Apply, Table

-----------------------------------------------------------------------------
(* Who may hold what when: the pending value and a warm cache are the table *)
(* an operation started from, and both are gone while a file is written.    *)
Discipline ==
    /\ pending # NoTable => cache = pending
    /\ op.pc \in {"write", "refresh"} =>
           flush = Idle /\ cache = NoTable /\ pending = NoTable
    /\ flush # Idle => cache = NoTable /\ pending = NoTable
    /\ op # Idle => op.new = Apply(op.base, op.q)
    /\ op.pc = "commit" => /\ cache # NoTable => op.base = cache
                           /\ flush # Idle => op.base = flush.new
    /\ op.pc = "refresh" => disk = op.new
    /\ flush.pc = "refresh" => disk = flush.new
    /\ op.pc = "commit" => op.q.do # "flush"

StoreInv == TypeOK /\ Discipline

(* The initial state. *)
LEMMA StoreInit == Init => StoreInv
<1> SUFFICES ASSUME Init PROVE StoreInv
  OBVIOUS
<1>1. disk \in Table
  BY DEF Init, Table
<1>2. 0 \in 0..MaxOps /\ 0 \in 0..MaxFails /\ 0 \in 0..MaxCrashes
  BY StoreAssumption
<1>3. TypeOK
  BY <1>1, <1>2 DEF Init, TypeOK
<1>4. Discipline
  BY DEF Init, Discipline, Idle
<1> QED
  BY <1>3, <1>4 DEF StoreInv

(* The operation record, taken apart once. *)
LEMMA OpType ==
    ASSUME TypeOK, op.pc # "idle"
    PROVE  /\ op \in [pc : {"commit", "write", "refresh"}, q : Request,
                      base : Table, new : Table]
           /\ op # Idle
           /\ op.pc \in {"commit", "write", "refresh"}
           /\ op.q \in Request /\ op.base \in Table /\ op.new \in Table
           /\ op.base # NoTable /\ op.new # NoTable
<1>1. op # Idle
  BY DEF Idle
<1>2. op \in [pc : {"commit", "write", "refresh"}, q : Request, base : Table, new : Table]
  BY <1>1 DEF TypeOK
<1>3. /\ op.pc \in {"commit", "write", "refresh"}
      /\ op.q \in Request /\ op.base \in Table /\ op.new \in Table
  BY <1>2
<1> QED
  BY <1>1, <1>2, <1>3, NoTableAssumption

(* The flusher's record, likewise. *)
LEMMA FlushType ==
    ASSUME TypeOK, flush.pc # "idle"
    PROVE  /\ flush \in [pc : {"write", "refresh"}, new : Table]
           /\ flush # Idle
           /\ flush.pc \in {"write", "refresh"}
           /\ flush.new \in Table /\ flush.new # NoTable
<1>1. flush # Idle
  BY DEF Idle
<1>2. flush \in [pc : {"write", "refresh"}, new : Table]
  BY <1>1 DEF TypeOK
<1>3. flush.pc \in {"write", "refresh"} /\ flush.new \in Table
  BY <1>2
<1> QED
  BY <1>1, <1>2, <1>3, NoTableAssumption

(* A step of the threads keeps the types. *)
LEMMA TypeStep == TypeOK /\ [Next]_vars => TypeOK'
<1> SUFFICES ASSUME TypeOK, [Next]_vars PROVE TypeOK'
  OBVIOUS
<1>1. ASSUME NEW q \in Request, Begin(q) PROVE TypeOK'
  <2>1. Read \in Table
    BY DEF TypeOK, Read
  <2>2. Apply(Read, q) \in Table
    BY <2>1, ApplyType
  <2>3. op' \in {Idle} \cup [pc : {"commit", "write", "refresh"}, q : Request,
                             base : Table, new : Table]
    BY <1>1, <2>1, <2>2 DEF Begin
  <2>4. ops' \in 0..MaxOps
    BY <1>1, StoreAssumption DEF Begin, TypeOK
  <2> QED
    BY <1>1, <2>1, <2>3, <2>4 DEF Begin, TypeOK
<1>2. ASSUME NEW q \in Request, QuitFlush(q) PROVE TypeOK'
  <2>1. pending \in Table
    BY <1>2 DEF QuitFlush, TypeOK
  <2>2. op' \in [pc : {"commit", "write", "refresh"}, q : Request,
                 base : Table, new : Table]
    BY <1>2, <2>1 DEF QuitFlush
  <2> QED
    BY <1>2, <2>2 DEF QuitFlush, TypeOK
<1>3. CASE WriteThrough
  <2>1. op' \in [pc : {"commit", "write", "refresh"}, q : Request,
                 base : Table, new : Table]
    BY <1>3, OpType DEF WriteThrough
  <2> QED
    BY <1>3, <2>1 DEF WriteThrough, TypeOK
<1>4. CASE WriteDebounced
  <2>1. op.q \in Request /\ op.new \in Table
    BY <1>4, OpType DEF WriteDebounced
  <2>2. Apply(promised, op.q) \in Table
    BY <2>1, ApplyType DEF TypeOK
  <2> QED
    BY <1>4, <2>1, <2>2 DEF WriteDebounced, TypeOK
<1>5. CASE Rename
  <2>1. op.new \in Table
    BY <1>5, OpType DEF Rename
  <2>2. op' \in [pc : {"commit", "write", "refresh"}, q : Request,
                 base : Table, new : Table]
    BY <1>5, OpType DEF Rename
  <2> QED
    BY <1>5, <2>1, <2>2 DEF Rename, TypeOK
<1>6. CASE Refresh
  <2>1. op.q \in Request /\ op.new \in Table
    BY <1>6, OpType DEF Refresh
  <2>2. Apply(promised, op.q) \in Table
    BY <2>1, ApplyType DEF TypeOK
  <2> QED
    BY <1>6, <2>1, <2>2 DEF Refresh, TypeOK
<1>7. CASE Fail
  <2>1. fails' \in 0..MaxFails
    BY <1>7, StoreAssumption DEF Fail, TypeOK
  <2> QED
    BY <1>7, <2>1 DEF Fail, TypeOK
<1>8. CASE Elapse
  BY <1>8 DEF Elapse, TypeOK
<1>9. CASE Take
  <2>1. CASE pending = NoTable
    BY <1>9, <2>1 DEF Take, TypeOK
  <2>2. CASE pending # NoTable
    <3>1. pending \in Table
      BY <2>2 DEF TypeOK
    <3>2. flush' \in [pc : {"write", "refresh"}, new : Table]
      BY <1>9, <2>2, <3>1 DEF Take
    <3>3. cache' = NoTable /\ armed' = armed
      BY <1>9, <2>2 DEF Take
    <3> QED
      BY <1>9, <3>2, <3>3 DEF Take, TypeOK
  <2> QED
    BY <2>1, <2>2
<1>10. CASE FlushRename
  <2>1. flush' \in [pc : {"write", "refresh"}, new : Table] /\ flush.new \in Table
    BY <1>10, FlushType DEF FlushRename
  <2> QED
    BY <1>10, <2>1 DEF FlushRename, TypeOK
<1>11. CASE FlushRefresh
  BY <1>11, FlushType DEF FlushRefresh, TypeOK
<1>12. CASE FlushFail
  <2>1. fails' \in 0..MaxFails
    BY <1>12, StoreAssumption DEF FlushFail, TypeOK
  <2> QED
    BY <1>12, <2>1 DEF FlushFail, TypeOK
<1>13. CASE Crash
  <2>1. crashes' \in 0..MaxCrashes
    BY <1>13, StoreAssumption DEF Crash, TypeOK
  <2> QED
    BY <1>13, <2>1 DEF Crash, TypeOK
<1>14. CASE UNCHANGED vars
  BY <1>14 DEF vars, TypeOK
<1> QED
  BY <1>1, <1>2, <1>3, <1>4, <1>5, <1>6, <1>7, <1>8, <1>9, <1>10, <1>11, <1>12, <1>13,
     <1>14 DEF Next, Operation, Flusher

(* Whatever the threads do, sessions.toml, the cache, the pending slot and  *)
(* every value in flight are tables: no partial value is ever written.      *)
THEOREM StoreTypeCorrect == Spec => []TypeOK
<1>1. Init => TypeOK
  BY StoreInit DEF StoreInv
<1> QED
  BY <1>1, TypeStep, PTL DEF Spec

(* A request that changes nothing. *)
LEMMA FlushEffect ==
    ASSUME NEW t \in Table, NEW q \in Request, q.do = "flush"
    PROVE  Apply(t, q) = t
<1>1. q.s \in Session
  BY DEF Request
<1>2. Effect(t, q) = t[q.s]
  BY DEF Effect
<1> QED
  BY <1>1, <1>2 DEF Apply, Table

(* The discipline is kept by every step. *)
LEMMA DisciplineStep == StoreInv /\ [Next]_vars => Discipline'
<1> SUFFICES ASSUME TypeOK, Discipline, [Next]_vars PROVE Discipline'
  BY DEF StoreInv
<1>0. Idle.pc = "idle"
  BY DEF Idle
<1>1. ASSUME NEW q \in Request, Begin(q) PROVE Discipline'
  <2>1. flush = Idle
    BY <1>1, FlushType DEF Begin, Locked, TypeOK
  <2>2. op' = Idle \/ op' = [pc |-> "commit", q |-> q, base |-> Read, new |-> Apply(Read, q)]
    BY <1>1 DEF Begin
  <2>3. pending' # NoTable => cache' = pending'
    BY <1>1 DEF Begin, Discipline, Read
  <2>4. cache' = Read /\ flush' = flush /\ q.do # "flush"
    BY <1>1 DEF Begin
  <2>5. CASE op' = Idle
    BY <1>0, <2>1, <2>3, <2>4, <2>5 DEF Discipline
  <2>6. CASE op' = [pc |-> "commit", q |-> q, base |-> Read, new |-> Apply(Read, q)]
    BY <1>0, <2>1, <2>3, <2>4, <2>6 DEF Discipline
  <2> QED
    BY <2>2, <2>5, <2>6
<1>2. ASSUME NEW q \in Request, QuitFlush(q) PROVE Discipline'
  <2>1. flush = Idle
    BY <1>2, FlushType DEF QuitFlush, Locked, TypeOK
  <2>2. pending \in Table
    BY <1>2 DEF QuitFlush, TypeOK
  <2>3. Apply(pending, q) = pending
    BY <1>2, <2>2, FlushEffect DEF QuitFlush
  <2> QED
    BY <1>0, <1>2, <2>1, <2>3 DEF QuitFlush, Discipline
<1>3. CASE WriteThrough
  <2>1. flush = Idle
    BY <1>3, FlushType DEF WriteThrough, Locked, TypeOK
  <2>2. op \in [pc : {"commit", "write", "refresh"}, q : Request, base : Table, new : Table]
    BY <1>3, OpType DEF WriteThrough
  <2>3. op'.pc = "write" /\ op'.q = op.q /\ op'.base = op.base /\ op'.new = op.new
    BY <1>3, <2>2 DEF WriteThrough
  <2>4. op.new = Apply(op.base, op.q)
    BY <1>3, OpType DEF WriteThrough, Discipline
  <2> QED
    BY <1>0, <1>3, <2>1, <2>3, <2>4 DEF WriteThrough, Discipline
<1>4. CASE WriteDebounced
  <2>1. flush = Idle
    BY <1>4, FlushType DEF WriteDebounced, Locked, TypeOK
  <2> QED
    BY <1>0, <1>4, <2>1 DEF WriteDebounced, Discipline
<1>5. CASE Rename
  <2>1. op \in [pc : {"commit", "write", "refresh"}, q : Request, base : Table, new : Table]
    BY <1>5, OpType DEF Rename
  <2>2. op'.pc = "refresh" /\ op'.q = op.q /\ op'.base = op.base /\ op'.new = op.new
    BY <1>5, <2>1 DEF Rename
  <2>3. /\ flush = Idle /\ cache = NoTable /\ pending = NoTable
        /\ op.new = Apply(op.base, op.q)
    BY <1>5, OpType DEF Rename, Discipline
  <2> QED
    BY <1>0, <1>5, <2>2, <2>3 DEF Rename, Discipline
<1>6. CASE Refresh
  <2>1. flush = Idle /\ pending = NoTable
    BY <1>6 DEF Refresh, Discipline
  <2> QED
    BY <1>0, <1>6, <2>1 DEF Refresh, Discipline
<1>7. CASE Fail
  <2>1. flush = Idle /\ pending = NoTable
    BY <1>7 DEF Fail, Discipline
  <2> QED
    BY <1>0, <1>7, <2>1 DEF Fail, Discipline
<1>8. CASE Elapse
  BY <1>8 DEF Elapse, Discipline
<1>9. CASE Take
  <2>1. flush = Idle /\ op.pc \notin {"write", "refresh"}
    BY <1>9, FlushType DEF Take, Locked, TypeOK
  <2>2. op' = op /\ disk' = disk /\ pending' = NoTable
    BY <1>9 DEF Take
  <2>3. CASE pending = NoTable
    BY <1>0, <1>9, <2>1, <2>2, <2>3 DEF Take, Discipline
  <2>4. CASE pending # NoTable
    <3>1. flush' = [pc |-> "write", new |-> pending] /\ cache' = NoTable /\ cache = pending
      BY <1>9, <2>4 DEF Take, Discipline
    <3>2. op.pc = "commit" => op.base = pending
      BY <2>4, <3>1 DEF Discipline
    <3> QED
      BY <1>0, <2>1, <2>2, <3>1, <3>2 DEF Discipline
  <2> QED
    BY <2>3, <2>4
<1>10. CASE FlushRename
  <2>1. flush'.pc = "refresh" /\ flush'.new = flush.new /\ flush # Idle
    BY <1>10, FlushType DEF FlushRename
  <2>2. op.pc \notin {"write", "refresh"}
    BY <2>1 DEF Discipline
  <2> QED
    BY <1>0, <1>10, <2>1, <2>2 DEF FlushRename, Discipline
<1>11. CASE FlushRefresh
  <2>1. /\ flush # Idle /\ op.pc \notin {"write", "refresh"} /\ pending = NoTable
        /\ op.pc = "commit" => op.base = flush.new
    BY <1>11, FlushType DEF FlushRefresh, Discipline
  <2> QED
    BY <1>0, <1>11, <2>1 DEF FlushRefresh, Discipline
<1>12. CASE FlushFail
  <2>1. flush # Idle /\ op.pc \notin {"write", "refresh"} /\ pending = NoTable
    BY <1>12, FlushType DEF FlushFail, Discipline
  <2> QED
    BY <1>0, <1>12, <2>1 DEF FlushFail, Discipline
<1>13. CASE Crash
  BY <1>0, <1>13 DEF Crash, Discipline
<1>14. CASE UNCHANGED vars
  BY <1>14 DEF vars, Discipline
<1> QED
  BY <1>1, <1>2, <1>3, <1>4, <1>5, <1>6, <1>7, <1>8, <1>9, <1>10, <1>11, <1>12, <1>13,
     <1>14 DEF Next, Operation, Flusher

(* The discipline holds throughout. *)
LEMMA StoreInvariant == Spec => []StoreInv
<1>1. StoreInv /\ [Next]_vars => StoreInv'
  BY TypeStep, DisciplineStep DEF StoreInv
<1> QED
  BY <1>1, StoreInit, PTL DEF Spec

-----------------------------------------------------------------------------
(* What a restart must find again: the rows, their keys, their flags. *)
Alike(t, u) ==
    \A s \in Session :
        /\ (t[s] = NoRow) <=> (u[s] = NoRow)
        /\ t[s] # NoRow => t[s].key = u[s].key /\ t[s].acked = u[s].acked

(* Every table in use is like the disk's; so is, after the rename, what the *)
(* operation is about to promise.                                           *)
Authority ==
    /\ cache # NoTable => Alike(cache, disk)
    /\ op.pc \in {"commit", "write"} => Alike(op.base, disk)
    /\ flush.pc = "write" => Alike(flush.new, disk)
    /\ op.pc # "refresh" => Alike(promised, disk)
    /\ op.pc = "refresh" => Alike(Apply(promised, op.q), disk)

(* An accessor takes alike tables to alike tables. *)
LEMMA ApplyAlike ==
    ASSUME NEW t \in Table, NEW u \in Table, NEW q \in Request, Alike(t, u)
    PROVE  Alike(Apply(t, q), Apply(u, q))
<1>1. q.s \in Session
  BY DEF Request
<1>2. Bare \in Row
  BY DEF Bare, Row
<1> DEFINE rt == IF t[q.s] = NoRow THEN Bare ELSE t[q.s]
           ru == IF u[q.s] = NoRow THEN Bare ELSE u[q.s]
<1>3. rt \in Row /\ ru \in Row
  BY <1>1, <1>2 DEF Table
<1>4. rt.key = ru.key /\ rt.acked = ru.acked
  BY <1>1 DEF Alike
<1> HIDE DEF rt, ru
<1>5. /\ Effect(t, q) = CASE q.do = "track" -> rt
                          [] q.do = "state" -> [rt EXCEPT !.state = q.to, !.acked = FALSE]
                          [] q.do = "ack" -> [rt EXCEPT !.acked = TRUE]
                          [] q.do \in {"harness_id", "prompt"} -> [rt EXCEPT !.key = TRUE]
                          [] q.do = "forget" -> NoRow
                          [] OTHER -> t[q.s]
      /\ Effect(u, q) = CASE q.do = "track" -> ru
                          [] q.do = "state" -> [ru EXCEPT !.state = q.to, !.acked = FALSE]
                          [] q.do = "ack" -> [ru EXCEPT !.acked = TRUE]
                          [] q.do \in {"harness_id", "prompt"} -> [ru EXCEPT !.key = TRUE]
                          [] q.do = "forget" -> NoRow
                          [] OTHER -> u[q.s]
  BY DEF Effect, rt, ru
<1>6. q.do \in {"track", "ack", "harness_id", "prompt", "forget", "flush", "state"}
      /\ (q.do = "state" => q.to \in State)
  BY DEF Request
<1> DEFINE et == Effect(t, q)
           eu == Effect(u, q)
<1>7. /\ (et = NoRow) <=> (eu = NoRow)
      /\ et # NoRow => et.key = eu.key /\ et.acked = eu.acked
  <2>1. CASE q.do = "track"
    BY <1>3, <1>4, <1>5, <2>1, NoRowAssumption
  <2>2. CASE q.do = "state"
    <3>1. et = [rt EXCEPT !.state = q.to, !.acked = FALSE]
          /\ eu = [ru EXCEPT !.state = q.to, !.acked = FALSE]
      BY <1>5, <2>2
    <3>2. et \in Row /\ eu \in Row
      BY <1>3, <1>6, <2>2, <3>1 DEF Row
    <3>3. et.key = rt.key /\ eu.key = ru.key /\ et.acked = FALSE /\ eu.acked = FALSE
      BY <1>3, <3>1 DEF Row
    <3> QED
      BY <1>4, <3>2, <3>3, NoRowAssumption
  <2>3. CASE q.do = "ack"
    <3>1. et = [rt EXCEPT !.acked = TRUE] /\ eu = [ru EXCEPT !.acked = TRUE]
      BY <1>5, <2>3
    <3>2. et \in Row /\ eu \in Row
      BY <1>3, <3>1 DEF Row
    <3>3. et.key = rt.key /\ eu.key = ru.key /\ et.acked = TRUE /\ eu.acked = TRUE
      BY <1>3, <3>1 DEF Row
    <3> QED
      BY <1>4, <3>2, <3>3, NoRowAssumption
  <2>4. CASE q.do \in {"harness_id", "prompt"}
    <3>1. et = [rt EXCEPT !.key = TRUE] /\ eu = [ru EXCEPT !.key = TRUE]
      BY <1>5, <2>4
    <3>2. et \in Row /\ eu \in Row
      BY <1>3, <3>1 DEF Row
    <3>3. et.key = TRUE /\ eu.key = TRUE /\ et.acked = rt.acked /\ eu.acked = ru.acked
      BY <1>3, <3>1 DEF Row
    <3> QED
      BY <1>4, <3>2, <3>3, NoRowAssumption
  <2>5. CASE q.do = "forget"
    BY <1>5, <2>5
  <2>6. CASE q.do = "flush"
    <3>1. et = t[q.s] /\ eu = u[q.s]
      BY <1>5, <2>6
    <3> QED
      BY <1>1, <3>1 DEF Alike
  <2> QED
    BY <1>6, <2>1, <2>2, <2>3, <2>4, <2>5, <2>6
<1>8. /\ Apply(t, q) = [t EXCEPT ![q.s] = et]
      /\ Apply(u, q) = [u EXCEPT ![q.s] = eu]
  BY DEF Apply
<1> HIDE DEF et, eu
<1> QED
  BY <1>1, <1>7, <1>8 DEF Alike, Table

(* A deferred write changes last_state alone. *)
LEMMA DebouncedKeeps ==
    ASSUME NEW t \in Table, NEW q \in Request, Debounced(t, q)
    PROVE  /\ t[q.s] \in Row /\ t[q.s] # NoRow /\ ~t[q.s].acked
           /\ q.to \in State
           /\ Effect(t, q) = [t[q.s] EXCEPT !.state = q.to]
           /\ Alike(Apply(t, q), t)
<1>1. q.s \in Session /\ q.do = "state" /\ q.to \in State
  BY DEF Request, Debounced
<1>2. t[q.s] \in Row /\ t[q.s] # NoRow /\ t[q.s].acked = FALSE
  BY <1>1 DEF Table, Debounced, Row
<1>3. Effect(t, q) = [t[q.s] EXCEPT !.state = q.to, !.acked = FALSE]
  BY <1>1, <1>2 DEF Effect
<1> DEFINE row == t[q.s]
<1>4. [row EXCEPT !.state = q.to, !.acked = FALSE] = [row EXCEPT !.state = q.to]
  BY <1>1, <1>2 DEF Row
<1>5. Effect(t, q) = [row EXCEPT !.state = q.to]
  BY <1>3, <1>4
<1>6. Effect(t, q) \in Row /\ Effect(t, q).key = row.key /\ Effect(t, q).acked = row.acked
  BY <1>1, <1>2, <1>5 DEF Row
<1>7. Alike(Apply(t, q), t)
  BY <1>1, <1>2, <1>6, NoRowAssumption DEF Apply, Alike, Table
<1> QED
  BY <1>1, <1>2, <1>5, <1>7

(* Being alike is an equivalence. *)
LEMMA AlikeRefl == \A t : Alike(t, t)
  BY DEF Alike

\* Agreement of tables up to last_state is transitive.
LEMMA AlikeTrans ==
    \A t, u, v : Alike(t, u) /\ Alike(u, v) => Alike(t, v)
  BY DEF Alike

\* Agreement of tables up to last_state is symmetric.
LEMMA AlikeSym == \A t, u : Alike(t, u) => Alike(u, t)
  BY DEF Alike

(* Every step keeps all tables alike. *)
LEMMA AuthorityStep == StoreInv /\ Authority /\ [Next]_vars => Authority'
<1> SUFFICES ASSUME TypeOK, Discipline, Authority, [Next]_vars PROVE Authority'
  BY DEF StoreInv
<1>0. Idle.pc = "idle"
  BY DEF Idle
<1>1. ASSUME NEW q \in Request, Begin(q) PROVE Authority'
  <2>1. Alike(Read, disk)
    BY AlikeRefl DEF Authority, Read
  <2>2. op.pc = "idle" /\ Alike(promised, disk)
    BY <1>0, <1>1 DEF Begin, Authority
  <2>3. op'.pc \in {"idle", "commit"} /\ (op'.pc = "commit" => op'.base = Read)
    BY <1>0, <1>1 DEF Begin
  <2>4. cache' = Read /\ UNCHANGED <<disk, flush, promised>>
    BY <1>1 DEF Begin
  <2> QED
    BY <2>1, <2>2, <2>3, <2>4 DEF Authority, Alike
<1>2. ASSUME NEW q \in Request, QuitFlush(q) PROVE Authority'
  <2>1. Alike(pending, disk) /\ Alike(promised, disk)
    BY <1>0, <1>2 DEF QuitFlush, Authority, Discipline
  <2>2. op'.pc = "write" /\ op'.base = pending /\ cache' = NoTable
        /\ UNCHANGED <<disk, flush, promised>>
    BY <1>2 DEF QuitFlush
  <2> QED
    BY <2>1, <2>2 DEF Authority, Alike
<1>3. CASE WriteThrough
  <2>1. op'.pc = "write" /\ op'.base = op.base
    BY <1>3, OpType DEF WriteThrough
  <2> QED
    BY <1>3, <2>1 DEF WriteThrough, Authority, Alike
<1>4. CASE WriteDebounced
  <2>1. /\ op.q \in Request /\ op.base \in Table /\ op.new = Apply(op.base, op.q)
        /\ Debounced(op.base, op.q) /\ op.pc = "commit"
    BY <1>4, OpType DEF WriteDebounced, Discipline
  <2>2. Alike(op.base, disk) /\ Alike(promised, disk)
    BY <2>1 DEF Authority
  <2>3. Alike(op.new, op.base)
    BY <2>1, DebouncedKeeps
  <2>4. Alike(op.new, disk)
    BY <2>2, <2>3, AlikeTrans
  <2>5. Alike(promised, op.base)
    BY <2>2, AlikeTrans, AlikeSym
  <2>6. Alike(Apply(promised, op.q), op.new)
    BY <2>1, <2>5, ApplyAlike DEF TypeOK
  <2>7. Alike(Apply(promised, op.q), disk)
    BY <2>4, <2>6, AlikeTrans
  <2>8. /\ cache' = op.new /\ promised' = Apply(promised, op.q) /\ op'.pc = "idle"
        /\ UNCHANGED <<disk, flush>>
    BY <1>0, <1>4 DEF WriteDebounced
  <2> QED
    BY <2>4, <2>7, <2>8 DEF Authority, Alike
<1>5. CASE Rename
  <2>1. /\ op.q \in Request /\ op.base \in Table /\ op.new = Apply(op.base, op.q)
        /\ op.pc = "write" /\ op'.pc = "refresh" /\ op'.q = op.q /\ cache = NoTable
        /\ flush = Idle
    BY <1>5, OpType DEF Rename, Discipline
  <2>2. Alike(promised, op.base)
    BY <2>1, AlikeTrans, AlikeSym DEF Authority
  <2>3. Alike(Apply(promised, op.q), op.new)
    BY <2>1, <2>2, ApplyAlike DEF TypeOK
  <2>4. disk' = op.new /\ UNCHANGED <<cache, flush, promised>>
    BY <1>5 DEF Rename
  <2>5. Apply(promised', op'.q) = Apply(promised, op.q)
    BY <2>1, <2>4
  <2> QED
    BY <1>0, <2>1, <2>3, <2>4, <2>5 DEF Authority, Alike
<1>6. CASE Refresh
  <2>1. disk = op.new /\ flush = Idle /\ Alike(Apply(promised, op.q), disk)
    BY <1>6 DEF Refresh, Discipline, Authority
  <2>2. /\ cache' = op.new /\ promised' = Apply(promised, op.q) /\ op'.pc = "idle"
        /\ UNCHANGED <<disk, flush>>
    BY <1>0, <1>6 DEF Refresh
  <2> QED
    BY <1>0, <2>1, <2>2 DEF Authority, Alike
<1>7. CASE Fail
  BY <1>0, <1>7 DEF Fail, Authority, Alike
<1>8. CASE Elapse
  <2>1. UNCHANGED <<disk, cache, op, flush, promised>>
    BY <1>8 DEF Elapse
  <2>2. Apply(promised', op'.q) = Apply(promised, op.q)
    BY <2>1
  <2> QED
    BY <2>1, <2>2 DEF Authority, Alike
<1>9. CASE Take
  <2>1. UNCHANGED <<disk, op, promised>> /\ op.pc # "refresh"
    BY <1>9 DEF Take, Locked
  <2>2. CASE pending = NoTable
    <3>1. UNCHANGED <<cache, flush>>
      BY <1>9, <2>2 DEF Take
    <3> QED
      BY <2>1, <3>1 DEF Authority, Alike
  <2>3. CASE pending # NoTable
    <3>1. cache' = NoTable /\ flush'.new = pending
      BY <1>9, <2>3 DEF Take
    <3>2. Alike(pending, disk)
      BY <2>3 DEF Authority, Discipline
    <3> QED
      BY <2>1, <3>1, <3>2 DEF Authority, Alike
  <2> QED
    BY <2>2, <2>3
<1>10. CASE FlushRename
  <2>1. /\ flush # Idle /\ flush'.pc = "refresh" /\ Alike(flush.new, disk)
        /\ op.pc \notin {"write", "refresh"}
    BY <1>10, FlushType DEF FlushRename, Discipline, Authority
  <2>2. disk' = flush.new /\ UNCHANGED <<cache, op, promised>> /\ cache = NoTable
    BY <1>10, <2>1 DEF FlushRename, Discipline
  <2>3. Alike(promised, disk) /\ (op.pc = "commit" => Alike(op.base, disk))
    BY <2>1 DEF Authority
  <2>4. Alike(promised, flush.new) /\ (op.pc = "commit" => Alike(op.base, flush.new))
    BY <2>1, <2>3, AlikeTrans, AlikeSym
  <2> QED
    BY <2>1, <2>2, <2>4 DEF Authority, Alike
<1>11. CASE FlushRefresh
  <2>1. disk = flush.new /\ op.pc # "refresh"
    BY <1>11, FlushType DEF FlushRefresh, Discipline
  <2>2. cache' = flush.new /\ flush' = Idle /\ UNCHANGED <<disk, op, promised>>
    BY <1>11 DEF FlushRefresh
  <2> QED
    BY <1>0, <2>1, <2>2 DEF Authority, Alike
<1>12. CASE FlushFail
  <2>1. op.pc # "refresh"
    BY <1>12, FlushType DEF FlushFail, Discipline
  <2>2. flush' = Idle /\ UNCHANGED <<disk, cache, op, promised>>
    BY <1>12 DEF FlushFail
  <2> QED
    BY <1>0, <2>1, <2>2 DEF Authority, Alike
<1>13. CASE Crash
  <2>1. op' = Idle /\ flush' = Idle /\ cache' = NoTable /\ promised' = disk /\ disk' = disk
    BY <1>13 DEF Crash
  <2> QED
    BY <1>0, <2>1 DEF Authority, Alike
<1>14. CASE UNCHANGED vars
  <2>1. UNCHANGED <<disk, cache, op, flush, promised>>
    BY <1>14 DEF vars
  <2>2. Apply(promised', op'.q) = Apply(promised, op.q)
    BY <2>1
  <2> QED
    BY <2>1, <2>2 DEF Authority, Alike
<1> QED
  BY <1>1, <1>2, <1>3, <1>4, <1>5, <1>6, <1>7, <1>8, <1>9, <1>10, <1>11, <1>12, <1>13,
     <1>14 DEF Next, Operation, Flusher

(* After any number of failed writes, flushes and crashes the disk still    *)
(* holds the tracked set, the recovery keys and the acknowledgements that   *)
(* the accessors have promised (write_sessions: "that set is the recovery   *)
(* authority and must never lag memory on disk").                           *)
THEOREM Recovers == Spec => []RecoveryAuthority
<1>1. Init => Authority
  BY DEF Init, Authority, Alike, Idle
<1>2. Authority => RecoveryAuthority
  BY DEF Authority, Alike, RecoveryAuthority
<1> QED
  BY <1>1, <1>2, AuthorityStep, StoreInvariant, PTL DEF Spec

-----------------------------------------------------------------------------
(* The store implements the ledger.                                         *)

(* Where an operation or the flusher has got to decides what readers see. *)
LEMMA ViewOf ==
    /\ op.pc \in {"commit", "write"} => View = op.base
    /\ op.pc = "refresh" => View = op.new
    /\ op.pc = "idle" /\ flush.pc = "write" => View = flush.new
    /\ op.pc = "idle" /\ flush.pc # "write" => View = Read
  BY DEF View

(* The same, after a step. *)
LEMMA ViewOfNext ==
    /\ op'.pc \in {"commit", "write"} => View' = op'.base
    /\ op'.pc = "refresh" => View' = op'.new
    /\ op'.pc = "idle" /\ flush'.pc = "write" => View' = flush'.new
    /\ op'.pc = "idle" /\ flush'.pc # "write" =>
           View' = IF cache' = NoTable THEN disk' ELSE cache'
  BY DEF View, Read

(* A value written back is one row away from the value read. *)
LEMMA OneRow ==
    ASSUME NEW t \in Table, NEW q \in Request
    PROVE  /\ q.s \in Session
           /\ Effect(t, q) \in Row \cup {NoRow}
           /\ Apply(t, q) = [t EXCEPT ![q.s] = Effect(t, q)]
<1>1. q.s \in Session
  BY DEF Request
<1>2. Apply(t, q) = [t EXCEPT ![q.s] = Effect(t, q)]
  BY DEF Apply
<1>3. Apply(t, q)[q.s] \in Row \cup {NoRow}
  BY <1>1, ApplyType DEF Table
<1>4. Apply(t, q)[q.s] = Effect(t, q)
  BY <1>1, <1>2 DEF Table
<1> QED
  BY <1>1, <1>2, <1>3, <1>4

(* Every step of the store is a step of the ledger or leaves it alone. *)
LEMMA LedgerStep ==
    StoreInv /\ [Next]_vars => [Ledger!LedgerNext]_<<View, disk>>
<1> SUFFICES ASSUME TypeOK, Discipline, [Next]_vars
             PROVE  Ledger!LedgerNext \/ (View' = View /\ disk' = disk)
  BY DEF StoreInv
<1> DEFINE Goal == Ledger!LedgerNext \/ (View' = View /\ disk' = disk)
<1>0. Idle.pc = "idle"
  BY DEF Idle
<1>1. ASSUME NEW q \in Request, Begin(q) PROVE Goal
  <2>1. flush.pc = "idle" /\ op.pc = "idle" /\ flush' = flush /\ disk' = disk
    BY <1>0, <1>1 DEF Begin, Locked
  <2>2. View = Read
    BY <2>1, ViewOf
  <2>3. cache' = Read
        /\ op' \in {Idle, [pc |-> "commit", q |-> q, base |-> Read, new |-> Apply(Read, q)]}
    BY <1>1 DEF Begin
  <2>4. Read # NoTable
    BY NoTableAssumption DEF TypeOK, Read
  <2>5. View' = Read
    BY <1>0, <2>1, <2>3, <2>4, ViewOfNext
  <2> QED
    BY <2>1, <2>2, <2>5
<1>2. ASSUME NEW q \in Request, QuitFlush(q) PROVE Goal
  <2>1. /\ flush.pc = "idle" /\ op.pc = "idle" /\ pending # NoTable /\ cache = pending
        /\ disk' = disk
    BY <1>0, <1>2 DEF QuitFlush, Locked, Discipline
  <2>2. View = pending
    BY <2>1, ViewOf DEF Read
  <2>3. op'.pc = "write" /\ op'.base = pending
    BY <1>2 DEF QuitFlush
  <2> QED
    BY <2>1, <2>2, <2>3, ViewOfNext
<1>3. CASE WriteThrough
  <2>1. op'.pc = "write" /\ op'.base = op.base /\ op.pc = "commit" /\ disk' = disk
    BY <1>3, OpType DEF WriteThrough
  <2> QED
    BY <2>1, ViewOf, ViewOfNext
<1>4. CASE WriteDebounced
  <2> DEFINE t == op.base
             s == op.q.s
             row == Effect(op.base, op.q)
  <2>1. /\ op.q \in Request /\ op.base \in Table /\ op.new = Apply(op.base, op.q)
        /\ Debounced(op.base, op.q) /\ op.pc = "commit" /\ op.new # NoTable
    BY <1>4, OpType DEF WriteDebounced, Discipline
  <2>2. s \in Session /\ op.new = [t EXCEPT ![s] = row]
    BY <2>1, OneRow
  <2>3. /\ t[s] \in Row /\ t[s] # NoRow /\ ~t[s].acked /\ op.q.to \in State
        /\ row = [t[s] EXCEPT !.state = op.q.to]
    BY <2>1, DebouncedKeeps
  <2>4. row \in Row /\ row.state = op.q.to
    BY <2>3 DEF Row
  <2>5. row = [t[s] EXCEPT !.state = row.state]
    BY <2>3, <2>4
  <2>6. View = t
    BY <2>1, ViewOf
  <2>7. /\ cache' = op.new /\ op'.pc = "idle" /\ flush'.pc = "idle" /\ disk' = disk
    BY <1>0, <1>4 DEF WriteDebounced, Locked
  <2>8. View' = op.new
    BY <2>1, <2>7, ViewOfNext
  <2>9. Ledger!Row = Row
    BY DEF Ledger!Row, Row
  <2> HIDE DEF row, t, s
  <2>10. Ledger!Touch(s)
    BY <2>2, <2>3, <2>4, <2>5, <2>6, <2>7, <2>8, <2>9 DEF Ledger!Touch
  <2> QED
    BY <2>2, <2>10 DEF Ledger!LedgerNext
<1>5. CASE Rename
  <2> DEFINE s == op.q.s
             row == Effect(op.base, op.q)
  <2>1. /\ op.q \in Request /\ op.base \in Table /\ op.new = Apply(op.base, op.q)
        /\ op.pc = "write" /\ op'.pc = "refresh" /\ op'.new = op.new /\ disk' = op.new
    BY <1>5, OpType DEF Rename, Discipline
  <2>2. s \in Session /\ row \in Row \cup {NoRow} /\ op.new = [op.base EXCEPT ![s] = row]
    BY <2>1, OneRow
  <2>3. View = op.base /\ View' = op.new
    BY <2>1, ViewOf, ViewOfNext
  <2>4. Ledger!Row = Row
    BY DEF Ledger!Row, Row
  <2> HIDE DEF row, s
  <2>5. Ledger!Record(s)
    BY <2>1, <2>2, <2>3, <2>4 DEF Ledger!Record
  <2> QED
    BY <2>2, <2>5 DEF Ledger!LedgerNext
<1>6. CASE Refresh
  <2>1. op.pc = "refresh" /\ op.new # NoTable /\ flush = Idle
    BY <1>6, OpType DEF Refresh, Discipline
  <2>2. cache' = op.new /\ op'.pc = "idle" /\ flush' = flush /\ disk' = disk
    BY <1>0, <1>6 DEF Refresh
  <2> QED
    BY <1>0, <2>1, <2>2, ViewOf, ViewOfNext
<1>7. CASE Fail
  <2>1. cache = NoTable /\ flush = Idle
    BY <1>7 DEF Fail, Discipline
  <2>2. cache' = cache /\ op'.pc = "idle" /\ flush' = flush /\ disk' = disk
    BY <1>0, <1>7 DEF Fail
  <2>3. View' = disk
    BY <1>0, <2>1, <2>2, ViewOfNext
  <2> QED
    BY <2>2, <2>3 DEF Ledger!LedgerNext, Ledger!FallBack
<1>8. CASE Elapse
  BY <1>8 DEF Elapse, View, Read
<1>9. CASE Take
  <2>1. flush.pc = "idle" /\ op.pc \notin {"write", "refresh"} /\ UNCHANGED <<op, disk>>
    BY <1>9 DEF Take, Locked
  <2>2. CASE pending = NoTable
    <3>1. UNCHANGED <<cache, flush>>
      BY <1>9, <2>2 DEF Take
    <3> QED
      BY <2>1, <3>1 DEF View, Read
  <2>3. CASE pending # NoTable
    <3>1. flush'.pc = "write" /\ flush'.new = pending
      BY <1>9, <2>3 DEF Take
    <3>2. cache = pending /\ op.pc \in {"idle", "commit"}
      BY <2>1, <2>3, OpType DEF Discipline
    <3> QED
      BY <2>1, <2>3, <3>1, <3>2, ViewOf, ViewOfNext DEF Read
  <2> QED
    BY <2>2, <2>3
<1>10. CASE FlushRename
  <2>1. /\ flush # Idle /\ flush'.pc = "refresh" /\ flush.pc = "write"
        /\ UNCHANGED <<op, cache>> /\ disk' = flush.new
    BY <1>10, FlushType DEF FlushRename
  <2>2. op.pc \in {"idle", "commit"} /\ cache = NoTable
        /\ (op.pc = "commit" => op.base = flush.new)
    BY <2>1, OpType DEF Discipline
  <2>3. View = flush.new /\ View' = flush.new
    BY <2>1, <2>2, ViewOf, ViewOfNext
  <2> QED
    BY <2>1, <2>3 DEF Ledger!LedgerNext, Ledger!Settle
<1>11. CASE FlushRefresh
  <2>1. /\ flush.pc = "refresh" /\ flush # Idle /\ flush.new # NoTable
        /\ UNCHANGED <<op, disk>> /\ cache' = flush.new /\ flush'.pc = "idle"
    BY <1>0, <1>11, FlushType DEF FlushRefresh
  <2>2. disk = flush.new /\ cache = NoTable /\ op.pc \in {"idle", "commit"}
    BY <2>1, OpType DEF Discipline
  <2> QED
    BY <2>1, <2>2, ViewOf, ViewOfNext DEF Read
<1>12. CASE FlushFail
  <2>1. /\ flush.pc = "write" /\ flush # Idle
        /\ UNCHANGED <<op, disk, cache>> /\ flush'.pc = "idle"
    BY <1>0, <1>12, FlushType DEF FlushFail
  <2>2. cache = NoTable /\ op.pc \in {"idle", "commit"}
    BY <2>1, OpType DEF Discipline
  <2>3. CASE op.pc = "commit"
    BY <2>1, <2>3, ViewOf, ViewOfNext
  <2>4. CASE op.pc = "idle"
    <3>1. View' = disk
      BY <2>1, <2>2, <2>4, ViewOfNext
    <3> QED
      BY <2>1, <3>1 DEF Ledger!LedgerNext, Ledger!FallBack
  <2> QED
    BY <2>2, <2>3, <2>4
<1>13. CASE Crash
  <2>1. op'.pc = "idle" /\ flush'.pc = "idle" /\ cache' = NoTable /\ disk' = disk
    BY <1>0, <1>13 DEF Crash
  <2>2. View' = disk
    BY <2>1, ViewOfNext
  <2> QED
    BY <2>1, <2>2 DEF Ledger!LedgerNext, Ledger!FallBack
<1>14. CASE UNCHANGED vars
  BY <1>14 DEF vars, View, Read
<1> QED
  BY <1>1, <1>2, <1>3, <1>4, <1>5, <1>6, <1>7, <1>8, <1>9, <1>10, <1>11, <1>12, <1>13,
     <1>14 DEF Next, Operation, Flusher

(* The cache, the debounce, the flusher thread and the two-step write are   *)
(* together one table whose copy on disk lags in last_state only.           *)
THEOREM StoreImplementsLedger == Spec => RefinesLedger
<1>1. Init => Ledger!LedgerInit
  <2> SUFFICES ASSUME Init PROVE View = Ledger!Empty /\ disk = Ledger!Empty
    BY DEF Ledger!LedgerInit
  <2>1. View = Read
    BY ViewOf DEF Init, Idle
  <2> QED
    BY <2>1 DEF Init, Read, Ledger!Empty
<1> QED
  BY <1>1, LedgerStep, StoreInvariant, PTL DEF Spec, RefinesLedger, Ledger!LedgerSpec

(* Readers always see a table. *)
LEMMA ViewType == TypeOK => View \in Table
<1> SUFFICES ASSUME TypeOK PROVE View \in Table
  OBVIOUS
<1>1. Read \in Table
  BY DEF TypeOK, Read
<1>2. op.pc \in {"commit", "write", "refresh"} => op.base \in Table /\ op.new \in Table
  BY OpType
<1>3. flush.pc = "write" => flush.new \in Table
  BY FlushType
<1> QED
  BY <1>1, <1>2, <1>3 DEF View

(* A step of the ledger lets nothing but last_state lag. *)
LEMMA LagStep ==
    /\ View \in Table /\ disk \in Table
    /\ Ledger!OnlyStateLags /\ [Ledger!LedgerNext]_<<View, disk>>
    => Ledger!OnlyStateLags'
<1> SUFFICES ASSUME View \in Table, disk \in Table, Ledger!OnlyStateLags,
                    [Ledger!LedgerNext]_<<View, disk>>,
                    NEW s \in Session
             PROVE  /\ (View'[s] = NoRow) <=> (disk'[s] = NoRow)
                    /\ View'[s] # NoRow => View'[s] = [disk'[s] EXCEPT !.state = View'[s].state]
  BY DEF Ledger!OnlyStateLags
<1>0. Ledger!Row = Row
  BY DEF Ledger!Row, Row
<1>1. View[s] \in Row \cup {NoRow} /\ disk[s] \in Row \cup {NoRow}
  BY DEF Table
<1>2. \A row \in Row : row = [row EXCEPT !.state = row.state]
  BY DEF Row
<1>3. ASSUME NEW r \in Session, Ledger!Record(r)
      PROVE  View'[s] = disk'[s] /\ View'[s] \in Row \cup {NoRow}
  BY <1>0, <1>1, <1>3 DEF Ledger!Record, Table
<1>4. ASSUME NEW r \in Session, Ledger!Touch(r)
      PROVE  /\ disk' = disk
             /\ View'[s] = View[s] \/ (/\ View[s] # NoRow /\ View'[s] # NoRow
                                        /\ View'[s] \in Row
                                        /\ View'[s] = [View[s] EXCEPT !.state = View'[s].state])
  BY <1>0, <1>1, <1>4, NoRowAssumption DEF Ledger!Touch, Table
<1>5. CASE Ledger!Settle \/ Ledger!FallBack
  BY <1>1, <1>2, <1>5, NoRowAssumption DEF Ledger!Settle, Ledger!FallBack
<1>6. CASE \E r \in Session : Ledger!Record(r)
  BY <1>2, <1>3, <1>6
<1>7. CASE \E r \in Session : Ledger!Touch(r)
  <2>1. PICK r \in Session : Ledger!Touch(r)
    BY <1>7
  <2>2. CASE View'[s] = View[s]
    BY <1>4, <2>1, <2>2 DEF Ledger!OnlyStateLags
  <2>3. CASE View'[s] # View[s]
    <3>1. /\ View[s] \in Row /\ disk[s] \in Row /\ View[s] # NoRow /\ disk' = disk
          /\ View[s] = [disk[s] EXCEPT !.state = View[s].state]
          /\ View'[s] = [View[s] EXCEPT !.state = View'[s].state]
          /\ View'[s] # NoRow
      BY <1>1, <1>4, <2>1, <2>3 DEF Ledger!OnlyStateLags
    <3>2. View'[s] = [disk[s] EXCEPT !.state = View'[s].state]
      BY <3>1 DEF Row
    <3> QED
      BY <3>1, <3>2, NoRowAssumption
  <2> QED
    BY <2>2, <2>3
<1>8. CASE UNCHANGED <<View, disk>>
  BY <1>8 DEF Ledger!OnlyStateLags
<1> QED
  BY <1>5, <1>6, <1>7, <1>8 DEF Ledger!LedgerNext

(* Seen through the ledger: what readers see and what a restart would find  *)
(* differ in last_state at most (write_sessions_debounced).                 *)
THEOREM OnlyLastStateLags == Spec => []Ledger!OnlyStateLags
<1>1. Init => Ledger!OnlyStateLags
  <2> SUFFICES ASSUME Init PROVE Ledger!OnlyStateLags
    OBVIOUS
  <2>1. View = disk /\ \A s \in Session : disk[s] = NoRow
    BY ViewOf DEF Init, Idle, Read
  <2> QED
    BY <2>1 DEF Ledger!OnlyStateLags
<1>2. StoreInv => View \in Table /\ disk \in Table
  BY ViewType DEF StoreInv, TypeOK
<1> QED
  BY <1>1, <1>2, LagStep, LedgerStep, StoreInvariant, PTL DEF Spec

-----------------------------------------------------------------------------
(* Acknowledgements stand beside their states while no write fails.         *)

(* A row readers see as acknowledged does not lag at all. *)
AckedSettled ==
    \A s \in Session : View[s] # NoRow /\ View[s].acked => View[s] = disk[s]

(* As long as every write succeeds, readers see what operations returned;   *)
(* an operation past its rename has yet to return.                          *)
NothingLost ==
    fails = 0 => IF op.pc = "refresh" THEN op.base = promised ELSE View = promised

(* No operation is under way that has nothing to do. *)
Needed == op.pc # "idle" => ~NothingToDo(op.base, op.q)

(* The ledger lets only unacknowledged rows lag. *)
LEMMA AckedStep ==
    /\ View \in Table /\ disk \in Table
    /\ AckedSettled /\ [Ledger!LedgerNext]_<<View, disk>>
    => AckedSettled'
<1> SUFFICES ASSUME View \in Table, disk \in Table, AckedSettled,
                    [Ledger!LedgerNext]_<<View, disk>>,
                    NEW s \in Session, View'[s] # NoRow, View'[s].acked
             PROVE  View'[s] = disk'[s]
  BY DEF AckedSettled
<1>0. Ledger!Row = Row
  BY DEF Ledger!Row, Row
<1>1. View[s] \in Row \cup {NoRow}
  BY DEF Table
<1>2. ASSUME NEW r \in Session, Ledger!Touch(r)
      PROVE  View'[s] = disk'[s]
  <2>1. disk' = disk /\ ~View[r].acked /\ View[r] # NoRow
    BY <1>2 DEF Ledger!Touch
  <2>2. PICK row \in Row : /\ row = [View[r] EXCEPT !.state = row.state]
                           /\ View' = [View EXCEPT ![r] = row]
    BY <1>0, <1>2 DEF Ledger!Touch
  <2>3. CASE s = r
    <3>1. View[s] \in Row /\ View'[s] = [View[s] EXCEPT !.state = row.state]
      BY <1>1, <2>1, <2>2, <2>3 DEF Table
    <3>2. View'[s].acked = View[s].acked
      BY <3>1 DEF Row
    <3> QED
      BY <2>1, <2>3, <3>2
  <2>4. CASE s # r
    <3>1. View'[s] = View[s]
      BY <2>2, <2>4 DEF Table
    <3> QED
      BY <2>1, <3>1 DEF AckedSettled
  <2> QED
    BY <2>3, <2>4
<1>3. CASE \E r \in Session : Ledger!Record(r)
  BY <1>3 DEF Ledger!Record
<1>4. CASE Ledger!Settle \/ Ledger!FallBack
  BY <1>4 DEF Ledger!Settle, Ledger!FallBack
<1>5. CASE UNCHANGED <<View, disk>>
  BY <1>5 DEF AckedSettled
<1> QED
  BY <1>2, <1>3, <1>4, <1>5 DEF Ledger!LedgerNext

(* An operation under way had something to do when it read the table. *)
LEMMA NeededStep == TypeOK /\ Needed /\ [Next]_vars => Needed'
<1> SUFFICES ASSUME TypeOK, Needed, [Next]_vars, op'.pc # "idle"
             PROVE  ~NothingToDo(op'.base, op'.q)
  BY DEF Needed, NothingToDo
<1>0. Idle.pc = "idle"
  BY DEF Idle
<1>1. ASSUME NEW q \in Request, Begin(q) PROVE ~NothingToDo(op'.base, op'.q)
  <2>1. /\ ~NothingToDo(Read, q)
        /\ op' = [pc |-> "commit", q |-> q, base |-> Read, new |-> Apply(Read, q)]
    BY <1>0, <1>1 DEF Begin
  <2>2. op'.base = Read /\ op'.q = q
    BY <2>1
  <2> QED
    BY <2>1, <2>2
<1>2. ASSUME NEW q \in Request, QuitFlush(q) PROVE ~NothingToDo(op'.base, op'.q)
  <2>1. op'.q = q /\ q.do = "flush"
    BY <1>2 DEF QuitFlush
  <2> QED
    BY <2>1 DEF NothingToDo
<1>3. CASE WriteThrough \/ Rename
  <2>1. op.pc # "idle" /\ op'.q = op.q /\ op'.base = op.base
    BY <1>3, OpType DEF WriteThrough, Rename
  <2> QED
    BY <2>1 DEF Needed
<1>4. CASE WriteDebounced \/ Refresh \/ Fail \/ Crash
  BY <1>0, <1>4 DEF WriteDebounced, Refresh, Fail, Crash
<1>5. CASE Flusher \/ UNCHANGED vars
  <2>1. op' = op
    BY <1>5 DEF Flusher, Elapse, Take, FlushRename, FlushRefresh, FlushFail, vars
  <2> QED
    BY <2>1 DEF Needed
<1> QED
  BY <1>1, <1>2, <1>3, <1>4, <1>5 DEF Next, Operation

(* While no write fails the two copies of a finished operation's effect,    *)
(* what readers see and what it promised, are one.                          *)
LEMMA NothingLostStep == StoreInv /\ NothingLost /\ [Next]_vars => NothingLost'
<1> SUFFICES ASSUME TypeOK, Discipline, NothingLost, [Next]_vars, fails' = 0
             PROVE  IF op'.pc = "refresh" THEN op'.base = promised' ELSE View' = promised'
  BY DEF StoreInv, NothingLost
<1> DEFINE Goal == IF op'.pc = "refresh" THEN op'.base = promised' ELSE View' = promised'
<1>0. Idle.pc = "idle"
  BY DEF Idle
<1>a. fails = 0 /\ ~Fail /\ ~FlushFail
  <2>1. fails \in Nat
    BY StoreAssumption DEF TypeOK
  <2>2. fails' \in {fails, fails + 1}
    BY DEF Next, Operation, Flusher, vars, Begin, QuitFlush, WriteThrough, WriteDebounced,
           Rename, Refresh, Fail, Elapse, Take, FlushRename, FlushRefresh, FlushFail, Crash
  <2> QED
    BY <2>1, <2>2 DEF Fail, FlushFail
<1>b. IF op.pc = "refresh" THEN op.base = promised ELSE View = promised
  BY <1>a DEF NothingLost
<1>1. ASSUME NEW q \in Request, Begin(q) PROVE Goal
  <2>1. /\ flush.pc = "idle" /\ op.pc = "idle" /\ flush' = flush /\ disk' = disk
        /\ promised' = promised
    BY <1>0, <1>1 DEF Begin, Locked
  <2>2. View = Read
    BY <2>1, ViewOf
  <2>3. cache' = Read
        /\ op' \in {Idle, [pc |-> "commit", q |-> q, base |-> Read, new |-> Apply(Read, q)]}
    BY <1>1 DEF Begin
  <2>4. Read # NoTable
    BY NoTableAssumption DEF TypeOK, Read
  <2>5. View' = Read /\ op'.pc # "refresh"
    BY <1>0, <2>1, <2>3, <2>4, ViewOfNext
  <2> QED
    BY <1>b, <2>1, <2>2, <2>5
<1>2. ASSUME NEW q \in Request, QuitFlush(q) PROVE Goal
  <2>1. /\ flush.pc = "idle" /\ op.pc = "idle" /\ pending # NoTable /\ cache = pending
        /\ promised' = promised
    BY <1>0, <1>2 DEF QuitFlush, Locked, Discipline
  <2>2. View = pending
    BY <2>1, ViewOf DEF Read
  <2>3. op'.pc = "write" /\ op'.base = pending
    BY <1>2 DEF QuitFlush
  <2> QED
    BY <1>b, <2>1, <2>2, <2>3, ViewOfNext
<1>3. CASE WriteThrough
  <2>1. op'.pc = "write" /\ op'.base = op.base /\ op.pc = "commit" /\ promised' = promised
    BY <1>3, OpType DEF WriteThrough
  <2> QED
    BY <1>b, <2>1, ViewOf, ViewOfNext
<1>4. CASE WriteDebounced
  <2>1. /\ op.new = Apply(op.base, op.q) /\ op.pc = "commit" /\ op.new # NoTable
    BY <1>4, OpType DEF WriteDebounced, Discipline
  <2>2. /\ cache' = op.new /\ op'.pc = "idle" /\ flush'.pc = "idle"
        /\ promised' = Apply(promised, op.q)
    BY <1>0, <1>4 DEF WriteDebounced, Locked
  <2>3. View = op.base /\ View' = op.new
    BY <2>1, <2>2, ViewOf, ViewOfNext
  <2> QED
    BY <1>b, <2>1, <2>2, <2>3
<1>5. CASE Rename
  <2>1. op.pc = "write" /\ op'.pc = "refresh" /\ op'.base = op.base /\ promised' = promised
    BY <1>5, OpType DEF Rename
  <2> QED
    BY <1>b, <2>1, ViewOf
<1>6. CASE Refresh
  <2>1. /\ op.pc = "refresh" /\ op.new # NoTable /\ flush = Idle
        /\ op.new = Apply(op.base, op.q)
    BY <1>6, OpType DEF Refresh, Discipline
  <2>2. /\ cache' = op.new /\ op'.pc = "idle" /\ flush' = flush
        /\ promised' = Apply(promised, op.q)
    BY <1>0, <1>6 DEF Refresh
  <2> QED
    BY <1>0, <1>b, <2>1, <2>2, ViewOfNext
<1>7. CASE Elapse
  BY <1>7, <1>b DEF Elapse, View, Read
<1>8. CASE Take
  <2>1. /\ flush.pc = "idle" /\ op.pc \notin {"write", "refresh"}
        /\ UNCHANGED <<op, disk, promised>>
    BY <1>8 DEF Take, Locked
  <2>2. CASE pending = NoTable
    <3>1. UNCHANGED <<cache, flush>>
      BY <1>8, <2>2 DEF Take
    <3> QED
      BY <1>b, <2>1, <3>1 DEF View, Read
  <2>3. CASE pending # NoTable
    <3>1. flush'.pc = "write" /\ flush'.new = pending
      BY <1>8, <2>3 DEF Take
    <3>2. cache = pending /\ op.pc \in {"idle", "commit"}
      BY <2>1, <2>3, OpType DEF Discipline
    <3> QED
      BY <1>b, <2>1, <2>3, <3>1, <3>2, ViewOf, ViewOfNext DEF Read
  <2> QED
    BY <2>2, <2>3
<1>9. CASE FlushRename
  <2>1. /\ flush # Idle /\ flush'.pc = "refresh" /\ flush.pc = "write"
        /\ UNCHANGED <<op, cache, promised>> /\ disk' = flush.new
    BY <1>9, FlushType DEF FlushRename
  <2>2. op.pc \in {"idle", "commit"} /\ cache = NoTable
        /\ (op.pc = "commit" => op.base = flush.new)
    BY <2>1, OpType DEF Discipline
  <2> QED
    BY <1>b, <2>1, <2>2, ViewOf, ViewOfNext
<1>10. CASE FlushRefresh
  <2>1. /\ flush.pc = "refresh" /\ flush # Idle /\ flush.new # NoTable
        /\ UNCHANGED <<op, disk, promised>> /\ cache' = flush.new /\ flush'.pc = "idle"
    BY <1>0, <1>10, FlushType DEF FlushRefresh
  <2>2. disk = flush.new /\ cache = NoTable /\ op.pc \in {"idle", "commit"}
    BY <2>1, OpType DEF Discipline
  <2> QED
    BY <1>b, <2>1, <2>2, ViewOf, ViewOfNext DEF Read
<1>11. CASE Crash
  <2>1. /\ op'.pc = "idle" /\ flush'.pc = "idle" /\ cache' = NoTable /\ disk' = disk
        /\ promised' = disk
    BY <1>0, <1>11 DEF Crash
  <2> QED
    BY <2>1, ViewOfNext
<1>12. CASE UNCHANGED vars
  BY <1>12, <1>b DEF vars, View, Read
<1> QED
  BY <1>a, <1>1, <1>2, <1>3, <1>4, <1>5, <1>6, <1>7, <1>8, <1>9, <1>10, <1>11, <1>12
  DEF Next, Operation, Flusher

(* A request that leaves a row acknowledged leaves its state as it was. *)
LEMMA AckedEffect ==
    ASSUME NEW t \in Table, NEW q \in Request, ~NothingToDo(t, q),
           Effect(t, q) # NoRow, Effect(t, q).acked
    PROVE  t[q.s] # NoRow /\ t[q.s].state = Effect(t, q).state
<1>1. q.s \in Session /\ (q.do = "state" => q.to \in State)
      /\ q.do \in {"track", "ack", "harness_id", "prompt", "forget", "flush", "state"}
  BY DEF Request
<1>2. t[q.s] \in Row \cup {NoRow} /\ Bare \in Row /\ Bare.acked = FALSE
  BY <1>1 DEF Table, Bare, Row
<1> DEFINE row == IF t[q.s] = NoRow THEN Bare ELSE t[q.s]
<1>3. row \in Row
  BY <1>2
<1>4. CASE q.do = "track"
  BY <1>2, <1>4 DEF Effect
<1>5. CASE q.do = "state"
  <2>1. Effect(t, q) = [row EXCEPT !.state = q.to, !.acked = FALSE]
    BY <1>5 DEF Effect
  <2> HIDE DEF row
  <2>2. Effect(t, q).acked = FALSE
    BY <1>3, <2>1 DEF Row
  <2> QED
    BY <2>2
<1>6. CASE q.do = "ack"
  <2>1. t[q.s] # NoRow
    BY <1>6 DEF NothingToDo
  <2>2. Effect(t, q) = [t[q.s] EXCEPT !.acked = TRUE]
    BY <1>6, <2>1 DEF Effect
  <2> QED
    BY <1>2, <2>1, <2>2 DEF Row
<1>7. CASE q.do \in {"harness_id", "prompt"}
  <2>1. Effect(t, q) = [row EXCEPT !.key = TRUE]
    BY <1>7 DEF Effect
  <2>2. CASE t[q.s] = NoRow
    <3>1. Effect(t, q) = [Bare EXCEPT !.key = TRUE]
      BY <2>1, <2>2
    <3>2. Effect(t, q).acked = FALSE
      BY <3>1 DEF Bare
    <3> QED
      BY <3>2
  <2>3. CASE t[q.s] # NoRow
    <3>1. Effect(t, q) = [t[q.s] EXCEPT !.key = TRUE]
      BY <2>1, <2>3
    <3> QED
      BY <1>2, <2>3, <3>1 DEF Row
  <2> QED
    BY <2>2, <2>3
<1>8. CASE q.do \in {"forget", "flush"}
  BY <1>8 DEF Effect
<1> QED
  BY <1>1, <1>4, <1>5, <1>6, <1>7, <1>8

(* What the invariants say of a flag on disk. *)
LEMMA FlagBesideState ==
    StoreInv /\ Ledger!OnlyStateLags /\ AckedSettled /\ NothingLost /\ Needed => AckInStep
<1> SUFFICES ASSUME TypeOK, Discipline, Ledger!OnlyStateLags, AckedSettled, NothingLost, Needed,
                    fails = 0, NEW s \in Session, disk[s] # NoRow, disk[s].acked
             PROVE  promised[s] # NoRow /\ promised[s].state = disk[s].state
  BY DEF StoreInv, AckInStep, AckNeverAhead
<1>1. CASE op.pc # "refresh"
  <2>1. View = promised /\ View \in Table /\ disk \in Table
    BY <1>1, ViewType DEF NothingLost, TypeOK
  <2>2. View[s] # NoRow /\ View[s] = [disk[s] EXCEPT !.state = View[s].state]
    BY DEF Ledger!OnlyStateLags
  <2>3. disk[s] \in Row
    BY <2>1 DEF Table
  <2>4. View[s].acked
    BY <2>2, <2>3 DEF Row
  <2> QED
    BY <2>1, <2>2, <2>4 DEF AckedSettled
<1>2. CASE op.pc = "refresh"
  <2>1. /\ op.base = promised /\ disk = Apply(promised, op.q)
        /\ op.q \in Request /\ promised \in Table /\ ~NothingToDo(promised, op.q)
    BY <1>2, OpType DEF NothingLost, Discipline, Needed, TypeOK
  <2>2. disk = [promised EXCEPT ![op.q.s] = Effect(promised, op.q)] /\ op.q.s \in Session
    BY <2>1, OneRow
  <2>3. CASE s # op.q.s
    BY <2>1, <2>2, <2>3 DEF Table
  <2>4. CASE s = op.q.s
    <3>1. disk[s] = Effect(promised, op.q)
      BY <2>1, <2>2, <2>4 DEF Table
    <3> QED
      BY <2>1, <2>4, <3>1, AckedEffect
  <2> QED
    BY <2>3, <2>4
<1> QED
  BY <1>1, <1>2

(* While every file write succeeds, an acknowledgement on disk stands       *)
(* beside the state it acknowledged, through flushes and crashes (store.rs: *)
(* the lost tail is self-correcting as long as the flag is never ahead).    *)
THEOREM FlagsStayInStep == Spec => []AckInStep
<1>1. Init => Ledger!OnlyStateLags /\ AckedSettled /\ NothingLost /\ Needed
  <2> SUFFICES ASSUME Init
               PROVE  Ledger!OnlyStateLags /\ AckedSettled /\ NothingLost /\ Needed
    OBVIOUS
  <2>1. View = disk /\ promised = disk /\ op.pc = "idle"
        /\ \A s \in Session : disk[s] = NoRow
    BY ViewOf DEF Init, Idle, Read
  <2> QED
    BY <2>1 DEF Ledger!OnlyStateLags, AckedSettled, NothingLost, Needed
<1>2. StoreInv => View \in Table /\ disk \in Table /\ TypeOK
  BY ViewType DEF StoreInv, TypeOK
<1> QED
  BY <1>1, <1>2, OnlyLastStateLags, AckedStep, LedgerStep, NeededStep, NothingLostStep,
     FlagBesideState, StoreInvariant, PTL DEF Spec
=============================================================================
