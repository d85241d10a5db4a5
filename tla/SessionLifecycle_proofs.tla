---------------------- MODULE SessionLifecycle_proofs ----------------------
(***************************************************************************)
(* Theorems about SessionLifecycle, for every set of ids, shells and       *)
(* commands and for every bound: no conversation loses its row, every      *)
(* spawn that succeeds is tracked, and no live session is left that raum   *)
(* neither lists nor would adopt.                                          *)
(***************************************************************************)
EXTENDS SessionLifecycle, TLAPS

(* The records of a call, by its command. *)
SpawnCalls == [op : {"spawn"}, id : Ids, pc : {"created", "tracked", "attached", "undo"}]
AttachCalls ==
    [op : {"attach"}, id : Ids,
     pc : {"create", "begin", "register", "open", "respawn", "grace", "surface", "drop"},
     resume : BOOLEAN, had : BOOLEAN, made : BOOLEAN]
RemoveCalls == [op : {"remove"}, id : Ids, pc : {"killed"}]
OrphanCalls == [op : {"orphan"}, id : Ids, pc : {"chosen"}]
ReplaceCalls ==
    [op : {"replace"}, id : Ids, pc : {"created", "tracked", "attached", "grace"}, was : Ids]
CallRecords ==
    {Idle} \cup SpawnCalls \cup AttachCalls \cup RemoveCalls \cup OrphanCalls \cup ReplaceCalls

Shapes ==
    /\ call \in [Calls -> CallRecords]
    /\ recon \in [pc : {"idle", "listed", "tracked", "done"}, live : SUBSET Ids]
    /\ bootView \in [live : SUBSET Ids, rows : SUBSET Ids]

Makes(k)    == k.op \in {"spawn", "replace"}
Attaches(k) == k.op = "attach"

(* A reattach past begin_reattach and not yet through. *)
Flies(k) == Attaches(k) /\ k.pc \in {"register", "open", "respawn", "grace", "surface"}

(* While raum is down it has nothing in memory, and no pass runs before the *)
(* boot task has applied its plan.                                          *)
DownIsIdle ==
    /\ boot = "down" =>
          /\ \A c \in Calls : call[c] = Idle
          /\ doomed = {} /\ entry = {} /\ reaped = {}
          /\ \A i \in Ids : ghost[i] = "none" /\ hears[i] = "no"
    /\ boot \in {"down", "listed"} => recon = NoRecon

(* The session a call makes is no other call's to make or attach to; of the *)
(* calls that attach to a session one is past begin_reattach.               *)
OneMaker ==
    \A c, d \in Calls :
        /\ Makes(call[c]) /\ (Makes(call[d]) \/ Attaches(call[d]))
        /\ call[c].id = call[d].id
        => c = d
OneFlight ==
    /\ \A c, d \in Calls :
          Flies(call[c]) /\ Flies(call[d]) /\ call[c].id = call[d].id => c = d
    /\ \A c \in Calls : Flies(call[c]) => call[c].id \in flight

(* No monitor outlives its entry, or watches a session being made or        *)
(* reattached.                                                              *)
MonitorsEntries == \A i \in Ids : monitor[i] /= "off" => i \in entry
Unmonitored ==
    \A c \in Calls : Makes(call[c]) \/ Flies(call[c]) => monitor[call[c].id] = "off"

(* What the fields of a call say. *)
Meant(k) ==
    /\ k.op = "replace" => k.was /= k.id
    /\ Attaches(k) /\ k.pc = "drop" => k.made
CallsMeant == \A c \in Calls : Meant(call[c])
RemovesClosed == \A c \in Calls : call[c].op = "remove" => call[c].id \in closed

(* What an orphan reap has chosen raum knew nothing of, so that no call is  *)
(* making it.                                                               *)
Reaps ==
    \A c \in Calls :
        /\ call[c].op = "orphan" => call[c].id \in reaped
        /\ Makes(call[c]) => call[c].id \notin reaped

(* Until a harness is launched its pane holds the placeholder, and nothing  *)
(* has reported a conversation of it, unless it is closed.                  *)
Prepares(k) == k.op = "spawn" /\ k.pc /= "undo" /\ k.id \notin Shells
FreshSpawn ==
    \A c \in Calls : Prepares(call[c]) =>
        /\ tmux[call[c].id] \in {"none", "place"}
        /\ \/ ~CanResume(row[call[c].id]) /\ hears[call[c].id] /= "late"
           \/ call[c].id \in closed

(* The rows the boot task read are there when it applies its plan, unless   *)
(* closed, no call has taken one up, and none has come to life.             *)
BootRows ==
    boot = "listed" => \A i \in bootView.rows :
        /\ (IsRow(row[i]) /\ i \notin reaped) \/ i \in closed
        /\ i \in bootView.live \/ ~Live(i)
        /\ ~Visible(i)
        /\ \A c \in Calls : Makes(call[c]) \/ Attaches(call[c]) => call[c].id /= i

(* A harness that is past its tracking has a row with its project, or is    *)
(* known not to.                                                            *)
Recorded(k) ==
    \/ k.op = "spawn" /\ k.pc \in {"tracked", "attached"} /\ k.id \notin Shells
    \/ k.op = "replace" /\ k.pc /= "created"
HasProject(i) == IsRow(row[i]) /\ row[i].project
TrackedRows ==
    \A c \in Calls : Recorded(call[c]) =>
        HasProject(call[c].id) \/ call[c].id \in closed \/ hears[call[c].id] = "bare"

(* A reattach that has made the placeholder its session lives in.           *)
Pending(i) ==
    \E c \in Calls : Attaches(call[c]) /\ call[c].pc = "begin" /\ call[c].made /\ call[c].id = i

(* A call that has opened a bridge, or found one, has the entry, unless its *)
(* session has ended.                                                       *)
Holds(k) ==
    \/ k.op = "spawn" /\ k.pc = "attached"
    \/ k.op = "replace" /\ k.pc \in {"attached", "grace"}
    \/ Attaches(k) /\ k.pc \in {"respawn", "grace"}
    \/ Attaches(k) /\ k.pc \in {"register", "open"} /\ k.had
EntryHeld ==
    \A c \in Calls : Holds(call[c]) =>
        call[c].id \in entry \cup closed \/ ~Live(call[c].id) \/ Pending(call[c].id)

(* A monitor that reaps has killed its session. *)
ReapsEnd == \A i \in Ids : monitor[i] = "reap" => i \in doomed \/ ~Live(i) \/ Pending(i)

(* An undone spawn waits for the kill of its session. *)
UndoneEnds ==
    \A c \in Calls : call[c].op = "spawn" /\ call[c].pc = "undo" =>
        call[c].id \in doomed \/ ~Live(call[c].id)

(* Who will see to a live session that has a row, or a machine that may     *)
(* write one, and is not listed.                                            *)
Covers(k) ==
    \/ k.op = "spawn" /\ k.pc /= "undo"
    \/ k.op = "replace"
    \/ Attaches(k) /\ k.pc = "begin" /\ k.made
    \/ Flies(k)
    \/ Attaches(k) /\ k.pc = "drop"
Seen(i) ==
    \/ boot = "listed" /\ i \in bootView.rows
    \/ i \in doomed
    \/ \E c \in Calls : Covers(call[c]) /\ call[c].id = i
    \/ recon.pc = "tracked" /\ i \in recon.live
Hidden(i) == Live(i) /\ ~Visible(i) /\ (IsRow(row[i]) \/ hears[i] \in {"yes", "bare"})
Accounted ==
    Running /\ ~degraded => \A i \in Ids \ closed : Hidden(i) => Seen(i) \/ hears[i] = "stray"

IInv ==
    /\ TypeOK /\ Shapes /\ DownIsIdle /\ OneMaker /\ OneFlight /\ MonitorsEntries /\ Unmonitored
    /\ CallsMeant /\ RemovesClosed /\ Reaps /\ FreshSpawn /\ BootRows /\ TrackedRows /\ EntryHeld
    /\ ReapsEnd /\ UndoneEnds /\ Accounted

-----------------------------------------------------------------------------
(* Lemmas about a call's record and about rows                             *)

\* A call's record is that of its command.
LEMMA ShapeOf ==
    ASSUME NEW k \in CallRecords
    PROVE  /\ k.op \in {"idle", "spawn", "attach", "remove", "orphan", "replace"}
           /\ k.op = "idle" <=> k = Idle
           /\ k.op = "spawn" <=> k \in SpawnCalls
           /\ k.op = "attach" <=> k \in AttachCalls
           /\ k.op = "remove" <=> k \in RemoveCalls
           /\ k.op = "orphan" <=> k \in OrphanCalls
           /\ k.op = "replace" <=> k \in ReplaceCalls
           /\ k.op /= "idle" => k.id \in Ids
BY DEF CallRecords, Idle, SpawnCalls, AttachCalls, RemoveCalls, OrphanCalls, ReplaceCalls

(* A step that changes the record of call c, and of no other. *)
Turn(c) ==
    /\ call' \in [Calls -> CallRecords]
    /\ \A d \in Calls \ {c} : call'[d] = call[d]

\* A record set in a call.
LEMMA SetsCall ==
    ASSUME Shapes, NEW c \in Calls, NEW k \in CallRecords, call' = [call EXCEPT ![c] = k]
    PROVE  Turn(c) /\ call'[c] = k
BY DEF Shapes, Turn

\* A call that ends.
LEMMA DoneSets ==
    ASSUME Shapes, NEW c \in Calls, Done(c)
    PROVE  Turn(c) /\ call'[c].op = "idle"
<1>1. Idle \in CallRecords /\ Idle.op = "idle"
  BY DEF CallRecords, Idle
<1> QED
  BY <1>1, SetsCall DEF Done

\* A spawn that goes on.
LEMMA SpawnSets ==
    ASSUME Shapes, NEW c \in Calls, call[c].op = "spawn",
           NEW p \in {"created", "tracked", "attached", "undo"},
           call' = [call EXCEPT ![c].pc = p]
    PROVE  /\ Turn(c)
           /\ call'[c].op = "spawn" /\ call'[c].pc = p /\ call'[c].id = call[c].id
<1>1. call[c] \in SpawnCalls
  BY ShapeOf DEF Shapes
<1>2. [call[c] EXCEPT !.pc = p] \in SpawnCalls
  BY <1>1 DEF SpawnCalls
<1>3. Turn(c) /\ call'[c] = [call[c] EXCEPT !.pc = p]
  BY <1>2, SetsCall DEF CallRecords
<1> QED
  BY <1>1, <1>3 DEF SpawnCalls

\* A replacement that goes on.
LEMMA ReplaceSets ==
    ASSUME Shapes, NEW c \in Calls, call[c].op = "replace",
           NEW p \in {"created", "tracked", "attached", "grace"},
           call' = [call EXCEPT ![c].pc = p]
    PROVE  /\ Turn(c)
           /\ call'[c].op = "replace" /\ call'[c].pc = p /\ call'[c].id = call[c].id
           /\ call'[c].was = call[c].was
<1>1. call[c] \in ReplaceCalls
  BY ShapeOf DEF Shapes
<1>2. [call[c] EXCEPT !.pc = p] \in ReplaceCalls
  BY <1>1 DEF ReplaceCalls
<1>3. Turn(c) /\ call'[c] = [call[c] EXCEPT !.pc = p]
  BY <1>2, SetsCall DEF CallRecords
<1> QED
  BY <1>1, <1>3 DEF ReplaceCalls

AttachPcs == {"create", "begin", "register", "open", "respawn", "grace", "surface", "drop"}

\* A reattach that goes on.
LEMMA AttachGoes ==
    ASSUME Shapes, NEW c \in Calls, call[c].op = "attach", NEW p \in AttachPcs,
           call' = [call EXCEPT ![c].pc = p]
    PROVE  /\ Turn(c)
           /\ call'[c].op = "attach" /\ call'[c].pc = p /\ call'[c].id = call[c].id
           /\ call'[c].resume = call[c].resume /\ call'[c].had = call[c].had /\ call'[c].made = call[c].made
<1>1. call[c] \in AttachCalls
  BY ShapeOf DEF Shapes
<1>2. [call[c] EXCEPT !.pc = p] \in AttachCalls
  BY <1>1 DEF AttachCalls, AttachPcs
<1>3. call' = [call EXCEPT ![c] = [call[c] EXCEPT !.pc = p]]
  BY <1>1 DEF Shapes, AttachCalls
<1>4. Turn(c) /\ call'[c] = [call[c] EXCEPT !.pc = p]
  BY <1>2, <1>3, SetsCall DEF CallRecords
<1>5. \A r \in AttachCalls :
         LET q == [r EXCEPT !.pc = p] IN
         /\ q.op = r.op /\ q.id = r.id /\ q.resume = r.resume /\ q.pc = p
         /\ q.had = r.had /\ q.made = r.made
  BY DEF AttachCalls
<1> QED
  BY <1>1, <1>4, <1>5

\* A reattach that goes on and remembers whether it found an entry.
LEMMA AttachFinds ==
    ASSUME Shapes, NEW c \in Calls, call[c].op = "attach", NEW p \in AttachPcs, NEW h \in BOOLEAN,
           call' = [call EXCEPT ![c].pc = p, ![c].had = h]
    PROVE  /\ Turn(c)
           /\ call'[c].op = "attach" /\ call'[c].pc = p /\ call'[c].id = call[c].id
           /\ call'[c].resume = call[c].resume /\ call'[c].had = h /\ call'[c].made = call[c].made
<1>1. call[c] \in AttachCalls
  BY ShapeOf DEF Shapes
<1>2. [call[c] EXCEPT !.pc = p, !.had = h] \in AttachCalls
  BY <1>1 DEF AttachCalls, AttachPcs
<1>3. call' = [call EXCEPT ![c] = [call[c] EXCEPT !.pc = p, !.had = h]]
  BY <1>1 DEF Shapes, AttachCalls
<1>4. Turn(c) /\ call'[c] = [call[c] EXCEPT !.pc = p, !.had = h]
  BY <1>2, <1>3, SetsCall DEF CallRecords
<1>5. \A r \in AttachCalls :
         LET q == [r EXCEPT !.pc = p, !.had = h] IN
         /\ q.op = r.op /\ q.id = r.id /\ q.resume = r.resume /\ q.pc = p
         /\ q.had = h /\ q.made = r.made
  BY DEF AttachCalls
<1> QED
  BY <1>1, <1>4, <1>5

\* A reattach that goes on and remembers whether it owns a placeholder.
LEMMA AttachMarks ==
    ASSUME Shapes, NEW c \in Calls, call[c].op = "attach", NEW p \in AttachPcs, NEW m \in BOOLEAN,
           call' = [call EXCEPT ![c].pc = p, ![c].made = m]
    PROVE  /\ Turn(c)
           /\ call'[c].op = "attach" /\ call'[c].pc = p /\ call'[c].id = call[c].id
           /\ call'[c].resume = call[c].resume /\ call'[c].had = call[c].had /\ call'[c].made = m
<1>1. call[c] \in AttachCalls
  BY ShapeOf DEF Shapes
<1>2. [call[c] EXCEPT !.pc = p, !.made = m] \in AttachCalls
  BY <1>1 DEF AttachCalls, AttachPcs
<1>3. call' = [call EXCEPT ![c] = [call[c] EXCEPT !.pc = p, !.made = m]]
  BY <1>1 DEF Shapes, AttachCalls
<1>4. Turn(c) /\ call'[c] = [call[c] EXCEPT !.pc = p, !.made = m]
  BY <1>2, <1>3, SetsCall DEF CallRecords
<1>5. \A r \in AttachCalls :
         LET q == [r EXCEPT !.pc = p, !.made = m] IN
         /\ q.op = r.op /\ q.id = r.id /\ q.resume = r.resume /\ q.pc = p
         /\ q.had = r.had /\ q.made = m
  BY DEF AttachCalls
<1> QED
  BY <1>1, <1>4, <1>5

\* A call that is under way is on a session.
LEMMA CallIds ==
    ASSUME Shapes
    PROVE  \A d \in Calls : call[d].op /= "idle" => call[d].id \in Ids
BY ShapeOf DEF Shapes

\* A row of sessions.toml.
LEMMA RowIs ==
    ASSUME NEW p \in BOOLEAN, NEW s \in BOOLEAN
    PROVE  Row(p, s) \in Rows /\ IsRow(Row(p, s)) /\ Row(p, s).project = p /\ Row(p, s).resume = s
<1>1. \A q \in BOOLEAN, t \in BOOLEAN : Row(q, t) \in Rows
  BY DEF Rows
<1>2. IsRow(Row(p, s)) /\ Row(p, s).project = p /\ Row(p, s).resume = s
  BY DEF Row, IsRow
<1> QED
  BY <1>1, <1>2

\* What upsert_row makes of a row: the metadata only grow.
LEMMA UpsertIs ==
    ASSUME NEW r \in Rows, NEW p \in BOOLEAN
    PROVE  /\ Upsert(r, p) \in Rows /\ IsRow(Upsert(r, p))
           /\ Upsert(r, p).project <=> (IsRow(r) /\ r.project) \/ p
           /\ CanResume(Upsert(r, p)) <=> CanResume(r)
<1>1. CASE IsRow(r)
  <2>1. PICK q \in BOOLEAN, s \in BOOLEAN : r = Row(q, s)
    BY <1>1 DEF Rows, NoRow, IsRow
  <2>2. (q \/ p) \in BOOLEAN
    OBVIOUS
  <2>3. Upsert(r, p) = Row(q \/ p, s)
    BY <1>1, <2>1 DEF Upsert, Row
  <2>4. Upsert(r, p) \in Rows /\ IsRow(Upsert(r, p))
    BY <2>2, <2>3, RowIs
  <2>5. r.project <=> q
    BY <2>1 DEF Row
  <2>6. Upsert(r, p).project <=> q \/ p
    BY <2>3 DEF Row
  <2>7. CanResume(Upsert(r, p)) <=> CanResume(r)
    BY <2>1, <2>3 DEF Row, IsRow, CanResume
  <2> QED
    BY <1>1, <2>4, <2>5, <2>6, <2>7
<1>2. CASE ~IsRow(r)
  <2>1. Upsert(r, p) = Row(p, FALSE)
    BY <1>2 DEF Upsert
  <2>2. Upsert(r, p) \in Rows /\ IsRow(Upsert(r, p))
    BY <2>1, RowIs
  <2>3. Upsert(r, p).project <=> p
    BY <2>1 DEF Row
  <2>4. ~CanResume(Upsert(r, p)) /\ ~CanResume(r)
    BY <1>2, <2>1 DEF Row, CanResume
  <2> QED
    BY <1>2, <2>2, <2>3, <2>4
<1> QED
  BY <1>1, <1>2

\* No row is a value of the map like any other.
LEMMA NoRowIs == NoRow \in Rows /\ ~IsRow(NoRow)
BY DEF Rows, NoRow, IsRow

\* registry.remove takes the entry, its monitor and the ghost, of one session.
LEMMA UnregisterIs ==
    ASSUME TypeOK, MonitorsEntries, NEW i \in Ids, Unregister({i})
    PROVE  /\ entry' = entry \ {i}
           /\ ghost' \in [Ids -> {"none", "live", "dead", "recover"}]
           /\ ghost'[i] = "none" /\ \A j \in Ids \ {i} : ghost'[j] = ghost[j]
           /\ monitor' \in [Ids -> {"off", "poll", "reap"}]
           /\ monitor'[i] = "off" /\ \A j \in Ids \ {i} : monitor'[j] = monitor[j]
BY DEF Unregister, TypeOK, MonitorsEntries

\* forget_session takes the row.
LEMMA ForgottenIs ==
    ASSUME TypeOK, NEW i \in Ids, row' = Forgotten({i})
    PROVE  /\ row' \in [Ids -> Rows] /\ ~IsRow(row'[i]) /\ ~CanResume(row'[i])
           /\ \A j \in Ids \ {i} : row'[j] = row[j]
<1>1. row' \in [Ids -> Rows] /\ row'[i] = NoRow /\ \A j \in Ids \ {i} : row'[j] = row[j]
  BY NoRowIs DEF Forgotten, TypeOK
<1> QED
  BY <1>1, NoRowIs DEF CanResume

\* upsert_row keeps a row one, and changes no other.
LEMMA UpsertedIs ==
    ASSUME TypeOK, NEW i \in Ids, NEW p \in BOOLEAN, row' = Upserted(i, p)
    PROVE  /\ row' \in [Ids -> Rows] /\ IsRow(row'[i])
           /\ row'[i].project <=> (IsRow(row[i]) /\ row[i].project) \/ p
           /\ CanResume(row'[i]) <=> CanResume(row[i])
           /\ \A j \in Ids \ {i} : row'[j] = row[j]
<1>1. row[i] \in Rows
  BY DEF TypeOK
<1>2. row' = [row EXCEPT ![i] = Upsert(row[i], p)]
  BY DEF Upserted
<1>3. row'[i] = Upsert(row[i], p) /\ \A j \in Ids \ {i} : row'[j] = row[j]
  BY <1>2 DEF TypeOK
<1>4. row' \in [Ids -> Rows]
  BY <1>1, <1>2, UpsertIs DEF TypeOK
<1> QED
  BY <1>1, <1>3, <1>4, UpsertIs

\* cleanup_harness_session takes the row, if the write succeeds, and the machine.
LEMMA CleanupIs ==
    ASSUME TypeOK, NEW i \in Ids, NEW u \in {"no", "stray"}, Cleanup(i, u)
    PROVE  /\ row' \in [Ids -> Rows]
           /\ \/ ~IsRow(row'[i]) /\ ~CanResume(row'[i])
              \/ row'[i] = row[i]
           /\ hears' \in [Ids -> {"no", "yes", "bare", "late", "stray"}]
           /\ hears'[i] \notin {"yes", "bare"}
           /\ ~IsRow(row'[i]) \/ hears'[i] = u
           /\ \A j \in Ids \ {i} : row'[j] = row[j] /\ hears'[j] = hears[j]
<1>1. Remains(i) \in {"no", "late"}
  BY DEF Remains
<1>2. CASE row' = Forgotten({i}) /\ hears' = [hears EXCEPT ![i] = Remains(i)]
  BY <1>1, <1>2, ForgottenIs DEF TypeOK
<1>3. CASE UNCHANGED row /\ hears' = [hears EXCEPT ![i] = u]
  BY <1>3 DEF TypeOK
<1> QED
  BY <1>2, <1>3 DEF Cleanup

\* A registration keeps a row one, and every other; a harness has its machine.
LEMMA RegistersIs ==
    ASSUME TypeOK, NEW i \in Ids, NEW p \in BOOLEAN, NEW u \in {"no", "yes", "bare"},
           Registers(i, p, u)
    PROVE  /\ row' \in [Ids -> Rows]
           /\ IsRow(row[i]) => IsRow(row'[i]) /\ (row[i].project => row'[i].project)
           /\ CanResume(row'[i]) <=> CanResume(row[i])
           /\ \/ IsRow(row'[i]) /\ (p => row'[i].project)
              \/ i \in Shells \/ hears'[i] = u
           /\ hears' \in [Ids -> {"no", "yes", "bare", "late", "stray"}] /\ hears'[i] /= "late"
           /\ \A j \in Ids \ {i} : row'[j] = row[j] /\ hears'[j] = hears[j]
<1>1. CASE row' = Upserted(i, p) /\ hears' = [hears EXCEPT ![i] = IF i \in Shells THEN "no" ELSE "yes"]
  BY <1>1, UpsertedIs DEF TypeOK
<1>2. CASE UNCHANGED row /\ hears' = [hears EXCEPT ![i] = IF i \in Shells THEN "no" ELSE u]
  BY <1>2 DEF TypeOK
<1> QED
  BY <1>1, <1>2 DEF Registers

\* What a report makes of a row: it is one, and keeps what it says.
LEMMA ReportedIs ==
    ASSUME NEW r \in Rows, NEW h \in BOOLEAN
    PROVE  /\ Reported(r, h) \in Rows /\ IsRow(Reported(r, h))
           /\ IsRow(r) /\ r.project => Reported(r, h).project
<1>1. CASE IsRow(r)
  <2>1. PICK q \in BOOLEAN, s \in BOOLEAN : r = Row(q, s)
    BY <1>1 DEF Rows, NoRow, IsRow
  <2>2. (s \/ h) \in BOOLEAN
    OBVIOUS
  <2>3. Reported(r, h) = Row(q, s \/ h)
    BY <1>1, <2>1 DEF Reported, Row
  <2>4. r.project <=> q
    BY <2>1 DEF Row
  <2> QED
    BY <2>2, <2>3, <2>4, RowIs
<1>2. CASE ~IsRow(r)
  <2>1. Reported(r, h) = Row(FALSE, h)
    BY <1>2 DEF Reported
  <2> QED
    BY <1>2, <2>1, RowIs
<1> QED
  BY <1>1, <1>2

\* A report writes its row and no other.
LEMMA ReportWrites ==
    ASSUME TypeOK, NEW i \in Ids, NEW h \in BOOLEAN, row' = [row EXCEPT ![i] = Reported(@, h)]
    PROVE  /\ row' \in [Ids -> Rows] /\ IsRow(row'[i])
           /\ IsRow(row[i]) /\ row[i].project => row'[i].project
           /\ \A j \in Ids \ {i} : row'[j] = row[j]
<1>1. row[i] \in Rows
  BY DEF TypeOK
<1>2. Reported(row[i], h) \in Rows
  BY <1>1, ReportedIs
<1>3. row'[i] = Reported(row[i], h) /\ row' \in [Ids -> Rows] /\ \A j \in Ids \ {i} : row'[j] = row[j]
  BY <1>2 DEF TypeOK
<1> QED
  BY <1>1, <1>3, ReportedIs

\* A new session's id is in nobody's hands.
LEMMA UnusedIs ==
    ASSUME IInv, NEW i \in Ids, Unused(i)
    PROVE  /\ ~Live(i) /\ ~IsRow(row[i]) /\ ~CanResume(row[i]) /\ ~Visible(i)
           /\ i \notin closed \cup reaped /\ hears[i] = "no" /\ monitor[i] = "off"
           /\ \A d \in Calls : call[d].op /= "idle" => call[d].id /= i
BY DEF IInv, Unused, Busy, CanResume, MonitorsEntries, Visible, TypeOK

-----------------------------------------------------------------------------
(* Each action preserves the inductive invariant *)

\* A spawn takes a new id.
LEMMA SpawnCreateKeeps ==
    ASSUME IInv, NEW c \in Calls, NEW i \in Ids, SpawnCreate(c, i)
    PROVE  IInv'
<1> USE DEF IInv
<1>1. Running /\ Unused(i) /\ call[c].op = "idle"
  BY DEF SpawnCreate, Asks, Idle
<1>2. /\ ~Live(i) /\ ~IsRow(row[i]) /\ ~CanResume(row[i]) /\ ~Visible(i)
      /\ i \notin closed \cup reaped /\ hears[i] = "no" /\ monitor[i] = "off"
      /\ \A d \in Calls : call[d].op /= "idle" => call[d].id /= i
  BY <1>1, UnusedIs
<1>3. /\ Task("spawn", i, "created") \in CallRecords
      /\ \A k : k = Task("spawn", i, "created") => k.op = "spawn" /\ k.pc = "created" /\ k.id = i
  BY DEF Task, CallRecords, SpawnCalls
<1>4. /\ Turn(c)
      /\ call'[c].op = "spawn" /\ call'[c].pc = "created" /\ call'[c].id = i
  BY <1>3, SetsCall DEF SpawnCreate
<1>5. tmux' = [tmux EXCEPT ![i] = IF i \in Shells THEN "run" ELSE "place"]
  BY DEF SpawnCreate, NewSession
<1>6. UNCHANGED <<doomed, row, hears, entry, ghost, monitor, flight, recon, boot, bootView,
       closed, spawned, reaped, degraded>>
  BY DEF SpawnCreate, regVars, rowVars, tmuxVars, bootVars, histVars
<1>7. TypeOK'
  BY <1>1, <1>2, <1>3, <1>4, <1>5, <1>6
    DEF TypeOK
<1>8. Shapes'
  BY <1>1, <1>3, <1>4, <1>6 DEF Shapes, Turn
<1>9. DownIsIdle'
  BY <1>1, <1>2, <1>3, <1>4, <1>5, <1>6
    DEF DownIsIdle, Turn, Idle, Running
<1>10. OneMaker'
  BY <1>1, <1>2, <1>3, <1>4 DEF OneMaker, Turn, Makes, Attaches
<1>11. OneFlight'
  BY <1>1, <1>2, <1>3, <1>4, <1>6 DEF OneFlight, Turn, Flies, Attaches, TypeOK
<1>12. Unmonitored'
  BY <1>1, <1>2, <1>3, <1>4, <1>6, CallIds DEF Unmonitored, Turn, Makes, Flies, Attaches, TypeOK, Shapes
<1>13. CallsMeant'
  BY <1>1, <1>3, <1>4 DEF CallsMeant, Meant, Turn, Attaches
<1>14. RemovesClosed'
  BY <1>1, <1>3, <1>4, <1>6 DEF RemovesClosed, Turn
<1>15. FreshSpawn'
  BY <1>1, <1>2, <1>3, <1>4, <1>5, <1>6, CallIds
    DEF FreshSpawn, Prepares, Makes, Turn, TypeOK, Shapes
<1>16. BootRows'
  BY <1>1, <1>2, <1>3, <1>4, <1>5, <1>6
    DEF BootRows, Turn, Makes, Attaches, Visible, Live, TypeOK, Shapes
<1>17. TrackedRows'
  BY <1>1, <1>2, <1>3, <1>4, <1>5, <1>6, CallIds
    DEF TrackedRows, Recorded, HasProject, Makes, Turn, TypeOK, Shapes
<1>18. EntryHeld'
  BY <1>1, <1>2, <1>3, <1>4, <1>5, <1>6, CallIds
    DEF EntryHeld, Holds, Pending, Live, Makes, Flies, Attaches, Turn, TypeOK
<1>19. UndoneEnds'
  BY <1>1, <1>2, <1>3, <1>4, <1>5, <1>6, CallIds
    DEF UndoneEnds, Makes, Turn, Live, TypeOK
<1>20. Accounted'
  BY <1>1, <1>2, <1>3, <1>4, <1>5, <1>6
    DEF Accounted, Hidden, Seen, Covers, Pending, Flies, Attaches, Turn, Running, Live,
        Visible, TypeOK
<1>21. MonitorsEntries'
  BY <1>6 DEF MonitorsEntries
<1>22. Reaps'
  BY <1>1, <1>2, <1>3, <1>4, <1>5, <1>6, CallIds DEF Reaps, Makes, Turn, TypeOK, Shapes
<1>23. ReapsEnd'
  BY <1>1, <1>2, <1>3, <1>4, <1>5, <1>6, CallIds
    DEF ReapsEnd, Pending, Live, Flies, Attaches, Turn, MonitorsEntries, TypeOK, Shapes
<1> QED
  BY <1>7, <1>8, <1>9, <1>10, <1>11, <1>12, <1>13, <1>14, <1>15, <1>16, <1>17, <1>18, <1>19, <1>20,
        <1>21, <1>22, <1>23

\* A spawn writes its row.
LEMMA SpawnTrackKeeps ==
    ASSUME IInv, NEW c \in Calls, NEW p \in BOOLEAN, SpawnTrack(c, p)
    PROVE  IInv'
<1> USE DEF IInv
<1>1. PICK i \in Ids : i = call[c].id
  BY ShapeOf DEF SpawnTrack, Shapes
<1>2. call[c].op = "spawn" /\ call[c].pc = "created" /\ (i \notin Shells => p)
  BY <1>1 DEF SpawnTrack
<1>3. /\ Turn(c)
      /\ call'[c].op = "spawn" /\ call'[c].pc = "tracked" /\ call'[c].id = i
  BY <1>1, <1>2, SpawnSets DEF SpawnTrack
<1>4. /\ row' \in [Ids -> Rows]
      /\ IsRow(row[i]) => IsRow(row'[i])
      /\ CanResume(row'[i]) <=> CanResume(row[i])
      /\ \/ IsRow(row'[i]) /\ (p => row'[i].project)
         \/ i \in Shells \/ hears'[i] = "bare"
      /\ hears' \in [Ids -> {"no", "yes", "bare", "late", "stray"}] /\ hears'[i] /= "late"
      /\ \A j \in Ids \ {i} : row'[j] = row[j] /\ hears'[j] = hears[j]
  BY <1>1, RegistersIs DEF SpawnTrack
<1>5. \A d \in Calls \ {c} : Makes(call[d]) \/ Attaches(call[d]) => call[d].id /= i
  BY <1>1, <1>2 DEF OneMaker, Makes
<1>6. UNCHANGED <<tmux, doomed, entry, ghost, monitor, flight, recon, boot, bootView, closed,
       spawned, reaped, degraded>>
  BY DEF SpawnTrack, regVars, rowVars, tmuxVars, bootVars, histVars
<1>7. TypeOK'
  BY <1>1, <1>2, <1>3, <1>4, <1>5, <1>6
    DEF TypeOK
<1>8. Shapes'
  BY <1>1, <1>2, <1>3, <1>6 DEF Shapes, Turn
<1>9. DownIsIdle'
  BY <1>1, <1>2, <1>3, <1>4, <1>5, <1>6
    DEF DownIsIdle, Turn, Idle, Running
<1>10. OneMaker'
  BY <1>1, <1>2, <1>3, <1>5 DEF OneMaker, Turn, Makes, Attaches
<1>11. OneFlight'
  BY <1>1, <1>2, <1>3, <1>5, <1>6 DEF OneFlight, Turn, Flies, Attaches, TypeOK
<1>12. Unmonitored'
  BY <1>1, <1>2, <1>3, <1>5, <1>6, CallIds DEF Unmonitored, Turn, Makes, Flies, Attaches, TypeOK, Shapes
<1>13. CallsMeant'
  BY <1>1, <1>2, <1>3 DEF CallsMeant, Meant, Turn, Attaches
<1>14. RemovesClosed'
  BY <1>1, <1>2, <1>3, <1>6 DEF RemovesClosed, Turn
<1>15. FreshSpawn'
  BY <1>1, <1>2, <1>3, <1>4, <1>5, <1>6, CallIds
    DEF FreshSpawn, Prepares, Makes, Turn, TypeOK, Shapes
<1>16. BootRows'
  BY <1>1, <1>2, <1>3, <1>4, <1>5, <1>6
    DEF BootRows, Turn, Makes, Attaches, Visible, Live, TypeOK, Shapes
<1>17. TrackedRows'
  BY <1>1, <1>2, <1>3, <1>4, <1>5, <1>6, CallIds
    DEF TrackedRows, Recorded, HasProject, Makes, Turn, TypeOK, Shapes
<1>18. EntryHeld'
  BY <1>1, <1>2, <1>3, <1>4, <1>5, <1>6, CallIds
    DEF EntryHeld, Holds, Pending, Live, Makes, Flies, Attaches, Turn, TypeOK
<1>19. UndoneEnds'
  BY <1>1, <1>2, <1>3, <1>4, <1>5, <1>6, CallIds
    DEF UndoneEnds, Makes, Turn, Live, TypeOK
<1>20. Accounted'
  BY <1>1, <1>2, <1>3, <1>4, <1>5, <1>6
    DEF Accounted, Hidden, Seen, Covers, Pending, Flies, Attaches, Turn, Running, Live,
        Visible, TypeOK
<1>21. MonitorsEntries'
  BY <1>6 DEF MonitorsEntries
<1>22. Reaps'
  BY <1>1, <1>2, <1>3, <1>4, <1>5, <1>6, CallIds DEF Reaps, Makes, Turn, TypeOK, Shapes
<1>23. ReapsEnd'
  BY <1>1, <1>2, <1>3, <1>4, <1>5, <1>6, CallIds
    DEF ReapsEnd, Pending, Live, Flies, Attaches, Turn, MonitorsEntries, TypeOK, Shapes
<1> QED
  BY <1>7, <1>8, <1>9, <1>10, <1>11, <1>12, <1>13, <1>14, <1>15, <1>16, <1>17, <1>18, <1>19, <1>20,
        <1>21, <1>22, <1>23

\* A spawn opens its bridge.
LEMMA SpawnAttachKeeps ==
    ASSUME IInv, NEW c \in Calls, SpawnAttach(c)
    PROVE  IInv'
<1> USE DEF IInv
<1>1. PICK i \in Ids : i = call[c].id
  BY ShapeOf DEF SpawnAttach, Shapes
<1>2. call[c].op = "spawn" /\ call[c].pc = "tracked"
  BY <1>1 DEF SpawnAttach
<1>3. /\ Turn(c)
      /\ \/ i \in Shells /\ call'[c].op = "idle"
         \/ /\ i \notin Shells /\ monitor' = monitor
            /\ call'[c].op = "spawn" /\ call'[c].pc = "attached" /\ call'[c].id = i
  BY <1>1, <1>2, DoneSets, SpawnSets DEF SpawnAttach
<1>4. /\ entry' = entry \cup {i} /\ ghost' = [ghost EXCEPT ![i] = "none"]
      /\ monitor' \in {monitor, [monitor EXCEPT ![i] = "poll"]}
      /\ spawned' \subseteq Ids
  BY <1>1 DEF SpawnAttach, TypeOK
<1>5. \A d \in Calls \ {c} : Makes(call[d]) \/ Attaches(call[d]) => call[d].id /= i
  BY <1>1, <1>2 DEF OneMaker, Makes
<1>6. UNCHANGED <<tmux, doomed, row, hears, flight, recon, boot, bootView, closed, reaped,
       degraded>>
  BY DEF SpawnAttach, regVars, rowVars, tmuxVars, bootVars, histVars
<1>7. TypeOK'
  BY <1>1, <1>2, <1>3, <1>4, <1>5, <1>6
    DEF TypeOK
<1>8. Shapes'
  BY <1>1, <1>2, <1>3, <1>6 DEF Shapes, Turn
<1>9. DownIsIdle'
  BY <1>1, <1>2, <1>3, <1>4, <1>5, <1>6
    DEF DownIsIdle, Turn, Idle, Running
<1>10. OneMaker'
  BY <1>1, <1>2, <1>3, <1>5 DEF OneMaker, Turn, Makes, Attaches
<1>11. OneFlight'
  BY <1>1, <1>2, <1>3, <1>5, <1>6 DEF OneFlight, Turn, Flies, Attaches, TypeOK
<1>12. MonitorsEntries'
  BY <1>1, <1>2, <1>3, <1>4 DEF MonitorsEntries, TypeOK
<1>13. Unmonitored'
  BY <1>1, <1>2, <1>3, <1>4, <1>5, CallIds DEF Unmonitored, Turn, Makes, Flies, Attaches, TypeOK, Shapes
<1>14. CallsMeant'
  BY <1>1, <1>2, <1>3 DEF CallsMeant, Meant, Turn, Attaches
<1>15. RemovesClosed'
  BY <1>1, <1>2, <1>3, <1>6 DEF RemovesClosed, Turn
<1>16. FreshSpawn'
  BY <1>1, <1>2, <1>3, <1>4, <1>5, <1>6, CallIds
    DEF FreshSpawn, Prepares, Makes, Turn, TypeOK, Shapes
<1>17. BootRows'
  BY <1>1, <1>2, <1>3, <1>4, <1>5, <1>6
    DEF BootRows, Turn, Makes, Attaches, Visible, Live, TypeOK, Shapes
<1>18. TrackedRows'
  BY <1>1, <1>2, <1>3, <1>4, <1>5, <1>6, CallIds
    DEF TrackedRows, Recorded, HasProject, Makes, Turn, TypeOK, Shapes
<1>19. EntryHeld'
  BY <1>1, <1>2, <1>3, <1>4, <1>5, <1>6, CallIds
    DEF EntryHeld, Holds, Pending, Live, Makes, Flies, Attaches, Turn, TypeOK
<1>20. UndoneEnds'
  BY <1>1, <1>2, <1>3, <1>4, <1>5, <1>6, CallIds
    DEF UndoneEnds, Makes, Turn, Live, TypeOK
<1>21. Accounted'
  BY <1>1, <1>2, <1>3, <1>4, <1>5, <1>6
    DEF Accounted, Hidden, Seen, Covers, Pending, Flies, Attaches, Turn, Running, Live,
        Visible, TypeOK
<1>22. Reaps'
  BY <1>1, <1>2, <1>3, <1>4, <1>5, <1>6, CallIds DEF Reaps, Makes, Turn, TypeOK, Shapes
<1>23. ReapsEnd'
  BY <1>1, <1>2, <1>3, <1>4, <1>5, <1>6, CallIds
    DEF ReapsEnd, Pending, Live, Flies, Attaches, Turn, MonitorsEntries, TypeOK, Shapes
<1> QED
  BY <1>7, <1>8, <1>9, <1>10, <1>11, <1>12, <1>13, <1>14, <1>15, <1>16, <1>17, <1>18, <1>19, <1>20,
        <1>21, <1>22, <1>23

\* A spawn finds no bridge.
LEMMA SpawnAttachFailsKeeps ==
    ASSUME IInv, NEW c \in Calls, SpawnAttachFails(c)
    PROVE  IInv'
<1> USE DEF IInv
<1>1. PICK i \in Ids : i = call[c].id
  BY ShapeOf DEF SpawnAttachFails, Shapes
<1>2. call[c].op = "spawn" /\ call[c].pc = "tracked"
  BY <1>1 DEF SpawnAttachFails
<1>3. Turn(c) /\ call'[c].op = "idle"
  BY DoneSets DEF SpawnAttachFails
<1>4. /\ row' \in [Ids -> Rows]
      /\ \/ ~IsRow(row'[i]) /\ ~CanResume(row'[i])
         \/ row'[i] = row[i]
      /\ hears' \in [Ids -> {"no", "yes", "bare", "late", "stray"}]
      /\ hears'[i] \notin {"yes", "bare"}
      /\ \A j \in Ids \ {i} : row'[j] = row[j] /\ hears'[j] = hears[j]
  BY <1>1, CleanupIs DEF SpawnAttachFails
<1>5. doomed' = doomed \cup {i}
  BY <1>1 DEF SpawnAttachFails
<1>6. \A d \in Calls \ {c} : Makes(call[d]) \/ Attaches(call[d]) => call[d].id /= i
  BY <1>1, <1>2 DEF OneMaker, Makes
<1>7. UNCHANGED <<tmux, entry, ghost, monitor, flight, recon, boot, bootView, closed, spawned,
       reaped, degraded>>
  BY DEF SpawnAttachFails, regVars, rowVars, tmuxVars, bootVars, histVars
<1>8. TypeOK'
  BY <1>1, <1>2, <1>3, <1>4, <1>5, <1>6, <1>7
    DEF TypeOK
<1>9. Shapes'
  BY <1>1, <1>2, <1>3, <1>7 DEF Shapes, Turn
<1>10. DownIsIdle'
  BY <1>1, <1>2, <1>3, <1>4, <1>5, <1>6, <1>7
    DEF DownIsIdle, Turn, Idle, Running
<1>11. OneMaker'
  BY <1>1, <1>2, <1>3, <1>6 DEF OneMaker, Turn, Makes, Attaches
<1>12. OneFlight'
  BY <1>1, <1>2, <1>3, <1>6, <1>7 DEF OneFlight, Turn, Flies, Attaches, TypeOK
<1>13. Unmonitored'
  BY <1>1, <1>2, <1>3, <1>6, <1>7, CallIds DEF Unmonitored, Turn, Makes, Flies, Attaches, TypeOK, Shapes
<1>14. CallsMeant'
  BY <1>1, <1>2, <1>3 DEF CallsMeant, Meant, Turn, Attaches
<1>15. RemovesClosed'
  BY <1>1, <1>2, <1>3, <1>7 DEF RemovesClosed, Turn
<1>16. FreshSpawn'
  BY <1>1, <1>2, <1>3, <1>4, <1>5, <1>6, <1>7, CallIds
    DEF FreshSpawn, Prepares, Makes, Turn, TypeOK, Shapes
<1>17. BootRows'
  BY <1>1, <1>2, <1>3, <1>4, <1>5, <1>6, <1>7
    DEF BootRows, Turn, Makes, Attaches, Visible, Live, TypeOK, Shapes
<1>18. TrackedRows'
  BY <1>1, <1>2, <1>3, <1>4, <1>5, <1>6, <1>7, CallIds
    DEF TrackedRows, Recorded, HasProject, Makes, Turn, TypeOK, Shapes
<1>19. EntryHeld'
  BY <1>1, <1>2, <1>3, <1>4, <1>5, <1>6, <1>7, CallIds
    DEF EntryHeld, Holds, Pending, Live, Makes, Flies, Attaches, Turn, TypeOK
<1>20. UndoneEnds'
  BY <1>1, <1>2, <1>3, <1>4, <1>5, <1>6, <1>7, CallIds
    DEF UndoneEnds, Makes, Turn, Live, TypeOK
<1>21. Accounted'
  BY <1>1, <1>2, <1>3, <1>4, <1>5, <1>6, <1>7
    DEF Accounted, Hidden, Seen, Covers, Pending, Flies, Attaches, Turn, Running, Live,
        Visible, TypeOK
<1>22. MonitorsEntries'
  BY <1>7 DEF MonitorsEntries
<1>23. Reaps'
  BY <1>1, <1>2, <1>3, <1>4, <1>5, <1>6, <1>7, CallIds DEF Reaps, Makes, Turn, TypeOK, Shapes
<1>24. ReapsEnd'
  BY <1>1, <1>2, <1>3, <1>4, <1>5, <1>6, <1>7, CallIds
    DEF ReapsEnd, Pending, Live, Flies, Attaches, Turn, MonitorsEntries, TypeOK, Shapes
<1> QED
  BY <1>8, <1>9, <1>10, <1>11, <1>12, <1>13, <1>14, <1>15, <1>16, <1>17, <1>18, <1>19, <1>20,
        <1>21, <1>22, <1>23, <1>24

\* A spawn launches its harness.
LEMMA SpawnLaunchKeeps ==
    ASSUME IInv, NEW c \in Calls, SpawnLaunch(c)
    PROVE  IInv'
<1> USE DEF IInv
<1>1. PICK i \in Ids : i = call[c].id
  BY ShapeOf DEF SpawnLaunch, Shapes
<1>2. call[c].op = "spawn" /\ call[c].pc = "attached"
  BY <1>1 DEF SpawnLaunch
<1>3. Turn(c) /\ call'[c].op = "idle"
  BY DoneSets DEF SpawnLaunch
<1>4. /\ Live(i) /\ tmux' = [tmux EXCEPT ![i] = "run"]
      /\ monitor' = [monitor EXCEPT ![i] = IF i \in entry THEN "poll" ELSE @]
      /\ spawned' \subseteq Ids
  BY <1>1 DEF SpawnLaunch, RespawnPane, TypeOK
<1>5. \A d \in Calls \ {c} : Makes(call[d]) \/ Attaches(call[d]) => call[d].id /= i
  BY <1>1, <1>2 DEF OneMaker, Makes
<1>6. i \in entry \cup closed \/ ~Live(i)
  BY <1>1, <1>2 DEF EntryHeld, Holds, Pending, OneMaker, Makes
<1>7. UNCHANGED <<doomed, row, hears, entry, ghost, flight, recon, boot, bootView, closed,
       reaped, degraded>>
  BY DEF SpawnLaunch, regVars, rowVars, tmuxVars, bootVars, histVars
<1>8. TypeOK'
  BY <1>1, <1>2, <1>3, <1>4, <1>5, <1>6, <1>7
    DEF TypeOK
<1>9. Shapes'
  BY <1>1, <1>2, <1>3, <1>6, <1>7 DEF Shapes, Turn
<1>10. DownIsIdle'
  BY <1>1, <1>2, <1>3, <1>4, <1>5, <1>6, <1>7
    DEF DownIsIdle, Turn, Idle, Running
<1>11. OneMaker'
  BY <1>1, <1>2, <1>3, <1>5, <1>6 DEF OneMaker, Turn, Makes, Attaches
<1>12. OneFlight'
  BY <1>1, <1>2, <1>3, <1>5, <1>6, <1>7 DEF OneFlight, Turn, Flies, Attaches, TypeOK
<1>13. MonitorsEntries'
  BY <1>1, <1>2, <1>4, <1>6, <1>7 DEF MonitorsEntries, TypeOK
<1>14. Unmonitored'
  BY <1>1, <1>2, <1>3, <1>4, <1>5, <1>6, CallIds
    DEF Unmonitored, Turn, Makes, Flies, Attaches, TypeOK, Shapes
<1>15. CallsMeant'
  BY <1>1, <1>2, <1>3, <1>6 DEF CallsMeant, Meant, Turn, Attaches
<1>16. RemovesClosed'
  BY <1>1, <1>2, <1>3, <1>6, <1>7 DEF RemovesClosed, Turn
<1>17. FreshSpawn'
  BY <1>1, <1>2, <1>3, <1>4, <1>5, <1>6, <1>7, CallIds
    DEF FreshSpawn, Prepares, Makes, Turn, TypeOK, Shapes
<1>18. BootRows'
  BY <1>1, <1>2, <1>3, <1>4, <1>5, <1>6, <1>7
    DEF BootRows, Turn, Makes, Attaches, Visible, Live, TypeOK, Shapes
<1>19. TrackedRows'
  BY <1>1, <1>2, <1>3, <1>4, <1>5, <1>6, <1>7, CallIds
    DEF TrackedRows, Recorded, HasProject, Makes, Turn, TypeOK, Shapes
<1>20. EntryHeld'
  BY <1>1, <1>2, <1>3, <1>4, <1>5, <1>6, <1>7, CallIds
    DEF EntryHeld, Holds, Pending, Live, Makes, Flies, Attaches, Turn, TypeOK
<1>21. UndoneEnds'
  BY <1>1, <1>2, <1>3, <1>4, <1>5, <1>6, <1>7, CallIds
    DEF UndoneEnds, Makes, Turn, Live, TypeOK
<1>22. Accounted'
  BY <1>1, <1>2, <1>3, <1>4, <1>5, <1>6, <1>7
    DEF Accounted, Hidden, Seen, Covers, Pending, Flies, Attaches, Turn, Running, Live,
        Visible, TypeOK
<1>23. Reaps'
  BY <1>1, <1>2, <1>3, <1>4, <1>5, <1>6, <1>7, CallIds DEF Reaps, Makes, Turn, TypeOK, Shapes
<1>24. ReapsEnd'
  BY <1>1, <1>2, <1>3, <1>4, <1>5, <1>6, <1>7, CallIds
    DEF ReapsEnd, Pending, Live, Flies, Attaches, Turn, MonitorsEntries, TypeOK, Shapes
<1> QED
  BY <1>8, <1>9, <1>10, <1>11, <1>12, <1>13, <1>14, <1>15, <1>16, <1>17, <1>18, <1>19, <1>20,
        <1>21, <1>22, <1>23, <1>24

\* A spawn cannot launch its harness.
LEMMA SpawnLaunchFailsKeeps ==
    ASSUME IInv, NEW c \in Calls, SpawnLaunchFails(c)
    PROVE  IInv'
<1> USE DEF IInv
<1>1. PICK i \in Ids : i = call[c].id
  BY ShapeOf DEF SpawnLaunchFails, Shapes
<1>2. call[c].op = "spawn" /\ call[c].pc = "attached"
  BY <1>1 DEF SpawnLaunchFails
<1>3. /\ Turn(c)
      /\ call'[c].op = "spawn" /\ call'[c].pc = "undo" /\ call'[c].id = i
  BY <1>1, <1>2, SpawnSets DEF SpawnLaunchFails
<1>4. /\ row' \in [Ids -> Rows]
      /\ \/ ~IsRow(row'[i]) /\ ~CanResume(row'[i])
         \/ row'[i] = row[i]
      /\ hears' \in [Ids -> {"no", "yes", "bare", "late", "stray"}]
      /\ hears'[i] \notin {"yes", "bare"}
      /\ \A j \in Ids \ {i} : row'[j] = row[j] /\ hears'[j] = hears[j]
  BY <1>1, CleanupIs DEF SpawnLaunchFails
<1>5. doomed' = doomed \cup {i}
  BY <1>1 DEF SpawnLaunchFails
<1>6. \A d \in Calls \ {c} : Makes(call[d]) \/ Attaches(call[d]) => call[d].id /= i
  BY <1>1, <1>2 DEF OneMaker, Makes
<1>7. UNCHANGED <<tmux, entry, ghost, monitor, flight, recon, boot, bootView, closed, spawned,
       reaped, degraded>>
  BY DEF SpawnLaunchFails, regVars, rowVars, tmuxVars, bootVars, histVars
<1>8. TypeOK'
  BY <1>1, <1>2, <1>3, <1>4, <1>5, <1>6, <1>7
    DEF TypeOK
<1>9. Shapes'
  BY <1>1, <1>2, <1>3, <1>7 DEF Shapes, Turn
<1>10. DownIsIdle'
  BY <1>1, <1>2, <1>3, <1>4, <1>5, <1>6, <1>7
    DEF DownIsIdle, Turn, Idle, Running
<1>11. OneMaker'
  BY <1>1, <1>2, <1>3, <1>6 DEF OneMaker, Turn, Makes, Attaches
<1>12. OneFlight'
  BY <1>1, <1>2, <1>3, <1>6, <1>7 DEF OneFlight, Turn, Flies, Attaches, TypeOK
<1>13. Unmonitored'
  BY <1>1, <1>2, <1>3, <1>6, <1>7, CallIds DEF Unmonitored, Turn, Makes, Flies, Attaches, TypeOK, Shapes
<1>14. CallsMeant'
  BY <1>1, <1>2, <1>3 DEF CallsMeant, Meant, Turn, Attaches
<1>15. RemovesClosed'
  BY <1>1, <1>2, <1>3, <1>7 DEF RemovesClosed, Turn
<1>16. FreshSpawn'
  BY <1>1, <1>2, <1>3, <1>4, <1>5, <1>6, <1>7, CallIds
    DEF FreshSpawn, Prepares, Makes, Turn, TypeOK, Shapes
<1>17. BootRows'
  BY <1>1, <1>2, <1>3, <1>4, <1>5, <1>6, <1>7
    DEF BootRows, Turn, Makes, Attaches, Visible, Live, TypeOK, Shapes
<1>18. TrackedRows'
  BY <1>1, <1>2, <1>3, <1>4, <1>5, <1>6, <1>7, CallIds
    DEF TrackedRows, Recorded, HasProject, Makes, Turn, TypeOK, Shapes
<1>19. EntryHeld'
  BY <1>1, <1>2, <1>3, <1>4, <1>5, <1>6, <1>7, CallIds
    DEF EntryHeld, Holds, Pending, Live, Makes, Flies, Attaches, Turn, TypeOK
<1>20. UndoneEnds'
  BY <1>1, <1>2, <1>3, <1>4, <1>5, <1>6, <1>7, CallIds
    DEF UndoneEnds, Makes, Turn, Live, TypeOK
<1>21. Accounted'
  BY <1>1, <1>2, <1>3, <1>4, <1>5, <1>6, <1>7
    DEF Accounted, Hidden, Seen, Covers, Pending, Flies, Attaches, Turn, Running, Live,
        Visible, TypeOK
<1>22. MonitorsEntries'
  BY <1>7 DEF MonitorsEntries
<1>23. Reaps'
  BY <1>1, <1>2, <1>3, <1>4, <1>5, <1>6, <1>7, CallIds DEF Reaps, Makes, Turn, TypeOK, Shapes
<1>24. ReapsEnd'
  BY <1>1, <1>2, <1>3, <1>4, <1>5, <1>6, <1>7, CallIds
    DEF ReapsEnd, Pending, Live, Flies, Attaches, Turn, MonitorsEntries, TypeOK, Shapes
<1> QED
  BY <1>8, <1>9, <1>10, <1>11, <1>12, <1>13, <1>14, <1>15, <1>16, <1>17, <1>18, <1>19, <1>20,
        <1>21, <1>22, <1>23, <1>24

\* A spawn that is undone is over.
LEMMA SpawnUndoKeeps ==
    ASSUME IInv, NEW c \in Calls, SpawnUndo(c)
    PROVE  IInv'
<1> USE DEF IInv
<1>1. PICK i \in Ids : i = call[c].id
  BY ShapeOf DEF SpawnUndo, Shapes
<1>2. call[c].op = "spawn" /\ call[c].pc = "undo" /\ i \notin doomed
  BY <1>1 DEF SpawnUndo
<1>3. Turn(c) /\ call'[c].op = "idle"
  BY DoneSets DEF SpawnUndo
<1>4. /\ entry' = entry \ {i}
      /\ ghost' \in [Ids -> {"none", "live", "dead", "recover"}]
      /\ ghost'[i] = "none" /\ \A j \in Ids \ {i} : ghost'[j] = ghost[j]
      /\ monitor' \in [Ids -> {"off", "poll", "reap"}]
      /\ monitor'[i] = "off" /\ \A j \in Ids \ {i} : monitor'[j] = monitor[j]
  BY <1>1, UnregisterIs DEF SpawnUndo
<1>5. \A d \in Calls \ {c} : Makes(call[d]) \/ Attaches(call[d]) => call[d].id /= i
  BY <1>1, <1>2 DEF OneMaker, Makes
<1>6. ~Live(i)
  BY <1>1, <1>2 DEF UndoneEnds
<1>7. UNCHANGED <<tmux, doomed, row, hears, flight, recon, boot, bootView, closed, spawned,
       reaped, degraded>>
  BY DEF SpawnUndo, regVars, rowVars, tmuxVars, bootVars, histVars
<1>8. TypeOK'
  BY <1>1, <1>2, <1>3, <1>4, <1>5, <1>6, <1>7
    DEF TypeOK
<1>9. Shapes'
  BY <1>1, <1>2, <1>3, <1>6, <1>7 DEF Shapes, Turn
<1>10. DownIsIdle'
  BY <1>1, <1>2, <1>3, <1>4, <1>5, <1>6, <1>7
    DEF DownIsIdle, Turn, Idle, Running
<1>11. OneMaker'
  BY <1>1, <1>2, <1>3, <1>5, <1>6 DEF OneMaker, Turn, Makes, Attaches
<1>12. OneFlight'
  BY <1>1, <1>2, <1>3, <1>5, <1>6, <1>7 DEF OneFlight, Turn, Flies, Attaches, TypeOK
<1>13. MonitorsEntries'
  BY <1>1, <1>2, <1>4, <1>6 DEF MonitorsEntries, TypeOK
<1>14. Unmonitored'
  BY <1>1, <1>2, <1>3, <1>4, <1>5, <1>6, CallIds
    DEF Unmonitored, Turn, Makes, Flies, Attaches, TypeOK, Shapes
<1>15. CallsMeant'
  BY <1>1, <1>2, <1>3, <1>6 DEF CallsMeant, Meant, Turn, Attaches
<1>16. RemovesClosed'
  BY <1>1, <1>2, <1>3, <1>6, <1>7 DEF RemovesClosed, Turn
<1>17. FreshSpawn'
  BY <1>1, <1>2, <1>3, <1>4, <1>5, <1>6, <1>7, CallIds
    DEF FreshSpawn, Prepares, Makes, Turn, TypeOK, Shapes
<1>18. BootRows'
  BY <1>1, <1>2, <1>3, <1>4, <1>5, <1>6, <1>7
    DEF BootRows, Turn, Makes, Attaches, Visible, Live, TypeOK, Shapes
<1>19. TrackedRows'
  BY <1>1, <1>2, <1>3, <1>4, <1>5, <1>6, <1>7, CallIds
    DEF TrackedRows, Recorded, HasProject, Makes, Turn, TypeOK, Shapes
<1>20. EntryHeld'
  BY <1>1, <1>2, <1>3, <1>4, <1>5, <1>6, <1>7, CallIds
    DEF EntryHeld, Holds, Pending, Live, Makes, Flies, Attaches, Turn, TypeOK
<1>21. UndoneEnds'
  BY <1>1, <1>2, <1>3, <1>4, <1>5, <1>6, <1>7, CallIds
    DEF UndoneEnds, Makes, Turn, Live, TypeOK
<1>22. Accounted'
  BY <1>1, <1>2, <1>3, <1>4, <1>5, <1>6, <1>7
    DEF Accounted, Hidden, Seen, Covers, Pending, Flies, Attaches, Turn, Running, Live,
        Visible, TypeOK
<1>23. Reaps'
  BY <1>1, <1>2, <1>3, <1>4, <1>5, <1>6, <1>7, CallIds DEF Reaps, Makes, Turn, TypeOK, Shapes
<1>24. ReapsEnd'
  BY <1>1, <1>2, <1>3, <1>4, <1>5, <1>6, <1>7, CallIds
    DEF ReapsEnd, Pending, Live, Flies, Attaches, Turn, MonitorsEntries, TypeOK, Shapes
<1> QED
  BY <1>8, <1>9, <1>10, <1>11, <1>12, <1>13, <1>14, <1>15, <1>16, <1>17, <1>18, <1>19, <1>20,
        <1>21, <1>22, <1>23, <1>24

\* A reattach looks its session up.
LEMMA AttachLookKeeps ==
    ASSUME IInv, NEW c \in Calls, NEW i \in Ids, NEW resume \in BOOLEAN, AttachLook(c, i, resume)
    PROVE  IInv'
<1> USE DEF IInv
<1>1. call[c].op = "idle" /\ ~Making(i) /\ (Visible(i) \/ boot = "up")
  BY DEF AttachLook, Idle
<1>2. PICK pc \in {"begin", "create"} : call' = [call EXCEPT ![c] = Attaching(i, pc, resume, FALSE,
      FALSE)]
  BY DEF AttachLook
<1>3. /\ Attaching(i, pc, resume, FALSE, FALSE) \in CallRecords
      /\ \A k : k = Attaching(i, pc, resume, FALSE, FALSE) =>
            k.op = "attach" /\ k.pc = pc /\ k.id = i /\ ~k.made /\ ~k.had
  BY DEF Attaching, CallRecords, AttachCalls
<1>4. /\ Turn(c) /\ call'[c].op = "attach" /\ call'[c].pc \in {"begin", "create"}
      /\ call'[c].id = i /\ ~call'[c].made /\ ~call'[c].had
  BY <1>2, <1>3, SetsCall
<1>5. \A d \in Calls : Makes(call[d]) => call[d].id /= i
  BY <1>1 DEF Making, Makes
<1>6. Running
  BY DEF AttachLook, Asks
<1>7. UNCHANGED <<tmux, doomed, row, hears, entry, ghost, monitor, flight, recon, boot,
       bootView, closed, spawned, reaped, degraded>>
  BY DEF AttachLook, regVars, rowVars, tmuxVars, bootVars, histVars
<1>8. Shapes'
  BY <1>1, <1>4, <1>6, <1>7 DEF Shapes, Turn
<1>9. DownIsIdle'
  BY <1>1, <1>4, <1>5, <1>6, <1>7
    DEF DownIsIdle, Turn, Idle, Running
<1>10. OneMaker'
  BY <1>1, <1>4, <1>5, <1>6 DEF OneMaker, Turn, Makes, Attaches
<1>11. OneFlight'
  BY <1>1, <1>4, <1>5, <1>6, <1>7 DEF OneFlight, Turn, Flies, Attaches, TypeOK
<1>12. Unmonitored'
  BY <1>1, <1>4, <1>5, <1>6, <1>7, CallIds DEF Unmonitored, Turn, Makes, Flies, Attaches, TypeOK, Shapes
<1>13. CallsMeant'
  BY <1>1, <1>4, <1>6 DEF CallsMeant, Meant, Turn, Attaches
<1>14. RemovesClosed'
  BY <1>1, <1>4, <1>6, <1>7 DEF RemovesClosed, Turn
<1>15. FreshSpawn'
  BY <1>1, <1>4, <1>5, <1>6, <1>7, CallIds
    DEF FreshSpawn, Prepares, Makes, Turn, TypeOK, Shapes
<1>16. BootRows'
  BY <1>1, <1>4, <1>5, <1>6, <1>7
    DEF BootRows, Turn, Makes, Attaches, Visible, Live, TypeOK, Shapes
<1>17. TrackedRows'
  BY <1>1, <1>4, <1>5, <1>6, <1>7, CallIds
    DEF TrackedRows, Recorded, HasProject, Makes, Turn, TypeOK, Shapes
<1>18. EntryHeld'
  BY <1>1, <1>4, <1>5, <1>6, <1>7, CallIds
    DEF EntryHeld, Holds, Pending, Live, Makes, Flies, Attaches, Turn, TypeOK
<1>19. UndoneEnds'
  BY <1>1, <1>4, <1>5, <1>6, <1>7, CallIds
    DEF UndoneEnds, Makes, Turn, Live, TypeOK
<1>20. Accounted'
  BY <1>1, <1>4, <1>5, <1>6, <1>7
    DEF Accounted, Hidden, Seen, Covers, Pending, Flies, Attaches, Turn, Running, Live,
        Visible, TypeOK
<1>21. TypeOK' /\ MonitorsEntries'
  BY <1>7 DEF TypeOK, MonitorsEntries
<1>22. Reaps'
  BY <1>1, <1>4, <1>5, <1>6, <1>7, CallIds DEF Reaps, Makes, Turn, TypeOK, Shapes
<1>23. ReapsEnd'
  BY <1>1, <1>4, <1>5, <1>6, <1>7, CallIds
    DEF ReapsEnd, Pending, Live, Flies, Attaches, Turn, MonitorsEntries, TypeOK, Shapes
<1> QED
  BY <1>8, <1>9, <1>10, <1>11, <1>12, <1>13, <1>14, <1>15, <1>16, <1>17, <1>18, <1>19, <1>20, <1>21, <1>22, <1>23

\* A resume makes the placeholder its pane lacks.
LEMMA AttachCreateKeeps ==
    ASSUME IInv, NEW c \in Calls, AttachCreate(c)
    PROVE  IInv'
<1> USE DEF IInv
<1>1. PICK i \in Ids : i = call[c].id
  BY ShapeOf DEF AttachCreate, Shapes
<1>2. call[c].op = "attach" /\ call[c].pc = "create"
  BY <1>1 DEF AttachCreate
<1>3. ASSUME ~Live(i)
      PROVE  /\ Turn(c) /\ call'[c].op = "attach" /\ call'[c].pc = "begin" /\ call'[c].id = i
           /\ call'[c].made = TRUE
  BY <1>1, <1>2, <1>3, AttachMarks DEF AttachCreate, AttachPcs
<1>4. \/ /\ Live(i) /\ tmux' = tmux
         /\ Turn(c) /\ call'[c].op = "idle"
      \/ /\ ~Live(i) /\ tmux' = [tmux EXCEPT ![i] = "place"]
         /\ Turn(c) /\ call'[c].op = "attach" /\ call'[c].pc = "begin" /\ call'[c].id = i
         /\ call'[c].made = TRUE
  BY <1>1, <1>2, <1>3, DoneSets DEF AttachCreate, NewSession
<1>5. \A d \in Calls \ {c} : Makes(call[d]) => call[d].id /= i
  BY <1>1, <1>2 DEF OneMaker, Attaches
<1>6. UNCHANGED <<doomed, row, hears, entry, ghost, monitor, flight, recon, boot, bootView,
       closed, spawned, reaped, degraded>>
  BY DEF AttachCreate, regVars, rowVars, tmuxVars, bootVars, histVars
<1>7. TypeOK'
  BY <1>1, <1>2, <1>3, <1>4, <1>5, <1>6
    DEF TypeOK
<1>8. Shapes'
  BY <1>1, <1>2, <1>3, <1>4, <1>6 DEF Shapes, Turn
<1>9. DownIsIdle'
  BY <1>1, <1>2, <1>3, <1>4, <1>5, <1>6
    DEF DownIsIdle, Turn, Idle, Running
<1>10. OneMaker'
  BY <1>1, <1>2, <1>3, <1>4, <1>5 DEF OneMaker, Turn, Makes, Attaches
<1>11. OneFlight'
  BY <1>1, <1>2, <1>3, <1>4, <1>5, <1>6 DEF OneFlight, Turn, Flies, Attaches, TypeOK
<1>12. Unmonitored'
  BY <1>1, <1>2, <1>3, <1>4, <1>5, <1>6, CallIds
    DEF Unmonitored, Turn, Makes, Flies, Attaches, TypeOK, Shapes
<1>13. CallsMeant'
  BY <1>1, <1>2, <1>3, <1>4 DEF CallsMeant, Meant, Turn, Attaches
<1>14. RemovesClosed'
  BY <1>1, <1>2, <1>3, <1>4, <1>6 DEF RemovesClosed, Turn
<1>15. FreshSpawn'
  BY <1>1, <1>2, <1>3, <1>4, <1>5, <1>6, CallIds
    DEF FreshSpawn, Prepares, Makes, Turn, TypeOK, Shapes
<1>16. BootRows'
  BY <1>1, <1>2, <1>3, <1>4, <1>5, <1>6
    DEF BootRows, Turn, Makes, Attaches, Visible, Live, TypeOK, Shapes
<1>17. TrackedRows'
  BY <1>1, <1>2, <1>3, <1>4, <1>5, <1>6, CallIds
    DEF TrackedRows, Recorded, HasProject, Makes, Turn, TypeOK, Shapes
<1>18. EntryHeld'
  BY <1>1, <1>2, <1>3, <1>4, <1>5, <1>6, CallIds
    DEF EntryHeld, Holds, Pending, Live, Makes, Flies, Attaches, Turn, TypeOK
<1>19. UndoneEnds'
  BY <1>1, <1>2, <1>3, <1>4, <1>5, <1>6, CallIds
    DEF UndoneEnds, Makes, Turn, Live, TypeOK
<1>20. Accounted'
  BY <1>1, <1>2, <1>3, <1>4, <1>5, <1>6
    DEF Accounted, Hidden, Seen, Covers, Pending, Flies, Attaches, Turn, Running, Live,
        Visible, TypeOK
<1>21. MonitorsEntries'
  BY <1>6 DEF MonitorsEntries
<1>22. Reaps'
  BY <1>1, <1>2, <1>3, <1>4, <1>5, <1>6, CallIds DEF Reaps, Makes, Turn, TypeOK, Shapes
<1>23. ReapsEnd'
  BY <1>1, <1>2, <1>3, <1>4, <1>5, <1>6, CallIds
    DEF ReapsEnd, Pending, Live, Flies, Attaches, Turn, MonitorsEntries, TypeOK, Shapes
<1> QED
  BY <1>7, <1>8, <1>9, <1>10, <1>11, <1>12, <1>13, <1>14, <1>15, <1>16, <1>17, <1>18, <1>19, <1>20,
        <1>21, <1>22, <1>23

\* A second reattach of a session is refused.
LEMMA AttachRefusedKeeps ==
    ASSUME IInv, NEW c \in Calls, AttachRefused(c)
    PROVE  IInv'
<1> USE DEF IInv
<1>1. PICK i \in Ids : i = call[c].id
  BY ShapeOf DEF AttachRefused, Shapes
<1>2. call[c].op = "attach" /\ call[c].pc = "begin"
  BY <1>1 DEF AttachRefused
<1>3. Turn(c) /\ call'[c].op = "idle"
  BY DoneSets DEF AttachRefused
<1>4. /\ tmux' \in [Ids -> {"none", "place", "run", "dead"}]
      /\ tmux'[i] = IF call[c].made THEN "none" ELSE tmux[i]
      /\ \A j \in Ids \ {i} : tmux'[j] = tmux[j]
  BY <1>1 DEF AttachRefused, KillIfMade, TypeOK
<1>5. \A d \in Calls \ {c} : Makes(call[d]) => call[d].id /= i
  BY <1>1, <1>2 DEF OneMaker, Attaches
<1>6. UNCHANGED <<doomed, row, hears, entry, ghost, monitor, flight, recon, boot, bootView,
       closed, spawned, reaped, degraded>>
  BY DEF AttachRefused, regVars, rowVars, tmuxVars, bootVars, histVars
<1>7. TypeOK'
  BY <1>1, <1>2, <1>3, <1>4, <1>5, <1>6
    DEF TypeOK
<1>8. Shapes'
  BY <1>1, <1>2, <1>3, <1>6 DEF Shapes, Turn
<1>9. DownIsIdle'
  BY <1>1, <1>2, <1>3, <1>4, <1>5, <1>6
    DEF DownIsIdle, Turn, Idle, Running
<1>10. OneMaker'
  BY <1>1, <1>2, <1>3, <1>5 DEF OneMaker, Turn, Makes, Attaches
<1>11. OneFlight'
  BY <1>1, <1>2, <1>3, <1>5, <1>6 DEF OneFlight, Turn, Flies, Attaches, TypeOK
<1>12. Unmonitored'
  BY <1>1, <1>2, <1>3, <1>5, <1>6, CallIds DEF Unmonitored, Turn, Makes, Flies, Attaches, TypeOK, Shapes
<1>13. CallsMeant'
  BY <1>1, <1>2, <1>3 DEF CallsMeant, Meant, Turn, Attaches
<1>14. RemovesClosed'
  BY <1>1, <1>2, <1>3, <1>6 DEF RemovesClosed, Turn
<1>15. FreshSpawn'
  BY <1>1, <1>2, <1>3, <1>4, <1>5, <1>6, CallIds
    DEF FreshSpawn, Prepares, Makes, Turn, TypeOK, Shapes
<1>16. BootRows'
  BY <1>1, <1>2, <1>3, <1>4, <1>5, <1>6
    DEF BootRows, Turn, Makes, Attaches, Visible, Live, TypeOK, Shapes
<1>17. TrackedRows'
  BY <1>1, <1>2, <1>3, <1>4, <1>5, <1>6, CallIds
    DEF TrackedRows, Recorded, HasProject, Makes, Turn, TypeOK, Shapes
<1>18. EntryHeld'
  BY <1>1, <1>2, <1>3, <1>4, <1>5, <1>6, CallIds
    DEF EntryHeld, Holds, Pending, Live, Makes, Flies, Attaches, Turn, TypeOK
<1>19. UndoneEnds'
  BY <1>1, <1>2, <1>3, <1>4, <1>5, <1>6, CallIds
    DEF UndoneEnds, Makes, Turn, Live, TypeOK
<1>20. Accounted'
  BY <1>1, <1>2, <1>3, <1>4, <1>5, <1>6
    DEF Accounted, Hidden, Seen, Covers, Pending, Flies, Attaches, Turn, Running, Live,
        Visible, TypeOK
<1>21. MonitorsEntries'
  BY <1>6 DEF MonitorsEntries
<1>22. Reaps'
  BY <1>1, <1>2, <1>3, <1>4, <1>5, <1>6, CallIds DEF Reaps, Makes, Turn, TypeOK, Shapes
<1>23. ReapsEnd'
  BY <1>1, <1>2, <1>3, <1>4, <1>5, <1>6, CallIds
    DEF ReapsEnd, Pending, Live, Flies, Attaches, Turn, MonitorsEntries, TypeOK, Shapes
<1> QED
  BY <1>7, <1>8, <1>9, <1>10, <1>11, <1>12, <1>13, <1>14, <1>15, <1>16, <1>17, <1>18, <1>19, <1>20,
        <1>21, <1>22, <1>23

\* A reattach detaches what is there and begins.
LEMMA AttachBeginKeeps ==
    ASSUME IInv, NEW c \in Calls, NEW p \in BOOLEAN, AttachBegin(c, p)
    PROVE  IInv'
<1> USE DEF IInv
<1>1. PICK i \in Ids : i = call[c].id
  BY ShapeOf DEF AttachBegin, Shapes
<1>2. call[c].op = "attach" /\ call[c].pc = "begin" /\ i \notin flight
  BY <1>1 DEF AttachBegin
<1>3. (i \in entry) \in BOOLEAN
  OBVIOUS
<1>4. call' = [call EXCEPT ![c].pc = "register", ![c].had = i \in entry]
  BY <1>1 DEF AttachBegin
<1>5. /\ Turn(c) /\ call'[c].op = "attach" /\ call'[c].pc = "register" /\ call'[c].id = i
      /\ call'[c].had <=> i \in entry
  BY <1>1, <1>2, <1>3, <1>4, AttachFinds DEF AttachPcs
<1>6. /\ flight' = flight \cup {i}
      /\ monitor' = [monitor EXCEPT ![i] = IF i \in entry THEN "off" ELSE @]
      /\ ghost' = [ghost EXCEPT ![i] = "none"]
  BY <1>1 DEF AttachBegin
<1>7. /\ row' \in [Ids -> Rows]
      /\ IsRow(row[i]) => IsRow(row'[i])
      /\ CanResume(row'[i]) <=> CanResume(row[i])
      /\ hears' \in [Ids -> {"no", "yes", "bare", "late", "stray"}]
      /\ \A j \in Ids \ {i} : row'[j] = row[j] /\ hears'[j] = hears[j]
  BY <1>1, RegistersIs DEF AttachBegin, TypeOK, rowVars
<1>8. \A d \in Calls \ {c} : Makes(call[d]) \/ Flies(call[d]) => call[d].id /= i
  BY <1>1, <1>2 DEF OneMaker, OneFlight, Attaches
<1>9. monitor'[i] = "off"
  BY <1>1, <1>6 DEF TypeOK, MonitorsEntries
<1>10. UNCHANGED <<tmux, doomed, entry, recon, boot, bootView, closed, spawned, reaped,
       degraded>>
  BY DEF AttachBegin, regVars, rowVars, tmuxVars, bootVars, histVars
<1>11. TypeOK'
  BY <1>1, <1>2, <1>3, <1>4, <1>5, <1>6, <1>7, <1>8, <1>9, <1>10
    DEF TypeOK
<1>12. Shapes'
  BY <1>1, <1>2, <1>5, <1>10 DEF Shapes, Turn
<1>13. DownIsIdle'
  BY <1>1, <1>2, <1>3, <1>4, <1>5, <1>6, <1>7, <1>8, <1>9, <1>10
    DEF DownIsIdle, Turn, Idle, Running
<1>14. OneMaker'
  BY <1>1, <1>2, <1>5, <1>8 DEF OneMaker, Turn, Makes, Attaches
<1>15. OneFlight'
  BY <1>1, <1>2, <1>5, <1>6, <1>8 DEF OneFlight, Turn, Flies, Attaches, TypeOK
<1>16. MonitorsEntries'
  BY <1>1, <1>2, <1>6, <1>9, <1>10 DEF MonitorsEntries, TypeOK
<1>17. Unmonitored'
  BY <1>1, <1>2, <1>5, <1>6, <1>8, <1>9, CallIds
    DEF Unmonitored, Turn, Makes, Flies, Attaches, TypeOK, Shapes
<1>18. CallsMeant'
  BY <1>1, <1>2, <1>5 DEF CallsMeant, Meant, Turn, Attaches
<1>19. RemovesClosed'
  BY <1>1, <1>2, <1>5, <1>10 DEF RemovesClosed, Turn
<1>20. FreshSpawn'
  BY <1>1, <1>2, <1>3, <1>4, <1>5, <1>6, <1>7, <1>8, <1>9, <1>10, CallIds
    DEF FreshSpawn, Prepares, Makes, Turn, TypeOK, Shapes
<1>21. BootRows'
  BY <1>1, <1>2, <1>3, <1>4, <1>5, <1>6, <1>7, <1>8, <1>9, <1>10
    DEF BootRows, Turn, Makes, Attaches, Visible, Live, TypeOK, Shapes
<1>22. TrackedRows'
  BY <1>1, <1>2, <1>3, <1>4, <1>5, <1>6, <1>7, <1>8, <1>9, <1>10, CallIds
    DEF TrackedRows, Recorded, HasProject, Makes, Turn, TypeOK, Shapes
<1>23. EntryHeld'
  BY <1>1, <1>2, <1>3, <1>4, <1>5, <1>6, <1>7, <1>8, <1>9, <1>10, CallIds
    DEF EntryHeld, Holds, Pending, Live, Makes, Flies, Attaches, Turn, TypeOK
<1>24. UndoneEnds'
  BY <1>1, <1>2, <1>3, <1>4, <1>5, <1>6, <1>7, <1>8, <1>9, <1>10, CallIds
    DEF UndoneEnds, Makes, Turn, Live, TypeOK
<1>25. Accounted'
  BY <1>1, <1>2, <1>3, <1>4, <1>5, <1>6, <1>7, <1>8, <1>9, <1>10
    DEF Accounted, Hidden, Seen, Covers, Pending, Flies, Attaches, Turn, Running, Live,
        Visible, TypeOK
<1>26. Reaps'
  BY <1>1, <1>2, <1>3, <1>4, <1>5, <1>6, <1>7, <1>8, <1>9, <1>10, CallIds DEF Reaps, Makes, Turn, TypeOK, Shapes
<1>27. ReapsEnd'
  BY <1>1, <1>2, <1>3, <1>4, <1>5, <1>6, <1>7, <1>8, <1>9, <1>10, CallIds
    DEF ReapsEnd, Pending, Live, Flies, Attaches, Turn, MonitorsEntries, TypeOK, Shapes
<1> QED
  BY <1>11, <1>12, <1>13, <1>14, <1>15, <1>16, <1>17, <1>18, <1>19, <1>20, <1>21, <1>22, <1>23,
        <1>24, <1>25, <1>26, <1>27

\* A reattach writes the row back.
LEMMA AttachRegisterKeeps ==
    ASSUME IInv, NEW c \in Calls, NEW p \in BOOLEAN, AttachRegister(c, p)
    PROVE  IInv'
<1> USE DEF IInv
<1>1. PICK i \in Ids : i = call[c].id
  BY ShapeOf DEF AttachRegister, Shapes
<1>2. call[c].op = "attach" /\ call[c].pc = "register"
  BY <1>1 DEF AttachRegister
<1>3. /\ Turn(c) /\ call'[c].op = "attach" /\ call'[c].pc = "open" /\ call'[c].id = i
      /\ call'[c].resume = call[c].resume /\ call'[c].had = call[c].had /\ call'[c].made = call[c].made
  BY <1>1, <1>2, AttachGoes DEF AttachRegister, AttachPcs
<1>4. /\ row' \in [Ids -> Rows]
      /\ IsRow(row[i]) => IsRow(row'[i])
      /\ CanResume(row'[i]) <=> CanResume(row[i])
      /\ hears' \in [Ids -> {"no", "yes", "bare", "late", "stray"}]
      /\ \A j \in Ids \ {i} : row'[j] = row[j] /\ hears'[j] = hears[j]
  BY <1>1, RegistersIs DEF AttachRegister, TypeOK, rowVars
<1>5. \A d \in Calls \ {c} : Makes(call[d]) \/ Flies(call[d]) => call[d].id /= i
  BY <1>1, <1>2 DEF OneMaker, OneFlight, Attaches, Flies
<1>6. UNCHANGED <<tmux, doomed, entry, ghost, monitor, flight, recon, boot, bootView, closed,
       spawned, reaped, degraded>>
  BY DEF AttachRegister, regVars, rowVars, tmuxVars, bootVars, histVars
<1>7. TypeOK'
  BY <1>1, <1>2, <1>3, <1>4, <1>5, <1>6
    DEF TypeOK
<1>8. Shapes'
  BY <1>1, <1>2, <1>3, <1>6 DEF Shapes, Turn
<1>9. DownIsIdle'
  BY <1>1, <1>2, <1>3, <1>4, <1>5, <1>6
    DEF DownIsIdle, Turn, Idle, Running
<1>10. OneMaker'
  BY <1>1, <1>2, <1>3, <1>5 DEF OneMaker, Turn, Makes, Attaches
<1>11. OneFlight'
  BY <1>1, <1>2, <1>3, <1>5, <1>6 DEF OneFlight, Turn, Flies, Attaches, TypeOK
<1>12. Unmonitored'
  BY <1>1, <1>2, <1>3, <1>5, <1>6, CallIds DEF Unmonitored, Turn, Makes, Flies, Attaches, TypeOK, Shapes
<1>13. CallsMeant'
  BY <1>1, <1>2, <1>3 DEF CallsMeant, Meant, Turn, Attaches
<1>14. RemovesClosed'
  BY <1>1, <1>2, <1>3, <1>6 DEF RemovesClosed, Turn
<1>15. FreshSpawn'
  BY <1>1, <1>2, <1>3, <1>4, <1>5, <1>6, CallIds
    DEF FreshSpawn, Prepares, Makes, Turn, TypeOK, Shapes
<1>16. BootRows'
  BY <1>1, <1>2, <1>3, <1>4, <1>5, <1>6
    DEF BootRows, Turn, Makes, Attaches, Visible, Live, TypeOK, Shapes
<1>17. TrackedRows'
  BY <1>1, <1>2, <1>3, <1>4, <1>5, <1>6, CallIds
    DEF TrackedRows, Recorded, HasProject, Makes, Turn, TypeOK, Shapes
<1>18. EntryHeld'
  BY <1>1, <1>2, <1>3, <1>4, <1>5, <1>6, CallIds
    DEF EntryHeld, Holds, Pending, Live, Makes, Flies, Attaches, Turn, TypeOK
<1>19. UndoneEnds'
  BY <1>1, <1>2, <1>3, <1>4, <1>5, <1>6, CallIds
    DEF UndoneEnds, Makes, Turn, Live, TypeOK
<1>20. Accounted'
  BY <1>1, <1>2, <1>3, <1>4, <1>5, <1>6
    DEF Accounted, Hidden, Seen, Covers, Pending, Flies, Attaches, Turn, Running, Live,
        Visible, TypeOK
<1>21. MonitorsEntries'
  BY <1>6 DEF MonitorsEntries
<1>22. Reaps'
  BY <1>1, <1>2, <1>3, <1>4, <1>5, <1>6, CallIds DEF Reaps, Makes, Turn, TypeOK, Shapes
<1>23. ReapsEnd'
  BY <1>1, <1>2, <1>3, <1>4, <1>5, <1>6, CallIds
    DEF ReapsEnd, Pending, Live, Flies, Attaches, Turn, MonitorsEntries, TypeOK, Shapes
<1> QED
  BY <1>7, <1>8, <1>9, <1>10, <1>11, <1>12, <1>13, <1>14, <1>15, <1>16, <1>17, <1>18, <1>19, <1>20,
        <1>21, <1>22, <1>23

\* A reattach opens its bridge.
LEMMA AttachOpenKeeps ==
    ASSUME IInv, NEW c \in Calls, AttachOpen(c)
    PROVE  IInv'
<1> USE DEF IInv
<1>1. PICK i \in Ids : i = call[c].id
  BY ShapeOf DEF AttachOpen, Shapes
<1>2. call[c].op = "attach" /\ call[c].pc = "open"
  BY <1>1 DEF AttachOpen
<1>3. ASSUME call[c].resume
      PROVE  /\ Turn(c) /\ call'[c].op = "attach" /\ call'[c].pc = "respawn" /\ call'[c].id = i
  BY <1>1, <1>2, <1>3, AttachGoes DEF AttachOpen, AttachPcs
<1>4. \/ entry' = entry /\ ghost' = ghost /\ (i \in entry \cup closed \/ ~Live(i) \/ Pending(i))
      \/ entry' = entry \cup {i} /\ ghost' = [ghost EXCEPT ![i] = "none"]
  BY <1>1, <1>2 DEF AttachOpen, EntryHeld, Holds, Attaches
<1>5. \/ /\ Turn(c) /\ call'[c].op = "attach" /\ call'[c].pc = "respawn" /\ call'[c].id = i
         /\ monitor' = monitor /\ flight' = flight
      \/ /\ Turn(c) /\ call'[c].op = "idle"
         /\ monitor' = [monitor EXCEPT ![i] = IF i \in entry' THEN "poll" ELSE @]
         /\ flight' = flight \ {i}
  BY <1>1, <1>2, <1>3, DoneSets DEF AttachOpen
<1>6. \A d \in Calls \ {c} : Makes(call[d]) \/ Flies(call[d]) => call[d].id /= i
  BY <1>1, <1>2 DEF OneMaker, OneFlight, Attaches, Flies
<1>7. UNCHANGED <<tmux, doomed, row, hears, recon, boot, bootView, closed, spawned, reaped,
       degraded>>
  BY DEF AttachOpen, regVars, rowVars, tmuxVars, bootVars, histVars
<1>8. TypeOK'
  BY <1>1, <1>2, <1>3, <1>4, <1>5, <1>6, <1>7
    DEF TypeOK
<1>9. Shapes'
  BY <1>1, <1>2, <1>3, <1>5, <1>7 DEF Shapes, Turn
<1>10. DownIsIdle'
  BY <1>1, <1>2, <1>3, <1>4, <1>5, <1>6, <1>7
    DEF DownIsIdle, Turn, Idle, Running
<1>11. OneMaker'
  BY <1>1, <1>2, <1>3, <1>5, <1>6 DEF OneMaker, Turn, Makes, Attaches
<1>12. OneFlight'
  BY <1>1, <1>2, <1>3, <1>5, <1>6 DEF OneFlight, Turn, Flies, Attaches, TypeOK
<1>13. MonitorsEntries'
  BY <1>1, <1>2, <1>4, <1>5 DEF MonitorsEntries, TypeOK
<1>14. Unmonitored'
  BY <1>1, <1>2, <1>3, <1>5, <1>6, CallIds DEF Unmonitored, Turn, Makes, Flies, Attaches, TypeOK, Shapes
<1>15. CallsMeant'
  BY <1>1, <1>2, <1>3, <1>5 DEF CallsMeant, Meant, Turn, Attaches
<1>16. RemovesClosed'
  BY <1>1, <1>2, <1>3, <1>5, <1>7 DEF RemovesClosed, Turn
<1>17. FreshSpawn'
  BY <1>1, <1>2, <1>3, <1>4, <1>5, <1>6, <1>7, CallIds
    DEF FreshSpawn, Prepares, Makes, Turn, TypeOK, Shapes
<1>18. BootRows'
  BY <1>1, <1>2, <1>3, <1>4, <1>5, <1>6, <1>7
    DEF BootRows, Turn, Makes, Attaches, Visible, Live, TypeOK, Shapes
<1>19. TrackedRows'
  BY <1>1, <1>2, <1>3, <1>4, <1>5, <1>6, <1>7, CallIds
    DEF TrackedRows, Recorded, HasProject, Makes, Turn, TypeOK, Shapes
<1>20. EntryHeld'
  BY <1>1, <1>2, <1>3, <1>4, <1>5, <1>6, <1>7, CallIds
    DEF EntryHeld, Holds, Pending, Live, Makes, Flies, Attaches, Turn, TypeOK
<1>21. UndoneEnds'
  BY <1>1, <1>2, <1>3, <1>4, <1>5, <1>6, <1>7, CallIds
    DEF UndoneEnds, Makes, Turn, Live, TypeOK
<1>22. Accounted'
  BY <1>1, <1>2, <1>3, <1>4, <1>5, <1>6, <1>7
    DEF Accounted, Hidden, Seen, Covers, Pending, Flies, Attaches, Turn, Running, Live,
        Visible, TypeOK
<1>23. Reaps'
  BY <1>1, <1>2, <1>3, <1>4, <1>5, <1>6, <1>7, CallIds DEF Reaps, Makes, Turn, TypeOK, Shapes
<1>24. ReapsEnd'
  BY <1>1, <1>2, <1>3, <1>4, <1>5, <1>6, <1>7, CallIds
    DEF ReapsEnd, Pending, Live, Flies, Attaches, Turn, MonitorsEntries, TypeOK, Shapes
<1> QED
  BY <1>8, <1>9, <1>10, <1>11, <1>12, <1>13, <1>14, <1>15, <1>16, <1>17, <1>18, <1>19, <1>20,
        <1>21, <1>22, <1>23, <1>24

\* A plain reattach finds no bridge.
LEMMA AttachOpenFailsKeeps ==
    ASSUME IInv, NEW c \in Calls, AttachOpenFails(c)
    PROVE  IInv'
<1> USE DEF IInv
<1>1. PICK i \in Ids : i = call[c].id
  BY ShapeOf DEF AttachOpenFails, Shapes
<1>2. call[c].op = "attach" /\ call[c].pc = "open"
  BY <1>1 DEF AttachOpenFails
<1>3. Turn(c) /\ call'[c].op = "idle"
  BY DoneSets DEF AttachOpenFails
<1>4. /\ row' \in [Ids -> Rows]
      /\ \/ ~IsRow(row'[i]) /\ ~CanResume(row'[i])
         \/ row'[i] = row[i]
      /\ hears' \in [Ids -> {"no", "yes", "bare", "late", "stray"}]
      /\ hears'[i] \notin {"yes", "bare"} /\ (~IsRow(row'[i]) \/ hears'[i] = "stray")
      /\ \A j \in Ids \ {i} : row'[j] = row[j] /\ hears'[j] = hears[j]
  BY <1>1, CleanupIs DEF AttachOpenFails
<1>5. /\ entry' \in {entry, entry \ {i}}
      /\ ghost' \in [Ids -> {"none", "live", "dead", "recover"}]
      /\ ghost'[i] \in {ghost[i], "none"} /\ \A j \in Ids \ {i} : ghost'[j] = ghost[j]
      /\ monitor' \in [Ids -> {"off", "poll", "reap"}]
      /\ monitor'[i] \in {monitor[i], "off"} /\ \A j \in Ids \ {i} : monitor'[j] = monitor[j]
  BY <1>1, UnregisterIs DEF AttachOpenFails, TypeOK
<1>6. flight' = flight \ {i}
  BY <1>1 DEF AttachOpenFails
<1>7. \A d \in Calls \ {c} : Makes(call[d]) \/ Flies(call[d]) => call[d].id /= i
  BY <1>1, <1>2 DEF OneMaker, OneFlight, Attaches, Flies
<1>8. monitor[i] = "off"
  BY <1>1, <1>2 DEF Unmonitored, Flies, Attaches
<1>9. UNCHANGED <<tmux, doomed, recon, boot, bootView, closed, spawned, reaped, degraded>>
  BY DEF AttachOpenFails, regVars, rowVars, tmuxVars, bootVars, histVars
<1>10. TypeOK'
  BY <1>1, <1>2, <1>3, <1>4, <1>5, <1>6, <1>7, <1>8, <1>9
    DEF TypeOK
<1>11. Shapes'
  BY <1>1, <1>2, <1>3, <1>8, <1>9 DEF Shapes, Turn
<1>12. DownIsIdle'
  BY <1>1, <1>2, <1>3, <1>4, <1>5, <1>6, <1>7, <1>8, <1>9
    DEF DownIsIdle, Turn, Idle, Running
<1>13. OneMaker'
  BY <1>1, <1>2, <1>3, <1>7, <1>8 DEF OneMaker, Turn, Makes, Attaches
<1>14. OneFlight'
  BY <1>1, <1>2, <1>3, <1>6, <1>7, <1>8 DEF OneFlight, Turn, Flies, Attaches, TypeOK
<1>15. MonitorsEntries'
  BY <1>1, <1>2, <1>5, <1>8 DEF MonitorsEntries, TypeOK
<1>16. Unmonitored'
  BY <1>1, <1>2, <1>3, <1>5, <1>7, <1>8, CallIds
    DEF Unmonitored, Turn, Makes, Flies, Attaches, TypeOK, Shapes
<1>17. CallsMeant'
  BY <1>1, <1>2, <1>3, <1>8 DEF CallsMeant, Meant, Turn, Attaches
<1>18. RemovesClosed'
  BY <1>1, <1>2, <1>3, <1>8, <1>9 DEF RemovesClosed, Turn
<1>19. FreshSpawn'
  BY <1>1, <1>2, <1>3, <1>4, <1>5, <1>6, <1>7, <1>8, <1>9, CallIds
    DEF FreshSpawn, Prepares, Makes, Turn, TypeOK, Shapes
<1>20. BootRows'
  BY <1>1, <1>2, <1>3, <1>4, <1>5, <1>6, <1>7, <1>8, <1>9
    DEF BootRows, Turn, Makes, Attaches, Visible, Live, TypeOK, Shapes
<1>21. TrackedRows'
  BY <1>1, <1>2, <1>3, <1>4, <1>5, <1>6, <1>7, <1>8, <1>9, CallIds
    DEF TrackedRows, Recorded, HasProject, Makes, Turn, TypeOK, Shapes
<1>22. EntryHeld'
  BY <1>1, <1>2, <1>3, <1>4, <1>5, <1>6, <1>7, <1>8, <1>9, CallIds
    DEF EntryHeld, Holds, Pending, Live, Makes, Flies, Attaches, Turn, TypeOK
<1>23. UndoneEnds'
  BY <1>1, <1>2, <1>3, <1>4, <1>5, <1>6, <1>7, <1>8, <1>9, CallIds
    DEF UndoneEnds, Makes, Turn, Live, TypeOK
<1>24. Accounted'
  BY <1>1, <1>2, <1>3, <1>4, <1>5, <1>6, <1>7, <1>8, <1>9
    DEF Accounted, Hidden, Seen, Covers, Pending, Flies, Attaches, Turn, Running, Live,
        Visible, TypeOK
<1>25. Reaps'
  BY <1>1, <1>2, <1>3, <1>4, <1>5, <1>6, <1>7, <1>8, <1>9, CallIds DEF Reaps, Makes, Turn, TypeOK, Shapes
<1>26. ReapsEnd'
  BY <1>1, <1>2, <1>3, <1>4, <1>5, <1>6, <1>7, <1>8, <1>9, CallIds
    DEF ReapsEnd, Pending, Live, Flies, Attaches, Turn, MonitorsEntries, TypeOK, Shapes
<1> QED
  BY <1>10, <1>11, <1>12, <1>13, <1>14, <1>15, <1>16, <1>17, <1>18, <1>19, <1>20, <1>21, <1>22,
        <1>23, <1>24, <1>25, <1>26

\* A resume fails.
LEMMA AttachResumeFailsKeeps ==
    ASSUME IInv, NEW c \in Calls, AttachResumeFails(c)
    PROVE  IInv'
<1> USE DEF IInv
<1>1. PICK i \in Ids : i = call[c].id
  BY ShapeOf DEF AttachResumeFails, Shapes
<1>2. call[c].op = "attach" /\ call[c].pc \in {"open", "respawn", "grace"}
  BY <1>1 DEF AttachResumeFails
<1>3. \/ call' = [call EXCEPT ![c].pc = "surface"]
      \/ call' = [call EXCEPT ![c].pc = "surface", ![c].made = FALSE]
  BY <1>1, <1>2 DEF AttachResumeFails
<1>4. /\ Turn(c) /\ call'[c].op = "attach" /\ call'[c].pc = "surface" /\ call'[c].id = i
  BY <1>1, <1>2, <1>3, AttachGoes, AttachMarks DEF AttachPcs
<1>5. /\ entry' = entry \ {i}
      /\ ghost' \in [Ids -> {"none", "live", "dead", "recover"}]
      /\ ghost'[i] = "none" /\ \A j \in Ids \ {i} : ghost'[j] = ghost[j]
      /\ monitor' \in [Ids -> {"off", "poll", "reap"}]
      /\ monitor'[i] = "off" /\ \A j \in Ids \ {i} : monitor'[j] = monitor[j]
  BY <1>1, UnregisterIs DEF AttachResumeFails
<1>6. /\ tmux' \in [Ids -> {"none", "place", "run", "dead"}]
      /\ tmux'[i] \in {tmux[i], "none"}
      /\ \A j \in Ids \ {i} : tmux'[j] = tmux[j]
  BY <1>1 DEF AttachResumeFails, KillIfMade, TypeOK
<1>7. \A d \in Calls \ {c} : Makes(call[d]) \/ Flies(call[d]) => call[d].id /= i
  BY <1>1, <1>2 DEF OneMaker, OneFlight, Attaches, Flies
<1>8. UNCHANGED <<doomed, row, hears, flight, recon, boot, bootView, closed, spawned, reaped,
       degraded>>
  BY DEF AttachResumeFails, regVars, rowVars, tmuxVars, bootVars, histVars
<1>9. TypeOK'
  BY <1>1, <1>2, <1>3, <1>4, <1>5, <1>6, <1>7, <1>8
    DEF TypeOK
<1>10. Shapes'
  BY <1>1, <1>2, <1>4, <1>8 DEF Shapes, Turn
<1>11. DownIsIdle'
  BY <1>1, <1>2, <1>3, <1>4, <1>5, <1>6, <1>7, <1>8
    DEF DownIsIdle, Turn, Idle, Running
<1>12. OneMaker'
  BY <1>1, <1>2, <1>4, <1>7 DEF OneMaker, Turn, Makes, Attaches
<1>13. OneFlight'
  BY <1>1, <1>2, <1>4, <1>7, <1>8 DEF OneFlight, Turn, Flies, Attaches, TypeOK
<1>14. MonitorsEntries'
  BY <1>1, <1>2, <1>5 DEF MonitorsEntries, TypeOK
<1>15. Unmonitored'
  BY <1>1, <1>2, <1>4, <1>5, <1>7, CallIds DEF Unmonitored, Turn, Makes, Flies, Attaches, TypeOK, Shapes
<1>16. CallsMeant'
  BY <1>1, <1>2, <1>4 DEF CallsMeant, Meant, Turn, Attaches
<1>17. RemovesClosed'
  BY <1>1, <1>2, <1>4, <1>8 DEF RemovesClosed, Turn
<1>18. FreshSpawn'
  BY <1>1, <1>2, <1>3, <1>4, <1>5, <1>6, <1>7, <1>8, CallIds
    DEF FreshSpawn, Prepares, Makes, Turn, TypeOK, Shapes
<1>19. BootRows'
  BY <1>1, <1>2, <1>3, <1>4, <1>5, <1>6, <1>7, <1>8
    DEF BootRows, Turn, Makes, Attaches, Visible, Live, TypeOK, Shapes
<1>20. TrackedRows'
  BY <1>1, <1>2, <1>3, <1>4, <1>5, <1>6, <1>7, <1>8, CallIds
    DEF TrackedRows, Recorded, HasProject, Makes, Turn, TypeOK, Shapes
<1>21. EntryHeld'
  BY <1>1, <1>2, <1>3, <1>4, <1>5, <1>6, <1>7, <1>8, CallIds
    DEF EntryHeld, Holds, Pending, Live, Makes, Flies, Attaches, Turn, TypeOK
<1>22. UndoneEnds'
  BY <1>1, <1>2, <1>3, <1>4, <1>5, <1>6, <1>7, <1>8, CallIds
    DEF UndoneEnds, Makes, Turn, Live, TypeOK
<1>23. Accounted'
  BY <1>1, <1>2, <1>3, <1>4, <1>5, <1>6, <1>7, <1>8
    DEF Accounted, Hidden, Seen, Covers, Pending, Flies, Attaches, Turn, Running, Live,
        Visible, TypeOK
<1>24. Reaps'
  BY <1>1, <1>2, <1>3, <1>4, <1>5, <1>6, <1>7, <1>8, CallIds DEF Reaps, Makes, Turn, TypeOK, Shapes
<1>25. ReapsEnd'
  BY <1>1, <1>2, <1>3, <1>4, <1>5, <1>6, <1>7, <1>8, CallIds
    DEF ReapsEnd, Pending, Live, Flies, Attaches, Turn, MonitorsEntries, TypeOK, Shapes
<1> QED
  BY <1>9, <1>10, <1>11, <1>12, <1>13, <1>14, <1>15, <1>16, <1>17, <1>18, <1>19, <1>20, <1>21,
        <1>22, <1>23, <1>24, <1>25

\* A failed resume leaves a ghost to recover from.
LEMMA AttachResurfaceKeeps ==
    ASSUME IInv, NEW c \in Calls, AttachResurface(c)
    PROVE  IInv'
<1> USE DEF IInv
<1>1. PICK i \in Ids : i = call[c].id
  BY ShapeOf DEF AttachResurface, Shapes
<1>2. call[c].op = "attach" /\ call[c].pc = "surface"
  BY <1>1 DEF AttachResurface
<1>3. ASSUME call[c].made
      PROVE  /\ Turn(c) /\ call'[c].op = "attach" /\ call'[c].pc = "drop" /\ call'[c].id = i
           /\ call'[c].made
  BY <1>1, <1>2, <1>3, AttachGoes DEF AttachResurface, AttachPcs
<1>4. \/ /\ Turn(c) /\ call'[c].op = "idle"
      \/ /\ Turn(c) /\ call'[c].op = "attach" /\ call'[c].pc = "drop" /\ call'[c].id = i
         /\ call'[c].made
  BY <1>1, <1>2, <1>3, DoneSets DEF AttachResurface
<1>5. /\ flight' = flight \ {i}
      /\ ghost' = [ghost EXCEPT ![i] = IF i \in entry THEN @ ELSE "recover"]
  BY <1>1 DEF AttachResurface, UpsertGhost
<1>6. \A d \in Calls \ {c} : Makes(call[d]) \/ Flies(call[d]) => call[d].id /= i
  BY <1>1, <1>2 DEF OneMaker, OneFlight, Attaches, Flies
<1>7. UNCHANGED <<tmux, doomed, row, hears, entry, monitor, recon, boot, bootView, closed,
       spawned, reaped, degraded>>
  BY DEF AttachResurface, regVars, rowVars, tmuxVars, bootVars, histVars
<1>8. TypeOK'
  BY <1>1, <1>2, <1>3, <1>4, <1>5, <1>6, <1>7
    DEF TypeOK
<1>9. Shapes'
  BY <1>1, <1>2, <1>3, <1>4, <1>7 DEF Shapes, Turn
<1>10. DownIsIdle'
  BY <1>1, <1>2, <1>3, <1>4, <1>5, <1>6, <1>7
    DEF DownIsIdle, Turn, Idle, Running
<1>11. OneMaker'
  BY <1>1, <1>2, <1>3, <1>4, <1>6 DEF OneMaker, Turn, Makes, Attaches
<1>12. OneFlight'
  BY <1>1, <1>2, <1>3, <1>4, <1>5, <1>6 DEF OneFlight, Turn, Flies, Attaches, TypeOK
<1>13. Unmonitored'
  BY <1>1, <1>2, <1>3, <1>4, <1>6, <1>7, CallIds
    DEF Unmonitored, Turn, Makes, Flies, Attaches, TypeOK, Shapes
<1>14. CallsMeant'
  BY <1>1, <1>2, <1>3, <1>4 DEF CallsMeant, Meant, Turn, Attaches
<1>15. RemovesClosed'
  BY <1>1, <1>2, <1>3, <1>4, <1>7 DEF RemovesClosed, Turn
<1>16. FreshSpawn'
  BY <1>1, <1>2, <1>3, <1>4, <1>5, <1>6, <1>7, CallIds
    DEF FreshSpawn, Prepares, Makes, Turn, TypeOK, Shapes
<1>17. BootRows'
  BY <1>1, <1>2, <1>3, <1>4, <1>5, <1>6, <1>7
    DEF BootRows, Turn, Makes, Attaches, Visible, Live, TypeOK, Shapes
<1>18. TrackedRows'
  BY <1>1, <1>2, <1>3, <1>4, <1>5, <1>6, <1>7, CallIds
    DEF TrackedRows, Recorded, HasProject, Makes, Turn, TypeOK, Shapes
<1>19. EntryHeld'
  BY <1>1, <1>2, <1>3, <1>4, <1>5, <1>6, <1>7, CallIds
    DEF EntryHeld, Holds, Pending, Live, Makes, Flies, Attaches, Turn, TypeOK
<1>20. UndoneEnds'
  BY <1>1, <1>2, <1>3, <1>4, <1>5, <1>6, <1>7, CallIds
    DEF UndoneEnds, Makes, Turn, Live, TypeOK
<1>21. Accounted'
  BY <1>1, <1>2, <1>3, <1>4, <1>5, <1>6, <1>7
    DEF Accounted, Hidden, Seen, Covers, Pending, Flies, Attaches, Turn, Running, Live,
        Visible, TypeOK
<1>22. MonitorsEntries'
  BY <1>7 DEF MonitorsEntries
<1>23. Reaps'
  BY <1>1, <1>2, <1>3, <1>4, <1>5, <1>6, <1>7, CallIds DEF Reaps, Makes, Turn, TypeOK, Shapes
<1>24. ReapsEnd'
  BY <1>1, <1>2, <1>3, <1>4, <1>5, <1>6, <1>7, CallIds
    DEF ReapsEnd, Pending, Live, Flies, Attaches, Turn, MonitorsEntries, TypeOK, Shapes
<1> QED
  BY <1>8, <1>9, <1>10, <1>11, <1>12, <1>13, <1>14, <1>15, <1>16, <1>17, <1>18, <1>19, <1>20,
        <1>21, <1>22, <1>23, <1>24

\* The placeholder of a failed resume is killed.
LEMMA AttachDropKeeps ==
    ASSUME IInv, NEW c \in Calls, AttachDrop(c)
    PROVE  IInv'
<1> USE DEF IInv
<1>1. PICK i \in Ids : i = call[c].id
  BY ShapeOf DEF AttachDrop, Shapes
<1>2. call[c].op = "attach" /\ call[c].pc = "drop"
  BY <1>1 DEF AttachDrop
<1>3. Turn(c) /\ call'[c].op = "idle"
  BY DoneSets DEF AttachDrop
<1>4. /\ tmux' \in [Ids -> {"none", "place", "run", "dead"}]
      /\ tmux'[i] = IF call[c].made THEN "none" ELSE tmux[i]
      /\ \A j \in Ids \ {i} : tmux'[j] = tmux[j]
  BY <1>1 DEF AttachDrop, KillIfMade, TypeOK
<1>5. call[c].made
  BY <1>1, <1>2 DEF CallsMeant, Meant, Attaches
<1>6. \A d \in Calls \ {c} : Makes(call[d]) => call[d].id /= i
  BY <1>1, <1>2 DEF OneMaker, Attaches
<1>7. UNCHANGED <<doomed, row, hears, entry, ghost, monitor, flight, recon, boot, bootView,
       closed, spawned, reaped, degraded>>
  BY DEF AttachDrop, regVars, rowVars, tmuxVars, bootVars, histVars
<1>8. TypeOK'
  BY <1>1, <1>2, <1>3, <1>4, <1>5, <1>6, <1>7
    DEF TypeOK
<1>9. Shapes'
  BY <1>1, <1>2, <1>3, <1>5, <1>7 DEF Shapes, Turn
<1>10. DownIsIdle'
  BY <1>1, <1>2, <1>3, <1>4, <1>5, <1>6, <1>7
    DEF DownIsIdle, Turn, Idle, Running
<1>11. OneMaker'
  BY <1>1, <1>2, <1>3, <1>5, <1>6 DEF OneMaker, Turn, Makes, Attaches
<1>12. OneFlight'
  BY <1>1, <1>2, <1>3, <1>5, <1>6, <1>7 DEF OneFlight, Turn, Flies, Attaches, TypeOK
<1>13. Unmonitored'
  BY <1>1, <1>2, <1>3, <1>5, <1>6, <1>7, CallIds
    DEF Unmonitored, Turn, Makes, Flies, Attaches, TypeOK, Shapes
<1>14. CallsMeant'
  BY <1>1, <1>2, <1>3, <1>5 DEF CallsMeant, Meant, Turn, Attaches
<1>15. RemovesClosed'
  BY <1>1, <1>2, <1>3, <1>5, <1>7 DEF RemovesClosed, Turn
<1>16. FreshSpawn'
  BY <1>1, <1>2, <1>3, <1>4, <1>5, <1>6, <1>7, CallIds
    DEF FreshSpawn, Prepares, Makes, Turn, TypeOK, Shapes
<1>17. BootRows'
  BY <1>1, <1>2, <1>3, <1>4, <1>5, <1>6, <1>7
    DEF BootRows, Turn, Makes, Attaches, Visible, Live, TypeOK, Shapes
<1>18. TrackedRows'
  BY <1>1, <1>2, <1>3, <1>4, <1>5, <1>6, <1>7, CallIds
    DEF TrackedRows, Recorded, HasProject, Makes, Turn, TypeOK, Shapes
<1>19. EntryHeld'
  BY <1>1, <1>2, <1>3, <1>4, <1>5, <1>6, <1>7, CallIds
    DEF EntryHeld, Holds, Pending, Live, Makes, Flies, Attaches, Turn, TypeOK
<1>20. UndoneEnds'
  BY <1>1, <1>2, <1>3, <1>4, <1>5, <1>6, <1>7, CallIds
    DEF UndoneEnds, Makes, Turn, Live, TypeOK
<1>21. Accounted'
  BY <1>1, <1>2, <1>3, <1>4, <1>5, <1>6, <1>7
    DEF Accounted, Hidden, Seen, Covers, Pending, Flies, Attaches, Turn, Running, Live,
        Visible, TypeOK
<1>22. MonitorsEntries'
  BY <1>7 DEF MonitorsEntries
<1>23. Reaps'
  BY <1>1, <1>2, <1>3, <1>4, <1>5, <1>6, <1>7, CallIds DEF Reaps, Makes, Turn, TypeOK, Shapes
<1>24. ReapsEnd'
  BY <1>1, <1>2, <1>3, <1>4, <1>5, <1>6, <1>7, CallIds
    DEF ReapsEnd, Pending, Live, Flies, Attaches, Turn, MonitorsEntries, TypeOK, Shapes
<1> QED
  BY <1>8, <1>9, <1>10, <1>11, <1>12, <1>13, <1>14, <1>15, <1>16, <1>17, <1>18, <1>19, <1>20,
        <1>21, <1>22, <1>23, <1>24

\* A resume puts its command in the pane.
LEMMA AttachRespawnKeeps ==
    ASSUME IInv, NEW c \in Calls, AttachRespawn(c)
    PROVE  IInv'
<1> USE DEF IInv
<1>1. PICK i \in Ids : i = call[c].id
  BY ShapeOf DEF AttachRespawn, Shapes
<1>2. call[c].op = "attach" /\ call[c].pc = "respawn" /\ Live(i)
  BY <1>1 DEF AttachRespawn
<1>3. /\ Turn(c) /\ call'[c].op = "attach" /\ call'[c].pc = "grace" /\ call'[c].id = i
      /\ call'[c].resume = call[c].resume /\ call'[c].had = call[c].had /\ call'[c].made = call[c].made
  BY <1>1, <1>2, AttachGoes DEF AttachRespawn, AttachPcs
<1>4. tmux' = [tmux EXCEPT ![i] = "run"]
  BY <1>1 DEF AttachRespawn, RespawnPane
<1>5. \A d \in Calls \ {c} : Makes(call[d]) \/ Flies(call[d]) => call[d].id /= i
  BY <1>1, <1>2 DEF OneMaker, OneFlight, Attaches, Flies
<1>6. UNCHANGED <<doomed, row, hears, entry, ghost, monitor, flight, recon, boot, bootView,
       closed, spawned, reaped, degraded>>
  BY DEF AttachRespawn, regVars, rowVars, tmuxVars, bootVars, histVars
<1>7. TypeOK'
  BY <1>1, <1>2, <1>3, <1>4, <1>5, <1>6
    DEF TypeOK
<1>8. Shapes'
  BY <1>1, <1>2, <1>3, <1>6 DEF Shapes, Turn
<1>9. DownIsIdle'
  BY <1>1, <1>2, <1>3, <1>4, <1>5, <1>6
    DEF DownIsIdle, Turn, Idle, Running
<1>10. OneMaker'
  BY <1>1, <1>2, <1>3, <1>5 DEF OneMaker, Turn, Makes, Attaches
<1>11. OneFlight'
  BY <1>1, <1>2, <1>3, <1>5, <1>6 DEF OneFlight, Turn, Flies, Attaches, TypeOK
<1>12. Unmonitored'
  BY <1>1, <1>2, <1>3, <1>5, <1>6, CallIds DEF Unmonitored, Turn, Makes, Flies, Attaches, TypeOK, Shapes
<1>13. CallsMeant'
  BY <1>1, <1>2, <1>3 DEF CallsMeant, Meant, Turn, Attaches
<1>14. RemovesClosed'
  BY <1>1, <1>2, <1>3, <1>6 DEF RemovesClosed, Turn
<1>15. FreshSpawn'
  BY <1>1, <1>2, <1>3, <1>4, <1>5, <1>6, CallIds
    DEF FreshSpawn, Prepares, Makes, Turn, TypeOK, Shapes
<1>16. BootRows'
  BY <1>1, <1>2, <1>3, <1>4, <1>5, <1>6
    DEF BootRows, Turn, Makes, Attaches, Visible, Live, TypeOK, Shapes
<1>17. TrackedRows'
  BY <1>1, <1>2, <1>3, <1>4, <1>5, <1>6, CallIds
    DEF TrackedRows, Recorded, HasProject, Makes, Turn, TypeOK, Shapes
<1>18. EntryHeld'
  BY <1>1, <1>2, <1>3, <1>4, <1>5, <1>6, CallIds
    DEF EntryHeld, Holds, Pending, Live, Makes, Flies, Attaches, Turn, TypeOK
<1>19. UndoneEnds'
  BY <1>1, <1>2, <1>3, <1>4, <1>5, <1>6, CallIds
    DEF UndoneEnds, Makes, Turn, Live, TypeOK
<1>20. Accounted'
  BY <1>1, <1>2, <1>3, <1>4, <1>5, <1>6
    DEF Accounted, Hidden, Seen, Covers, Pending, Flies, Attaches, Turn, Running, Live,
        Visible, TypeOK
<1>21. MonitorsEntries'
  BY <1>6 DEF MonitorsEntries
<1>22. Reaps'
  BY <1>1, <1>2, <1>3, <1>4, <1>5, <1>6, CallIds DEF Reaps, Makes, Turn, TypeOK, Shapes
<1>23. ReapsEnd'
  BY <1>1, <1>2, <1>3, <1>4, <1>5, <1>6, CallIds
    DEF ReapsEnd, Pending, Live, Flies, Attaches, Turn, MonitorsEntries, TypeOK, Shapes
<1> QED
  BY <1>7, <1>8, <1>9, <1>10, <1>11, <1>12, <1>13, <1>14, <1>15, <1>16, <1>17, <1>18, <1>19, <1>20,
        <1>21, <1>22, <1>23

\* A resume has outlived its grace period.
LEMMA AttachCommitKeeps ==
    ASSUME IInv, NEW c \in Calls, AttachCommit(c)
    PROVE  IInv'
<1> USE DEF IInv
<1>1. PICK i \in Ids : i = call[c].id
  BY ShapeOf DEF AttachCommit, Shapes
<1>2. call[c].op = "attach" /\ call[c].pc = "grace"
  BY <1>1 DEF AttachCommit
<1>3. Turn(c) /\ call'[c].op = "idle"
  BY DoneSets DEF AttachCommit
<1>4. /\ monitor' = [monitor EXCEPT ![i] = IF i \in entry THEN "poll" ELSE @]
      /\ flight' = flight \ {i}
  BY <1>1 DEF AttachCommit
<1>5. i \in entry \cup closed \/ ~Live(i) \/ Pending(i)
  BY <1>1, <1>2 DEF EntryHeld, Holds, Attaches
<1>6. \A d \in Calls \ {c} : Makes(call[d]) \/ Flies(call[d]) => call[d].id /= i
  BY <1>1, <1>2 DEF OneMaker, OneFlight, Attaches, Flies
<1>7. UNCHANGED <<tmux, doomed, row, hears, entry, ghost, recon, boot, bootView, closed,
       spawned, reaped, degraded>>
  BY DEF AttachCommit, regVars, rowVars, tmuxVars, bootVars, histVars
<1>8. TypeOK'
  BY <1>1, <1>2, <1>3, <1>4, <1>5, <1>6, <1>7
    DEF TypeOK
<1>9. Shapes'
  BY <1>1, <1>2, <1>3, <1>5, <1>7 DEF Shapes, Turn
<1>10. DownIsIdle'
  BY <1>1, <1>2, <1>3, <1>4, <1>5, <1>6, <1>7
    DEF DownIsIdle, Turn, Idle, Running
<1>11. OneMaker'
  BY <1>1, <1>2, <1>3, <1>5, <1>6 DEF OneMaker, Turn, Makes, Attaches
<1>12. OneFlight'
  BY <1>1, <1>2, <1>3, <1>4, <1>5, <1>6 DEF OneFlight, Turn, Flies, Attaches, TypeOK
<1>13. MonitorsEntries'
  BY <1>1, <1>2, <1>4, <1>5, <1>7 DEF MonitorsEntries, TypeOK
<1>14. Unmonitored'
  BY <1>1, <1>2, <1>3, <1>4, <1>5, <1>6, CallIds
    DEF Unmonitored, Turn, Makes, Flies, Attaches, TypeOK, Shapes
<1>15. CallsMeant'
  BY <1>1, <1>2, <1>3, <1>5 DEF CallsMeant, Meant, Turn, Attaches
<1>16. RemovesClosed'
  BY <1>1, <1>2, <1>3, <1>5, <1>7 DEF RemovesClosed, Turn
<1>17. FreshSpawn'
  BY <1>1, <1>2, <1>3, <1>4, <1>5, <1>6, <1>7, CallIds
    DEF FreshSpawn, Prepares, Makes, Turn, TypeOK, Shapes
<1>18. BootRows'
  BY <1>1, <1>2, <1>3, <1>4, <1>5, <1>6, <1>7
    DEF BootRows, Turn, Makes, Attaches, Visible, Live, TypeOK, Shapes
<1>19. TrackedRows'
  BY <1>1, <1>2, <1>3, <1>4, <1>5, <1>6, <1>7, CallIds
    DEF TrackedRows, Recorded, HasProject, Makes, Turn, TypeOK, Shapes
<1>20. EntryHeld'
  BY <1>1, <1>2, <1>3, <1>4, <1>5, <1>6, <1>7, CallIds
    DEF EntryHeld, Holds, Pending, Live, Makes, Flies, Attaches, Turn, TypeOK
<1>21. UndoneEnds'
  BY <1>1, <1>2, <1>3, <1>4, <1>5, <1>6, <1>7, CallIds
    DEF UndoneEnds, Makes, Turn, Live, TypeOK
<1>22. Accounted'
  BY <1>1, <1>2, <1>3, <1>4, <1>5, <1>6, <1>7
    DEF Accounted, Hidden, Seen, Covers, Pending, Flies, Attaches, Turn, Running, Live,
        Visible, TypeOK
<1>23. Reaps'
  BY <1>1, <1>2, <1>3, <1>4, <1>5, <1>6, <1>7, CallIds DEF Reaps, Makes, Turn, TypeOK, Shapes
<1>24. ReapsEnd'
  BY <1>1, <1>2, <1>3, <1>4, <1>5, <1>6, <1>7, CallIds
    DEF ReapsEnd, Pending, Live, Flies, Attaches, Turn, MonitorsEntries, TypeOK, Shapes
<1> QED
  BY <1>8, <1>9, <1>10, <1>11, <1>12, <1>13, <1>14, <1>15, <1>16, <1>17, <1>18, <1>19, <1>20,
        <1>21, <1>22, <1>23, <1>24

\* A session is closed: raum's records go at once.
LEMMA KillInteractiveKeeps ==
    ASSUME IInv, NEW i \in Ids, KillInteractive(i)
    PROVE  IInv'
<1> USE DEF IInv
<1>1. Running /\ doomed' = doomed \cup {i} /\ closed' = closed \cup {i}
  BY DEF KillInteractive, Asks
<1>2. /\ entry' = entry \ {i}
      /\ ghost' \in [Ids -> {"none", "live", "dead", "recover"}]
      /\ ghost'[i] = "none" /\ \A j \in Ids \ {i} : ghost'[j] = ghost[j]
      /\ monitor' \in [Ids -> {"off", "poll", "reap"}]
      /\ monitor'[i] = "off" /\ \A j \in Ids \ {i} : monitor'[j] = monitor[j]
  BY UnregisterIs DEF KillInteractive
<1>3. /\ row' \in [Ids -> Rows]
      /\ \/ ~IsRow(row'[i]) /\ ~CanResume(row'[i])
         \/ row'[i] = row[i]
      /\ hears' \in [Ids -> {"no", "yes", "bare", "late", "stray"}]
      /\ hears'[i] \notin {"yes", "bare"}
      /\ \A j \in Ids \ {i} : row'[j] = row[j] /\ hears'[j] = hears[j]
  BY CleanupIs DEF KillInteractive
<1>4. UNCHANGED <<tmux, flight, call, recon, boot, bootView, spawned, reaped, degraded>>
  BY DEF KillInteractive, regVars, rowVars, tmuxVars, bootVars, histVars
<1>5. TypeOK'
  BY <1>1, <1>2, <1>3, <1>4
    DEF TypeOK
<1>6. DownIsIdle'
  BY <1>1, <1>2, <1>3, <1>4
    DEF DownIsIdle, Turn, Idle, Running
<1>7. MonitorsEntries'
  BY <1>2 DEF MonitorsEntries, TypeOK
<1>8. Unmonitored'
  BY <1>2, <1>4, CallIds DEF Unmonitored, Turn, Makes, Flies, Attaches, TypeOK, Shapes
<1>9. RemovesClosed'
  BY <1>1, <1>4 DEF RemovesClosed, Turn
<1>10. FreshSpawn'
  BY <1>1, <1>2, <1>3, <1>4, CallIds
    DEF FreshSpawn, Prepares, Makes, Turn, TypeOK, Shapes
<1>11. BootRows'
  BY <1>1, <1>2, <1>3, <1>4
    DEF BootRows, Turn, Makes, Attaches, Visible, Live, TypeOK, Shapes
<1>12. TrackedRows'
  BY <1>1, <1>2, <1>3, <1>4, CallIds
    DEF TrackedRows, Recorded, HasProject, Makes, Turn, TypeOK, Shapes
<1>13. EntryHeld'
  BY <1>1, <1>2, <1>3, <1>4, CallIds
    DEF EntryHeld, Holds, Pending, Live, Makes, Flies, Attaches, Turn, TypeOK
<1>14. UndoneEnds'
  BY <1>1, <1>2, <1>3, <1>4, CallIds
    DEF UndoneEnds, Makes, Turn, Live, TypeOK
<1>15. Accounted'
  BY <1>1, <1>2, <1>3, <1>4
    DEF Accounted, Hidden, Seen, Covers, Pending, Flies, Attaches, Turn, Running, Live,
        Visible, TypeOK
<1>16. Shapes' /\ OneMaker' /\ OneFlight' /\ CallsMeant'
  BY <1>4 DEF Shapes, OneMaker, OneFlight, CallsMeant
<1>17. Reaps'
  BY <1>1, <1>2, <1>3, <1>4, CallIds DEF Reaps, Makes, Turn, TypeOK, Shapes
<1>18. ReapsEnd'
  BY <1>1, <1>2, <1>3, <1>4, CallIds
    DEF ReapsEnd, Pending, Live, Flies, Attaches, Turn, MonitorsEntries, TypeOK, Shapes
<1> QED
  BY <1>5, <1>6, <1>7, <1>8, <1>9, <1>10, <1>11, <1>12, <1>13, <1>14, <1>15, <1>16, <1>17, <1>18

\* A kill in the background lands.
LEMMA TmuxKillKeeps ==
    ASSUME IInv, NEW i \in Ids, TmuxKill(i)
    PROVE  IInv'
<1> USE DEF IInv
<1>1. i \in doomed /\ doomed' = doomed \ {i} /\ tmux' = [tmux EXCEPT ![i] = "none"]
  BY DEF TmuxKill
<1>2. UNCHANGED <<row, hears, entry, ghost, monitor, flight, call, recon, boot, bootView,
       closed, spawned, reaped, degraded>>
  BY DEF TmuxKill, regVars, rowVars, tmuxVars, bootVars, histVars
<1>3. TypeOK'
  BY <1>1, <1>2
    DEF TypeOK
<1>4. DownIsIdle'
  BY <1>1, <1>2
    DEF DownIsIdle, Turn, Idle, Running
<1>5. FreshSpawn'
  BY <1>1, <1>2, CallIds
    DEF FreshSpawn, Prepares, Makes, Turn, TypeOK, Shapes
<1>6. UndoneEnds'
  BY <1>1, <1>2, CallIds
    DEF UndoneEnds, Makes, Turn, Live, TypeOK
<1>7. Accounted'
  BY <1>1, <1>2
    DEF Accounted, Hidden, Seen, Covers, Pending, Flies, Attaches, Turn, Running, Live,
        Visible, TypeOK
<1>8. Shapes' /\ OneMaker' /\ OneFlight' /\ MonitorsEntries' /\ Unmonitored' /\ CallsMeant'
      /\ RemovesClosed' /\ TrackedRows'
  BY <1>2
    DEF Shapes, OneMaker, OneFlight, MonitorsEntries, Unmonitored, CallsMeant, RemovesClosed,
        TrackedRows, HasProject
<1>9. Reaps'
  BY <1>1, <1>2, CallIds DEF Reaps, Makes, Turn, TypeOK, Shapes
<1>10. ReapsEnd'
  BY <1>1, <1>2, CallIds
    DEF ReapsEnd, Pending, Live, Flies, Attaches, Turn, MonitorsEntries, TypeOK, Shapes
<1>11. EntryHeld'
  BY <1>1, <1>2, CallIds
    DEF EntryHeld, Holds, Pending, Live, Makes, Flies, Attaches, TypeOK
<1>12. BootRows'
  BY <1>1, <1>2
    DEF BootRows, Makes, Attaches, Visible, Live, TypeOK, Shapes
<1> QED
  BY <1>3, <1>4, <1>5, <1>6, <1>7, <1>8, <1>9, <1>10, <1>11, <1>12

\* A removal kills the tmux session first.
LEMMA RemoveKillKeeps ==
    ASSUME IInv, NEW c \in Calls, NEW i \in Ids, RemoveKill(c, i)
    PROVE  IInv'
<1> USE DEF IInv
<1>1. /\ Running /\ call[c].op = "idle"
      /\ tmux' = [tmux EXCEPT ![i] = "none"] /\ closed' = closed \cup {i}
  BY DEF RemoveKill, Asks, Idle
<1>2. /\ Task("remove", i, "killed") \in CallRecords
      /\ \A k : k = Task("remove", i, "killed") => k.op = "remove" /\ k.id = i
  BY DEF Task, CallRecords, RemoveCalls
<1>3. Turn(c) /\ call'[c].op = "remove" /\ call'[c].id = i
  BY <1>2, SetsCall DEF RemoveKill
<1>4. UNCHANGED <<doomed, row, hears, entry, ghost, monitor, flight, recon, boot, bootView,
       spawned, reaped, degraded>>
  BY DEF RemoveKill, regVars, rowVars, tmuxVars, bootVars, histVars
<1>5. TypeOK'
  BY <1>1, <1>2, <1>3, <1>4
    DEF TypeOK
<1>6. Shapes'
  BY <1>3, <1>4 DEF Shapes, Turn
<1>7. DownIsIdle'
  BY <1>1, <1>2, <1>3, <1>4
    DEF DownIsIdle, Turn, Idle, Running
<1>8. OneMaker'
  BY <1>3 DEF OneMaker, Turn, Makes, Attaches
<1>9. OneFlight'
  BY <1>3, <1>4 DEF OneFlight, Turn, Flies, Attaches, TypeOK
<1>10. Unmonitored'
  BY <1>3, <1>4, CallIds DEF Unmonitored, Turn, Makes, Flies, Attaches, TypeOK, Shapes
<1>11. CallsMeant'
  BY <1>3 DEF CallsMeant, Meant, Turn, Attaches
<1>12. RemovesClosed'
  BY <1>1, <1>3 DEF RemovesClosed, Turn
<1>13. FreshSpawn'
  BY <1>1, <1>2, <1>3, <1>4, CallIds
    DEF FreshSpawn, Prepares, Makes, Turn, TypeOK, Shapes
<1>14. BootRows'
  BY <1>1, <1>2, <1>3, <1>4
    DEF BootRows, Turn, Makes, Attaches, Visible, Live, TypeOK, Shapes
<1>15. TrackedRows'
  BY <1>1, <1>2, <1>3, <1>4, CallIds
    DEF TrackedRows, Recorded, HasProject, Makes, Turn, TypeOK, Shapes
<1>16. EntryHeld'
  BY <1>1, <1>2, <1>3, <1>4, CallIds
    DEF EntryHeld, Holds, Pending, Live, Makes, Flies, Attaches, Turn, TypeOK
<1>17. UndoneEnds'
  BY <1>1, <1>2, <1>3, <1>4, CallIds
    DEF UndoneEnds, Makes, Turn, Live, TypeOK
<1>18. Accounted'
  BY <1>1, <1>2, <1>3, <1>4
    DEF Accounted, Hidden, Seen, Covers, Pending, Flies, Attaches, Turn, Running, Live,
        Visible, TypeOK
<1>19. MonitorsEntries'
  BY <1>4 DEF MonitorsEntries
<1>20. Reaps'
  BY <1>1, <1>2, <1>3, <1>4, CallIds DEF Reaps, Makes, Turn, TypeOK, Shapes
<1>21. ReapsEnd'
  BY <1>1, <1>2, <1>3, <1>4, CallIds
    DEF ReapsEnd, Pending, Live, Flies, Attaches, Turn, MonitorsEntries, TypeOK, Shapes
<1> QED
  BY <1>5, <1>6, <1>7, <1>8, <1>9, <1>10, <1>11, <1>12, <1>13, <1>14, <1>15, <1>16, <1>17, <1>18, <1>19, <1>20, <1>21

\* A removal drops raum's records.
LEMMA RemoveFinishKeeps ==
    ASSUME IInv, NEW c \in Calls, RemoveFinish(c)
    PROVE  IInv'
<1> USE DEF IInv
<1>1. PICK i \in Ids : i = call[c].id
  BY ShapeOf DEF RemoveFinish, Shapes
<1>2. call[c].op = "remove"
  BY <1>1 DEF RemoveFinish
<1>3. Turn(c) /\ call'[c].op = "idle"
  BY DoneSets DEF RemoveFinish
<1>4. /\ entry' = entry \ {i}
      /\ ghost' \in [Ids -> {"none", "live", "dead", "recover"}]
      /\ ghost'[i] = "none" /\ \A j \in Ids \ {i} : ghost'[j] = ghost[j]
      /\ monitor' \in [Ids -> {"off", "poll", "reap"}]
      /\ monitor'[i] = "off" /\ \A j \in Ids \ {i} : monitor'[j] = monitor[j]
  BY <1>1, UnregisterIs DEF RemoveFinish
<1>5. /\ row' \in [Ids -> Rows]
      /\ \/ ~IsRow(row'[i]) /\ ~CanResume(row'[i])
         \/ row'[i] = row[i]
      /\ hears' \in [Ids -> {"no", "yes", "bare", "late", "stray"}]
      /\ hears'[i] \notin {"yes", "bare"}
      /\ \A j \in Ids \ {i} : row'[j] = row[j] /\ hears'[j] = hears[j]
  BY <1>1, CleanupIs DEF RemoveFinish
<1>6. i \in closed
  BY <1>1, <1>2 DEF RemovesClosed
<1>7. UNCHANGED <<tmux, doomed, flight, recon, boot, bootView, closed, spawned, reaped,
       degraded>>
  BY DEF RemoveFinish, regVars, rowVars, tmuxVars, bootVars, histVars
<1>8. TypeOK'
  BY <1>1, <1>2, <1>3, <1>4, <1>5, <1>6, <1>7
    DEF TypeOK
<1>9. Shapes'
  BY <1>1, <1>2, <1>3, <1>6, <1>7 DEF Shapes, Turn
<1>10. DownIsIdle'
  BY <1>1, <1>2, <1>3, <1>4, <1>5, <1>6, <1>7
    DEF DownIsIdle, Turn, Idle, Running
<1>11. OneMaker'
  BY <1>1, <1>2, <1>3, <1>6 DEF OneMaker, Turn, Makes, Attaches
<1>12. OneFlight'
  BY <1>1, <1>2, <1>3, <1>6, <1>7 DEF OneFlight, Turn, Flies, Attaches, TypeOK
<1>13. MonitorsEntries'
  BY <1>1, <1>2, <1>4, <1>6 DEF MonitorsEntries, TypeOK
<1>14. Unmonitored'
  BY <1>1, <1>2, <1>3, <1>4, <1>6, CallIds DEF Unmonitored, Turn, Makes, Flies, Attaches, TypeOK, Shapes
<1>15. CallsMeant'
  BY <1>1, <1>2, <1>3, <1>6 DEF CallsMeant, Meant, Turn, Attaches
<1>16. RemovesClosed'
  BY <1>1, <1>2, <1>3, <1>6, <1>7 DEF RemovesClosed, Turn
<1>17. FreshSpawn'
  BY <1>1, <1>2, <1>3, <1>4, <1>5, <1>6, <1>7, CallIds
    DEF FreshSpawn, Prepares, Makes, Turn, TypeOK, Shapes
<1>18. BootRows'
  BY <1>1, <1>2, <1>3, <1>4, <1>5, <1>6, <1>7
    DEF BootRows, Turn, Makes, Attaches, Visible, Live, TypeOK, Shapes
<1>19. TrackedRows'
  BY <1>1, <1>2, <1>3, <1>4, <1>5, <1>6, <1>7, CallIds
    DEF TrackedRows, Recorded, HasProject, Makes, Turn, TypeOK, Shapes
<1>20. EntryHeld'
  BY <1>1, <1>2, <1>3, <1>4, <1>5, <1>6, <1>7, CallIds
    DEF EntryHeld, Holds, Pending, Live, Makes, Flies, Attaches, Turn, TypeOK
<1>21. UndoneEnds'
  BY <1>1, <1>2, <1>3, <1>4, <1>5, <1>6, <1>7, CallIds
    DEF UndoneEnds, Makes, Turn, Live, TypeOK
<1>22. Accounted'
  BY <1>1, <1>2, <1>3, <1>4, <1>5, <1>6, <1>7
    DEF Accounted, Hidden, Seen, Covers, Pending, Flies, Attaches, Turn, Running, Live,
        Visible, TypeOK
<1>23. Reaps'
  BY <1>1, <1>2, <1>3, <1>4, <1>5, <1>6, <1>7, CallIds DEF Reaps, Makes, Turn, TypeOK, Shapes
<1>24. ReapsEnd'
  BY <1>1, <1>2, <1>3, <1>4, <1>5, <1>6, <1>7, CallIds
    DEF ReapsEnd, Pending, Live, Flies, Attaches, Turn, MonitorsEntries, TypeOK, Shapes
<1> QED
  BY <1>8, <1>9, <1>10, <1>11, <1>12, <1>13, <1>14, <1>15, <1>16, <1>17, <1>18, <1>19, <1>20,
        <1>21, <1>22, <1>23, <1>24

\* A monitor sees its pane dead or gone.
LEMMA MonitorSeesKeeps ==
    ASSUME IInv, NEW i \in Ids, MonitorSees(i)
    PROVE  IInv'
<1> USE DEF IInv
<1>1. monitor[i] /= "off" /\ i \in entry
  BY DEF MonitorSees, MonitorsEntries
<1>2. \/ monitor' = [monitor EXCEPT ![i] = "reap"] /\ doomed' = doomed \cup {i}
      \/ monitor' = [monitor EXCEPT ![i] = "off"] /\ doomed' = doomed
  BY DEF MonitorSees
<1>3. UNCHANGED <<tmux, row, hears, entry, ghost, flight, call, recon, boot, bootView, closed,
       spawned, reaped, degraded>>
  BY DEF MonitorSees, regVars, rowVars, tmuxVars, bootVars, histVars
<1>4. TypeOK'
  BY <1>1, <1>2, <1>3
    DEF TypeOK
<1>5. DownIsIdle'
  BY <1>1, <1>2, <1>3
    DEF DownIsIdle, Turn, Idle, Running
<1>6. MonitorsEntries'
  BY <1>1, <1>2, <1>3 DEF MonitorsEntries, TypeOK
<1>7. Unmonitored'
  BY <1>1, <1>2, <1>3, CallIds DEF Unmonitored, Turn, Makes, Flies, Attaches, TypeOK, Shapes
<1>8. UndoneEnds'
  BY <1>1, <1>2, <1>3, CallIds
    DEF UndoneEnds, Makes, Turn, Live, TypeOK
<1>9. Accounted'
  BY <1>1, <1>2, <1>3
    DEF Accounted, Hidden, Seen, Covers, Pending, Flies, Attaches, Turn, Running, Live,
        Visible, TypeOK
<1>10. Shapes' /\ OneMaker' /\ OneFlight' /\ CallsMeant' /\ RemovesClosed' /\ FreshSpawn'
       /\ BootRows' /\ TrackedRows' /\ EntryHeld'
  BY <1>3
    DEF Shapes, OneMaker, OneFlight, CallsMeant, RemovesClosed, FreshSpawn, BootRows, TrackedRows,
        EntryHeld, Visible, HasProject, Live, Pending, Attaches
<1>11. Reaps'
  BY <1>1, <1>2, <1>3, CallIds DEF Reaps, Makes, Turn, TypeOK, Shapes
<1>12. ReapsEnd'
  BY <1>1, <1>2, <1>3, CallIds
    DEF ReapsEnd, Pending, Live, Flies, Attaches, Turn, MonitorsEntries, TypeOK, Shapes
<1> QED
  BY <1>4, <1>5, <1>6, <1>7, <1>8, <1>9, <1>10, <1>11, <1>12

\* A monitor ends what it watched.
LEMMA MonitorReapsKeeps ==
    ASSUME IInv, NEW i \in Ids, MonitorReaps(i)
    PROVE  IInv'
<1> USE DEF IInv
<1>1. monitor[i] /= "off" /\ i \in entry /\ (~Live(i) \/ Pending(i))
  BY DEF MonitorReaps, MonitorsEntries, ReapsEnd
<1>2. entry' = entry \ {i} /\ ghost' = [ghost EXCEPT ![i] = "none"]
      /\ monitor' = [monitor EXCEPT ![i] = "off"]
  BY DEF MonitorReaps
<1>3. /\ row' \in [Ids -> Rows]
      /\ \/ ~IsRow(row'[i]) /\ ~CanResume(row'[i])
         \/ row'[i] = row[i]
      /\ hears' \in [Ids -> {"no", "yes", "bare", "late", "stray"}]
      /\ hears'[i] \notin {"yes", "bare"}
      /\ \A j \in Ids \ {i} : row'[j] = row[j] /\ hears'[j] = hears[j]
  BY CleanupIs DEF MonitorReaps
<1>4. \A d \in Calls : Makes(call[d]) \/ Flies(call[d]) => call[d].id /= i
  BY <1>1 DEF Unmonitored
<1>5. Running /\ (boot = "listed" => i \notin bootView.rows)
  BY <1>1 DEF DownIsIdle, BootRows, Visible, Running
<1>6. UNCHANGED <<tmux, doomed, flight, call, recon, boot, bootView, closed, spawned, reaped,
       degraded>>
  BY DEF MonitorReaps, regVars, rowVars, tmuxVars, bootVars, histVars
<1>7. TypeOK'
  BY <1>1, <1>2, <1>3, <1>4, <1>5, <1>6
    DEF TypeOK
<1>8. DownIsIdle'
  BY <1>1, <1>2, <1>3, <1>4, <1>5, <1>6
    DEF DownIsIdle, Turn, Idle, Running
<1>9. MonitorsEntries'
  BY <1>1, <1>2, <1>5 DEF MonitorsEntries, TypeOK
<1>10. Unmonitored'
  BY <1>1, <1>2, <1>4, <1>5, <1>6, CallIds DEF Unmonitored, Turn, Makes, Flies, Attaches, TypeOK, Shapes
<1>11. FreshSpawn'
  BY <1>1, <1>2, <1>3, <1>4, <1>5, <1>6, CallIds
    DEF FreshSpawn, Prepares, Makes, Turn, TypeOK, Shapes
<1>12. BootRows'
  BY <1>1, <1>2, <1>3, <1>4, <1>5, <1>6
    DEF BootRows, Turn, Makes, Attaches, Visible, Live, TypeOK, Shapes
<1>13. TrackedRows'
  BY <1>1, <1>2, <1>3, <1>4, <1>5, <1>6, CallIds
    DEF TrackedRows, Recorded, HasProject, Makes, Turn, TypeOK, Shapes
<1>14. EntryHeld'
  BY <1>1, <1>2, <1>3, <1>4, <1>5, <1>6, CallIds
    DEF EntryHeld, Holds, Pending, Live, Makes, Flies, Attaches, Turn, TypeOK
<1>15. Accounted'
  BY <1>1, <1>2, <1>3, <1>4, <1>5, <1>6
    DEF Accounted, Hidden, Seen, Covers, Pending, Flies, Attaches, Turn, Running, Live,
        Visible, TypeOK
<1>16. Shapes' /\ OneMaker' /\ OneFlight' /\ CallsMeant' /\ RemovesClosed' /\ UndoneEnds'
  BY <1>6 DEF Shapes, OneMaker, OneFlight, CallsMeant, RemovesClosed, UndoneEnds, Live, Pending, Attaches
<1>17. Reaps'
  BY <1>1, <1>2, <1>3, <1>4, <1>5, <1>6, CallIds DEF Reaps, Makes, Turn, TypeOK, Shapes
<1>18. ReapsEnd'
  BY <1>1, <1>2, <1>3, <1>4, <1>5, <1>6, CallIds
    DEF ReapsEnd, Pending, Live, Flies, Attaches, Turn, MonitorsEntries, TypeOK, Shapes
<1> QED
  BY <1>7, <1>8, <1>9, <1>10, <1>11, <1>12, <1>13, <1>14, <1>15, <1>16, <1>17, <1>18

\* An orphan is chosen.
LEMMA KillOrphanKeeps ==
    ASSUME IInv, NEW c \in Calls, NEW i \in Ids, KillOrphan(c, i)
    PROVE  IInv'
<1> USE DEF IInv
<1>1. /\ Running /\ call[c].op = "idle"
      /\ reaped' = reaped \cup {i} /\ ~IsRow(row[i])
      /\ \A d \in Calls : Makes(call[d]) => call[d].id /= i
  BY DEF KillOrphan, Asks, Idle, Known, Busy, Makes
<1>2. /\ Task("orphan", i, "chosen") \in CallRecords
      /\ \A k : k = Task("orphan", i, "chosen") => k.op = "orphan" /\ k.id = i
  BY DEF Task, CallRecords, OrphanCalls
<1>3. Turn(c) /\ call'[c].op = "orphan" /\ call'[c].id = i
  BY <1>2, SetsCall DEF KillOrphan
<1>4. UNCHANGED <<tmux, doomed, row, hears, entry, ghost, monitor, flight, recon, boot,
       bootView, closed, spawned, degraded>>
  BY DEF KillOrphan, regVars, rowVars, tmuxVars, bootVars, histVars
<1>5. Shapes'
  BY <1>1, <1>3, <1>4 DEF Shapes, Turn
<1>6. DownIsIdle'
  BY <1>1, <1>2, <1>3, <1>4
    DEF DownIsIdle, Turn, Idle, Running
<1>7. OneMaker'
  BY <1>1, <1>3 DEF OneMaker, Turn, Makes, Attaches
<1>8. OneFlight'
  BY <1>1, <1>3, <1>4 DEF OneFlight, Turn, Flies, Attaches, TypeOK
<1>9. Unmonitored'
  BY <1>1, <1>3, <1>4, CallIds DEF Unmonitored, Turn, Makes, Flies, Attaches, TypeOK, Shapes
<1>10. CallsMeant'
  BY <1>1, <1>3 DEF CallsMeant, Meant, Turn, Attaches
<1>11. RemovesClosed'
  BY <1>1, <1>3, <1>4 DEF RemovesClosed, Turn
<1>12. FreshSpawn'
  BY <1>1, <1>2, <1>3, <1>4, CallIds
    DEF FreshSpawn, Prepares, Makes, Turn, TypeOK, Shapes
<1>13. BootRows'
  BY <1>1, <1>2, <1>3, <1>4
    DEF BootRows, Turn, Makes, Attaches, Visible, Live, TypeOK, Shapes
<1>14. TrackedRows'
  BY <1>1, <1>2, <1>3, <1>4, CallIds
    DEF TrackedRows, Recorded, HasProject, Makes, Turn, TypeOK, Shapes
<1>15. EntryHeld'
  BY <1>1, <1>2, <1>3, <1>4, CallIds
    DEF EntryHeld, Holds, Pending, Live, Makes, Flies, Attaches, Turn, TypeOK
<1>16. UndoneEnds'
  BY <1>1, <1>2, <1>3, <1>4, CallIds
    DEF UndoneEnds, Makes, Turn, Live, TypeOK
<1>17. Accounted'
  BY <1>1, <1>2, <1>3, <1>4
    DEF Accounted, Hidden, Seen, Covers, Pending, Flies, Attaches, Turn, Running, Live,
        Visible, TypeOK
<1>18. TypeOK' /\ MonitorsEntries'
  BY <1>1, <1>4 DEF TypeOK, MonitorsEntries
<1>19. Reaps'
  BY <1>1, <1>2, <1>3, <1>4, CallIds DEF Reaps, Makes, Turn, TypeOK, Shapes
<1>20. ReapsEnd'
  BY <1>1, <1>2, <1>3, <1>4, CallIds
    DEF ReapsEnd, Pending, Live, Flies, Attaches, Turn, MonitorsEntries, TypeOK, Shapes
<1> QED
  BY <1>5, <1>6, <1>7, <1>8, <1>9, <1>10, <1>11, <1>12, <1>13, <1>14, <1>15, <1>16, <1>17, <1>18, <1>19, <1>20

\* An orphan is killed.
LEMMA KillOrphanFinishKeeps ==
    ASSUME IInv, NEW c \in Calls, KillOrphanFinish(c)
    PROVE  IInv'
<1> USE DEF IInv
<1>1. PICK i \in Ids : i = call[c].id
  BY ShapeOf DEF KillOrphanFinish, Shapes
<1>2. call[c].op = "orphan"
  BY <1>1 DEF KillOrphanFinish
<1>3. Turn(c) /\ call'[c].op = "idle"
  BY DoneSets DEF KillOrphanFinish
<1>4. /\ entry' = entry \ {i}
      /\ ghost' \in [Ids -> {"none", "live", "dead", "recover"}]
      /\ ghost'[i] = "none" /\ \A j \in Ids \ {i} : ghost'[j] = ghost[j]
      /\ monitor' \in [Ids -> {"off", "poll", "reap"}]
      /\ monitor'[i] = "off" /\ \A j \in Ids \ {i} : monitor'[j] = monitor[j]
  BY <1>1, UnregisterIs DEF KillOrphanFinish
<1>5. /\ row' \in [Ids -> Rows]
      /\ \/ ~IsRow(row'[i]) /\ ~CanResume(row'[i])
         \/ row'[i] = row[i]
      /\ hears' \in [Ids -> {"no", "yes", "bare", "late", "stray"}]
      /\ hears'[i] \notin {"yes", "bare"}
      /\ \A j \in Ids \ {i} : row'[j] = row[j] /\ hears'[j] = hears[j]
  BY <1>1, CleanupIs DEF KillOrphanFinish
<1>6. tmux' = [tmux EXCEPT ![i] = "none"] /\ i \in reaped
      /\ \A d \in Calls : Makes(call[d]) => call[d].id /= i
  BY <1>1, <1>2 DEF KillOrphanFinish, Reaps
<1>7. UNCHANGED <<doomed, flight, recon, boot, bootView, closed, spawned, reaped, degraded>>
  BY DEF KillOrphanFinish, regVars, rowVars, tmuxVars, bootVars, histVars
<1>8. TypeOK'
  BY <1>1, <1>2, <1>3, <1>4, <1>5, <1>6, <1>7
    DEF TypeOK
<1>9. Shapes'
  BY <1>1, <1>2, <1>3, <1>7 DEF Shapes, Turn
<1>10. DownIsIdle'
  BY <1>1, <1>2, <1>3, <1>4, <1>5, <1>6, <1>7
    DEF DownIsIdle, Turn, Idle, Running
<1>11. OneMaker'
  BY <1>1, <1>2, <1>3 DEF OneMaker, Turn, Makes, Attaches
<1>12. OneFlight'
  BY <1>1, <1>2, <1>3, <1>7 DEF OneFlight, Turn, Flies, Attaches, TypeOK
<1>13. MonitorsEntries'
  BY <1>1, <1>2, <1>4 DEF MonitorsEntries, TypeOK
<1>14. Unmonitored'
  BY <1>1, <1>2, <1>3, <1>4, CallIds DEF Unmonitored, Turn, Makes, Flies, Attaches, TypeOK, Shapes
<1>15. CallsMeant'
  BY <1>1, <1>2, <1>3 DEF CallsMeant, Meant, Turn, Attaches
<1>16. RemovesClosed'
  BY <1>1, <1>2, <1>3, <1>7 DEF RemovesClosed, Turn
<1>17. FreshSpawn'
  BY <1>1, <1>2, <1>3, <1>4, <1>5, <1>6, <1>7, CallIds
    DEF FreshSpawn, Prepares, Makes, Turn, TypeOK, Shapes
<1>18. BootRows'
  BY <1>1, <1>2, <1>3, <1>4, <1>5, <1>6, <1>7
    DEF BootRows, Turn, Makes, Attaches, Visible, Live, TypeOK, Shapes
<1>19. TrackedRows'
  BY <1>1, <1>2, <1>3, <1>4, <1>5, <1>6, <1>7, CallIds
    DEF TrackedRows, Recorded, HasProject, Makes, Turn, TypeOK, Shapes
<1>20. EntryHeld'
  BY <1>1, <1>2, <1>3, <1>4, <1>5, <1>6, <1>7, CallIds
    DEF EntryHeld, Holds, Pending, Live, Makes, Flies, Attaches, Turn, TypeOK
<1>21. UndoneEnds'
  BY <1>1, <1>2, <1>3, <1>4, <1>5, <1>6, <1>7, CallIds
    DEF UndoneEnds, Makes, Turn, Live, TypeOK
<1>22. Accounted'
  BY <1>1, <1>2, <1>3, <1>4, <1>5, <1>6, <1>7
    DEF Accounted, Hidden, Seen, Covers, Pending, Flies, Attaches, Turn, Running, Live,
        Visible, TypeOK
<1>23. Reaps'
  BY <1>1, <1>2, <1>3, <1>4, <1>5, <1>6, <1>7, CallIds DEF Reaps, Makes, Turn, TypeOK, Shapes
<1>24. ReapsEnd'
  BY <1>1, <1>2, <1>3, <1>4, <1>5, <1>6, <1>7, CallIds
    DEF ReapsEnd, Pending, Live, Flies, Attaches, Turn, MonitorsEntries, TypeOK, Shapes
<1> QED
  BY <1>8, <1>9, <1>10, <1>11, <1>12, <1>13, <1>14, <1>15, <1>16, <1>17, <1>18, <1>19, <1>20,
        <1>21, <1>22, <1>23, <1>24

\* A replacement takes a new id.
LEMMA ReplaceCreateKeeps ==
    ASSUME IInv, NEW c \in Calls, NEW i \in Ids, NEW n \in Ids, ReplaceCreate(c, i, n)
    PROVE  IInv'
<1> USE DEF IInv
<1>1. Running /\ Visible(i) /\ Unused(n) /\ call[c].op = "idle"
  BY DEF ReplaceCreate, Asks, Idle
<1>2. /\ ~Live(n) /\ ~IsRow(row[n]) /\ ~CanResume(row[n]) /\ ~Visible(n)
      /\ n \notin closed \cup reaped /\ hears[n] = "no" /\ monitor[n] = "off"
      /\ \A d \in Calls : call[d].op /= "idle" => call[d].id /= n
  BY <1>1, UnusedIs
<1>3. PICK k : k = [op |-> "replace", id |-> n, pc |-> "created", was |-> i]
  OBVIOUS
<1>4. k \in CallRecords /\ k.op = "replace" /\ k.pc = "created" /\ k.id = n /\ k.was = i
  BY <1>3 DEF CallRecords, ReplaceCalls
<1>5. /\ Turn(c) /\ i /= n
      /\ call'[c].op = "replace" /\ call'[c].pc = "created" /\ call'[c].id = n /\ call'[c].was = i
  BY <1>1, <1>2, <1>3, <1>4, SetsCall DEF ReplaceCreate
<1>6. tmux' = [tmux EXCEPT ![n] = "place"]
  BY DEF ReplaceCreate, NewSession
<1>7. UNCHANGED <<doomed, row, hears, entry, ghost, monitor, flight, recon, boot, bootView,
       closed, spawned, reaped, degraded>>
  BY DEF ReplaceCreate, regVars, rowVars, tmuxVars, bootVars, histVars
<1>8. TypeOK'
  BY <1>1, <1>2, <1>3, <1>4, <1>5, <1>6, <1>7
    DEF TypeOK
<1>9. Shapes'
  BY <1>1, <1>5, <1>7 DEF Shapes, Turn
<1>10. DownIsIdle'
  BY <1>1, <1>2, <1>3, <1>4, <1>5, <1>6, <1>7
    DEF DownIsIdle, Turn, Idle, Running
<1>11. OneMaker'
  BY <1>1, <1>2, <1>5 DEF OneMaker, Turn, Makes, Attaches
<1>12. OneFlight'
  BY <1>1, <1>2, <1>5, <1>7 DEF OneFlight, Turn, Flies, Attaches, TypeOK
<1>13. Unmonitored'
  BY <1>1, <1>2, <1>5, <1>7, CallIds DEF Unmonitored, Turn, Makes, Flies, Attaches, TypeOK, Shapes
<1>14. CallsMeant'
  BY <1>1, <1>5 DEF CallsMeant, Meant, Turn, Attaches
<1>15. RemovesClosed'
  BY <1>1, <1>5, <1>7 DEF RemovesClosed, Turn
<1>16. FreshSpawn'
  BY <1>1, <1>2, <1>3, <1>4, <1>5, <1>6, <1>7, CallIds
    DEF FreshSpawn, Prepares, Makes, Turn, TypeOK, Shapes
<1>17. BootRows'
  BY <1>1, <1>2, <1>3, <1>4, <1>5, <1>6, <1>7
    DEF BootRows, Turn, Makes, Attaches, Visible, Live, TypeOK, Shapes
<1>18. TrackedRows'
  BY <1>1, <1>2, <1>3, <1>4, <1>5, <1>6, <1>7, CallIds
    DEF TrackedRows, Recorded, HasProject, Makes, Turn, TypeOK, Shapes
<1>19. EntryHeld'
  BY <1>1, <1>2, <1>3, <1>4, <1>5, <1>6, <1>7, CallIds
    DEF EntryHeld, Holds, Pending, Live, Makes, Flies, Attaches, Turn, TypeOK
<1>20. UndoneEnds'
  BY <1>1, <1>2, <1>3, <1>4, <1>5, <1>6, <1>7, CallIds
    DEF UndoneEnds, Makes, Turn, Live, TypeOK
<1>21. Accounted'
  BY <1>1, <1>2, <1>3, <1>4, <1>5, <1>6, <1>7
    DEF Accounted, Hidden, Seen, Covers, Pending, Flies, Attaches, Turn, Running, Live,
        Visible, TypeOK
<1>22. MonitorsEntries'
  BY <1>7 DEF MonitorsEntries
<1>23. Reaps'
  BY <1>1, <1>2, <1>3, <1>4, <1>5, <1>6, <1>7, CallIds DEF Reaps, Makes, Turn, TypeOK, Shapes
<1>24. ReapsEnd'
  BY <1>1, <1>2, <1>3, <1>4, <1>5, <1>6, <1>7, CallIds
    DEF ReapsEnd, Pending, Live, Flies, Attaches, Turn, MonitorsEntries, TypeOK, Shapes
<1> QED
  BY <1>8, <1>9, <1>10, <1>11, <1>12, <1>13, <1>14, <1>15, <1>16, <1>17, <1>18, <1>19, <1>20,
        <1>21, <1>22, <1>23, <1>24

\* A replacement writes its row.
LEMMA ReplaceTrackKeeps ==
    ASSUME IInv, NEW c \in Calls, ReplaceTrack(c)
    PROVE  IInv'
<1> USE DEF IInv
<1>1. PICK i \in Ids : i = call[c].id
  BY ShapeOf DEF ReplaceTrack, Shapes
<1>2. call[c].op = "replace" /\ call[c].pc = "created"
  BY <1>1 DEF ReplaceTrack
<1>3. /\ Turn(c)
      /\ call'[c].op = "replace" /\ call'[c].pc = "tracked" /\ call'[c].id = i /\ call'[c].was = call[c].was
  BY <1>1, <1>2, ReplaceSets DEF ReplaceTrack
<1>4. /\ Upsert(row[i], TRUE) \in Rows /\ IsRow(Upsert(row[i], TRUE))
      /\ Upsert(row[i], TRUE).project
  BY UpsertIs DEF TypeOK
<1>5. PICK both : both = Reported(Upsert(row[i], TRUE), TRUE)
  OBVIOUS
<1>6. both \in Rows /\ IsRow(both) /\ both.project
  BY <1>4, <1>5, ReportedIs
<1>7. PICK told : told = Reported(row[i], TRUE)
  OBVIOUS
<1>8. told \in Rows /\ IsRow(told)
  BY <1>7, ReportedIs DEF TypeOK
<1>9. \/ row' = [row EXCEPT ![i] = both] /\ hears' = [hears EXCEPT ![i] = "yes"]
      \/ /\ row' \in {row, [row EXCEPT ![i] = Upsert(row[i], TRUE)], [row EXCEPT ![i] = told]}
         /\ hears' = [hears EXCEPT ![i] = "bare"]
  BY <1>1, <1>5, <1>7 DEF ReplaceTrack, Upserted, TypeOK
<1>10. /\ row' \in [Ids -> Rows] /\ (IsRow(row[i]) => IsRow(row'[i]))
       /\ (IsRow(row'[i]) /\ row'[i].project) \/ hears'[i] = "bare"
       /\ hears' \in [Ids -> {"no", "yes", "bare", "late", "stray"}]
       /\ \A j \in Ids \ {i} : row'[j] = row[j] /\ hears'[j] = hears[j]
  <2>1. CASE row' = [row EXCEPT ![i] = both] /\ hears' = [hears EXCEPT ![i] = "yes"]
    BY <1>6, <2>1 DEF TypeOK
  <2>2. CASE row' = row /\ hears' = [hears EXCEPT ![i] = "bare"]
    BY <2>2 DEF TypeOK
  <2>3. CASE row' = [row EXCEPT ![i] = Upsert(row[i], TRUE)] /\ hears' = [hears EXCEPT ![i] = "bare"]
    BY <1>4, <2>3 DEF TypeOK
  <2>4. CASE row' = [row EXCEPT ![i] = told] /\ hears' = [hears EXCEPT ![i] = "bare"]
    BY <1>8, <2>4 DEF TypeOK
  <2> QED
    BY <1>9, <2>1, <2>2, <2>3, <2>4
<1>11. \A d \in Calls \ {c} : Makes(call[d]) \/ Attaches(call[d]) => call[d].id /= i
  BY <1>1, <1>2 DEF OneMaker, Makes
<1>12. call[c].was /= i
  BY <1>1, <1>2 DEF CallsMeant, Meant
<1>13. UNCHANGED <<tmux, doomed, entry, ghost, monitor, flight, recon, boot, bootView, closed,
       spawned, reaped, degraded>>
  BY DEF ReplaceTrack, regVars, rowVars, tmuxVars, bootVars, histVars
<1>14. TypeOK'
  BY <1>1, <1>2, <1>3, <1>4, <1>5, <1>6, <1>7, <1>8, <1>9, <1>10, <1>11, <1>12, <1>13
    DEF TypeOK
<1>15. Shapes'
  BY <1>1, <1>2, <1>3, <1>12, <1>13 DEF Shapes, Turn
<1>16. DownIsIdle'
  BY <1>1, <1>2, <1>3, <1>4, <1>5, <1>6, <1>7, <1>8, <1>9, <1>10, <1>11, <1>12, <1>13
    DEF DownIsIdle, Turn, Idle, Running
<1>17. OneMaker'
  BY <1>1, <1>2, <1>3, <1>11, <1>12 DEF OneMaker, Turn, Makes, Attaches
<1>18. OneFlight'
  BY <1>1, <1>2, <1>3, <1>11, <1>12, <1>13 DEF OneFlight, Turn, Flies, Attaches, TypeOK
<1>19. Unmonitored'
  BY <1>1, <1>2, <1>3, <1>11, <1>12, <1>13, CallIds
    DEF Unmonitored, Turn, Makes, Flies, Attaches, TypeOK, Shapes
<1>20. CallsMeant'
  BY <1>1, <1>2, <1>3, <1>12 DEF CallsMeant, Meant, Turn, Attaches
<1>21. RemovesClosed'
  BY <1>1, <1>2, <1>3, <1>12, <1>13 DEF RemovesClosed, Turn
<1>22. FreshSpawn'
  BY <1>1, <1>2, <1>3, <1>4, <1>5, <1>6, <1>7, <1>8, <1>9, <1>10, <1>11, <1>12, <1>13, CallIds
    DEF FreshSpawn, Prepares, Makes, Turn, TypeOK, Shapes
<1>23. BootRows'
  BY <1>1, <1>2, <1>3, <1>4, <1>5, <1>6, <1>7, <1>8, <1>9, <1>10, <1>11, <1>12, <1>13
    DEF BootRows, Turn, Makes, Attaches, Visible, Live, TypeOK, Shapes
<1>24. TrackedRows'
  BY <1>1, <1>2, <1>3, <1>4, <1>5, <1>6, <1>7, <1>8, <1>9, <1>10, <1>11, <1>12, <1>13, CallIds
    DEF TrackedRows, Recorded, HasProject, Makes, Turn, TypeOK, Shapes
<1>25. EntryHeld'
  BY <1>1, <1>2, <1>3, <1>4, <1>5, <1>6, <1>7, <1>8, <1>9, <1>10, <1>11, <1>12, <1>13, CallIds
    DEF EntryHeld, Holds, Pending, Live, Makes, Flies, Attaches, Turn, TypeOK
<1>26. UndoneEnds'
  BY <1>1, <1>2, <1>3, <1>4, <1>5, <1>6, <1>7, <1>8, <1>9, <1>10, <1>11, <1>12, <1>13, CallIds
    DEF UndoneEnds, Makes, Turn, Live, TypeOK
<1>27. Accounted'
  BY <1>1, <1>2, <1>3, <1>4, <1>5, <1>6, <1>7, <1>8, <1>9, <1>10, <1>11, <1>12, <1>13
    DEF Accounted, Hidden, Seen, Covers, Pending, Flies, Attaches, Turn, Running, Live,
        Visible, TypeOK
<1>28. MonitorsEntries'
  BY <1>13 DEF MonitorsEntries
<1>29. Reaps'
  BY <1>1, <1>2, <1>3, <1>4, <1>5, <1>6, <1>7, <1>8, <1>9, <1>10, <1>11, <1>12, <1>13, CallIds DEF Reaps, Makes, Turn, TypeOK, Shapes
<1>30. ReapsEnd'
  BY <1>1, <1>2, <1>3, <1>4, <1>5, <1>6, <1>7, <1>8, <1>9, <1>10, <1>11, <1>12, <1>13, CallIds
    DEF ReapsEnd, Pending, Live, Flies, Attaches, Turn, MonitorsEntries, TypeOK, Shapes
<1> QED
  BY <1>14, <1>15, <1>16, <1>17, <1>18, <1>19, <1>20, <1>21, <1>22, <1>23, <1>24, <1>25, <1>26,
        <1>27, <1>28, <1>29, <1>30

\* A replacement opens its bridge.
LEMMA ReplaceAttachKeeps ==
    ASSUME IInv, NEW c \in Calls, ReplaceAttach(c)
    PROVE  IInv'
<1> USE DEF IInv
<1>1. PICK i \in Ids : i = call[c].id
  BY ShapeOf DEF ReplaceAttach, Shapes
<1>2. call[c].op = "replace" /\ call[c].pc = "tracked"
  BY <1>1 DEF ReplaceAttach
<1>3. /\ Turn(c)
      /\ call'[c].op = "replace" /\ call'[c].pc = "attached" /\ call'[c].id = i /\ call'[c].was = call[c].was
  BY <1>1, <1>2, ReplaceSets DEF ReplaceAttach
<1>4. entry' = entry \cup {i} /\ ghost' = [ghost EXCEPT ![i] = "none"]
  BY <1>1 DEF ReplaceAttach
<1>5. \A d \in Calls \ {c} : Makes(call[d]) \/ Attaches(call[d]) => call[d].id /= i
  BY <1>1, <1>2 DEF OneMaker, Makes
<1>6. call[c].was /= i
  BY <1>1, <1>2 DEF CallsMeant, Meant
<1>7. UNCHANGED <<tmux, doomed, row, hears, monitor, flight, recon, boot, bootView, closed,
       spawned, reaped, degraded>>
  BY DEF ReplaceAttach, regVars, rowVars, tmuxVars, bootVars, histVars
<1>8. TypeOK'
  BY <1>1, <1>2, <1>3, <1>4, <1>5, <1>6, <1>7
    DEF TypeOK
<1>9. Shapes'
  BY <1>1, <1>2, <1>3, <1>6, <1>7 DEF Shapes, Turn
<1>10. DownIsIdle'
  BY <1>1, <1>2, <1>3, <1>4, <1>5, <1>6, <1>7
    DEF DownIsIdle, Turn, Idle, Running
<1>11. OneMaker'
  BY <1>1, <1>2, <1>3, <1>5, <1>6 DEF OneMaker, Turn, Makes, Attaches
<1>12. OneFlight'
  BY <1>1, <1>2, <1>3, <1>5, <1>6, <1>7 DEF OneFlight, Turn, Flies, Attaches, TypeOK
<1>13. MonitorsEntries'
  BY <1>1, <1>2, <1>4, <1>6, <1>7 DEF MonitorsEntries, TypeOK
<1>14. Unmonitored'
  BY <1>1, <1>2, <1>3, <1>5, <1>6, <1>7, CallIds
    DEF Unmonitored, Turn, Makes, Flies, Attaches, TypeOK, Shapes
<1>15. CallsMeant'
  BY <1>1, <1>2, <1>3, <1>6 DEF CallsMeant, Meant, Turn, Attaches
<1>16. RemovesClosed'
  BY <1>1, <1>2, <1>3, <1>6, <1>7 DEF RemovesClosed, Turn
<1>17. FreshSpawn'
  BY <1>1, <1>2, <1>3, <1>4, <1>5, <1>6, <1>7, CallIds
    DEF FreshSpawn, Prepares, Makes, Turn, TypeOK, Shapes
<1>18. BootRows'
  BY <1>1, <1>2, <1>3, <1>4, <1>5, <1>6, <1>7
    DEF BootRows, Turn, Makes, Attaches, Visible, Live, TypeOK, Shapes
<1>19. TrackedRows'
  BY <1>1, <1>2, <1>3, <1>4, <1>5, <1>6, <1>7, CallIds
    DEF TrackedRows, Recorded, HasProject, Makes, Turn, TypeOK, Shapes
<1>20. EntryHeld'
  BY <1>1, <1>2, <1>3, <1>4, <1>5, <1>6, <1>7, CallIds
    DEF EntryHeld, Holds, Pending, Live, Makes, Flies, Attaches, Turn, TypeOK
<1>21. UndoneEnds'
  BY <1>1, <1>2, <1>3, <1>4, <1>5, <1>6, <1>7, CallIds
    DEF UndoneEnds, Makes, Turn, Live, TypeOK
<1>22. Accounted'
  BY <1>1, <1>2, <1>3, <1>4, <1>5, <1>6, <1>7
    DEF Accounted, Hidden, Seen, Covers, Pending, Flies, Attaches, Turn, Running, Live,
        Visible, TypeOK
<1>23. Reaps'
  BY <1>1, <1>2, <1>3, <1>4, <1>5, <1>6, <1>7, CallIds DEF Reaps, Makes, Turn, TypeOK, Shapes
<1>24. ReapsEnd'
  BY <1>1, <1>2, <1>3, <1>4, <1>5, <1>6, <1>7, CallIds
    DEF ReapsEnd, Pending, Live, Flies, Attaches, Turn, MonitorsEntries, TypeOK, Shapes
<1> QED
  BY <1>8, <1>9, <1>10, <1>11, <1>12, <1>13, <1>14, <1>15, <1>16, <1>17, <1>18, <1>19, <1>20,
        <1>21, <1>22, <1>23, <1>24

\* A replacement resumes the conversation, or gives up.
LEMMA ReplaceLaunchKeeps ==
    ASSUME IInv, NEW c \in Calls, ReplaceLaunch(c)
    PROVE  IInv'
<1> USE DEF IInv
<1>1. PICK i \in Ids : i = call[c].id
  BY ShapeOf DEF ReplaceLaunch, Shapes
<1>2. call[c].op = "replace" /\ call[c].pc = "attached"
  BY <1>1 DEF ReplaceLaunch
<1>3. \/ /\ Live(i) /\ tmux' = [tmux EXCEPT ![i] = "run"]
         /\ Turn(c) /\ call'[c].op = "replace" /\ call'[c].pc = "grace" /\ call'[c].id = i
         /\ call'[c].was = call[c].was
      \/ tmux' = tmux /\ Turn(c) /\ call'[c].op = "idle"
  BY <1>1, <1>2, ReplaceSets, DoneSets DEF ReplaceLaunch, RespawnPane
<1>4. \A d \in Calls \ {c} : Makes(call[d]) \/ Attaches(call[d]) => call[d].id /= i
  BY <1>1, <1>2 DEF OneMaker, Makes
<1>5. call[c].was /= i
  BY <1>1, <1>2 DEF CallsMeant, Meant
<1>6. i \in entry \cup closed \/ ~Live(i)
  BY <1>1, <1>2 DEF EntryHeld, Holds, Pending, OneMaker, Makes
<1>7. UNCHANGED <<doomed, row, hears, entry, ghost, monitor, flight, recon, boot, bootView,
       closed, spawned, reaped, degraded>>
  BY DEF ReplaceLaunch, regVars, rowVars, tmuxVars, bootVars, histVars
<1>8. TypeOK'
  BY <1>1, <1>2, <1>3, <1>4, <1>5, <1>6, <1>7
    DEF TypeOK
<1>9. Shapes'
  BY <1>1, <1>2, <1>3, <1>5, <1>6, <1>7 DEF Shapes, Turn
<1>10. DownIsIdle'
  BY <1>1, <1>2, <1>3, <1>4, <1>5, <1>6, <1>7
    DEF DownIsIdle, Turn, Idle, Running
<1>11. OneMaker'
  BY <1>1, <1>2, <1>3, <1>4, <1>5, <1>6 DEF OneMaker, Turn, Makes, Attaches
<1>12. OneFlight'
  BY <1>1, <1>2, <1>3, <1>4, <1>5, <1>6, <1>7 DEF OneFlight, Turn, Flies, Attaches, TypeOK
<1>13. Unmonitored'
  BY <1>1, <1>2, <1>3, <1>4, <1>5, <1>6, <1>7, CallIds
    DEF Unmonitored, Turn, Makes, Flies, Attaches, TypeOK, Shapes
<1>14. CallsMeant'
  BY <1>1, <1>2, <1>3, <1>5, <1>6 DEF CallsMeant, Meant, Turn, Attaches
<1>15. RemovesClosed'
  BY <1>1, <1>2, <1>3, <1>5, <1>6, <1>7 DEF RemovesClosed, Turn
<1>16. FreshSpawn'
  BY <1>1, <1>2, <1>3, <1>4, <1>5, <1>6, <1>7, CallIds
    DEF FreshSpawn, Prepares, Makes, Turn, TypeOK, Shapes
<1>17. BootRows'
  BY <1>1, <1>2, <1>3, <1>4, <1>5, <1>6, <1>7
    DEF BootRows, Turn, Makes, Attaches, Visible, Live, TypeOK, Shapes
<1>18. TrackedRows'
  BY <1>1, <1>2, <1>3, <1>4, <1>5, <1>6, <1>7, CallIds
    DEF TrackedRows, Recorded, HasProject, Makes, Turn, TypeOK, Shapes
<1>19. EntryHeld'
  BY <1>1, <1>2, <1>3, <1>4, <1>5, <1>6, <1>7, CallIds
    DEF EntryHeld, Holds, Pending, Live, Makes, Flies, Attaches, Turn, TypeOK
<1>20. UndoneEnds'
  BY <1>1, <1>2, <1>3, <1>4, <1>5, <1>6, <1>7, CallIds
    DEF UndoneEnds, Makes, Turn, Live, TypeOK
<1>21. Accounted'
  BY <1>1, <1>2, <1>3, <1>4, <1>5, <1>6, <1>7
    DEF Accounted, Hidden, Seen, Covers, Pending, Flies, Attaches, Turn, Running, Live,
        Visible, TypeOK
<1>22. MonitorsEntries'
  BY <1>7 DEF MonitorsEntries
<1>23. Reaps'
  BY <1>1, <1>2, <1>3, <1>4, <1>5, <1>6, <1>7, CallIds DEF Reaps, Makes, Turn, TypeOK, Shapes
<1>24. ReapsEnd'
  BY <1>1, <1>2, <1>3, <1>4, <1>5, <1>6, <1>7, CallIds
    DEF ReapsEnd, Pending, Live, Flies, Attaches, Turn, MonitorsEntries, TypeOK, Shapes
<1> QED
  BY <1>8, <1>9, <1>10, <1>11, <1>12, <1>13, <1>14, <1>15, <1>16, <1>17, <1>18, <1>19, <1>20,
        <1>21, <1>22, <1>23, <1>24

\* A replacement fails.
LEMMA ReplaceFailsKeeps ==
    ASSUME IInv, NEW c \in Calls, ReplaceFails(c)
    PROVE  IInv'
<1> USE DEF IInv
<1>1. PICK i \in Ids : i = call[c].id
  BY ShapeOf DEF ReplaceFails, Shapes
<1>2. call[c].op = "replace" /\ call[c].pc \in {"tracked", "grace"}
  BY <1>1 DEF ReplaceFails
<1>3. Turn(c) /\ call'[c].op = "idle"
  BY DoneSets DEF ReplaceFails
<1>4. /\ entry' = entry \ {i}
      /\ ghost' \in [Ids -> {"none", "live", "dead", "recover"}]
      /\ ghost'[i] = "none" /\ \A j \in Ids \ {i} : ghost'[j] = ghost[j]
      /\ monitor' \in [Ids -> {"off", "poll", "reap"}]
      /\ monitor'[i] = "off" /\ \A j \in Ids \ {i} : monitor'[j] = monitor[j]
  BY <1>1, UnregisterIs DEF ReplaceFails
<1>5. /\ row' \in [Ids -> Rows]
      /\ \/ ~IsRow(row'[i]) /\ ~CanResume(row'[i])
         \/ row'[i] = row[i]
      /\ hears' \in [Ids -> {"no", "yes", "bare", "late", "stray"}]
      /\ hears'[i] \notin {"yes", "bare"}
      /\ \A j \in Ids \ {i} : row'[j] = row[j] /\ hears'[j] = hears[j]
  BY <1>1, CleanupIs DEF ReplaceFails
<1>6. doomed' = doomed \cup {i}
  BY <1>1 DEF ReplaceFails
<1>7. \A d \in Calls \ {c} : Makes(call[d]) \/ Attaches(call[d]) => call[d].id /= i
  BY <1>1, <1>2 DEF OneMaker, Makes
<1>8. UNCHANGED <<tmux, flight, recon, boot, bootView, closed, spawned, reaped, degraded>>
  BY DEF ReplaceFails, regVars, rowVars, tmuxVars, bootVars, histVars
<1>9. TypeOK'
  BY <1>1, <1>2, <1>3, <1>4, <1>5, <1>6, <1>7, <1>8
    DEF TypeOK
<1>10. Shapes'
  BY <1>1, <1>2, <1>3, <1>8 DEF Shapes, Turn
<1>11. DownIsIdle'
  BY <1>1, <1>2, <1>3, <1>4, <1>5, <1>6, <1>7, <1>8
    DEF DownIsIdle, Turn, Idle, Running
<1>12. OneMaker'
  BY <1>1, <1>2, <1>3, <1>7 DEF OneMaker, Turn, Makes, Attaches
<1>13. OneFlight'
  BY <1>1, <1>2, <1>3, <1>7, <1>8 DEF OneFlight, Turn, Flies, Attaches, TypeOK
<1>14. MonitorsEntries'
  BY <1>1, <1>2, <1>4 DEF MonitorsEntries, TypeOK
<1>15. Unmonitored'
  BY <1>1, <1>2, <1>3, <1>4, <1>7, CallIds DEF Unmonitored, Turn, Makes, Flies, Attaches, TypeOK, Shapes
<1>16. CallsMeant'
  BY <1>1, <1>2, <1>3 DEF CallsMeant, Meant, Turn, Attaches
<1>17. RemovesClosed'
  BY <1>1, <1>2, <1>3, <1>8 DEF RemovesClosed, Turn
<1>18. FreshSpawn'
  BY <1>1, <1>2, <1>3, <1>4, <1>5, <1>6, <1>7, <1>8, CallIds
    DEF FreshSpawn, Prepares, Makes, Turn, TypeOK, Shapes
<1>19. BootRows'
  BY <1>1, <1>2, <1>3, <1>4, <1>5, <1>6, <1>7, <1>8
    DEF BootRows, Turn, Makes, Attaches, Visible, Live, TypeOK, Shapes
<1>20. TrackedRows'
  BY <1>1, <1>2, <1>3, <1>4, <1>5, <1>6, <1>7, <1>8, CallIds
    DEF TrackedRows, Recorded, HasProject, Makes, Turn, TypeOK, Shapes
<1>21. EntryHeld'
  BY <1>1, <1>2, <1>3, <1>4, <1>5, <1>6, <1>7, <1>8, CallIds
    DEF EntryHeld, Holds, Pending, Live, Makes, Flies, Attaches, Turn, TypeOK
<1>22. UndoneEnds'
  BY <1>1, <1>2, <1>3, <1>4, <1>5, <1>6, <1>7, <1>8, CallIds
    DEF UndoneEnds, Makes, Turn, Live, TypeOK
<1>23. Accounted'
  BY <1>1, <1>2, <1>3, <1>4, <1>5, <1>6, <1>7, <1>8
    DEF Accounted, Hidden, Seen, Covers, Pending, Flies, Attaches, Turn, Running, Live,
        Visible, TypeOK
<1>24. Reaps'
  BY <1>1, <1>2, <1>3, <1>4, <1>5, <1>6, <1>7, <1>8, CallIds DEF Reaps, Makes, Turn, TypeOK, Shapes
<1>25. ReapsEnd'
  BY <1>1, <1>2, <1>3, <1>4, <1>5, <1>6, <1>7, <1>8, CallIds
    DEF ReapsEnd, Pending, Live, Flies, Attaches, Turn, MonitorsEntries, TypeOK, Shapes
<1> QED
  BY <1>9, <1>10, <1>11, <1>12, <1>13, <1>14, <1>15, <1>16, <1>17, <1>18, <1>19, <1>20, <1>21,
        <1>22, <1>23, <1>24, <1>25

\* A replacement retires the session it replaces.
LEMMA ReplaceCommitKeeps ==
    ASSUME IInv, NEW c \in Calls, ReplaceCommit(c)
    PROVE  IInv'
<1> USE DEF IInv
<1>1. PICK i \in Ids : i = call[c].id
  BY ShapeOf DEF ReplaceCommit, Shapes
<1>2. call[c].op = "replace" /\ call[c].pc = "grace"
  BY <1>1 DEF ReplaceCommit
<1>3. Turn(c) /\ call'[c].op = "idle"
  BY DoneSets DEF ReplaceCommit
<1>4. call[c].was /= i
  BY <1>1, <1>2 DEF CallsMeant, Meant
<1>5. PICK w \in Ids : w = call[c].was
  BY <1>1, <1>2, ShapeOf DEF Shapes, ReplaceCalls
<1>6. /\ entry' = entry \ {w} /\ ghost' = [ghost EXCEPT ![w] = "none"]
      /\ doomed' = doomed \cup {w} /\ closed' = closed \cup {w} /\ spawned' \subseteq Ids
  BY <1>1, <1>5 DEF ReplaceCommit, TypeOK
<1>7. /\ monitor' \in [Ids -> {"off", "poll", "reap"}]
      /\ monitor'[i] = (IF i \in entry THEN "poll" ELSE monitor[i]) /\ monitor'[w] = "off"
      /\ \A j \in Ids \ {i, w} : monitor'[j] = monitor[j]
  BY <1>1, <1>4, <1>5 DEF ReplaceCommit, TypeOK, MonitorsEntries
<1>8. /\ row' \in [Ids -> Rows]
      /\ \/ ~IsRow(row'[w]) /\ ~CanResume(row'[w])
         \/ row'[w] = row[w]
      /\ hears' \in [Ids -> {"no", "yes", "bare", "late", "stray"}]
      /\ hears'[w] \notin {"yes", "bare"}
      /\ \A j \in Ids \ {w} : row'[j] = row[j] /\ hears'[j] = hears[j]
  BY <1>5, CleanupIs DEF ReplaceCommit
<1>9. \A d \in Calls \ {c} : Makes(call[d]) \/ Attaches(call[d]) => call[d].id /= i
  BY <1>1, <1>2 DEF OneMaker, Makes
<1>10. i \in entry \cup closed \/ ~Live(i)
  BY <1>1, <1>2 DEF EntryHeld, Holds, Pending, OneMaker, Makes
<1>11. UNCHANGED <<tmux, flight, recon, boot, bootView, reaped, degraded>>
  BY DEF ReplaceCommit, regVars, rowVars, tmuxVars, bootVars, histVars
<1>12. TypeOK'
  BY <1>1, <1>2, <1>3, <1>4, <1>5, <1>6, <1>7, <1>8, <1>9, <1>10, <1>11
    DEF TypeOK
<1>13. Shapes'
  BY <1>1, <1>2, <1>3, <1>4, <1>5, <1>10, <1>11 DEF Shapes, Turn
<1>14. DownIsIdle'
  BY <1>1, <1>2, <1>3, <1>4, <1>5, <1>6, <1>7, <1>8, <1>9, <1>10, <1>11
    DEF DownIsIdle, Turn, Idle, Running
<1>15. OneMaker'
  BY <1>1, <1>2, <1>3, <1>4, <1>5, <1>9, <1>10 DEF OneMaker, Turn, Makes, Attaches
<1>16. OneFlight'
  BY <1>1, <1>2, <1>3, <1>4, <1>5, <1>9, <1>10, <1>11 DEF OneFlight, Turn, Flies, Attaches, TypeOK
<1>17. MonitorsEntries'
  BY <1>1, <1>2, <1>4, <1>5, <1>6, <1>7, <1>10 DEF MonitorsEntries, TypeOK
<1>18. Unmonitored'
  BY <1>1, <1>2, <1>3, <1>4, <1>5, <1>7, <1>9, <1>10, CallIds
    DEF Unmonitored, Turn, Makes, Flies, Attaches, TypeOK, Shapes
<1>19. CallsMeant'
  BY <1>1, <1>2, <1>3, <1>4, <1>5, <1>10 DEF CallsMeant, Meant, Turn, Attaches
<1>20. RemovesClosed'
  BY <1>1, <1>2, <1>3, <1>4, <1>5, <1>6, <1>10 DEF RemovesClosed, Turn
<1>21. FreshSpawn'
  BY <1>1, <1>2, <1>3, <1>4, <1>5, <1>6, <1>7, <1>8, <1>9, <1>10, <1>11, CallIds
    DEF FreshSpawn, Prepares, Makes, Turn, TypeOK, Shapes
<1>22. BootRows'
  BY <1>1, <1>2, <1>3, <1>4, <1>5, <1>6, <1>7, <1>8, <1>9, <1>10, <1>11
    DEF BootRows, Turn, Makes, Attaches, Visible, Live, TypeOK, Shapes
<1>23. TrackedRows'
  BY <1>1, <1>2, <1>3, <1>4, <1>5, <1>6, <1>7, <1>8, <1>9, <1>10, <1>11, CallIds
    DEF TrackedRows, Recorded, HasProject, Makes, Turn, TypeOK, Shapes
<1>24. EntryHeld'
  BY <1>1, <1>2, <1>3, <1>4, <1>5, <1>6, <1>7, <1>8, <1>9, <1>10, <1>11, CallIds
    DEF EntryHeld, Holds, Pending, Live, Makes, Flies, Attaches, Turn, TypeOK
<1>25. UndoneEnds'
  BY <1>1, <1>2, <1>3, <1>4, <1>5, <1>6, <1>7, <1>8, <1>9, <1>10, <1>11, CallIds
    DEF UndoneEnds, Makes, Turn, Live, TypeOK
<1>26. Accounted'
  BY <1>1, <1>2, <1>3, <1>4, <1>5, <1>6, <1>7, <1>8, <1>9, <1>10, <1>11
    DEF Accounted, Hidden, Seen, Covers, Pending, Flies, Attaches, Turn, Running, Live,
        Visible, TypeOK
<1>27. Reaps'
  BY <1>1, <1>2, <1>3, <1>4, <1>5, <1>6, <1>7, <1>8, <1>9, <1>10, <1>11, CallIds DEF Reaps, Makes, Turn, TypeOK, Shapes
<1>28. ReapsEnd'
  BY <1>1, <1>2, <1>3, <1>4, <1>5, <1>6, <1>7, <1>8, <1>9, <1>10, <1>11, CallIds
    DEF ReapsEnd, Pending, Live, Flies, Attaches, Turn, MonitorsEntries, TypeOK, Shapes
<1> QED
  BY <1>12, <1>13, <1>14, <1>15, <1>16, <1>17, <1>18, <1>19, <1>20, <1>21, <1>22, <1>23, <1>24,
        <1>25, <1>26, <1>27, <1>28

\* A reconcile pass lists the socket.
LEMMA ReconListKeeps ==
    ASSUME IInv, ReconList
    PROVE  IInv'
<1> USE DEF IInv
<1>1. /\ boot \in {"applied", "up"} /\ recon.pc = "idle" /\ recon'.pc = "listed"
      /\ recon' \in [pc : {"idle", "listed", "tracked", "done"}, live : SUBSET Ids]
  BY DEF ReconList, BootPass, GatedPass
<1>2. UNCHANGED <<tmux, doomed, row, hears, entry, ghost, monitor, flight, call, boot,
       bootView, closed, spawned, reaped, degraded>>
  BY DEF ReconList, regVars, rowVars, tmuxVars, bootVars, histVars
<1>3. Shapes'
  BY <1>1, <1>2 DEF Shapes, Turn
<1>4. DownIsIdle'
  BY <1>1, <1>2
    DEF DownIsIdle, Turn, Idle, Running
<1>5. Accounted'
  BY <1>1, <1>2
    DEF Accounted, Hidden, Seen, Covers, Pending, Flies, Attaches, Turn, Running, Live,
        Visible, TypeOK
<1>6. TypeOK' /\ OneMaker' /\ OneFlight' /\ MonitorsEntries' /\ Unmonitored' /\ CallsMeant'
      /\ RemovesClosed' /\ FreshSpawn' /\ BootRows' /\ TrackedRows' /\ EntryHeld' /\ UndoneEnds'
  BY <1>2
    DEF TypeOK, OneMaker, OneFlight, MonitorsEntries, Unmonitored, CallsMeant, RemovesClosed,
        FreshSpawn, BootRows, TrackedRows, EntryHeld, UndoneEnds, Visible, HasProject, Live, Pending, Attaches
<1>7. Reaps'
  BY <1>1, <1>2, CallIds DEF Reaps, Makes, Turn, TypeOK, Shapes
<1>8. ReapsEnd'
  BY <1>1, <1>2, CallIds
    DEF ReapsEnd, Pending, Live, Flies, Attaches, Turn, MonitorsEntries, TypeOK, Shapes
<1> QED
  BY <1>3, <1>4, <1>5, <1>6, <1>7, <1>8

\* A reconcile pass adopts what it found.
LEMMA ReconTrackKeeps ==
    ASSUME IInv, ReconTrack
    PROVE  IInv'
<1> USE DEF IInv
<1>1. PICK plan \in SUBSET Ids : plan = AdoptPlan(recon.live)
  BY DEF AdoptPlan, Shapes
<1>2. /\ recon.pc = "listed" /\ recon'.pc = "tracked" /\ recon'.live = plan
      /\ recon' \in [pc : {"idle", "listed", "tracked", "done"}, live : SUBSET Ids]
  BY <1>1 DEF ReconTrack
<1>3. row' \in {row, [i \in Ids |-> IF i \in plan THEN Upsert(row[i], FALSE) ELSE row[i]]}
  BY <1>1 DEF ReconTrack
<1>4. /\ row' \in [Ids -> Rows]
      /\ \A i \in Ids : IsRow(row[i]) => IsRow(row'[i])
      /\ \A i \in Ids : HasProject(i) => IsRow(row'[i]) /\ row'[i].project
      /\ \A i \in Ids : CanResume(row'[i]) <=> CanResume(row[i])
      /\ \A i \in Ids : IsRow(row'[i]) => IsRow(row[i]) \/ i \in plan
  <2>1. CASE row' = row
    BY <2>1 DEF TypeOK, HasProject
  <2>2. CASE row' = [i \in Ids |-> IF i \in plan THEN Upsert(row[i], FALSE) ELSE row[i]]
    BY <2>2, UpsertIs DEF TypeOK, HasProject
  <2> QED
    BY <1>3, <2>1, <2>2
<1>5. boot /= "listed" /\ boot /= "down"
  BY <1>2 DEF DownIsIdle, NoRecon
<1>6. UNCHANGED <<tmux, doomed, hears, entry, ghost, monitor, flight, call, boot, bootView, closed,
       spawned, reaped, degraded>>
  BY DEF ReconTrack, regVars, rowVars, tmuxVars, bootVars, histVars
<1>7. TypeOK'
  BY <1>1, <1>2, <1>3, <1>4, <1>5, <1>6
    DEF TypeOK
<1>8. Shapes'
  BY <1>2, <1>5, <1>6 DEF Shapes, Turn
<1>9. DownIsIdle'
  BY <1>1, <1>2, <1>3, <1>4, <1>5, <1>6
    DEF DownIsIdle, Turn, Idle, Running
<1>10. FreshSpawn'
  BY <1>1, <1>2, <1>3, <1>4, <1>5, <1>6, CallIds
    DEF FreshSpawn, Prepares, Makes, Turn, TypeOK, Shapes
<1>11. BootRows'
  BY <1>1, <1>2, <1>3, <1>4, <1>5, <1>6
    DEF BootRows, Turn, Makes, Attaches, Visible, Live, TypeOK, Shapes
<1>12. TrackedRows'
  BY <1>1, <1>2, <1>3, <1>4, <1>5, <1>6, CallIds
    DEF TrackedRows, Recorded, HasProject, Makes, Turn, TypeOK, Shapes
<1>13. Accounted'
  BY <1>1, <1>2, <1>3, <1>4, <1>5, <1>6
    DEF Accounted, Hidden, Seen, Covers, Pending, Flies, Attaches, Turn, Running, Live,
        Visible, TypeOK
<1>14. OneMaker' /\ OneFlight' /\ MonitorsEntries' /\ Unmonitored' /\ CallsMeant'
       /\ RemovesClosed' /\ EntryHeld' /\ UndoneEnds'
  BY <1>6
    DEF OneMaker, OneFlight, MonitorsEntries, Unmonitored, CallsMeant, RemovesClosed, EntryHeld,
        UndoneEnds, Live, Pending, Attaches
<1>15. Reaps'
  BY <1>1, <1>2, <1>3, <1>4, <1>5, <1>6, CallIds DEF Reaps, Makes, Turn, TypeOK, Shapes
<1>16. ReapsEnd'
  BY <1>1, <1>2, <1>3, <1>4, <1>5, <1>6, CallIds
    DEF ReapsEnd, Pending, Live, Flies, Attaches, Turn, MonitorsEntries, TypeOK, Shapes
<1> QED
  BY <1>7, <1>8, <1>9, <1>10, <1>11, <1>12, <1>13, <1>14, <1>15, <1>16

\* A reconcile pass lists what it adopted.
LEMMA ReconGhostsKeeps ==
    ASSUME IInv, ReconGhosts
    PROVE  IInv'
<1> USE DEF IInv
<1>1. /\ recon.pc = "tracked" /\ recon'.pc \in {"done", "idle"}
      /\ recon' \in [pc : {"idle", "listed", "tracked", "done"}, live : SUBSET Ids]
  BY DEF ReconGhosts
<1>2. /\ ghost' \in [Ids -> {"none", "live", "dead", "recover"}]
      /\ \A i \in Ids : ghost'[i] = ghost[i] \/ ghost'[i] /= "none"
      /\ \A i \in recon.live \ entry : ghost'[i] /= "none"
  BY DEF ReconGhosts, TypeOK, Shapes
<1>3. boot /= "listed" /\ boot /= "down"
  BY <1>1 DEF DownIsIdle, NoRecon
<1>4. UNCHANGED <<tmux, doomed, row, hears, entry, monitor, flight, call, boot, bootView,
       closed, spawned, reaped, degraded>>
  BY DEF ReconGhosts, regVars, rowVars, tmuxVars, bootVars, histVars
<1>5. TypeOK'
  BY <1>1, <1>2, <1>3, <1>4
    DEF TypeOK
<1>6. Shapes'
  BY <1>1, <1>3, <1>4 DEF Shapes, Turn
<1>7. DownIsIdle'
  BY <1>1, <1>2, <1>3, <1>4
    DEF DownIsIdle, Turn, Idle, Running
<1>8. BootRows'
  BY <1>1, <1>2, <1>3, <1>4
    DEF BootRows, Turn, Makes, Attaches, Visible, Live, TypeOK, Shapes
<1>9. Accounted'
  BY <1>1, <1>2, <1>3, <1>4
    DEF Accounted, Hidden, Seen, Covers, Pending, Flies, Attaches, Turn, Running, Live,
        Visible, TypeOK
<1>10. OneMaker' /\ OneFlight' /\ MonitorsEntries' /\ Unmonitored' /\ CallsMeant'
       /\ RemovesClosed' /\ FreshSpawn' /\ TrackedRows' /\ EntryHeld' /\ UndoneEnds'
  BY <1>4
    DEF OneMaker, OneFlight, MonitorsEntries, Unmonitored, CallsMeant, RemovesClosed, FreshSpawn,
        TrackedRows, EntryHeld, UndoneEnds, HasProject, Live, Pending, Attaches
<1>11. Reaps'
  BY <1>1, <1>2, <1>3, <1>4, CallIds DEF Reaps, Makes, Turn, TypeOK, Shapes
<1>12. ReapsEnd'
  BY <1>1, <1>2, <1>3, <1>4, CallIds
    DEF ReapsEnd, Pending, Live, Flies, Attaches, Turn, MonitorsEntries, TypeOK, Shapes
<1> QED
  BY <1>5, <1>6, <1>7, <1>8, <1>9, <1>10, <1>11, <1>12

\* The boot task lists the socket.
LEMMA BootListKeeps ==
    ASSUME IInv, NEW restart \in BOOLEAN, BootList(restart)
    PROVE  IInv'
<1> USE DEF IInv
<1>1. /\ boot = "down" /\ boot' = "listed"
      /\ tmux' \in [Ids -> {"none", "place", "run", "dead"}]
      /\ \A i \in Ids : tmux'[i] \in {"none", tmux[i]}
  BY DEF BootList, TypeOK
<1>2. /\ bootView' \in [live : SUBSET Ids, rows : SUBSET Ids]
      /\ bootView'.rows = {i \in Ids : IsRow(row[i])}
      /\ bootView'.live = {i \in Ids : tmux'[i] /= "none"}
  BY DEF BootList, NoView
<1>3. /\ recon = NoRecon /\ \A c \in Calls : call[c].op = "idle"
      /\ reaped = {} /\ \A i \in Ids : ~Visible(i) /\ hears[i] = "no"
  BY <1>1 DEF DownIsIdle, Visible, Idle
<1>4. UNCHANGED <<doomed, row, hears, entry, ghost, monitor, flight, call, recon, closed,
       spawned, reaped, degraded>>
  BY DEF BootList, regVars, rowVars, tmuxVars, bootVars, histVars
<1>5. TypeOK'
  BY <1>1, <1>2, <1>3, <1>4
    DEF TypeOK
<1>6. Shapes'
  BY <1>2, <1>3, <1>4 DEF Shapes, Turn
<1>7. DownIsIdle'
  BY <1>1, <1>2, <1>3, <1>4
    DEF DownIsIdle, Turn, Idle, Running
<1>8. FreshSpawn'
  BY <1>1, <1>2, <1>3, <1>4, CallIds
    DEF FreshSpawn, Prepares, Makes, Turn, TypeOK, Shapes
<1>9. BootRows'
  BY <1>1, <1>2, <1>3, <1>4
    DEF BootRows, Turn, Makes, Attaches, Visible, Live, TypeOK, Shapes
<1>10. UndoneEnds'
  BY <1>1, <1>2, <1>3, <1>4, CallIds
    DEF UndoneEnds, Makes, Turn, Live, TypeOK
<1>11. Accounted'
  BY <1>1, <1>2, <1>3, <1>4
    DEF Accounted, Hidden, Seen, Covers, Pending, Flies, Attaches, Turn, Running, Live,
        Visible, TypeOK
<1>12. OneMaker' /\ OneFlight' /\ MonitorsEntries' /\ Unmonitored' /\ CallsMeant'
       /\ RemovesClosed' /\ TrackedRows'
  BY <1>4
    DEF OneMaker, OneFlight, MonitorsEntries, Unmonitored, CallsMeant, RemovesClosed, TrackedRows,
        HasProject
<1>13. Reaps'
  BY <1>1, <1>2, <1>3, <1>4, CallIds DEF Reaps, Makes, Turn, TypeOK, Shapes
<1>14. ReapsEnd'
  BY <1>1, <1>2, <1>3, <1>4, CallIds
    DEF ReapsEnd, Pending, Live, Flies, Attaches, Turn, MonitorsEntries, TypeOK, Shapes
<1>15. EntryHeld'
  BY <1>1, <1>2, <1>3, <1>4, CallIds
    DEF EntryHeld, Holds, Pending, Live, Makes, Flies, Attaches, TypeOK
<1> QED
  BY <1>5, <1>6, <1>7, <1>8, <1>9, <1>10, <1>11, <1>12, <1>13, <1>14, <1>15

\* The boot task cannot list the socket.
LEMMA BootListFailsKeeps ==
    ASSUME IInv, BootListFails
    PROVE  IInv'
<1> USE DEF IInv
<1>1. boot = "down" /\ boot' = "up" /\ degraded' = TRUE
  BY DEF BootListFails
<1>2. UNCHANGED <<tmux, doomed, row, hears, entry, ghost, monitor, flight, call, recon,
       bootView, closed, spawned, reaped>>
  BY DEF BootListFails, regVars, rowVars, tmuxVars, bootVars, histVars
<1>3. TypeOK'
  BY <1>1, <1>2
    DEF TypeOK
<1>4. DownIsIdle'
  BY <1>1, <1>2
    DEF DownIsIdle, Turn, Idle, Running
<1>5. BootRows'
  BY <1>1, <1>2
    DEF BootRows, Turn, Makes, Attaches, Visible, Live, TypeOK, Shapes
<1>6. Accounted'
  BY <1>1, <1>2
    DEF Accounted, Hidden, Seen, Covers, Pending, Flies, Attaches, Turn, Running, Live,
        Visible, TypeOK
<1>7. Shapes' /\ OneMaker' /\ OneFlight' /\ MonitorsEntries' /\ Unmonitored' /\ CallsMeant'
      /\ RemovesClosed' /\ FreshSpawn' /\ TrackedRows' /\ EntryHeld' /\ UndoneEnds'
  BY <1>2
    DEF Shapes, OneMaker, OneFlight, MonitorsEntries, Unmonitored, CallsMeant, RemovesClosed,
        FreshSpawn, TrackedRows, EntryHeld, UndoneEnds, HasProject, Live, Pending, Attaches
<1>8. Reaps'
  BY <1>1, <1>2, CallIds DEF Reaps, Makes, Turn, TypeOK, Shapes
<1>9. ReapsEnd'
  BY <1>1, <1>2, CallIds
    DEF ReapsEnd, Pending, Live, Flies, Attaches, Turn, MonitorsEntries, TypeOK, Shapes
<1> QED
  BY <1>3, <1>4, <1>5, <1>6, <1>7, <1>8, <1>9

\* The boot task applies its plan.
LEMMA BootApplyKeeps ==
    ASSUME IInv, BootApply
    PROVE  IInv'
<1> USE DEF IInv
<1>1. boot = "listed" /\ boot' = "applied"
  BY DEF BootApply
<1>2. PICK gone \in SUBSET Ids : gone = {i \in bootView.rows : BootPlan[i] = "forget"}
  BY DEF Shapes
<1>3. /\ row' \in [Ids -> Rows] /\ gone \subseteq bootView.rows
      /\ \A i \in gone : ~Live(i)
      /\ \A i \in gone : (~IsRow(row'[i]) /\ ~CanResume(row'[i])) \/ row'[i] = row[i]
      /\ \A i \in Ids \ gone : row'[i] = row[i]
  <2>1. row' \in {row, Forgotten(gone)}
    BY <1>2 DEF BootApply
  <2>2. /\ Forgotten(gone) \in [Ids -> Rows]
        /\ \A i \in gone : Forgotten(gone)[i] = NoRow
        /\ \A i \in Ids \ gone : Forgotten(gone)[i] = row[i]
    BY NoRowIs DEF Forgotten, TypeOK
  <2>3. \A i \in gone : i \in bootView.rows /\ i \notin bootView.live
    BY <1>2 DEF BootPlan, RehydrateJob
  <2>4. \A i \in gone : ~Live(i)
    BY <1>1, <2>3 DEF BootRows
  <2> QED
    BY <2>1, <2>2, <2>3, <2>4, NoRowIs DEF TypeOK, CanResume
<1>4. /\ ghost' \in [Ids -> {"none", "live", "dead", "recover"}]
      /\ \A i \in Ids : ghost'[i] = ghost[i] \/ ghost'[i] /= "none"
      /\ \A i \in (bootView.rows \ gone) \ entry : ghost'[i] /= "none"
  BY <1>2 DEF BootApply, RegisterGhost, RecoverGhost, TypeOK, Shapes
<1>5. /\ hears' \in [Ids -> {"no", "yes", "bare", "late", "stray"}]
      /\ \A i \in Ids : hears'[i] = hears[i] \/ (hears'[i] = "yes" /\ i \in bootView.rows \ gone)
      /\ \A c \in Calls : Makes(call[c]) => call[c].id \notin bootView.rows
  BY <1>1, <1>2 DEF BootApply, BootRows, TypeOK
<1>6. UNCHANGED <<tmux, doomed, entry, monitor, flight, call, recon, bootView, closed,
       spawned, reaped, degraded>>
  BY DEF BootApply, regVars, rowVars, tmuxVars, bootVars, histVars
<1>7. TypeOK'
  BY <1>1, <1>2, <1>3, <1>4, <1>5, <1>6
    DEF TypeOK
<1>8. DownIsIdle'
  BY <1>1, <1>2, <1>3, <1>4, <1>5, <1>6
    DEF DownIsIdle, Turn, Idle, Running
<1>9. FreshSpawn'
  BY <1>1, <1>2, <1>3, <1>4, <1>5, <1>6, CallIds
    DEF FreshSpawn, Prepares, Makes, Turn, TypeOK, Shapes
<1>10. BootRows'
  BY <1>1, <1>2, <1>3, <1>4, <1>5, <1>6
    DEF BootRows, Turn, Makes, Attaches, Visible, Live, TypeOK, Shapes
<1>11. TrackedRows'
  BY <1>1, <1>2, <1>3, <1>4, <1>5, <1>6, CallIds
    DEF TrackedRows, Recorded, HasProject, Makes, Turn, TypeOK, Shapes
<1>12. Accounted'
  BY <1>1, <1>2, <1>3, <1>4, <1>5, <1>6
    DEF Accounted, Hidden, Seen, Covers, Pending, Flies, Attaches, Turn, Running, Live,
        Visible, TypeOK
<1>13. Shapes' /\ OneMaker' /\ OneFlight' /\ MonitorsEntries' /\ Unmonitored' /\ CallsMeant'
       /\ RemovesClosed' /\ EntryHeld' /\ UndoneEnds'
  BY <1>6
    DEF Shapes, OneMaker, OneFlight, MonitorsEntries, Unmonitored, CallsMeant, RemovesClosed,
        EntryHeld, UndoneEnds, Live, Pending, Attaches
<1>14. Reaps'
  BY <1>1, <1>2, <1>3, <1>4, <1>5, <1>6, CallIds DEF Reaps, Makes, Turn, TypeOK, Shapes
<1>15. ReapsEnd'
  BY <1>1, <1>2, <1>3, <1>4, <1>5, <1>6, CallIds
    DEF ReapsEnd, Pending, Live, Flies, Attaches, Turn, MonitorsEntries, TypeOK, Shapes
<1> QED
  BY <1>7, <1>8, <1>9, <1>10, <1>11, <1>12, <1>13, <1>14, <1>15

\* The boot task's reconcile pass is over.
LEMMA BootKeepKeeps ==
    ASSUME IInv, BootKeep
    PROVE  IInv'
<1> USE DEF IInv
<1>1. /\ boot = "applied" /\ boot' = "kept" /\ recon.pc = "done"
      /\ bootView' \in [live : SUBSET Ids, rows : SUBSET Ids]
      /\ recon' = NoRecon /\ recon' \in [pc : {"idle", "listed", "tracked", "done"}, live : SUBSET Ids]
  BY DEF BootKeep, NoView, Shapes, NoRecon
<1>2. UNCHANGED <<tmux, doomed, row, hears, entry, ghost, monitor, flight, call, closed,
       spawned, reaped, degraded>>
  BY DEF BootKeep, regVars, rowVars, tmuxVars, bootVars, histVars
<1>3. TypeOK'
  BY <1>1, <1>2
    DEF TypeOK
<1>4. Shapes'
  BY <1>1, <1>2 DEF Shapes, Turn
<1>5. DownIsIdle'
  BY <1>1, <1>2
    DEF DownIsIdle, Turn, Idle, Running
<1>6. BootRows'
  BY <1>1, <1>2
    DEF BootRows, Turn, Makes, Attaches, Visible, Live, TypeOK, Shapes
<1>7. Accounted'
  BY <1>1, <1>2
    DEF Accounted, Hidden, Seen, Covers, Pending, Flies, Attaches, Turn, Running, Live,
        Visible, TypeOK
<1>8. OneMaker' /\ OneFlight' /\ MonitorsEntries' /\ Unmonitored' /\ CallsMeant'
      /\ RemovesClosed' /\ FreshSpawn' /\ TrackedRows' /\ EntryHeld' /\ UndoneEnds'
  BY <1>2
    DEF OneMaker, OneFlight, MonitorsEntries, Unmonitored, CallsMeant, RemovesClosed, FreshSpawn,
        TrackedRows, EntryHeld, UndoneEnds, HasProject, Live, Pending, Attaches
<1>9. Reaps'
  BY <1>1, <1>2, CallIds DEF Reaps, Makes, Turn, TypeOK, Shapes
<1>10. ReapsEnd'
  BY <1>1, <1>2, CallIds
    DEF ReapsEnd, Pending, Live, Flies, Attaches, Turn, MonitorsEntries, TypeOK, Shapes
<1> QED
  BY <1>3, <1>4, <1>5, <1>6, <1>7, <1>8, <1>9, <1>10

\* The boot task reaps what is stale.
LEMMA BootReapKeeps ==
    ASSUME IInv, NEW stale \in SUBSET Ids, BootReap(stale)
    PROVE  IInv'
<1> USE DEF IInv
<1>1. /\ boot = "kept" /\ boot' = "up"
      /\ bootView' \in [live : SUBSET Ids, rows : SUBSET Ids]
      /\ tmux' \in [Ids -> {"none", "place", "run", "dead"}]
      /\ \A i \in Ids : tmux'[i] \in {"none", tmux[i]}
  BY DEF BootReap, NoView, TypeOK
<1>2. UNCHANGED <<doomed, row, hears, entry, ghost, monitor, flight, call, recon, closed,
       spawned, reaped, degraded>>
  BY DEF BootReap, regVars, rowVars, tmuxVars, bootVars, histVars
<1>3. TypeOK'
  BY <1>1, <1>2
    DEF TypeOK
<1>4. Shapes'
  BY <1>1, <1>2 DEF Shapes, Turn
<1>5. DownIsIdle'
  BY <1>1, <1>2
    DEF DownIsIdle, Turn, Idle, Running
<1>6. FreshSpawn'
  BY <1>1, <1>2, CallIds
    DEF FreshSpawn, Prepares, Makes, Turn, TypeOK, Shapes
<1>7. BootRows'
  BY <1>1, <1>2
    DEF BootRows, Turn, Makes, Attaches, Visible, Live, TypeOK, Shapes
<1>8. UndoneEnds'
  BY <1>1, <1>2, CallIds
    DEF UndoneEnds, Makes, Turn, Live, TypeOK
<1>9. Accounted'
  BY <1>1, <1>2
    DEF Accounted, Hidden, Seen, Covers, Pending, Flies, Attaches, Turn, Running, Live,
        Visible, TypeOK
<1>10. OneMaker' /\ OneFlight' /\ MonitorsEntries' /\ Unmonitored' /\ CallsMeant'
       /\ RemovesClosed' /\ TrackedRows'
  BY <1>2
    DEF OneMaker, OneFlight, MonitorsEntries, Unmonitored, CallsMeant, RemovesClosed, TrackedRows,
        HasProject
<1>11. Reaps'
  BY <1>1, <1>2, CallIds DEF Reaps, Makes, Turn, TypeOK, Shapes
<1>12. ReapsEnd'
  BY <1>1, <1>2, CallIds
    DEF ReapsEnd, Pending, Live, Flies, Attaches, Turn, MonitorsEntries, TypeOK, Shapes
<1>13. EntryHeld'
  BY <1>1, <1>2, CallIds
    DEF EntryHeld, Holds, Pending, Live, Makes, Flies, Attaches, TypeOK
<1> QED
  BY <1>3, <1>4, <1>5, <1>6, <1>7, <1>8, <1>9, <1>10, <1>11, <1>12, <1>13

\* A process in a pane exits.
LEMMA ProcessExitsKeeps ==
    ASSUME IInv, NEW i \in Ids, ProcessExits(i)
    PROVE  IInv'
<1> USE DEF IInv
<1>1. tmux[i] = "run" /\ tmux' = [tmux EXCEPT ![i] = "dead"]
  BY DEF ProcessExits
<1>2. UNCHANGED <<doomed, row, hears, entry, ghost, monitor, flight, call, recon, boot,
       bootView, closed, spawned, reaped, degraded>>
  BY DEF ProcessExits, regVars, rowVars, tmuxVars, bootVars, histVars
<1>3. TypeOK'
  BY <1>1, <1>2
    DEF TypeOK
<1>4. FreshSpawn'
  BY <1>1, <1>2, CallIds
    DEF FreshSpawn, Prepares, Makes, Turn, TypeOK, Shapes
<1>5. UndoneEnds'
  BY <1>1, <1>2, CallIds
    DEF UndoneEnds, Makes, Turn, Live, TypeOK
<1>6. Accounted'
  BY <1>1, <1>2
    DEF Accounted, Hidden, Seen, Covers, Pending, Flies, Attaches, Turn, Running, Live,
        Visible, TypeOK
<1>7. Shapes' /\ DownIsIdle' /\ OneMaker' /\ OneFlight' /\ MonitorsEntries' /\ Unmonitored'
      /\ CallsMeant' /\ RemovesClosed' /\ TrackedRows'
  BY <1>2
    DEF Shapes, DownIsIdle, OneMaker, OneFlight, MonitorsEntries, Unmonitored, CallsMeant,
        RemovesClosed, TrackedRows, HasProject
<1>8. Reaps'
  BY <1>1, <1>2, CallIds DEF Reaps, Makes, Turn, TypeOK, Shapes
<1>9. ReapsEnd'
  BY <1>1, <1>2, CallIds
    DEF ReapsEnd, Pending, Live, Flies, Attaches, Turn, MonitorsEntries, TypeOK, Shapes
<1>10. EntryHeld'
  BY <1>1, <1>2, CallIds
    DEF EntryHeld, Holds, Pending, Live, Makes, Flies, Attaches, TypeOK
<1>11. BootRows'
  BY <1>1, <1>2
    DEF BootRows, Makes, Attaches, Visible, Live, TypeOK, Shapes
<1> QED
  BY <1>3, <1>4, <1>5, <1>6, <1>7, <1>8, <1>9, <1>10, <1>11

\* A hook reports.
LEMMA HarnessReportsKeeps ==
    ASSUME IInv, NEW i \in Ids, NEW h \in BOOLEAN, HarnessReports(i, h)
    PROVE  IInv'
<1> USE DEF IInv
<1>1. hears[i] \in {"yes", "bare"} /\ tmux[i] = "run"
  BY DEF HarnessReports
<1>2. /\ row' \in [Ids -> Rows] /\ IsRow(row'[i])
      /\ IsRow(row[i]) /\ row[i].project => row'[i].project
      /\ \A j \in Ids \ {i} : row'[j] = row[j]
  BY ReportWrites DEF HarnessReports
<1>3. hears' = hears
  BY DEF HarnessReports
<1>4. UNCHANGED <<tmux, doomed, entry, ghost, monitor, flight, call, recon, boot,
       bootView, closed, spawned, reaped, degraded>>
  BY DEF HarnessReports, regVars, tmuxVars, bootVars, histVars
<1>5. TypeOK'
  BY <1>1, <1>2, <1>3, <1>4 DEF TypeOK
<1>6. FreshSpawn'
  BY <1>1, <1>2, <1>3, <1>4, CallIds DEF FreshSpawn, Prepares, Recorded, TrackedRows, Makes, TypeOK, Shapes
<1>7. BootRows'
  BY <1>1, <1>2, <1>3, <1>4 DEF BootRows, Makes, Attaches, Visible, Live, TypeOK, Shapes
<1>8. TrackedRows'
  BY <1>1, <1>2, <1>3, <1>4, CallIds DEF TrackedRows, Recorded, HasProject, Makes, TypeOK, Shapes
<1>9. Accounted'
  BY <1>1, <1>2, <1>3, <1>4
    DEF Accounted, Hidden, Seen, Covers, Flies, Attaches, Running, Live, Visible, TypeOK
<1>10. DownIsIdle'
  BY <1>1, <1>3, <1>4 DEF DownIsIdle
<1>11. Shapes' /\ OneMaker' /\ OneFlight' /\ MonitorsEntries' /\ Unmonitored' /\ CallsMeant'
       /\ RemovesClosed' /\ Reaps' /\ EntryHeld' /\ ReapsEnd' /\ UndoneEnds'
  BY <1>4
    DEF Shapes, OneMaker, OneFlight, MonitorsEntries, Unmonitored, CallsMeant,
        RemovesClosed, Reaps, EntryHeld, ReapsEnd, UndoneEnds, Pending, Live
<1> QED
  BY <1>5, <1>6, <1>7, <1>8, <1>9, <1>10, <1>11

\* A report is written after its machine is gone.
LEMMA LateReportKeeps ==
    ASSUME IInv, NEW i \in Ids, NEW h \in BOOLEAN, LateReport(i, h)
    PROVE  IInv'
<1> USE DEF IInv
<1>1. hears[i] = "late"
  BY DEF LateReport
<1>2. /\ row' \in [Ids -> Rows] /\ IsRow(row'[i])
      /\ IsRow(row[i]) /\ row[i].project => row'[i].project
      /\ \A j \in Ids \ {i} : row'[j] = row[j]
  BY ReportWrites DEF LateReport
<1>3. /\ hears' \in [Ids -> {"no", "yes", "bare", "late", "stray"}]
      /\ hears'[i] = IF Live(i) /\ ~IsRow(row[i]) THEN "stray" ELSE "no"
      /\ \A j \in Ids \ {i} : hears'[j] = hears[j]
  BY DEF LateReport, TypeOK
<1>4. UNCHANGED <<tmux, doomed, entry, ghost, monitor, flight, call, recon, boot,
       bootView, closed, spawned, reaped, degraded>>
  BY DEF LateReport, regVars, tmuxVars, bootVars, histVars
<1>5. TypeOK'
  BY <1>1, <1>2, <1>3, <1>4 DEF TypeOK
<1>6. FreshSpawn'
  BY <1>1, <1>2, <1>3, <1>4, CallIds DEF FreshSpawn, Prepares, Recorded, TrackedRows, Makes, TypeOK, Shapes
<1>7. BootRows'
  BY <1>1, <1>2, <1>3, <1>4 DEF BootRows, Makes, Attaches, Visible, Live, TypeOK, Shapes
<1>8. TrackedRows'
  BY <1>1, <1>2, <1>3, <1>4, CallIds DEF TrackedRows, Recorded, HasProject, Makes, TypeOK, Shapes
<1>9. Accounted'
  BY <1>1, <1>2, <1>3, <1>4
    DEF Accounted, Hidden, Seen, Covers, Flies, Attaches, Running, Live, Visible, TypeOK
<1>10. DownIsIdle'
  BY <1>1, <1>3, <1>4 DEF DownIsIdle
<1>11. Shapes' /\ OneMaker' /\ OneFlight' /\ MonitorsEntries' /\ Unmonitored' /\ CallsMeant'
       /\ RemovesClosed' /\ Reaps' /\ EntryHeld' /\ ReapsEnd' /\ UndoneEnds'
  BY <1>4
    DEF Shapes, OneMaker, OneFlight, MonitorsEntries, Unmonitored, CallsMeant,
        RemovesClosed, Reaps, EntryHeld, ReapsEnd, UndoneEnds, Pending, Live
<1> QED
  BY <1>5, <1>6, <1>7, <1>8, <1>9, <1>10, <1>11

\* raum stops.
LEMMA StopKeeps ==
    ASSUME IInv, NEW reboot \in BOOLEAN, Stop(reboot)
    PROVE  IInv'
<1> USE DEF IInv
<1>1. /\ doomed' = {} /\ entry' = {} /\ flight' = {} /\ boot' = "down" /\ degraded' = FALSE
      /\ ghost' = [i \in Ids |-> "none"] /\ monitor' = [i \in Ids |-> "off"]
      /\ recon' = NoRecon /\ bootView' = NoView /\ reaped' = {}
      /\ hears' = [i \in Ids |-> "no"]
  BY DEF Stop
<1>2. call' \in [Calls -> CallRecords] /\ \A c \in Calls : call'[c] = Idle /\ call'[c].op = "idle"
  BY DEF Stop, CallRecords, Idle
<1>3. tmux' \in [Ids -> {"none", "place", "run", "dead"}]
  BY DEF Stop, TypeOK
<1>4. /\ recon' \in [pc : {"idle", "listed", "tracked", "done"}, live : SUBSET Ids]
      /\ bootView' \in [live : SUBSET Ids, rows : SUBSET Ids]
  BY <1>1 DEF NoRecon, NoView
<1>5. UNCHANGED <<row, closed, spawned>>
  BY DEF Stop, regVars, rowVars, tmuxVars, bootVars, histVars
<1>6. TypeOK'
  BY <1>1, <1>2, <1>3, <1>4, <1>5
    DEF TypeOK
<1>7. Shapes'
  BY <1>1, <1>2, <1>4 DEF Shapes, Turn
<1>8. DownIsIdle'
  BY <1>1, <1>2, <1>3, <1>4, <1>5
    DEF DownIsIdle, Turn, Idle, Running
<1>9. OneMaker'
  BY <1>2 DEF OneMaker, Turn, Makes, Attaches
<1>10. OneFlight'
  BY <1>1, <1>2 DEF OneFlight, Turn, Flies, Attaches, TypeOK
<1>11. MonitorsEntries'
  BY <1>1 DEF MonitorsEntries, TypeOK
<1>12. Unmonitored'
  BY <1>1, <1>2, CallIds DEF Unmonitored, Turn, Makes, Flies, Attaches, TypeOK, Shapes
<1>13. CallsMeant'
  BY <1>2 DEF CallsMeant, Meant, Turn, Attaches
<1>14. RemovesClosed'
  BY <1>2, <1>5 DEF RemovesClosed, Turn
<1>15. FreshSpawn'
  BY <1>1, <1>2, <1>3, <1>4, <1>5, CallIds
    DEF FreshSpawn, Prepares, Makes, Turn, TypeOK, Shapes
<1>16. BootRows'
  BY <1>1, <1>2, <1>3, <1>4, <1>5
    DEF BootRows, Turn, Makes, Attaches, Visible, Live, TypeOK, Shapes
<1>17. TrackedRows'
  BY <1>1, <1>2, <1>3, <1>4, <1>5, CallIds
    DEF TrackedRows, Recorded, HasProject, Makes, Turn, TypeOK, Shapes
<1>18. EntryHeld'
  BY <1>1, <1>2, <1>3, <1>4, <1>5, CallIds
    DEF EntryHeld, Holds, Pending, Live, Makes, Flies, Attaches, Turn, TypeOK
<1>19. UndoneEnds'
  BY <1>1, <1>2, <1>3, <1>4, <1>5, CallIds
    DEF UndoneEnds, Makes, Turn, Live, TypeOK
<1>20. Accounted'
  BY <1>1, <1>2, <1>3, <1>4, <1>5
    DEF Accounted, Hidden, Seen, Covers, Pending, Flies, Attaches, Turn, Running, Live,
        Visible, TypeOK
<1>21. Reaps'
  BY <1>1, <1>2, <1>3, <1>4, <1>5, CallIds DEF Reaps, Makes, Turn, TypeOK, Shapes
<1>22. ReapsEnd'
  BY <1>1, <1>2, <1>3, <1>4, <1>5, CallIds
    DEF ReapsEnd, Pending, Live, Flies, Attaches, Turn, MonitorsEntries, TypeOK, Shapes
<1> QED
  BY <1>6, <1>7, <1>8, <1>9, <1>10, <1>11, <1>12, <1>13, <1>14, <1>15, <1>16, <1>17, <1>18, <1>19, <1>20, <1>21, <1>22

-----------------------------------------------------------------------------
(* The inductive invariant *)

\* It holds at the start.
LEMMA InitHolds == Init => IInv
<1> SUFFICES ASSUME Init
             PROVE  IInv
  OBVIOUS
<1>1. TypeOK
  BY DEF Init, TypeOK
<1>2. Idle \in CallRecords /\ Idle.op = "idle"
  BY DEF CallRecords, Idle
<1>3. call \in [Calls -> CallRecords] /\ \A c \in Calls : call[c] = Idle /\ call[c].op = "idle"
  BY <1>2 DEF Init
<1>4. Shapes
  BY <1>3 DEF Init, Shapes, NoRecon, NoView
<1>5. DownIsIdle
  BY <1>3 DEF Init, DownIsIdle
<1>6. OneMaker /\ OneFlight /\ Unmonitored /\ CallsMeant /\ RemovesClosed /\ Reaps /\ FreshSpawn
      /\ TrackedRows /\ EntryHeld /\ UndoneEnds
  BY <1>3 DEF OneMaker, OneFlight, Unmonitored, CallsMeant, Meant, RemovesClosed, Reaps, FreshSpawn, Prepares,
     TrackedRows, Recorded, EntryHeld, Holds, UndoneEnds, Makes, Attaches, Flies
<1>7. MonitorsEntries /\ ReapsEnd /\ BootRows /\ Accounted
  BY DEF Init, MonitorsEntries, ReapsEnd, BootRows, Accounted, Running
<1> QED
  BY <1>1, <1>4, <1>5, <1>6, <1>7 DEF IInv

\* A step of a call keeps it.
LEMMA StepHolds ==
    ASSUME IInv, NEW c \in Calls, Step(c)
    PROVE  IInv'
BY
     SpawnTrackKeeps, SpawnAttachKeeps, SpawnAttachFailsKeeps, SpawnLaunchKeeps,
     SpawnLaunchFailsKeeps, SpawnUndoKeeps, AttachCreateKeeps, AttachRefusedKeeps,
     AttachBeginKeeps, AttachRegisterKeeps, AttachOpenKeeps, AttachOpenFailsKeeps,
     AttachResumeFailsKeeps, AttachResurfaceKeeps, AttachDropKeeps,
     AttachRespawnKeeps, AttachCommitKeeps, RemoveFinishKeeps,
     KillOrphanFinishKeeps, ReplaceTrackKeeps, ReplaceAttachKeeps,
     ReplaceLaunchKeeps, ReplaceFailsKeeps, ReplaceCommitKeeps
   DEF Step

\* So does a command of the user ...
LEMMA RequestHolds ==
    ASSUME IInv, NEW c \in Calls, NEW i \in Ids, Request(c, i)
    PROVE  IInv'
BY
     SpawnCreateKeeps, AttachLookKeeps, RemoveKillKeeps, KillOrphanKeeps,
     ReplaceCreateKeeps
   DEF Request

\* ... a monitor, a reconcile pass or the boot task ...
LEMMA TasksHold ==
    ASSUME IInv, Tasks
    PROVE  IInv'
BY
     TmuxKillKeeps, MonitorSeesKeeps, MonitorReapsKeeps, ReconListKeeps,
     ReconTrackKeeps, ReconGhostsKeeps, BootApplyKeeps, BootKeepKeeps,
     BootReapKeeps, BootListKeeps
   DEF Tasks, ReconStep, BootStep

\* ... and the environment.
LEMMA EnvironmentHolds ==
    ASSUME IInv, Environment
    PROVE  IInv'
BY
     KillInteractiveKeeps, ProcessExitsKeeps, HarnessReportsKeeps, LateReportKeeps,
     BootListFailsKeeps, StopKeeps
   DEF Environment

LEMMA StutterHolds ==
    ASSUME IInv, UNCHANGED vars
    PROVE  IInv'
<1> USE DEF IInv
<1>1. UNCHANGED <<tmux, doomed, row, hears, entry, ghost, monitor, flight, call, recon, boot, bootView,
                  closed, spawned, reaped, degraded>>
  BY DEF vars, regVars, rowVars, tmuxVars, bootVars, histVars
<1>2. TypeOK' /\ Shapes' /\ DownIsIdle' /\ OneMaker' /\ OneFlight' /\ MonitorsEntries' /\ Unmonitored'
  BY <1>1 DEF TypeOK, Shapes, DownIsIdle, OneMaker, OneFlight, MonitorsEntries, Unmonitored
<1>3. CallsMeant' /\ RemovesClosed' /\ Reaps' /\ FreshSpawn' /\ BootRows' /\ TrackedRows'
      /\ EntryHeld' /\ ReapsEnd' /\ UndoneEnds'
  BY <1>1 DEF CallsMeant, RemovesClosed, Reaps, FreshSpawn, BootRows, Visible, TrackedRows, HasProject,
     EntryHeld, ReapsEnd, Pending, UndoneEnds, Live
<1>4. Accounted'
  BY <1>1 DEF Accounted, Hidden, Seen, Live, Visible, Running
<1> QED
  BY <1>2, <1>3, <1>4

\* Every step keeps it.
LEMMA NextHolds == IInv /\ [Next]_vars => IInv'
BY StepHolds, RequestHolds, TasksHold, EnvironmentHolds, StutterHolds DEF Next

LEMMA Invariant == Spec => []IInv
BY InitHolds, NextHolds, PTL DEF Spec

-----------------------------------------------------------------------------
(* The theorems *)

\* The types of the state.
THEOREM Types == Spec => []TypeOK
<1>1. IInv => TypeOK
  BY DEF IInv
<1> QED
  BY <1>1, Invariant, PTL

\* A session that is accounted for and that nothing is under way on is listed,
\* or the next reconcile pass adopts it.
LEMMA Adoptable == IInv => HiddenIsAdoptable
<1> SUFFICES ASSUME IInv, ~degraded, NEW i \in Ids \ closed, Quiet(i), Live(i), ~Visible(i),
    IsRow(row[i]), hears[i] /= "stray"
             PROVE  FALSE
  BY DEF HiddenIsAdoptable
<1>1. Running /\ Hidden(i)
  BY DEF Quiet, Running, Hidden
<1>2. Seen(i)
  BY <1>1 DEF IInv, Accounted
<1>3. \A c \in Calls : Covers(call[c]) => call[c].op /= "idle"
  BY DEF Covers, Attaches, Flies
<1> QED
  BY <1>2, <1>3 DEF Seen, Quiet, Busy

\* Whatever failed, was interrupted or was restarted: when nothing is under way
\* on a live session the user has not closed, the terminal list has it or the
\* next reconcile pass will adopt it, unless its row has outlived the cleanup
\* that removed its machine: forgetting it failed, or a late report wrote it.
THEOREM NoneIsLost == Spec => []HiddenIsAdoptable
BY Invariant, Adoptable, PTL

\* A step that leaves every row leaves every conversation.
LEMMA SameRows ==
    ASSUME UNCHANGED row
    PROVE  KeepsConversations
BY DEF KeepsConversations, Recoverable, CanResume

\* So does one that makes no row no row.
LEMMA MoreRows ==
    ASSUME \A i \in Ids : IsRow(row[i]) => IsRow(row'[i])
    PROVE  KeepsConversations
BY DEF KeepsConversations, Recoverable, CanResume

\* Who may take the row of a conversation, besides the user and its monitor.
Takes(c, i) ==
    /\ \/ call[c].op = "replace"
       \/ call[c].op = "attach" /\ call[c].pc = "open" /\ ~call[c].resume
       \/ call[c].op = "orphan" /\ i \in reaped
    /\ call[c].id = i

\* One that cleans up after one session must have a reason to.
LEMMA OneForgotten ==
    ASSUME TypeOK, NEW i \in Ids, NEW u \in {"no", "stray"}, Cleanup(i, u),
           \/ i \in closed' \/ monitor[i] = "reap"
           \/ \E c \in Calls : Takes(c, i)
           \/ i \in Shells \/ ~CanResume(row[i])
    PROVE  KeepsConversations
<1>1. \A j \in Ids \ {i} : row'[j] = row[j]
  BY CleanupIs
<1>2. \A j \in Ids \ {i} : ~(Recoverable(j, row[j]) /\ ~IsRow(row'[j]))
  BY <1>1 DEF Recoverable, CanResume
<1>3. Recoverable(i, row[i]) => i \notin Shells /\ CanResume(row[i])
  BY DEF Recoverable
<1> QED
  BY <1>2, <1>3 DEF KeepsConversations, Takes

\* The steps of a call that write a row.
LEMMA StepKeepsRows ==
    ASSUME IInv, NEW c \in Calls, Step(c)
    PROVE  KeepsConversations
<1> USE DEF IInv
<1>1. ASSUME NEW p \in BOOLEAN, SpawnTrack(c, p) \/ AttachBegin(c, p) \/ AttachRegister(c, p)
      PROVE  KeepsConversations
  <2>1. PICK i \in Ids : i = call[c].id
    BY <1>1, CallIds DEF SpawnTrack, AttachBegin, AttachRegister
  <2>2. row' = row \/ Registers(i, p, "yes") \/ Registers(i, p, "bare") \/ Registers(i, p, "no")
    BY <1>1, <2>1 DEF SpawnTrack, AttachBegin, AttachRegister, rowVars
  <2>3. row' = row \/ row' = Upserted(i, p)
    BY <2>2 DEF Registers
  <2> QED
    BY <2>3, UpsertedIs, SameRows, MoreRows
<1>2. ASSUME SpawnAttachFails(c) \/ SpawnLaunchFails(c)
      PROVE  KeepsConversations
  <2>1. PICK i \in Ids : i = call[c].id
    BY <1>2, CallIds DEF SpawnAttachFails, SpawnLaunchFails
  <2>2. Prepares(call[c]) \/ i \in Shells
    BY <1>2, <2>1 DEF SpawnAttachFails, SpawnLaunchFails, Prepares
  <2>3. i \in Shells \/ ~CanResume(row[i]) \/ i \in closed
    BY <2>1, <2>2 DEF FreshSpawn
  <2>4. Cleanup(i, "no") /\ closed' = closed
    BY <1>2, <2>1 DEF SpawnAttachFails, SpawnLaunchFails, histVars
  <2> QED
    BY <2>3, <2>4, OneForgotten
<1>3. ASSUME AttachOpenFails(c)
      PROVE  KeepsConversations
  <2>1. PICK i \in Ids : i = call[c].id
    BY <1>3, CallIds DEF AttachOpenFails
  <2>2. Cleanup(i, "stray") /\ Takes(c, i)
    BY <1>3, <2>1 DEF AttachOpenFails, Takes
  <2> QED
    BY <2>2, OneForgotten
<1>4. ASSUME KillOrphanFinish(c)
      PROVE  KeepsConversations
  <2>1. PICK i \in Ids : i = call[c].id
    BY <1>4, CallIds DEF KillOrphanFinish
  <2>2. Cleanup(i, "no") /\ Takes(c, i)
    BY <1>4, <2>1 DEF KillOrphanFinish, Takes, Reaps
  <2> QED
    BY <2>2, OneForgotten
<1>5. ASSUME RemoveFinish(c)
      PROVE  KeepsConversations
  <2>1. PICK i \in Ids : i = call[c].id
    BY <1>5, CallIds DEF RemoveFinish
  <2>2. Cleanup(i, "no") /\ i \in closed'
    BY <1>5, <2>1 DEF RemoveFinish, RemovesClosed, histVars
  <2> QED
    BY <2>2, OneForgotten
<1>6. ASSUME ReplaceFails(c)
      PROVE  KeepsConversations
  <2>1. PICK i \in Ids : i = call[c].id
    BY <1>6, CallIds DEF ReplaceFails
  <2>2. Cleanup(i, "no") /\ Takes(c, i)
    BY <1>6, <2>1 DEF ReplaceFails, Takes
  <2> QED
    BY <2>2, OneForgotten
<1>7. ASSUME ReplaceCommit(c)
      PROVE  KeepsConversations
  <2>1. PICK i \in Ids : i = call[c].was
    BY <1>7, ShapeOf DEF ReplaceCommit, Shapes, ReplaceCalls
  <2>2. Cleanup(i, "no") /\ i \in closed'
    BY <1>7, <2>1 DEF ReplaceCommit
  <2> QED
    BY <2>2, OneForgotten
<1>8. ASSUME ReplaceTrack(c)
      PROVE  KeepsConversations
  <2>1. PICK i \in Ids : i = call[c].id
    BY <1>8, CallIds DEF ReplaceTrack
  <2>2. row[i] \in Rows /\ IsRow(Upsert(row[i], TRUE)) /\ IsRow(Reported(row[i], TRUE))
        /\ IsRow(Reported(Upsert(row[i], TRUE), TRUE))
    BY UpsertIs, ReportedIs DEF TypeOK
  <2>3. \/ row' = row \/ row' = [row EXCEPT ![i] = Upsert(row[i], TRUE)]
        \/ row' = [row EXCEPT ![i] = Reported(row[i], TRUE)]
        \/ row' = [row EXCEPT ![i] = Reported(Upsert(row[i], TRUE), TRUE)]
    BY <1>8, <2>1 DEF ReplaceTrack, Upserted
  <2>4. /\ row'[i] \in {row[i], Upsert(row[i], TRUE), Reported(row[i], TRUE),
                         Reported(Upsert(row[i], TRUE), TRUE)}
        /\ \A j \in Ids \ {i} : row'[j] = row[j]
    BY <2>3 DEF TypeOK
  <2>5. \A j \in Ids : IsRow(row[j]) => IsRow(row'[j])
    BY <2>2, <2>4
  <2> QED
    BY <2>5, MoreRows
<1>9. ASSUME UNCHANGED row
      PROVE  KeepsConversations
  BY <1>9, SameRows
<1> QED
  BY <1>1, <1>2, <1>3, <1>4, <1>5, <1>6, <1>7, <1>8, <1>9 DEF Step, SpawnAttach, SpawnLaunch, SpawnUndo,
     AttachCreate, AttachRefused, AttachOpen, AttachResumeFails, AttachResurface, AttachDrop,
     AttachRespawn, AttachCommit, ReplaceAttach, ReplaceLaunch, rowVars

\* The boot task forgets a row only when nothing could come back from it.
LEMMA BootKeepsRows ==
    ASSUME IInv, BootApply
    PROVE  KeepsConversations
<1> SUFFICES ASSUME NEW i \in Ids, Recoverable(i, row[i]), ~IsRow(row'[i])
             PROVE  FALSE
  BY DEF KeepsConversations
<1>1. IsRow(row[i])
  BY DEF Recoverable, CanResume
<1>2. i \in bootView.rows /\ BootPlan[i] = "forget"
  BY <1>1 DEF BootApply, Forgotten
<1>3. RehydrateJob(i, bootView.live) = "forget"
  BY <1>2 DEF BootPlan
<1> QED
  BY <1>3 DEF RehydrateJob

\* What is not a step of a call.
LEMMA OthersKeepRows ==
    ASSUME IInv, Tasks \/ Environment \/ \E c \in Calls, i \in Ids : Request(c, i)
    PROVE  KeepsConversations
<1> USE DEF IInv
<1>1. ASSUME ReconTrack
      PROVE  KeepsConversations
  <2>1. \A i \in Ids : row'[i] = row[i] \/ row'[i] = Upsert(row[i], FALSE)
    BY <1>1 DEF ReconTrack
  <2>2. \A i \in Ids : IsRow(Upsert(row[i], FALSE))
    BY UpsertIs DEF TypeOK
  <2> QED
    BY <2>1, <2>2, MoreRows
<1>2. ASSUME NEW i \in Ids, MonitorReaps(i)
      PROVE  KeepsConversations
  BY <1>2, OneForgotten DEF MonitorReaps
<1>3. ASSUME NEW i \in Ids, KillInteractive(i)
      PROVE  KeepsConversations
  <2>1. Cleanup(i, "no") /\ i \in closed'
    BY <1>3 DEF KillInteractive
  <2> QED
    BY <2>1, OneForgotten
<1>4. ASSUME NEW i \in Ids, NEW h \in BOOLEAN, HarnessReports(i, h) \/ LateReport(i, h)
      PROVE  KeepsConversations
  <2>1. row' = [row EXCEPT ![i] = Reported(@, h)]
    BY <1>4 DEF HarnessReports, LateReport
  <2>2. IsRow(row'[i]) /\ \A j \in Ids \ {i} : row'[j] = row[j]
    BY <2>1, ReportWrites
  <2> QED
    BY <2>2, MoreRows
<1>5. ASSUME UNCHANGED row
      PROVE  KeepsConversations
  BY <1>5, SameRows
<1>6. ASSUME NEW c \in Calls, NEW i \in Ids, Request(c, i)
      PROVE  KeepsConversations
  BY <1>5, <1>6 DEF Request, SpawnCreate, AttachLook, RemoveKill, KillOrphan, ReplaceCreate, rowVars
<1>7. ASSUME Tasks
      PROVE  KeepsConversations
  BY <1>1, <1>2, <1>5, <1>7, BootKeepsRows DEF Tasks, ReconStep, BootStep, TmuxKill, MonitorSees,
     ReconList, ReconGhosts, BootKeep, BootReap, BootList, rowVars
<1>8. ASSUME Environment
      PROVE  KeepsConversations
  BY <1>3, <1>4, <1>5, <1>8 DEF Environment, ProcessExits, BootListFails, Stop, rowVars
<1> QED
  BY <1>6, <1>7, <1>8

\* No step loses a conversation.
LEMMA StepKeeps == IInv /\ Next => KeepsConversations
BY StepKeepsRows, OthersKeepRows DEF Next

\* A conversation that a start could bring back loses its row only when the
\* user ends the session, its pane dies under its monitor, a plain reattach
\* finds no bridge, it is a replacement that failed, or an orphan reap chose it
\* when raum knew nothing of it.
THEOREM ConversationsKept == Spec => ConversationKept
BY StepKeeps, Invariant, PTL DEF Spec, ConversationKept

\* A step that adds to the spawns that succeeded is one of three.
LEMMA SpawnedBy ==
    ASSUME Next, ~(spawned' \subseteq spawned)
    PROVE  \E c \in Calls : SpawnAttach(c) \/ SpawnLaunch(c) \/ ReplaceCommit(c)
<1>1. ASSUME NEW c \in Calls, Step(c)
      PROVE  SpawnAttach(c) \/ SpawnLaunch(c) \/ ReplaceCommit(c)
  BY <1>1 DEF Step, histVars, SpawnTrack, SpawnAttachFails, SpawnLaunchFails, SpawnUndo,
     AttachCreate, AttachRefused, AttachBegin, AttachRegister, AttachOpen, AttachOpenFails,
     AttachResumeFails, AttachResurface, AttachDrop, AttachRespawn, AttachCommit, RemoveFinish,
     KillOrphanFinish, ReplaceTrack, ReplaceAttach, ReplaceLaunch, ReplaceFails
<1>2. ~\E c \in Calls : \E i \in Ids : Request(c, i)
  BY DEF Request, histVars, SpawnCreate, AttachLook, RemoveKill, KillOrphan, ReplaceCreate
<1>3. ~Tasks
  BY DEF Tasks, ReconStep, BootStep, histVars, TmuxKill, MonitorSees, MonitorReaps, ReconList,
     ReconTrack, ReconGhosts, BootApply, BootKeep, BootReap, BootList
<1>4. ~Environment
  BY DEF Environment, histVars, KillInteractive, ProcessExits, HarnessReports, LateReport, BootListFails, Stop
<1> QED
  BY <1>1, <1>2, <1>3, <1>4 DEF Next

\* A spawn or a replacement that succeeds leaves its harness a row.
LEMMA StepTracks == IInv /\ Next => TracksSpawns
<1> SUFFICES ASSUME IInv, Next PROVE TracksSpawns
  OBVIOUS
<1> USE DEF IInv
<1>1. CASE spawned' \subseteq spawned
  BY <1>1 DEF TracksSpawns
<1>2. ASSUME NEW c \in Calls, SpawnAttach(c)
      PROVE  TracksSpawns
  BY <1>2 DEF SpawnAttach, TracksSpawns
<1>3. ASSUME NEW c \in Calls, SpawnLaunch(c)
      PROVE  TracksSpawns
  <2>1. PICK i \in Ids : i = call[c].id
    BY <1>3, CallIds DEF SpawnLaunch
  <2>2. i \in Shells \/ HasProject(i) \/ i \in closed \/ hears[i] = "bare"
    BY <1>3, <2>1 DEF SpawnLaunch, TrackedRows, Recorded
  <2>3. spawned' = spawned \cup {i} /\ row' = row
    BY <1>3, <2>1 DEF SpawnLaunch, rowVars
  <2> QED
    BY <2>2, <2>3 DEF TracksSpawns, HasProject
<1>4. ASSUME NEW c \in Calls, ReplaceCommit(c)
      PROVE  TracksSpawns
  <2>1. PICK i \in Ids : i = call[c].id
    BY <1>4, CallIds DEF ReplaceCommit
  <2>2. PICK w \in Ids : w = call[c].was
    BY <1>4, ShapeOf DEF ReplaceCommit, Shapes, ReplaceCalls
  <2>3. w /= i
    BY <1>4, <2>1, <2>2 DEF ReplaceCommit, CallsMeant, Meant
  <2>4. HasProject(i) \/ i \in closed \/ hears[i] = "bare"
    BY <1>4, <2>1 DEF ReplaceCommit, TrackedRows, Recorded
  <2>5. spawned' = spawned \cup {i} /\ Cleanup(w, "no")
    BY <1>4, <2>1, <2>2 DEF ReplaceCommit
  <2>6. row'[i] = row[i]
    BY <2>3, <2>5, CleanupIs
  <2> QED
    BY <2>4, <2>5, <2>6 DEF TracksSpawns, HasProject
<1> QED
  BY <1>1, <1>2, <1>3, <1>4, SpawnedBy

\* A harness whose spawn or replacement succeeds and that was not closed has a
\* row with its project, whoever wrote that row first, unless the upsert failed.
THEOREM SpawnsTracked == Spec => SpawnIsTracked
BY StepTracks, Invariant, PTL DEF Spec, SpawnIsTracked
=============================================================================
