--------------------------- MODULE Desktop_proofs ---------------------------
(***************************************************************************)
(* Theorems about the components of the desktop process, for every value   *)
(* of the constants of MCDesktop.  ConfigStore, PaneResize, OpenCodeStream,*)
(* LayoutSaves, Projects, HarnessSetup and Hydration have their invariants *)
(* and step lemmas here, each in a section of its own, over the slots that *)
(* hold their variables; the terminals and the worktrees rest on the step  *)
(* lemmas of their own proof modules.  The last section puts the           *)
(* components together and states the theorems of the run.                 *)
(***************************************************************************)
EXTENDS MCDesktop, SequenceTheorems, FiniteSetTheorems, TLAPS

-----------------------------------------------------------------------------
(* ConfigStore: a kill that is due has been asked for, and a setter leaves  *)
(* what it did not set.                                                    *)

Types ==
    /\ disk \in Texts \cup {None} /\ cache \in Entries \cup {None} /\ call \in Tasks \cup {None}
    /\ stamp \in Nat /\ stamps \in Nat /\ (disk = None) = (stamp = 0) /\ stamp <= stamps
    /\ cache # None => cache.stamp <= stamps
    /\ call # None => call.stat <= stamps /\ call.read <= stamps
    /\ used \in [edits : Nat, sets : Nat, launches : Nat, faults : Nat]
    /\ asked \in Nat /\ kills \in Nat /\ uncleared \in Nat
    /\ app \in {"down", "booting", "killing", "up"}
    /\ app = "down" => call = None /\ cache = None

At(pcs) == call # None /\ call.pc \in pcs

(* The flag in the file. *)
Flag == disk # None /\ disk.restart

(* A call that has read it, or the cache, may have it when the file no       *)
(* longer does: the user can save the file without it in between.          *)
Pending ==
    \/ Flag
    \/ At({"restat", "have", "wrote"}) /\ call.cfg.restart
    \/ cache # None /\ cache.restart

(* Kills to come: by a launch about to kill, by one that has cleared the    *)
(* flag, and by one that is to clear it or will find it.                   *)
Clears  == call # None /\ call.op[1] = "clear"
Cleared == Clears /\ call.pc = "wrote"
Due == (IF app = "killing" THEN 1 ELSE 0) + (IF Cleared THEN 1 ELSE 0)
         + (IF (Clears /\ ~Cleared) \/ Pending THEN 1 ELSE 0)
Paid == kills + Due <= asked + uncleared

(* Settings filed under a stamp are those of the text with that stamp, save *)
(* for the stamps known to be misfiled.                                     *)
Reads(c) == (disk = None \/ disk.ok) /\ c.at = Config(disk).at

Filed ==
    /\ cache # None /\ cache.stamp = stamp /\ stamp \notin misfiled => Reads(cache)
    /\ At({"restat", "have"}) /\ call.read = stamp /\ stamp \notin misfiled => Reads(call.cfg)
    /\ At({"quarantine", "restat"}) /\ call.stat = stamp /\ stamp # 0 => call.read = stamp
    /\ At({"wrote"}) /\ call.stat = stamp => Reads(call.cfg)

IInv == Types /\ Paid /\ Filed

-----------------------------------------------------------------------------
(* What the operators return.                                              *)

(* The settings of an absent file and of a file's text are settings, and   *)
(* are the text's own.                                                     *)
LEMMA ConfigType ==
    /\ Defaults \in Cfg
    /\ Config(None) = Defaults
    /\ \A d \in Texts : /\ Config(d) \in Cfg /\ d # None
                        /\ Config(d).at = d.at /\ Config(d).restart = d.restart
<1>1. Defaults \in Cfg
  BY DEF Defaults, Cfg
<1>2. \A d \in Texts : d # None
  BY NoneAssumption
<1>3. \A d \in Texts : Config(d) \in Cfg /\ Config(d).at = d.at /\ Config(d).restart = d.restart
  BY <1>2 DEF Config, Cfg, Texts
<1> QED
  BY <1>1, <1>2, <1>3 DEF Config

(* A text made of settings is a text with those settings.                  *)
LEMMA TextType ==
    ASSUME NEW ok \in BOOLEAN, NEW cfg \in Cfg
    PROVE  /\ Text(ok, cfg) \in Texts
           /\ Text(ok, cfg).ok = ok /\ Text(ok, cfg).at = cfg.at /\ Text(ok, cfg).restart = cfg.restart
BY DEF Text, Texts, Cfg

(* A writer changes one group, or the flag, of the settings it read.       *)
LEMMA EditedType ==
    ASSUME NEW op \in Ops, Writes(op), NEW cfg \in Cfg, used.sets \in Nat
    PROVE  /\ Edited(op, cfg) \in Cfg
           /\ \A g \in Groups : Edited(op, cfg).at[g] # cfg.at[g] => op = <<"set", g>>
           /\ op[1] = "set" => Edited(op, cfg).restart = cfg.restart
           /\ op[1] = "accept" => Edited(op, cfg).restart
           /\ op[1] = "clear" => ~Edited(op, cfg).restart
<1>1. CASE op[1] = "set"
  <2>1. op[2] \in Groups /\ op = <<"set", op[2]>>
    BY <1>1 DEF Ops
  <2>2. Edited(op, cfg) = [cfg EXCEPT !.at[op[2]] = used.sets]
    BY <1>1 DEF Edited
  <2> QED
    BY <1>1, <2>1, <2>2 DEF Cfg
<1>2. CASE op[1] = "accept"
  <2>1. Edited(op, cfg) = [cfg EXCEPT !.restart = TRUE]
    BY <1>2 DEF Edited
  <2> QED
    BY <1>2, <2>1 DEF Cfg
<1>3. CASE op[1] = "clear"
  <2>1. Edited(op, cfg) = [cfg EXCEPT !.restart = FALSE]
    BY <1>3 DEF Edited
  <2> QED
    BY <1>3, <2>1 DEF Cfg
<1> QED
  BY <1>1, <1>2, <1>3 DEF Writes

(* What a call caches after its rename: its settings, under the stamp the  *)
(* file has by then.                                                       *)
LEMMA FillAfterType ==
    ASSUME Types, call # None
    PROVE  /\ FillAfter(call) \in Entries \cup {None}
           /\ FillAfter(call) # None =>
                /\ stamp # 0
                /\ FillAfter(call).stamp = stamp
                /\ FillAfter(call).at = call.cfg.at
                /\ FillAfter(call).restart = call.cfg.restart
BY NoneAssumption DEF FillAfter, Types, Entries, Tasks, Cfg

(* What a call caches after its parse: its settings, under the stamp the   *)
(* file had before, if it has it still.                                    *)
LEMMA FillType ==
    ASSUME Types, call # None
    PROVE  /\ Fill(call) \in Entries \cup {None}
           /\ Fill(call) # None =>
                /\ stamp # 0 /\ call.stat = stamp
                /\ Fill(call).stamp = stamp
                /\ Fill(call).at = call.cfg.at
                /\ Fill(call).restart = call.cfg.restart
BY NoneAssumption DEF Fill, Types, Entries, Tasks, Cfg

(* A new text, or none, gets a stamp of its own.                           *)
LEMMA PutType ==
    ASSUME Types, NEW d \in Texts \cup {None}, Put(d)
    PROVE  /\ disk' = d /\ disk' \in Texts \cup {None}
           /\ stamp' \in Nat /\ stamps' \in Nat /\ stamps' = stamps + 1
           /\ (disk' = None) = (stamp' = 0) /\ stamp' <= stamps'
           /\ d # None => stamp' = stamps + 1
           /\ d = None => stamp' = 0
BY NoneAssumption DEF Put, Types

-----------------------------------------------------------------------------
(* Every action keeps the types.                                           *)

(* A command enters with a task of its own.                                *)
LEMMA CommandTypes ==
    ASSUME Types, Command
    PROVE  Types'
<1>1. PICK op \in Ops, ro \in BOOLEAN : op[1] \in {"set", "get", "accept"} /\ Enter(op, ro)
  BY DEF Command
<1>2. call' \in Tasks /\ call'.stat = 0 /\ call'.read = 0
  BY <1>1, ConfigType DEF Enter, Tasks, Pcs
<1>3. used' \in [edits : Nat, sets : Nat, launches : Nat, faults : Nat]
  <2> DEFINE n == IF op[1] \in {"set", "accept"} THEN 1 ELSE 0
             m == IF ro THEN 1 ELSE 0
  <2>1. n \in Nat /\ m \in Nat
    OBVIOUS
  <2>2. used' = [used EXCEPT !.sets = used.sets + n, !.faults = used.faults + m]
    BY <1>1 DEF Enter
  <2> HIDE DEF n, m
  <2>3. used \in [edits : Nat, sets : Nat, launches : Nat, faults : Nat]
    BY DEF Types
  <2>4. used.sets + n \in Nat /\ used.faults + m \in Nat
    BY <2>1, <2>3
  <2> QED
    BY <2>2, <2>3, <2>4
<1>4. app = "up" /\ app' = app
  BY DEF Command
<1> QED
  BY <1>2, <1>3, <1>4 DEF Command, Types

(* A look at the file's stamp answers from the cache or goes on to parse.  *)
LEMMA StatTypes ==
    ASSUME Types, Stat
    PROVE  Types'
<1>0. call \in Tasks /\ call # None
  BY DEF Stat, Types
<1>1. cache' = cache \/ cache' = None
  BY DEF Stat
<1>2. call' \in Tasks /\ call'.stat <= stamps /\ call'.read <= stamps
  <2>1. CASE stamp = 0
    BY <1>0, <2>1 DEF Stat, Types, Tasks, Pcs
  <2>2. CASE stamp # 0 /\ cache # None /\ cache.stamp = stamp
    <3>1. cache \in Entries
      BY <2>2 DEF Types
    <3>2. [at |-> cache.at, restart |-> cache.restart] \in Cfg
      BY <3>1 DEF Entries, Cfg
    <3> DEFINE cfg == [at |-> cache.at, restart |-> cache.restart]
    <3>3. call' = [call EXCEPT !.pc = "have", !.read = stamp, !.cfg = cfg]
      BY <2>2 DEF Stat
    <3> HIDE DEF cfg
    <3> QED
      BY <1>0, <3>2, <3>3 DEF Types, Tasks, Pcs, cfg
  <2>3. CASE stamp # 0 /\ ~(cache # None /\ cache.stamp = stamp)
    <3>1. call' = [call EXCEPT !.pc = "parse", !.stat = stamp]
      BY <2>3 DEF Stat
    <3> QED
      BY <1>0, <3>1 DEF Types, Tasks, Pcs
  <2> QED
    BY <2>1, <2>2, <2>3
<1>3. app # "down"
  BY <1>0 DEF Types
<1> QED
  BY <1>1, <1>2, <1>3 DEF Stat, Types

(* A parse reads the file as it is now.                                    *)
LEMMA ParseTypes ==
    ASSUME Types, Parse
    PROVE  Types'
<1>0. call \in Tasks /\ call # None
  BY DEF Parse, Types
<1>1. Config(disk) \in Cfg
  BY ConfigType DEF Types
<1>2. call' \in Tasks /\ call'.stat <= stamps /\ call'.read <= stamps
  BY <1>0, <1>1 DEF Parse, Types, Tasks, Pcs
<1>3. app # "down"
  BY <1>0 DEF Types
<1> QED
  BY <1>2, <1>3 DEF Parse, Types

(* A quarantine leaves no file, or the one it found.                       *)
LEMMA QuarantineTypes ==
    ASSUME Types, Quarantine
    PROVE  Types'
<1>0. call \in Tasks /\ call # None
  BY DEF Quarantine, Types
<1>1. \/ UNCHANGED <<disk, stamp, stamps>>
      \/ disk # None /\ disk' = None /\ stamp' = 0 /\ stamps' = stamps + 1
  BY DEF Quarantine, Put
<1>2. call' \in Tasks /\ call'.stat <= stamps /\ call'.read <= stamps
  <2> DEFINE r == IF call.ro THEN call.read ELSE 0
  <2>1. call' = [call EXCEPT !.pc = "restat", !.cfg = Defaults, !.read = r]
    BY <1>0 DEF Quarantine, Tasks
  <2>2. r \in Nat /\ r <= stamps
    BY <1>0 DEF Types, Tasks
  <2> HIDE DEF r
  <2> QED
    BY <1>0, <2>1, <2>2, ConfigType DEF Types, Tasks, Pcs
<1>3. app # "down"
  BY <1>0 DEF Types
<1>4. UNCHANGED <<cache, app, used, asked, kills, uncleared>>
  BY DEF Quarantine
<1>5. /\ disk' \in Texts \cup {None} /\ stamp' \in Nat /\ stamps' \in Nat
      /\ (disk' = None) = (stamp' = 0) /\ stamp' <= stamps' /\ stamps <= stamps'
  BY <1>1 DEF Types
<1>6. call'.stat \in Nat /\ call'.read \in Nat
  BY <1>2 DEF Tasks
<1>7. cache' # None => cache'.stamp \in Nat /\ cache'.stamp <= stamps'
  BY <1>4, <1>5 DEF Types, Entries
<1>8. call'.stat <= stamps' /\ call'.read <= stamps'
  BY <1>2, <1>5, <1>6 DEF Types
<1> QED
  BY <1>2, <1>3, <1>4, <1>5, <1>7, <1>8 DEF Types

(* A second look at the stamp files the parse or drops the entry.          *)
LEMMA RestatTypes ==
    ASSUME Types, Restat
    PROVE  Types'
<1>0. call \in Tasks /\ call # None
  BY DEF Restat, Types
<1>1. cache' \in Entries \cup {None} /\ (cache' # None => cache'.stamp = stamp)
  BY <1>0, FillType DEF Restat
<1>2. call' \in Tasks /\ call'.stat <= stamps /\ call'.read <= stamps
  BY <1>0 DEF Restat, Types, Tasks, Pcs
<1>3. app # "down"
  BY <1>0 DEF Types
<1> QED
  BY <1>1, <1>2, <1>3 DEF Restat, Types

(* A return ends the call, or turns the look at the flag into its clearing. *)
LEMMA ReturnTypes ==
    ASSUME Types, Return
    PROVE  Types'
<1>0. call \in Tasks /\ call # None
  BY DEF Return, Types
<1>1. cache' = cache \/ cache' = None
  BY DEF Return
<1>2. call' # None => call' \in Tasks /\ call'.stat <= stamps /\ call'.read <= stamps
  <2>1. <<"clear", None>> \in Ops
    BY DEF Ops
  <2>2. call' # None => call' = [call EXCEPT !.op = <<"clear", None>>, !.pc = "between"]
    BY DEF Return
  <2> QED
    BY <1>0, <2>1, <2>2 DEF Types, Tasks, Pcs
<1>3. uncleared' \in Nat
  BY DEF Return, Types
<1>4. app' \in {"booting", "killing", "up"}
  BY <1>0 DEF Return, AfterBoot, Types
<1>5. UNCHANGED <<disk, stamp, stamps, used, asked, kills>>
  BY DEF Return
<1> QED
  BY <1>1, <1>2, <1>3, <1>4, <1>5 DEF Types

(* The clearing call asks for the mutex anew.                              *)
LEMMA AgainTypes ==
    ASSUME Types, Again
    PROVE  Types'
<1>0. call \in Tasks /\ call # None
  BY DEF Again, Types
<1>1. PICK ro \in BOOLEAN :
        /\ used' = [used EXCEPT !.faults = @ + (IF ro THEN 1 ELSE 0)]
        /\ call' = [call EXCEPT !.pc = "stat", !.stat = 0, !.read = 0, !.ro = ro]
  BY DEF Again
<1>2. call' \in Tasks /\ call'.stat = 0 /\ call'.read = 0
  BY <1>0, <1>1 DEF Tasks, Pcs
<1>3. used' \in [edits : Nat, sets : Nat, launches : Nat, faults : Nat]
  BY <1>1 DEF Types
<1>4. app # "down"
  BY <1>0 DEF Types
<1>5. UNCHANGED <<disk, stamp, stamps, cache, app, asked, kills, uncleared>>
  BY DEF Again
<1> QED
  BY <1>2, <1>3, <1>4, <1>5 DEF Types

(* What a rename writes: the settings the call read, save for its own.     *)
LEMMA RenameWrites ==
    ASSUME Types, Rename
    PROVE  LET cfg == Edited(call.op, call.cfg)
           IN /\ call \in Tasks /\ call # None /\ call.pc = "have" /\ Writes(call.op)
              /\ cfg \in Cfg
              /\ disk' \in Texts /\ disk' # None
              /\ disk'.ok /\ disk'.at = cfg.at /\ disk'.restart = cfg.restart
              /\ stamps' = stamps + 1 /\ stamp' = stamps + 1
              /\ call' = [call EXCEPT !.pc = "wrote", !.cfg = cfg, !.stat = stamps + 1]
              /\ call' \in Tasks /\ call' # None
<1> DEFINE cfg == Edited(call.op, call.cfg)
<1>0. call \in Tasks /\ call # None /\ call.pc = "have" /\ Writes(call.op)
  BY DEF Rename, Types
<1>1. cfg \in Cfg
  BY <1>0, EditedType DEF Types, Tasks
<1>2. Put(Text(TRUE, cfg)) /\ call' = [call EXCEPT !.pc = "wrote", !.cfg = cfg, !.stat = stamps + 1]
  BY DEF Rename
<1> HIDE DEF cfg
<1>3. /\ Text(TRUE, cfg) \in Texts /\ Text(TRUE, cfg).ok
      /\ Text(TRUE, cfg).at = cfg.at /\ Text(TRUE, cfg).restart = cfg.restart
  BY <1>1, TextType
<1>4. Text(TRUE, cfg) # None
  BY <1>3, NoneAssumption
<1>5. disk' = Text(TRUE, cfg) /\ stamps' = stamps + 1 /\ stamp' = stamps + 1
  BY <1>2, <1>3, <1>4, PutType
<1>6. call' \in Tasks
  <2>1. stamps + 1 \in Nat
    BY DEF Types
  <2> QED
    BY <1>0, <1>1, <1>2, <2>1 DEF Tasks, Pcs
<1>7. call' # None
  BY <1>6, NoneAssumption
<1> QED
  BY <1>0, <1>1, <1>2, <1>3, <1>4, <1>5, <1>6, <1>7 DEF cfg

(* A rename leaves a text with a stamp of its own.                         *)
LEMMA RenameTypes ==
    ASSUME Types, Rename
    PROVE  Types'
<1>0. /\ call \in Tasks /\ call # None /\ disk' \in Texts /\ disk' # None
      /\ stamps' = stamps + 1 /\ stamp' = stamps + 1
      /\ call' = [call EXCEPT !.pc = "wrote", !.cfg = Edited(call.op, call.cfg), !.stat = stamps + 1]
      /\ call' \in Tasks /\ call' # None
  BY RenameWrites
<1>1. call'.stat = stamps + 1 /\ call'.read = call.read /\ call.read <= stamps /\ call.read \in Nat
  BY <1>0 DEF Tasks, Types
<1>2. asked' \in Nat
  BY DEF Rename, Types
<1>3. app # "down"
  BY <1>0 DEF Types
<1>4. cache' = None /\ UNCHANGED <<app, used, kills, uncleared>>
  BY DEF Rename
<1> QED
  BY <1>0, <1>1, <1>2, <1>3, <1>4 DEF Types

(* The end of a write caches what was written.                             *)
LEMMA WroteTypes ==
    ASSUME Types, Wrote
    PROVE  Types'
<1>0. call \in Tasks /\ call # None
  BY DEF Wrote, Types
<1>1. cache' \in Entries \cup {None} /\ (cache' # None => cache'.stamp = stamp)
  BY <1>0, FillAfterType DEF Wrote
<1>2. app' \in {"booting", "killing", "up"}
  BY <1>0 DEF Wrote, AfterBoot, Types
<1>3. call' = None /\ UNCHANGED <<disk, stamp, stamps, used, asked, kills, uncleared>>
  BY DEF Wrote
<1> QED
  BY <1>1, <1>2, <1>3 DEF Types

(* A launch starts with the look at the flag.                              *)
LEMMA LaunchTypes ==
    ASSUME Types, Launch
    PROVE  Types'
<1>1. <<"peek", None>> \in Ops
  BY DEF Ops
<1>2. call' \in Tasks /\ call'.stat = 0 /\ call'.read = 0
  BY <1>1, ConfigType DEF Launch, Tasks, Pcs
<1>3. used' \in [edits : Nat, sets : Nat, launches : Nat, faults : Nat]
  BY DEF Launch, Count, Types
<1>4. /\ app' = "booting" /\ cache' = None
      /\ UNCHANGED <<disk, stamp, stamps, asked, kills, uncleared>>
  BY DEF Launch
<1> QED
  BY <1>2, <1>3, <1>4 DEF Types

(* The user's save is of a text, whole or broken; one that puts the flag    *)
(* back asks for a restart.                                                *)
LEMMA EditWrites ==
    ASSUME Types, Edit
    PROVE  /\ disk # None /\ disk' \in Texts /\ disk' # None
           /\ asked' \in Nat /\ asked' >= asked
           /\ disk'.restart => disk.restart \/ asked' = asked + 1
           /\ stamps' = stamps + 1 /\ stamp' = stamps + 1
<1> DEFINE cfg(g, r) == [at |-> [disk.at EXCEPT ![g] = -(used.edits + 1)], restart |-> r]
<1>1. PICK g \in Groups, ok \in BOOLEAN, r \in BOOLEAN :
         /\ Put(Text(ok, cfg(g, r)))
         /\ asked' = asked + (IF r /\ ~disk.restart THEN 1 ELSE 0)
  BY DEF Edit
<1>2. disk \in Texts /\ disk # None /\ asked \in Nat
  BY DEF Edit, Types
<1>3. -(used.edits + 1) \in Int
  BY DEF Types
<1>4. cfg(g, r) \in Cfg /\ cfg(g, r).restart = r
  BY <1>2, <1>3 DEF Cfg, Texts
<1>5. PICK c : c = cfg(g, r)
  OBVIOUS
<1>6. Text(ok, c) \in Texts /\ Text(ok, c).restart = r
  BY <1>4, <1>5, TextType
<1>7. Text(ok, c) # None
  BY <1>6, NoneAssumption
<1>8. disk' = Text(ok, c) /\ stamps' = stamps + 1 /\ stamp' = stamps + 1
  BY <1>1, <1>5, <1>6, <1>7, PutType
<1>9. asked' = IF r /\ ~disk.restart THEN asked + 1 ELSE asked
  BY <1>1, <1>2
<1> QED
  BY <1>2, <1>6, <1>7, <1>8, <1>9

(* The user's save leaves a text with a stamp of its own.                  *)
LEMMA EditTypes ==
    ASSUME Types, Edit
    PROVE  Types'
<1>1. /\ disk' \in Texts /\ disk' # None /\ stamps' = stamps + 1 /\ stamp' = stamps + 1
      /\ asked' \in Nat
  BY EditWrites
<1>2. used' \in [edits : Nat, sets : Nat, launches : Nat, faults : Nat]
  BY DEF Edit, Count, Types
<1>3. UNCHANGED <<cache, call, app, kills, uncleared>>
  BY DEF Edit
<1>4. cache' # None => cache'.stamp <= stamps'
  BY <1>1, <1>3 DEF Types, Entries
<1>5. call' # None => call'.stat <= stamps' /\ call'.read <= stamps'
  BY <1>1, <1>3 DEF Types, Tasks
<1> QED
  BY <1>1, <1>2, <1>3, <1>4, <1>5 DEF Types

(* The types hold at first and stay.                                       *)
LEMMA TypesStep ==
    /\ Init => Types
    /\ Types /\ [Next]_vars => Types'
<1>1. ASSUME Init PROVE Types
  <2>1. [Defaults EXCEPT !.restart = TRUE] \in Cfg
    BY ConfigType DEF Cfg
  <2>2. Text(TRUE, [Defaults EXCEPT !.restart = TRUE]) \in Texts
    BY <2>1, TextType
  <2>3. Text(TRUE, [Defaults EXCEPT !.restart = TRUE]) # None
    BY <2>2, NoneAssumption
  <2>4. \/ disk = None /\ stamp = 0 /\ asked = 0
        \/ disk \in Texts /\ disk # None /\ stamp = 1 /\ asked = 1
    BY <1>1, <2>2, <2>3 DEF Init
  <2> QED
    BY <1>1, <2>4 DEF Init, Types
<1>2. ASSUME Types, UNCHANGED vars PROVE Types'
  BY <1>2 DEF Types, vars
<1>3. ASSUME Types, KillServer PROVE Types'
  BY <1>3 DEF Types, KillServer
<1>4. ASSUME Types, Crash PROVE Types'
  BY <1>4 DEF Types, Crash
<1> QED
  BY <1>1, <1>2, <1>3, <1>4, CommandTypes, StatTypes, ParseTypes, QuarantineTypes,
     RestatTypes, ReturnTypes, AgainTypes, RenameTypes, WroteTypes, LaunchTypes, EditTypes DEF Next

-----------------------------------------------------------------------------
(* The kills: each one was asked for, or follows a launch that could not   *)
(* clear the flag.                                                         *)

(* A step that owes no kill more and makes none.                           *)
LEMMA OwesNoMore ==
    ASSUME Types, Paid, UNCHANGED <<kills, uncleared>>, asked' \in Nat, asked' >= asked,
           app' = app \/ app' # "killing", Cleared' => Cleared,
           Clears' /\ ~Cleared' => (Clears /\ ~Cleared) \/ Pending,
           Pending' => Pending \/ asked' >= asked + 1
    PROVE  Paid'
<1> DEFINE Owes == (Clears /\ ~Cleared) \/ Pending
           One(b) == IF b THEN 1 ELSE 0
<1>1. Owes' => Owes \/ asked' >= asked + 1
  OBVIOUS
<1>2. PICK a, b, c : a = One(app = "killing") /\ b = One(Cleared) /\ c = One(Owes)
  OBVIOUS
<1>3. PICK d, e, g : d = One((app = "killing")') /\ e = One(Cleared') /\ g = One(Owes')
  OBVIOUS
<1>4. Due = a + b + c /\ Due' = d + e + g
  BY <1>2, <1>3 DEF Due
<1>5. d <= a /\ e <= b /\ (g <= c \/ (g = 1 /\ c = 0 /\ asked' >= asked + 1))
  BY <1>1, <1>2, <1>3
<1>6. {a, b, c, d, e, g} \subseteq {0, 1}
  BY <1>2, <1>3
<1> HIDE DEF Owes, One
<1> QED
  BY <1>4, <1>5, <1>6 DEF Paid, Types

(* A look at the stamp and a parse find what the cache or the file has; a   *)
(* quarantine finds nothing; the cache is filled with what was found.      *)
LEMMA LookPaid ==
    ASSUME Types, Paid, Stat \/ Parse \/ Quarantine \/ Restat
    PROVE  Paid'
<1>0. /\ call \in Tasks /\ call # None /\ call.pc \in {"stat", "parse", "quarantine", "restat"}
      /\ UNCHANGED <<kills, asked, uncleared, app>>
  BY DEF Stat, Parse, Quarantine, Restat, Types
<1>1. ASSUME call'.op = call.op, call'.pc # "wrote", Pending' => Pending
      PROVE  Paid'
  BY <1>0, <1>1, OwesNoMore DEF Clears, Cleared, Types
<1>2. CASE Stat /\ stamp # 0 /\ cache # None /\ cache.stamp = stamp
  <2> DEFINE cfg == [at |-> cache.at, restart |-> cache.restart]
  <2>1. call' = [call EXCEPT !.pc = "have", !.read = stamp, !.cfg = cfg] /\ UNCHANGED <<cache, disk>>
    BY <1>2 DEF Stat
  <2>2. cfg.restart = cache.restart
    OBVIOUS
  <2> HIDE DEF cfg
  <2>3. call'.op = call.op /\ call'.pc = "have" /\ call'.cfg = cfg
    BY <1>0, <1>2, <2>1 DEF Tasks
  <2> QED
    BY <1>1, <1>2, <2>1, <2>2, <2>3 DEF Pending, At, Flag
<1>3. CASE Stat /\ ~(stamp # 0 /\ cache # None /\ cache.stamp = stamp)
  <2>1. /\ call' = [call EXCEPT !.pc = "parse"] \/ call' = [call EXCEPT !.pc = "parse", !.stat = stamp]
        /\ cache' = cache \/ cache' = None
        /\ disk' = disk
    BY <1>3 DEF Stat
  <2>2. call'.op = call.op /\ call'.pc = "parse"
    BY <1>0, <2>1 DEF Tasks
  <2> QED
    BY <1>1, <2>1, <2>2 DEF Pending, At, Flag
<1>4. CASE Parse /\ disk # None /\ ~disk.ok
  <2>1. call' = [call EXCEPT !.pc = "quarantine", !.read = stamp] /\ UNCHANGED <<disk, cache>>
    BY <1>4 DEF Parse
  <2>2. call'.op = call.op /\ call'.pc = "quarantine"
    BY <1>0, <2>1 DEF Tasks
  <2> QED
    BY <1>1, <2>1, <2>2 DEF Pending, At, Flag
<1>5. CASE Parse /\ ~(disk # None /\ ~disk.ok)
  <2>1. /\ call' = [call EXCEPT !.pc = "restat", !.read = stamp, !.cfg = Config(disk)]
        /\ UNCHANGED <<disk, cache>>
    BY <1>5 DEF Parse
  <2>2. call'.op = call.op /\ call'.pc = "restat" /\ call'.cfg = Config(disk)
    BY <1>0, <2>1 DEF Tasks
  <2>3. Config(disk).restart => Flag
    BY ConfigType DEF Types, Flag, Defaults
  <2> QED
    BY <1>1, <2>1, <2>2, <2>3 DEF Pending, At, Flag
<1>6. CASE Quarantine
  <2>1. /\ call' = [call EXCEPT !.pc = "restat", !.cfg = Defaults,
                                !.read = IF call.ro THEN @ ELSE 0]
        /\ disk' = disk \/ disk' = None
        /\ cache' = cache
    BY <1>6 DEF Quarantine, Put
  <2>2. call'.op = call.op /\ call'.pc = "restat" /\ call'.cfg = Defaults
    BY <1>0, <2>1 DEF Tasks
  <2> QED
    BY <1>1, <2>1, <2>2 DEF Pending, At, Flag, Defaults
<1>7. CASE Restat
  <2>1. call.pc = "restat" /\ call' = [call EXCEPT !.pc = "have"] /\ disk' = disk /\ cache' = Fill(call)
    BY <1>7 DEF Restat
  <2>2. call'.op = call.op /\ call'.pc = "have" /\ call'.cfg = call.cfg
    BY <1>0, <2>1 DEF Tasks
  <2>3. cache' # None => cache'.restart = call.cfg.restart
    BY <1>0, <2>1, FillType
  <2> QED
    BY <1>0, <1>1, <2>1, <2>2, <2>3 DEF Pending, At, Flag
<1> QED
  BY <1>2, <1>3, <1>4, <1>5, <1>6, <1>7

(* A return that finds the flag owes the clearing instead; one that could  *)
(* not clear it owes a kill, and is counted.                               *)
LEMMA ReturnPaid ==
    ASSUME Types, Paid, Return
    PROVE  Paid'
<1>0. /\ call \in Tasks /\ call # None /\ call.pc = "have"
      /\ UNCHANGED <<kills, asked>> /\ disk' = disk /\ (cache' = cache \/ cache' = None)
      /\ call' = None \/ call' = [call EXCEPT !.op = <<"clear", None>>, !.pc = "between"]
  BY DEF Return, Types
<1>1. call' # None => call'.pc = "between"
  BY <1>0 DEF Tasks
<1>2. Pending' => Pending
  BY <1>0, <1>1 DEF Pending, At, Flag
<1>3. ~Cleared' /\ ~Cleared
  BY <1>0, <1>1 DEF Cleared, Clears
<1>4. CASE call.op[1] = "clear"
  <2>1. app' = "killing" /\ uncleared' = uncleared + 1 /\ call' = None
    BY <1>4 DEF Return, AfterBoot
  <2>2. Clears /\ ~Clears'
    BY <1>0, <1>4, <2>1 DEF Clears
  <2> QED
    BY <1>0, <1>2, <1>3, <2>1, <2>2 DEF Paid, Due, Types
<1>5. CASE call.op[1] # "clear"
  <2>1. uncleared' = uncleared
    BY <1>5 DEF Return, Types
  <2>2. app' = app \/ app' # "killing"
    BY <1>5 DEF Return, AfterBoot
  <2>3. Clears' => Pending
    BY <1>0 DEF Return, Clears, Pending, At
  <2> QED
    BY <1>0, <1>2, <1>3, <2>1, <2>2, <2>3, OwesNoMore DEF Types
<1> QED
  BY <1>4, <1>5

(* A rename sets the flag only for a restart it counts.                    *)
LEMMA RenamePaid ==
    ASSUME Types, Paid, Rename
    PROVE  Paid'
<1> DEFINE cfg == Edited(call.op, call.cfg)
<1>0. /\ call \in Tasks /\ call # None /\ call.pc = "have" /\ Writes(call.op)
      /\ disk' # None /\ disk'.restart = cfg.restart
      /\ call' = [call EXCEPT !.pc = "wrote", !.cfg = cfg, !.stat = stamps + 1] /\ call' # None
  BY RenameWrites
<1>1. /\ call.op[1] = "set" => cfg.restart = call.cfg.restart
      /\ call.op[1] = "clear" => ~cfg.restart
  BY <1>0, EditedType DEF Types, Tasks
<1> HIDE DEF cfg
<1>2. call'.op = call.op /\ call'.pc = "wrote" /\ call'.cfg = cfg
  BY <1>0 DEF Tasks
<1>3. UNCHANGED <<app, kills, uncleared>> /\ cache' = None
  BY DEF Rename
<1>4. Pending' => cfg.restart
  BY <1>0, <1>2, <1>3 DEF Pending, At, Flag
<1>5. CASE call.op[1] = "accept"
  <2>1. asked' = asked + 1
    BY <1>5 DEF Rename
  <2>2. ~Clears /\ ~Clears'
    BY <1>0, <1>2, <1>5 DEF Clears
  <2> QED
    BY <1>3, <2>1, <2>2, OwesNoMore DEF Cleared, Types
<1>6. CASE call.op[1] = "clear"
  <2>1. asked' = asked
    BY <1>6 DEF Rename, Types
  <2>2. Clears /\ ~Cleared /\ Cleared' /\ ~Pending'
    BY <1>0, <1>1, <1>2, <1>4, <1>6 DEF Clears, Cleared
  <2> QED
    BY <1>3, <2>1, <2>2 DEF Paid, Due, Types
<1>7. CASE call.op[1] = "set"
  <2>1. asked' = asked
    BY <1>7 DEF Rename, Types
  <2>2. ~Clears'
    BY <1>2, <1>7 DEF Clears
  <2>3. Pending' => Pending
    BY <1>0, <1>1, <1>4, <1>7 DEF Pending, At
  <2> QED
    BY <1>3, <2>1, <2>2, <2>3, OwesNoMore DEF Cleared, Types
<1> QED
  BY <1>0, <1>5, <1>6, <1>7 DEF Writes

(* The clearing that has landed owes the kill it was for.                  *)
LEMMA WrotePaid ==
    ASSUME Types, Paid, Wrote
    PROVE  Paid'
<1>0. /\ call # None /\ call.pc = "wrote" /\ call' = None /\ disk' = disk
      /\ UNCHANGED <<kills, asked, uncleared>> /\ app' = AfterBoot(call.op)
      /\ cache' = FillAfter(call)
  BY DEF Wrote
<1>1. cache' # None => cache'.restart = call.cfg.restart
  BY <1>0, FillAfterType
<1>2. Pending' => Pending
  BY <1>0, <1>1 DEF Pending, At, Flag
<1>3. ~Clears' /\ ~Cleared'
  BY <1>0 DEF Clears, Cleared
<1>4. CASE call.op[1] = "clear"
  <2>1. Cleared
    BY <1>0, <1>4 DEF Clears, Cleared
  <2>2. app' = "killing"
    BY <1>0, <1>4 DEF AfterBoot
  <2> QED
    BY <1>0, <1>2, <1>3, <2>1, <2>2 DEF Paid, Due, Types
<1>5. CASE call.op[1] # "clear"
  <2>1. app' = app \/ app' # "killing"
    BY <1>0, <1>5 DEF AfterBoot
  <2> QED
    BY <1>0, <1>2, <1>3, <2>1, OwesNoMore DEF Types
<1> QED
  BY <1>4, <1>5

(* A kill pays what it was owed.                                           *)
LEMMA KillPaid ==
    ASSUME Types, Paid, KillServer
    PROVE  Paid'
<1>1. /\ app = "killing" /\ app' = "up" /\ kills' = kills + 1
      /\ UNCHANGED <<asked, uncleared, call, disk, cache>>
  BY DEF KillServer
<1>2. Clears' = Clears /\ Cleared' = Cleared /\ Pending' = Pending
  BY <1>1 DEF Clears, Cleared, Pending, At, Flag
<1> QED
  BY <1>1, <1>2 DEF Paid, Due, Types

(* A save of the user's that puts the flag back is counted.                *)
LEMMA EditPaid ==
    ASSUME Types, Paid, Edit
    PROVE  Paid'
<1>1. UNCHANGED <<cache, call, app, kills, uncleared>>
  BY DEF Edit
<1>2. Clears' = Clears /\ Cleared' = Cleared
  BY <1>1 DEF Clears, Cleared
<1>3. Pending' => Pending \/ asked' >= asked + 1
  <2>1. Flag' => Flag \/ asked' >= asked + 1
    BY EditWrites DEF Flag, Types
  <2> QED
    BY <1>1, <2>1 DEF Pending, At
<1> QED
  BY <1>1, <1>2, <1>3, EditWrites, OwesNoMore

(* What is owed is covered, at first and always.                           *)
LEMMA PaidStep ==
    /\ Init => Paid
    /\ Types /\ Paid /\ [Next]_vars => Paid'
<1>1. ASSUME Init PROVE Paid
  <2>1. asked = (IF Flag THEN 1 ELSE 0) \/ asked = 1
    BY <1>1 DEF Init, Flag
  <2>2. /\ ~Clears /\ ~Cleared /\ app = "down" /\ kills = 0 /\ uncleared = 0
        /\ Pending = Flag
    BY <1>1 DEF Init, Clears, Cleared, Pending, At, Flag
  <2> QED
    BY <2>1, <2>2 DEF Paid, Due
<1> SUFFICES ASSUME Types, Paid, [Next]_vars
             PROVE  Paid'
  BY <1>1
<1>2. ASSUME UNCHANGED <<kills, asked, uncleared>>, disk' = disk, cache' = cache \/ cache' = None,
             app' = app \/ app' # "killing",
             call' # None => call' = call \/ (call'.pc = "stat" /\ (Clears' => Clears /\ ~Cleared))
      PROVE  Paid'
  <2>1. Pending' => Pending
    BY <1>2 DEF Pending, At, Flag
  <2>2. /\ Cleared' => Cleared
        /\ Clears' /\ ~Cleared' => Clears /\ ~Cleared
    BY <1>2 DEF Clears, Cleared
  <2> QED
    BY <1>2, <2>1, <2>2, OwesNoMore DEF Types
<1>3. CASE UNCHANGED vars
  BY <1>2, <1>3 DEF vars
<1>4. CASE Command
  <2>1. call'.pc = "stat" /\ ~Clears' /\ disk' = disk
    BY <1>4 DEF Command, Enter, Clears
  <2> QED
    BY <1>2, <1>4, <2>1 DEF Command
<1>5. CASE Launch
  <2>1. call'.pc = "stat" /\ ~Clears' /\ disk' = disk
    BY <1>5 DEF Launch, Clears
  <2> QED
    BY <1>2, <1>5, <2>1 DEF Launch
<1>6. CASE Crash
  BY <1>2, <1>6 DEF Crash
<1>7. CASE Again
  <2>1. call \in Tasks /\ call # None /\ call.pc = "between"
    BY <1>7 DEF Again, Types
  <2>2. call'.pc = "stat" /\ call'.op = call.op
    BY <1>7, <2>1 DEF Again, Tasks
  <2> QED
    BY <1>2, <1>7, <2>1, <2>2 DEF Again, Clears, Cleared
<1> QED
  BY <1>3, <1>4, <1>5, <1>6, <1>7, LookPaid, ReturnPaid, RenamePaid, WrotePaid, KillPaid, EditPaid
     DEF Next

-----------------------------------------------------------------------------
(* The settings: filed under a stamp are those of the text with that stamp. *)

(* A step that moves neither file nor call and at most empties the cache.  *)
LEMMA FiledStays ==
    ASSUME Filed, disk' = disk, stamp' = stamp, misfiled \subseteq misfiled',
           cache' = cache \/ cache' = None,
           call' = call \/ call' = None \/ (call' # None /\ call'.pc \in {"stat", "parse", "between"})
    PROVE  Filed'
BY DEF Filed, Reads, Config, Defaults, At

(* A look at the stamp takes from the cache what is filed there.           *)
LEMMA StatFiled ==
    ASSUME Types, Filed, Stat
    PROVE  Filed'
<1>0. call \in Tasks /\ call # None /\ UNCHANGED <<disk, stamp, misfiled>>
  BY DEF Stat, Types
<1>1. CASE stamp # 0 /\ cache # None /\ cache.stamp = stamp
  <2> DEFINE cfg == [at |-> cache.at, restart |-> cache.restart]
  <2>1. call' = [call EXCEPT !.pc = "have", !.read = stamp, !.cfg = cfg] /\ UNCHANGED cache
    BY <1>1 DEF Stat
  <2>2. cfg.at = cache.at
    OBVIOUS
  <2> HIDE DEF cfg
  <2>3. call'.pc = "have" /\ call'.cfg = cfg
    BY <1>0, <2>1 DEF Tasks
  <2> QED
    BY <1>0, <1>1, <2>1, <2>2, <2>3 DEF Filed, Reads, Config, Defaults, At
<1>2. CASE ~(stamp # 0 /\ cache # None /\ cache.stamp = stamp)
  <2>1. call'.pc = "parse" /\ (cache' = cache \/ cache' = None)
    BY <1>0, <1>2 DEF Stat, Tasks
  <2> QED
    BY <1>0, <2>1, FiledStays
<1> QED
  BY <1>1, <1>2

(* A parse takes the text's settings and remembers its stamp.              *)
LEMMA ParseFiled ==
    ASSUME Types, Filed, Parse
    PROVE  Filed'
<1>0. call \in Tasks /\ call # None /\ UNCHANGED <<disk, stamp, cache, misfiled>>
  BY DEF Parse, Types
<1>1. call'.read = stamp /\ call'.pc \in {"quarantine", "restat"}
  BY <1>0 DEF Parse, Tasks
<1>2. call'.pc = "restat" => (disk = None \/ disk.ok) /\ call'.cfg = Config(disk)
  BY <1>0 DEF Parse, Tasks
<1> QED
  BY <1>0, <1>1, <1>2 DEF Filed, Reads, Config, Defaults, At

(* A quarantine that fails is noted as misfiled; after one that does not   *)
(* the file is gone, and the defaults are what there is.                   *)
LEMMA QuarantineFiled ==
    ASSUME Types, Filed, Quarantine
    PROVE  Filed'
<1>0. call \in Tasks /\ call # None /\ call.pc = "quarantine" /\ cache' = cache
  BY DEF Quarantine, Types
<1>1. call'.pc = "restat" /\ call'.cfg = Defaults /\ call'.stat = call.stat
  BY <1>0 DEF Quarantine, Tasks
<1>2. CASE call.ro
  <2>1. /\ UNCHANGED <<disk, stamp>> /\ stamp \in misfiled' /\ misfiled \subseteq misfiled'
        /\ call'.read = call.read
    BY <1>0, <1>2 DEF Quarantine, Tasks
  <2> QED
    BY <1>0, <1>1, <2>1 DEF Filed, Reads, Config, Defaults, At
<1>3. CASE ~call.ro
  <2>1. disk' = None /\ stamp' = 0
    BY <1>3 DEF Quarantine, Put, Types
  <2>2. cache # None => cache.stamp # 0
    BY DEF Types, Entries
  <2> QED
    BY <1>0, <1>1, <2>1, <2>2 DEF Filed, Reads, Config, Defaults, At
<1> QED
  BY <1>2, <1>3

(* The parse is filed only under the stamp it was read at.                 *)
LEMMA RestatFiled ==
    ASSUME Types, Filed, Restat
    PROVE  Filed'
<1>0. /\ call \in Tasks /\ call # None /\ call.pc = "restat"
      /\ UNCHANGED <<disk, stamp, misfiled>>
  BY DEF Restat, Types
<1>1. call'.pc = "have" /\ call'.cfg = call.cfg /\ call'.read = call.read
  BY <1>0 DEF Restat, Tasks
<1>2. cache' # None => /\ stamp # 0 /\ call.stat = stamp
                       /\ cache'.stamp = stamp /\ cache'.at = call.cfg.at
  BY <1>0, FillType DEF Restat
<1> QED
  BY <1>0, <1>1, <1>2 DEF Filed, Reads, Config, Defaults, At

(* After a rename the file has what the call wrote.                        *)
LEMMA RenameFiled ==
    ASSUME Types, Filed, Rename
    PROVE  Filed'
<1> DEFINE cfg == Edited(call.op, call.cfg)
<1>0. /\ call \in Tasks /\ call # None
      /\ disk' \in Texts /\ disk' # None /\ disk'.ok /\ disk'.at = cfg.at
      /\ call' = [call EXCEPT !.pc = "wrote", !.cfg = cfg, !.stat = stamps + 1]
  BY RenameWrites
<1> HIDE DEF cfg
<1>1. call'.pc = "wrote" /\ call'.cfg = cfg
  BY <1>0 DEF Tasks
<1>2. cache' = None
  BY DEF Rename
<1> QED
  BY <1>0, <1>1, <1>2 DEF Filed, Reads, Config, Defaults, At

(* The end of a write files what it wrote, or notes it as misfiled.        *)
LEMMA WroteFiled ==
    ASSUME Types, Filed, Wrote
    PROVE  Filed'
<1>0. /\ call # None /\ call.pc = "wrote" /\ call' = None /\ UNCHANGED <<disk, stamp>>
      /\ cache' = FillAfter(call)
      /\ call.stat # stamp => stamp \in misfiled'
  BY DEF Wrote
<1>1. cache' # None => cache'.at = call.cfg.at
  BY <1>0, FillAfterType
<1> QED
  BY <1>0, <1>1 DEF Filed, Reads, Config, Defaults, At

(* The user's save gets a stamp that nothing is filed under or read at.    *)
LEMMA EditFiled ==
    ASSUME Types, Filed, Edit
    PROVE  Filed'
<1>1. stamp' = stamps + 1 /\ UNCHANGED <<cache, call>>
  BY EditWrites DEF Edit
<1>2. cache # None => cache.stamp # stamps + 1
  BY DEF Types, Entries
<1>3. call # None => call.read # stamps + 1 /\ call.stat # stamps + 1
  BY DEF Types, Tasks
<1> QED
  BY <1>1, <1>2, <1>3 DEF Filed, At

(* What is filed is the text's own, at first and always.                   *)
LEMMA FiledStep ==
    /\ Init => Filed
    /\ Types /\ Filed /\ [Next]_vars => Filed'
<1>1. Init => Filed
  BY DEF Init, Filed, At
<1> SUFFICES ASSUME Types, Filed, [Next]_vars
             PROVE  Filed'
  BY <1>1
<1>2. CASE UNCHANGED vars
  BY <1>2, FiledStays DEF vars
<1>3. CASE Command
  <2>1. call' # None => call'.pc = "stat"
    BY <1>3 DEF Command, Enter
  <2> QED
    BY <1>3, <2>1, FiledStays DEF Command
<1>4. CASE Launch
  <2>1. call' # None => call'.pc = "stat"
    BY <1>4 DEF Launch
  <2> QED
    BY <1>4, <2>1, FiledStays DEF Launch
<1>5. CASE KillServer
  BY <1>5, FiledStays DEF KillServer
<1>6. CASE Crash
  BY <1>6, FiledStays DEF Crash
<1>7. CASE Again
  <2>1. call' # None => call'.pc = "stat"
    BY <1>7 DEF Again, Types, Tasks
  <2> QED
    BY <1>7, <2>1, FiledStays DEF Again
<1>8. CASE Return
  <2>1. call' # None => call'.pc = "between"
    BY <1>8 DEF Return, Types, Tasks
  <2> QED
    BY <1>8, <2>1, FiledStays DEF Return
<1> QED
  BY <1>2, <1>3, <1>4, <1>5, <1>6, <1>7, <1>8, StatFiled, ParseFiled, QuarantineFiled,
     RestatFiled, RenameFiled, WroteFiled, EditFiled DEF Next

(* The invariant holds at first ...                                        *)
LEMMA SettingsInit == Init => IInv
BY TypesStep, PaidStep, FiledStep DEF IInv

(* ... and is kept by every step.                                          *)
LEMMA SettingsStep == IInv /\ [Next]_vars => IInv'
BY TypesStep, PaidStep, FiledStep DEF IInv

(* A kill that is due has been asked for.                                  *)
LEMMA KillsPaid == IInv => KillsWereAsked
<1> SUFFICES ASSUME IInv PROVE KillsWereAsked
  OBVIOUS
<1>1. Due \in Nat
  BY DEF Due
<1> QED
  BY <1>1 DEF IInv, Paid, Types, KillsWereAsked

(* No step takes a setting that was not its own.                           *)
LEMMA SettersKeep == IInv /\ Next => KeepsSettings
<1> SUFFICES ASSUME IInv, Next
             PROVE  KeepsSettings
  OBVIOUS
<1>1. CASE Rename
  <2> DEFINE cfg == Edited(call.op, call.cfg)
  <2> SUFFICES ASSUME ~Crossed
               PROVE  /\ disk = None \/ disk.ok
                      /\ \A g \in Groups :
                           Config(disk').at[g] # Config(disk).at[g] => call.op = <<"set", g>>
    BY DEF KeepsSettings
  <2>0. Types
    BY DEF IInv
  <2>1. /\ call \in Tasks /\ call # None /\ call.pc = "have" /\ Writes(call.op)
        /\ disk' \in Texts /\ disk' # None /\ disk'.at = cfg.at
    BY <1>1, <2>0, RenameWrites
  <2>2. (disk = None \/ disk.ok) /\ call.cfg.at = Config(disk).at
    BY <2>1 DEF Crossed, IInv, Filed, At, Reads
  <2>3. \A g \in Groups : cfg.at[g] # call.cfg.at[g] => call.op = <<"set", g>>
    BY <2>1, EditedType DEF IInv, Types, Tasks
  <2>4. Config(disk').at = cfg.at
    BY <2>1 DEF Config
  <2> QED
    BY <2>2, <2>3, <2>4
<1>2. CASE Quarantine
  BY <1>2 DEF Quarantine, KeepsSettings
<1>3. CASE Edit
  <2>1. used'.edits # used.edits
    BY <1>3 DEF Edit, Count, IInv, Types
  <2> QED
    BY <2>1 DEF KeepsSettings
<1>4. CASE ~(Rename \/ Quarantine \/ Edit)
  <2>1. disk' = disk
    BY <1>4 DEF Next, Command, Launch, KillServer, Crash, Stat, Parse, Restat, Return, Again, Wrote
  <2> QED
    BY <2>1 DEF KeepsSettings
<1> QED
  BY <1>1, <1>2, <1>3, <1>4

-----------------------------------------------------------------------------
(* PaneResize.                                                             *)

(* A larger size, side by side, is a size and larger than both. *)
LEMMA CoverIsLarger ==
    ASSUME NEW a \in Pane!Size, NEW b \in Pane!Size
    PROVE  /\ Pane!Cover(a, b) \in Pane!Size
           /\ Pane!Within(a, Pane!Cover(a, b)) /\ Pane!Within(b, Pane!Cover(a, b))
<1>1. a.c \in Nat /\ a.r \in Nat /\ b.c \in Nat /\ b.r \in Nat
  BY PaneAssumption DEF Pane!Size
<1>2. a.c \in Sides /\ a.r \in Sides /\ b.c \in Sides /\ b.r \in Sides
  BY DEF Pane!Size
<1>3. Pane!Larger(a.c, b.c) \in Sides /\ Pane!Larger(a.c, b.c) >= a.c /\ Pane!Larger(a.c, b.c) >= b.c
  BY <1>1, <1>2 DEF Pane!Larger
<1>4. Pane!Larger(a.r, b.r) \in Sides /\ Pane!Larger(a.r, b.r) >= a.r /\ Pane!Larger(a.r, b.r) >= b.r
  BY <1>1, <1>2 DEF Pane!Larger
<1>5. \A m, n \in Sides : [c |-> m, r |-> n] \in Pane!Size
  BY DEF Pane!Size
<1>6. Pane!Cover(a, b) \in Pane!Size
  BY <1>3, <1>4, <1>5 DEF Pane!Cover
<1>7. Pane!Cover(a, b).c = Pane!Larger(a.c, b.c) /\ Pane!Cover(a, b).r = Pane!Larger(a.r, b.r)
  BY DEF Pane!Cover
<1>8. a.c <= Pane!Larger(a.c, b.c) /\ a.r <= Pane!Larger(a.r, b.r)
      /\ b.c <= Pane!Larger(a.c, b.c) /\ b.r <= Pane!Larger(a.r, b.r)
  BY <1>1, <1>3, <1>4 DEF Pane!Larger
<1>9. QED
  BY <1>6, <1>7, <1>8 DEF Pane!Within

(* Within is an order on sizes. *)
LEMMA WithinIsOrder ==
    ASSUME NEW a \in Pane!Size, NEW b \in Pane!Size, NEW c \in Pane!Size
    PROVE  /\ Pane!Within(a, a)
           /\ Pane!Within(a, b) /\ Pane!Within(b, c) => Pane!Within(a, c)
<1>1. /\ a.c \in Nat /\ a.r \in Nat /\ b.c \in Nat /\ b.r \in Nat
      /\ c.c \in Nat /\ c.r \in Nat
  BY PaneAssumption DEF Pane!Size
<1>2. QED
  BY <1>1 DEF Pane!Within

(* A plan is a sequence of calls. *)
LEMMA PlanType ==
    ASSUME NEW a \in Pane!Size, NEW b \in Pane!Size
    PROVE  Pane!Plan(a, b) \in Seq(Pane!Call)
<1>1. Pane!Cover(b, a) \in Pane!Size
  BY CoverIsLarger
<1>2. \A s \in Pane!Size : Pane!Win(s) \in Pane!Call /\ Pane!View(s) \in Pane!Call
  BY DEF Pane!Win, Pane!View, Pane!Call
<1>3. QED
  BY <1>1, <1>2 DEF Pane!Plan

-----------------------------------------------------------------------------
(* The sizes, the calls in flight and the lock have their types; a reattach *)
(* under way has not used up the bound.                                     *)
PaneTypes == Pane!TypeOK /\ (reopen \in {"detached", "synced"} => client < Reopens)

(* A resize that runs has a plan, one that waits or is over has none. *)
LEMMA DragType ==
    ASSUME Pane!TypeOK, NEW d \in Drags
    PROVE  /\ Pane!Dragging(d) => drag[d] \in Pane!Running
           /\ ~Pane!Dragging(d) => drag[d] \in {Pane!Waiting, Pane!Over}
BY DEF Pane!TypeOK, Pane!Dragging, Pane!Waiting, Pane!Over, Pane!Running

\* The types at the start.
LEMMA PaneTypesInit == Pane!Init => PaneTypes
<1> SUFFICES ASSUME Pane!Init PROVE PaneTypes
  OBVIOUS
<1>1. window \in Pane!Size /\ viewport \in Pane!Size /\ known \in Pane!Size
  BY DEF Pane!Init
<1>2. drag \in [Drags -> {Pane!Waiting, Pane!Over} \cup Pane!Running]
  BY DEF Pane!Init
<1>3. bridge \in 0..Reopens /\ client \in 0..Reopens
  BY PaneAssumption DEF Pane!Init
<1>4. QED
  BY <1>1, <1>2, <1>3 DEF Pane!Init, Pane!TypeOK, PaneTypes

\* Every step of a drag or a reattach preserves the types.
LEMMA PaneTypesStep == PaneTypes /\ [Pane!Next]_paneVars => PaneTypes'
<1> SUFFICES ASSUME Pane!TypeOK, PaneTypes, [Pane!Next]_paneVars PROVE PaneTypes'
  BY DEF PaneTypes
<1> USE DEF PaneTypes
<1>1. ASSUME NEW d \in Drags, Pane!DragStart(d) PROVE PaneTypes'
  <2>1. PICK s \in Pane!Size :
          drag' = [drag EXCEPT ![d] = [pc |-> "running", bridge |-> bridge, size |-> s,
                                       todo |-> Pane!Plan(known, s)]]
    BY <1>1 DEF Pane!DragStart
  <2>2. Pane!Plan(known, s) \in Seq(Pane!Call)
    BY PlanType DEF Pane!TypeOK
  <2>3. [pc |-> "running", bridge |-> bridge, size |-> s, todo |-> Pane!Plan(known, s)] \in Pane!Running
    BY <2>2 DEF Pane!Running, Pane!TypeOK
  <2>4. drag' \in [Drags -> {Pane!Waiting, Pane!Over} \cup Pane!Running]
    BY <2>1, <2>3 DEF Pane!TypeOK
  <2>5. QED
    BY <1>1, <2>4 DEF Pane!DragStart, Pane!TypeOK
<1>2. ASSUME NEW d \in Drags, Pane!DragCall(d) PROVE PaneTypes'
  <2>1. drag[d] \in Pane!Running /\ drag[d].todo /= <<>>
    BY <1>2, DragType DEF Pane!DragCall
  <2>2. Head(drag[d].todo) \in Pane!Call /\ Tail(drag[d].todo) \in Seq(Pane!Call)
    BY <2>1, HeadTailProperties DEF Pane!Running
  <2>3. [drag[d] EXCEPT !.todo = Tail(drag[d].todo)] \in Pane!Running
    BY <2>1, <2>2 DEF Pane!Running
  <2>4. drag' \in [Drags -> {Pane!Waiting, Pane!Over} \cup Pane!Running]
    BY <1>2, <2>3 DEF Pane!DragCall, Pane!TypeOK
  <2>5. window' \in Pane!Size /\ viewport' \in Pane!Size
    BY <1>2, <2>2 DEF Pane!DragCall, Pane!TypeOK, Pane!Call
  <2>6. QED
    BY <1>2, <2>4, <2>5 DEF Pane!DragCall, Pane!TypeOK
<1>3. ASSUME NEW d \in Drags, Pane!DragFails(d) PROVE PaneTypes'
  BY <1>3 DEF Pane!DragFails, Pane!TypeOK
<1>4. ASSUME NEW d \in Drags, Pane!DragRecords(d) PROVE PaneTypes'
  <2>1. drag[d].size \in Pane!Size
    BY <1>4, DragType DEF Pane!DragRecords, Pane!Running
  <2>2. QED
    BY <1>4, <2>1 DEF Pane!DragRecords, Pane!TypeOK
<1>5. CASE Pane!ReopenDetach
  BY <1>5, PaneAssumption DEF Pane!ReopenDetach, Pane!TypeOK
<1>6. CASE Pane!ReopenSync
  BY <1>6 DEF Pane!ReopenSync, Pane!TypeOK
<1>7. CASE Pane!ReopenAttach
  BY <1>7, PaneAssumption DEF Pane!ReopenAttach, Pane!TypeOK
<1>8. CASE Pane!ReopenReplace
  BY <1>8 DEF Pane!ReopenReplace, Pane!TypeOK
<1>9. CASE UNCHANGED paneVars
  BY <1>9 DEF paneVars, Pane!TypeOK
<1>10. QED
  BY <1>1, <1>2, <1>3, <1>4, <1>5, <1>6, <1>7, <1>8, <1>9 DEF Pane!Next

-----------------------------------------------------------------------------
(* The lock belongs to the one resize that runs. *)
LockHeld == \A d \in Drags : Pane!Dragging(d) <=> lock = d

(* While nothing crossed: no resize runs during a reattach, and the client a *)
(* resize has read is the attached one.                                      *)
Apart ==
    ~crossed =>
        /\ reopen /= "no" => lock = "free"
        /\ reopen /= "opened" => bridge = client
        /\ \A d \in Drags : Pane!Dragging(d) => drag[d].bridge = client
        /\ reopen = "opened" => viewport = window

(* Between resizes the recorded size lies between viewport and window. *)
Settled == Pane!Within(viewport, known) /\ Pane!Within(known, window)

Mixed(a, b) == ~Pane!Within(a, b) /\ ~Pane!Within(b, a)

(* How far a resize from the recorded size k to s is. *)
Planned(k, s, todo)   == todo = Pane!Plan(k, s) /\ Settled
Grown(k, s, todo)     == /\ Pane!Within(k, s) /\ todo = <<Pane!View(s)>>
                         /\ window = s /\ Pane!Within(viewport, k)
Shrunk(k, s, todo)    == /\ Pane!Within(s, k) /\ todo = <<Pane!Win(s)>>
                         /\ viewport = s /\ Pane!Within(k, window)
Covering(k, s, todo)  == /\ Mixed(s, k) /\ todo = <<Pane!View(s), Pane!Win(s)>>
                         /\ window = Pane!Cover(s, k) /\ Pane!Within(viewport, k)
Trimming(k, s, todo)  == /\ Mixed(s, k) /\ todo = <<Pane!Win(s)>>
                         /\ window = Pane!Cover(s, k) /\ viewport = s
Made(s, todo)         == todo = <<>> /\ window = s /\ viewport = s
Stage(k, s, todo) ==
    \/ Planned(k, s, todo) \/ Grown(k, s, todo) \/ Shrunk(k, s, todo)
    \/ Covering(k, s, todo) \/ Trimming(k, s, todo) \/ Made(s, todo)

Staged ==
    (transport = "pty" /\ ~crossed /\ ~torn) =>
        /\ (reopen = "no" /\ lock = "free") => Settled
        /\ \A d \in Drags : Pane!Dragging(d) => Stage(known, drag[d].size, drag[d].todo)

PaneInv == PaneTypes /\ LockHeld /\ Apart /\ Staged

(* What the plans are made of. *)
LEMMA OneCall ==
    ASSUME NEW S, NEW a \in S
    PROVE  Head(<<a>>) = a /\ Tail(<<a>>) = <<>> /\ <<a>> /= <<>> /\ Len(<<a>>) = 1
OBVIOUS

\* The head and the tail of a plan of two calls.
LEMMA TwoCalls ==
    ASSUME NEW S, NEW a \in S, NEW b \in S
    PROVE  /\ Head(<<a, b>>) = a /\ Tail(<<a, b>>) = <<b>>
           /\ <<a, b>> /= <<>> /\ Len(<<a, b>>) = 2
OBVIOUS

\* The head and the tail of a plan of three calls.
LEMMA ThreeCalls ==
    ASSUME NEW S, NEW a \in S, NEW b \in S, NEW c \in S
    PROVE  /\ Head(<<a, b, c>>) = a /\ Tail(<<a, b, c>>) = <<b, c>>
           /\ <<a, b, c>> /= <<>> /\ Len(<<a, b, c>>) = 3
OBVIOUS

(* In every stage of a resize the window holds the viewport. *)
LEMMA StageIsSafe ==
    ASSUME Pane!TypeOK, NEW k \in Pane!Size, NEW s \in Pane!Size, NEW todo, Stage(k, s, todo),
           k = known
    PROVE  Pane!Within(viewport, window)
<1> USE DEF Pane!TypeOK
<1>1. CASE Planned(k, s, todo)
  BY <1>1, WithinIsOrder DEF Planned, Settled
<1>2. CASE Grown(k, s, todo)
  BY <1>2, WithinIsOrder DEF Grown
<1>3. CASE Shrunk(k, s, todo)
  BY <1>3, WithinIsOrder DEF Shrunk
<1>4. CASE Covering(k, s, todo)
  BY <1>4, WithinIsOrder, CoverIsLarger DEF Covering
<1>5. CASE Trimming(k, s, todo)
  BY <1>5, CoverIsLarger DEF Trimming
<1>6. CASE Made(s, todo)
  BY <1>6, WithinIsOrder DEF Made
<1>7. QED
  BY <1>1, <1>2, <1>3, <1>4, <1>5, <1>6 DEF Stage

(* A call of the resize, made on the attached client, leads to a stage. *)
LEMMA StageCall ==
    ASSUME Pane!TypeOK, transport = "pty", transport' = transport,
           NEW k \in Pane!Size, NEW s \in Pane!Size, NEW todo, Stage(k, s, todo), todo /= <<>>,
           k = known,
           window' = IF Head(todo).call = "window" THEN Head(todo).size ELSE window,
           viewport' = IF Head(todo).call = "viewport" THEN Head(todo).size ELSE viewport
    PROVE  Stage(k, s, Tail(todo))'
<1> USE DEF Pane!TypeOK
<1>0. /\ Pane!Win(s) \in Pane!Call /\ Pane!View(s) \in Pane!Call /\ Pane!Cover(s, k) \in Pane!Size
      /\ Pane!Win(Pane!Cover(s, k)) \in Pane!Call
  BY CoverIsLarger DEF Pane!Win, Pane!View, Pane!Call
<1>1. CASE Planned(k, s, todo)
  <2>1. CASE Pane!Within(k, s)
    <3>1. todo = <<Pane!Win(s), Pane!View(s)>>
      BY <1>1, <2>1 DEF Planned, Pane!Plan
    <3>2. Head(todo) = Pane!Win(s) /\ Tail(todo) = <<Pane!View(s)>>
      BY <3>1, <1>0, TwoCalls
    <3>3. window' = s /\ viewport' = viewport
      BY <3>2 DEF Pane!Win
    <3>4. QED
      BY <1>1, <2>1, <3>2, <3>3 DEF Stage, Grown, Planned, Settled, Pane!Within, Pane!View
  <2>2. CASE ~Pane!Within(k, s) /\ Pane!Within(s, k)
    <3>1. todo = <<Pane!View(s), Pane!Win(s)>>
      BY <1>1, <2>2 DEF Planned, Pane!Plan
    <3>2. Head(todo) = Pane!View(s) /\ Tail(todo) = <<Pane!Win(s)>>
      BY <3>1, <1>0, TwoCalls
    <3>3. window' = window /\ viewport' = s
      BY <3>2 DEF Pane!View
    <3>4. QED
      BY <1>1, <2>2, <3>2, <3>3 DEF Stage, Shrunk, Planned, Settled, Pane!Within, Pane!Win
  <2>3. CASE Mixed(s, k)
    <3>1. todo = <<Pane!Win(Pane!Cover(s, k)), Pane!View(s), Pane!Win(s)>>
      BY <1>1, <2>3 DEF Planned, Pane!Plan, Mixed
    <3>2. Head(todo) = Pane!Win(Pane!Cover(s, k)) /\ Tail(todo) = <<Pane!View(s), Pane!Win(s)>>
      BY <3>1, <1>0, ThreeCalls
    <3>3. window' = Pane!Cover(s, k) /\ viewport' = viewport
      BY <3>2 DEF Pane!Win
    <3>4. Covering(k, s, Tail(todo))'
      BY <1>1, <2>3, <3>2, <3>3 DEF Covering, Planned, Settled, Mixed, Pane!Within, Pane!View, Pane!Win,
         Pane!Cover, Pane!Larger
    <3>5. QED
      BY <3>4 DEF Stage
  <2>4. QED
    BY <2>1, <2>2, <2>3 DEF Mixed
<1>2. CASE Grown(k, s, todo)
  <2>1. Head(todo) = Pane!View(s) /\ Tail(todo) = <<>>
    BY <1>2, <1>0, OneCall DEF Grown
  <2>2. QED
    BY <1>2, <2>1 DEF Grown, Stage, Made, Pane!View
<1>3. CASE Shrunk(k, s, todo)
  <2>1. Head(todo) = Pane!Win(s) /\ Tail(todo) = <<>>
    BY <1>3, <1>0, OneCall DEF Shrunk
  <2>2. QED
    BY <1>3, <2>1 DEF Shrunk, Stage, Made, Pane!Win
<1>4. CASE Covering(k, s, todo)
  <2>1. Head(todo) = Pane!View(s) /\ Tail(todo) = <<Pane!Win(s)>>
    BY <1>4, <1>0, TwoCalls DEF Covering
  <2>2. window' = window /\ viewport' = s
    BY <2>1 DEF Pane!View
  <2>3. Trimming(k, s, Tail(todo))'
    BY <1>4, <2>1, <2>2 DEF Covering, Trimming, Mixed, Pane!Within, Pane!Win, Pane!Cover, Pane!Larger
  <2>4. QED
    BY <2>3 DEF Stage
<1>5. CASE Trimming(k, s, todo)
  <2>1. Head(todo) = Pane!Win(s) /\ Tail(todo) = <<>>
    BY <1>5, <1>0, OneCall DEF Trimming
  <2>2. QED
    BY <1>5, <2>1 DEF Trimming, Stage, Made, Pane!Win
<1>6. CASE Made(s, todo)
  BY <1>6 DEF Made
<1>7. QED
  BY <1>1, <1>2, <1>3, <1>4, <1>5, <1>6 DEF Stage

(* A resize that stops before its last call of a change in both directions *)
(* leaves the recorded size between viewport and window.                   *)
LEMMA StageFails ==
    ASSUME Pane!TypeOK, NEW s \in Pane!Size, NEW todo, Stage(known, s, todo), todo /= <<>>,
           ~(Len(todo) = 1 /\ Mixed(s, known))
    PROVE  Settled
<1> USE DEF Pane!TypeOK
<1>1. CASE Planned(known, s, todo)
  BY <1>1 DEF Planned
<1>2. CASE Grown(known, s, todo)
  BY <1>2 DEF Grown, Settled
<1>3. CASE Shrunk(known, s, todo)
  BY <1>3 DEF Shrunk, Settled
<1>4. CASE Covering(known, s, todo)
  BY <1>4, CoverIsLarger DEF Covering, Settled
<1>5. CASE Trimming(known, s, todo)
  <2>1. Pane!Win(s) \in Pane!Call
    BY DEF Pane!Win, Pane!Call
  <2>2. Len(todo) = 1
    BY <1>5, <2>1, OneCall DEF Trimming
  <2>3. QED
    BY <1>5, <2>2 DEF Trimming
<1>6. CASE Made(s, todo)
  BY <1>6 DEF Made
<1>7. QED
  BY <1>1, <1>2, <1>3, <1>4, <1>5, <1>6 DEF Stage

-----------------------------------------------------------------------------
\* The inductive invariant at the start.
LEMMA PaneInit == Pane!Init => PaneInv
<1> SUFFICES ASSUME Pane!Init PROVE PaneInv
  OBVIOUS
<1>1. PaneTypes
  BY PaneTypesInit
<1>2. \A d \in Drags : ~Pane!Dragging(d)
  BY DEF Pane!Init, Pane!Dragging, Pane!Waiting
<1>3. LockHeld
  BY <1>2, PaneAssumption DEF Pane!Init, LockHeld
<1>4. Apart
  BY <1>2 DEF Pane!Init, Apart
<1>5. Staged
  BY <1>1, <1>2, WithinIsOrder DEF Pane!Init, Staged, Settled, PaneTypes, Pane!TypeOK
<1>6. QED
  BY <1>1, <1>3, <1>4, <1>5 DEF PaneInv

(* A resize that does not run does so because another one holds the lock, or *)
(* none does.                                                                *)
LEMMA OtherDragsKeep ==
    ASSUME NEW d \in Drags, NEW r, drag \in [Drags -> {Pane!Waiting, Pane!Over} \cup Pane!Running],
           drag' = [drag EXCEPT ![d] = r]
    PROVE  /\ drag'[d] = r
           /\ \A e \in Drags \ {d} : drag'[e] = drag[e]
OBVIOUS

\* A drag that takes the lock starts a plan from settled sizes.
LEMMA DragStarts ==
    ASSUME PaneInv, PaneTypes', NEW d \in Drags, Pane!DragStart(d)
    PROVE  LockHeld' /\ Apart' /\ Staged'
<1> USE DEF PaneInv, PaneTypes
<1>1. PICK s \in Pane!Size :
        drag' = [drag EXCEPT ![d] = [pc |-> "running", bridge |-> bridge, size |-> s,
                                     todo |-> Pane!Plan(known, s)]]
  BY DEF Pane!DragStart
<1>2. /\ drag'[d] = [pc |-> "running", bridge |-> bridge, size |-> s, todo |-> Pane!Plan(known, s)]
      /\ \A e \in Drags \ {d} : drag'[e] = drag[e]
  BY <1>1, OtherDragsKeep DEF Pane!TypeOK
<1>3. \A e \in Drags : ~Pane!Dragging(e)
  BY PaneAssumption DEF LockHeld, Pane!DragStart
<1>4. Pane!Dragging(d)' /\ \A e \in Drags \ {d} : ~Pane!Dragging(e)'
  BY <1>2, <1>3 DEF Pane!Dragging
<1>5. LockHeld'
  BY <1>4 DEF LockHeld, Pane!DragStart
<1>6. Apart'
  <2>1. drag'[d].bridge = bridge
    BY <1>2
  <2>2. ~crossed' => ~crossed /\ reopen = "no" /\ reopen' = "no"
    BY DEF Pane!DragStart
  <2>3. ~crossed' => bridge' = client' /\ bridge = client'
    BY <2>2 DEF Apart, Pane!DragStart
  <2>4. QED
    BY <1>4, <2>1, <2>2, <2>3 DEF Apart
<1>7. ASSUME Staged, (transport = "pty" /\ ~crossed /\ ~torn)' PROVE Staged'
  <2>1. Settled /\ reopen = "no"
    BY <1>7 DEF Staged, Pane!DragStart
  <2>2. Planned(known, s, Pane!Plan(known, s))'
    BY <2>1 DEF Planned, Settled, Pane!DragStart, Pane!Plan, Pane!Within
  <2>3. Stage(known, drag[d].size, drag[d].todo)'
    BY <1>2, <2>2 DEF Stage, Pane!DragStart, Pane!Plan
  <2>4. QED
    BY <1>4, <2>3, PaneAssumption DEF Staged, Pane!DragStart
<1>8. QED
  BY <1>5, <1>6, <1>7 DEF Staged

\* Each call of a plan leaves a stage from which the rest keeps the viewport covered.
LEMMA DragCalls ==
    ASSUME PaneInv, PaneTypes', NEW d \in Drags, Pane!DragCall(d)
    PROVE  LockHeld' /\ Apart' /\ Staged'
<1> USE DEF PaneInv, PaneTypes
<1>1. drag[d] \in Pane!Running /\ drag[d].todo /= <<>> /\ lock = d
  BY DragType DEF Pane!DragCall, LockHeld
<1>2. /\ drag'[d] = [drag[d] EXCEPT !.todo = Tail(@)]
      /\ \A e \in Drags \ {d} : drag'[e] = drag[e]
  BY DEF Pane!DragCall, Pane!TypeOK
<1>3. /\ drag'[d].pc = "running" /\ drag'[d].bridge = drag[d].bridge
      /\ drag'[d].size = drag[d].size /\ drag'[d].todo = Tail(drag[d].todo)
  BY <1>1, <1>2 DEF Pane!Running
<1>4. \A e \in Drags : Pane!Dragging(e)' <=> Pane!Dragging(e)
  BY <1>2, <1>3 DEF Pane!Dragging, Pane!DragCall
<1>5. LockHeld'
  BY <1>4 DEF LockHeld, Pane!DragCall
<1>6. Apart'
  BY <1>1, <1>2, <1>3, <1>4, PaneAssumption DEF Apart, Pane!DragCall
<1>7. ASSUME (transport = "pty" /\ ~crossed /\ ~torn)' PROVE Staged'
  <2>1. drag[d].bridge = client /\ transport = "pty" /\ transport' = transport
    BY <1>7 DEF Apart, Pane!DragCall
  <2>2. Stage(known, drag[d].size, drag[d].todo)
    BY <1>7 DEF Staged, Pane!DragCall
  <2>3. PICK k \in Pane!Size : k = known
    BY DEF Pane!TypeOK
  <2>4. PICK s \in Pane!Size : s = drag[d].size
    BY <1>1 DEF Pane!Running
  <2>5. PICK todo \in Seq(Pane!Call) : todo = drag[d].todo
    BY <1>1 DEF Pane!Running
  <2>6. Stage(k, s, Tail(todo))'
    <3>1. Stage(k, s, todo) /\ todo /= <<>>
      BY <1>1, <2>2, <2>3, <2>4, <2>5
    <3>2. /\ window' = IF Head(todo).call = "window" THEN Head(todo).size ELSE window
          /\ viewport' = IF Head(todo).call = "viewport" THEN Head(todo).size ELSE viewport
      BY <2>1, <2>5 DEF Pane!DragCall
    <3>3. QED
      BY <2>1, <2>3, <3>1, <3>2, StageCall
  <2>7. known' = k /\ drag'[d].size = s /\ drag'[d].todo = Tail(todo)
    BY <1>3, <2>3, <2>4, <2>5 DEF Pane!DragCall
  <2>8. \A e \in Drags : Pane!Dragging(e)' => e = d
    BY <1>1, <1>4 DEF LockHeld
  <2>9. QED
    BY <1>1, <2>6, <2>7, <2>8, PaneAssumption DEF Staged, Pane!DragCall
<1>8. QED
  BY <1>5, <1>6, <1>7 DEF Staged

\* A plan that fails or is recorded leaves the sizes settled or the resize torn.
LEMMA DragEnds ==
    ASSUME PaneInv, PaneTypes', NEW d \in Drags, Pane!DragFails(d) \/ Pane!DragRecords(d)
    PROVE  LockHeld' /\ Apart' /\ Staged'
<1> USE DEF PaneInv, PaneTypes
<1>1. drag[d] \in Pane!Running /\ lock = d /\ lock' = "free"
  BY DragType DEF Pane!DragFails, Pane!DragRecords, LockHeld
<1>2. drag'[d] = Pane!Over /\ \A e \in Drags \ {d} : drag'[e] = drag[e]
  BY DEF Pane!DragFails, Pane!DragRecords, Pane!TypeOK
<1>3. \A e \in Drags : ~Pane!Dragging(e)'
  BY <1>1, <1>2 DEF Pane!Dragging, LockHeld, Pane!Over
<1>4. LockHeld'
  BY <1>1, <1>3, PaneAssumption DEF LockHeld
<1>5. Apart'
  BY <1>1, <1>3 DEF Apart, Pane!DragFails, Pane!DragRecords
<1>6. ASSUME (transport = "pty" /\ ~crossed /\ ~torn)' PROVE Settled'
  <2>1. drag[d].size \in Pane!Size /\ Stage(known, drag[d].size, drag[d].todo)
    BY <1>1, <1>6 DEF Staged, Pane!Running, Pane!DragFails, Pane!DragRecords
  <2>2. CASE Pane!DragFails(d)
    <3>1. drag[d].todo /= <<>> /\ ~(Len(drag[d].todo) = 1 /\ Mixed(drag[d].size, known))
      BY <1>6, <2>2 DEF Pane!DragFails, Mixed
    <3>2. Settled
      BY <2>1, <3>1, StageFails
    <3>3. QED
      BY <2>2, <3>2 DEF Pane!DragFails, Settled, Pane!Within
  <2>3. CASE Pane!DragRecords(d)
    <3>1. Made(drag[d].size, drag[d].todo)
      <4> DEFINE s == drag[d].size
      <4>1. /\ Pane!Win(s) \in Pane!Call /\ Pane!View(s) \in Pane!Call
            /\ Pane!Win(Pane!Cover(s, known)) \in Pane!Call
        BY <2>1, CoverIsLarger DEF Pane!Win, Pane!View, Pane!Call, Pane!TypeOK
      <4>2. <<Pane!Win(s)>> /= <<>> /\ <<Pane!View(s)>> /= <<>>
        BY <4>1, OneCall
      <4>3. <<Pane!Win(s), Pane!View(s)>> /= <<>> /\ <<Pane!View(s), Pane!Win(s)>> /= <<>>
        BY <4>1, TwoCalls
      <4>4. <<Pane!Win(Pane!Cover(s, known)), Pane!View(s), Pane!Win(s)>> /= <<>>
        BY <4>1, ThreeCalls
      <4>5. Pane!Plan(known, s) /= <<>>
        BY <4>2, <4>3, <4>4 DEF Pane!Plan
      <4>6. QED
        BY <2>1, <2>3, <4>2, <4>3, <4>5
        DEF Stage, Planned, Grown, Shrunk, Covering, Trimming, Pane!DragRecords
    <3>2. window' = known' /\ viewport' = known'
      BY <2>3, <3>1 DEF Made, Pane!DragRecords
    <3>3. QED
      BY <3>2, WithinIsOrder DEF Settled, Pane!TypeOK
  <2>4. QED
    BY <2>2, <2>3
<1>7. QED
  BY <1>3, <1>4, <1>5, <1>6 DEF Staged

\* The steps of a reattach keep out of the way of resizes or are counted as crossed.
LEMMA ReopenKeeps ==
    ASSUME PaneInv, PaneTypes',
           Pane!ReopenDetach \/ Pane!ReopenSync \/ Pane!ReopenAttach \/ Pane!ReopenReplace
    PROVE  LockHeld' /\ Apart' /\ Staged'
<1> USE DEF PaneInv, PaneTypes
<1>1. drag' = drag /\ lock' = lock /\ transport' = transport /\ torn' = torn
  BY DEF Pane!ReopenDetach, Pane!ReopenSync, Pane!ReopenAttach, Pane!ReopenReplace
<1>2. LockHeld'
  BY <1>1 DEF LockHeld, Pane!Dragging
<1>3. ~crossed' => lock = "free" /\ ~crossed
  BY DEF Pane!ReopenDetach, Pane!ReopenSync, Pane!ReopenAttach, Pane!ReopenReplace, Apart
<1>4. ~crossed' => \A d \in Drags : ~Pane!Dragging(d)
  BY <1>3, PaneAssumption DEF LockHeld
<1>5. Apart'
  BY <1>1, <1>3, <1>4
  DEF Apart, Pane!Dragging, Pane!ReopenDetach, Pane!ReopenSync, Pane!ReopenAttach, Pane!ReopenReplace
<1>6. Staged'
  <2>1. CASE Pane!ReopenDetach \/ Pane!ReopenSync \/ Pane!ReopenAttach
    BY <1>1, <1>4, <2>1 DEF Staged, Pane!Dragging, Pane!ReopenDetach, Pane!ReopenSync, Pane!ReopenAttach
  <2>2. CASE Pane!ReopenReplace
    <3>1. ~crossed' => window' = known' /\ viewport' = known'
      BY <1>3, <2>2 DEF Apart, Pane!ReopenReplace
    <3>2. ~crossed' => Settled'
      BY <3>1, WithinIsOrder DEF Settled, Pane!TypeOK
    <3>3. QED
      BY <1>1, <1>4, <3>2 DEF Staged, Pane!Dragging
  <2>3. QED
    BY <2>1, <2>2
<1>7. QED
  BY <1>2, <1>5, <1>6

\* Every step preserves the inductive invariant.
LEMMA PaneStep == PaneInv /\ [Pane!Next]_paneVars => PaneInv'
<1> SUFFICES ASSUME PaneInv, [Pane!Next]_paneVars PROVE PaneInv'
  OBVIOUS
<1>1. PaneTypes'
  BY PaneTypesStep DEF PaneInv
<1>2. CASE \E d \in Drags :
             Pane!DragStart(d) \/ Pane!DragCall(d) \/ Pane!DragFails(d) \/ Pane!DragRecords(d)
  BY <1>1, <1>2, DragStarts, DragCalls, DragEnds DEF PaneInv
<1>3. CASE Pane!ReopenDetach \/ Pane!ReopenSync \/ Pane!ReopenAttach \/ Pane!ReopenReplace
  BY <1>1, <1>3, ReopenKeeps DEF PaneInv
<1>4. CASE UNCHANGED paneVars
  <2>1. LockHeld' /\ Apart'
    BY <1>4 DEF paneVars, PaneInv, LockHeld, Apart, Pane!Dragging
  <2>2. Staged'
    BY <1>4 DEF paneVars, PaneInv, Staged, Pane!Dragging, Stage, Planned, Pane!Plan, Grown, Shrunk,
       Covering,
       Trimming, Made, Settled, Pane!Within, Mixed, Pane!Cover, Pane!Larger, Pane!Win, Pane!View
  <2>3. QED
    BY <1>1, <2>1, <2>2 DEF PaneInv
<1>5. QED
  BY <1>2, <1>3, <1>4 DEF Pane!Next

(* A pane that keeps the stages of its resizes has no hatch. *)
LEMMA PaneSafe == PaneInv => HatchFree
<1> SUFFICES ASSUME PaneInv, transport = "pty", ~crossed, ~torn, reopen = "no"
             PROVE  Pane!Within(viewport, window)
  BY DEF HatchFree, Pane!HatchFree
<1> USE DEF PaneInv, PaneTypes
<1>1. CASE lock = "free"
  BY <1>1, WithinIsOrder DEF Staged, Settled, Pane!TypeOK
<1>2. CASE lock \in Drags
  <2>1. Pane!Dragging(lock) /\ Stage(known, drag[lock].size, drag[lock].todo)
    BY <1>2 DEF LockHeld, Staged
  <2>2. drag[lock].size \in Pane!Size
    BY <1>2, <2>1, DragType DEF Pane!Running
  <2>3. QED
    BY <2>1, <2>2, StageIsSafe DEF Pane!TypeOK
<1>3. QED
  BY <1>1, <1>2 DEF Pane!TypeOK

-----------------------------------------------------------------------------
(* OpenCodeStream, in its slots.                                           *)

Channels == {"boot", "reattach"}
inbox     == v4
conn      == v3
sending   == v5
sink      == v6
held      == v7
knows     == v8
calls     == v9
runtime   == v10
cancelled == v11
drain     == v12
machine   == v13

ConnTypes ==
    /\ conn \in [Channels -> {"none", "connecting", "backoff", "live", "stopped"}]
    /\ calls \in [Channels -> {"todo", "spawned", "done"}]
    /\ runtime \in Channels \cup {None} /\ cancelled \subseteq Channels
    /\ \A c \in Channels : calls[c] = "todo" => conn[c] = "none"

(* What a channel holds are frames and events; only a live one holds frames. *)
Words == {"message.updated", "permission.asked", "permission.replied", "question.asked",
          "question.replied", "session.idle", "part",
          "PermissionRequest", "Notification", "UserPromptSubmit", "Stop"}
Sequences == [Channels -> Seq(Words)]
FlowTypes ==
    /\ inbox \in Sequences /\ sink \in Sequences /\ drain \in Seq(Words)
    /\ sending \in [Channels -> Words \cup {None}] /\ held \in [Channels -> Words \cup {None}]
    /\ \A c \in Channels : /\ Len(inbox[c]) <= 0 /\ Len(sink[c]) <= 1
                           /\ conn[c] # "live" => inbox[c] = <<>>

StreamInv ==
    ConnTypes /\ FlowTypes /\ machine \in OpenCode!Machine /\ OpenCode!NoStrayChannel

StreamSlots == <<v1, v2, v3, v4, v5, v6, v7, v8, v9, v10, v11, v12, v13, v14>>

\* The channels at the start.
LEMMA StreamInit == OpenCode!Init => StreamInv
<1> USE DEF conn, inbox, sending, sink, held, calls, runtime, cancelled, drain, machine
<1> SUFFICES ASSUME OpenCode!Init PROVE StreamInv
  OBVIOUS
<1>1. ConnTypes /\ OpenCode!NoStrayChannel
  BY DEF OpenCode!Init, ConnTypes, Channels, OpenCode!NoStrayChannel
<1>2. FlowTypes
  <2>1. <<>> \in Seq(Words) /\ Len(<<>>) = 0
    OBVIOUS
  <2> QED
    BY <2>1 DEF OpenCode!Init, FlowTypes, Channels, Sequences
<1>3. machine \in OpenCode!Machine
  BY DEF OpenCode!Init, OpenCode!NewMachine, OpenCode!Machine, OpenCode!AgentKind, OpenCode!AgentState
<1> QED
  BY <1>1, <1>2, <1>3 DEF StreamInv

\* A registration under way or the runtime owns every channel, after each step.
LEMMA ConnStep ==
    ASSUME ConnTypes, OpenCode!NoStrayChannel, OpenCode!Next
    PROVE  ConnTypes' /\ OpenCode!NoStrayChannel'
<1> USE SlotsAssumption DEF conn, calls, runtime, cancelled, Channels
<1>1. ASSUME UNCHANGED <<conn, calls, runtime, cancelled>>
      PROVE  ConnTypes' /\ OpenCode!NoStrayChannel'
  BY <1>1 DEF ConnTypes, OpenCode!NoStrayChannel
<1>2. ASSUME NEW c \in Channels, NEW s \in {"connecting", "backoff", "live", "stopped"}, OpenCode!Set(c, s),
             conn[c] # "none", UNCHANGED <<calls, runtime, cancelled>>
      PROVE  ConnTypes' /\ OpenCode!NoStrayChannel'
  BY <1>2 DEF OpenCode!Set, ConnTypes, OpenCode!NoStrayChannel
<1>3. ASSUME NEW c \in Channels,
             OpenCode!Connect(c) \/ OpenCode!Retry(c) \/ OpenCode!Ended(c) \/ OpenCode!Hushed(c)
      PROVE  ConnTypes' /\ OpenCode!NoStrayChannel'
  <2>1. OpenCode!Backoff(c) \in {"stopped", "backoff"}
    BY DEF OpenCode!Backoff
  <2>2. PICK s \in {"connecting", "backoff", "live", "stopped"} : OpenCode!Set(c, s)
    BY <1>3, <2>1 DEF OpenCode!Connect, OpenCode!Retry, OpenCode!Ended, OpenCode!Hushed
  <2>3. conn[c] # "none" /\ UNCHANGED <<calls, runtime, cancelled>>
    BY <1>3 DEF OpenCode!Connect, OpenCode!Retry, OpenCode!Ended, OpenCode!Hushed
  <2> QED
    BY <1>2, <2>2, <2>3
<1>4. ASSUME NEW c \in Channels, OpenCode!Spawn(c)
      PROVE  ConnTypes' /\ OpenCode!NoStrayChannel'
  BY <1>4 DEF OpenCode!Spawn, OpenCode!Set, ConnTypes, OpenCode!NoStrayChannel
<1>5. ASSUME NEW c \in Channels, OpenCode!RegisterSession(c)
      PROVE  ConnTypes' /\ OpenCode!NoStrayChannel'
  BY <1>5 DEF OpenCode!RegisterSession, OpenCode!Replaced, OpenCode!chan, ConnTypes,
     OpenCode!NoStrayChannel
<1>6. CASE OpenCode!EndSession
  BY <1>6 DEF OpenCode!EndSession, OpenCode!chan, ConnTypes, OpenCode!NoStrayChannel
<1>7. ASSUME NEW c \in Channels,
             OpenCode!Read(c) \/ OpenCode!Push(c) \/ OpenCode!SinkFull(c) \/ OpenCode!Forward(c)
               \/ OpenCode!Deliver(c)
      PROVE  ConnTypes' /\ OpenCode!NoStrayChannel'
  BY <1>1, <1>7 DEF OpenCode!Read, OpenCode!Push, OpenCode!SinkFull, OpenCode!Forward, OpenCode!Deliver
<1>8. CASE OpenCode!Prompt \/ OpenCode!Ask \/ OpenCode!Answer \/ OpenCode!Finish
  BY <1>1, <1>8 DEF OpenCode!Prompt, OpenCode!Ask, OpenCode!Answer, OpenCode!Finish, OpenCode!Turn
<1>9. CASE OpenCode!SayRest \/ OpenCode!Exit \/ OpenCode!Start \/ OpenCode!Drain
  BY <1>1, <1>9 DEF OpenCode!SayRest, OpenCode!Exit, OpenCode!Start, OpenCode!Drain, OpenCode!chan
<1> QED
  BY <1>3, <1>4, <1>5, <1>6, <1>7, <1>8, <1>9 DEF OpenCode!Next

(* The classifier yields a notification kind or nothing. *)
LEMMA ClassifyType ==
    ASSUME NEW h, NEW ev
    PROVE  OpenCode!Classify(h, ev) \in OpenCode!NotificationKind \cup {OpenCode!NoKind}
BY DEF OpenCode!Classify, OpenCode!ClassifyPayload, OpenCode!NotificationKind, OpenCode!NoKind

(* Every notification kind drives a machine to a state. *)
LEMMA TargetStateType ==
    ASSUME NEW kind \in OpenCode!NotificationKind
    PROVE  OpenCode!TargetState(kind) \in OpenCode!AgentState
BY DEF OpenCode!TargetState, OpenCode!NotificationKind, OpenCode!AgentState

(* Applying a notification keeps a machine a machine. *)
LEMMA ApplyKindType ==
    ASSUME NEW m \in OpenCode!Machine, NEW kind \in OpenCode!NotificationKind
    PROVE  OpenCode!ApplyKind(m, kind) \in OpenCode!Machine
<1>1. OpenCode!TargetState(kind) \in OpenCode!AgentState
  BY TargetStateType
<1> DEFINE armed == kind = "TurnStart"
           target == OpenCode!TargetState(kind)
<1>2. armed \in BOOLEAN
  OBVIOUS
<1>3. OpenCode!ApplyKind(m, kind) = [m EXCEPT !.activity_armed = armed, !.state = target]
  BY DEF OpenCode!ApplyKind
<1> HIDE DEF armed, target
<1> QED
  BY <1>1, <1>2, <1>3 DEF OpenCode!Machine, target

(* Arming keeps a machine a machine. *)
LEMMA ArmActivityType ==
    ASSUME NEW m \in OpenCode!Machine
    PROVE  OpenCode!ArmActivity(m) \in OpenCode!Machine
BY DEF OpenCode!ArmActivity, OpenCode!Machine

(* A hook event keeps a machine a machine, in both modes. *)
LEMMA OnHookEventType ==
    ASSUME NEW m \in OpenCode!Machine, NEW ev
    PROVE  OpenCode!OnHookEvent(m, ev) \in OpenCode!Machine
<1> DEFINE started == IF ev.event = "SessionStart" THEN OpenCode!ArmActivity(m) ELSE m
           kind == OpenCode!Classify(m.harness, ev)
<1>1. started \in OpenCode!Machine
  BY ArmActivityType
<1>2. [OpenCode!ArmActivity(m) EXCEPT !.state = "working"] \in OpenCode!Machine
  BY ArmActivityType DEF OpenCode!Machine, OpenCode!AgentState
<1>3. kind # OpenCode!NoKind => OpenCode!ApplyKind(started, kind) \in OpenCode!Machine
  BY <1>1, ClassifyType, ApplyKindType
<1>4. \/ OpenCode!OnHookEvent(m, ev) = started
      \/ OpenCode!OnHookEvent(m, ev) = [OpenCode!ArmActivity(m) EXCEPT !.state = "working"]
      \/ kind # OpenCode!NoKind /\ OpenCode!OnHookEvent(m, ev) = OpenCode!ApplyKind(started, kind)
  <2>1. m.silence_only \in BOOLEAN
    BY DEF OpenCode!Machine
  <2> HIDE DEF started, kind
  <2>2. OpenCode!OnHookEvent(m, ev) =
          CASE m.silence_only /\ ev.event = "SessionStart" -> started
            [] m.silence_only /\ ev.event # "SessionStart" ->
                   [OpenCode!ArmActivity(m) EXCEPT !.state = "working"]
            [] ~m.silence_only /\ kind = OpenCode!NoKind -> started
            [] OTHER -> OpenCode!ApplyKind(started, kind)
    BY DEF OpenCode!OnHookEvent, started, kind
  <2>3. CASE m.silence_only /\ ev.event = "SessionStart"
    BY <2>2, <2>3
  <2>4. CASE m.silence_only /\ ev.event # "SessionStart"
    BY <2>2, <2>4
  <2>5. CASE ~m.silence_only /\ kind = OpenCode!NoKind
    BY <2>2, <2>5
  <2>6. CASE ~m.silence_only /\ kind # OpenCode!NoKind
    BY <2>2, <2>6
  <2> QED
    BY <2>1, <2>3, <2>4, <2>5, <2>6
<1> QED
  BY <1>1, <1>2, <1>3, <1>4


\* What flows through a channel keeps its type.
LEMMA FlowStep ==
    ASSUME ConnTypes, FlowTypes, OpenCode!Next
    PROVE  FlowTypes'
<1> USE SlotsAssumption DEF conn, inbox, sending, sink, held, drain, Channels
<1>0. \A q \in Seq(Words) :
         /\ Len(q) \in Nat
         /\ \A e \in Words : Append(q, e) \in Seq(Words) /\ Len(Append(q, e)) = Len(q) + 1
         /\ q # <<>> => Head(q) \in Words /\ Tail(q) \in Seq(Words) /\ Len(Tail(q)) = Len(q) - 1
  BY LenProperties, AppendProperties, HeadTailProperties
<1>1. <<>> \in Seq(Words) /\ Len(<<>>) = 0
  OBVIOUS
<1>2. ASSUME UNCHANGED <<conn, inbox, sending, sink, held, drain>>
      PROVE  FlowTypes'
  BY <1>2 DEF FlowTypes, Sequences
<1>3. ASSUME NEW frame \in Words, OpenCode!Say(frame), UNCHANGED <<conn, sending, sink, held, drain>>
      PROVE  FlowTypes'
  <2>1. \A c \in Channels : conn[c] = "live" => Len(inbox[c]) < 0
    BY <1>3 DEF OpenCode!Say, OpenCode!Listening
  <2>2. \A c \in Channels : conn[c] # "live"
    BY <2>1, <1>0 DEF FlowTypes, Sequences
  <2>3. inbox' = inbox
    BY <1>3, <2>2 DEF OpenCode!Say, OpenCode!Listening, FlowTypes, Sequences
  <2> QED
    BY <1>2, <1>3, <2>3
<1>4. ASSUME OpenCode!Prompt \/ OpenCode!Ask \/ OpenCode!Answer \/ OpenCode!Finish
      PROVE  FlowTypes'
  <2>1. PICK t \in OpenCode!Turns : OpenCode!Turn(t)
    BY <1>4 DEF OpenCode!Prompt, OpenCode!Ask, OpenCode!Answer, OpenCode!Finish
  <2>2. t.says \in Words
    BY DEF OpenCode!Turns, Words
  <2> QED
    BY <1>3, <2>1, <2>2 DEF OpenCode!Turn
<1>5. ASSUME OpenCode!SayRest
      PROVE  FlowTypes'
  <2>1. \A c \in Channels : conn[c] = "live" => Len(inbox[c]) < 0
    BY <1>5 DEF OpenCode!SayRest, OpenCode!Say, OpenCode!Listening
  <2>2. \A c \in Channels : conn[c] # "live"
    BY <2>1, <1>0 DEF FlowTypes, Sequences
  <2>3. inbox' = inbox
    BY <1>5, <2>2 DEF OpenCode!SayRest, OpenCode!Say, OpenCode!Listening, FlowTypes, Sequences
  <2> QED
    BY <1>2, <1>5, <2>3 DEF OpenCode!SayRest
<1>6. ASSUME OpenCode!Exit \/ OpenCode!Start \/ OpenCode!EndSession
      PROVE  FlowTypes'
  BY <1>2, <1>6 DEF OpenCode!Exit, OpenCode!Start, OpenCode!EndSession, OpenCode!chan
<1>7. ASSUME OpenCode!Drain
      PROVE  FlowTypes'
  BY <1>0, <1>7 DEF OpenCode!Drain, OpenCode!chan, FlowTypes, Sequences
<1>8. ASSUME NEW c \in Channels, OpenCode!Connect(c) \/ OpenCode!Retry(c)
      PROVE  FlowTypes'
  <2>1. conn[c] # "live" /\ UNCHANGED <<inbox, sending, sink, held, drain>>
        /\ \A d \in Channels \ {c} : conn'[d] = conn[d]
    BY <1>8 DEF OpenCode!Connect, OpenCode!Retry, OpenCode!Set, ConnTypes
  <2> QED
    BY <2>1 DEF FlowTypes, Sequences
<1>9. ASSUME NEW c \in Channels, OpenCode!Read(c)
      PROVE  FlowTypes'
  <2>1. Len(inbox[c]) = 0 /\ inbox[c] # <<>>
    BY <1>0, <1>9 DEF OpenCode!Read, FlowTypes, Sequences
  <2> QED
    BY <2>1, EmptySeq DEF FlowTypes, Sequences
<1>10. ASSUME NEW c \in Channels, OpenCode!Push(c)
       PROVE  FlowTypes'
  <2>1. sending[c] \in Words /\ sink[c] \in Seq(Words) /\ Len(sink[c]) < 1
    BY <1>10 DEF OpenCode!Push, FlowTypes, Sequences
  <2>2. Append(sink[c], sending[c]) \in Seq(Words) /\ Len(Append(sink[c], sending[c])) <= 1
    BY <1>0, <2>1
  <2> QED
    BY <1>10, <2>2 DEF OpenCode!Push, FlowTypes, Sequences
<1>11. ASSUME NEW c \in Channels, OpenCode!SinkFull(c)
       PROVE  FlowTypes'
  BY <1>11 DEF OpenCode!SinkFull, FlowTypes, Sequences
<1>12. ASSUME NEW c \in Channels, OpenCode!Ended(c)
       PROVE  FlowTypes'
  BY <1>1, <1>12 DEF OpenCode!Ended, OpenCode!Set, ConnTypes, FlowTypes, Sequences
<1>13. ASSUME NEW c \in Channels, OpenCode!Forward(c)
       PROVE  FlowTypes'
  <2>1. sink[c] \in Seq(Words) /\ sink[c] # <<>> /\ Len(sink[c]) <= 1
    BY <1>13 DEF OpenCode!Forward, FlowTypes, Sequences
  <2>2. Head(sink[c]) \in Words /\ Tail(sink[c]) \in Seq(Words) /\ Len(Tail(sink[c])) <= 1
    BY <1>0, <2>1
  <2> QED
    BY <1>13, <2>2 DEF OpenCode!Forward, FlowTypes, Sequences
<1>14. ASSUME NEW c \in Channels, OpenCode!Deliver(c)
       PROVE  FlowTypes'
  <2>1. held[c] \in Words
    BY <1>14 DEF OpenCode!Deliver, FlowTypes
  <2>2. Append(drain, held[c]) \in Seq(Words)
    BY <1>0, <2>1 DEF FlowTypes
  <2> QED
    BY <1>14, <2>2 DEF OpenCode!Deliver, FlowTypes, Sequences
<1>15. ASSUME NEW c \in Channels, OpenCode!Hushed(c)
       PROVE  FlowTypes'
  BY <1>1, <1>15 DEF OpenCode!Hushed, OpenCode!Set, ConnTypes, FlowTypes, Sequences
<1>16. ASSUME NEW c \in Channels, OpenCode!Spawn(c) \/ OpenCode!RegisterSession(c)
       PROVE  FlowTypes'
  <2>1. UNCHANGED <<inbox, sending, sink, held, drain>>
    BY <1>16 DEF OpenCode!Spawn, OpenCode!RegisterSession, OpenCode!chan
  <2>2. \A d \in Channels : conn'[d] # "live" => conn[d] # "live"
    BY <1>16 DEF OpenCode!Spawn, OpenCode!RegisterSession, OpenCode!Set, OpenCode!chan, calls, ConnTypes
  <2> QED
    BY <2>1, <2>2 DEF FlowTypes, Sequences
<1> QED
  BY <1>4, <1>5, <1>6, <1>7, <1>8, <1>9, <1>10, <1>11, <1>12, <1>13, <1>14, <1>15,
     <1>16 DEF OpenCode!Next


\* The machine of the pane stays a machine, whatever event reaches it.
LEMMA MachineStep ==
    ASSUME machine \in OpenCode!Machine, OpenCode!Next
    PROVE  machine' \in OpenCode!Machine
<1> USE DEF machine
<1>1. CASE OpenCode!Drain
  BY <1>1, OnHookEventType DEF OpenCode!Drain
<1>2. CASE ~OpenCode!Drain
  <2>1. machine' = machine
    BY <1>2 DEF OpenCode!Next, OpenCode!Prompt, OpenCode!Ask, OpenCode!Answer, OpenCode!Finish,
       OpenCode!Turn, OpenCode!SayRest, OpenCode!Exit, OpenCode!Start, OpenCode!Connect,
       OpenCode!Retry, OpenCode!Read, OpenCode!Push, OpenCode!SinkFull, OpenCode!Ended,
       OpenCode!Forward, OpenCode!Deliver, OpenCode!Hushed, OpenCode!Spawn,
       OpenCode!RegisterSession, OpenCode!EndSession
  <2> QED
    BY <2>1
<1> QED
  BY <1>1, <1>2

\* Every step keeps the invariant of the channels.
LEMMA StreamStep == StreamInv /\ [OpenCode!Next]_(OpenCode!vars) => StreamInv'
<1>1. ASSUME StreamInv, OpenCode!Next PROVE StreamInv'
  BY <1>1, ConnStep, FlowStep, MachineStep DEF StreamInv
<1>2. ASSUME StreamInv, UNCHANGED OpenCode!vars PROVE StreamInv'
  <2>1. UNCHANGED <<conn, inbox, sending, sink, held, calls, runtime, cancelled, drain, machine>>
    BY <1>2 DEF OpenCode!vars, OpenCode!chan, conn, inbox, sending, sink, held, calls, runtime,
       cancelled, drain, machine
  <2>2. FlowTypes'
    BY <1>2, <2>1 DEF StreamInv, FlowTypes, Sequences
  <2>3. ConnTypes' /\ OpenCode!NoStrayChannel'
    BY <1>2, <2>1 DEF StreamInv, ConnTypes, OpenCode!NoStrayChannel, conn, calls, runtime, cancelled
  <2> QED
    BY <1>2, <2>1, <2>2, <2>3 DEF StreamInv
<1> QED
  BY <1>1, <1>2

\* The types OpenCodeStream states.
LEMMA StreamTyped == StreamInv => OpenCode!TypeOK
BY DEF StreamInv, OpenCode!TypeOK, ConnTypes, FlowTypes, Channels, conn, inbox, sink, machine

-----------------------------------------------------------------------------
(* LayoutSaves, in its slots.                                              *)

saved  == v1
grid   == v3
get    == v4
saves  == v5
flush  == v6
quit   == v7
landed == v8
closed == v9
spent  == v10

Grids  == [rev : 0..MaxRevs, full : BOOLEAN]
Unread == -1

LayoutTypes ==
    /\ saved \in [ok : BOOLEAN, rev : 0..MaxRevs, full : BOOLEAN]
    /\ grid \in [up : BOOLEAN, gate : BOOLEAN, knows : BOOLEAN, parked : BOOLEAN, timer : BOOLEAN,
                 rev : -1..MaxRevs, full : BOOLEAN]
    /\ get \in {"none", "asked", "late"} /\ flush \in {"no", "sent", "done"}
    /\ quit \in {"no", "asked", "acked", "late", "gone"}
    /\ saves \subseteq Grids /\ landed \in [rev : 0..MaxRevs, clear : BOOLEAN]
    /\ spent \in [revs : 0..MaxRevs, loads : Nat, faults : Nat, strays : Nat]

(* The gate opens once the file is read or given up on, and what a page    *)
(* that has read nothing holds is not saved.                               *)
GateShape ==
    /\ grid.gate = TRUE => grid.up = TRUE
    /\ grid.parked = TRUE => grid.up = TRUE /\ grid.gate = FALSE
    /\ grid.timer = TRUE => grid.gate = TRUE
    /\ get # "none" => grid.up = TRUE
    /\ get = "asked" => grid.gate = FALSE
    /\ grid.gate = FALSE => grid.rev = Unread
    /\ grid.up = TRUE /\ grid.gate = FALSE => saves = {} /\ landed = Layout!NoFlush
    /\ grid.rev = Unread => grid.full = FALSE /\ grid.knows = FALSE
    /\ quit = "gone" => grid.up = FALSE /\ saves = {}
    /\ quit = "acked" => flush = "done"

(* No grid is newer than the user's last change.                           *)
Dated == grid.rev <= spent.revs /\ saved.rev <= spent.revs /\ \A s \in saves : s.rev <= spent.revs

(* An empty grid that the user did not make is what the file had, or older *)
(* than it.                                                                *)
Old(rev) ==
    /\ saved.ok = TRUE /\ saved.rev >= rev
    /\ \A s \in saves : s.rev >= rev
    /\ grid.rev # Unread => grid.rev >= rev
EmptiesOld ==
    /\ \A s \in saves : s.full = FALSE /\ s.rev \notin closed => Old(s.rev)
    /\ grid.rev # Unread /\ grid.full = FALSE /\ grid.rev \notin closed => Old(grid.rev)

(* The grid a flush has sent with no save ahead of it is on disk, or on    *)
(* its way; no save behind it is older.                                    *)
FlushLeads ==
    landed.clear = TRUE =>
        /\ \A s \in saves : s.rev >= landed.rev
        /\ grid.rev # Unread => grid.rev >= landed.rev
        /\ \/ landed.rev = 0
           \/ saved.ok = TRUE /\ saved.rev >= landed.rev
           \/ flush = "sent" /\ \E s \in saves : s.rev = landed.rev

LayoutInv == LayoutTypes /\ GateShape /\ Dated /\ EmptiesOld /\ FlushLeads

LayoutSlots == <<v1, v2, v3, v4, v5, v6, v7, v8, v9, v10>>

\* The grid at the start.
LEMMA LayoutInit == Layout!Init => LayoutInv
<1> USE SlotsAssumption DEF saved, grid, get, saves, flush, quit, landed, closed, spent, Unread,
        Layout!NoFlush
<1> SUFFICES ASSUME Layout!Init PROVE LayoutInv
  OBVIOUS
<1>1. /\ grid = [up |-> FALSE, gate |-> FALSE, knows |-> FALSE, parked |-> FALSE, timer |-> FALSE,
                 rev |-> -1, full |-> FALSE]
      /\ get = "none" /\ saves = {} /\ flush = "no" /\ quit = "gone"
      /\ landed = [rev |-> 0, clear |-> TRUE]
      /\ spent = [revs |-> 1, loads |-> 0, faults |-> 0, strays |-> 0]
  BY DEF Layout!Init, Layout!Gone, Layout!Loaded
<1>0. saved \in [ok : BOOLEAN, rev : {0, 1}, full : BOOLEAN]
  <2>1. \/ saved = [ok |-> TRUE, rev |-> 0, full |-> FALSE]
        \/ saved \in [ok : BOOLEAN, rev : {1}, full : {TRUE}]
    BY DEF Layout!Init, Layout!Blank
  <2>2. [ok |-> TRUE, rev |-> 0, full |-> FALSE] \in [ok : BOOLEAN, rev : {0, 1}, full : BOOLEAN]
    OBVIOUS
  <2>3. [ok : BOOLEAN, rev : {1}, full : {TRUE}] \subseteq [ok : BOOLEAN, rev : {0, 1}, full : BOOLEAN]
    OBVIOUS
  <2> QED
    BY <2>1, <2>2, <2>3
<1>2. LayoutTypes
  BY <1>0, <1>1 DEF LayoutTypes, Grids
<1>3. GateShape /\ Dated /\ EmptiesOld /\ FlushLeads
  BY <1>0, <1>1 DEF GateShape, Dated, EmptiesOld, FlushLeads
<1> QED
  BY <1>2, <1>3 DEF LayoutInv

\* The page reads the layout, or gives up on reading it.
LEMMA LoadKeeps ==
    ASSUME LayoutInv, Layout!Load \/ Layout!GiveUpReading
    PROVE  LayoutInv'
<1> USE SlotsAssumption DEF LayoutInv, saved, grid, get, saves, flush, quit, landed, closed, spent, Unread,
        Layout!NoFlush
<1>1. CASE Layout!Load
  <2>1. /\ UNCHANGED <<saved, saves, closed>> /\ saves = {} /\ spent'.revs = spent.revs
        /\ spent' \in [revs : 0..MaxRevs, loads : Nat, faults : Nat, strays : Nat]
        /\ grid' = [up |-> TRUE, gate |-> FALSE, knows |-> FALSE, parked |-> FALSE, timer |-> FALSE,
                    rev |-> -1, full |-> FALSE]
        /\ get' = "asked" /\ flush' = "no" /\ quit' = "no" /\ landed' = [rev |-> 0, clear |-> TRUE]
    BY <1>1 DEF Layout!Load, Layout!Loaded, Layout!Spend, LayoutTypes
  <2>2. LayoutTypes'
    BY <2>1 DEF LayoutTypes, Grids
  <2>3. GateShape' /\ Dated' /\ EmptiesOld' /\ FlushLeads'
    BY <2>1 DEF LayoutTypes, GateShape, Dated, EmptiesOld, FlushLeads
  <2> QED
    BY <2>2, <2>3
<1>2. CASE Layout!GiveUpReading
  <2>1. /\ UNCHANGED <<saved, saves, flush, quit, landed, closed>> /\ spent'.revs = spent.revs
        /\ spent' \in [revs : 0..MaxRevs, loads : Nat, faults : Nat, strays : Nat]
        /\ get' \in {"late", "none"} /\ get = "asked"
        /\ grid' = [grid EXCEPT !.gate = TRUE, !.parked = FALSE, !.timer = grid.timer \/ grid.parked]
    BY <1>2 DEF Layout!GiveUpReading, Layout!Opened, Layout!Spend, LayoutTypes
  <2>2. /\ grid' \in [up : BOOLEAN, gate : BOOLEAN, knows : BOOLEAN, parked : BOOLEAN,
                      timer : BOOLEAN, rev : -1..MaxRevs, full : BOOLEAN]
        /\ grid'.gate = TRUE /\ grid'.parked = FALSE /\ grid'.up = grid.up
        /\ grid'.knows = grid.knows /\ grid'.rev = grid.rev /\ grid'.full = grid.full
    BY <2>1 DEF LayoutTypes
  <2>3. LayoutTypes'
    BY <2>1, <2>2 DEF LayoutTypes
  <2>4. GateShape' /\ Dated' /\ EmptiesOld' /\ FlushLeads'
    BY <2>1, <2>2 DEF LayoutTypes, GateShape, Dated, EmptiesOld, Old, FlushLeads
  <2> QED
    BY <2>3, <2>4
<1> QED
  BY <1>1, <1>2

LEMMA HydrateKeeps ==
    ASSUME LayoutInv, Layout!Hydrate
    PROVE  LayoutInv'
<1> USE SlotsAssumption DEF LayoutInv, saved, grid, get, saves, flush, quit, landed, closed, spent, Unread,
        Layout!NoFlush
<1> DEFINE read == IF saved.ok THEN saved ELSE Layout!Blank
<1>1. /\ UNCHANGED <<saves, flush, quit, landed, closed, spent>>
      /\ get # "none" /\ get' = "none" /\ saved' = read
      /\ grid' = IF get = "late" THEN grid
                 ELSE [grid EXCEPT !.gate = TRUE, !.parked = FALSE, !.timer = grid.timer \/ grid.parked,
                                   !.knows = TRUE, !.rev = read.rev, !.full = read.full]
  BY DEF Layout!Hydrate, Layout!AfterRead, Layout!Opened
<1>2. /\ saved' \in [ok : BOOLEAN, rev : 0..MaxRevs, full : BOOLEAN] /\ saved'.ok = TRUE
      /\ saved'.rev = read.rev /\ saved'.full = read.full
      /\ IF saved.ok = TRUE THEN saved' = saved ELSE saved'.rev = 0 /\ saved'.full = FALSE
  <2>1. CASE saved.ok
    BY <1>1, <2>1 DEF LayoutTypes
  <2>2. CASE ~saved.ok
    BY <1>1, <2>2 DEF LayoutTypes, Layout!Blank
  <2> QED
    BY <2>1, <2>2
<1> HIDE DEF read
<1>3. /\ grid' \in [up : BOOLEAN, gate : BOOLEAN, knows : BOOLEAN, parked : BOOLEAN,
                      timer : BOOLEAN, rev : -1..MaxRevs, full : BOOLEAN]
      /\ IF get = "late" THEN grid' = grid
         ELSE /\ grid'.gate = TRUE /\ grid'.parked = FALSE /\ grid'.up = grid.up
              /\ grid'.knows = TRUE /\ grid'.rev = saved'.rev /\ grid'.full = saved'.full
  <2>1. CASE get = "late"
    BY <1>1, <2>1 DEF LayoutTypes
  <2>2. CASE get # "late"
    <3>1. /\ grid' = [grid EXCEPT !.gate = TRUE, !.parked = FALSE, !.timer = grid.timer \/ grid.parked,
                                  !.knows = TRUE, !.rev = saved'.rev, !.full = saved'.full]
          /\ saved'.rev \in -1..MaxRevs /\ saved'.full \in BOOLEAN
      BY <1>1, <1>2, <2>2
    <3> QED
      BY <2>2, <3>1 DEF LayoutTypes
  <2> QED
    BY <2>1, <2>2
<1>4. LayoutTypes'
  BY <1>1, <1>2, <1>3 DEF LayoutTypes
<1>5. get # "late" => saves = {} /\ landed = [rev |-> 0, clear |-> TRUE] /\ grid.up = TRUE
  BY <1>1 DEF LayoutTypes, GateShape
<1>6. GateShape' /\ Dated'
  BY <1>1, <1>2, <1>3, <1>5 DEF LayoutTypes, GateShape, Dated
<1>7. EmptiesOld'
  BY <1>1, <1>2, <1>3, <1>5 DEF LayoutTypes, EmptiesOld, Old
<1>8. FlushLeads'
  BY <1>1, <1>2, <1>3, <1>5 DEF LayoutTypes, FlushLeads
<1> QED
  BY <1>4, <1>6, <1>7, <1>8

\* The grid changes, and saves are asked for.
LEMMA ChangeKeeps ==
    ASSUME LayoutInv, Layout!Change \/ Layout!Stray
    PROVE  LayoutInv'
<1> USE SlotsAssumption DEF LayoutInv, saved, grid, get, saves, flush, quit, landed, closed, spent, Unread,
        Layout!NoFlush
<1>1. CASE Layout!Stray
  <2>1. /\ UNCHANGED <<saved, get, saves, flush, quit, landed, closed>> /\ spent'.revs = spent.revs
        /\ spent' \in [revs : 0..MaxRevs, loads : Nat, faults : Nat, strays : Nat]
        /\ grid.up = TRUE
        /\ \/ grid.gate = TRUE /\ grid' = [grid EXCEPT !.timer = TRUE]
           \/ grid.gate = FALSE /\ grid' = [grid EXCEPT !.parked = TRUE]
    BY <1>1 DEF Layout!Stray, Layout!Scheduled, Layout!Spend, LayoutTypes
  <2>2. /\ grid' \in [up : BOOLEAN, gate : BOOLEAN, knows : BOOLEAN, parked : BOOLEAN,
                      timer : BOOLEAN, rev : -1..MaxRevs, full : BOOLEAN]
        /\ grid'.gate = grid.gate /\ grid'.up = grid.up /\ grid'.knows = grid.knows
        /\ grid'.rev = grid.rev /\ grid'.full = grid.full
        /\ grid.gate = TRUE => grid'.parked = grid.parked
        /\ grid.gate = FALSE => grid'.timer = grid.timer
    <3>1. CASE grid.gate = TRUE
      BY <2>1, <3>1 DEF LayoutTypes
    <3>2. CASE grid.gate = FALSE
      BY <2>1, <3>2 DEF LayoutTypes
    <3> QED
      BY <2>1, <3>1, <3>2
  <2>3. LayoutTypes'
    BY <2>1, <2>2 DEF LayoutTypes
  <2>4. GateShape' /\ Dated' /\ EmptiesOld' /\ FlushLeads'
    BY <2>1, <2>2 DEF LayoutTypes, GateShape, Dated, EmptiesOld, Old, FlushLeads
  <2> QED
    BY <2>3, <2>4
<1>2. CASE Layout!Change
  <2> DEFINE changed(full) == [grid EXCEPT !.rev = spent.revs + 1, !.full = full]
  <2>0. /\ UNCHANGED <<saved, get, saves, flush, quit, landed>>
        /\ grid.up = TRUE /\ grid.gate = TRUE
        /\ spent.revs < MaxRevs /\ spent' = [spent EXCEPT !.revs = @ + 1]
    BY <1>2 DEF Layout!Change, Layout!Spend, LayoutTypes
  <2>1. PICK full \in BOOLEAN :
           /\ grid' = Layout!Scheduled(changed(full))
           /\ \/ full = TRUE /\ closed' = closed
              \/ full = FALSE /\ closed' = closed \cup {spent.revs + 1}
    <3>1. \/ grid' = Layout!Scheduled(changed(TRUE)) /\ closed' = closed
          \/ grid' = Layout!Scheduled(changed(FALSE)) /\ closed' = closed \cup {spent.revs + 1}
      BY <1>2 DEF Layout!Change
    <3> HIDE DEF changed
    <3> QED
      BY <3>1
  <2>5. /\ spent'.revs = spent.revs + 1
        /\ spent' \in [revs : 0..MaxRevs, loads : Nat, faults : Nat, strays : Nat]
        /\ spent'.revs \in -1..MaxRevs
    BY <2>0 DEF LayoutTypes
  <2>7. /\ changed(full) \in [up : BOOLEAN, gate : BOOLEAN, knows : BOOLEAN, parked : BOOLEAN,
                              timer : BOOLEAN, rev : -1..MaxRevs, full : BOOLEAN]
        /\ changed(full).gate = TRUE /\ changed(full).up = TRUE /\ changed(full).knows = grid.knows
        /\ changed(full).rev = spent'.revs /\ changed(full).full = full
        /\ changed(full).parked = grid.parked
    BY <2>0, <2>5 DEF LayoutTypes
  <2>8. grid' = [changed(full) EXCEPT !.timer = TRUE]
    BY <2>1, <2>7 DEF Layout!Scheduled
  <2> HIDE DEF changed
  <2>2. /\ grid' \in [up : BOOLEAN, gate : BOOLEAN, knows : BOOLEAN, parked : BOOLEAN,
                      timer : BOOLEAN, rev : -1..MaxRevs, full : BOOLEAN]
        /\ grid'.gate = TRUE /\ grid'.up = TRUE /\ grid'.knows = grid.knows
        /\ grid'.rev = spent'.revs /\ grid'.full = full /\ grid'.parked = grid.parked
    BY <2>7, <2>8
  <2>3. LayoutTypes'
    BY <2>0, <2>1, <2>2, <2>5 DEF LayoutTypes
  <2>4. GateShape' /\ Dated'
    BY <2>0, <2>1, <2>2, <2>5 DEF LayoutTypes, Grids, GateShape, Dated
  <2>9. EmptiesOld'
    BY <2>0, <2>1, <2>2, <2>5 DEF LayoutTypes, Grids, Dated, EmptiesOld, Old
  <2>6. FlushLeads'
    BY <2>0, <2>1, <2>2, <2>5 DEF LayoutTypes, Grids, Dated, GateShape, FlushLeads
  <2> QED
    BY <2>3, <2>4, <2>9, <2>6
<1> QED
  BY <1>1, <1>2

(* A grid that is saved is one that has panes, or one the page has read or  *)
(* the user has made.                                                       *)
LEMMA SafeRead ==
    ASSUME LayoutInv, Layout!Safe(grid)
    PROVE  Layout!Payload(grid) \in Grids /\ Layout!Payload(grid) = [rev |-> grid.rev, full |-> grid.full]
           /\ grid.rev # Unread /\ grid.gate = TRUE /\ grid.up = TRUE
BY SlotsAssumption DEF LayoutInv, LayoutTypes, GateShape, Grids, Unread, Layout!Safe,
   Layout!Payload, grid

LEMMA SaveKeeps ==
    ASSUME LayoutInv, Layout!Save
    PROVE  LayoutInv'
<1> USE SlotsAssumption DEF LayoutInv, saved, grid, get, saves, flush, quit, landed, closed, spent, Unread,
        Layout!NoFlush
<1>1. UNCHANGED <<saved, get, flush, quit, landed, closed, spent>> /\ grid.timer = TRUE
  BY DEF Layout!Save, LayoutTypes
<1>2. CASE Layout!Safe(grid)
  <2> DEFINE sent == [rev |-> grid.rev, full |-> grid.full]
  <2>1. /\ saves' = saves \cup {sent} /\ sent \in Grids /\ grid.rev # Unread
        /\ grid' = [grid EXCEPT !.timer = FALSE, !.knows = @ \/ grid.full]
    BY <1>2, SafeRead DEF Layout!Save, Layout!Sent
  <2>2. /\ grid' \in [up : BOOLEAN, gate : BOOLEAN, knows : BOOLEAN, parked : BOOLEAN,
                      timer : BOOLEAN, rev : -1..MaxRevs, full : BOOLEAN]
        /\ grid'.gate = grid.gate /\ grid'.up = grid.up /\ grid'.timer = FALSE
        /\ grid'.rev = grid.rev /\ grid'.full = grid.full /\ grid'.parked = grid.parked
    BY <2>1 DEF LayoutTypes
  <2>3. LayoutTypes'
    BY <1>1, <2>1, <2>2 DEF LayoutTypes
  <2>4. GateShape' /\ Dated' /\ FlushLeads'
    BY <1>1, <2>1, <2>2 DEF LayoutTypes, GateShape, Dated, FlushLeads
  <2>5. EmptiesOld'
    BY <1>1, <2>1, <2>2 DEF LayoutTypes, EmptiesOld, Old
  <2> QED
    BY <2>3, <2>4, <2>5
<1>3. CASE ~Layout!Safe(grid)
  <2>1. UNCHANGED saves /\ grid' = [grid EXCEPT !.timer = FALSE]
    BY <1>3 DEF Layout!Save
  <2>2. /\ grid' \in [up : BOOLEAN, gate : BOOLEAN, knows : BOOLEAN, parked : BOOLEAN,
                      timer : BOOLEAN, rev : -1..MaxRevs, full : BOOLEAN]
        /\ grid'.gate = grid.gate /\ grid'.up = grid.up /\ grid'.timer = FALSE
        /\ grid'.knows = grid.knows
        /\ grid'.rev = grid.rev /\ grid'.full = grid.full /\ grid'.parked = grid.parked
    BY <2>1 DEF LayoutTypes
  <2>3. LayoutTypes'
    BY <1>1, <2>1, <2>2 DEF LayoutTypes
  <2>4. GateShape' /\ Dated' /\ EmptiesOld' /\ FlushLeads'
    BY <1>1, <2>1, <2>2 DEF LayoutTypes, GateShape, Dated, EmptiesOld, Old, FlushLeads
  <2> QED
    BY <2>3, <2>4
<1> QED
  BY <1>2, <1>3

\* A save lands or fails.
LEMMA LandKeeps ==
    ASSUME LayoutInv, Layout!Land \/ Layout!Fail
    PROVE  LayoutInv'
<1> USE SlotsAssumption DEF LayoutInv, saved, grid, get, saves, flush, quit, landed, closed, spent, Unread,
        Layout!NoFlush
<1>1. CASE Layout!Land
  <2>1. PICK s \in saves :
           /\ UNCHANGED <<grid, get, flush, quit, landed, closed, spent>>
           /\ saves' = saves \ {s} /\ saved' = [ok |-> TRUE, rev |-> s.rev, full |-> s.full]
           /\ quit # "gone"
    BY <1>1 DEF Layout!Land
  <2>2. s \in Grids /\ saved'.rev = s.rev /\ saved'.ok = TRUE /\ saved'.full = s.full
    BY <2>1 DEF LayoutTypes
  <2>3. LayoutTypes'
    <3>1. saved' \in [ok : BOOLEAN, rev : 0..MaxRevs, full : BOOLEAN]
      BY <2>1, <2>2 DEF Grids
    <3> QED
      BY <2>1, <3>1 DEF LayoutTypes
  <2>4. GateShape' /\ Dated'
    BY <2>1, <2>2 DEF LayoutTypes, GateShape, Dated
  <2>5. EmptiesOld'
    BY <2>1, <2>2 DEF LayoutTypes, Grids, EmptiesOld, Old
  <2>6. FlushLeads'
    BY <2>1, <2>2 DEF LayoutTypes, Grids, FlushLeads
  <2> QED
    BY <2>3, <2>4, <2>5, <2>6
<1>2. CASE Layout!Fail
  <2>1. PICK s \in saves :
           /\ UNCHANGED <<saved, grid, get, flush, quit, closed>> /\ spent'.revs = spent.revs
           /\ spent' \in [revs : 0..MaxRevs, loads : Nat, faults : Nat, strays : Nat]
           /\ saves' = saves \ {s}
           /\ landed' = IF s.rev = landed.rev THEN [rev |-> 0, clear |-> TRUE] ELSE landed
    BY <1>2 DEF Layout!Fail, Layout!Spend, LayoutTypes
  <2>2. LayoutTypes'
    BY <2>1 DEF LayoutTypes
  <2>3. GateShape' /\ Dated' /\ EmptiesOld'
    BY <2>1 DEF LayoutTypes, GateShape, Dated, EmptiesOld, Old
  <2>4. FlushLeads'
    BY <2>1 DEF LayoutTypes, Grids, FlushLeads
  <2> QED
    BY <2>2, <2>3, <2>4
<1> QED
  BY <1>1, <1>2

\* The page flushes and hears that its write is back.
LEMMA FlushKeeps ==
    ASSUME LayoutInv, Layout!Flush \/ Layout!Answered
    PROVE  LayoutInv'
<1> USE SlotsAssumption DEF LayoutInv, saved, grid, get, saves, flush, quit, landed, closed, spent, Unread,
        Layout!NoFlush
<1>1. CASE Layout!Answered
  <2>1. /\ UNCHANGED <<saved, grid, get, saves, quit, landed, closed, spent>>
        /\ flush' = "done" /\ ~\E s \in saves : s.rev = landed.rev
    BY <1>1 DEF Layout!Answered, Layout!Flushed
  <2> QED
    BY <2>1 DEF LayoutTypes, GateShape, Dated, EmptiesOld, Old, FlushLeads
<1>2. CASE Layout!Flush /\ grid.gate /\ Layout!Safe(grid)
  <2> DEFINE sent == [rev |-> grid.rev, full |-> grid.full]
  <2>1. /\ UNCHANGED <<saved, get, quit, closed, spent>>
        /\ saves' = saves \cup {sent} /\ sent \in Grids /\ grid.rev # Unread
        /\ grid' = [grid EXCEPT !.timer = FALSE, !.knows = @ \/ grid.full]
        /\ flush' = "sent" /\ landed' = [rev |-> grid.rev, clear |-> saves \subseteq {sent}]
        /\ quit \in {"asked", "late"}
    BY <1>2, SafeRead DEF Layout!Flush, Layout!Sent
  <2>2. /\ grid' \in [up : BOOLEAN, gate : BOOLEAN, knows : BOOLEAN, parked : BOOLEAN,
                      timer : BOOLEAN, rev : -1..MaxRevs, full : BOOLEAN]
        /\ grid'.gate = grid.gate /\ grid'.up = grid.up /\ grid'.timer = FALSE
        /\ grid'.rev = grid.rev /\ grid'.full = grid.full /\ grid'.parked = grid.parked
    BY <2>1 DEF LayoutTypes
  <2>3. landed' \in [rev : 0..MaxRevs, clear : BOOLEAN] /\ landed'.rev = grid.rev
        /\ (landed'.clear = TRUE => saves \subseteq {sent})
    <3>1. grid.rev \in 0..MaxRevs
      BY <2>1 DEF LayoutTypes, Grids
    <3>2. CASE saves \subseteq {sent}
      <4>1. landed' = [rev |-> grid.rev, clear |-> TRUE]
        BY <2>1, <3>2
      <4> QED
        BY <3>1, <3>2, <4>1
    <3>3. CASE ~(saves \subseteq {sent})
      <4>1. landed' = [rev |-> grid.rev, clear |-> FALSE]
        BY <2>1, <3>3
      <4> QED
        BY <3>1, <4>1
    <3> QED
      BY <3>2, <3>3
  <2>4. LayoutTypes'
    BY <2>1, <2>2, <2>3 DEF LayoutTypes
  <2>5. GateShape' /\ Dated'
    BY <1>2, <2>1, <2>2, SafeRead DEF LayoutTypes, GateShape, Dated
  <2>6. EmptiesOld'
    BY <2>1, <2>2 DEF LayoutTypes, EmptiesOld, Old
  <2>7. FlushLeads'
    BY <2>1, <2>2, <2>3 DEF LayoutTypes, FlushLeads
  <2> QED
    BY <2>4, <2>5, <2>6, <2>7
<1>3. CASE Layout!Flush /\ ~(grid.gate /\ Layout!Safe(grid))
  <2>1. /\ UNCHANGED <<saved, get, quit, closed, spent, saves, landed>>
        /\ grid' = [grid EXCEPT !.timer = FALSE] /\ flush' = "done" /\ flush = "no"
    BY <1>3 DEF Layout!Flush
  <2>2. /\ grid' \in [up : BOOLEAN, gate : BOOLEAN, knows : BOOLEAN, parked : BOOLEAN,
                      timer : BOOLEAN, rev : -1..MaxRevs, full : BOOLEAN]
        /\ grid'.gate = grid.gate /\ grid'.up = grid.up /\ grid'.timer = FALSE
        /\ grid'.knows = grid.knows
        /\ grid'.rev = grid.rev /\ grid'.full = grid.full /\ grid'.parked = grid.parked
    BY <2>1 DEF LayoutTypes
  <2>3. LayoutTypes'
    BY <2>1, <2>2 DEF LayoutTypes
  <2>4. GateShape' /\ Dated' /\ EmptiesOld' /\ FlushLeads'
    BY <2>1, <2>2 DEF LayoutTypes, GateShape, Dated, EmptiesOld, Old, FlushLeads
  <2> QED
    BY <2>3, <2>4
<1> QED
  BY <1>1, <1>2, <1>3

\* The end of raum, or of its page.
LEMMA QuitKeeps ==
    ASSUME LayoutInv,
           \/ Layout!Close \/ Layout!Ack \/ Layout!QuitTimeout
           \/ Layout!Exit \/ Layout!Abort \/ Layout!PageDies
    PROVE  LayoutInv'
<1> USE SlotsAssumption DEF LayoutInv, saved, grid, get, saves, flush, quit, landed, closed, spent, Unread,
        Layout!NoFlush
<1>0. [rev |-> 0, clear |-> TRUE] \in [rev : 0..MaxRevs, clear : BOOLEAN]
  OBVIOUS
<1>1. CASE Layout!Close \/ Layout!Ack \/ Layout!QuitTimeout
  <2>1. /\ UNCHANGED <<saved, grid, get, saves, flush, closed, spent>>
        /\ quit # "gone" /\ quit' \in {"asked", "acked", "late"}
        /\ quit' = "acked" => flush = "done"
        /\ landed' = landed \/ landed' = [rev |-> 0, clear |-> TRUE]
    BY <1>1 DEF Layout!Close, Layout!Ack, Layout!QuitTimeout
  <2>2. LayoutTypes'
    <3>1. quit' \in {"no", "asked", "acked", "late", "gone"}
          /\ landed' \in [rev : 0..MaxRevs, clear : BOOLEAN]
      BY <1>0, <2>1 DEF LayoutTypes
    <3> QED
      BY <2>1, <3>1 DEF LayoutTypes
  <2>3. GateShape' /\ Dated' /\ EmptiesOld'
    BY <2>1 DEF LayoutTypes, GateShape, Dated, EmptiesOld, Old
  <2>4. FlushLeads'
    BY <2>1 DEF LayoutTypes, Grids, FlushLeads
  <2> QED
    BY <2>2, <2>3, <2>4
<1>2. CASE Layout!Exit \/ Layout!Abort \/ Layout!PageDies
  <2>1. /\ UNCHANGED <<saved, flush, closed, spent>> /\ get' = "none"
        /\ grid' = [up |-> FALSE, gate |-> FALSE, knows |-> FALSE, parked |-> FALSE, timer |-> FALSE,
                    rev |-> -1, full |-> FALSE]
        /\ \/ /\ quit = "acked" /\ quit' = "gone" /\ saves' = {} /\ landed' = landed
           \/ /\ quit' = "gone" /\ saves' = {} /\ landed' = [rev |-> 0, clear |-> TRUE]
           \/ quit # "gone" /\ UNCHANGED <<quit, saves, landed>>
    BY <1>2 DEF Layout!Exit, Layout!Abort, Layout!PageDies, Layout!Gone, Layout!Loaded
  <2>2. LayoutTypes'
    <3>1. grid' \in [up : BOOLEAN, gate : BOOLEAN, knows : BOOLEAN, parked : BOOLEAN,
                     timer : BOOLEAN, rev : -1..MaxRevs, full : BOOLEAN]
      BY <2>1
    <3>2. quit' \in {"no", "asked", "acked", "late", "gone"} /\ saves' \subseteq Grids
          /\ landed' \in [rev : 0..MaxRevs, clear : BOOLEAN]
      BY <1>0, <2>1 DEF LayoutTypes
    <3> QED
      BY <2>1, <3>1, <3>2 DEF LayoutTypes
  <2>3. GateShape' /\ Dated' /\ EmptiesOld'
    BY <2>1 DEF LayoutTypes, GateShape, Dated, EmptiesOld, Old
  <2>4. FlushLeads'
    BY <2>1 DEF LayoutTypes, Grids, FlushLeads, GateShape
  <2> QED
    BY <2>2, <2>3, <2>4
<1> QED
  BY <1>1, <1>2

\* Every step keeps the invariant of the saved grid.
LEMMA LayoutStep == LayoutInv /\ [Layout!Next]_LayoutSlots => LayoutInv'
<1>1. ASSUME LayoutInv, Layout!Next PROVE LayoutInv'
  BY <1>1, LoadKeeps, HydrateKeeps, ChangeKeeps, SaveKeeps, LandKeeps, FlushKeeps, QuitKeeps
     DEF Layout!Next
<1>2. ASSUME LayoutInv, UNCHANGED LayoutSlots PROVE LayoutInv'
  BY <1>2 DEF LayoutInv, LayoutTypes, GateShape, Dated, EmptiesOld, Old, FlushLeads, LayoutSlots,
     saved, grid, get, saves, flush, quit, landed, closed, spent
<1> QED
  BY <1>1, <1>2

\* What LayoutSaves states follows.
LEMMA LayoutSafe == LayoutInv => Layout!TypeOK /\ Layout!LayoutLands
<1> SUFFICES ASSUME LayoutInv PROVE Layout!TypeOK /\ Layout!LayoutLands
  OBVIOUS
<1> USE SlotsAssumption DEF LayoutInv, saved, grid, get, saves, flush, quit, landed, closed, spent
<1>1. Layout!TypeOK
  BY DEF LayoutTypes, GateShape, Layout!TypeOK
<1>2. Layout!LayoutLands
  BY DEF LayoutTypes, GateShape, FlushLeads, Layout!LayoutLands
<1> QED
  BY <1>1, <1>2

LEMMA LayoutMeant == LayoutInv /\ Layout!Next => Layout!EmptiesOnPurpose
<1> SUFFICES ASSUME LayoutInv, Layout!Next, saved.full, saved.ok, ~saved'.full
             PROVE  saved'.rev \in closed \/ saved'.rev \in 0..saved.rev
  BY DEF Layout!EmptiesOnPurpose, saved, closed
<1> USE SlotsAssumption DEF LayoutInv, saved, grid, get, saves, flush, quit, landed, closed, spent
<1>1. saved' # saved
  OBVIOUS
<1>2. CASE Layout!Land
  <2>1. PICK s \in saves : saved' = [ok |-> TRUE, rev |-> s.rev, full |-> s.full]
    BY <1>2 DEF Layout!Land
  <2>2. s.full = FALSE /\ s.rev \in 0..MaxRevs
    BY <2>1 DEF LayoutTypes, Grids
  <2> QED
    BY <2>1, <2>2 DEF EmptiesOld, Old, LayoutTypes
<1>3. ~Layout!Hydrate
  BY <1>1 DEF Layout!Hydrate, Layout!AfterRead
<1>4. ASSUME Layout!Load \/ Layout!GiveUpReading \/ Layout!Change \/ Layout!Stray \/ Layout!Save
      PROVE  saved' = saved
  BY <1>4 DEF Layout!Load, Layout!GiveUpReading, Layout!Change, Layout!Stray, Layout!Save
<1>5. ASSUME Layout!Fail \/ Layout!Close \/ Layout!Flush \/ Layout!Answered \/ Layout!Ack
      PROVE  saved' = saved
  BY <1>5 DEF Layout!Fail, Layout!Close, Layout!Flush, Layout!Answered, Layout!Ack
<1>6. ASSUME Layout!QuitTimeout \/ Layout!Exit \/ Layout!Abort \/ Layout!PageDies
      PROVE  saved' = saved
  BY <1>6 DEF Layout!QuitTimeout, Layout!Exit, Layout!Abort, Layout!PageDies
<1> QED
  BY <1>1, <1>2, <1>3, <1>4, <1>5, <1>6 DEF Layout!Next

-----------------------------------------------------------------------------
(* Projects, whatever the slugs and the bounds: the files, the calls that   *)
(* switch and the watchers are what TypeOK takes them for, at most one      *)
(* watcher lives, and a strategy is saved with a pattern it stands for.     *)

Roots(P) == P \X {"here", "there"}
RootsOf(s) == {<<s, "here">>, <<s, "there">>}
Sections == [strategy : {"sibling-group", "nested", "custom"},
             pattern : {"sibling", "sibling-alias", "nested", "free"}]
Paths == {x \in Sections :
            \/ x.strategy = "custom"
            \/ x.strategy = "nested" /\ x.pattern = "nested"
            \/ x.strategy = "sibling-group" /\ x.pattern \in {"sibling", "sibling-alias"}}
TabFiles(P) == [root : Roots(P), ok : BOOLEAN, worktree : Paths]
Switch(P, I) == [id : I, slug : P \cup {None}, pc : {"resolve", "swap"}, root : Roots(P) \cup {None}]

FilesInv(P) ==
    /\ v1 \in [P -> TabFiles(P) \cup {None}]
    /\ \A s \in P : v1[s] /= None => v1[s].root \in RootsOf(s)
    /\ v2 \in [P -> {None, [strategy |-> "nested", pattern |-> "sibling"]}]
    /\ v3 \in {"blank", "nested", "free"}

PageInv(P) == v4.items \subseteq P /\ v4.active \in v4.items \cup {None}

WatchInv(P) ==
    /\ \E I : v5 \subseteq Switch(P, I)
    /\ \A c \in v5 : c.root /= None => c.slug \in P /\ c.root \in RootsOf(c.slug)
    /\ v7 \in [P -> Roots(P) \cup {None}]
    /\ \A s \in P : v7[s] /= None => v7[s] \in RootsOf(s)
    /\ \A s, t \in P : v7[s] /= None /\ v7[t] /= None => s = t

TabsInv(P) == FilesInv(P) /\ PageInv(P) /\ WatchInv(P)
TabSlots == <<v1, v2, v3, v4, v5, v6, v7, v8>>

(* What normalize returns has a strategy its pattern stands for. *)
LEMMA NormalizedPaths ==
    ASSUME NEW P, NEW u, NEW w, NEW f, NEW x \in Tabs(P, u, w, f)!Worktree
    PROVE  Tabs(P, u, w, f)!Normalized(x) \in Paths
<1>1. PICK st \in {"sibling-group", "nested", "custom"},
           pa \in {"sibling", "sibling-alias", "nested", "free"} :
           x = [strategy |-> st, pattern |-> pa]
  BY DEF Tabs!Worktree, Tabs!Strategies, Tabs!Patterns
<1>2. PICK y : y = Tabs(P, u, w, f)!Normalized(x)
  OBVIOUS
<1>3. y.strategy \in {"sibling-group", "nested", "custom"}
      /\ y.pattern \in {"sibling", "sibling-alias", "nested", "free"}
      /\ y = [strategy |-> y.strategy, pattern |-> y.pattern]
  BY <1>1, <1>2 DEF Tabs!Normalized, Tabs!Preset, Tabs!Inferred
<1>4. Tabs(P, u, w, f)!Consistent(y)
  BY <1>1, <1>2 DEF Tabs!Normalized, Tabs!Preset, Tabs!Inferred, Tabs!Consistent
<1> QED
  BY <1>2, <1>3, <1>4 DEF Paths, Sections, Tabs!Consistent, Tabs!Inferred

LEMMA TabsInit ==
    ASSUME NEW P, NEW u, NEW w, NEW f, Tabs(P, u, w, f)!Init
    PROVE  TabsInv(P)
<1>1. FilesInv(P)
  BY DEF Tabs!Init, FilesInv
<1>2. PageInv(P)
  BY DEF Tabs!Init, PageInv
<1>3. WatchInv(P)
  BY DEF Tabs!Init, WatchInv
<1> QED
  BY <1>1, <1>2, <1>3 DEF TabsInv

(* The commands that write a project's file, and the editor. *)
LEMMA FilesStep ==
    ASSUME NEW P, NEW u, NEW w, NEW f, FilesInv(P), Tabs(P, u, w, f)!Next
    PROVE  FilesInv(P)'
<1>1. ASSUME UNCHANGED <<v1, v2, v3>> PROVE FilesInv(P)'
  BY <1>1 DEF FilesInv
<1>2. ASSUME NEW s \in P, NEW x, v1' = [v1 EXCEPT ![s] = x], UNCHANGED <<v2, v3>>,
             x = None \/ (x \in TabFiles(P) /\ x.root \in RootsOf(s))
      PROVE  FilesInv(P)'
  BY <1>2 DEF FilesInv
<1>3. CASE Tabs(P, u, w, f)!Register
  <2>1. PICK s \in P : \E root \in RootsOf(s) :
          /\ v1' = [v1 EXCEPT ![s] = Tabs(P, u, w, f)!Fresh(root)]
          /\ UNCHANGED <<v2, v3>>
    BY <1>3 DEF Tabs!Register, Tabs!Written, Tabs!Roots, RootsOf
  <2>0. PICK root \in RootsOf(s) :
          /\ v1' = [v1 EXCEPT ![s] = Tabs(P, u, w, f)!Fresh(root)]
          /\ UNCHANGED <<v2, v3>>
    BY <2>1
  <2>2. root \in Roots(P)
    BY <2>0 DEF Roots, RootsOf
  <2>3. Tabs(P, u, w, f)!DefaultWorktree \in Paths
    BY DEF Paths, Sections, Tabs!DefaultWorktree, Tabs!Worktree, Tabs!Strategies, Tabs!Patterns,
           Tabs!Consistent, Tabs!Inferred
  <2>4. PICK x : x = Tabs(P, u, w, f)!Fresh(root)
    OBVIOUS
  <2>5. x \in TabFiles(P) /\ x.root = root
    BY <2>2, <2>3, <2>4 DEF Tabs!Fresh, TabFiles
  <2> QED
    BY <1>2, <2>0, <2>4, <2>5
<1>4. CASE Tabs(P, u, w, f)!Update
  <2>1. PICK s \in P, x \in Tabs(P, u, w, f)!Worktree :
          /\ v1[s] /= None
          /\ v1' = [v1 EXCEPT ![s] = [v1[s] EXCEPT !.worktree = Tabs(P, u, w, f)!Normalized(x)]]
          /\ UNCHANGED <<v2, v3>>
    BY <1>4 DEF Tabs!Update, Tabs!Written, Tabs!Readable
  <2>2. PICK n : n = Tabs(P, u, w, f)!Normalized(x)
    OBVIOUS
  <2>3. n \in Paths
    BY <2>2, NormalizedPaths
  <2>4. v1[s] \in TabFiles(P) /\ v1[s].root \in RootsOf(s)
    BY <2>1 DEF FilesInv
  <2>5. PICK y : y = [v1[s] EXCEPT !.worktree = n]
    OBVIOUS
  <2>6. y \in TabFiles(P) /\ y.root = v1[s].root
    BY <2>3, <2>4, <2>5 DEF TabFiles
  <2> QED
    BY <1>2, <2>1, <2>2, <2>4, <2>5, <2>6
<1>5. CASE Tabs(P, u, w, f)!Break
  <2>1. PICK s \in P : /\ v1[s] /= None /\ v1' = [v1 EXCEPT ![s].ok = ~@]
                       /\ UNCHANGED <<v2, v3>>
    BY <1>5 DEF Tabs!Break
  <2>2. v1[s] \in TabFiles(P) /\ v1[s].root \in RootsOf(s)
    BY <2>1 DEF FilesInv
  <2>3. PICK y : y = [v1[s] EXCEPT !.ok = ~@]
    OBVIOUS
  <2>4. y \in TabFiles(P) /\ y.root = v1[s].root
    BY <2>2, <2>3 DEF TabFiles
  <2>5. v1' = [v1 EXCEPT ![s] = y]
    BY <2>1, <2>3
  <2> QED
    BY <1>2, <2>1, <2>2, <2>4, <2>5
<1>6. ASSUME NEW s \in P, Tabs(P, u, w, f)!RemoveDelete(s) \/ Tabs(P, u, w, f)!RemoveDeleteFails(s)
      PROVE  FilesInv(P)'
  BY <1>1, <1>2, <1>6 DEF Tabs!RemoveDelete, Tabs!RemoveDeleteFails
<1>7. ASSUME NEW s \in P, Tabs(P, u, w, f)!RemoveWatcher(s) PROVE FilesInv(P)'
  BY <1>1, <1>7 DEF Tabs!RemoveWatcher
<1>8. CASE Tabs(P, u, w, f)!Click \/ Tabs(P, u, w, f)!Refresh \/ Tabs(P, u, w, f)!OpenDirectory
           \/ Tabs(P, u, w, f)!RemoveStart
  BY <1>1, <1>8 DEF Tabs!Click, Tabs!Refresh, Tabs!OpenDirectory, Tabs!RemoveStart
<1>9. ASSUME NEW c \in v5, Tabs(P, u, w, f)!Resolve(c) \/ Tabs(P, u, w, f)!Swap(c)
      PROVE  FilesInv(P)'
  BY <1>1, <1>9 DEF Tabs!Resolve, Tabs!Swap
<1> QED
  BY <1>3, <1>4, <1>5, <1>6, <1>7, <1>8, <1>9 DEF Tabs!Next

(* The tab strip, and the call a click or a refresh makes. *)
LEMMA PageStep ==
    ASSUME NEW P, NEW u, NEW w, NEW f, PageInv(P), Tabs(P, u, w, f)!Next
    PROVE  PageInv(P)'
<1>1. ASSUME UNCHANGED v4 PROVE PageInv(P)'
  BY <1>1 DEF PageInv
<1>2. CASE Tabs(P, u, w, f)!Click
  BY <1>2 DEF Tabs!Click, Tabs!Selected, PageInv
<1>3. CASE Tabs(P, u, w, f)!Refresh
  <2>1. PICK items, s : items \subseteq P /\ s \in items \cup {None}
                        /\ v4' = [items |-> items, active |-> s]
    BY <1>3 DEF Tabs!Refresh, Tabs!Listed
  <2> QED
    BY <2>1 DEF PageInv
<1>4. CASE Tabs(P, u, w, f)!OpenDirectory
  <2>1. PICK s \in P : v4' = [items |-> v4.items \cup {s}, active |-> s]
    BY <1>4 DEF Tabs!OpenDirectory
  <2> QED
    BY <2>1 DEF PageInv
<1>5. CASE Tabs(P, u, w, f)!Register \/ Tabs(P, u, w, f)!Update \/ Tabs(P, u, w, f)!RemoveStart
           \/ Tabs(P, u, w, f)!Break
  BY <1>1, <1>5 DEF Tabs!Register, Tabs!Update, Tabs!RemoveStart, Tabs!Break
<1>6. ASSUME NEW s \in P, \/ Tabs(P, u, w, f)!RemoveDelete(s) \/ Tabs(P, u, w, f)!RemoveDeleteFails(s)
                           \/ Tabs(P, u, w, f)!RemoveWatcher(s)
      PROVE  PageInv(P)'
  BY <1>1, <1>6 DEF Tabs!RemoveDelete, Tabs!RemoveDeleteFails, Tabs!RemoveWatcher
<1>7. ASSUME NEW c \in v5, Tabs(P, u, w, f)!Resolve(c) \/ Tabs(P, u, w, f)!Swap(c) PROVE PageInv(P)'
  BY <1>1, <1>7 DEF Tabs!Resolve, Tabs!Swap
<1> QED
  BY <1>2, <1>3, <1>4, <1>5, <1>6, <1>7 DEF Tabs!Next

(* A call is made for a tab, and finds the root that the project has then. *)
LEMMA AskedSwitch ==
    ASSUME NEW P, NEW u, NEW w, NEW f, WatchInv(P), NEW s \in P \cup {None},
           Tabs(P, u, w, f)!Selected(s), UNCHANGED v7
    PROVE  WatchInv(P)'
<1>1. CASE UNCHANGED v5
  BY <1>1 DEF WatchInv
<1>2. ASSUME NEW i, v5' = v5 \cup {[id |-> i, slug |-> s, pc |-> "resolve", root |-> None]}
      PROVE  WatchInv(P)'
  <2>1. PICK I : v5 \subseteq Switch(P, I)
    BY DEF WatchInv
  <2>2. PICK c : c = [id |-> i, slug |-> s, pc |-> "resolve", root |-> None]
    OBVIOUS
  <2>3. c \in Switch(P, I \cup {i}) /\ c.root = None
    BY <2>2 DEF Switch
  <2>4. v5' \subseteq Switch(P, I \cup {i})
    BY <1>2, <2>1, <2>2, <2>3 DEF Switch
  <2>5. \A d \in v5' : d.root /= None => d.slug \in P /\ d.root \in RootsOf(d.slug)
    BY <1>2, <2>2, <2>3 DEF WatchInv
  <2>6. \E J : v5' \subseteq Switch(P, J)
    BY <2>4
  <2> QED
    BY <2>5, <2>6 DEF WatchInv
<1> QED
  BY <1>1, <1>2 DEF Tabs!Selected

LEMMA ResolveStep ==
    ASSUME NEW P, NEW u, NEW w, NEW f, None \notin P, FilesInv(P), WatchInv(P),
           NEW c \in v5, Tabs(P, u, w, f)!Resolve(c)
    PROVE  WatchInv(P)'
<1>1. PICK I : v5 \subseteq Switch(P, I)
  BY DEF WatchInv
<1>2. PICK r : r = IF Tabs(P, u, w, f)!Readable(c.slug) THEN v1[c.slug].root ELSE None
  OBVIOUS
<1>3. c \in Switch(P, I) /\ c.slug \in P \cup {None}
  BY <1>1 DEF Switch
<1>4. r = None \/ (c.slug \in P /\ r \in RootsOf(c.slug))
  BY <1>2, <1>3 DEF Tabs!Readable, FilesInv
<1>5. r \in Roots(P) \cup {None}
  BY <1>4 DEF Roots, RootsOf
<1>6. PICK d : d = [c EXCEPT !.pc = "swap", !.root = r]
  OBVIOUS
<1>7. d \in Switch(P, I) /\ d.slug = c.slug /\ d.root = r
  BY <1>3, <1>5, <1>6 DEF Switch
<1>8. v5' = (v5 \ {c}) \cup {d} /\ UNCHANGED v7
  BY <1>2, <1>6 DEF Tabs!Resolve
<1>9. v5' \subseteq Switch(P, I)
  BY <1>1, <1>7, <1>8
<1>10. \A e \in v5' : e.root /= None => e.slug \in P /\ e.root \in RootsOf(e.slug)
  BY <1>4, <1>7, <1>8 DEF WatchInv
<1>11. \E J : v5' \subseteq Switch(P, J)
  BY <1>9
<1> QED
  BY <1>8, <1>10, <1>11 DEF WatchInv

(* retain_only leaves the target's watcher alone, and only its own starts. *)
LEMMA SwapStep ==
    ASSUME NEW P, NEW u, NEW w, NEW f, None \notin P, WatchInv(P),
           NEW c \in v5, Tabs(P, u, w, f)!Swap(c)
    PROVE  WatchInv(P)'
<1> DEFINE kept == Tabs(P, u, w, f)!Retained(Tabs(P, u, w, f)!Target(c))
           starts == {s \in {Tabs(P, u, w, f)!Target(c)} \ {None} : kept[s] = None}
<1>1. PICK I : v5 \subseteq Switch(P, I)
  BY DEF WatchInv
<1>2. /\ v5' = v5 \ {c}
      /\ v7' = kept \/ v7' = [s \in P |-> IF s \in starts THEN c.root ELSE kept[s]]
  BY DEF Tabs!Swap
<1>3. \E J : v5' \subseteq Switch(P, J)
  BY <1>1, <1>2
<1>4. \A d \in v5' : d.root /= None => d.slug \in P /\ d.root \in RootsOf(d.slug)
  BY <1>2 DEF WatchInv
<1>5. kept = [s \in P |-> IF s = Tabs(P, u, w, f)!Target(c) THEN v7[s] ELSE None]
  BY DEF Tabs!Retained
<1>6. \A s \in starts : c.root /= None /\ s = c.slug
  BY DEF Tabs!Target
<1>7. v7' \in [P -> Roots(P) \cup {None}]
  BY <1>1, <1>2, <1>5 DEF WatchInv, Switch
<1>8. \A s \in P : v7'[s] /= None => v7'[s] \in RootsOf(s)
  BY <1>2, <1>5, <1>6 DEF WatchInv
<1>9. \A s \in P : v7'[s] /= None => s = Tabs(P, u, w, f)!Target(c)
  BY <1>2, <1>5
<1> QED
  BY <1>3, <1>4, <1>7, <1>8, <1>9 DEF WatchInv

LEMMA WatchStep ==
    ASSUME NEW P, NEW u, NEW w, NEW f, None \notin P, TabsInv(P), Tabs(P, u, w, f)!Next
    PROVE  WatchInv(P)'
<1>0. FilesInv(P) /\ PageInv(P) /\ WatchInv(P)
  BY DEF TabsInv
<1>1. ASSUME UNCHANGED <<v5, v7>> PROVE WatchInv(P)'
  BY <1>0, <1>1 DEF WatchInv
<1>2. CASE Tabs(P, u, w, f)!Click
  <2>1. PICK s \in v4.items : Tabs(P, u, w, f)!Selected(s) /\ UNCHANGED v7
    BY <1>2 DEF Tabs!Click
  <2> QED
    BY <1>0, <2>1, AskedSwitch DEF PageInv
<1>3. CASE Tabs(P, u, w, f)!Refresh
  <2>1. PICK s \in Tabs(P, u, w, f)!Listed \cup {None} :
          Tabs(P, u, w, f)!Selected(s) /\ UNCHANGED v7
    BY <1>3 DEF Tabs!Refresh
  <2> QED
    BY <1>0, <2>1, AskedSwitch DEF Tabs!Listed
<1>4. CASE Tabs(P, u, w, f)!OpenDirectory
  <2>1. PICK s \in P : Tabs(P, u, w, f)!Selected(s) /\ UNCHANGED v7
    BY <1>4 DEF Tabs!OpenDirectory
  <2> QED
    BY <1>0, <2>1, AskedSwitch
<1>5. CASE Tabs(P, u, w, f)!Register \/ Tabs(P, u, w, f)!Update \/ Tabs(P, u, w, f)!RemoveStart
           \/ Tabs(P, u, w, f)!Break
  BY <1>1, <1>5 DEF Tabs!Register, Tabs!Update, Tabs!RemoveStart, Tabs!Break
<1>6. ASSUME NEW s \in P, Tabs(P, u, w, f)!RemoveDelete(s) \/ Tabs(P, u, w, f)!RemoveDeleteFails(s)
      PROVE  WatchInv(P)'
  BY <1>1, <1>6 DEF Tabs!RemoveDelete, Tabs!RemoveDeleteFails
<1>7. ASSUME NEW s \in P, Tabs(P, u, w, f)!RemoveWatcher(s) PROVE WatchInv(P)'
  BY <1>0, <1>7 DEF Tabs!RemoveWatcher, WatchInv
<1>8. ASSUME NEW c \in v5, Tabs(P, u, w, f)!Resolve(c) \/ Tabs(P, u, w, f)!Swap(c)
      PROVE  WatchInv(P)'
  BY <1>0, <1>8, ResolveStep, SwapStep
<1> QED
  BY <1>2, <1>3, <1>4, <1>5, <1>6, <1>7, <1>8 DEF Tabs!Next

LEMMA TabsStep ==
    ASSUME NEW P, NEW u, NEW w, NEW f, None \notin P, TabsInv(P),
           [Tabs(P, u, w, f)!Next]_TabSlots
    PROVE  TabsInv(P)'
<1>1. CASE Tabs(P, u, w, f)!Next
  BY <1>1, FilesStep, PageStep, WatchStep DEF TabsInv
<1>2. CASE UNCHANGED TabSlots
  BY <1>2 DEF TabSlots, TabsInv, FilesInv, PageInv, WatchInv
<1> QED
  BY <1>1, <1>2

LEMMA TabsTyped ==
    ASSUME NEW P, NEW u, NEW w, NEW f, TabsInv(P)
    PROVE  Tabs(P, u, w, f)!TypeOK
<1>1. PICK W : W = Tabs(P, u, w, f)!Watched
  OBVIOUS
<1>2. W = {s \in P : v7[s] /= None}
  BY <1>1 DEF Tabs!Watched
<1>3. \A s, t \in W : s = t
  BY <1>2 DEF TabsInv, WatchInv
<1>4. \A s \in W : v7[s] \in Tabs(P, u, w, f)!Roots(s)
  BY <1>2 DEF TabsInv, WatchInv, Tabs!Roots, RootsOf
<1>5. v4.active \in v4.items \cup {None}
  BY DEF TabsInv, PageInv
<1>6. \A s, t \in Tabs(P, u, w, f)!Watched : s = t
  BY <1>1, <1>3
<1>7. \A s \in Tabs(P, u, w, f)!Watched : v7[s] \in Tabs(P, u, w, f)!Roots(s)
  BY <1>1, <1>4
<1> QED
  BY <1>5, <1>6, <1>7 DEF Tabs!TypeOK

(* The path the page shows is the global one, whose strategy is inferred,   *)
(* and the command line starts from it or from its own flags.               *)
LEMMA TabsTold ==
    ASSUME NEW P, NEW u, NEW w, NEW f, None \notin P, TabsInv(P),
           None \notin {"sibling-group", "nested", "custom"}
    PROVE  Tabs(P, u, w, f)!StrategyTold
<1> SUFFICES ASSUME NEW s \in P, v1[s] /= None
             PROVE  /\ Tabs(P, u, w, f)!Consistent(v1[s].worktree)
                    /\ Tabs(P, u, w, f)!Effective(s).strategy
                         = Tabs(P, u, w, f)!Inferred(Tabs(P, u, w, f)!Effective(s).pattern)
                    /\ \A flag \in Tabs(P, u, w, f)!Strategies \cup {None},
                          path \in Tabs(P, u, w, f)!Patterns \cup {None} :
                         \A plan \in Tabs(P, u, w, f)!CliPlans([flag |-> None, env |-> s, here |-> None],
                                                               flag, path) :
                            /\ Tabs(P, u, w, f)!Consistent(plan.worktree)
                            /\ flag = None /\ path = None =>
                                 plan.worktree = Tabs(P, u, w, f)!Effective(s)
  BY DEF Tabs!StrategyTold
<1>1. v1[s] \in TabFiles(P) /\ v2 \in [P -> {None, [strategy |-> "nested", pattern |-> "sibling"]}]
      /\ v3 \in {"blank", "nested", "free"}
  BY DEF TabsInv, FilesInv
<1>2. v1[s].worktree \in Paths
  BY <1>1 DEF TabFiles
<1>3. Tabs(P, u, w, f)!Consistent(v1[s].worktree)
  BY <1>2 DEF Paths, Sections, Tabs!Consistent, Tabs!Inferred
<1>4. PICK m : m = Tabs(P, u, w, f)!Merged(s)
  OBVIOUS
<1>5. m \in Sections
  <2>1. v2[s] = None \/ v2[s] = [strategy |-> "nested", pattern |-> "sibling"]
    BY <1>1
  <2>2. m = v2[s] \/ m = v1[s].worktree
    BY <1>4 DEF Tabs!Merged, Tabs!Committed
  <2>3. m = v2[s] => v2[s] /= None \/ m = v1[s].worktree
    BY <1>4 DEF Tabs!Merged, Tabs!Committed
  <2> QED
    BY <1>2, <2>1, <2>2, <2>3 DEF Paths, Sections
<1>6. PICK e : e = Tabs(P, u, w, f)!Effective(s)
  OBVIOUS
<1>7. e = [strategy |-> e.strategy, pattern |-> e.pattern]
      /\ \/ e.pattern = "nested" /\ e.strategy = "nested"
         \/ e.pattern = "free" /\ e.strategy = "custom"
  BY <1>1, <1>4, <1>5, <1>6 DEF Sections, Tabs!Effective, Tabs!GlobalPath, Tabs!Inferred
<1>8. e.strategy = Tabs(P, u, w, f)!Inferred(e.pattern)
  BY <1>7 DEF Tabs!Inferred
<1>9. ASSUME NEW flag \in Tabs(P, u, w, f)!Strategies \cup {None},
             NEW path \in Tabs(P, u, w, f)!Patterns \cup {None},
             NEW plan \in Tabs(P, u, w, f)!CliPlans([flag |-> None, env |-> s, here |-> None], flag, path)
      PROVE  /\ Tabs(P, u, w, f)!Consistent(plan.worktree)
             /\ flag = None /\ path = None => plan.worktree = e
  <2>1. PICK y : y = Tabs(P, u, w, f)!CliStrategy(e, flag, path)
    OBVIOUS
  <2>2. Tabs(P, u, w, f)!CliProject(None, s, None) \subseteq {s}
    BY DEF Tabs!CliProject
  <2>3. plan.worktree = y /\ y /= None
    BY <1>6, <1>9, <2>1, <2>2 DEF Tabs!CliPlans
  <2>4. flag \in {"sibling-group", "nested", "custom", None}
    BY DEF Tabs!Strategies
  <2>5. CASE flag = None /\ path = None
    <3>1. y = e
      BY <2>1, <2>5 DEF Tabs!CliStrategy
    <3> QED
      BY <1>7, <2>3, <3>1 DEF Tabs!Consistent, Tabs!Inferred
  <2>6. CASE flag = None /\ path /= None
    <3>1. y.strategy = "custom"
      BY <2>1, <2>6 DEF Tabs!CliStrategy, Tabs!Custom
    <3> QED
      BY <2>3, <2>6, <3>1 DEF Tabs!Consistent
  <2>7. CASE flag /= None
    <3>1. y.strategy = "custom" \/ y = [strategy |-> "nested", pattern |-> "nested"]
          \/ y = [strategy |-> "sibling-group", pattern |-> "sibling"]
      BY <2>1, <2>3, <2>4, <2>7 DEF Tabs!CliStrategy, Tabs!Custom, Tabs!Preset
    <3> QED
      BY <2>3, <2>7, <3>1 DEF Tabs!Consistent, Tabs!Inferred
  <2> QED
    BY <2>5, <2>6, <2>7
<1> QED
  BY <1>3, <1>6, <1>8, <1>9

-----------------------------------------------------------------------------
(* HarnessSetup, whatever the harnesses: an install that is applied has the *)
(* user's part of the files as it is on disk, until somebody edits one, and *)
(* what its harness needs is done or still in its plan.                     *)

Contents ==
    {x \in [form : {"absent", "good", "broken"}, user : Nat, raum : {"no", "stale", "fresh"},
            first : BOOLEAN, trust : SUBSET {"p"}, seeded : SUBSET {"p"}] :
       x.form = "absent" => x.raum = "no"}

(* The actions of a plan. *)
WriteActs(F) ==
    {a \in [do : {"write"}, at : F, content : Contents] :
       /\ a.at[1] \in {"local", "toml", "hooks"}
       /\ a.content.form = "good" /\ a.content.raum = "fresh"
       /\ a.at[1] = "hooks" => a.content.first = TRUE}
SweepActs(F) ==
    {a \in [do : {"sweep"}, at : F] : a.at[1] \in {"shared", "user", "old", "opencode"}}
ScriptActs == [do : {"script", "chmod"}, at : {"claude", "codex", "notify"}]
Acts(F) == WriteActs(F) \cup SweepActs(F) \cup ScriptActs

Applying(H, F) == [pc : {"apply"}, h : H, p : {"p"}, todo : Seq(Acts(F)), ok : BOOLEAN, seen : Nat]

(* What harness h needs, as action d on file or script a; whether it is     *)
(* done, and whether a plan still has it.                                   *)
Needs(h, d, a) ==
    \/ h = "claude" /\ d = "write" /\ a = <<"local", "p">>
    \/ h = "claude" /\ d = "script" /\ a = "claude"
    \/ h = "codex" /\ d = "write" /\ a = <<"toml", Home>>
    \/ h = "codex" /\ d = "script" /\ a = "notify"
    \/ h = "codex" /\ v1 = TRUE /\ d = "script" /\ a = "codex"
    \/ h = "codex" /\ v1 = TRUE /\ d = "write" /\ a = <<"hooks", "p">>
    \/ h = "opencode" /\ d = "sweep" /\ a = <<"opencode", Home>>
Done(d, a) ==
    /\ d = "write" => /\ v2[a].form = "good" /\ v2[a].raum = "fresh"
                      /\ a[1] = "hooks" => v2[a].first = TRUE
    /\ d = "script" => v3[a] /= "absent"
    /\ d = "sweep" => v2[a].raum = "no" \/ v2[a].form = "broken"
Queued(todo, d, a) == \E i \in 1..Len(todo) : todo[i].do = d /\ todo[i].at = a

SetupTypes(H, F) ==
    /\ v1 \in BOOLEAN
    /\ v2 \in [F -> Contents]
    /\ v3 \in [{"claude", "codex", "notify"} -> {"absent", "plain", "runnable"}]
    /\ v4 = [c \in Calls |-> v4[c]]
    /\ v5 \in BOOLEAN /\ v6 \in Nat
    /\ \A c \in Calls : v4[c].pc = "apply" => v4[c] \in Applying(H, F)
    /\ \A c \in Calls : v4[c].pc \in {"apply", "installed"} =>
         v4[c].h \in H /\ v4[c].p = "p" /\ v4[c].seen \in 0..v6

\* A write has the user's part as it is on disk.
FreshActs(F) ==
    {a \in Acts(F) : a.do = "write" => /\ a.content.user = v2[a.at].user
                                       /\ v2[a.at].form /= "broken"}
Current(F) ==
    v5 = FALSE => \A c \in Calls : v4[c].pc = "apply" => v4[c].todo \in Seq(FreshActs(F))

Provided ==
    \A c \in Calls, d \in {"write", "script", "sweep"} : \A a :
        Needs(v4[c].h, d, a) /\ v4[c].pc \in {"apply", "installed"} /\ v4[c].seen = v6 =>
            \/ Done(d, a)
            \/ v4[c].pc = "apply" /\ (v4[c].ok = FALSE \/ Queued(v4[c].todo, d, a))

SetupInv(H, F) == SetupTypes(H, F) /\ Current(F) /\ Provided
SetupSlots == <<v1, v2, v3, v4, v5, v6, v7>>

(* The files of the harnesses. *)
LEMMA FilesAre ==
    ASSUME NEW H \in SUBSET {"claude", "codex", "opencode"}
    PROVE  \A f : f \in Setup(H)!Files <=>
             \/ "claude" \in H /\ f \in {<<"local", "p">>, <<"shared", "p">>, <<"user", Home>>}
             \/ "codex" \in H /\ f \in {<<"hooks", "p">>, <<"toml", Home>>, <<"old", Home>>}
             \/ "opencode" \in H /\ f = <<"opencode", Home>>
<1>1. /\ Setup(H)!FilesOf("claude") = {<<"local", "p">>, <<"shared", "p">>, <<"user", Home>>}
      /\ Setup(H)!FilesOf("codex") = {<<"hooks", "p">>, <<"toml", Home>>, <<"old", Home>>}
      /\ Setup(H)!FilesOf("opencode") = {<<"opencode", Home>>}
  BY DEF Setup!FilesOf
<1>2. Setup(H)!Files = UNION {Setup(H)!FilesOf(h) : h \in H}
  BY DEF Setup!Files
<1>3. \A f : f \in Setup(H)!Files <=> \E h \in H : f \in Setup(H)!FilesOf(h)
  BY <1>2
<1> QED
  BY <1>1, <1>3

(* Plans joined. *)
LEMMA Joined ==
    ASSUME NEW S, NEW s \in Seq(S), NEW t \in Seq(S)
    PROVE  /\ s \o t \in Seq(S)
           /\ \A d, a : Queued(s, d, a) \/ Queued(t, d, a) => Queued(s \o t, d, a)
<1>1. s \o t \in Seq(S) /\ Len(s \o t) = Len(s) + Len(t) /\ Len(s) \in Nat /\ Len(t) \in Nat
  BY ConcatProperties, LenProperties
<1>2. \A i \in 1..Len(s) : i \in 1..Len(s \o t) /\ (s \o t)[i] = s[i]
  BY <1>1
<1>3. \A i \in 1..Len(t) : Len(s) + i \in 1..Len(s \o t) /\ (s \o t)[Len(s) + i] = t[i]
  BY <1>1
<1> QED
  BY <1>1, <1>2, <1>3 DEF Queued

LEMMA Single ==
    ASSUME NEW S, NEW x \in S
    PROVE  <<x>> \in Seq(S) /\ Queued(<<x>>, x.do, x.at)
<1>1. <<x>> \in Seq(S) /\ Len(<<x>>) = 1 /\ <<x>>[1] = x
  OBVIOUS
<1> QED
  BY <1>1 DEF Queued

LEMMA Pair ==
    ASSUME NEW S, NEW x \in S, NEW y \in S
    PROVE  <<x, y>> \in Seq(S) /\ Queued(<<x, y>>, x.do, x.at) /\ Queued(<<x, y>>, y.do, y.at)
<1>1. <<x, y>> \in Seq(S) /\ Len(<<x, y>>) = 2 /\ <<x, y>>[1] = x /\ <<x, y>>[2] = y
  OBVIOUS
<1> QED
  BY <1>1 DEF Queued

(* A plan has the user's part of the files it has parsed, and all that its  *)
(* harness needs.                                                           *)
LEMMA PlansFit ==
    ASSUME NEW H \in SUBSET {"claude", "codex", "opencode"}, NEW h \in H,
           SetupTypes(H, Setup(H)!Files),
           \A f \in Setup(H)!Sources(h, "p") : v2[f].form /= "broken"
    PROVE  /\ Setup(H)!Plan(h, "p") \in Seq(FreshActs(Setup(H)!Files))
           /\ \A d, a : Needs(h, d, a) => Queued(Setup(H)!Plan(h, "p"), d, a)
<1> DEFINE F == Setup(H)!Files
<1>1. v1 \in BOOLEAN /\ v2 \in [F -> Contents]
  BY DEF SetupTypes
<1>2. ASSUME NEW x \in {"shared", "user", "old", "opencode"}, NEW o, <<x, o>> \in F
      PROVE  /\ Setup(H)!Sweep(<<x, o>>) \in FreshActs(F)
             /\ Setup(H)!Sweep(<<x, o>>).do = "sweep" /\ Setup(H)!Sweep(<<x, o>>).at = <<x, o>>
  BY <1>2 DEF Setup!Sweep, FreshActs, Acts, SweepActs
<1>3. ASSUME NEW x \in {"claude", "codex", "notify"}
      PROVE  /\ Setup(H)!WriteScript(x) \in Seq(FreshActs(F))
             /\ Queued(Setup(H)!WriteScript(x), "script", x)
  <2>1. PICK a : a = [do |-> "script", at |-> x]
    OBVIOUS
  <2>2. PICK b : b = [do |-> "chmod", at |-> x]
    OBVIOUS
  <2>3. a \in FreshActs(F) /\ b \in FreshActs(F)
    BY <2>1, <2>2 DEF FreshActs, Acts, ScriptActs
  <2>4. Setup(H)!WriteScript(x) = <<a, b>>
    BY <2>1, <2>2 DEF Setup!WriteScript
  <2> QED
    BY <2>1, <2>3, <2>4, Pair
<1>4. ASSUME NEW f \in F, f[1] \in {"local", "toml", "hooks"}, v2[f].form /= "broken",
             NEW x \in Contents, x.form = "good", x.raum = "fresh", x.user = v2[f].user,
             f[1] = "hooks" => x.first = TRUE
      PROVE  /\ <<Setup(H)!Write(f, x)>> \in Seq(FreshActs(F))
             /\ Queued(<<Setup(H)!Write(f, x)>>, "write", f)
  <2>1. PICK a : a = Setup(H)!Write(f, x)
    OBVIOUS
  <2>2. a = [do |-> "write", at |-> f, content |-> x]
    BY <2>1 DEF Setup!Write
  <2>3. a \in WriteActs(F)
    BY <1>4, <2>2 DEF WriteActs
  <2>4. a \in FreshActs(F) /\ a.do = "write" /\ a.at = f
    BY <1>4, <2>2, <2>3 DEF FreshActs, Acts
  <2> QED
    BY <2>1, <2>4, Single
<1>5. CASE h = "claude"
  <2>1. <<"local", "p">> \in F /\ <<"shared", "p">> \in F /\ <<"user", Home>> \in F
    BY <1>5, FilesAre
  <2>2. v2[<<"local", "p">>] \in Contents /\ v2[<<"local", "p">>].form /= "broken"
    BY <1>1, <1>5, <2>1 DEF Setup!Sources
  <2>3. PICK x : x = Setup(H)!AppendedHooks(<<"local", "p">>)
    OBVIOUS
  <2>4. x \in Contents /\ x.form = "good" /\ x.raum = "fresh" /\ x.user = v2[<<"local", "p">>].user
    BY <2>2, <2>3 DEF Setup!AppendedHooks, Contents
  <2>5. PICK s : s = <<Setup(H)!Sweep(<<"shared", "p">>), Setup(H)!Sweep(<<"user", Home>>)>>
    OBVIOUS
  <2>6. PICK t : t = Setup(H)!WriteScript("claude")
    OBVIOUS
  <2>7. PICK w : w = <<Setup(H)!Write(<<"local", "p">>, x)>>
    OBVIOUS
  <2>8. Setup(H)!Plan(h, "p") = (s \o t) \o w
    BY <1>5, <2>3, <2>5, <2>6, <2>7 DEF Setup!Plan, Setup!PlanClaude
  <2>9. s \in Seq(FreshActs(F))
    BY <1>2, <2>1, <2>5, Pair
  <2>10. t \in Seq(FreshActs(F)) /\ Queued(t, "script", "claude")
    BY <1>3, <2>6
  <2>11. w \in Seq(FreshActs(F)) /\ Queued(w, "write", <<"local", "p">>)
    BY <1>4, <2>1, <2>2, <2>4, <2>7
  <2>12. s \o t \in Seq(FreshActs(F)) /\ Queued(s \o t, "script", "claude")
    BY <2>9, <2>10, Joined
  <2>13. /\ (s \o t) \o w \in Seq(FreshActs(F)) /\ Queued((s \o t) \o w, "script", "claude")
         /\ Queued((s \o t) \o w, "write", <<"local", "p">>)
    BY <2>11, <2>12, Joined
  <2> QED
    BY <1>5, <2>8, <2>13 DEF Needs
<1>6. CASE h = "codex"
  <2>1. <<"hooks", "p">> \in F /\ <<"toml", Home>> \in F /\ <<"old", Home>> \in F
    BY <1>6, FilesAre
  <2>2. v2[<<"toml", Home>>] \in Contents /\ v2[<<"toml", Home>>].form /= "broken"
    BY <1>1, <1>6, <2>1 DEF Setup!Sources, Setup!Toml
  <2>3. PICK x : x = Setup(H)!MergedToml("p")
    OBVIOUS
  <2>4. x \in Contents /\ x.form = "good" /\ x.raum = "fresh" /\ x.user = v2[<<"toml", Home>>].user
    BY <1>1, <2>2, <2>3 DEF Setup!MergedToml, Setup!Stripped, Setup!Toml, Setup!Seeds, Contents
  <2>5. PICK s : s = Setup(H)!WriteScript("notify")
    OBVIOUS
  <2>6. PICK t : t = <<Setup(H)!Write(<<"toml", Home>>, x)>>
    OBVIOUS
  <2>7. s \in Seq(FreshActs(F)) /\ Queued(s, "script", "notify")
    BY <1>3, <2>5
  <2>8. t \in Seq(FreshActs(F)) /\ Queued(t, "write", <<"toml", Home>>)
    BY <1>4, <2>1, <2>2, <2>4, <2>6
  <2>9. /\ s \o t \in Seq(FreshActs(F)) /\ Queued(s \o t, "script", "notify")
        /\ Queued(s \o t, "write", <<"toml", Home>>)
    BY <2>7, <2>8, Joined
  <2>10. CASE v1 = FALSE
    <3>1. Setup(H)!Plan(h, "p") = (s \o t) \o << >>
      BY <1>6, <2>3, <2>5, <2>6, <2>10 DEF Setup!Plan, Setup!PlanCodex, Setup!Toml
    <3>2. Setup(H)!Plan(h, "p") = s \o t
      BY <2>9, <3>1, ConcatEmptySeq
    <3> QED
      BY <1>6, <2>9, <2>10, <3>2 DEF Needs
  <2>11. CASE v1 = TRUE
    <3>1. v2[<<"hooks", "p">>] \in Contents /\ v2[<<"hooks", "p">>].form /= "broken"
      BY <1>1, <1>6, <2>1, <2>11 DEF Setup!Sources
    <3>2. PICK y : y = Setup(H)!PrependedHooks(<<"hooks", "p">>)
      OBVIOUS
    <3>3. /\ y \in Contents /\ y.form = "good" /\ y.raum = "fresh" /\ y.first = TRUE
          /\ y.user = v2[<<"hooks", "p">>].user
      BY <3>1, <3>2 DEF Setup!PrependedHooks, Contents
    <3>4. PICK u : u = <<Setup(H)!Sweep(<<"old", Home>>)>>
      OBVIOUS
    <3>5. PICK v : v = Setup(H)!WriteScript("codex")
      OBVIOUS
    <3>6. PICK w : w = <<Setup(H)!Write(<<"hooks", "p">>, y)>>
      OBVIOUS
    <3>7. Setup(H)!Plan(h, "p") = (s \o t) \o ((u \o v) \o w)
      BY <1>6, <2>3, <2>5, <2>6, <2>11, <3>2, <3>4, <3>5, <3>6
         DEF Setup!Plan, Setup!PlanCodex, Setup!Toml
    <3>8. u \in Seq(FreshActs(F))
      BY <1>2, <2>1, <3>4, Single
    <3>9. v \in Seq(FreshActs(F)) /\ Queued(v, "script", "codex")
      BY <1>3, <3>5
    <3>10. w \in Seq(FreshActs(F)) /\ Queued(w, "write", <<"hooks", "p">>)
      BY <1>4, <2>1, <3>1, <3>3, <3>6
    <3>11. u \o v \in Seq(FreshActs(F)) /\ Queued(u \o v, "script", "codex")
      BY <3>8, <3>9, Joined
    <3>12. /\ (u \o v) \o w \in Seq(FreshActs(F)) /\ Queued((u \o v) \o w, "script", "codex")
           /\ Queued((u \o v) \o w, "write", <<"hooks", "p">>)
      BY <3>10, <3>11, Joined
    <3>13. PICK r : r = (s \o t) \o ((u \o v) \o w)
      OBVIOUS
    <3>14. /\ r \in Seq(FreshActs(F)) /\ Queued(r, "script", "codex")
           /\ Queued(r, "write", <<"hooks", "p">>)
           /\ Queued(r, "script", "notify") /\ Queued(r, "write", <<"toml", Home>>)
      BY <2>9, <3>12, <3>13, Joined
    <3> QED
      BY <1>6, <3>7, <3>13, <3>14 DEF Needs
  <2> QED
    BY <1>1, <2>10, <2>11
<1>7. CASE h = "opencode"
  <2>1. <<"opencode", Home>> \in F
    BY <1>7, FilesAre
  <2>2. Setup(H)!Plan(h, "p") = <<Setup(H)!Sweep(<<"opencode", Home>>)>>
    BY <1>7 DEF Setup!Plan, Setup!PlanOpenCode
  <2>3. /\ Setup(H)!Plan(h, "p") \in Seq(FreshActs(F))
        /\ Queued(Setup(H)!Plan(h, "p"), "sweep", <<"opencode", Home>>)
    BY <1>2, <2>1, <2>2, Single
  <2> QED
    BY <1>7, <2>3 DEF Needs
<1> QED
  BY <1>5, <1>6, <1>7

LEMMA SetupInit ==
    ASSUME NEW H, Setup(H)!Init
    PROVE  SetupInv(H, Setup(H)!Files)
<1>1. PICK start : /\ start \in {Setup(H)!Absent, Setup(H)!Plain, Setup(H)!Stale, Setup(H)!Broken}
                   /\ v2 = [f \in Setup(H)!Files |-> start]
  BY DEF Setup!Init
<1>2. start \in Contents
  <2>1. PICK a : a = Setup(H)!Absent
    OBVIOUS
  <2>2. a \in Contents
    BY <2>1 DEF Setup!Absent, Contents
  <2>3. PICK p : p = Setup(H)!Plain
    OBVIOUS
  <2>4. p \in Contents /\ p.form = "good"
    BY <2>1, <2>2, <2>3 DEF Setup!Plain, Contents
  <2>5. Setup(H)!Stale \in Contents
    BY <2>3, <2>4 DEF Setup!Stale, Contents
  <2>6. Setup(H)!Broken \in Contents
    BY <2>3, <2>4 DEF Setup!Broken, Contents
  <2> QED
    BY <1>1, <2>1, <2>2, <2>3, <2>4, <2>5, <2>6
<1>3. /\ v1 \in BOOLEAN /\ v3 = [s \in {"claude", "codex", "notify"} |-> "absent"]
      /\ v4 = [c \in Calls |-> Setup(H)!Idle] /\ v5 = FALSE /\ v6 = 0
  BY DEF Setup!Init, Setup!Scripts
<1>4. \A c \in Calls : v4[c].pc = "idle"
  BY <1>3 DEF Setup!Idle
<1>5. SetupTypes(H, Setup(H)!Files)
  BY <1>1, <1>2, <1>3, <1>4 DEF SetupTypes
<1> QED
  BY <1>4, <1>5 DEF SetupInv, Current, Provided

(* The front of a plan is done and the rest remains. *)
LEMMA Remaining ==
    ASSUME NEW S, NEW s \in Seq(S), s /= << >>, NEW n \in {1, 2}
    PROVE  /\ Head(s) \in S /\ SubSeq(s, n + 1, Len(s)) \in Seq(S)
           /\ n = 1 => \A d, a : Queued(s, d, a) =>
                \/ Head(s).do = d /\ Head(s).at = a
                \/ Queued(SubSeq(s, n + 1, Len(s)), d, a)
<1>1. Head(s) = s[1] /\ Len(s) \in Nat \ {0} /\ \A i \in 1..Len(s) : s[i] \in S
  BY EmptySeq, ElementOfSeq
<1>2. SubSeq(s, n + 1, Len(s)) \in Seq(S)
  BY <1>1, SubSeqProperties
<1>3. ASSUME n = 1, NEW d, NEW a, NEW i \in 1..Len(s), s[i].do = d, s[i].at = a
      PROVE  \/ Head(s).do = d /\ Head(s).at = a
             \/ Queued(SubSeq(s, n + 1, Len(s)), d, a)
  <2>1. CASE i = 1
    BY <1>1, <1>3, <2>1
  <2>2. CASE i /= 1
    <3>1. PICK t : t = SubSeq(s, 2, Len(s))
      OBVIOUS
    <3>2. Len(t) = Len(s) - 1 /\ i - 1 \in 1..(Len(s) - 1) /\ t[i - 1] = s[i]
      BY <1>1, <1>3, <2>2, <3>1
    <3> QED
      BY <1>3, <3>1, <3>2 DEF Queued
  <2> QED
    BY <2>1, <2>2
<1>4. ASSUME n = 1, NEW d, NEW a, Queued(s, d, a)
      PROVE  \/ Head(s).do = d /\ Head(s).at = a
             \/ Queued(SubSeq(s, n + 1, Len(s)), d, a)
  <2>1. PICK i \in 1..Len(s) : s[i].do = d /\ s[i].at = a
    BY <1>4 DEF Queued
  <2> QED
    BY <1>3, <1>4, <2>1
<1> QED
  BY <1>1, <1>2, <1>4

(* What an action does to the files and the scripts. *)
Applied(H, act) ==
    /\ v2' = IF act.do = "write" THEN [v2 EXCEPT ![act.at] = act.content]
             ELSE IF act.do = "sweep" THEN [v2 EXCEPT ![act.at] = Setup(H)!Swept(v2[act.at])]
             ELSE v2
    /\ v3' = IF act.do = "script" THEN [v3 EXCEPT ![act.at] = "plain"]
             ELSE IF act.do = "chmod" THEN [v3 EXCEPT ![act.at] = "runnable"]
             ELSE v3
    /\ UNCHANGED <<v1, v5, v6>>

(* An action keeps the types, the user's parts and what is done already,    *)
(* and does what it is there for.                                           *)
LEMMA ActionHolds ==
    ASSUME NEW H \in SUBSET {"claude", "codex", "opencode"}, SetupTypes(H, Setup(H)!Files),
           NEW act \in Acts(Setup(H)!Files), Applied(H, act)
    PROVE  /\ v2' \in [Setup(H)!Files -> Contents]
           /\ v3' \in [{"claude", "codex", "notify"} -> {"absent", "plain", "runnable"}]
           /\ \A h \in H : \A d, a :
                Needs(h, d, a) /\ (Done(d, a) \/ (act.do = d /\ act.at = a)) => Done(d, a)'
           /\ act.do /= "write" =>
                \A f \in Setup(H)!Files : /\ v2'[f].user = v2[f].user
                                          /\ v2[f].form = "broken" <=> v2'[f].form = "broken"
                                          /\ v2[f].form = "broken" => v2'[f] = v2[f]
<1> DEFINE F == Setup(H)!Files
<1>1. /\ v2 \in [F -> Contents]
      /\ v3 \in [{"claude", "codex", "notify"} -> {"absent", "plain", "runnable"}]
  BY DEF SetupTypes
<1>2. \A h \in H : \A d, a : Needs(h, d, a) =>
        \/ d = "write" /\ a \in F /\ a[1] \in {"local", "toml", "hooks"}
        \/ d = "script" /\ a \in {"claude", "codex", "notify"}
        \/ d = "sweep" /\ a \in F /\ a[1] = "opencode"
  BY FilesAre DEF Needs
<1> HIDE DEF F
<1>3. CASE act \in WriteActs(F)
  <2>1. /\ act.do = "write" /\ act.at \in F /\ act.content \in Contents
        /\ act.at[1] \in {"local", "toml", "hooks"}
        /\ act.content.form = "good" /\ act.content.raum = "fresh"
        /\ act.at[1] = "hooks" => act.content.first = TRUE
    BY <1>3 DEF WriteActs
  <2>2. v2' = [v2 EXCEPT ![act.at] = act.content] /\ v3' = v3
    BY <2>1 DEF Applied
  <2>3. v2' \in [F -> Contents]
    BY <1>1, <2>1, <2>2
  <2>4. ASSUME NEW h \in H, NEW d, NEW a, Needs(h, d, a),
               Done(d, a) \/ (act.do = d /\ act.at = a)
        PROVE  Done(d, a)'
    <3>1. CASE d = "write" /\ a \in F /\ a[1] \in {"local", "toml", "hooks"}
      <4>1. a = act.at \/ (Done(d, a) /\ v2'[a] = v2[a])
        BY <1>1, <2>1, <2>2, <2>4, <3>1
      <4>2. a = act.at => v2'[a] = act.content
        BY <1>1, <2>1, <2>2
      <4> QED
        BY <2>1, <3>1, <4>1, <4>2 DEF Done
    <3>2. CASE d = "script" /\ a \in {"claude", "codex", "notify"}
      BY <2>1, <2>2, <2>4, <3>2 DEF Done
    <3>3. CASE d = "sweep" /\ a \in F /\ a[1] = "opencode"
      <4>1. Done(d, a) /\ v2'[a] = v2[a]
        BY <1>1, <2>1, <2>2, <2>4, <3>3
      <4> QED
        BY <3>3, <4>1 DEF Done
    <3> QED
      BY <1>2, <2>4, <3>1, <3>2, <3>3
  <2> QED
    BY <1>1, <2>1, <2>2, <2>3, <2>4 DEF F
<1>4. CASE act \in SweepActs(F)
  <2>1. /\ act.do = "sweep" /\ act.at \in F
        /\ act.at[1] \in {"shared", "user", "old", "opencode"}
    BY <1>4 DEF SweepActs
  <2>2. PICK y : y = Setup(H)!Swept(v2[act.at])
    OBVIOUS
  <2>3. v2' = [v2 EXCEPT ![act.at] = y] /\ v3' = v3
    BY <2>1, <2>2 DEF Applied
  <2>4. v2[act.at] \in Contents
    BY <1>1, <2>1
  <2>5. /\ y \in Contents /\ y.user = v2[act.at].user /\ y.form = v2[act.at].form
        /\ y.form = "broken" => y = v2[act.at]
        /\ y.raum = "no" \/ y.form = "broken"
    BY <2>2, <2>4 DEF Setup!Swept, Setup!Managed, Contents
  <2>6. v2' \in [F -> Contents]
    BY <1>1, <2>1, <2>3, <2>5
  <2>7. \A f \in F : (f = act.at /\ v2'[f] = y) \/ v2'[f] = v2[f]
    BY <1>1, <2>1, <2>3
  <2>8. ASSUME NEW h \in H, NEW d, NEW a, Needs(h, d, a),
               Done(d, a) \/ (act.do = d /\ act.at = a)
        PROVE  Done(d, a)'
    <3>1. CASE d = "write" /\ a \in F /\ a[1] \in {"local", "toml", "hooks"}
      <4>1. Done(d, a) /\ v2'[a] = v2[a]
        BY <2>1, <2>7, <2>8, <3>1
      <4> QED
        BY <3>1, <4>1 DEF Done
    <3>2. CASE d = "script" /\ a \in {"claude", "codex", "notify"}
      BY <2>1, <2>3, <2>8, <3>2 DEF Done
    <3>3. CASE d = "sweep" /\ a \in F /\ a[1] = "opencode"
      <4>1. v2'[a] = y \/ (Done(d, a) /\ v2'[a] = v2[a])
        BY <1>1, <2>1, <2>3, <2>7, <2>8, <3>3
      <4> QED
        BY <2>5, <3>3, <4>1 DEF Done
    <3> QED
      BY <1>2, <2>8, <3>1, <3>2, <3>3
  <2>9. \A f \in F : /\ v2'[f].user = v2[f].user
                     /\ v2[f].form = "broken" <=> v2'[f].form = "broken"
                     /\ v2[f].form = "broken" => v2'[f] = v2[f]
    BY <2>5, <2>7
  <2> QED
    BY <1>1, <2>3, <2>6, <2>8, <2>9 DEF F
<1>5. CASE act \in ScriptActs
  <2>1. act.do \in {"script", "chmod"} /\ act.at \in {"claude", "codex", "notify"}
    BY <1>5 DEF ScriptActs
  <2>2. PICK k : k \in {"plain", "runnable"} /\ v3' = [v3 EXCEPT ![act.at] = k] /\ v2' = v2
    BY <2>1 DEF Applied
  <2>3. v3' \in [{"claude", "codex", "notify"} -> {"absent", "plain", "runnable"}]
    BY <1>1, <2>1, <2>2
  <2>4. ASSUME NEW h \in H, NEW d, NEW a, Needs(h, d, a),
               Done(d, a) \/ (act.do = d /\ act.at = a)
        PROVE  Done(d, a)'
    <3>1. CASE d = "script" /\ a \in {"claude", "codex", "notify"}
      <4>1. v3'[a] = k \/ (Done(d, a) /\ v3'[a] = v3[a])
        BY <1>1, <2>1, <2>2, <2>4, <3>1
      <4> QED
        BY <2>2, <3>1, <4>1 DEF Done
    <3>2. CASE d /= "script" /\ d \in {"write", "sweep"}
      BY <2>1, <2>2, <2>4, <3>2 DEF Done
    <3> QED
      BY <1>2, <2>4, <3>1, <3>2
  <2> QED
    BY <1>1, <2>1, <2>2, <2>3, <2>4 DEF F
<1> QED
  BY <1>3, <1>4, <1>5 DEF Acts, F

(* A step that leaves the files and the scripts alone. *)
LEMMA QuietStep ==
    ASSUME NEW H, NEW F, SetupInv(H, F), UNCHANGED <<v1, v2, v3, v5, v6>>,
           v4' = [c \in Calls |-> v4'[c]],
           \A c \in Calls :
             \/ v4'[c] = v4[c]
             \/ v4'[c].pc \notin {"apply", "installed"}
             \/ /\ v4'[c] \in Applying(H, F) /\ v4'[c].seen \in 0..v6
                /\ v5 = FALSE => v4'[c].todo \in Seq(FreshActs(F))
                /\ \A d \in {"write", "script", "sweep"} : \A a :
                     Needs(v4'[c].h, d, a) /\ v4'[c].seen = v6 =>
                       Done(d, a) \/ v4'[c].ok = FALSE \/ Queued(v4'[c].todo, d, a)
             \/ /\ v4'[c].pc = "installed" /\ v4[c].pc = "apply"
                /\ v4'[c].h = v4[c].h /\ v4'[c].p = v4[c].p /\ v4'[c].seen = v4[c].seen
                /\ v4[c].ok = TRUE /\ v4[c].todo = << >>
    PROVE  SetupInv(H, F)'
<1>0. SetupTypes(H, F) /\ Current(F) /\ Provided
  BY DEF SetupInv
<1>1. SetupTypes(H, F)'
  BY <1>0 DEF SetupTypes, Applying
<1>2. FreshActs(F)' = FreshActs(F)
  BY DEF FreshActs, Acts, WriteActs, SweepActs
<1>3. Current(F)'
  <2>1. ASSUME v5 = FALSE, NEW c \in Calls, v4'[c].pc = "apply" PROVE v4'[c].todo \in Seq(FreshActs(F))
    BY <1>0, <2>1 DEF Current
  <2> QED
    BY <1>2, <2>1 DEF Current
<1>4. Provided'
  <2>4. ASSUME NEW h, NEW d, NEW a, NEW todo
        PROVE  (Needs(h, d, a)' <=> Needs(h, d, a)) /\ (Done(d, a)' <=> Done(d, a))
    BY DEF Needs, Done
  <2> SUFFICES ASSUME NEW c \in Calls, NEW d \in {"write", "script", "sweep"}, NEW a,
                      Needs(v4'[c].h, d, a), v4'[c].pc \in {"apply", "installed"}, v4'[c].seen = v6
               PROVE  \/ Done(d, a)
                      \/ v4'[c].pc = "apply" /\ (v4'[c].ok = FALSE \/ Queued(v4'[c].todo, d, a))
    <3>1. SUFFICES ASSUME NEW c \in Calls, NEW d \in {"write", "script", "sweep"}, NEW a,
                          Needs(v4[c].h, d, a)', v4'[c].pc \in {"apply", "installed"}, v4'[c].seen = v6
                   PROVE  \/ Done(d, a)'
                          \/ v4'[c].pc = "apply" /\ (v4'[c].ok = FALSE \/ Queued(v4[c].todo, d, a)')
      BY DEF Provided
    <3>2. Needs(v4'[c].h, d, a) /\ (Done(d, a)' <=> Done(d, a))
      BY <2>4, <3>1 DEF Needs
    <3>3. Queued(v4[c].todo, d, a)' <=> Queued(v4'[c].todo, d, a)
      BY DEF Queued
    <3> QED
      BY <3>1, <3>2, <3>3
  <2>1. CASE v4'[c] = v4[c]
    BY <1>0, <2>1 DEF Provided
  <2>2. CASE v4'[c] \in Applying(H, F) /\ \A e \in {"write", "script", "sweep"} : \A b :
               Needs(v4'[c].h, e, b) /\ v4'[c].seen = v6 =>
                 Done(e, b) \/ v4'[c].ok = FALSE \/ Queued(v4'[c].todo, e, b)
    BY <2>2 DEF Applying
  <2>3. CASE /\ v4'[c].pc = "installed" /\ v4[c].pc = "apply"
             /\ v4'[c].h = v4[c].h /\ v4'[c].p = v4[c].p /\ v4'[c].seen = v4[c].seen
             /\ v4[c].ok = TRUE /\ v4[c].todo = << >>
    <3>1. ~Queued(v4[c].todo, d, a)
      BY <2>3, EmptySeq DEF Queued
    <3> QED
      BY <1>0, <2>3, <3>1 DEF Provided
  <2> QED
    BY <2>1, <2>2, <2>3
<1> QED
  BY <1>1, <1>3, <1>4 DEF SetupInv

LEMMA InstallStep ==
    ASSUME NEW H \in SUBSET {"claude", "codex", "opencode"}, SetupInv(H, Setup(H)!Files),
           NEW c \in Calls, NEW h \in H, Setup(H)!Install(c, h, "p")
    PROVE  SetupInv(H, Setup(H)!Files)'
<1>0. PICK F : F = Setup(H)!Files
  OBVIOUS
<1>1. /\ SetupTypes(H, F) /\ v4 = [e \in Calls |-> v4[e]] /\ v6 \in Nat
      /\ UNCHANGED <<v1, v2, v3, v5, v6>>
  BY <1>0 DEF SetupInv, SetupTypes, Setup!Install
<1>2. PICK plan : plan = Setup(H)!Plan(h, "p")
  OBVIOUS
<1>3. PICK x : /\ v4' = [v4 EXCEPT ![c] = x]
               /\ x = IF \A f \in Setup(H)!Sources(h, "p") : v2[f].form /= "broken"
                      THEN [pc |-> "apply", h |-> h, p |-> "p", todo |-> plan, ok |-> TRUE, seen |-> v6]
                      ELSE [pc |-> "refused"]
  BY <1>2 DEF Setup!Install, Setup!Readable
<1>4. v4' = [e \in Calls |-> v4'[e]] /\ v4'[c] = x /\ \A e \in Calls : e = c \/ v4'[e] = v4[e]
  BY <1>1, <1>3
<1>5. CASE \A f \in Setup(H)!Sources(h, "p") : v2[f].form /= "broken"
  <2>1. plan \in Seq(FreshActs(F)) /\ \A d, a : Needs(h, d, a) => Queued(plan, d, a)
    BY <1>0, <1>1, <1>2, <1>5, PlansFit
  <2>2. plan \in Seq(Acts(F))
    BY <2>1, SeqMonotonic DEF FreshActs
  <2>3. /\ x \in Applying(H, F) /\ x.seen = v6 /\ x.todo = plan /\ x.h = h
    BY <1>1, <1>3, <1>5, <2>2 DEF Applying
  <2>4. x.seen \in 0..v6
    BY <1>1, <2>3
  <2> QED
    BY <1>0, <1>1, <1>4, <2>1, <2>3, <2>4, QuietStep
<1>6. CASE ~(\A f \in Setup(H)!Sources(h, "p") : v2[f].form /= "broken")
  <2>1. x.pc = "refused"
    BY <1>3, <1>6
  <2> QED
    BY <1>0, <1>1, <1>4, <2>1, QuietStep
<1> QED
  BY <1>5, <1>6

LEMMA FailsStep ==
    ASSUME NEW H \in SUBSET {"claude", "codex", "opencode"}, SetupInv(H, Setup(H)!Files),
           NEW c \in Calls, Setup(H)!ApplyFails(c)
    PROVE  SetupInv(H, Setup(H)!Files)'
<1>0. PICK F : F = Setup(H)!Files
  OBVIOUS
<1>1. /\ SetupTypes(H, F) /\ Current(F) /\ v4 = [e \in Calls |-> v4[e]]
      /\ UNCHANGED <<v1, v2, v3, v5, v6>>
  BY <1>0 DEF SetupInv, SetupTypes, Setup!ApplyFails
<1>2. v4[c].pc = "apply" /\ v4[c].todo /= << >>
  BY DEF Setup!ApplyFails, Setup!Step, Setup!Todo
<1>3. v4[c] \in Applying(H, F) /\ v4[c].seen \in 0..v6
  BY <1>1, <1>2 DEF SetupTypes
<1>4. PICK n \in {1, 2} :
        v4' = [v4 EXCEPT ![c].todo = SubSeq(@, n + 1, Len(@)), ![c].ok = @ /\ FALSE]
  BY DEF Setup!ApplyFails, Setup!Advance
<1>5. PICK t : t = SubSeq(v4[c].todo, n + 1, Len(v4[c].todo))
  OBVIOUS
<1>6. t \in Seq(Acts(F)) /\ (v5 = FALSE => t \in Seq(FreshActs(F)))
  <2>1. v4[c].todo \in Seq(Acts(F)) /\ (v5 = FALSE => v4[c].todo \in Seq(FreshActs(F)))
    BY <1>1, <1>2, <1>3 DEF Applying, Current
  <2> QED
    BY <1>2, <1>5, <2>1, Remaining
<1>7. PICK x : x = [v4[c] EXCEPT !.todo = t, !.ok = FALSE]
  OBVIOUS
<1>8. v4' = [v4 EXCEPT ![c] = x]
  BY <1>1, <1>3, <1>4, <1>5, <1>7 DEF Applying
<1>9. x \in Applying(H, F) /\ x.seen = v4[c].seen /\ x.ok = FALSE /\ x.todo = t
  BY <1>3, <1>6, <1>7 DEF Applying
<1>10. v4' = [e \in Calls |-> v4'[e]] /\ v4'[c] = x /\ \A e \in Calls : e = c \/ v4'[e] = v4[e]
  BY <1>1, <1>8
<1> QED
  BY <1>0, <1>1, <1>3, <1>6, <1>9, <1>10, QuietStep

LEMMA ReportStep ==
    ASSUME NEW H \in SUBSET {"claude", "codex", "opencode"}, SetupInv(H, Setup(H)!Files),
           NEW c \in Calls, Setup(H)!Report(c)
    PROVE  SetupInv(H, Setup(H)!Files)'
<1>0. PICK F : F = Setup(H)!Files
  OBVIOUS
<1>1. /\ SetupTypes(H, F) /\ v4 = [e \in Calls |-> v4[e]]
      /\ UNCHANGED <<v1, v2, v3, v5, v6>>
  BY <1>0 DEF SetupInv, SetupTypes, Setup!Report
<1>2. v4[c].pc = "apply" /\ v4[c].todo = << >>
  BY DEF Setup!Report, Setup!Todo
<1>3. v4[c].ok \in BOOLEAN
  BY <1>1, <1>2 DEF SetupTypes, Applying
<1>4. PICK x : /\ v4' = [v4 EXCEPT ![c] = x]
               /\ x = IF v4[c].ok
                      THEN [pc |-> "installed", h |-> v4[c].h, p |-> v4[c].p, seen |-> v4[c].seen]
                      ELSE [pc |-> "failed"]
  BY DEF Setup!Report
<1>5. v4' = [e \in Calls |-> v4'[e]] /\ v4'[c] = x /\ \A e \in Calls : e = c \/ v4'[e] = v4[e]
  BY <1>1, <1>4
<1>6. CASE v4[c].ok = TRUE
  <2>1. x.pc = "installed" /\ x.h = v4[c].h /\ x.p = v4[c].p /\ x.seen = v4[c].seen
    BY <1>4, <1>6
  <2>2. \A e \in Calls :
          \/ v4'[e] = v4[e]
          \/ /\ v4'[e].pc = "installed" /\ v4[e].pc = "apply"
             /\ v4'[e].h = v4[e].h /\ v4'[e].p = v4[e].p /\ v4'[e].seen = v4[e].seen
             /\ v4[e].ok = TRUE /\ v4[e].todo = << >>
    BY <1>2, <1>5, <1>6, <2>1
  <2> QED
    BY <1>0, <1>1, <1>5, <2>2, QuietStep
<1>7. CASE v4[c].ok = FALSE
  <2>1. x.pc = "failed"
    BY <1>4, <1>7
  <2> QED
    BY <1>0, <1>1, <1>5, <2>1, QuietStep
<1> QED
  BY <1>3, <1>6, <1>7

LEMMA StopStep ==
    ASSUME NEW H \in SUBSET {"claude", "codex", "opencode"}, SetupInv(H, Setup(H)!Files), Setup(H)!Stop
    PROVE  SetupInv(H, Setup(H)!Files)'
<1>1. /\ v4 = [e \in Calls |-> v4[e]] /\ UNCHANGED <<v1, v2, v3, v5, v6>>
      /\ v4' = [c \in Calls |-> IF v4[c].pc = "apply" THEN Setup(H)!Idle ELSE v4[c]]
  BY DEF SetupInv, SetupTypes, Setup!Stop
<1>2. v4' = [c \in Calls |-> v4'[c]] /\ \A c \in Calls : v4'[c] = v4[c] \/ v4'[c].pc = "idle"
  BY <1>1 DEF Setup!Idle
<1> QED
  BY <1>1, <1>2, QuietStep

(* An edit takes its promise from every install that has begun.             *)
LEMMA EditStep ==
    ASSUME NEW H \in SUBSET {"claude", "codex", "opencode"}, SetupInv(H, Setup(H)!Files),
           NEW f \in Setup(H)!Files, Setup(H)!Edit(f)
    PROVE  SetupInv(H, Setup(H)!Files)' /\ v6' /= v6
<1>0. PICK F : F = Setup(H)!Files
  OBVIOUS
<1>1. SetupTypes(H, F) /\ v6' = v6 + 1 /\ v6 \in Nat /\ UNCHANGED <<v1, v3, v4>> /\ v2[f] \in Contents
  BY <1>0 DEF SetupInv, SetupTypes, Setup!Edit
<1>2. PICK new : new \in Setup(H)!Edited(f) /\ v2' = [v2 EXCEPT ![f] = new]
  BY DEF Setup!Edit
<1>3. new \in Contents
  <2>1. PICK a : a = [v2[f] EXCEPT !.form = "good", !.user = v6 + 2]
    OBVIOUS
  <2>2. a \in Contents /\ a.form = "good"
    <3>1. PICK o \in Contents : o = v2[f]
      BY <1>1
    <3>2. a = [o EXCEPT !.form = "good", !.user = v6 + 2] /\ v6 + 2 \in Nat
      BY <1>1, <2>1, <3>1
    <3> QED
      BY <3>1, <3>2 DEF Contents
  <2>3. PICK b : b = [Setup(H)!Broken EXCEPT !.user = v6 + 2]
    OBVIOUS
  <2>4. b \in Contents
    <3>1. PICK p : p = Setup(H)!Absent
      OBVIOUS
    <3>2. PICK q : q = Setup(H)!Plain
      OBVIOUS
    <3>3. PICK r : r = Setup(H)!Broken
      OBVIOUS
    <3>4. p \in Contents
      BY <3>1 DEF Setup!Absent, Contents
    <3>5. q \in Contents /\ q.form = "good"
      BY <3>1, <3>2, <3>4 DEF Setup!Plain, Contents
    <3>6. r \in Contents /\ r.form = "broken"
      BY <3>2, <3>3, <3>5 DEF Setup!Broken, Contents
    <3> QED
      BY <1>1, <2>3, <3>3, <3>6 DEF Contents
  <2>5. new \in {a, [a EXCEPT !.raum = "no", !.first = FALSE], [a EXCEPT !.first = FALSE], b}
    BY <1>2, <2>1, <2>3 DEF Setup!Edited
  <2>6. [a EXCEPT !.raum = "no", !.first = FALSE] \in Contents
    BY <2>2 DEF Contents
  <2>7. [a EXCEPT !.first = FALSE] \in Contents
    BY <2>2 DEF Contents
  <2> QED
    BY <2>2, <2>4, <2>5, <2>6, <2>7
<1>4. v5' \in BOOLEAN /\ (v5' = FALSE => \A c \in Calls : v4[c].pc /= "apply")
  BY <1>1 DEF SetupTypes, Setup!Edit
<1>5. SetupTypes(H, F)'
  <2>1. v2' \in [F -> Contents]
    BY <1>1, <1>2, <1>3 DEF SetupTypes
  <2>2. \A n \in 0..v6 : n \in 0..(v6 + 1)
    BY <1>1
  <2> QED
    BY <1>1, <1>4, <2>1, <2>2 DEF SetupTypes, Applying
<1>6. Current(F)'
  BY <1>1, <1>4 DEF Current
<1>7. Provided'
  <2>1. \A c \in Calls : v4'[c].pc \in {"apply", "installed"} => v4'[c].seen /= v6'
    BY <1>1 DEF SetupTypes
  <2> QED
    BY <2>1 DEF Provided
<1> QED
  BY <1>0, <1>1, <1>5, <1>6, <1>7 DEF SetupInv

(* What a plan writes is the user's part of the file, unless it was edited. *)
LEMMA ApplyStep ==
    ASSUME NEW H \in SUBSET {"claude", "codex", "opencode"}, SetupInv(H, Setup(H)!Files),
           NEW c \in Calls, Setup(H)!ApplyOne(c)
    PROVE  /\ SetupInv(H, Setup(H)!Files)'
           /\ v5' = FALSE => \A f \in Setup(H)!Files :
                v2'[f].user = v2[f].user /\ (v2[f].form = "broken" => v2'[f] = v2[f])
<1>0. PICK F : F = Setup(H)!Files
  OBVIOUS
<1>1. /\ SetupTypes(H, F) /\ Current(F) /\ Provided /\ v4 = [e \in Calls |-> v4[e]]
      /\ UNCHANGED <<v1, v5, v6>> /\ v2 \in [F -> Contents]
  BY <1>0 DEF SetupInv, SetupTypes, Setup!ApplyOne
<1>2. v4[c].pc = "apply" /\ v4[c].todo /= << >>
  BY DEF Setup!ApplyOne, Setup!Step, Setup!Todo
<1>3. /\ v4[c] \in Applying(H, F) /\ v4[c].seen \in 0..v6 /\ v4[c].h \in H
      /\ v4[c].todo \in Seq(Acts(F)) /\ (v5 = FALSE => v4[c].todo \in Seq(FreshActs(F)))
  BY <1>1, <1>2 DEF SetupTypes, Applying, Current
<1>4. PICK act : act = Head(v4[c].todo)
  OBVIOUS
<1>5. PICK t : t = SubSeq(v4[c].todo, 2, Len(v4[c].todo))
  OBVIOUS
<1>6. /\ act \in Acts(F) /\ t \in Seq(Acts(F))
      /\ v5 = FALSE => act \in FreshActs(F) /\ t \in Seq(FreshActs(F))
      /\ \A d, a : Queued(v4[c].todo, d, a) => (act.do = d /\ act.at = a) \/ Queued(t, d, a)
  <2>1. 1 \in {1, 2} /\ 1 + 1 = 2
    OBVIOUS
  <2> QED
    BY <1>2, <1>3, <1>4, <1>5, <2>1, Remaining
<1>7. act.do \in {"write", "sweep", "script", "chmod"}
  BY <1>6 DEF Acts, WriteActs, SweepActs, ScriptActs
<1>8. Applied(H, act)
  BY <1>1, <1>4, <1>7 DEF Setup!ApplyOne, Setup!Todo, Applied
<1>9. /\ v2' \in [F -> Contents]
      /\ v3' \in [{"claude", "codex", "notify"} -> {"absent", "plain", "runnable"}]
      /\ \A h \in H : \A d, a :
           Needs(h, d, a) /\ (Done(d, a) \/ (act.do = d /\ act.at = a)) => Done(d, a)'
      /\ act.do /= "write" =>
           \A f \in F : /\ v2'[f].user = v2[f].user
                        /\ v2[f].form = "broken" <=> v2'[f].form = "broken"
                        /\ v2[f].form = "broken" => v2'[f] = v2[f]
  BY <1>0, <1>1, <1>6, <1>8, ActionHolds
<1>10. v5 = FALSE => \A f \in F : /\ v2'[f].user = v2[f].user
                                  /\ v2[f].form = "broken" <=> v2'[f].form = "broken"
                                  /\ v2[f].form = "broken" => v2'[f] = v2[f]
  <2> SUFFICES ASSUME v5 = FALSE, act.do = "write"
               PROVE  \A f \in F : /\ v2'[f].user = v2[f].user
                                   /\ v2[f].form = "broken" <=> v2'[f].form = "broken"
                                   /\ v2[f].form = "broken" => v2'[f] = v2[f]
    BY <1>9
  <2>1. /\ act.content.form = "good" /\ act.at \in F
        /\ act.content.user = v2[act.at].user /\ v2[act.at].form /= "broken"
    BY <1>6 DEF FreshActs, Acts, WriteActs, SweepActs, ScriptActs
  <2>2. v2' = [v2 EXCEPT ![act.at] = act.content]
    BY <1>8 DEF Applied
  <2> QED
    BY <1>1, <2>1, <2>2
<1>11. PICK x : x = [v4[c] EXCEPT !.todo = t]
  OBVIOUS
<1>12. x \in Applying(H, F) /\ x.todo = t /\ x.ok = v4[c].ok /\ x.seen = v4[c].seen /\ x.h = v4[c].h
  BY <1>3, <1>6, <1>11 DEF Applying
<1>13. v4' = [v4 EXCEPT ![c] = x]
  <2>1. v4' = [v4 EXCEPT ![c].todo = t, ![c].ok = @ /\ TRUE]
    BY <1>5 DEF Setup!ApplyOne, Setup!Advance
  <2>2. [v4[c] EXCEPT !.todo = t, !.ok = @ /\ TRUE] = x
    BY <1>3, <1>11 DEF Applying
  <2>3. v4' = [v4 EXCEPT ![c] = [v4[c] EXCEPT !.todo = t, !.ok = @ /\ TRUE]]
    BY <1>1, <1>3, <2>1 DEF Applying
  <2> QED
    BY <2>2, <2>3
<1>14. v4' = [e \in Calls |-> v4'[e]] /\ v4'[c] = x /\ \A e \in Calls : e = c \/ v4'[e] = v4[e]
  BY <1>1, <1>13
<1>15. SetupTypes(H, F)'
  <2>1. \A e \in Calls : v4'[e].pc = "apply" => v4'[e] \in Applying(H, F)
    BY <1>1, <1>12, <1>14 DEF SetupTypes
  <2>2. \A e \in Calls : v4'[e].pc \in {"apply", "installed"} =>
          v4'[e].h \in H /\ v4'[e].p = "p" /\ v4'[e].seen \in 0..v6
    <3>1. v4'[c].h \in H /\ v4'[c].p = "p" /\ v4'[c].seen \in 0..v6
      BY <1>3, <1>12, <1>14 DEF Applying
    <3> QED
      BY <1>1, <1>14, <3>1 DEF SetupTypes
  <2>3. v1 \in BOOLEAN /\ v5 \in BOOLEAN /\ v6 \in Nat
    BY <1>1 DEF SetupTypes
  <2> QED
    BY <1>1, <1>9, <1>14, <2>1, <2>2, <2>3 DEF SetupTypes, Applying
<1>16. Current(F)'
  <2>1. ASSUME v5 = FALSE PROVE FreshActs(F) \subseteq FreshActs(F)'
    BY <1>10, <2>1 DEF FreshActs, Acts, WriteActs, SweepActs, ScriptActs
  <2>2. ASSUME v5 = FALSE, NEW e \in Calls, v4'[e].pc = "apply" PROVE v4'[e].todo \in Seq(FreshActs(F))
    BY <1>1, <1>6, <1>12, <1>14, <2>2 DEF Current
  <2>3. ASSUME v5 = FALSE, NEW e \in Calls, v4'[e].pc = "apply" PROVE v4'[e].todo \in Seq(FreshActs(F)')
    BY <2>1, <2>2, <2>3, SeqMonotonic
  <2> QED
    BY <1>1, <2>3 DEF Current
<1>17. Provided'
  <2> SUFFICES ASSUME NEW e \in Calls, NEW d \in {"write", "script", "sweep"}, NEW a,
                      Needs(v4'[e].h, d, a), v4'[e].pc \in {"apply", "installed"}, v4'[e].seen = v6
               PROVE  \/ Done(d, a)'
                      \/ v4'[e].pc = "apply" /\ (v4'[e].ok = FALSE \/ Queued(v4'[e].todo, d, a))
    <3>1. SUFFICES ASSUME NEW e \in Calls, NEW d \in {"write", "script", "sweep"}, NEW a,
                          Needs(v4[e].h, d, a)', v4'[e].pc \in {"apply", "installed"}, v4'[e].seen = v6
                   PROVE  \/ Done(d, a)'
                          \/ v4'[e].pc = "apply" /\ (v4'[e].ok = FALSE \/ Queued(v4[e].todo, d, a)')
      BY <1>1 DEF Provided
    <3>2. Needs(v4'[e].h, d, a)
      BY <1>1, <3>1 DEF Needs
    <3>3. Queued(v4[e].todo, d, a)' <=> Queued(v4'[e].todo, d, a)
      BY DEF Queued
    <3> QED
      BY <3>1, <3>2, <3>3
  <2>1. v4[e].h = v4'[e].h /\ v4[e].pc = v4'[e].pc /\ v4[e].seen = v4'[e].seen /\ v4[e].h \in H
        /\ v4[e].ok = v4'[e].ok
    BY <1>1, <1>2, <1>12, <1>14 DEF SetupTypes, Applying
  <2>2. \/ Done(d, a)
        \/ v4[e].pc = "apply" /\ (v4[e].ok = FALSE \/ Queued(v4[e].todo, d, a))
    BY <1>1, <2>1 DEF Provided
  <2>3. Queued(v4[e].todo, d, a) => (act.do = d /\ act.at = a) \/ Queued(v4'[e].todo, d, a)
    BY <1>6, <1>12, <1>14
  <2> QED
    BY <1>9, <2>1, <2>2, <2>3
<1> QED
  BY <1>0, <1>1, <1>10, <1>15, <1>16, <1>17 DEF SetupInv

LEMMA SetupStep ==
    ASSUME NEW H \in SUBSET {"claude", "codex", "opencode"}, SetupInv(H, Setup(H)!Files),
           [Setup(H)!Next]_SetupSlots
    PROVE  SetupInv(H, Setup(H)!Files)' /\ Setup(H)!KeepsUserContent
<1>1. ASSUME NEW c \in Calls, NEW h \in H, Setup(H)!Install(c, h, "p")
      PROVE  SetupInv(H, Setup(H)!Files)' /\ v2' = v2
  BY <1>1, InstallStep DEF Setup!Install
<1>2. ASSUME NEW c \in Calls, Setup(H)!ApplyFails(c) \/ Setup(H)!Report(c)
      PROVE  SetupInv(H, Setup(H)!Files)' /\ v2' = v2
  BY <1>2, FailsStep, ReportStep DEF Setup!ApplyFails, Setup!Report
<1>3. ASSUME Setup(H)!Stop PROVE SetupInv(H, Setup(H)!Files)' /\ v2' = v2
  BY <1>3, StopStep DEF Setup!Stop
<1>4. CASE v2' = v2 /\ SetupInv(H, Setup(H)!Files)'
  <2>1. v5' \in BOOLEAN
    BY <1>4 DEF SetupInv, SetupTypes
  <2> QED
    BY <1>4, <2>1 DEF Setup!KeepsUserContent
<1>5. ASSUME NEW f \in Setup(H)!Files, Setup(H)!Edit(f)
      PROVE  SetupInv(H, Setup(H)!Files)' /\ Setup(H)!KeepsUserContent
  BY <1>5, EditStep DEF Setup!KeepsUserContent
<1>6. ASSUME NEW c \in Calls, Setup(H)!ApplyOne(c)
      PROVE  SetupInv(H, Setup(H)!Files)' /\ Setup(H)!KeepsUserContent
  <2>1. v5' \in BOOLEAN
    BY <1>6, ApplyStep DEF SetupInv, SetupTypes
  <2> QED
    BY <1>6, <2>1, ApplyStep DEF Setup!KeepsUserContent
<1>7. ASSUME UNCHANGED SetupSlots PROVE SetupInv(H, Setup(H)!Files)' /\ v2' = v2
  <2>1. /\ UNCHANGED <<v1, v2, v3, v5, v6>> /\ v4' = [c \in Calls |-> v4'[c]]
        /\ \A c \in Calls : v4'[c] = v4[c]
    BY <1>7 DEF SetupSlots, SetupInv, SetupTypes
  <2> QED
    BY <2>1, QuietStep
<1>8. CASE Setup(H)!Next
  <2>1. \/ \E c \in Calls, h \in H : Setup(H)!Install(c, h, "p")
        \/ \E c \in Calls : Setup(H)!ApplyFails(c) \/ Setup(H)!Report(c)
        \/ \E c \in Calls : Setup(H)!ApplyOne(c)
        \/ \E f \in Setup(H)!Files : Setup(H)!Edit(f)
        \/ Setup(H)!Stop
    BY <1>8 DEF Setup!Next
  <2> QED
    BY <1>1, <1>2, <1>3, <1>4, <1>5, <1>6, <2>1
<1> QED
  BY <1>4, <1>7, <1>8

(* An install that reports success has left nothing to do.                  *)
LEMMA SetupWired ==
    ASSUME NEW H \in SUBSET {"claude", "codex", "opencode"}, SetupInv(H, Setup(H)!Files)
    PROVE  Setup(H)!InstalledIsWired
<1> SUFFICES ASSUME NEW c \in Calls, v4[c].pc = "installed", v4[c].seen = v6
             PROVE  /\ Setup(H)!Wired(v4[c].h, v4[c].p)
                    /\ (v4[c].h = "codex" => v1) => Setup(H)!Scan(v4[c].h, v4[c].p)
  BY DEF Setup!InstalledIsWired
<1>1. v4[c].h \in {"claude", "codex", "opencode"} /\ v4[c].p = "p" /\ v1 \in BOOLEAN
  BY DEF SetupInv, SetupTypes
<1>2. \A d \in {"write", "script", "sweep"} : \A a : Needs(v4[c].h, d, a) => Done(d, a)
  BY DEF SetupInv, Provided
<1>3. CASE v4[c].h = "claude"
  BY <1>1, <1>2, <1>3 DEF Needs, Done, Setup!Wired, Setup!Scan, Setup!Managed
<1>4. CASE v4[c].h = "codex"
  <2>1. Done("write", <<"toml", Home>>) /\ Done("script", "notify")
    BY <1>2, <1>4 DEF Needs
  <2>2. v1 = TRUE => Done("script", "codex") /\ Done("write", <<"hooks", "p">>)
    BY <1>2, <1>4 DEF Needs
  <2> QED
    BY <1>1, <1>4, <2>1, <2>2 DEF Done, Setup!Wired, Setup!Scan, Setup!Managed, Setup!Toml
<1>5. CASE v4[c].h = "opencode"
  BY <1>1, <1>2, <1>5 DEF Needs, Done, Setup!Wired, Setup!Scan
<1> QED
  BY <1>1, <1>3, <1>4, <1>5

-----------------------------------------------------------------------------
(* Hydration: at each moment the worktree is what the rules done so far     *)
(* promise, in whatever order they came.                                    *)

Rulable == {"a", "ab", "ac"}
Trodden == {"ab", "ac"}       \* the files under "a"

Linked(L, q) == q \in L /\ v1[q] /= "none"
CopiedBy(C, q) == v1[q] /= "none" /\ (q \in C \/ (q \in Trodden /\ "a" \in C))

(* What is promised of q by the copies C and the links L.                   *)
Kept(C, L, q) ==
    IF q \in Trodden /\ Linked(L, "a") THEN "none"
    ELSE IF Linked(L, q) THEN "link"
    ELSE IF CopiedBy(C, q) THEN v1[q]
    ELSE IF q = "a" /\ \E u \in Trodden : Linked(L, u) \/ CopiedBy(C, u) THEN "dir"
    ELSE v3[q]

Fits(t, C, L) == t = [q \in Rulable |-> Kept(C, L, q)]

HydrateTree ==
    /\ v1 \in [Rulable -> {"none", "file", "dir"}]
    /\ \A q \in Trodden : v1[q] /= "none" => v1["a"] = "dir"

HydrateTodo ==
    /\ v4 \in Seq(Rulable) /\ v5 \in Seq(Rulable)
    /\ v7 = "ok" => v4 = << >> /\ v5 = << >>

HydrateDone(C, L) ==
    /\ v4 /= << >> => L = {}
    /\ C \cup Hydrate!Range(v4) = v6.copy \ v6.symlink
    /\ L \cup Hydrate!Range(v5) = v6.symlink
    /\ Fits(v2, C, L)

HydrateInv == HydrateTree /\ HydrateTodo /\ (v7 /= "failed" => \E C, L : HydrateDone(C, L))
HydrateSlots == <<v1, v2, v3, v4, v5, v6, v7>>

(* The paths above a path. *)
LEMMA Chains ==
    /\ Hydrate!Above("a") = {} /\ \A q \in Trodden : Hydrate!Above(q) = {"a"}
    /\ Hydrate!Chain["a"] = {"a"} /\ \A q \in Trodden : Hydrate!Chain[q] = {q, "a"}
    /\ Hydrate!Below("a") = Rulable /\ \A q \in Trodden : Hydrate!Below(q) = {q}
<1> DEFINE Nodes == {"a", "ab", "ac"} \cup {"top"}
           Up == [p \in {"a", "ab", "ac"} |-> IF p = "a" THEN "top" ELSE "a"]
           Right(c) == c = [p \in Nodes |-> IF p = "top" THEN {} ELSE {p} \cup c[Up[p]]]
           g == [p \in Nodes |-> IF p = "top" THEN {} ELSE IF p = "a" THEN {"a"} ELSE {p, "a"}]
<1>1. Right(g)
  <2>1. g["top"] = {} /\ g["a"] = {"a"} /\ Up["a"] = "top" /\ Up["ab"] = "a" /\ Up["ac"] = "a"
    OBVIOUS
  <2>2. \A p \in Nodes : g[p] = IF p = "top" THEN {} ELSE {p} \cup g[Up[p]]
    BY <2>1
  <2> QED
    BY <2>2
<1>2. Hydrate!Chain = CHOOSE c : Right(c)
  BY DEF Hydrate!Chain
<1> HIDE DEF g
<1>3. Right(Hydrate!Chain)
  BY <1>1, <1>2
<1>4. PICK c : c = Hydrate!Chain
  OBVIOUS
<1>5. c = [p \in Nodes |-> IF p = "top" THEN {} ELSE {p} \cup c[Up[p]]]
  BY <1>3, <1>4
<1>6. c["top"] = {}
  BY <1>5
<1>7. c["a"] = {"a"}
  BY <1>5, <1>6
<1>8. c["ab"] = {"ab", "a"} /\ c["ac"] = {"ac", "a"}
  BY <1>5, <1>7
<1>9. \A q \in Rulable : Hydrate!Below(q) = {r \in Rulable : q \in c[r]}
  BY <1>4 DEF Hydrate!Below, Rulable
<1> QED
  BY <1>4, <1>7, <1>8, <1>9 DEF Hydrate!Above, Rulable, Trodden

LEMMA RulesLeft ==
    ASSUME NEW s \in Seq(Rulable), s /= << >>
    PROVE  /\ Head(s) \in Rulable /\ Tail(s) \in Seq(Rulable)
           /\ Hydrate!Range(s) = {Head(s)} \cup Hydrate!Range(Tail(s))
<1>1. Head(s) \in Rulable /\ Tail(s) \in Seq(Rulable)
  BY HeadTailProperties
<1>2. PICK t : t = Tail(s)
  OBVIOUS
<1>3. /\ Len(s) \in Nat \ {0} /\ Len(t) = Len(s) - 1 /\ Head(s) = s[1]
      /\ DOMAIN s = 1..Len(s) /\ DOMAIN t = 1..Len(t)
      /\ \A i \in 1..Len(t) : t[i] = s[i + 1]
  BY <1>1, <1>2, EmptySeq, LenProperties
<1>4. \A i \in 1..Len(s) : i = 1 \/ (i - 1 \in 1..Len(t) /\ s[i] = t[i - 1])
  BY <1>3
<1>5. \A i \in 1..Len(t) : i + 1 \in 1..Len(s)
  BY <1>3
<1>6. 1 \in 1..Len(s)
  BY <1>3
<1>7. /\ Hydrate!Range(s) = {s[i] : i \in 1..Len(s)}
      /\ Hydrate!Range(t) = {t[i] : i \in 1..Len(t)}
  BY <1>3 DEF Hydrate!Range
<1>8. ASSUME NEW x \in Hydrate!Range(s) PROVE x = Head(s) \/ x \in Hydrate!Range(t)
  <2>1. PICK i \in 1..Len(s) : x = s[i]
    BY <1>7, <1>8
  <2> QED
    BY <1>3, <1>4, <1>7, <2>1
<1>9. ASSUME NEW x \in Hydrate!Range(t) PROVE x \in Hydrate!Range(s)
  <2>1. PICK i \in 1..Len(t) : x = t[i]
    BY <1>7, <1>9
  <2> QED
    BY <1>3, <1>5, <1>7, <2>1
<1>10. Head(s) \in Hydrate!Range(s)
  BY <1>3, <1>6, <1>7
<1> QED
  BY <1>1, <1>2, <1>8, <1>9, <1>10

LEMMA HydrateInit == Hydrate!Init => HydrateInv
<1> SUFFICES ASSUME Hydrate!Init PROVE HydrateInv
  OBVIOUS
<1>1. HydrateTree
  BY Chains DEF Hydrate!Init, Hydrate!IsTree, HydrateTree, Rulable, Trodden
<1>2. \A r \in Hydrate!Rules : r \in Seq(Rulable)
  <2>1. ASSUME NEW r \in Hydrate!Rules PROVE \E n \in 0..2 : r \in [1..n -> Rulable]
    BY DEF Hydrate!Rules, Rulable
  <2>2. ASSUME NEW r \in Hydrate!Rules PROVE \E n \in Nat : r \in [1..n -> Rulable]
    <3>1. PICK n \in 0..2 : r \in [1..n -> Rulable]
      BY <2>1
    <3>2. n \in Nat
      OBVIOUS
    <3> QED
      BY <3>1, <3>2
  <2>3. Seq(Rulable) = UNION {[1..n -> Rulable] : n \in Nat}
    BY SeqDef
  <2> QED
    BY <2>2, <2>3
<1>3. HydrateTodo
  BY <1>2 DEF Hydrate!Init, HydrateTodo
<1>4. v2 = v3 /\ v3 \in [Rulable -> {"none", "file", "dir"}]
  BY DEF Hydrate!Init, Rulable
<1>5. \A q \in Rulable : Kept({}, {}, q) = v3[q]
  BY DEF Kept, Linked, CopiedBy
<1>6. Fits(v2, {}, {})
  BY <1>4, <1>5 DEF Fits
<1>7. PICK k : /\ v6 = [copy |-> Hydrate!Range(k), symlink |-> Hydrate!Range(v5)]
               /\ Hydrate!Range(v4) = Hydrate!Range(k) \ Hydrate!Range(v5)
  BY DEF Hydrate!Init
<1>8. HydrateDone({}, {})
  BY <1>6, <1>7 DEF HydrateDone
<1> QED
  BY <1>1, <1>3, <1>8 DEF HydrateInv

(* A copy that fits adds itself to what is promised. *)
LEMMA CopyKept ==
    ASSUME HydrateTree, NEW C, NEW p \in Rulable, NEW D, D = C \cup {p}, v1[p] /= "none",
           Fits(v2, C, {}), v2' = Hydrate!Copied(p), UNCHANGED <<v1, v3>>
    PROVE  Fits(v2', D, {})
<1>1. v2' = [q \in Rulable |->
               IF q \in Hydrate!Below(p) /\ v1[q] /= "none" THEN v1[q]
               ELSE IF q \in Hydrate!Above(p) THEN "dir" ELSE v2[q]]
  BY DEF Hydrate!Copied, Hydrate!MadeDirs, Rulable
<1>2. CASE p = "a"
  <2>1. \A q \in Rulable : v2'[q] = IF v1[q] /= "none" THEN v1[q] ELSE v2[q]
    BY <1>1, <1>2, Chains
  <2>2. \A q \in Rulable : v2'[q] = Kept(D, {}, q)
    BY <1>2, <2>1 DEF Kept, Linked, CopiedBy, HydrateTree, Rulable, Trodden, Fits
  <2> QED
    BY <1>1, <2>2 DEF Fits
<1>3. CASE p \in Trodden
  <2>1. v2'["a"] = "dir" /\ v1["a"] = "dir"
    BY <1>1, <1>3, Chains DEF HydrateTree, Rulable, Trodden
  <2>2. v2'[p] = v1[p] /\ \A q \in Trodden : q = p \/ v2'[q] = v2[q]
    BY <1>1, <1>3, Chains DEF Rulable, Trodden
  <2>3. Kept(D, {}, "a") = "dir"
    BY <1>3, <2>1 DEF Kept, Linked, CopiedBy, Trodden
  <2>4. \A q \in Trodden : v2'[q] = Kept(D, {}, q)
    BY <1>3, <2>2 DEF Kept, Linked, CopiedBy, Rulable, Trodden, Fits
  <2>5. \A q \in Rulable : v2'[q] = Kept(D, {}, q)
    BY <2>1, <2>3, <2>4 DEF Rulable, Trodden
  <2> QED
    BY <1>1, <2>5 DEF Fits
<1> QED
  BY <1>2, <1>3 DEF Rulable, Trodden

(* A link that is made is the outermost one so far. *)
LEMMA LinkKept ==
    ASSUME HydrateTree, NEW C, NEW L, NEW p \in Rulable, NEW M, M = L \cup {p},
           v1[p] /= "none", ~Hydrate!Escapes(p),
           Fits(v2, C, L),
           v2' = Hydrate!Lands(p, Hydrate!Cleared(p), "link"), UNCHANGED <<v1, v3>>
    PROVE  Fits(v2', C, M)
<1>1. PICK cleared : cleared = [q \in Rulable |->
               IF q \in Hydrate!Below(p) THEN "none"
               ELSE IF q \in Hydrate!Above(p) THEN "dir" ELSE v2[q]]
  OBVIOUS
<1>2. Hydrate!Cleared(p) = cleared
  BY <1>1 DEF Hydrate!Cleared, Hydrate!MadeDirs, Rulable
<1>3. \A q \in Hydrate!Chain[p] : v2[q] /= "link"
  BY DEF Hydrate!Escapes
<1>4. v2' = [cleared EXCEPT ![p] = "link"]
  BY <1>2, <1>3 DEF Hydrate!Lands, Hydrate!Above
<1>5. ~Linked(L, "a")
  <2>1. v2["a"] /= "link"
    BY <1>3, Chains DEF Rulable, Trodden
  <2> QED
    BY <2>1 DEF Kept, Rulable, Trodden, Fits
<1>6. CASE p = "a"
  <2>1. v2'["a"] = "link" /\ \A q \in Trodden : v2'[q] = "none"
    BY <1>1, <1>4, <1>6, Chains DEF Rulable, Trodden
  <2>2. \A q \in Rulable : v2'[q] = Kept(C, M, q)
    BY <1>6, <2>1 DEF Kept, Linked, Rulable, Trodden
  <2> QED
    BY <1>1, <1>4, <2>2 DEF Fits
<1>7. CASE p \in Trodden
  <2>1. v2'["a"] = "dir" /\ v2'[p] = "link" /\ \A q \in Trodden : q = p \/ v2'[q] = v2[q]
    BY <1>1, <1>4, <1>7, Chains DEF Rulable, Trodden
  <2>2. v1["a"] = "dir"
    BY <1>7 DEF HydrateTree
  <2>3. Kept(C, M, "a") = "dir"
    BY <1>5, <1>7, <2>2 DEF Kept, Linked, CopiedBy, Trodden
  <2>4. Kept(C, M, p) = "link"
    BY <1>5, <1>7 DEF Kept, Linked, Trodden
  <2>5. \A q \in Trodden : q = p \/ Kept(C, M, q) = Kept(C, L, q)
    BY <1>5, <1>7 DEF Kept, Linked, Trodden
  <2>6. \A q \in Rulable : v2'[q] = Kept(C, M, q)
    BY <2>1, <2>3, <2>4, <2>5 DEF Rulable, Trodden, Fits
  <2> QED
    BY <1>1, <1>4, <2>6 DEF Fits
<1> QED
  BY <1>6, <1>7 DEF Rulable, Trodden

(* A rule for what the main checkout does not have promises nothing. *)
LEMMA SkipKept ==
    ASSUME HydrateTree, NEW C, NEW L, NEW p \in Rulable, v1[p] = "none",
           NEW D, D = C \/ D = C \cup {p}, NEW M, M = L \/ M = L \cup {p}
    PROVE  \A q \in Rulable : Kept(D, M, q) = Kept(C, L, q)
<1>1. p = "a" => \A q \in Rulable : v1[q] = "none"
  BY DEF HydrateTree, Rulable, Trodden
<1>2. \A q \in Rulable : CopiedBy(D, q) <=> CopiedBy(C, q)
  BY <1>1 DEF CopiedBy, Rulable, Trodden
<1>3. \A q \in Rulable : Linked(M, q) <=> Linked(L, q)
  BY DEF Linked
<1>4. "a" \in Rulable /\ Trodden \subseteq Rulable
  BY DEF Rulable, Trodden
<1> QED
  BY <1>2, <1>3, <1>4 DEF Kept

LEMMA HydrateStep == HydrateInv /\ [Hydrate!Next]_HydrateSlots => HydrateInv' /\ Hydrate!LeavesSource
<1> SUFFICES ASSUME HydrateInv, [Hydrate!Next]_HydrateSlots PROVE HydrateInv' /\ Hydrate!LeavesSource
  OBVIOUS
<1> USE DEF Hydrate!LeavesSource
<1>0. HydrateTree /\ HydrateTodo
  BY DEF HydrateInv
<1>1. CASE UNCHANGED HydrateSlots
  BY <1>1 DEF HydrateSlots, HydrateInv, HydrateTree, HydrateTodo, HydrateDone, Kept, Linked,
     CopiedBy, Fits
<1>2. ASSUME v7' = "failed", UNCHANGED <<v1, v4, v5>> PROVE HydrateInv' /\ Hydrate!LeavesSource
  BY <1>0, <1>2 DEF HydrateInv, HydrateTree, HydrateTodo
<1>3. CASE Hydrate!CopyRule
  <2>1. PICK p : p = Head(v4)
    OBVIOUS
  <2>2. /\ v7 = "running" /\ v4 /= << >> /\ p \in Rulable /\ Tail(v4) \in Seq(Rulable)
        /\ Hydrate!Range(v4) = {p} \cup Hydrate!Range(Tail(v4))
    BY <1>0, <1>3, <2>1, RulesLeft DEF Hydrate!CopyRule, HydrateTodo
  <2>3. PICK C, L : HydrateDone(C, L)
    BY <2>2 DEF HydrateInv
  <2>4. L = {}
    BY <2>2, <2>3 DEF HydrateDone
  <2>5. CASE v7' = "failed"
    BY <1>2, <1>3, <2>5 DEF Hydrate!CopyRule, Hydrate!Rejected
  <2>6. CASE v7' /= "failed"
    <3>1. /\ v4' = Tail(v4) /\ UNCHANGED <<v1, v3, v5, v6, v7>>
          /\ \/ v1[p] = "none" /\ v2' = v2
             \/ v1[p] /= "none" /\ v2' = Hydrate!Copied(p)
      BY <1>3, <2>1, <2>6 DEF Hydrate!CopyRule, Hydrate!Rejected
    <3>0. PICK D : D = C \cup {p}
      OBVIOUS
    <3>2. Fits(v2, C, {})
      BY <2>3, <2>4 DEF HydrateDone
    <3>3. Fits(v2', D, {})
      <4>1. CASE v1[p] = "none" /\ v2' = v2
        <5>1. \A q \in Rulable : Kept(D, {}, q) = Kept(C, {}, q)
          BY <1>0, <2>2, <3>0, <4>1, SkipKept
        <5> QED
          BY <3>2, <4>1, <5>1 DEF Fits
      <4>2. CASE v1[p] /= "none" /\ v2' = Hydrate!Copied(p)
        BY <1>0, <2>2, <3>0, <3>1, <3>2, <4>2, CopyKept
      <4> QED
        BY <3>1, <4>1, <4>2
    <3>4. \A q : Kept(D, {}, q)' = Kept(D, {}, q)
      BY <3>1 DEF Kept, Linked, CopiedBy
    <3>5. HydrateDone(D, {})'
      BY <2>2, <2>3, <2>4, <3>0, <3>1, <3>3, <3>4 DEF HydrateDone, Fits
    <3>6. HydrateTree' /\ HydrateTodo'
      BY <1>0, <2>2, <3>1 DEF HydrateTree, HydrateTodo
    <3> QED
      BY <3>1, <3>5, <3>6 DEF HydrateInv
  <2> QED
    BY <2>5, <2>6
<1>4. CASE Hydrate!LinkRule
  <2>1. PICK p : p = Head(v5)
    OBVIOUS
  <2>2. /\ v7 = "running" /\ v4 = << >> /\ v5 /= << >> /\ p \in Rulable /\ Tail(v5) \in Seq(Rulable)
        /\ Hydrate!Range(v5) = {p} \cup Hydrate!Range(Tail(v5))
    BY <1>0, <1>4, <2>1, RulesLeft DEF Hydrate!LinkRule, HydrateTodo
  <2>3. PICK C, L : HydrateDone(C, L)
    BY <2>2 DEF HydrateInv
  <2>4. CASE v7' = "failed"
    BY <1>2, <1>4, <2>4 DEF Hydrate!LinkRule, Hydrate!Rejected
  <2>5. CASE v7' /= "failed"
    <3>1. /\ v5' = Tail(v5) /\ UNCHANGED <<v3, v4, v6, v7>>
          /\ \/ v1[p] = "none" /\ v2' = v2 /\ v1' = v1
             \/ /\ v1[p] /= "none" /\ ~Hydrate!Escapes(p)
                /\ v2' = Hydrate!Lands(p, Hydrate!Cleared(p), "link")
                /\ v1' = Hydrate!Leaks(p, "link")
      BY <1>4, <2>1, <2>5 DEF Hydrate!LinkRule, Hydrate!Rejected
    <3>2. v1' = v1
      BY <3>1 DEF Hydrate!Leaks, Hydrate!Escapes, Hydrate!Above
    <3>0. PICK M : M = L \cup {p}
      OBVIOUS
    <3>3. Fits(v2, C, L)
      BY <2>3 DEF HydrateDone
    <3>4. Fits(v2', C, M)
      <4>1. CASE v1[p] = "none" /\ v2' = v2
        <5>1. \A q \in Rulable : Kept(C, M, q) = Kept(C, L, q)
          BY <1>0, <2>2, <3>0, <4>1, SkipKept
        <5> QED
          BY <3>3, <4>1, <5>1 DEF Fits
      <4>2. CASE /\ v1[p] /= "none" /\ ~Hydrate!Escapes(p)
                 /\ v2' = Hydrate!Lands(p, Hydrate!Cleared(p), "link")
        <5>1. UNCHANGED <<v1, v3>>
          BY <3>1, <3>2
        <5> QED
          BY <1>0, <2>2, <3>0, <3>3, <4>2, <5>1, LinkKept
      <4> QED
        BY <3>1, <4>1, <4>2
    <3>5. \A q : Kept(C, M, q)' = Kept(C, M, q)
      BY <3>1, <3>2 DEF Kept, Linked, CopiedBy
    <3>6. HydrateDone(C, M)'
      BY <2>2, <2>3, <3>0, <3>1, <3>4, <3>5 DEF HydrateDone, Fits
    <3>7. HydrateTree' /\ HydrateTodo'
      BY <1>0, <2>2, <3>1, <3>2 DEF HydrateTree, HydrateTodo
    <3> QED
      BY <3>1, <3>2, <3>6, <3>7 DEF HydrateInv
  <2> QED
    BY <2>4, <2>5
<1>5. CASE Hydrate!Report
  <2>1. /\ v7 = "running" /\ v7' = "ok" /\ v4 = << >> /\ v5 = << >>
        /\ UNCHANGED <<v1, v2, v3, v4, v5, v6>>
    BY <1>5 DEF Hydrate!Report
  <2>2. PICK C, L : HydrateDone(C, L)
    BY <2>1 DEF HydrateInv
  <2>3. HydrateDone(C, L)'
    BY <2>1, <2>2 DEF HydrateDone, Kept, Linked, CopiedBy, Fits
  <2>4. HydrateTree' /\ HydrateTodo'
    BY <1>0, <2>1 DEF HydrateTree, HydrateTodo
  <2> QED
    BY <2>1, <2>3, <2>4 DEF HydrateInv
<1> QED
  BY <1>1, <1>3, <1>4, <1>5 DEF Hydrate!Next

(* When the rules are done, what they promise is what the manifest does.    *)
LEMMA HydrateMeets == HydrateInv => Hydrate!MeetsManifest
<1> SUFFICES ASSUME HydrateInv, v7 = "ok", NEW q \in Rulable PROVE v2[q] = Hydrate!Promised(q)
  BY DEF Hydrate!MeetsManifest, Rulable
<1>1. v4 = << >> /\ v5 = << >>
  BY DEF HydrateInv, HydrateTodo
<1>2. PICK C, L : HydrateDone(C, L)
  BY DEF HydrateInv
<1>3. Hydrate!Range(<< >>) = {}
  BY DEF Hydrate!Range
<1>4. C = v6.copy \ v6.symlink /\ L = v6.symlink /\ v2[q] = Kept(C, L, q)
  BY <1>1, <1>2, <1>3 DEF HydrateDone, Fits
<1>5. CASE q = "a"
  <2>1. Hydrate!Below("a") \ {"a"} = Trodden
    BY Chains DEF Rulable, Trodden
  <2>2. \A u \in Trodden : (\E r \in Hydrate!Chain[u] : r \in C) <=> u \in C \/ "a" \in C
    BY Chains
  <2>3. (\E r \in Hydrate!Chain["a"] : r \in C) <=> "a" \in C
    BY Chains
  <2> QED
    BY <1>4, <1>5, <2>1, <2>2, <2>3, Chains DEF Hydrate!Promised, Kept, Linked, CopiedBy, Trodden
<1>6. CASE q \in Trodden
  <2>1. Hydrate!Below(q) \ {q} = {} /\ Hydrate!Above(q) = {"a"}
    BY <1>6, Chains
  <2>2. (\E r \in Hydrate!Chain[q] : r \in C) <=> q \in C \/ "a" \in C
    BY <1>6, Chains
  <2> QED
    BY <1>4, <1>6, <2>1, <2>2 DEF Hydrate!Promised, Kept, Linked, CopiedBy, Trodden
<1> QED
  BY <1>5, <1>6 DEF Rulable, Trodden

\* The types ConfigStore states.
LEMMA SettingsTyped == IInv => TypeOK
BY DEF IInv, Types, TypeOK

-----------------------------------------------------------------------------
(* The desktop: a step is one of the component that runs, or a stutter.    *)

LEMMA WhichStays == [DesktopNext]_desktopVars => which' = which
BY DEF DesktopNext, desktopVars

(* The settings and the pane stand still when another component runs.      *)
LEMMA SettingsRun == [DesktopNext]_desktopVars => [Next]_vars
BY DEF DesktopNext, desktopVars

LEMMA PaneRuns == [DesktopNext]_desktopVars => [Pane!Next]_paneVars
BY DEF DesktopNext, desktopVars

LEMMA TerminalsRun ==
    which = "terminals" /\ [DesktopNext]_desktopVars => [Terminals!Next]_(Terminals!vars)
BY DEF DesktopNext, desktopVars, Terminals!vars, Terminals!regVars, Terminals!tmuxVars,
   Terminals!bootVars, Terminals!rowVars, Terminals!histVars

LEMMA TwoTreesRun ==
    which = "two trees" /\ [DesktopNext]_desktopVars => [TwoTrees!Next]_(TwoTrees!vars)
BY DEF DesktopNext, desktopVars, TwoTrees!vars

LEMMA OldTreeRuns ==
    which = "old tree" /\ [DesktopNext]_desktopVars => [OldTree!Next]_(OldTree!vars)
BY DEF DesktopNext, desktopVars, OldTree!vars

LEMMA OpenCodeRuns ==
    which = "opencode" /\ [DesktopNext]_desktopVars => [OpenCode!Next]_(OpenCode!vars)
BY DEF DesktopNext, desktopVars, OpenCode!vars, OpenCode!chan

LEMMA LayoutRuns ==
    which = "layout" /\ [DesktopNext]_desktopVars => [Layout!Next]_LayoutSlots
BY DEF DesktopNext, desktopVars, LayoutSlots

LEMMA TwoProjectsRun ==
    which = "two projects" /\ [DesktopNext]_desktopVars => [Tabs({"p", "q"}, 0, 2, 0)!Next]_TabSlots
BY DEF DesktopNext, desktopVars, TabSlots

LEMMA OneProjectRuns ==
    which = "one project" /\ [DesktopNext]_desktopVars => [Tabs({"p"}, 1, 3, MaxFaults)!Next]_TabSlots
BY DEF DesktopNext, desktopVars, TabSlots

LEMMA HydrateRuns ==
    which = "hydrate" /\ [DesktopNext]_desktopVars => [Hydrate!Next]_HydrateSlots
BY DEF DesktopNext, desktopVars, HydrateSlots

LEMMA JsonSetupRuns ==
    which = "json setup" /\ [DesktopNext]_desktopVars
      => [Setup({"claude", "opencode"})!Next]_SetupSlots
BY DEF DesktopNext, desktopVars, SetupSlots

LEMMA CodexSetupRuns ==
    which = "codex setup" /\ [DesktopNext]_desktopVars => [Setup({"codex"})!Next]_SetupSlots
BY DEF DesktopNext, desktopVars, SetupSlots

(* The invariants, each where its component runs.                          *)
TerminalsInv == which = "terminals" => Terminals!IInv
TreesInv == /\ which = "two trees" => TwoTrees!IInv /\ TwoTrees!Shapes
            /\ which = "old tree"  => OldTree!IInv /\ OldTree!Shapes
ProjectsInv == /\ which = "two projects" => TabsInv({"p", "q"})
               /\ which = "one project"  => TabsInv({"p"})
SetupsInv ==
    /\ which = "json setup"  => SetupInv({"claude", "opencode"}, Setup({"claude", "opencode"})!Files)
    /\ which = "codex setup" => SetupInv({"codex"}, Setup({"codex"})!Files)

LEMMA SettingsHold == DesktopSpec => []IInv
<1>1. DesktopInit => IInv
  BY SettingsInit DEF DesktopInit, NoConfig
<1>2. IInv /\ [DesktopNext]_desktopVars => IInv'
  BY SettingsRun, SettingsStep
<1> QED
  BY <1>1, <1>2, PTL DEF DesktopSpec

LEMMA PaneHolds == DesktopSpec => []PaneInv
<1>1. DesktopInit => PaneInv
  BY PaneInit DEF DesktopInit, NoResize
<1>2. PaneInv /\ [DesktopNext]_desktopVars => PaneInv'
  BY PaneRuns, PaneStep
<1> QED
  BY <1>1, <1>2, PTL DEF DesktopSpec

LEMMA TerminalsHold == DesktopSpec => []TerminalsInv
<1>1. DesktopInit => TerminalsInv
  BY Terminals!InitHolds DEF DesktopInit, TerminalsInv
<1>2. TerminalsInv /\ [DesktopNext]_desktopVars => TerminalsInv'
  BY TerminalsRun, WhichStays, Terminals!NextHolds DEF TerminalsInv
<1> QED
  BY <1>1, <1>2, PTL DEF DesktopSpec

LEMMA TreesHold == DesktopSpec => []TreesInv
<1>1. DesktopInit => TreesInv
  BY SlotsAssumption, TwoTrees!IInvInit, OldTree!IInvInit, TwoTrees!ShapesInit, OldTree!ShapesInit
     DEF DesktopInit, TreesInv
<1>2. TreesInv /\ [DesktopNext]_desktopVars => TreesInv'
  BY SlotsAssumption, WhichStays, TwoTreesRun, OldTreeRuns, TwoTrees!IInvStep, OldTree!IInvStep,
     TwoTrees!ShapesStep, OldTree!ShapesStep DEF TreesInv
<1> QED
  BY <1>1, <1>2, PTL DEF DesktopSpec

LEMMA StreamHolds == DesktopSpec => [](which = "opencode" => StreamInv)
<1> DEFINE SI == which = "opencode" => StreamInv
<1>1. DesktopInit => SI
  BY StreamInit DEF DesktopInit
<1>2. SI /\ [DesktopNext]_desktopVars => SI'
  BY WhichStays, OpenCodeRuns, StreamStep
<1> QED
  BY <1>1, <1>2, PTL DEF DesktopSpec

LEMMA LayoutHolds == DesktopSpec => [](which = "layout" => LayoutInv)
<1> DEFINE LI == which = "layout" => LayoutInv
<1>1. DesktopInit => LI
  BY LayoutInit DEF DesktopInit
<1>2. LI /\ [DesktopNext]_desktopVars => LI'
  BY WhichStays, LayoutRuns, LayoutStep
<1> QED
  BY <1>1, <1>2, PTL DEF DesktopSpec

LEMMA ProjectsHold == DesktopSpec => []ProjectsInv
<1>1. DesktopInit => ProjectsInv
  BY TabsInit DEF DesktopInit, ProjectsInv
<1>2. ProjectsInv /\ [DesktopNext]_desktopVars => ProjectsInv'
  BY SlotsAssumption, WhichStays, TwoProjectsRun, OneProjectRuns, TabsStep DEF ProjectsInv
<1> QED
  BY <1>1, <1>2, PTL DEF DesktopSpec

LEMMA SetupsHold == DesktopSpec => []SetupsInv
<1>1. DesktopInit => SetupsInv
  BY SetupInit DEF DesktopInit, SetupsInv
<1>2. SetupsInv /\ [DesktopNext]_desktopVars => SetupsInv'
  <2>1. {"claude", "opencode"} \in SUBSET {"claude", "codex", "opencode"}
        /\ {"codex"} \in SUBSET {"claude", "codex", "opencode"}
    OBVIOUS
  <2> QED
    BY <2>1, WhichStays, JsonSetupRuns, CodexSetupRuns, SetupStep DEF SetupsInv
<1> QED
  BY <1>1, <1>2, PTL DEF DesktopSpec

LEMMA HydrateHolds == DesktopSpec => [](which = "hydrate" => HydrateInv)
<1> DEFINE HI == which = "hydrate" => HydrateInv
<1>1. DesktopInit => HI
  BY HydrateInit DEF DesktopInit
<1>2. HI /\ [DesktopNext]_desktopVars => HI'
  BY WhichStays, HydrateRuns, HydrateStep
<1> QED
  BY <1>1, <1>2, PTL DEF DesktopSpec

(* Whatever runs, the components' states have their types and the shapes    *)
(* their code relies on: registrations with their runtimes, worktrees on    *)
(* branches of their own and stash entries that exist, at most one watcher  *)
(* and only a project's own root under it, a grid whose revision is known.  *)
THEOREM TypesCorrect == DesktopSpec => []TypesOK
<1>1. IInv /\ PaneInv => TypeOK /\ Pane!TypeOK
  BY SettingsTyped DEF PaneInv, PaneTypes, Pane!TypeOK
<1>2. TerminalsInv => (which = "terminals" => Terminals!TypeOK)
  BY DEF TerminalsInv, Terminals!IInv
<1>3. TreesInv => /\ which = "two trees" => TwoTrees!TypeOK
                  /\ which = "old tree"  => OldTree!TypeOK
  BY TwoTrees!Typed, OldTree!Typed DEF TreesInv
<1>4. (which = "layout" => LayoutInv) => (which = "layout" => Layout!TypeOK)
  BY LayoutSafe
<1>5. (which = "opencode" => StreamInv) => (which = "opencode" => OpenCode!TypeOK)
  BY StreamTyped
<1>6. ProjectsInv => /\ which = "two projects" => Tabs({"p", "q"}, 0, 2, 0)!TypeOK
                     /\ which = "one project"  => Tabs({"p"}, 1, 3, MaxFaults)!TypeOK
  BY TabsTyped DEF ProjectsInv
<1>7. /\ IInv /\ PaneInv /\ TerminalsInv /\ TreesInv /\ (which = "layout" => LayoutInv)
      /\ (which = "opencode" => StreamInv) /\ ProjectsInv
      => TypesOK
  BY <1>1, <1>2, <1>3, <1>4, <1>5, <1>6 DEF TypesOK
<1> QED
  BY <1>7, SettingsHold, PaneHolds, TerminalsHold, TreesHold, LayoutHolds, StreamHolds,
     ProjectsHold, PTL

(* The terminal server is killed at most once for each restart the user    *)
(* accepted or put back into the file, whatever crashes in between, and    *)
(* once for each launch that could not clear the flag.                     *)
THEOREM KillsAreAsked == DesktopSpec => []KillsWereAsked
BY SettingsHold, KillsPaid, PTL

(* A command leaves every setting but its own as it is in the file, unless *)
(* the file changed after the command read it, or the cache it read was    *)
(* filed under the stamp of a text it was not read from.                   *)
THEOREM SettersKeepOthers == Spec => SettingsKept
<1>1. Init => IInv
  BY SettingsInit
<1>2. IInv /\ [Next]_vars => IInv'
  BY SettingsStep
<1>3. IInv /\ [Next]_vars => [KeepsSettings]_vars
  BY SettersKeep
<1> QED
  BY <1>1, <1>2, <1>3, PTL DEF Spec, SettingsKept

(* Whatever resizes fail and however they interleave with reattaches, the   *)
(* window is never smaller than the viewport, outside the two cases that    *)
(* HatchFree names.                                                         *)
THEOREM NoHatch == DesktopSpec => []HatchFree
BY PaneHolds, PaneSafe, PTL

(* Whatever calls, tasks, failures and restarts cross, a conversation that  *)
(* a start could bring back loses its row only when the user ends the       *)
(* session, its pane dies under its monitor, a plain reattach finds no      *)
(* bridge, or it is a replacement that failed.  An orphan reap takes it     *)
(* only if raum knew nothing of the session when the reap chose it.         *)
THEOREM ConversationsKept == DesktopSpec => ConversationKept
<1>1. TerminalsInv /\ [DesktopNext]_desktopVars
        => [which = "terminals" => Terminals!KeepsConversations]_desktopVars
  BY Terminals!StepKeeps DEF TerminalsInv, DesktopNext
<1> QED
  BY <1>1, TerminalsHold, PTL DEF DesktopSpec, ConversationKept

(* A harness whose spawn or replacement succeeds and that was not closed    *)
(* has a row with its project, whoever wrote that row first, unless the     *)
(* spawn's own upsert failed.                                               *)
THEOREM SpawnsTracked == DesktopSpec => SpawnIsTracked
<1>1. TerminalsInv /\ [DesktopNext]_desktopVars
        => [which = "terminals" => Terminals!TracksSpawns]_desktopVars
  BY Terminals!StepTracks DEF TerminalsInv, DesktopNext
<1> QED
  BY <1>1, TerminalsHold, PTL DEF DesktopSpec, SpawnIsTracked

(* Whatever is committed, switched, created or removed between the git      *)
(* processes of the commands, no commit becomes unreachable but by the      *)
(* deletion of a branch that the user has asked to force.                   *)
THEOREM CommitsStay == DesktopSpec => CommitsKept
<1>1. TreesInv /\ [DesktopNext]_desktopVars
        => [/\ which = "two trees" => TwoTrees!KeepsCommits
            /\ which = "old tree"  => OldTree!KeepsCommits]_desktopVars
  BY SlotsAssumption, TwoTrees!StepKeeps, OldTree!StepKeeps DEF TreesInv, DesktopNext
<1> QED
  BY <1>1, TreesHold, PTL DEF DesktopSpec, CommitsKept

(* What the user wrote is not overwritten, whatever calls and edits cross:  *)
(* no hydration rule writes through a link into the main checkout, no       *)
(* install replaces the user's part of a settings file that nobody edits    *)
(* meanwhile, no setter another setting, no page a grid it has not read.    *)
THEOREM UserFiles == DesktopSpec => UserFilesKept
<1>1. (which = "hydrate" => HydrateInv) /\ [DesktopNext]_desktopVars
        => (which = "hydrate" => Hydrate!LeavesSource)
  BY HydrateRuns, HydrateStep
<1>2. SetupsInv /\ [DesktopNext]_desktopVars
        => /\ which = "json setup"  => Setup({"claude", "opencode"})!KeepsUserContent
           /\ which = "codex setup" => Setup({"codex"})!KeepsUserContent
  <2>1. {"claude", "opencode"} \in SUBSET {"claude", "codex", "opencode"}
        /\ {"codex"} \in SUBSET {"claude", "codex", "opencode"}
    OBVIOUS
  <2> QED
    BY <2>1, JsonSetupRuns, CodexSetupRuns, SetupStep DEF SetupsInv
<1>3. IInv /\ DesktopNext => (which = "settings" => KeepsSettings)
  BY SettersKeep DEF DesktopNext
<1>4. (which = "layout" => LayoutInv) /\ DesktopNext => (which = "layout" => Layout!EmptiesOnPurpose)
  BY LayoutMeant DEF DesktopNext
<1>5. /\ which = "hydrate" => HydrateInv
      /\ SetupsInv /\ IInv
      /\ which = "layout" => LayoutInv
      /\ [DesktopNext]_desktopVars
      => [/\ which = "hydrate"     => Hydrate!LeavesSource
          /\ which = "json setup"  => Setup({"claude", "opencode"})!KeepsUserContent
          /\ which = "codex setup" => Setup({"codex"})!KeepsUserContent
          /\ which = "settings"    => KeepsSettings
          /\ which = "layout"      => Layout!EmptiesOnPurpose]_desktopVars
  BY <1>1, <1>2, <1>3, <1>4
<1> QED
  BY <1>5, HydrateHolds, SetupsHold, SettingsHold, LayoutHolds, PTL DEF DesktopSpec, UserFilesKept

(* What a caller is told holds: an install that reports success has wired   *)
(* its harness whatever other installs did meanwhile, a hydration has met   *)
(* its manifest in whatever order its rules stood, the strategy shown is    *)
(* the one a worktree is made by, and a grid that was acknowledged is on    *)
(* disk when the backend exits.                                             *)
THEOREM Promises == DesktopSpec => []PromisesMet
<1>1. (which = "hydrate" => HydrateInv) => (which = "hydrate" => Hydrate!MeetsManifest)
  BY HydrateMeets
<1>2. SetupsInv => /\ which = "json setup"  => Setup({"claude", "opencode"})!InstalledIsWired
                   /\ which = "codex setup" => Setup({"codex"})!InstalledIsWired
  <2>1. {"claude", "opencode"} \in SUBSET {"claude", "codex", "opencode"}
        /\ {"codex"} \in SUBSET {"claude", "codex", "opencode"}
    OBVIOUS
  <2> QED
    BY <2>1, SetupWired DEF SetupsInv
<1>3. ProjectsInv => /\ which = "two projects" => Tabs({"p", "q"}, 0, 2, 0)!StrategyTold
                     /\ which = "one project"  => Tabs({"p"}, 1, 3, MaxFaults)!StrategyTold
  BY SlotsAssumption, TabsTold DEF ProjectsInv
<1>4. (which = "layout" => LayoutInv) => (which = "layout" => Layout!LayoutLands)
  BY LayoutSafe
<1>5. /\ which = "hydrate" => HydrateInv
      /\ SetupsInv /\ ProjectsInv
      /\ which = "layout" => LayoutInv
      => PromisesMet
  BY <1>1, <1>2, <1>3, <1>4 DEF PromisesMet
<1> QED
  BY <1>5, HydrateHolds, SetupsHold, ProjectsHold, LayoutHolds, PTL

(* Whatever calls, crashes and restarts cross, nothing goes on unseen: a    *)
(* live tmux session that raum does not list is one that the next pass      *)
(* adopts, unless its row has outlived a cleanup, by a late report or a     *)
(* failed write, and then only until raum starts again; every worktree has  *)
(* its watch and every watch its worktree, but for those that came, went or *)
(* were refused during a rebuild; and each event channel is the runtime's   *)
(* or that of a registration under way.                                     *)
THEOREM NothingGoesAdrift == DesktopSpec => []NothingAdrift
<1>1. TerminalsInv /\ TreesInv /\ (which = "opencode" => StreamInv) => NothingAdrift
  BY Terminals!Adoptable, TwoTrees!NoneOwed, OldTree!NoneOwed
     DEF TerminalsInv, TreesInv, StreamInv, NothingAdrift
<1> QED
  BY <1>1, TerminalsHold, TreesHold, StreamHolds, PTL
=============================================================================
