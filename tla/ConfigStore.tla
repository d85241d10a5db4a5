---------------------------- MODULE ConfigStore ----------------------------
(***************************************************************************)
(* The user's config.toml: the store that reads it through a cache keyed   *)
(* by the file's stamp (modification time and length), the commands that   *)
(* each rewrite one group of settings, the editor in which the user opens  *)
(* the same file, a crash anywhere, and the one-shot flag by which an      *)
(* accepted "restart the terminal server" reaches the next launch.         *)
(*                                                                         *)
(* A store call holds the config_store mutex from its first stat to its    *)
(* last, so calls exclude each other; the editor and the crash do not ask  *)
(* for the mutex.  Every change of the file gives it a fresh stamp.        *)
(***************************************************************************)
EXTENDS Integers

CONSTANTS Groups,       \* settings other than the restart flag
          None,
          MaxEdits,     \* saves by the user's editor
          MaxSets,      \* calls that write
          MaxLaunches,
          MaxFaults     \* calls that find the directory read-only

VARIABLES disk,      \* the file: None, or [ok, at, restart]
          stamp,     \* FileStamp of the file, 0 when there is none
          stamps,    \* the last stamp given
          aside,     \* the texts kept as config.toml.bad-<ms>
          cache,     \* config_cache: None or [stamp, at, restart]
          call,      \* the call that holds the mutex, or None
          app,       \* "down", "booting", "killing", "up"
          used,      \* how often the bounded things happened
          asked,     \* restarts the user accepted, or asked for in the file
          kills,     \* kill-server at boot
          uncleared, \* launches that could not clear the flag
          misfiled   \* stamps the cache holds with another text's settings

vars == <<disk, stamp, stamps, aside, cache, call, app, used, asked, kills, uncleared, misfiled>>

\* A file that parses to these settings; at[g] is the write that last set g.
Defaults == [at |-> [g \in Groups |-> 0], restart |-> FALSE]
Text(ok, cfg) == [ok |-> ok, at |-> cfg.at, restart |-> cfg.restart]
Config(d) == IF d = None THEN Defaults ELSE [at |-> d.at, restart |-> d.restart]

\* The groups' writers, the reader, and the three users of the flag.
Ops == ({"set"} \X Groups) \cup ({"get", "accept", "peek", "clear"} \X {None})
Writes(op) == op[1] \in {"set", "accept", "clear"}

\* The states of the file, of the cache and of a call; None is none of them.
Cfg     == [at : [Groups -> Int], restart : BOOLEAN]
Texts   == [ok : BOOLEAN, at : [Groups -> Int], restart : BOOLEAN]
Entries == [stamp : Nat \ {0}, at : [Groups -> Int], restart : BOOLEAN]
Pcs     == {"stat", "parse", "quarantine", "restat", "have", "between", "wrote"}
Tasks   == [op : Ops, ro : BOOLEAN, pc : Pcs, stat : Nat, read : Nat, cfg : Cfg]

ASSUME NoneAssumption == None \notin Texts \cup Entries \cup Tasks

Count(what) == used' = [used EXCEPT ![what] = @ + 1]
Put(d) == /\ disk' = d
          /\ stamps' = stamps + 1
          /\ stamp' = IF d = None THEN 0 ELSE stamps + 1

\* The first launch ever, or one that follows an accepted restart.
Init == /\ \/ disk = None /\ stamp = 0 /\ asked = 0
           \/ disk = Text(TRUE, [Defaults EXCEPT !.restart = TRUE]) /\ stamp = 1 /\ asked = 1
        /\ stamps = stamp /\ aside = {}
        /\ cache = None /\ call = None /\ app = "down"
        /\ used = [edits |-> 0, sets |-> 0, launches |-> 0, faults |-> 0]
        /\ kills = 0 /\ uncleared = 0 /\ misfiled = {}

-----------------------------------------------------------------------------
(* One call under the mutex.                                               *)

Enter(op, ro) ==
    /\ call = None
    /\ Writes(op) => used.sets < MaxSets
    /\ ro => used.faults < MaxFaults
    /\ used' = [used EXCEPT !.sets = @ + (IF op[1] \in {"set", "accept"} THEN 1 ELSE 0),
                            !.faults = @ + (IF ro THEN 1 ELSE 0)]
    /\ call' = [op |-> op, ro |-> ro, pc |-> "stat", stat |-> 0, read |-> 0, cfg |-> Defaults]

\* read_cached_slot: no file, the cached parse of this very file, or a parse.
Stat ==
    /\ call # None /\ call.pc = "stat"
    /\ IF stamp = 0
       THEN /\ cache' = None
            /\ call' = [call EXCEPT !.pc = "parse"]
       ELSE IF cache # None /\ cache.stamp = stamp
       THEN /\ call' = [call EXCEPT !.pc = "have", !.read = stamp,
                                    !.cfg = [at |-> cache.at, restart |-> cache.restart]]
            /\ UNCHANGED cache
       ELSE /\ call' = [call EXCEPT !.pc = "parse", !.stat = stamp]
            /\ UNCHANGED cache
    /\ UNCHANGED <<disk, stamp, stamps, aside, app, used, asked, kills, uncleared, misfiled>>

\* read_toml_tracked: absent is the default, bad text goes aside.
Parse ==
    /\ call # None /\ call.pc = "parse"
    /\ call' = IF disk # None /\ ~disk.ok
               THEN [call EXCEPT !.pc = "quarantine", !.read = stamp]
               ELSE [call EXCEPT !.pc = "restat", !.read = stamp, !.cfg = Config(disk)]
    /\ UNCHANGED <<disk, stamp, stamps, aside, cache, app, used, asked, kills, uncleared, misfiled>>

\* The rename takes whatever lies at the path by now.  When it fails, the
\* defaults will be cached under the stamp of the text that is still there.
Quarantine ==
    /\ call # None /\ call.pc = "quarantine"
    /\ misfiled' = IF call.ro THEN misfiled \cup {stamp} ELSE misfiled
    /\ IF call.ro \/ disk = None
       THEN UNCHANGED <<disk, stamp, stamps, aside>>
       ELSE /\ aside' = aside \cup {disk}
            /\ Put(None)
    /\ call' = [call EXCEPT !.pc = "restat", !.cfg = Defaults,
                            !.read = IF call.ro THEN @ ELSE 0]
    /\ UNCHANGED <<cache, app, used, asked, kills, uncleared>>

\* What write_config files: the stamp of whatever is there by now.
FillAfter(c) == IF stamp # 0
                THEN [stamp |-> stamp, at |-> c.cfg.at, restart |-> c.cfg.restart]
                ELSE None

\* A variant that stamps the file only after the parse.
FillLate(c) == FillAfter(c)

\* The parse is kept only when the file still has the stamp it had before.
Fill(c) == IF c.stat # 0 /\ stamp = c.stat
           THEN [stamp |-> c.stat, at |-> c.cfg.at, restart |-> c.cfg.restart]
           ELSE None

Restat ==
    /\ call # None /\ call.pc = "restat"
    /\ cache' = Fill(call)
    /\ call' = [call EXCEPT !.pc = "have"]
    /\ UNCHANGED <<disk, stamp, stamps, aside, app, used, asked, kills, uncleared, misfiled>>

\* The one field a writer changes in the config it read.
Edited(op, cfg) ==
    CASE op[1] = "set"    -> [cfg EXCEPT !.at[op[2]] = used.sets]
      [] op[1] = "accept" -> [cfg EXCEPT !.restart = TRUE]
      [] op[1] = "clear"  -> [cfg EXCEPT !.restart = FALSE]

\* A variant that kills the server first and clears the flag afterwards.
AfterBootKillFirst(op) ==
    CASE op[1] = "peek" /\ app = "booting" -> IF call.cfg.restart THEN "killing" ELSE "up"
      [] OTHER -> app

\* At boot: is a restart pending, and once it is cleared (or not) the kill.
AfterBoot(op) ==
    CASE op[1] = "peek" /\ app = "booting" /\ ~call.cfg.restart -> "up"
      [] op[1] = "clear" -> "killing"
      [] OTHER -> app

\* A reader returns; a write that cannot land returns its error.
Return ==
    /\ call # None /\ call.pc = "have"
    /\ ~Writes(call.op) \/ call.ro
    /\ cache' = IF Writes(call.op) THEN None ELSE cache
    /\ uncleared' = uncleared + (IF call.op[1] = "clear" THEN 1 ELSE 0)
    /\ app' = AfterBoot(call.op)
    /\ call' = IF call.op[1] = "peek" /\ call.cfg.restart
               THEN [call EXCEPT !.op = <<"clear", None>>, !.pc = "between"]
               ELSE None
    /\ UNCHANGED <<disk, stamp, stamps, aside, used, asked, kills, misfiled>>

\* mutate_terminals takes the mutex again and reads again.
Again ==
    /\ call # None /\ call.pc = "between"
    /\ \E ro \in BOOLEAN :
        /\ ro => used.faults < MaxFaults
        /\ used' = [used EXCEPT !.faults = @ + (IF ro THEN 1 ELSE 0)]
        /\ call' = [call EXCEPT !.pc = "stat", !.stat = 0, !.read = 0, !.ro = ro]
    /\ UNCHANGED <<disk, stamp, stamps, aside, cache, app, asked, kills, uncleared, misfiled>>

\* atomic_write's rename: the whole new text or, before it, the whole old.
Rename ==
    /\ call # None /\ call.pc = "have"
    /\ Writes(call.op) /\ ~call.ro
    /\ LET cfg == Edited(call.op, call.cfg)
       IN /\ Put(Text(TRUE, cfg))
          /\ call' = [call EXCEPT !.pc = "wrote", !.cfg = cfg, !.stat = stamps + 1]
    /\ cache' = None
    /\ asked' = asked + (IF call.op[1] = "accept" THEN 1 ELSE 0)
    /\ UNCHANGED <<aside, app, used, kills, uncleared, misfiled>>

\* write_config stamps the file as it is by now and caches what it wrote.
Wrote ==
    /\ call # None /\ call.pc = "wrote"
    /\ cache' = FillAfter(call)
    /\ misfiled' = IF stamp # call.stat THEN misfiled \cup {stamp} ELSE misfiled
    /\ app' = AfterBoot(call.op)
    /\ call' = None
    /\ UNCHANGED <<disk, stamp, stamps, aside, used, asked, kills, uncleared>>

-----------------------------------------------------------------------------
(* The application.                                                        *)

Command ==
    /\ app = "up"
    /\ \E op \in Ops, ro \in BOOLEAN : op[1] \in {"set", "get", "accept"} /\ Enter(op, ro)
    /\ UNCHANGED <<disk, stamp, stamps, aside, cache, app, asked, kills, uncleared, misfiled>>

\* apply_pending_server_restart reads the flag before the rehydrate.
Launch ==
    /\ app = "down" /\ call = None /\ used.launches < MaxLaunches
    /\ app' = "booting"
    /\ cache' = None
    /\ call' = [op |-> <<"peek", None>>, ro |-> FALSE, pc |-> "stat",
                stat |-> 0, read |-> 0, cfg |-> Defaults]
    /\ Count("launches")
    /\ UNCHANGED <<disk, stamp, stamps, aside, asked, kills, uncleared, misfiled>>

KillServer ==
    /\ app = "killing"
    /\ kills' = kills + 1
    /\ app' = "up"
    /\ UNCHANGED <<disk, stamp, stamps, aside, cache, call, used, asked, uncleared, misfiled>>

\* The process ends: the relaunch after an accepted restart, a quit, a crash
\* in the middle of a call or between calls.
Crash ==
    /\ app # "down"
    /\ app' = "down" /\ call' = None /\ cache' = None
    /\ UNCHANGED <<disk, stamp, stamps, aside, used, asked, kills, uncleared, misfiled>>

\* The user saves the file: one group set by hand, broken, or repaired.  The
\* editor's buffer may be older than the flag in the file, so the save may take
\* the flag away or put it back, which counts as asking.
Edit ==
    /\ used.edits < MaxEdits /\ disk # None
    /\ Count("edits")
    /\ \E g \in Groups, ok, restart \in BOOLEAN :
         /\ Put(Text(ok, [at |-> [disk.at EXCEPT ![g] = -(used.edits + 1)], restart |-> restart]))
         /\ asked' = asked + (IF restart /\ ~disk.restart THEN 1 ELSE 0)
    /\ UNCHANGED <<aside, cache, call, app, kills, uncleared, misfiled>>

Next == \/ Command \/ Launch \/ KillServer \/ Crash \/ Edit
        \/ Stat \/ Parse \/ Quarantine \/ Restat \/ Return \/ Again \/ Rename \/ Wrote

Spec == Init /\ [][Next]_vars

-----------------------------------------------------------------------------
(* Properties.                                                             *)

TypeOK ==
    /\ disk \in Texts \cup {None} /\ (disk = None) = (stamp = 0)
    /\ cache \in Entries \cup {None} /\ call \in Tasks \cup {None}
    /\ stamp <= stamps
    /\ app \in {"down", "booting", "killing", "up"}
    /\ app = "down" => call = None /\ cache = None
    /\ cache # None => cache.stamp <= stamps

\* What the user set or typed leaves the live file only by the setting's own
\* command, by the user's hand, or with the whole text set aside.  A command
\* for another group takes a setting, or overwrites a text that does not parse,
\* only when the file changed after that command had read it, or when it read a
\* cache entry filed under the wrong stamp: write_config stamps whatever lies at
\* the path after its rename, and a failed quarantine caches the defaults.
Crossed == call # None /\ (call.read # stamp \/ call.read \in misfiled)

KeepsSettings ==
    \/ disk' = disk \/ disk \in aside' \/ used'.edits # used.edits \/ Crossed
    \/ /\ disk = None \/ disk.ok
       /\ \A g \in Groups : Config(disk').at[g] # Config(disk).at[g] => call.op = <<"set", g>>
SettingsKept == [][KeepsSettings]_vars

\* The tmux server is killed at most once for each restart the user accepted or
\* put back into the file, whatever crashes in between, plus the launches that
\* could not clear the flag.
KillsWereAsked == kills <= asked + uncleared

\* The comment's promise: a launch that fails must not leave raum killing the
\* server on every launch.  A directory that cannot be written breaks it.
KillsOnce == kills <= asked
=============================================================================
