---------------------------- MODULE HarnessSetup ----------------------------
(***************************************************************************)
(* What raum writes into the settings of Claude Code, Codex and OpenCode:  *)
(* a planner reads the files and works out their new contents, the         *)
(* executor applies the actions later and one by one, while the user, the  *)
(* harness and other installs write the same files. Every spawn of a pane  *)
(* and the Harness Health panel run such an install.                       *)
(*                                                                         *)
(* Left out: settings that parse and have the wrong shape (an array for    *)
(* the root or for "hooks"), which the JSON planners replace.              *)
(***************************************************************************)
EXTENDS Integers, Sequences

CONSTANTS
    Harnesses, \* those in use, of "claude", "codex" and "opencode"
    Projects, \* worktree roots
    Home,     \* the owner of user-global files
    Calls,    \* installs that may run at the same time
    MaxEdits, \* bound on edits by the user or the harness
    MaxFaults \* bound on failing writes and on stops of raum

Scripts == {"claude", "codex", "notify"}

\* settings.local.json and hooks.json of a project; .claude/settings.json,
\* which older versions wrote; and the files in the home directory.
FilesOf(h) ==
    CASE h = "claude"   -> ({"local", "shared"} \X Projects) \cup {<<"user", Home>>}
      [] h = "codex"    -> ({"hooks"} \X Projects) \cup {<<"toml", Home>>, <<"old", Home>>}
      [] h = "opencode" -> {<<"opencode", Home>>}

Files == UNION {FilesOf(h) : h \in Harnesses}
Toml  == <<"toml", Home>>

VARIABLES
    modern, \* the installed Codex has hooks
    disk,   \* per file: form, the user's part, raum's part
    script, \* per hook script: "absent", "plain" (no x bit), "runnable"
    call,   \* per install: its plan and how far it is
    crossed, \* history: a file was edited while an install was applied
    edits, faults

vars == <<modern, disk, script, call, crossed, edits, faults>>

\* user numbers the versions of what is not raum's, 0 for nothing; first says
\* that raum's group leads its event's list; trust holds [projects] and seeded
\* the projects whose hooks.json has its [hooks.state] hashes.
Absent == [form |-> "absent", user |-> 0, raum |-> "no", first |-> FALSE,
           trust |-> {}, seeded |-> {}]
Plain  == [Absent EXCEPT !.form = "good", !.user = 1]
Stale  == [Plain EXCEPT !.raum = "stale"]
Broken == [Plain EXCEPT !.form = "broken"]

Idle == [pc |-> "idle"]

Init ==
    /\ modern \in BOOLEAN
    /\ \E start \in {Absent, Plain, Stale, Broken} : disk = [f \in Files |-> start]
    /\ script = [s \in Scripts |-> "absent"]
    /\ call = [c \in Calls |-> Idle]
    /\ crossed = FALSE /\ edits = 0 /\ faults = 0

-----------------------------------------------------------------------------
(* The planners. *)

\* Mutant: settings that do not parse count as empty.
ReadableOrEmpty(f) == TRUE

\* A file whose content does not parse is an error of the planner.
Readable(f) == disk[f].form /= "broken"

\* The events' lists with the old managed groups dropped and a fresh one at the
\* end, or for Codex, whose trust is by position, at the front.
AppendedHooks(f) == [disk[f] EXCEPT !.form = "good", !.raum = "fresh", !.first = disk[f].user = 0]
PrependedHooks(f) == [disk[f] EXCEPT !.form = "good", !.raum = "fresh", !.first = TRUE]

\* The hooks whose hash raum seeds, at the position (0, 0) it will write them to.
Seeds(p) == IF modern THEN {p} ELSE {}

\* The sentinel block of older versions taken out.
Stripped(f) == [f EXCEPT !.raum = "no"]

\* merge_codex_config_toml: the user's keys stay and raum's are set one by one.
MergedToml(p) ==
    [Stripped(disk[Toml]) EXCEPT !.form = "good", !.raum = "fresh", !.trust = @ \cup {p},
                       !.seeded = @ \cup Seeds(p)]

Write(f, content) == [do |-> "write", at |-> f, content |-> content]
Sweep(f) == [do |-> "sweep", at |-> f]
WriteScript(s) == << [do |-> "script", at |-> s], [do |-> "chmod", at |-> s] >>

PlanClaude(p) ==
    << Sweep(<<"shared", p>>), Sweep(<<"user", Home>>) >> \o WriteScript("claude")
    \o << Write(<<"local", p>>, AppendedHooks(<<"local", p>>)) >>

PlanOpenCode == << Sweep(<<"opencode", Home>>) >>

PlanCodex(p) ==
    WriteScript("notify") \o << Write(Toml, MergedToml(p)) >>
    \o IF ~modern THEN << >>
       ELSE << Sweep(<<"old", Home>>) >> \o WriteScript("codex")
            \o << Write(<<"hooks", p>>, PrependedHooks(<<"hooks", p>>)) >>

Plan(h, p) == CASE h = "claude"   -> PlanClaude(p)
                [] h = "codex"    -> PlanCodex(p)
                [] h = "opencode" -> PlanOpenCode

\* The files a planner has to parse.
Sources(h, p) == CASE h = "claude"   -> {<<"local", p>>}
                   [] h = "codex"    -> {Toml} \cup (IF modern THEN {<<"hooks", p>>} ELSE {})
                   [] h = "opencode" -> {}

\* prepare_harness_launch or harness_install up to the plan.
Install(c, h, p) ==
    /\ call[c].pc /= "apply"
    /\ call' = [call EXCEPT ![c] =
         IF \A f \in Sources(h, p) : Readable(f)
         THEN [pc |-> "apply", h |-> h, p |-> p, todo |-> Plan(h, p), ok |-> TRUE, seen |-> edits]
         ELSE [pc |-> "refused"]]
    /\ UNCHANGED <<modern, disk, script, crossed, edits, faults>>

-----------------------------------------------------------------------------
(* SetupExecutor. *)

Todo(c) == call[c].todo
Step(c) == call[c].pc = "apply" /\ Todo(c) /= << >>

\* The plan goes on behind n of its actions.
Advance(c, n, ok) ==
    call' = [call EXCEPT ![c].todo = SubSeq(@, n + 1, Len(@)), ![c].ok = @ /\ ok]

\* A file that parses and carries raum's entries.
Managed(f) == f.form = "good" /\ f.raum /= "no"

\* remove_managed_entries, which reads the file itself.
Swept(f) == IF Managed(f)
            THEN [f EXCEPT !.raum = "no", !.first = FALSE] ELSE f

ApplyOne(c) ==
    /\ Step(c)
    /\ LET act == Head(Todo(c)) IN
         /\ disk' = CASE act.do = "write" -> [disk EXCEPT ![act.at] = act.content]
                      [] act.do = "sweep" -> [disk EXCEPT ![act.at] = Swept(@)]
                      [] OTHER            -> disk
         /\ script' = CASE act.do = "script" -> [script EXCEPT ![act.at] = "plain"]
                        [] act.do = "chmod"  -> [script EXCEPT ![act.at] = "runnable"]
                        [] OTHER             -> script
    /\ Advance(c, 1, TRUE)
    /\ UNCHANGED <<modern, crossed, edits, faults>>

\* A write that fails leaves its file alone and takes its chmod with it; the
\* plan goes on.
ApplyFails(c) ==
    /\ Step(c) /\ faults < MaxFaults /\ faults' = faults + 1
    /\ Advance(c, IF Head(Todo(c)).do = "script" THEN 2 ELSE 1, FALSE)
    /\ UNCHANGED <<modern, disk, script, crossed, edits>>

\* Mutant: failed actions do not count.
ReportDone(c) ==
    /\ call[c].pc = "apply" /\ Todo(c) = << >>
    /\ call' = [call EXCEPT ![c] = [pc |-> "installed", h |-> @.h, p |-> @.p, seen |-> @.seen]]
    /\ UNCHANGED <<modern, disk, script, crossed, edits, faults>>

Report(c) ==
    /\ call[c].pc = "apply" /\ Todo(c) = << >>
    /\ call' = [call EXCEPT ![c] =
         IF @.ok THEN [pc |-> "installed", h |-> @.h, p |-> @.p, seen |-> @.seen]
         ELSE [pc |-> "failed"]]
    /\ UNCHANGED <<modern, disk, script, crossed, edits, faults>>

-----------------------------------------------------------------------------
\* External: the user or the harness rewrites a file.
Edited(f) ==
    LET new == [disk[f] EXCEPT !.form = "good", !.user = edits + 2] IN
      {new, [new EXCEPT !.raum = "no", !.first = FALSE], [new EXCEPT !.first = FALSE],
       [Broken EXCEPT !.user = edits + 2]}

Edit(f) ==
    /\ edits < MaxEdits /\ edits' = edits + 1
    /\ \E new \in Edited(f) : disk' = [disk EXCEPT ![f] = new]
    /\ crossed' = (crossed \/ \E c \in Calls : call[c].pc = "apply")
    /\ UNCHANGED <<modern, script, call, faults>>

\* raum stops; each write is atomic.
Stop ==
    /\ faults < MaxFaults /\ faults' = faults + 1
    /\ \E c \in Calls : call[c].pc = "apply"
    /\ call' = [c \in Calls |-> IF call[c].pc = "apply" THEN Idle ELSE call[c]]
    /\ UNCHANGED <<modern, disk, script, crossed, edits>>

Next ==
    \/ \E c \in Calls :
         \/ \E h \in Harnesses, p \in Projects : Install(c, h, p)
         \/ ApplyOne(c) \/ ApplyFails(c) \/ Report(c)
    \/ \E f \in Files : Edit(f)
    \/ Stop

Spec == Init /\ [][Next]_vars

-----------------------------------------------------------------------------
\* What the Harness Health panel shows as installed.
Scan(h, p) ==
    CASE h = "claude"   -> Managed(disk[<<"local", p>>])
      [] h = "codex"    -> Managed(disk[Toml]) /\ Managed(disk[<<"hooks", p>>])
      [] h = "opencode" -> TRUE

\* As long as nobody edits a file while an install is applied, what raum did
\* not write stays what its owner wrote last, whatever installs race, and a
\* settings file that does not parse is left alone.
KeepsUserContent ==
    ~crossed' => \A f \in Files :
        \/ disk'[f].user = disk[f].user /\ (disk[f].form = "broken" => disk'[f] = disk[f])
        \/ edits' /= edits
UserContentKept == [][KeepsUserContent]_vars

\* An install that reports success has left the harness wired up, whatever ran
\* beside it, as long as nobody edits the files: the settings name the hook, and
\* Codex finds it at the trusted position.
Wired(h, p) ==
    CASE h = "claude" -> disk[<<"local", p>>].raum = "fresh" /\ script["claude"] /= "absent"
      [] h = "codex"  ->
           /\ disk[Toml].raum = "fresh" /\ script["notify"] /= "absent"
           /\ modern => /\ script["codex"] /= "absent"
                        /\ disk[<<"hooks", p>>].raum = "fresh" /\ disk[<<"hooks", p>>].first
      [] h = "opencode" -> disk[<<"opencode", Home>>].raum = "no"
                           \/ disk[<<"opencode", Home>>].form = "broken"

InstalledIsWired ==
    \A c \in Calls :
        call[c].pc = "installed" /\ call[c].seen = edits =>
            /\ Wired(call[c].h, call[c].p)
            /\ (call[c].h = "codex" => modern) => Scan(call[c].h, call[c].p)
=============================================================================
