---------------------------- MODULE WebviewHealth ----------------------------
(***************************************************************************)
(* The watch over the webview's content process: the probe sequence a      *)
(* focus gain starts, the callback WebKit makes when the process dies, and *)
(* reload_webview, which both run on tasks of their own and which closes   *)
(* the gate that the next page opens with webview_ready.                   *)
(*                                                                         *)
(* Named assumption: no page boots between the adjacent statements of      *)
(* reload_webview that look at the cooldown, read the gate and shut it.    *)
(***************************************************************************)
EXTENDS Integers

CONSTANTS
    MaxMisses, \* MAX_MISSES
    MaxDeaths, \* bound on deaths of the page
    MaxFaults  \* bound on failed reloads and failed emits

Callers == {"probe", "hook"}

VARIABLES
    page,    \* "booting", "alive", "dead"
    ready,   \* the gate
    probe,   \* the sequence: "none", "grace", "wait", "backoff", "verdict"
    misses,  \* probes that timed out
    failed,  \* pings of the sequence that could not be emitted
    ping,    \* a ping of the sequence is with the page
    pong,    \* the watermark has reached the sequence's first nonce
    cooling, \* the last reload is younger than RELOAD_COOLDOWN
    call,    \* per caller of reload_webview: "none", "start", "reload", "undo"
    was,     \* per caller: was_ready
    deaths, faults

vars == <<page, ready, probe, misses, failed, ping, pong, cooling, call, was, deaths, faults>>
sequence == <<probe, misses, failed, pong>>
bounds == <<deaths, faults>>

Init ==
    /\ page = "booting" /\ ready = FALSE
    /\ probe = "none" /\ misses = 0 /\ failed = 0 /\ ping = FALSE /\ pong = FALSE
    /\ cooling = FALSE
    /\ call = [c \in Callers |-> "none"] /\ was = [c \in Callers |-> FALSE]
    /\ deaths = 0 /\ faults = 0

\* The sequence has handed out a nonce.
Handed == probe \in {"wait", "backoff"}

-----------------------------------------------------------------------------
(* The page. *)

\* webview_ready, sent once the page listens to pings: mark_ready.
WebviewReady ==
    /\ page = "booting"
    /\ page' = "alive" /\ ready' = TRUE
    /\ pong' = (pong \/ Handed)
    /\ UNCHANGED <<probe, misses, failed, ping, cooling, call, was, bounds>>

\* webview_pong, at any distance from the ping.
WebviewPong ==
    /\ page = "alive" /\ ping
    /\ ping' = FALSE /\ pong' = TRUE
    /\ UNCHANGED <<page, ready, probe, misses, failed, cooling, call, was, bounds>>

\* External: the content process is killed, while the page boots or later. The
\* callback, where there is one and WebKit is not napping, starts a task.
PageDies ==
    /\ page /= "dead" /\ deaths < MaxDeaths
    /\ page' = "dead" /\ ping' = FALSE /\ deaths' = deaths + 1
    /\ call' \in {call} \cup
                 (IF call["hook"] = "none" THEN {[call EXCEPT !["hook"] = "start"]} ELSE {})
    /\ UNCHANGED <<ready, sequence, cooling, was, faults>>

-----------------------------------------------------------------------------
(* on_focus_gained and run_probes. *)

FocusGained ==
    /\ ready /\ probe = "none"
    /\ probe' = "grace" /\ misses' = 0 /\ failed' = 0 /\ pong' = FALSE /\ ping' = FALSE
    /\ UNCHANGED <<page, ready, cooling, call, was, bounds>>

\* The emit of the next ping, which a page that does not listen yet misses.
EmitPing ==
    /\ probe = "grace" \/ (probe = "backoff" /\ misses < MaxMisses)
    /\ probe' = "wait"
    /\ \/ /\ ping' = (ping \/ page = "alive") /\ UNCHANGED <<failed, faults>>
       \/ /\ faults < MaxFaults /\ faults' = faults + 1
          /\ failed' = failed + 1 /\ UNCHANGED ping
    /\ UNCHANGED <<page, ready, misses, pong, cooling, call, was, deaths>>

\* Alive: the guard ends the sequence.
Answered ==
    /\ probe = "wait" /\ pong
    /\ probe' = "none"
    /\ UNCHANGED <<page, ready, misses, failed, ping, pong, cooling, call, was, bounds>>

\* Mutant: a probe that timed out is not counted.
ProbeMissedAgain ==
    /\ probe = "wait" /\ ~pong
    /\ probe' = "backoff"
    /\ UNCHANGED <<page, ready, misses, failed, ping, pong, cooling, call, was, bounds>>

\* PROBE_TIMEOUT, also while a slow page still owes its answer.
ProbeMissed ==
    /\ probe = "wait" /\ ~pong
    /\ probe' = "backoff" /\ misses' = misses + 1
    /\ UNCHANGED <<page, ready, failed, ping, pong, cooling, call, was, bounds>>

\* Dead, which the backoff after the last miss precedes and no further look at
\* the watermark; inconclusive when no ping went out.
Verdict ==
    /\ probe = "backoff" /\ misses = MaxMisses
    /\ IF failed >= MaxMisses
       THEN probe' = "none" /\ UNCHANGED call
       ELSE probe' = "verdict" /\ call' = [call EXCEPT !["probe"] = "start"]
    /\ UNCHANGED <<page, ready, misses, failed, ping, pong, cooling, was, bounds>>

-----------------------------------------------------------------------------
(* reload_webview; the guard of the sequence is dropped when it returns. *)

Returned(c) ==
    /\ call' = [call EXCEPT ![c] = "none"]
    /\ probe' = IF c = "probe" THEN "none" ELSE probe

Suppressed(c) ==
    /\ call[c] = "start" /\ cooling
    /\ Returned(c)
    /\ UNCHANGED <<page, ready, misses, failed, ping, pong, cooling, was, bounds>>

WindowGone(c) ==
    /\ call[c] = "start" /\ ~cooling /\ faults < MaxFaults /\ faults' = faults + 1
    /\ Returned(c)
    /\ UNCHANGED <<page, ready, misses, failed, ping, pong, cooling, was, deaths>>

ArmReload(c) ==
    /\ call[c] = "start" /\ ~cooling
    /\ was' = [was EXCEPT ![c] = ready] /\ ready' = FALSE
    /\ call' = [call EXCEPT ![c] = "reload"]
    /\ UNCHANGED <<page, sequence, ping, cooling, bounds>>

\* reload() issued and record_reload.
Reload(c) ==
    /\ call[c] = "reload"
    /\ page' = "booting" /\ ping' = FALSE /\ cooling' = TRUE
    /\ Returned(c)
    /\ UNCHANGED <<ready, misses, failed, pong, was, bounds>>

ReloadFails(c) ==
    /\ call[c] = "reload" /\ faults < MaxFaults /\ faults' = faults + 1
    /\ call' = [call EXCEPT ![c] = "undo"]
    /\ UNCHANGED <<page, ready, sequence, ping, cooling, was, deaths>>

\* Mutant: the gate stays closed after a reload that was not issued.
ReopenNever(c) ==
    /\ call[c] = "undo"
    /\ Returned(c)
    /\ UNCHANGED <<page, ready, misses, failed, ping, pong, cooling, was, bounds>>

\* reopen_after_failed_reload, if the gate was open.
Reopen(c) ==
    /\ call[c] = "undo"
    /\ ready' = (ready \/ was[c])
    /\ Returned(c)
    /\ UNCHANGED <<page, misses, failed, ping, pong, cooling, was, bounds>>

\* External: RELOAD_COOLDOWN passes.
CooldownOver ==
    /\ cooling /\ cooling' = FALSE
    /\ UNCHANGED <<page, ready, sequence, ping, call, was, bounds>>

ReloadStep(c) == \/ Suppressed(c) \/ WindowGone(c) \/ ArmReload(c)
                 \/ Reload(c) \/ ReloadFails(c) \/ Reopen(c)
ProbeStep == EmitPing \/ Answered \/ ProbeMissed \/ Verdict

Next ==
    \/ WebviewReady \/ WebviewPong \/ PageDies \/ FocusGained \/ CooldownOver
    \/ ProbeStep \/ \E c \in Callers : ReloadStep(c)

\* The runtime runs its tasks, a page that is not killed boots, the clock goes
\* on and the user comes back to the window again and again.
Fairness ==
    /\ WF_vars(WebviewReady) /\ WF_vars(FocusGained) /\ WF_vars(CooldownOver)
    /\ WF_vars(ProbeStep) /\ \A c \in Callers : WF_vars(ReloadStep(c))

Spec     == Init /\ [][Next]_vars
FairSpec == Spec /\ Fairness

-----------------------------------------------------------------------------
\* The gate of a page that has reported ready is only shut while a reload is
\* on its way: nothing but a fresh page would open it again.
GateOpens ==
    page = "alive" /\ ~ready => \E c \in Callers : call[c] \in {"reload", "undo"}

\* A page that dies with the gate open is reloaded, by the callback or by a
\* later focus, whatever cooldown or failed reload is in the way.
DeadPageReloads == page = "dead" /\ ready ~> page /= "dead"
=============================================================================
