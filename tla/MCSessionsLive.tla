--------------------------- MODULE MCSessionsLive ---------------------------
(***************************************************************************)
(* The liveness run over what a session waits for: the terminal list, the  *)
(* event channel of an OpenCode pane and the hook of a worktree, which     *)
(* share no state with one another.  A behaviour is one of one component,  *)
(* chosen at the start: SessionLifecycle with its own variables, the other *)
(* two in the slots v1, v2, ...; what it does not use stays as it is.      *)
(***************************************************************************)
EXTENDS SessionLifecycle

CONSTANT None

VARIABLES which, v1, v2, v3, v4, v5, v6, v7, v8, v9, v10, v11, v12, v13, v14

Hook == INSTANCE HookRun WITH
    Timeouts <- {0, 1},
    timeout <- v1, script <- v2, heirs <- v3, late <- v4, pc <- v5, outcome <- v6

OpenCode == INSTANCE OpenCodeStream WITH
    Calls <- {"boot"}, InboxCap <- 1, SinkCap <- 1, MaxFaults <- 1,
    server <- v1, port <- v2, conn <- v3, inbox <- v4, sending <- v5, sink <- v6, held <- v7,
    knows <- v8, call <- v9, runtime <- v10, cancelled <- v11, drain <- v12, machine <- v13,
    faults <- v14

After6   == <<v7, v8, v9, v10, v11, v12, v13, v14>>
slots    == <<v1, v2, v3, v4, v5, v6, After6>>
liveVars == <<vars, which, slots>>

Blank == "unused"
Blank6 == /\ v7 = Blank /\ v8 = Blank /\ v9 = Blank /\ v10 = Blank
           /\ v11 = Blank /\ v12 = Blank /\ v13 = Blank /\ v14 = Blank
Blank0 == /\ v1 = Blank /\ v2 = Blank /\ v3 = Blank /\ v4 = Blank /\ v5 = Blank
           /\ v6 = Blank /\ Blank6

\* What the others leave SessionLifecycle at: nothing has run yet.
Still == /\ tmux = [i \in Ids |-> "none"] /\ row = [i \in Ids |-> NoRow]

LiveInit ==
    /\ Init
    /\ \/ which = "terminals" /\ Blank0
       \/ which = "hook" /\ Still /\ Hook!Init /\ Blank6
       \/ which = "opencode" /\ Still /\ OpenCode!Init

\* Steps of one component; the rest of the state stands still.
Terminals(A)  == which = "terminals" /\ A /\ UNCHANGED <<which, slots>>
OfHook(A)     == which = "hook" /\ A /\ UNCHANGED <<which, vars, After6>>
OfOpenCode(A) == which = "opencode" /\ A /\ UNCHANGED <<which, vars>>

LiveNext == Terminals(Next) \/ OfHook(Hook!Next) \/ OfOpenCode(OpenCode!Next)

\* The fairness of the three FairSpecs.  Only one of them runs, so that one
\* conjunct can hold one assumption of each.
LiveFairness ==
    /\ \A c \in Calls :
          WF_liveVars(\/ Terminals(Step(c))
                      \/ OfHook(Hook!Start)
                      \/ OfOpenCode(OpenCode!Connect("boot")))
    /\ WF_liveVars(\/ Terminals(ReconStep)
                   \/ OfHook(Hook!NoticeExit \/ Hook!GiveUp)
                   \/ OfOpenCode(OpenCode!Retry("boot")))
    /\ WF_liveVars(\/ Terminals(BootStep)
                   \/ OfHook(Hook!Join)
                   \/ OfOpenCode(OpenCode!Read("boot")))
    /\ \A i \in Ids \ Shells :
          /\ WF_liveVars(\/ Terminals(TmuxKill(i))
                         \/ OfHook(Hook!Deadline)
                         \/ OfOpenCode(OpenCode!Push("boot")))
          /\ WF_liveVars(\/ Terminals(MonitorReaps(i))
                         \/ OfHook(Hook!HeirEnds)
                         \/ OfOpenCode(OpenCode!Forward("boot")))
    /\ \A i \in Shells :
          /\ WF_liveVars(Terminals(TmuxKill(i)) \/ OfOpenCode(OpenCode!Deliver("boot")))
          /\ WF_liveVars(Terminals(MonitorReaps(i)) \/ OfOpenCode(OpenCode!MustEnd("boot")))
    /\ WF_liveVars(OfOpenCode(OpenCode!Spawn("boot")))
    /\ WF_liveVars(OfOpenCode(OpenCode!RegisterSession("boot")))
    /\ WF_liveVars(OfOpenCode(OpenCode!Drain))
    /\ WF_liveVars(OfOpenCode(OpenCode!Start))
    /\ WF_liveVars(OfOpenCode(OpenCode!SayRest))
    /\ SF_liveVars(OfOpenCode(OpenCode!Prompt))
    /\ SF_liveVars(OfOpenCode(OpenCode!Answer))
    /\ SF_liveVars(OfOpenCode(OpenCode!Finish))

LiveSpec == LiveInit /\ [][LiveNext]_liveVars /\ LiveFairness

-----------------------------------------------------------------------------
(* The properties, each stated and commented in its component's module;    *)
(* LiveSurfaces is SessionLifecycle's own.                                 *)

In(component, P) == which = component /\ P

\* No wait is for ever: a pane left waiting because the answer's event was lost
\* is freed, and a hook with a deadline returns.
WaitsEnd ==
    /\ In("opencode", OpenCode!Orphaned) ~> In("opencode", OpenCode!Freed)
    /\ In("hook", Hook!Timed) ~> In("hook", Hook!Returned)
=============================================================================
