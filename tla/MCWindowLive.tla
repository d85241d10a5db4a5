---------------------------- MODULE MCWindowLive ----------------------------
(***************************************************************************)
(* The liveness run over the services that keep the window up to date and  *)
(* share no state with one another.  A behaviour is one of one service,    *)
(* chosen at the start: WebviewHealth with its own variables, every other  *)
(* one in the slots v1, v2, ...; what it does not use stays as it is.      *)
(***************************************************************************)
EXTENDS WebviewHealth

CONSTANTS None, Branches, MaxMoves

VARIABLES which, v1, v2, v3, v4, v5, v6, v7, v8, v9, v10, v11, v12, v13, v14

Status == INSTANCE StatusService WITH
    Paths <- {"p"}, MaxEdits <- 1, MaxFaults <- 1,
    disk <- v1, entry <- v2, builds <- v3, raw <- v4, pulse <- v5, focused <- v6, wanted <- v7,
    push <- v8, shown <- v9, edits <- v10, faults <- v11, owed <- v12

Pulls == INSTANCE PullPolls WITH
    head <- v1, pr <- v2, login <- v3, up <- v4, status <- v5, focused <- v6, mounted <- v7,
    task <- v8, chip <- v9, moves <- v10, announced <- v11, asof <- v12, witnessed <- v13,
    switched <- v14

Sections == INSTANCE RepoPolls WITH
    Projects <- {"p", "q"}, Streams <- {"s"},
    truth <- v1, usable <- v2, up <- v3, moves <- v4, focused <- v5, wish <- v6, asked <- v7,
    active <- v8, task <- v9, shown <- v10

\* None is no branch, no pull request, no answer of gh and no task.
ASSUME NoneAssumption ==
    None \notin Branches \cup Pulls!Pulls \cup Pulls!Answers \cup Pulls!Tasks

slots    == <<v1, v2, v3, v4, v5, v6, v7, v8, v9, v10, v11, v12, v13, v14>>
liveVars == <<vars, which, slots>>

\* The slots a service with n variables leaves over.
After12 == <<v13, v14>>
After10 == <<v11, v12, After12>>

Unused == "unused"
Unused12 == v13 = Unused /\ v14 = Unused
Unused10 == v11 = Unused /\ v12 = Unused /\ Unused12
Unused0  == /\ v1 = Unused /\ v2 = Unused /\ v3 = Unused /\ v4 = Unused /\ v5 = Unused
            /\ v6 = Unused /\ v7 = Unused /\ v8 = Unused /\ v9 = Unused /\ v10 = Unused
            /\ Unused10

LiveInit ==
    /\ Init
    /\ \/ which = "webview" /\ Unused0
       \/ which = "status" /\ Status!Init /\ Unused12
       \/ which = "pulls" /\ Pulls!Init
       \/ which = "sections" /\ Sections!Init /\ Unused10

\* Steps of one service; the rest of the state stands still.
Webview(A)   == which = "webview" /\ A /\ UNCHANGED <<which, slots>>
OfStatus(A)  == which = "status" /\ A /\ UNCHANGED <<which, vars, After12>>
OfPulls(A)   == which = "pulls" /\ A /\ UNCHANGED <<which, vars>>
OfSection(A) == which = "sections" /\ A /\ UNCHANGED <<which, vars, After10>>

LiveNext ==
    \/ Webview(Next)
    \/ OfStatus(Status!Next)
    \/ OfPulls(Pulls!Next)
    \/ OfSection(Sections!Next)

\* The fairness of the four FairSpecs.  Only one of them runs, so that one
\* conjunct can hold one assumption of each.
LiveFairness ==
    /\ WF_liveVars(\/ Webview(WebviewReady)
                   \/ OfStatus(Status!PushSubscriptions)
                   \/ OfPulls(Pulls!Receive \/ Pulls!Tick)
                   \/ OfSection(Sections!SetActive))
    /\ WF_liveVars(\/ Webview(FocusGained)
                   \/ OfStatus(Status!SetSubscriptions)
                   \/ OfPulls(Pulls!Ask)
                   \/ OfSection(Sections!Ask("s") \/ Sections!Apply("s")))
    /\ WF_liveVars(\/ Webview(CooldownOver)
                   \/ OfStatus(Status!DrainPulse)
                   \/ OfPulls(Pulls!Land)
                   \/ OfSection(Sections!Wake("s")))
    /\ WF_liveVars(\/ Webview(ProbeStep)
                   \/ OfStatus(Status!FsDebounce("p"))
                   \/ OfPulls(Pulls!StatusExpires))
    /\ WF_liveVars(Webview(ReloadStep("probe")) \/ OfStatus(Status!Receive("p")))
    /\ WF_liveVars(Webview(ReloadStep("hook")) \/ OfStatus(Status!Computes("p")))

LiveSpec == LiveInit /\ [][LiveNext]_liveVars /\ LiveFairness

-----------------------------------------------------------------------------
(* The properties, each stated and commented in its service's module;      *)
(* GateOpens and DeadPageReloads are WebviewHealth's own.                  *)

In(service, P) == which = service /\ P

\* What a mounted worktree row shows becomes what is on disk.
Converges == <>[]In("status", Status!Informed("p")) => <>[]In("status", Status!Shows("p"))

\* The chip of a path shows the pull request that GitHub has, and the sections
\* of the open project show what GitHub holds.
GitHubConverges ==
    /\ <>[]In("pulls", Pulls!Polling) => <>[]In("pulls", Pulls!ChipShows)
    /\ \A p \in {"p", "q"} :
          <>[]In("sections", Sections!Open(p)) => <>[]In("sections", Sections!Shows(p))

\* A merge that its task saw coming is announced, and once.
MergesTold == which = "pulls" => Pulls!MergeAnnounced /\ Pulls!MergedOnce
=============================================================================
