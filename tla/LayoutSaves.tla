---------------------------- MODULE LayoutSaves ----------------------------
(***************************************************************************)
(* The saved grid, state/active-layout.toml: the page that reads it once   *)
(* at launch behind a closed save gate, its debounced saves, the quit      *)
(* dance in which the backend waits (bounded) for the page to flush, and   *)
(* the ways both ends die.  active_layout_save runs on a thread pool, so   *)
(* saves in flight land in any order.                                      *)
(***************************************************************************)
EXTENDS Integers

CONSTANTS MaxRevs,       \* changes the user makes to the grid
          MaxLoads,      \* pages loaded
          MaxFaults,     \* saves that fail, reads that fail or time out
          MaxStrays      \* saves requested without a change

VARIABLES disk,     \* [ok, rev, full]: does it parse, which grid, has it panes
          aside,    \* the texts kept as active-layout.toml.bad-<ms>
          page,     \* [up, gate, knows, parked, timer, rev, full]
          get,      \* active_layout_get: "none", "asked", "late"
          saves,    \* active_layout_save calls in flight
          flush,    \* the page's half of the quit: "no", "sent", "done"
          quit,     \* "no", "asked", "acked", "late", "gone"
          landed,   \* [rev, clear]: the grid the flush sent, with no save ahead of it
          closed,   \* the grids the user made by closing the last pane
          used      \* how often the bounded things happened

vars == <<disk, aside, page, get, saves, flush, quit, landed, closed, used>>

Blank == [ok |-> TRUE, rev |-> 0, full |-> FALSE]
Loaded == [up |-> TRUE, gate |-> FALSE, knows |-> FALSE, parked |-> FALSE,
           timer |-> FALSE, rev |-> -1, full |-> FALSE]    \* -1: nothing read yet
Gone == [Loaded EXCEPT !.up = FALSE]
NoFlush == [rev |-> 0, clear |-> TRUE]

Spend(what, bound) == used[what] < bound /\ used' = [used EXCEPT ![what] = @ + 1]

\* The first launch after an earlier run: any file it can have left, or none.
Init == /\ disk \in {Blank} \cup [ok : BOOLEAN, rev : {1}, full : {TRUE}]
        /\ aside = {} /\ page = Gone /\ get = "none" /\ saves = {}
        /\ flush = "no" /\ quit = "gone" /\ landed = NoFlush /\ closed = {}
        /\ used = [revs |-> 1, loads |-> 0, faults |-> 0, strays |-> 0]

-----------------------------------------------------------------------------
(* The page reads the layout and opens the gate.                           *)

\* A launch, or the reload of a page that died; its saves have long landed.
Load ==
    /\ ~page.up /\ saves = {} /\ quit \in {"no", "gone"}
    /\ Spend("loads", MaxLoads)
    /\ page' = Loaded /\ get' = "asked" /\ flush' = "no" /\ quit' = "no" /\ landed' = NoFlush
    /\ UNCHANGED <<disk, aside, saves, closed>>

\* read_active_layout_checked: text that does not parse is set aside.
AfterRead == IF disk.ok THEN disk ELSE Blank

\* openActiveLayoutSaveGate: a save asked for meanwhile is scheduled now.
Opened(p) == [p EXCEPT !.gate = TRUE, !.parked = FALSE, !.timer = p.timer \/ p.parked]

Hydrate ==
    /\ page.up /\ get # "none"
    /\ disk' = AfterRead
    /\ aside' = IF disk.ok THEN aside ELSE aside \cup {disk}
    /\ get' = "none"
    /\ page' = IF get = "late" THEN page
               ELSE [Opened(page) EXCEPT !.knows = TRUE, !.rev = AfterRead.rev,
                                         !.full = AfterRead.full]
    /\ UNCHANGED <<saves, flush, quit, landed, closed, used>>

\* The four second bound on the read, or an error: the gate opens unread.
GiveUpReading ==
    /\ page.up /\ get = "asked"
    /\ Spend("faults", MaxFaults)
    /\ \E next \in {"late", "none"} : get' = next
    /\ page' = Opened(page)
    /\ UNCHANGED <<disk, aside, saves, flush, quit, landed, closed>>

-----------------------------------------------------------------------------
(* Changes and saves.                                                      *)

\* scheduleActiveSave.
Scheduled(p) == IF p.gate THEN [p EXCEPT !.timer = TRUE] ELSE [p EXCEPT !.parked = TRUE]

\* The user opens, moves or closes panes; closing the last empties the grid.
Change ==
    /\ page.up /\ page.gate
    /\ Spend("revs", MaxRevs)
    /\ LET rev == used.revs + 1
           next(full) == [page EXCEPT !.rev = rev, !.full = full]
       IN  \/ page' = Scheduled(next(TRUE)) /\ UNCHANGED closed
           \/ page.full /\ page' = Scheduled(next(FALSE)) /\ closed' = closed \cup {rev}
    /\ UNCHANGED <<disk, aside, get, saves, flush, quit, landed>>

\* The project list selects a tab: a save without a change, even at boot.
Stray ==
    /\ page.up /\ Spend("strays", MaxStrays)
    /\ page' = Scheduled(page)
    /\ UNCHANGED <<disk, aside, get, saves, flush, quit, landed, closed>>

\* A variant without the guard on empty payloads.
SafeAlways(p) == TRUE

\* isSavePayloadSafe.
Safe(p) == p.full \/ p.knows

Payload(p) == [rev |-> p.rev, full |-> p.full]
Sent(p) == [p EXCEPT !.timer = FALSE, !.knows = @ \/ p.full]

\* The debounce runs out, or the page is hidden with a save pending.
Save ==
    /\ page.up /\ page.timer
    /\ IF Safe(page)
       THEN saves' = saves \cup {Payload(page)} /\ page' = Sent(page)
       ELSE page' = [page EXCEPT !.timer = FALSE] /\ UNCHANGED saves
    /\ UNCHANGED <<disk, aside, get, flush, quit, landed, closed, used>>

Land ==
    /\ quit # "gone"
    /\ \E s \in saves :
        /\ saves' = saves \ {s}
        /\ disk' = [ok |-> TRUE, rev |-> s.rev, full |-> s.full]
    /\ UNCHANGED <<aside, page, get, flush, quit, landed, closed, used>>

\* The write fails: a timer's save is dropped, the flush swallows the error.
Fail ==
    /\ Spend("faults", MaxFaults)
    /\ \E s \in saves :
        /\ saves' = saves \ {s}
        /\ landed' = IF s.rev = landed.rev THEN NoFlush ELSE landed
    /\ UNCHANGED <<disk, aside, page, get, flush, quit, closed>>

-----------------------------------------------------------------------------
(* The quit dance.                                                         *)

\* CloseRequested or ExitRequested, the first time: prevent, ask, wait.
Close ==
    /\ quit = "no"
    /\ quit' = "asked"
    /\ UNCHANGED <<disk, aside, page, get, saves, flush, landed, closed, used>>

\* flushActiveLayoutNow on app-will-quit.
Flush ==
    /\ page.up /\ quit \in {"asked", "late"} /\ flush = "no"
    /\ IF page.gate /\ Safe(page)
       THEN /\ saves' = saves \cup {Payload(page)}
            /\ page' = Sent(page)
            /\ flush' = "sent"
            /\ landed' = [rev |-> page.rev, clear |-> saves \subseteq {Payload(page)}]
       ELSE /\ page' = [page EXCEPT !.timer = FALSE]
            /\ flush' = "done"
            /\ UNCHANGED <<saves, landed>>
    /\ UNCHANGED <<disk, aside, get, quit, closed, used>>

\* A variant that does not await the write.
FlushedAtOnce == TRUE

\* The awaited write is back.
Flushed == ~\E s \in saves : s.rev = landed.rev

Answered ==
    /\ page.up /\ flush = "sent" /\ Flushed
    /\ flush' = "done"
    /\ UNCHANGED <<disk, aside, page, get, saves, quit, landed, closed, used>>

\* app_quit_flush_done in time, and the bound on the wait for it.
Ack ==
    /\ quit = "asked" /\ page.up /\ flush = "done"
    /\ quit' = "acked"
    /\ UNCHANGED <<disk, aside, page, get, saves, flush, landed, closed, used>>

QuitTimeout ==
    /\ quit = "asked"
    /\ quit' = "late"
    /\ landed' = NoFlush
    /\ UNCHANGED <<disk, aside, page, get, saves, flush, closed, used>>

\* app.exit after the grace; whatever has not landed by then is lost.
Exit ==
    /\ quit \in {"acked", "late"}
    /\ quit' = "gone" /\ page' = Gone /\ saves' = {} /\ get' = "none"
    /\ landed' = IF quit = "acked" THEN landed ELSE NoFlush
    /\ UNCHANGED <<disk, aside, flush, closed, used>>

\* A crash, or a second CloseRequested, which is let through.
Abort ==
    /\ quit # "gone"
    /\ quit' = "gone" /\ page' = Gone /\ saves' = {} /\ get' = "none" /\ landed' = NoFlush
    /\ UNCHANGED <<disk, aside, flush, closed, used>>

\* The web content process dies; the backend lives on.
PageDies ==
    /\ page.up /\ quit # "gone"
    /\ page' = Gone /\ get' = "none"
    /\ UNCHANGED <<disk, aside, saves, flush, quit, landed, closed, used>>

Next == \/ Load \/ Hydrate \/ GiveUpReading \/ Change \/ Stray \/ Save \/ Land \/ Fail
        \/ Close \/ Flush \/ Answered \/ Ack \/ QuitTimeout \/ Exit \/ Abort \/ PageDies

Spec == Init /\ [][Next]_vars

-----------------------------------------------------------------------------
(* Properties.                                                             *)

TypeOK ==
    /\ disk \in [ok : BOOLEAN, rev : -1..MaxRevs, full : BOOLEAN]
    /\ page.parked => page.up /\ ~page.gate
    /\ page.timer => page.gate
    /\ quit = "gone" => ~page.up /\ saves = {}

\* A saved grid with panes is replaced by an empty one only when the user
\* closed the last pane, never by a page that has not read the file.  (An old
\* save that lands late may bring back an older grid.)
EmptiesOnPurpose ==
    disk.full /\ disk.ok /\ ~disk'.full => disk'.rev \in closed \/ disk'.rev \in 0..disk.rev
EmptyWasMeant == [][EmptiesOnPurpose]_vars

\* When the backend exits on the page's ack, the grid the user left is on
\* disk, unless an older save was still in flight when the flush was sent.
LayoutLands == quit = "gone" /\ landed.clear => disk.rev >= landed.rev
=============================================================================
