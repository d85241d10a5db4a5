----------------------------- MODULE PaneResize -----------------------------
(***************************************************************************)
(* terminal_resize: two sizes of one pane, the tmux window's and the       *)
(* attached client's viewport, are changed by separate calls.  tmux paints *)
(* a hatch wherever the viewport is larger than the window, so the order   *)
(* of the calls depends on the direction of the change.  A reattach brings *)
(* a new client and takes no part in the resize lock.                      *)
(***************************************************************************)
EXTENDS Integers, Sequences

CONSTANTS
    Sides,   \* the lengths explored, after clamp_pty_dims: positive
    Drags,   \* terminal_resize calls in flight or made, each once; none is "free"
    Reopens  \* bound: reattaches in a run

VARIABLES
    transport, \* "control" or "pty"
    window,    \* the tmux window's size
    viewport,  \* the attached client's size
    known,     \* last_cols, last_rows of the registry entry
    bridge,    \* which client the registry entry holds
    client,    \* which client is attached
    lock,      \* the session's resize lock: the drag that holds it, or "free"
    drag,      \* per drag: how far it is
    reopen,    \* the reattach: "no", "detached", "synced", "opened"
    (* history variables: written by actions, read by properties only *)
    crossed,   \* a drag and a reattach were in flight together
    torn       \* a drag in both directions failed at its last call

vars == <<transport, window, viewport, known, bridge, client, lock, drag, reopen, crossed, torn>>

Size == [c : Sides, r : Sides]
Within(a, b) == a.c <= b.c /\ a.r <= b.r
Larger(m, n) == IF m >= n THEN m ELSE n
Cover(a, b)  == [c |-> Larger(a.c, b.c), r |-> Larger(a.r, b.r)]

Win(s)  == [call |-> "window", size |-> s]
View(s) == [call |-> "viewport", size |-> s]
Call    == [call : {"window", "viewport"}, size : Size]
Running == [pc : {"running"}, bridge : 0..Reopens, size : Size, todo : Seq(Call)]
Waiting == [pc |-> "waiting"]
Over    == [pc |-> "over"]
Dragging(d) == drag[d].pc = "running"

\* Mutant: the direction is not looked at.
PlanWindowFirst(prev, s) ==
    IF transport = "control" THEN <<Win(s)>> ELSE <<Win(s), View(s)>>

\* The calls of one resize, in order.  The control client has no viewport.
Plan(prev, s) ==
    IF transport = "control" THEN <<Win(s)>>
    ELSE IF Within(prev, s) THEN <<Win(s), View(s)>>
    ELSE IF Within(s, prev) THEN <<View(s), Win(s)>>
    ELSE <<Win(Cover(s, prev)), View(s), Win(s)>>

Init ==
    /\ transport \in {"control", "pty"}
    /\ known \in Size /\ window = known /\ viewport = known
    /\ bridge = 0 /\ client = 0 /\ lock = "free"
    /\ drag = [d \in Drags |-> Waiting]
    /\ reopen = "no" /\ crossed = FALSE /\ torn = FALSE

-----------------------------------------------------------------------------
\* The lock is taken, then bridge and size are read together.
DragStart(d) ==
    /\ lock = "free" /\ drag[d] = Waiting
    /\ lock' = d
    /\ \E s \in Size :
         drag' = [drag EXCEPT ![d] = [pc |-> "running", bridge |-> bridge, size |-> s,
                                      todo |-> Plan(known, s)]]
    /\ crossed' = (crossed \/ reopen /= "no")
    /\ UNCHANGED <<transport, window, viewport, known, bridge, client, reopen, torn>>

\* One tmux or PTY call.  A client that has been replaced has no viewport to set.
DragCall(d) ==
    /\ Dragging(d) /\ drag[d].todo /= <<>>
    /\ LET op == Head(drag[d].todo) IN
       /\ window' = IF op.call = "window" THEN op.size ELSE window
       /\ viewport' = IF op.call = "viewport" /\ drag[d].bridge = client
                      THEN op.size ELSE viewport
    /\ drag' = [drag EXCEPT ![d].todo = Tail(@)]
    /\ UNCHANGED <<transport, known, bridge, client, lock, reopen, crossed, torn>>

\* A call fails and the command returns early: the sizes it has set stay, the
\* size it would have recorded does not.
DragFails(d) ==
    /\ Dragging(d) /\ drag[d].todo /= <<>>
    /\ drag' = [drag EXCEPT ![d] = Over]
    /\ lock' = "free"
    /\ torn' = (torn \/ (/\ Len(drag[d].todo) = 1
                       /\ ~Within(drag[d].size, known) /\ ~Within(known, drag[d].size)))
    /\ UNCHANGED <<transport, window, viewport, known, bridge, client, reopen, crossed>>

DragRecords(d) ==
    /\ Dragging(d) /\ drag[d].todo = <<>>
    /\ known' = drag[d].size
    /\ drag' = [drag EXCEPT ![d] = Over]
    /\ lock' = "free"
    /\ UNCHANGED <<transport, window, viewport, bridge, client, reopen, crossed, torn>>

-----------------------------------------------------------------------------
\* detach_bridge: the old client goes.
ReopenDetach ==
    /\ reopen = "no" /\ client < Reopens
    /\ reopen' = "detached"
    /\ crossed' = (crossed \/ lock /= "free")
    /\ UNCHANGED <<transport, window, viewport, known, bridge, client, lock, drag, torn>>

\* open_bridge_and_monitor: the window first, then the client opens at the size
\* the webview measured.
ReopenSync ==
    /\ reopen = "detached"
    /\ window' \in Size
    /\ reopen' = "synced"
    /\ UNCHANGED <<transport, viewport, known, bridge, client, lock, drag, crossed, torn>>

ReopenAttach ==
    /\ reopen = "synced"
    /\ client' = client + 1
    /\ viewport' = window
    /\ reopen' = "opened"
    /\ UNCHANGED <<transport, window, known, bridge, lock, drag, crossed, torn>>

\* replace_bridge.
ReopenReplace ==
    /\ reopen = "opened"
    /\ bridge' = client /\ known' = viewport
    /\ reopen' = "no"
    /\ UNCHANGED <<transport, window, viewport, client, lock, drag, crossed, torn>>

Next ==
    \/ \E d \in Drags : DragStart(d) \/ DragCall(d) \/ DragFails(d) \/ DragRecords(d)
    \/ ReopenDetach \/ ReopenSync \/ ReopenAttach \/ ReopenReplace

Spec == Init /\ [][Next]_vars

-----------------------------------------------------------------------------
TypeOK ==
    /\ transport \in {"control", "pty"}
    /\ window \in Size /\ viewport \in Size /\ known \in Size
    /\ bridge \in 0..Reopens /\ client \in 0..Reopens
    /\ lock \in Drags \cup {"free"}
    /\ drag \in [Drags -> {Waiting, Over} \cup Running]
    /\ reopen \in {"no", "detached", "synced", "opened"}
    /\ crossed \in BOOLEAN /\ torn \in BOOLEAN

\* resize.rs: "keep window >= viewport at every intermediate state", also after
\* calls that failed, as long as no reattach crossed a resize and no resize that
\* grows one side and shrinks the other failed at its last call.
HatchFree ==
    (transport = "pty" /\ ~crossed /\ ~torn /\ reopen = "no") => Within(viewport, window)
=============================================================================
