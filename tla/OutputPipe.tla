----------------------------- MODULE OutputPipe -----------------------------
(***************************************************************************)
(* One pane's bridge: tmux prints into the stdout pipe of an attached      *)
(* client, a reader thread parses the control protocol and feeds a bounded *)
(* channel, a coalescer thread batches and hands frames to the sink, and a *)
(* waiter thread reports the client's exit.  Commands go the other way on  *)
(* the client's stdin, and their reply blocks come back among the output.  *)
(* The legacy PTY transport shares the threads; it has no replies and its  *)
(* first paint is the client's own redraw.                                 *)
(*                                                                         *)
(* A pane's output is a run of numbered items.  A capture stands for the   *)
(* items printed before it; a viewport that cuts them short is left out.   *)
(*                                                                         *)
(* Named assumption: tmux carries out the two sync commands.  After an      *)
(* %error reply to the first the parser forwards every pane's output, after *)
(* one to the second it paints no capture.                                 *)
(***************************************************************************)
EXTENDS Integers, Sequences

CONSTANTS
    Transports, \* the transports explored: subset of {"control", "pty"}
    Calls,      \* run_command invocations, each made at most once
    Cap,        \* slots of the reader's channel (512 in the code)
    BatchMax,   \* items that make the reader ship (BATCH_BYTES)
    FlushAt,    \* items that make the coalescer flush (FLUSH_BYTES)
    MaxWork,    \* bound: items printed and commands written, together
    Splits      \* when a foreign tool may split the window: "early", before both
                \* sync commands are answered, or "late"

ASSUME CapsAssumption == {Cap, BatchMax, FlushAt} \subseteq Nat \ {0}
ASSUME WorkAssumption == MaxWork \in Nat \ {0}
ASSUME CallsAssumption == Calls \cap {"meta", "capture", "none", "empty", "gone"} = {}
ASSUME TransportsAssumption == Transports \subseteq {"control", "pty"} /\ Splits \subseteq {"early", "late"}

VARIABLES
    transport,
    (* tmux *)
    printed,   \* per pane: the number of items it has printed
    active,    \* the pane `-t <session>` names: the window's active one
    split,     \* whether the window holds a foreign pane, at attach time or since
    client,    \* "run", "fell" (by itself), "killed" (by a kill or the end of stdin)
    cmds,      \* command lines in the client's stdin, not yet read by tmux
               \* [who, n]; n numbers the lines and, like sent, no step reads it
    wire,      \* lines in the client's stdout, not yet read by the reader
    (* reader and parser *)
    reader,    \* "read", "send" (a batch in hand), "tail" (EOF), "gone"
    phase,     \* "greeting", "meta", "capture", "live"
    lead,      \* lead_pane, or "any"
    batch, chan,
    (* coalescer and sink *)
    coalescer, \* "run" or "gone"
    buf,
    screen,    \* what the webview's channel accepted
    sink,      \* "open", "closed" (webview gone), "cancelled"
    (* ControlInner *)
    stdin,     \* "open" or "closed"
    written, answered,
    waiters,   \* set of [seq, call]; the queue is in the order of seq
    degraded,
    call,      \* per call: "idle", "wait", "ok", "timeout", "gone", "refused"
    mail,      \* per call: what its reply channel holds
    (* handles, teardown, exit *)
    handles,   \* whether a handle to the bridge is left
    torn,      \* how far shutdown_silent is: "no", "marked", "shut", "failed", "done"
    suppress,  \* suppress_exit
    waiter,    \* exit waiter: "poll", "saw", "fired", "quiet"
    lost,      \* whether terminal:bridge-lost was emitted
    (* history variable: written by actions, read by properties only *)
    sent       \* the items of the own pane the client has put on the wire

tmuxVars == <<printed, active, split, client, cmds, wire, sent>>
readVars == <<reader, phase, lead, batch, chan>>
sinkVars == <<coalescer, buf, screen, sink>>
cmdVars  == <<stdin, written, answered, waiters, degraded, call, mail>>
endVars  == <<handles, torn, suppress, waiter, lost>>
vars == <<transport, tmuxVars, readVars, sinkVars, cmdVars, endVars>>

Panes == {"own", "alien"}
Item(p, n) == [pane |-> p, n |-> n]
Work == printed["own"] + printed["alien"] + written
\* Everything the pane has printed, as a capture of it holds it.
Printed(p) == [n \in 1..printed[p] |-> Item(p, n)]

Out(x)   == [t |-> "out", item |-> x]
Cmd(who, n) == [who |-> who, n |-> n]
\* A block answers a command: which one, and the items a capture holds.
Block(cmd, items) == [t |-> "block", to |-> cmd.who, n |-> cmd.n, items |-> items]
NoTag  == "none"  \* a command nobody waits for
NoMail == "empty"

-----------------------------------------------------------------------------
\* attach_via_control queues its two sync commands before the handle exists;
\* tmux greets a control client with an empty block.
ControlStart == [cmds |-> <<Cmd("meta", -1), Cmd("capture", 0)>>,
                 wire |-> <<Block(Cmd("hello", -2), <<>>)>>, phase |-> "greeting"]

\* attach_via_pty asks for nothing: the client draws the pane when it attaches.
PtyStart == [cmds |-> <<>>, wire |-> <<Out(Item("own", 1))>>, phase |-> "live"]

Start == IF transport = "control" THEN ControlStart ELSE PtyStart

Init ==
    /\ transport \in Transports
    /\ printed = [p \in Panes |-> IF p = "own" THEN 1 ELSE 0]
    /\ split = FALSE
    /\ active = "own"
    /\ client = "run"
    /\ cmds = Start.cmds
    /\ wire = Start.wire
    /\ reader = "read" /\ batch = <<>> /\ chan = <<>> /\ lead = "any"
    /\ phase = Start.phase
    /\ coalescer = "run" /\ buf = <<>> /\ screen = <<>> /\ sink = "open"
    /\ stdin = "open" /\ written = 0 /\ answered = 0 /\ waiters = {}
    /\ degraded = FALSE
    /\ call = [c \in Calls |-> "idle"] /\ mail = [c \in Calls |-> NoMail]
    /\ handles = TRUE /\ torn = "no" /\ suppress = FALSE
    /\ waiter = "poll" /\ lost = FALSE /\ sent = 1

-----------------------------------------------------------------------------
(* tmux *)

\* The pane writes; tmux forwards it to the attached control client.  The
\* rendered client of the PTY transport shows the active pane's screen only.
TmuxPrint(p) ==
    /\ Work < MaxWork
    /\ p = "alien" => split
    /\ printed' = [printed EXCEPT ![p] = @ + 1]
    /\ LET flows == client = "run" /\ reader /= "gone" IN
       /\ wire' = IF flows THEN Append(wire, Out(Item(p, printed[p] + 1))) ELSE wire
       /\ sent' = IF flows /\ p = "own" THEN printed[p] + 1 ELSE sent
    /\ transport = "pty" => p = "own"
    /\ UNCHANGED <<transport, active, split, client, cmds, readVars, sinkVars, cmdVars, endVars>>

\* A tool running in the pane splits the window; the new pane becomes active.
TmuxSplit ==
    /\ (IF cmds = <<>> \/ Head(cmds).who \notin {"meta", "capture"} THEN "late" ELSE "early") \in Splits
    /\ ~split /\ transport = "control"
    /\ split' = TRUE /\ active' = "alien"
    /\ UNCHANGED <<transport, printed, client, cmds, wire, sent, readVars, sinkVars, cmdVars, endVars>>

\* tmux answers one client's commands in order, one block each, and writes the
\* block after the output it has already sent.
TmuxAnswer ==
    /\ client = "run" /\ cmds /= <<>>
    /\ cmds' = Tail(cmds)
    /\ LET c == Head(cmds)
           block == CASE c.who = "meta" -> Block(Cmd(active, c.n), <<>>)
                      [] c.who = "capture" -> Block(c, Printed(active))
                      [] OTHER -> Block(c, <<>>)
       IN wire' = IF reader = "gone" THEN wire ELSE Append(wire, block)
    /\ UNCHANGED <<transport, printed, active, split, client, sent, readVars, sinkVars, cmdVars, endVars>>

\* The client ends: killed, told to by stdin's end, writing to a closed pipe,
\* or because the session or the server went away.
ClientEnds ==
    /\ client = "run"
    /\ client' = IF stdin = "closed" \/ torn = "done" THEN "killed" ELSE "fell"
    /\ cmds' = <<>>
    /\ UNCHANGED <<transport, printed, active, split, wire, sent, readVars, sinkVars, cmdVars, endVars>>

-----------------------------------------------------------------------------
(* The reader thread: parser, batch, channel *)

\* complete: one reply block finished.  Waiters with an older number are
\* dropped; the one with this number gets the reply.
Overdue(n) == {w \in waiters : w.seq < n}

\* Mutant: only a block somebody waits for is counted.
CompleteCountsWaited(to) ==
    /\ answered' = IF waiters = {} THEN answered ELSE answered + 1
    /\ waiters' = {w \in waiters : w.seq > answered'}
    /\ mail' = [c \in Calls |->
                 IF [seq |-> answered', call |-> c] \in waiters THEN to ELSE mail[c]]

Complete(to) ==
    /\ answered' = answered + 1
    /\ waiters' = {w \in waiters : w.seq > answered'}
    /\ mail' = [c \in Calls |->
                 IF [seq |-> answered', call |-> c] \in waiters THEN to
                 ELSE IF \E w \in Overdue(answered') : w.call = c THEN "gone"
                 ELSE mail[c]]

\* Mutant: output is forwarded before the capture too.
PaintsAnyPhase(line) == line.t = "out" /\ lead \in {"any", line.item.pane}

\* live_output: only after the sync, and only the lead pane's.
Paints(line) ==
    /\ line.t = "out" /\ phase = "live"
    /\ lead \in {"any", line.item.pane}

\* SyncPhase: the first three blocks, in this order.
NextPhase == [greeting |-> "meta", meta |-> "capture", capture |-> "live"]

\* assemble_replay: the first paint is what the capture holds.
Replay(items) == batch \o items

\* finish_block in the three sync phases.
SyncBlock(line) ==
    /\ phase' = NextPhase[phase]
    /\ lead'  = IF phase = "meta" THEN line.to ELSE lead
    /\ batch' = IF phase = "capture" THEN Replay(line.items) ELSE batch
    /\ UNCHANGED <<answered, waiters, mail>>

\* feed_line, then the decision to ship the batch: when it is worth a frame or
\* when the read buffer has run dry, which it may at any line.
ReaderLine ==
    /\ reader = "read" /\ wire /= <<>>
    /\ wire' = Tail(wire)
    /\ LET line == Head(wire) IN
       \/ /\ Paints(line)
          /\ batch' = Append(batch, line.item)
          /\ UNCHANGED <<phase, lead, answered, waiters, mail>>
       \/ /\ line.t = "out" /\ ~Paints(line)
          /\ UNCHANGED <<phase, lead, batch, answered, waiters, mail>>
       \/ /\ line.t = "block" /\ phase /= "live"
          /\ SyncBlock(line)
       \/ /\ line.t = "block" /\ phase = "live"
          /\ Complete(line.to)
          /\ UNCHANGED <<phase, lead, batch>>
    /\ reader' \in IF batch' = <<>> THEN {"read"}
                   ELSE IF Len(batch') >= BatchMax THEN {"send"} ELSE {"read", "send"}
    /\ UNCHANGED <<transport, printed, active, split, client, cmds, sent, chan, sinkVars,
                   stdin, written, degraded, call, endVars>>

\* A partial last line held the batch back; the pipe is dry now.
ReaderDry ==
    /\ reader = "read" /\ wire = <<>> /\ batch /= <<>> /\ client = "run"
    /\ reader' = "send"
    /\ UNCHANGED <<transport, tmuxVars, phase, lead, batch, chan, sinkVars, cmdVars, endVars>>

\* The reader's last act: nobody will be answered any more.
DropWaiters ==
    /\ waiters' = {}
    /\ mail' = [c \in Calls |->
                 IF \E w \in waiters : w.call = c THEN "gone" ELSE mail[c]]

\* read returns 0: the tail of the batch is still forwarded.
ReaderEOF ==
    /\ reader = "read" /\ wire = <<>> /\ client /= "run"
    /\ reader' = "tail"
    /\ UNCHANGED <<transport, tmuxVars, phase, lead, batch, chan, sinkVars, cmdVars, endVars>>

\* Mutant: the channel has no bound.
ReaderSendUnbounded ==
    /\ reader = "send" /\ coalescer = "run"
    /\ chan' = Append(chan, batch) /\ batch' = <<>>
    /\ reader' = "read"
    /\ UNCHANGED <<transport, tmuxVars, phase, lead, sinkVars, cmdVars, endVars>>

\* forward_chunk, blocking while the channel is full.
ReaderSend ==
    /\ reader = "send" /\ coalescer = "run" /\ Len(chan) < Cap
    /\ chan' = Append(chan, batch) /\ batch' = <<>>
    /\ reader' = "read"
    /\ UNCHANGED <<transport, tmuxVars, phase, lead, sinkVars, cmdVars, endVars>>

\* The coalescer is gone: the batch is lost and the thread ends.
ReaderSendFails ==
    /\ reader = "send" /\ coalescer = "gone"
    /\ batch' = <<>>
    /\ reader' = "tail"
    /\ UNCHANGED <<transport, tmuxVars, phase, lead, chan, sinkVars, cmdVars, endVars>>

\* Mutant: the batch in hand at EOF is dropped.
TailChunkDropped == chan

\* The forward after the loop: a batch the loop's break left in hand.
TailChunk == IF batch = <<>> \/ coalescer = "gone" THEN chan ELSE Append(chan, batch)

\* The stdout pipe closes with the thread.
ReaderEnds ==
    /\ reader = "tail"
    /\ batch = <<>> \/ coalescer = "gone" \/ Len(chan) < Cap
    /\ chan' = TailChunk /\ batch' = <<>>
    /\ reader' = "gone"
    /\ wire' = <<>>
    /\ DropWaiters
    /\ UNCHANGED <<transport, printed, active, split, client, cmds, sent, phase, lead, sinkVars,
                   stdin, written, answered, degraded, call, endVars>>

-----------------------------------------------------------------------------
(* The coalescer thread *)

\* The sink: cancelled, it takes nothing; with the webview's channel closed it
\* says so; either way the thread ends and what it held is lost.
Flush(frame) ==
    /\ buf' = <<>>
    /\ screen' = IF sink = "open" THEN screen \o frame ELSE screen
    /\ lost' = (lost \/ sink = "closed")
    /\ coalescer' = IF sink = "open" THEN "run" ELSE "gone"

\* feed_at and flush_if_due_at: at FLUSH_BYTES at once, otherwise when due.
CoalescerFeed ==
    /\ coalescer = "run" /\ chan /= <<>>
    /\ chan' = Tail(chan)
    /\ LET held == buf \o Head(chan) IN
       \/ Flush(held)
       \/ /\ Len(held) < FlushAt
          /\ buf' = held
          /\ UNCHANGED <<coalescer, screen, lost>>
    /\ UNCHANGED <<transport, tmuxVars, reader, phase, lead, batch, sink, cmdVars,
                   handles, torn, suppress, waiter>>

\* recv_timeout runs into the deadline: quiet gap or maximum hold.
CoalescerDue ==
    /\ coalescer = "run" /\ buf /= <<>> /\ chan = <<>>
    /\ Flush(buf)
    /\ UNCHANGED <<transport, tmuxVars, readVars, sink, cmdVars,
                   handles, torn, suppress, waiter>>

\* The channel is closed and empty: force_flush, and the thread ends.
CoalescerEnds ==
    /\ coalescer = "run" /\ chan = <<>> /\ reader = "gone"
    /\ screen' = IF sink = "open" THEN screen \o buf ELSE screen
    /\ lost' = (lost \/ (sink = "closed" /\ buf /= <<>>))
    /\ buf' = <<>> /\ coalescer' = "gone"
    /\ UNCHANGED <<transport, tmuxVars, readVars, sink, cmdVars,
                   handles, torn, suppress, waiter>>

\* The webview reloads, unmounts the pane or goes away.
ChannelCloses ==
    /\ sink = "open"
    /\ sink' = "closed"
    /\ UNCHANGED <<transport, tmuxVars, readVars, coalescer, buf, screen, cmdVars, endVars>>

-----------------------------------------------------------------------------
(* Commands on the client's stdin *)

\* Pending::issued: each line, input included, takes a number.
Issued == written + 1

\* issue / write_input: count the command, register the waiter, write the line.
\* A client that has ended refuses the write; the count stays one ahead.
Write(line, who) ==
    /\ written' = Issued
    /\ waiters' = waiters \cup who
    /\ cmds' = IF client = "run" THEN Append(cmds, Cmd(line, Issued)) ELSE cmds
    /\ degraded' = (degraded \/ client /= "run")

\* send-keys and resize-window: nobody waits for their replies.
Input ==
    /\ transport = "control" /\ handles /\ stdin = "open" /\ Work < MaxWork
    /\ Write(NoTag, {})
    /\ UNCHANGED <<transport, printed, active, split, client, wire, sent, readVars, sinkVars,
                   stdin, answered, call, mail, endVars>>

RunCommand(c) ==
    /\ transport = "control" /\ handles /\ call[c] = "idle" /\ Work < MaxWork
    /\ IF degraded \/ stdin = "closed"
       THEN /\ call' = [call EXCEPT ![c] = "refused"]
            /\ UNCHANGED <<written, waiters, cmds, degraded>>
       ELSE /\ call' = [call EXCEPT ![c] = IF client = "run" THEN "wait" ELSE "refused"]
            /\ Write(c, {[seq |-> Issued, call |-> c]})
    /\ UNCHANGED <<transport, printed, active, split, client, wire, sent, readVars, sinkVars,
                   stdin, answered, mail, endVars>>

\* The reply channel holds something, or its sender was dropped.
CommandReturns(c) ==
    /\ call[c] = "wait" /\ mail[c] /= NoMail
    /\ call' = [call EXCEPT ![c] = IF mail[c] = "gone" THEN "gone" ELSE "ok"]
    /\ UNCHANGED <<transport, tmuxVars, readVars, sinkVars, stdin, written, answered,
                   waiters, degraded, mail, endVars>>

\* REPLY_TIMEOUT: the waiter stays queued; the path is latched off.
CommandTimeout(c) ==
    /\ call[c] = "wait" /\ mail[c] = NoMail
    /\ call' = [call EXCEPT ![c] = "timeout"]
    /\ degraded' = TRUE
    /\ UNCHANGED <<transport, tmuxVars, readVars, sinkVars, stdin, written, answered,
                   waiters, mail, endVars>>

-----------------------------------------------------------------------------
(* Teardown and exit *)

\* Mutant: the exit sink is not silenced.
TeardownMarkLoud ==
    /\ handles /\ torn = "no"
    /\ sink' = "cancelled" /\ torn' = "marked"
    /\ UNCHANGED <<transport, tmuxVars, readVars, coalescer, buf, screen, cmdVars,
                   handles, suppress, waiter, lost>>

\* detach_bridge, shutdown_removed_entry: output is cancelled, then
\* shutdown_silent begins.
TeardownMark ==
    /\ handles /\ torn = "no"
    /\ sink' = "cancelled" /\ suppress' = TRUE /\ torn' = "marked"
    /\ UNCHANGED <<transport, tmuxVars, readVars, coalescer, buf, screen, cmdVars,
                   handles, waiter, lost>>

\* Mutant: stdin stays open until the kill.
TeardownShutNot ==
    /\ torn = "marked"
    /\ torn' = "shut"
    /\ UNCHANGED <<transport, tmuxVars, readVars, sinkVars, cmdVars, handles, suppress,
                   waiter, lost>>

\* Control: stdin is closed, under its lock.  PTY: VEOF is zeroed, so that the
\* writer's drop types no EOT; left out.
TeardownShut ==
    /\ torn = "marked"
    /\ torn' = "shut"
    /\ stdin' = IF transport = "control" THEN "closed" ELSE stdin
    /\ UNCHANGED <<transport, tmuxVars, readVars, sinkVars, written, answered, waiters,
                   degraded, call, mail, handles, suppress, waiter, lost>>

\* fail_pending: whoever waits fails now.
TeardownFail ==
    /\ torn = "shut"
    /\ torn' = "failed"
    /\ DropWaiters
    /\ UNCHANGED <<transport, tmuxVars, readVars, sinkVars, stdin, written, answered,
                   degraded, call, handles, suppress, waiter, lost>>

TeardownKill ==
    /\ torn = "failed"
    /\ torn' = "done"
    /\ UNCHANGED <<transport, tmuxVars, readVars, sinkVars, cmdVars, handles, suppress,
                   waiter, lost>>

\* The last handle goes.  The PTY bridge's inner value is dropped with it: exit
\* silenced and client killed.  The control bridge's waiter thread keeps the
\* inner value alive until the client has ended, so its Drop finds nothing to do.
DropHandles ==
    /\ handles /\ torn \in {"no", "done"}
    /\ \A c \in Calls : call[c] /= "wait"
    /\ handles' = FALSE
    /\ IF transport = "pty"
       THEN suppress' = TRUE /\ torn' = "done"
       ELSE UNCHANGED <<suppress, torn>>
    /\ UNCHANGED <<transport, tmuxVars, readVars, sinkVars, cmdVars, waiter, lost>>

\* try_wait / wait reports the exit.
WaiterSees ==
    /\ waiter = "poll" /\ client /= "run"
    /\ waiter' = "saw"
    /\ UNCHANGED <<transport, tmuxVars, readVars, sinkVars, cmdVars, handles, torn,
                   suppress, lost>>

\* suppress_exit is read after the exit was seen.
WaiterReports ==
    /\ waiter = "saw"
    /\ waiter' = IF suppress THEN "quiet" ELSE "fired"
    /\ lost' = (lost \/ ~suppress)
    /\ UNCHANGED <<transport, tmuxVars, readVars, sinkVars, cmdVars, handles, torn,
                   suppress>>

-----------------------------------------------------------------------------
Reader == ReaderLine \/ ReaderDry \/ ReaderEOF \/ ReaderSend \/ ReaderSendFails \/ ReaderEnds
Coalescer == CoalescerFeed \/ CoalescerDue \/ CoalescerEnds
Waiter == WaiterSees \/ WaiterReports
Teardown == TeardownMark \/ TeardownShut \/ TeardownFail \/ TeardownKill
Tmux == TmuxSplit \/ TmuxAnswer \/ ClientEnds \/ \E p \in Panes : TmuxPrint(p)
Command == Input \/ \E c \in Calls : RunCommand(c) \/ CommandReturns(c) \/ CommandTimeout(c)

Next == Tmux \/ Reader \/ Coalescer \/ ChannelCloses \/ Command \/ Teardown
        \/ DropHandles \/ Waiter

Spec == Init /\ [][Next]_vars

\* The bridge's threads are scheduled, and a client that was killed, or whose
\* stdin ended, ends.
ClientObeys == (stdin = "closed" \/ torn = "done") /\ ClientEnds
FairSpec == Spec /\ WF_vars(Reader) /\ WF_vars(Coalescer) /\ WF_vars(Waiter)
                 /\ WF_vars(ClientObeys)

-----------------------------------------------------------------------------
ItemSeq == Seq([pane : Panes, n : 1..MaxWork])
LineType == [t : {"out"}, item : [pane : Panes, n : 1..MaxWork]]
    \cup [t : {"block"},
          to : {"hello", "capture", NoTag} \cup Panes \cup Calls, n : Int, items : ItemSeq]

TypeOK ==
    /\ transport \in Transports
    /\ printed \in [Panes -> 0..MaxWork] /\ active \in Panes /\ split \in BOOLEAN
    /\ client \in {"run", "fell", "killed"}
    /\ cmds \in Seq([who : {"meta", "capture", NoTag} \cup Calls, n : Int])
    /\ wire \in Seq(LineType)
    /\ reader \in {"read", "send", "tail", "gone"}
    /\ phase \in {"greeting", "meta", "capture", "live"}
    /\ lead \in Panes \cup {"any"}
    /\ batch \in ItemSeq /\ chan \in Seq(ItemSeq) /\ Len(chan) <= Cap
    /\ coalescer \in {"run", "gone"} /\ buf \in ItemSeq /\ screen \in ItemSeq
    /\ sink \in {"open", "closed", "cancelled"}
    /\ stdin \in {"open", "closed"} /\ written \in Nat /\ answered \in 0..written
    /\ waiters \subseteq [seq : 1..written, call : Calls]
    /\ degraded \in BOOLEAN
    /\ call \in [Calls -> {"idle", "wait", "ok", "timeout", "gone", "refused"}]
    /\ mail \in [Calls -> {NoMail, "gone", NoTag} \cup Calls]
    /\ {handles, suppress, lost} \subseteq BOOLEAN
    /\ torn \in {"no", "marked", "shut", "failed", "done"}
    /\ waiter \in {"poll", "saw", "fired", "quiet"} /\ sent \in 1..MaxWork

\* The webview's terminal shows what the pane printed, in order, from its first
\* item: the capture and the live output meet without a gap or an overlap,
\* through the parser's phases, the batch, the channel and the coalescer.
Stream == INSTANCE PaneStream WITH printed <- printed["own"], shown <- screen
ShowsThePane == Stream!Spec

\* A command that was answered got the reply to itself, whoever timed out, gave
\* up or typed in between: the counters of Pending never drift.
RepliesMatch == \A c \in Calls : call[c] = "ok" => mail[c] = c

\* Once a teardown has failed the pending commands nobody waits for an answer
\* that cannot come, not even a command issued while it ran.
NoneLeftWaiting ==
    torn \in {"failed", "done"} =>
        \A c \in Calls : call[c] = "wait" => mail[c] /= NoMail

\* The exit sink reports only clients that ended by themselves, never one that a
\* teardown ended, at whatever moment the two cross.
ReportsOnlyFalls == waiter = "fired" => client = "fell"

\* What the client put on the wire is on the terminal when the bridge's threads
\* have ended, also when they ended in the middle of a burst, unless the sink
\* went first.
TailArrives ==
    (coalescer = "gone" /\ sink = "open" /\ phase = "live") => Len(screen) = sent

\* control.rs: "dropping the last clone kills the child and tears down the
\* worker threads".
DropKillsClient == ~handles ~> client /= "run"

\* control.rs: a foreign pane of the window "must not bleed its panes' bytes
\* into this xterm".
OwnPaneOnly == \A i \in DOMAIN screen : screen[i].pane = "own"
=============================================================================
