--------------------------- MODULE OpenCodeStream ---------------------------
(***************************************************************************)
(* The event stream of one OpenCode pane.  OpenCode serves GET /event; a   *)
(* channel task per registration connects, reads frames, translates them   *)
(* and pushes them into a bounded sink; a forwarder lowers each event into *)
(* the drain queue; the drain loop moves the pane's state machine.  There  *)
(* is no replay: what OpenCode says while nobody is connected is lost, and *)
(* so is an event the sink has no room for within 250 ms.                  *)
(*                                                                         *)
(* The registrations of the boot rehydrate and of the pane's reattach may  *)
(* overlap, so two channels can be up for a moment.  The length of the     *)
(* waits between attempts is left out.  Replies travel in PermissionFlow.  *)
(***************************************************************************)
EXTENDS AgentMachine, Sequences, FiniteSets

CONSTANTS Calls,        \* registrations: "boot" always, "reattach" only if none is there
          None,
          InboxCap,     \* frames a connection holds unread
          SinkCap,      \* places in the sink (32 in the code) and in the drain queue
          MaxFaults     \* lost connections, dead servers, dropped events

VARIABLES server,     \* [up, turn, unsaid]: OpenCode, and the frame it is about to send
          port,       \* the port the channels use: OpenCode's "own", or "default"
          conn,       \* of each call's channel
          inbox, sending, sink, held,   \* stages an event passes in a channel
          knows,      \* is the current user message in the tracker
          call,       \* pc of the registration
          runtime,    \* the registry's entry: a call's channel or None
          cancelled,  \* channels whose token is cancelled
          drain,      \* the event socket's queue
          machine,
          faults

chan == <<conn, inbox, sending, sink, held, knows>>
vars == <<server, port, chan, call, runtime, cancelled, drain, machine, faults>>

\* session_base_url and discover_port: the tracked port, the environment's,
\* the lock file's, or the default.
Discovered(tracked, env, lock) ==
    LET known == SelectSeq(<<tracked, env, lock>>, LAMBDA p : p # None)
    IN  IF known = <<>> THEN "default" ELSE Head(known)

Init == /\ server = [up |-> TRUE, turn |-> "idle", unsaid |-> None]
        /\ port \in {Discovered(t, e, l) : t, e, l \in {"own", None}}
        /\ conn = [c \in Calls |-> "none"]
        /\ inbox = [c \in Calls |-> <<>>] /\ sink = [c \in Calls |-> <<>>]
        /\ sending = [c \in Calls |-> None] /\ held = [c \in Calls |-> None]
        /\ knows = [c \in Calls |-> FALSE]
        /\ call = [c \in Calls |-> "todo"]
        /\ runtime = None /\ cancelled = {} /\ drain = <<>> /\ faults = 0
        /\ machine = NewMachine("opencode")

Fault == faults < MaxFaults /\ faults' = faults + 1

-----------------------------------------------------------------------------
(* OpenCode.                                                               *)

\* What happens in a turn, and the frame each event is announced with.
Turns == {[from |-> "idle",     to |-> "busy",     says |-> "message.updated"],
          [from |-> "busy",     to |-> "asking",   says |-> "permission.asked"],
          [from |-> "asking",   to |-> "busy",     says |-> "permission.replied"],
          [from |-> "busy",     to |-> "question", says |-> "question.asked"],
          [from |-> "question", to |-> "busy",     says |-> "question.replied"],
          [from |-> "busy",     to |-> "idle",     says |-> "session.idle"]}

Listening == {c \in Calls : conn[c] = "live"}

Say(frame) ==
    /\ \A c \in Listening : Len(inbox[c]) < InboxCap
    /\ inbox' = [c \in Calls |-> IF c \in Listening THEN Append(inbox[c], frame) ELSE inbox[c]]

\* The text of a user message comes in a frame of its own.
Turn(t) ==
    /\ server.up /\ server.turn = t.from /\ server.unsaid = None
    /\ Say(t.says)
    /\ server' = [server EXCEPT !.turn = t.to,
                                !.unsaid = IF t.says = "message.updated" THEN "part" ELSE None]
    /\ UNCHANGED <<port, conn, sending, sink, held, knows, call, runtime, cancelled, drain,
                   machine, faults>>

Prompt == \E t \in Turns : t.from = "idle" /\ Turn(t)
Ask    == \E t \in Turns : t.to \in {"asking", "question"} /\ Turn(t)
Answer == \E t \in Turns : t.from \in {"asking", "question"} /\ Turn(t)
Finish == \E t \in Turns : t.to = "idle" /\ Turn(t)

SayRest ==
    /\ server.up /\ server.unsaid # None
    /\ Say(server.unsaid)
    /\ server' = [server EXCEPT !.unsaid = None]
    /\ UNCHANGED <<port, conn, sending, sink, held, knows, call, runtime, cancelled, drain,
                   machine, faults>>

\* The harness is gone and comes back in the same pane, on the same port.
Exit ==
    /\ server.up /\ Fault
    /\ server' = [up |-> FALSE, turn |-> "idle", unsaid |-> None]
    /\ UNCHANGED <<port, chan, call, runtime, cancelled, drain, machine>>

Start ==
    /\ ~server.up
    /\ server' = [server EXCEPT !.up = TRUE]
    /\ UNCHANGED <<port, chan, call, runtime, cancelled, drain, machine, faults>>

-----------------------------------------------------------------------------
(* OpenCodeSseChannel::run.                                                *)

Set(c, where) == conn' = [conn EXCEPT ![c] = where]

\* A variant that gives up when nobody answers.
BackoffNever(c) == "stopped"

\* After a refused, failed or ended connection: wait, unless cancelled.
Backoff(c) == IF c \in cancelled THEN "stopped" ELSE "backoff"

Connect(c) ==
    /\ conn[c] = "connecting"
    /\ Set(c, IF server.up /\ port = "own"
              THEN IF c \in cancelled THEN "stopped" ELSE "live"
              ELSE Backoff(c))
    /\ UNCHANGED <<server, port, inbox, sending, sink, held, knows, call, runtime, cancelled,
                   drain, machine, faults>>

Retry(c) ==
    /\ conn[c] = "backoff"
    /\ Set(c, IF c \in cancelled THEN "stopped" ELSE "connecting")
    /\ UNCHANGED <<server, port, inbox, sending, sink, held, knows, call, runtime, cancelled,
                   drain, machine, faults>>

\* A typed prompt: the text part of a message known to be the user's.
Typed(frame, known) == IF frame = "part" /\ known THEN "UserPromptSubmit" ELSE NoKind

\* translate: what the registry will classify a frame as, NoKind when it is
\* dropped.
Translate(frame, known) ==
    CASE frame = "permission.asked" -> "PermissionRequest"
      [] frame = "question.asked" -> "Notification"
      [] frame = "question.replied" -> "UserPromptSubmit"
      [] frame \in {"permission.replied", "session.idle"} -> "Stop"
      [] OTHER -> Typed(frame, known)

\* UserMessageTracker: whether the turn's message is remembered.
Remembered(frame, known) == (known \/ frame = "message.updated") /\ frame # "part"

Read(c) ==
    /\ conn[c] = "live" /\ sending[c] = None /\ inbox[c] # <<>>
    /\ LET frame == Head(inbox[c])
           event == Translate(frame, knows[c])
       IN /\ sending' = [sending EXCEPT ![c] = IF event = NoKind THEN None ELSE event]
          /\ knows' = [knows EXCEPT ![c] = Remembered(frame, @)]
    /\ inbox' = [inbox EXCEPT ![c] = Tail(@)]
    /\ UNCHANGED <<server, port, conn, sink, held, call, runtime, cancelled, drain, machine,
                   faults>>

Push(c) ==
    /\ sending[c] # None /\ Len(sink[c]) < SinkCap
    /\ sink' = [sink EXCEPT ![c] = Append(@, sending[c])]
    /\ sending' = [sending EXCEPT ![c] = None]
    /\ UNCHANGED <<server, port, conn, inbox, held, knows, call, runtime, cancelled, drain,
                   machine, faults>>

\* send_timeout: the event is dropped, the stream goes on.
SinkFull(c) ==
    /\ sending[c] # None /\ Len(sink[c]) = SinkCap
    /\ Fault
    /\ sending' = [sending EXCEPT ![c] = None]
    /\ UNCHANGED <<server, port, conn, inbox, sink, held, knows, call, runtime, cancelled,
                   drain, machine>>

\* The stream ends: the server is gone, the connection broke, or the channel
\* was cancelled.  Frames not yet read are lost.
Ended(c) ==
    /\ conn[c] = "live" /\ sending[c] = None
    /\ IF server.up /\ c \notin cancelled THEN Fault ELSE UNCHANGED faults
    /\ Set(c, Backoff(c))
    /\ inbox' = [inbox EXCEPT ![c] = <<>>]
    /\ UNCHANGED <<server, port, sending, sink, held, knows, call, runtime, cancelled, drain,
                   machine>>

-----------------------------------------------------------------------------
(* spawn_channel_task, and the drain loop.                                 *)

Forward(c) ==
    /\ held[c] = None /\ sink[c] # <<>>
    /\ held' = [held EXCEPT ![c] = Head(sink[c])]
    /\ sink' = [sink EXCEPT ![c] = Tail(@)]
    /\ UNCHANGED <<server, port, conn, inbox, sending, knows, call, runtime, cancelled, drain,
                   machine, faults>>

Deliver(c) ==
    /\ held[c] # None /\ Len(drain) < SinkCap
    /\ drain' = Append(drain, held[c])
    /\ held' = [held EXCEPT ![c] = None]
    /\ UNCHANGED <<server, port, conn, inbox, sending, sink, knows, call, runtime, cancelled,
                   machine, faults>>

\* Between two events a cancelled forwarder stops; the channel, finding the
\* sink closed, ends as well.
Hushed(c) ==
    /\ c \in cancelled /\ held[c] = None
    /\ conn[c] # "none"
    /\ Set(c, "stopped")
    /\ inbox' = [inbox EXCEPT ![c] = <<>>] /\ sending' = [sending EXCEPT ![c] = None]
    /\ sink' = [sink EXCEPT ![c] = <<>>]
    /\ UNCHANGED <<server, port, held, knows, call, runtime, cancelled, drain, machine, faults>>

Wire(event) == [event |-> event, source |-> "opencode-sse", payload |-> "none"]

Drain ==
    /\ drain # <<>>
    /\ machine' = OnHookEvent(machine, Wire(Head(drain)))
    /\ drain' = Tail(drain)
    /\ UNCHANGED <<server, port, chan, call, runtime, cancelled, faults>>

-----------------------------------------------------------------------------
(* register_harness_session_runtime_opts and the registry.                 *)

\* The reattach leaves a runtime alone that is there already; otherwise the
\* channels are spawned before the runtime is registered.
Spawn(c) ==
    /\ call[c] = "todo"
    /\ IF c = "reattach" /\ runtime # None
       THEN call' = [call EXCEPT ![c] = "done"] /\ UNCHANGED conn
       ELSE call' = [call EXCEPT ![c] = "spawned"] /\ Set(c, "connecting")
    /\ UNCHANGED <<server, port, inbox, sending, sink, held, knows, runtime, cancelled, drain,
                   machine, faults>>

\* A variant that replaces the runtime without cancelling it.
ReplacedKept(c) == cancelled

Replaced(c) == cancelled \cup ({runtime} \ {None})

RegisterSession(c) ==
    /\ call[c] = "spawned"
    /\ cancelled' = Replaced(c)
    /\ runtime' = c
    /\ call' = [call EXCEPT ![c] = "done"]
    /\ UNCHANGED <<server, port, chan, drain, machine, faults>>

\* end_session, when the pane is closed.
EndSession ==
    /\ runtime # None
    /\ cancelled' = cancelled \cup {runtime}
    /\ runtime' = None
    /\ UNCHANGED <<server, port, chan, call, drain, machine, faults>>

-----------------------------------------------------------------------------
Next == \/ Prompt \/ Ask \/ Answer \/ Finish \/ SayRest \/ Exit \/ Start
        \/ \E c \in Calls : \/ Connect(c) \/ Retry(c) \/ Read(c) \/ Push(c) \/ SinkFull(c)
                            \/ Ended(c) \/ Forward(c) \/ Deliver(c) \/ Hushed(c)
                            \/ Spawn(c) \/ RegisterSession(c)
        \/ Drain \/ EndSession

Spec == Init /\ [][Next]_vars

\* A stream of a gone server or a cancelled channel ends; others may at any time.
MustEnd(c) == Ended(c) /\ (~server.up \/ c \in cancelled)

\* raum's tasks run; the user answers, and now and then prompts again.
FairSpec ==
    /\ Spec
    /\ \A c \in Calls : /\ WF_vars(Connect(c)) /\ WF_vars(Retry(c)) /\ WF_vars(Read(c))
                        /\ WF_vars(Push(c)) /\ WF_vars(Forward(c)) /\ WF_vars(Deliver(c))
                        /\ WF_vars(MustEnd(c))
                        /\ WF_vars(Spawn(c)) /\ WF_vars(RegisterSession(c))
    /\ WF_vars(Drain) /\ WF_vars(Start) /\ WF_vars(SayRest)
    /\ SF_vars(Prompt) /\ SF_vars(Answer) /\ SF_vars(Finish)

-----------------------------------------------------------------------------
(* Properties.                                                             *)

TypeOK ==
    /\ machine \in Machine
    /\ \A c \in Calls : /\ conn[c] \in {"none", "connecting", "backoff", "live", "stopped"}
                        /\ Len(inbox[c]) <= InboxCap /\ Len(sink[c]) <= SinkCap
                        /\ conn[c] # "live" => inbox[c] = <<>>

\* A channel that nobody cancelled belongs to the runtime in the registry or
\* to a registration still under way: registrations that overlap each other or
\* the end of the session leave no channel behind that feeds the pane unseen.
NoStrayChannel ==
    \A c \in Calls \ cancelled : conn[c] # "none" => c = runtime \/ call[c] = "spawned"

\* A pane left Waiting because the answer's event was lost (no stream, full
\* sink) is freed by a later turn, as long as its session lives.
Orphaned == machine.state = "waiting" /\ server.turn \notin {"asking", "question"} /\ port = "own"
Freed    == machine.state # "waiting" \/ server.turn \in {"asking", "question"} \/ runtime = None
LostAnswerHeals == Orphaned ~> Freed
=============================================================================
