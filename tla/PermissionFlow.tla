--------------------------- MODULE PermissionFlow ---------------------------
(***************************************************************************)
(* How a permission request travels through raum: from a blocking hook     *)
(* script (Claude Code, Codex) or an OpenCode server, over the event       *)
(* socket's bounded channel, through the single drain task into the state  *)
(* machines and the webview's Critical badge, and back as a decision.      *)
(*                                                                         *)
(* Actors, each a task of its own in the code: one task per accepted       *)
(* connection, one sweeper per parked request, one forwarder per OpenCode  *)
(* session, the drain loop drive_event_socket, one task per reply command, *)
(* the terminal_send_keys command, the silence tick, and session cleanup.  *)
(* They share PendingRequests and the AgentRegistry, each behind its own   *)
(* mutex: a step below is one critical section, one channel operation or   *)
(* one emit, never two.                                                    *)
(***************************************************************************)
EXTENDS AgentMachine, Sequences

CONSTANTS
    Session,      \* raum session ids
    Request,      \* permission requests, one per uuid4 a hook script draws
    Conn,         \* connections to the event socket open at the same time
    ToolCall,     \* (tool_name, tool_input) pairs
    NoSession,    \* HookEvent.session_id = None
    NoRequest,    \* HookEvent.request_id = None
    NoTool,       \* payload without a tool call
    KindOf,       \* harness of each session
    Owner,        \* session_id each request carries, possibly NoSession
    ReqKind,      \* harness each request's script announces
    Tool,         \* tool call each request is about
    SilenceOnly,  \* sessions whose hooks are not installed
    Unregistered, \* sessions without a machine from the start (stale env)
    Removable,    \* sessions the user may kill
    Attended,     \* sessions with an attached pane: keystrokes and output
    PlainEvents,  \* hook events that are neither requests nor tool results
    ChanCap,      \* PER_AGENT_BACKLOG
    SinkCap,      \* capacity of an OpenCode session's notification sink
    MaxHooks,     \* bound: plain hook events delivered
    MaxReplies    \* bound: reply attempts per request

Event == [harness : AgentKind, event : EventName,
          session_id : Session \cup {NoSession},
          request_id : Request \cup {NoRequest},
          source : SourceTag, payload : PayloadTag, tool : ToolCall \cup {NoTool}]

ASSUME FlowAssumption ==
    /\ NoSession \notin Session /\ NoRequest \notin Request
    /\ KindOf \in [Session -> AgentKind]
    /\ Owner \in [Request -> Session \cup {NoSession}]
    /\ ReqKind \in [Request -> AgentKind]
    /\ Tool \in [Request -> ToolCall]
    /\ SilenceOnly \subseteq Session
    /\ Unregistered \subseteq Session /\ Removable \subseteq Session
    /\ Attended \subseteq Session
    /\ PlainEvents \subseteq Event
    /\ ChanCap \in Nat \ {0} /\ SinkCap \in Nat \ {0}
    /\ MaxHooks \in Nat /\ MaxReplies \in Nat

(* Plain events are the other hook events. *)
ASSUME PlainAssumption ==
    \A ev \in PlainEvents : ev.event \notin {"PermissionRequest", "PermissionExpired", "PostToolUse"}

VARIABLES
    machines,    \* AgentRegistry.machines; meaningful for live sessions
    live,        \* sessions that have a machine and a harness runtime
    conn,        \* events each connection task has still to forward
    sink,        \* events each OpenCode forwarder has still to forward
    parked,      \* PendingRequests: requests whose writer is parked
    older,       \* <<q, r>>: q was parked when r was (the order of Parked.seq)
    client_gone, \* parked requests whose script has timed out or died
    expiring,    \* swept requests whose PermissionExpired is not yet sent
    oc_open,     \* requests the OpenCode server still holds open
    channel,     \* mpsc channel into the drain loop
    drain,       \* the drain loop's program counter and locals
    reply,       \* one deliver_permission_decision task per request
    aborting,    \* terminal_send_keys between abort_session and drop_session
    removing,    \* killed sessions whose removal is not yet announced
    badges,      \* webview: replyable entries of pendingPermissions
    shown,       \* requests announced to the webview and to the OS banner
    asked,       \* requests the harness has made
    ran,         \* tool calls whose PostToolUse was sent
    hooks,       \* plain hook events so far
    tries,       \* reply attempts so far
    verdict,     \* history: how each request left PendingRequests or OpenCode
    sse_lost     \* history: sessions with a lost OpenCode event

registry == <<machines, live>>
socket == <<conn, parked, older, client_gone, expiring>>
opencode == <<sink, oc_open, sse_lost>>
webview == <<badges, shown>>
world == <<asked, ran, hooks, tries>>
vars == <<registry, socket, opencode, channel, drain, reply, aborting, removing,
          webview, world, verdict>>

Verdict == {"delivered", "lost", "evicted", "swept", "dropped", "native"}

HookEv(h, name, sid, rid, src, tool) ==
    [harness |-> h, event |-> name, session_id |-> sid, request_id |-> rid,
     source |-> src, payload |-> "none", tool |-> tool]

NullEvent == HookEv("shell", "Stop", NoSession, NoRequest, "hook", NoTool)

RequestEvent(r, src) ==
    HookEv(ReqKind[r], "PermissionRequest", Owner[r], r, src, Tool[r])

(* Mutants of ExpiredEvent: a name nobody drains, and an expiry that names  *)
(* only the session.                                                        *)
ExpiredEventMisnamed(r) ==
    HookEv(ReqKind[r], "Expired", Owner[r], r, "raum-socket", NoTool)

ExpiredEventKeyless(r) ==
    HookEv(ReqKind[r], "PermissionExpired", Owner[r], NoRequest, "raum-socket", NoTool)

ExpiredEvent(r) ==
    HookEv(ReqKind[r], "PermissionExpired", Owner[r], r, "raum-socket", NoTool)

NoDrain == [pc |-> "recv", ev |-> NullEvent, siblings |-> FALSE]

ReplyTask == [pc : {"idle", "sent", "check", "demote", "resolve"}, from : {"rail", "banner"}]

NoReply == [pc |-> "idle", from |-> "rail"]

(* Every variable holds what its declaration says; in particular only events *)
(* the drain loop has a name for travel through conn, sink and channel.      *)
TypeOK ==
    /\ machines \in [Session -> Machine]
    /\ live \subseteq Session
    /\ conn \in [Conn -> Seq(Event)]
    /\ sink \in [Session -> Seq(Event)]
    /\ parked \subseteq Request
    /\ older \subseteq Request \X Request
    /\ client_gone \subseteq Request
    /\ expiring \subseteq Request
    /\ oc_open \subseteq Request
    /\ channel \in Seq(Event)
    /\ drain \in [pc : {"recv", "route", "emit"}, ev : Event, siblings : BOOLEAN]
    /\ reply \in [Request -> ReplyTask]
    /\ aborting \subseteq Session
    /\ removing \subseteq Session
    /\ badges \subseteq Request
    /\ shown \subseteq Request
    /\ asked \subseteq Request
    /\ ran \subseteq Request
    /\ hooks \in Nat
    /\ tries \in [Request -> Nat]
    /\ verdict \in [Request -> SUBSET Verdict]
    /\ sse_lost \subseteq Session

Init ==
    /\ machines = [s \in Session |->
                    [NewMachine(KindOf[s]) EXCEPT !.silence_only = (s \in SilenceOnly)]]
    /\ live = Session \ Unregistered
    /\ conn = [c \in Conn |-> <<>>]
    /\ sink = [s \in Session |-> <<>>]
    /\ parked = {} /\ older = {}
    /\ client_gone = {} /\ expiring = {} /\ oc_open = {}
    /\ channel = <<>>
    /\ drain = NoDrain
    /\ reply = [r \in Request |-> NoReply]
    /\ aborting = {} /\ removing = {}
    /\ badges = {} /\ shown = {}
    /\ asked = {} /\ ran = {} /\ hooks = 0
    /\ tries = [r \in Request |-> 0]
    /\ verdict = [r \in Request |-> {}]
    /\ sse_lost = {}

-----------------------------------------------------------------------------
(* PendingRequests: every operator is one critical section of its mutex.   *)

ParkedForSession(s) == {r \in parked : Owner[r] = s}

Park(r) ==
    /\ parked' = parked \cup {r}
    /\ older' = older \cup (parked \X {r})

(* Mutant of Unpark: the writer is looked up, not removed. *)
UnparkPeek(rs) ==
    /\ parked' = parked
    /\ older' = {p \in older : p[1] \notin rs /\ p[2] \notin rs}
    /\ client_gone' = client_gone \ rs

Unpark(rs) ==
    /\ parked' = parked \ rs
    /\ older' = {p \in older : p[1] \notin rs /\ p[2] \notin rs}
    /\ client_gone' = client_gone \ rs

(* evict_answered: the parked requests for this very call, oldest only. *)
Oldest(rs) == {r \in rs : \A q \in rs : <<q, r>> \notin older}

Answered(s, t) ==
    IF s = NoSession THEN {}
    ELSE Oldest({r \in parked : Owner[r] = s /\ Tool[r] = t})

SetVerdict(rs, v) ==
    verdict' = [r \in Request |-> IF r \in rs THEN verdict[r] \cup {v} ELSE verdict[r]]

-----------------------------------------------------------------------------
(* The socket server: connection tasks and sweepers.                       *)

(* A request's event has left its connection task. *)
Forwarded(r) ==
    \A c \in Conn : \A i \in 1..Len(conn[c]) :
        ~(conn[c][i].event = "PermissionRequest" /\ conn[c][i].request_id = r)

(* A blocking hook script connects: its writer is parked under the mutex   *)
(* before the event is sent.                                               *)
ReceivePermissionRequest(c, r) ==
    /\ conn[c] = <<>> /\ r \notin asked /\ ReqKind[r] # "opencode"
    /\ asked' = asked \cup {r}
    /\ Park(r)
    /\ conn' = [conn EXCEPT ![c] = <<RequestEvent(r, "hook")>>]
    /\ UNCHANGED <<registry, client_gone, expiring, opencode, channel, drain, reply,
                   aborting, removing, webview, ran, hooks, tries, verdict>>

SameCall(q, r) == Owner[q] = Owner[r] /\ Tool[q] = Tool[r]

(* The harness ran the call r asked about, so its user allowed it; the     *)
(* oldest parked request for the same call is evicted and its expiry goes  *)
(* out ahead of the event itself.  A person reads a prompt before          *)
(* answering it: by then no request for the same call is still on its way  *)
(* into the channel (timing assumption AnswerAfterForward).                *)
AnswerAfterForward(r) ==
    \A q \in Request : SameCall(q, r) => Forwarded(q)

PostToolUse(r) ==
    HookEv(ReqKind[r], "PostToolUse", Owner[r], NoRequest, "hook", Tool[r])

(* Mutant of ToolResultEvents: the eviction is announced after the event. *)
ToolResultEventsLate(r, evicted) ==
    <<PostToolUse(r)>> \o
    IF evicted = {} THEN <<>> ELSE <<ExpiredEvent(CHOOSE q \in evicted : TRUE)>>

ToolResultEvents(r, evicted) ==
    IF evicted = {}
    THEN <<PostToolUse(r)>>
    ELSE <<ExpiredEvent(CHOOSE q \in evicted : TRUE), PostToolUse(r)>>

ReceivePostToolUse(c, r) ==
    LET evicted == Answered(Owner[r], Tool[r])
    IN  /\ conn[c] = <<>> /\ r \in asked \ ran /\ ReqKind[r] # "opencode"
        /\ AnswerAfterForward(r)
        /\ ran' = ran \cup {r}
        /\ Unpark(evicted)
        /\ SetVerdict(evicted, "evicted")
        /\ conn' = [conn EXCEPT ![c] = ToolResultEvents(r, evicted)]
        /\ UNCHANGED <<registry, expiring, opencode, channel, drain, reply, aborting,
                       removing, webview, asked, hooks, tries>>

ReceiveHook(c, ev) ==
    /\ conn[c] = <<>> /\ hooks < MaxHooks
    /\ hooks' = hooks + 1
    /\ conn' = [conn EXCEPT ![c] = <<ev>>]
    /\ UNCHANGED <<registry, parked, older, client_gone, expiring, opencode, channel,
                   drain, reply, aborting, removing, webview, asked, ran, tries, verdict>>

(* tx.send(..).await: blocks while the channel is full. *)
Forward(c) ==
    /\ conn[c] # <<>> /\ Len(channel) < ChanCap
    /\ channel' = Append(channel, Head(conn[c]))
    /\ conn' = [conn EXCEPT ![c] = Tail(@)]
    /\ UNCHANGED <<registry, parked, older, client_gone, expiring, opencode, drain, reply,
                   aborting, removing, webview, world, verdict>>

(* The script's own deadline (85 s) passes, or its harness dies. *)
ClientGivesUp(r) ==
    /\ r \in parked \ client_gone
    /\ client_gone' = client_gone \cup {r}
    /\ UNCHANGED <<registry, conn, parked, older, expiring, opencode, channel, drain,
                   reply, aborting, removing, webview, world, verdict>>

(* Mutant of Sweep: requests of a session without a machine are skipped. *)
SweepRegistered(r) ==
    /\ r \in parked \cap client_gone /\ Forwarded(r) /\ Owner[r] \in live
    /\ Unpark({r})
    /\ SetVerdict({r}, "swept")
    /\ expiring' = expiring \cup {r}
    /\ UNCHANGED <<registry, conn, opencode, channel, drain, reply, aborting, removing,
                   webview, world>>

(* PERMISSION_GC_AFTER (90 s) lies beyond the script's deadline and far     *)
(* beyond the forwarding of the event (timing assumption).                  *)
Sweep(r) ==
    /\ r \in parked \cap client_gone /\ Forwarded(r)
    /\ Unpark({r})
    /\ SetVerdict({r}, "swept")
    /\ expiring' = expiring \cup {r}
    /\ UNCHANGED <<registry, conn, opencode, channel, drain, reply, aborting, removing,
                   webview, world>>

(* Mutant of SendExpiry: try_send, which a full channel turns into a loss. *)
SendExpiryLossy(r) ==
    /\ r \in expiring
    /\ expiring' = expiring \ {r}
    /\ channel' = IF Len(channel) < ChanCap THEN Append(channel, ExpiredEvent(r)) ELSE channel
    /\ UNCHANGED <<registry, conn, parked, older, client_gone, opencode, drain, reply,
                   aborting, removing, webview, world, verdict>>

SendExpiry(r) ==
    /\ r \in expiring /\ Len(channel) < ChanCap
    /\ expiring' = expiring \ {r}
    /\ channel' = Append(channel, ExpiredEvent(r))
    /\ UNCHANGED <<registry, conn, parked, older, client_gone, opencode, drain, reply,
                   aborting, removing, webview, world, verdict>>

-----------------------------------------------------------------------------
(* OpenCode: its server, the SSE channel and the forwarder of a session.   *)

(* An event reaches the session's sink, or is lost: the sink stayed full   *)
(* for 250 ms, or the stream was down and is not replayed on reconnect.    *)
Emit(s, ev) ==
    \/ /\ Len(sink[s]) < SinkCap
       /\ sink' = [sink EXCEPT ![s] = Append(@, ev)]
       /\ UNCHANGED sse_lost
    \/ /\ sse_lost' = sse_lost \cup {s}
       /\ UNCHANGED sink

(* Mutants of RepliedEvent: the bus name is not lowered to a wire name, or  *)
(* it is lowered to the name of a question.                                 *)
RepliedEventRaw(r) == HookEv("opencode", "permission.replied", Owner[r], r, "opencode-sse", NoTool)

RepliedEventAsks(r) == HookEv("opencode", "Notification", Owner[r], r, "opencode-sse", NoTool)

(* permission.replied lowers to NotificationKind::TurnEnd, hence "Stop". *)
RepliedEvent(r) == HookEv("opencode", "Stop", Owner[r], r, "opencode-sse", NoTool)

OpenCodeAsks(r) ==
    /\ ReqKind[r] = "opencode" /\ r \notin asked /\ Owner[r] \in live
    /\ asked' = asked \cup {r}
    /\ oc_open' = oc_open \cup {r}
    /\ Emit(Owner[r], RequestEvent(r, "opencode-sse"))
    /\ UNCHANGED <<registry, socket, channel, drain, reply, aborting, removing, webview,
                   ran, hooks, tries, verdict>>

(* The user answers in OpenCode's own TUI. *)
OpenCodeAnswered(r) ==
    /\ r \in oc_open /\ Owner[r] \in live
    /\ oc_open' = oc_open \ {r}
    /\ SetVerdict({r}, "native")
    /\ Emit(Owner[r], RepliedEvent(r))
    /\ UNCHANGED <<registry, socket, channel, drain, reply, aborting, removing, webview,
                   world>>

ForwardSink(s) ==
    /\ sink[s] # <<>> /\ Len(channel) < ChanCap
    /\ channel' = Append(channel, Head(sink[s]))
    /\ sink' = [sink EXCEPT ![s] = Tail(@)]
    /\ UNCHANGED <<registry, socket, oc_open, sse_lost, drain, reply, aborting, removing,
                   webview, world, verdict>>

-----------------------------------------------------------------------------
(* The registry's routing rules and the drain loop.                        *)

(* Mutant of RouteTarget: an id without a machine reaches every machine of  *)
(* the harness.                                                             *)
RouteTargetBroadcast(kind, sid) ==
    LET candidates == {s \in live : machines[s].harness = kind}
    IN  IF sid \in candidates THEN {sid} ELSE candidates

(* route_target: a concrete id routes to its own machine or nowhere, a     *)
(* missing one to the sole machine of the harness.  At most one session.   *)
RouteTarget(kind, sid) ==
    LET candidates == {s \in live : machines[s].harness = kind}
    IN  IF sid # NoSession
        THEN candidates \cap {sid}
        ELSE {s \in candidates : candidates = {s}}

Update(ss, Op(_)) ==
    machines' = [s \in Session |-> IF s \in ss THEN Op(machines[s]) ELSE machines[s]]

(* The loop takes the next event; for a PostToolUse it looks at the parked  *)
(* requests first, under their mutex, before it takes the registry lock.    *)
DrainTake ==
    /\ drain.pc = "recv" /\ channel # <<>>
    /\ LET ev == Head(channel)
       IN  drain' = [pc |-> "route", ev |-> ev,
                     siblings |-> /\ ev.event = "PostToolUse"
                                  /\ ParkedForSession(ev.session_id) # {}]
    /\ channel' = Tail(channel)
    /\ UNCHANGED <<registry, socket, opencode, reply, aborting, removing, webview, world,
                   verdict>>

(* The registry's critical section.  An expiry only arms; a PostToolUse    *)
(* whose session still has parked siblings leaves the machine alone.       *)
DrainRoute ==
    LET ev == drain.ev
        target == RouteTarget(ev.harness, ev.session_id)
        Hook(m) == OnHookEvent(m, ev)
    IN  /\ drain.pc = "route"
        /\ CASE ev.event = "PermissionExpired" -> Update(target, ArmActivity)
             [] drain.siblings -> UNCHANGED machines
             [] OTHER -> Update(target, Hook)
        /\ drain' = IF \/ ev.event = "PermissionExpired"
                       \/ /\ ev.event = "PermissionRequest"
                          /\ target # {} \/ ev.request_id # NoRequest
                    THEN [drain EXCEPT !.pc = "emit"] ELSE NoDrain
        /\ UNCHANGED <<live, socket, opencode, channel, reply, aborting, removing, webview,
                       world, verdict>>

(* permission-expired drops the badge entry, notification-event adds it; an *)
(* observation-only request (no request_id) leaves no replyable entry.      *)
DrainEmit ==
    LET rs == {drain.ev.request_id} \cap Request
    IN  /\ drain.pc = "emit"
        /\ IF drain.ev.event = "PermissionExpired"
           THEN badges' = badges \ rs /\ UNCHANGED shown
           ELSE badges' = badges \cup rs /\ shown' = shown \cup rs
        /\ drain' = NoDrain
        /\ UNCHANGED <<registry, socket, opencode, channel, reply, aborting, removing,
                       world, verdict>>

-----------------------------------------------------------------------------
(* deliver_permission_decision: from the rail (or a toast) of the webview,  *)
(* or from an action button of an OS banner, possibly a stale one.          *)

Click(r, from) ==
    /\ reply[r].pc = "idle" /\ tries[r] < MaxReplies
    /\ r \in (IF from = "rail" THEN badges ELSE shown)
    /\ reply' = [reply EXCEPT ![r] = [pc |-> "sent", from |-> from]]
    /\ tries' = [tries EXCEPT ![r] = @ + 1]
    /\ UNCHANGED <<registry, socket, opencode, channel, drain, aborting, removing, webview,
                   asked, ran, hooks, verdict>>

ReplyTo(r, pc) == reply' = [reply EXCEPT ![r].pc = pc]

(* The command returns an error: the webview keeps its entry. *)
Failed(r) == reply' = [reply EXCEPT ![r] = NoReply]

HasReplier(r) == Owner[r] \in live /\ KindOf[Owner[r]] = "opencode"

(* The HTTP replier: 2xx (or a time-out after the server has acted), 404    *)
(* (already forgotten, reported as delivered), or a transport failure.      *)
ReplyHttp(r) ==
    /\ reply[r].pc = "sent" /\ HasReplier(r)
    /\ \/ /\ r \in oc_open
          /\ oc_open' = oc_open \ {r}
          /\ SetVerdict({r}, "delivered")
          /\ Emit(Owner[r], RepliedEvent(r))
          /\ ReplyTo(r, "demote") \/ Failed(r)
       \/ /\ r \notin oc_open
          /\ ReplyTo(r, "demote")
          /\ UNCHANGED <<opencode, verdict>>
       \/ /\ Failed(r)
          /\ UNCHANGED <<opencode, verdict>>
    /\ UNCHANGED <<registry, socket, channel, drain, aborting, removing, webview, world>>

(* PendingRequests::reply: the writer leaves the map whatever the write     *)
(* does; a script that is gone turns the write into a transport error.      *)
ReplyHook(r) ==
    /\ reply[r].pc = "sent" /\ ~HasReplier(r)
    /\ IF r \in parked
       THEN /\ Unpark({r})
            /\ \/ /\ r \notin client_gone
                  /\ SetVerdict({r}, "delivered")
                  /\ ReplyTo(r, "check")
               \/ /\ SetVerdict({r}, "lost")
                  /\ Failed(r)
       ELSE /\ ReplyTo(r, "resolve")
            /\ UNCHANGED <<parked, older, client_gone, verdict>>
    /\ UNCHANGED <<registry, conn, expiring, opencode, channel, drain, aborting, removing,
                   webview, world>>

(* Mutant of ReplyCheck: the count is compared as if the answered request   *)
(* were still parked.                                                       *)
ReplyCheckOffByOne(r) ==
    /\ reply[r].pc = "check"
    /\ ReplyTo(r, IF Owner[r] # NoSession /\ \E q \in parked : ParkedForSession(Owner[r]) = {q}
                  THEN "demote" ELSE "resolve")
    /\ UNCHANGED <<registry, socket, opencode, channel, drain, aborting, removing, webview,
                   world, verdict>>

(* Only the last parked request unblocks the session. *)
ReplyCheck(r) ==
    /\ reply[r].pc = "check"
    /\ ReplyTo(r, IF Owner[r] # NoSession /\ ParkedForSession(Owner[r]) = {}
                  THEN "demote" ELSE "resolve")
    /\ UNCHANGED <<registry, socket, opencode, channel, drain, aborting, removing, webview,
                   world, verdict>>

ReplyDemote(r) ==
    /\ reply[r].pc = "demote"
    /\ Update({Owner[r]} \cap live, OnPermissionReply)
    /\ ReplyTo(r, "resolve")
    /\ UNCHANGED <<live, socket, opencode, channel, drain, aborting, removing, webview,
                   world, verdict>>

(* invoke() resolves: the rail drops its entry, the OS banner tells nobody. *)
ReplyResolve(r) ==
    /\ reply[r].pc = "resolve"
    /\ reply' = [reply EXCEPT ![r] = NoReply]
    /\ badges' = IF reply[r].from = "rail" THEN badges \ {r} ELSE badges
    /\ UNCHANGED <<registry, socket, opencode, channel, drain, aborting, removing, shown,
                   world, verdict>>

-----------------------------------------------------------------------------
(* The terminal pane, the silence tick and session cleanup.                *)

Submit(s) ==
    /\ s \in Attended
    /\ Update({s} \cap live, ArmActivity)
    /\ UNCHANGED <<live, socket, opencode, channel, drain, reply, aborting, removing,
                   webview, world, verdict>>

(* Ctrl-C, or Escape in Waiting.  drop_session follows a change of state.  *)
Abort(s) ==
    /\ s \in (Attended \cap live) \ aborting /\ OnUserAbort(machines[s]) # machines[s]
    /\ Update({s}, OnUserAbort)
    /\ aborting' = aborting \cup {s}
    /\ UNCHANGED <<live, socket, opencode, channel, drain, reply, removing, webview, world,
                   verdict>>

DropSession(s) ==
    /\ s \in aborting
    /\ Unpark(ParkedForSession(s))
    /\ SetVerdict(ParkedForSession(s), "dropped")
    /\ aborting' = aborting \ {s}
    /\ UNCHANGED <<registry, conn, expiring, opencode, channel, drain, reply, removing,
                   webview, world>>

(* The tick skips a machine whose pane has produced no output yet. *)
Tick(s, recent) ==
    LET Silence(m) == TickSilence(m, recent)
    IN  /\ s \in Attended \cap live
        /\ Update({s}, Silence)
        /\ UNCHANGED <<live, socket, opencode, channel, drain, reply, aborting, removing,
                       webview, world, verdict>>

(* cleanup_harness_session ends the runtime and drops the machine; what is  *)
(* parked stays parked.  The webview learns of it afterwards.               *)
Remove(s) ==
    /\ s \in live \cap Removable
    /\ live' = live \ {s}
    /\ removing' = removing \cup {s}
    /\ sink' = [sink EXCEPT ![s] = <<>>]
    /\ UNCHANGED <<machines, socket, oc_open, sse_lost, channel, drain, reply, aborting,
                   webview, world, verdict>>

AnnounceRemoved(s) ==
    /\ s \in removing
    /\ removing' = removing \ {s}
    /\ badges' = {r \in badges : Owner[r] # s}
    /\ UNCHANGED <<registry, socket, opencode, channel, drain, reply, aborting, shown,
                   world, verdict>>

-----------------------------------------------------------------------------
Server ==
    \/ \E c \in Conn : Forward(c)
    \/ \E r \in Request : Sweep(r) \/ SendExpiry(r)
    \/ \E s \in Session : ForwardSink(s)

Drain == DrainTake \/ DrainRoute \/ DrainEmit

Reply == \E r \in Request : \/ ReplyHttp(r) \/ ReplyHook(r) \/ ReplyCheck(r)
                            \/ ReplyDemote(r) \/ ReplyResolve(r)

Harness ==
    \/ \E c \in Conn, r \in Request :
          ReceivePermissionRequest(c, r) \/ ReceivePostToolUse(c, r)
    \/ \E c \in Conn, ev \in PlainEvents : ReceiveHook(c, ev)
    \/ \E r \in Request : ClientGivesUp(r) \/ OpenCodeAsks(r) \/ OpenCodeAnswered(r)

User ==
    \/ \E r \in Request, from \in {"rail", "banner"} : Click(r, from)
    \/ \E s \in Session : Submit(s) \/ Abort(s) \/ DropSession(s)
                          \/ Remove(s) \/ AnnounceRemoved(s)

Silence == \E s \in Session, recent \in BOOLEAN : Tick(s, recent)

Next == Server \/ Drain \/ Reply \/ Harness \/ User \/ Silence

Spec == Init /\ [][Next]_vars

(* The program's own tasks always run on; a hook script's deadline passes.  *)
(* Nothing is assumed of the user, of the harness or of the pane's output.  *)
Fairness ==
    /\ WF_vars(DrainTake) /\ WF_vars(DrainRoute) /\ WF_vars(DrainEmit)
    /\ \A c \in Conn : WF_vars(Forward(c))
    /\ \A s \in Session : WF_vars(ForwardSink(s))
    /\ \A r \in Request : /\ WF_vars(ClientGivesUp(r)) /\ WF_vars(Sweep(r))
                          /\ SF_vars(SendExpiry(r))

FairSpec == Spec /\ Fairness
-----------------------------------------------------------------------------
(* Properties.                                                             *)

(* A request leaves raum's hands once and in one way: a decision written to *)
(* its script is never followed by an expiry, nor an expiry by a decision,  *)
(* whatever order replies, tool results, sweeps and aborts come in          *)
(* (PendingRequests removes under its mutex before anything is sent).       *)
AtMostOneVerdict ==
    \A r \in Request : /\ \A v, w \in verdict[r] : v = w
                       /\ r \in parked => verdict[r] = {}

(* A drained event never flips the machine of another session: one that     *)
(* names a session touches that session's machine only, and one that names  *)
(* none touches a machine only while it is the sole one of its harness      *)
(* (registry.rs route_target: stale ids are dropped, never broadcast).      *)
NoForeignFlip ==
    [][\A s \in Session :
        drain.pc = "route" /\ drain'.pc # "route" /\ machines'[s] # machines[s]
        => /\ s \in live /\ KindOf[s] = drain.ev.harness
           /\ \/ drain.ev.session_id = s
              \/ /\ drain.ev.session_id = NoSession
                 /\ \A t \in live \ {s} : KindOf[t] # drain.ev.harness]_vars

InFlight(ev) ==
    \/ \E i \in 1..Len(channel) : channel[i] = ev
    \/ \E c \in Conn : \E i \in 1..Len(conn[c]) : conn[c][i] = ev

(* The expiry of a request answered in the harness's own TUI reaches the    *)
(* webview ahead of the Working edge of the tool result that proved it:     *)
(* while the badge is still up, that PostToolUse has not been drained       *)
(* (socket.rs evicts before forwarding; both travel one FIFO channel).      *)
ExpiryAhead ==
    \A r \in badges : "evicted" \in verdict[r] =>
        \E q \in Request : SameCall(q, r) /\ InFlight(PostToolUse(q))

Quiet ==
    /\ channel = <<>> /\ drain.pc = "recv"
    /\ expiring = {} /\ aborting = {} /\ removing = {}
    /\ \A c \in Conn : conn[c] = <<>>
    /\ \A s \in Session : sink[s] = <<>>
    /\ \A r \in Request : reply[r].pc = "idle"

OpenRequests(s) == {r \in parked \cup oc_open : Owner[r] = s}

(* What the code knowingly cannot see: a request that carries no session,   *)
(* one of another harness started inside the pane (its expiry is routed     *)
(* nowhere), a decision lost with its script, an abort, a lost OpenCode     *)
(* event.                                                                   *)
Unseen(s) ==
    \/ s \in sse_lost
    \/ \E r \in asked : \/ Owner[r] = NoSession
                        \/ /\ Owner[r] = s
                           /\ \/ ReqKind[r] # KindOf[s]
                              \/ verdict[r] \cap {"lost", "dropped"} # {}

(* No session is left Waiting on nothing.  However replies, answers in the  *)
(* TUI, sweeps and the two "are siblings parked?" checks interleave, once   *)
(* everything in flight has landed a Waiting machine either still has an    *)
(* open request or is armed, so that the next output reclaims it.           *)
NoStuckWaiting ==
    \A s \in live : Quiet /\ machines[s].state = "waiting" /\ ~Unseen(s)
                    => machines[s].activity_armed \/ OpenRequests(s) # {}

(* Every badge entry of a hook request that nobody can clear any more       *)
(* belongs to a request answered from an OS banner, lost with its script or *)
(* dropped by an abort: an evicted or swept request never leaves one, and   *)
(* none appears for a request that is not parked.                           *)
BadgeHasAuthority ==
    \A r \in badges : Quiet /\ ReqKind[r] # "opencode"
        => r \in parked \/ verdict[r] \cap {"delivered", "lost", "dropped"} # {}

(* Every parked writer is released in the end: no hook script is left       *)
(* blocked by raum (spawn_permission_sweeper).                              *)
EventuallyUnparked == \A r \in Request : r \in parked ~> r \notin parked

(* Every expiry, from an eviction or from the sweeper, reaches the badge    *)
(* through a full channel and a busy drain loop.                            *)
ExpiryReachesBadge ==
    \A r \in Request : verdict[r] \cap {"evicted", "swept"} # {} ~> r \notin badges

(* A reply never demotes a session still blocked on another announced one   *)
(* (permission.rs: "must not demote a session that is Waiting on a          *)
(* *different*, still-live request").                                       *)
DemoteOnlyWhenClear ==
    [][\A r \in Request :
        /\ reply[r].pc = "demote" /\ reply'[r].pc = "resolve"
        /\ machines' # machines
        => OpenRequests(Owner[r]) \cap shown = {}]_vars

(* A badge entry goes away with the reply that answered its request         *)
(* (notificationCenter.ts: "Each entry is cleared by its own authority      *)
(* instead -- a successful reply, or the socket sweeper's").                *)
ReplyClearsBadge ==
    \A r \in badges : Quiet => "delivered" \notin verdict[r]
=============================================================================
