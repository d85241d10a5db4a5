----------------------- MODULE PermissionFlow_proofs -----------------------
(***************************************************************************)
(* Theorems about PermissionFlow, for every set of sessions, requests and  *)
(* connections, every channel capacity and every bound.                    *)
(***************************************************************************)
EXTENDS PermissionFlow, TLAPS

-----------------------------------------------------------------------------
(* Lemmas about the operators of AgentMachine.                             *)

(* The classifier yields a notification kind or nothing. *)
LEMMA ClassifyType ==
    ASSUME NEW h, NEW ev
    PROVE  Classify(h, ev) \in NotificationKind \cup {NoKind}
BY DEF Classify, ClassifyPayload, NotificationKind, NoKind

(* Every notification kind drives a machine to a state. *)
LEMMA TargetStateType ==
    ASSUME NEW kind \in NotificationKind
    PROVE  TargetState(kind) \in AgentState
BY DEF TargetState, NotificationKind, AgentState

(* Applying a notification keeps a machine a machine. *)
LEMMA ApplyKindType ==
    ASSUME NEW m \in Machine, NEW kind \in NotificationKind
    PROVE  ApplyKind(m, kind) \in Machine
<1>1. TargetState(kind) \in AgentState
  BY TargetStateType
<1> DEFINE armed == kind = "TurnStart"
           target == TargetState(kind)
<1>2. armed \in BOOLEAN
  OBVIOUS
<1>3. ApplyKind(m, kind) = [m EXCEPT !.activity_armed = armed, !.state = target]
  BY DEF ApplyKind
<1> HIDE DEF armed, target
<1> QED
  BY <1>1, <1>2, <1>3 DEF Machine, target

(* Arming keeps a machine a machine. *)
LEMMA ArmActivityType ==
    ASSUME NEW m \in Machine
    PROVE  ArmActivity(m) \in Machine
BY DEF ArmActivity, Machine

(* A hook event keeps a machine a machine, in both modes. *)
LEMMA OnHookEventType ==
    ASSUME NEW m \in Machine, NEW ev
    PROVE  OnHookEvent(m, ev) \in Machine
<1> DEFINE started == IF ev.event = "SessionStart" THEN ArmActivity(m) ELSE m
           kind == Classify(m.harness, ev)
<1>1. started \in Machine
  BY ArmActivityType
<1>2. [ArmActivity(m) EXCEPT !.state = "working"] \in Machine
  BY ArmActivityType DEF Machine, AgentState
<1>3. kind # NoKind => ApplyKind(started, kind) \in Machine
  BY <1>1, ClassifyType, ApplyKindType
<1>4. \/ OnHookEvent(m, ev) = started
      \/ OnHookEvent(m, ev) = [ArmActivity(m) EXCEPT !.state = "working"]
      \/ kind # NoKind /\ OnHookEvent(m, ev) = ApplyKind(started, kind)
  <2>1. m.silence_only \in BOOLEAN
    BY DEF Machine
  <2> HIDE DEF started, kind
  <2>2. OnHookEvent(m, ev) =
          CASE m.silence_only /\ ev.event = "SessionStart" -> started
            [] m.silence_only /\ ev.event # "SessionStart" ->
                   [ArmActivity(m) EXCEPT !.state = "working"]
            [] ~m.silence_only /\ kind = NoKind -> started
            [] OTHER -> ApplyKind(started, kind)
    BY DEF OnHookEvent, started, kind
  <2>3. CASE m.silence_only /\ ev.event = "SessionStart"
    BY <2>2, <2>3
  <2>4. CASE m.silence_only /\ ev.event # "SessionStart"
    BY <2>2, <2>4
  <2>5. CASE ~m.silence_only /\ kind = NoKind
    BY <2>2, <2>5
  <2>6. CASE ~m.silence_only /\ kind # NoKind
    BY <2>2, <2>6
  <2> QED
    BY <2>1, <2>3, <2>4, <2>5, <2>6
<1> QED
  BY <1>1, <1>2, <1>3, <1>4

(* Replies, aborts and silence keep a machine a machine. *)
LEMMA UserOpsType ==
    ASSUME NEW m \in Machine, NEW recent \in BOOLEAN
    PROVE  /\ OnPermissionReply(m) \in Machine
           /\ OnUserAbort(m) \in Machine
           /\ TickSilence(m, recent) \in Machine
<1>1. OnPermissionReply(m) \in Machine
  BY ArmActivityType DEF OnPermissionReply, Machine, AgentState
<1>2. OnUserAbort(m) \in Machine
  BY DEF OnUserAbort, Machine, AgentState
<1>3. TickSilence(m, recent) \in Machine
  BY DEF TickSilence, Machine, AgentState
<1> QED
  BY <1>1, <1>2, <1>3

-----------------------------------------------------------------------------
(* Lemmas about the operators of PermissionFlow.                           *)

(* Everything a task puts on a queue is an event. *)
LEMMA EventType ==
    ASSUME NEW r \in Request
    PROVE  /\ NullEvent \in Event
           /\ \A src \in SourceTag : RequestEvent(r, src) \in Event
           /\ ExpiredEvent(r) \in Event
           /\ PostToolUse(r) \in Event
           /\ Owner[r] \in Session => RepliedEvent(r) \in Event
BY FlowAssumption
DEF FlowAssumption, Event, NullEvent, RequestEvent, ExpiredEvent, PostToolUse, RepliedEvent,
    HookEv, AgentKind, EventName, SourceTag, PayloadTag

(* Removing parked requests only removes. *)
LEMMA UnparkType ==
    ASSUME TypeOK, NEW rs, Unpark(rs)
    PROVE  /\ parked' \subseteq Request
           /\ older' \subseteq Request \X Request
           /\ client_gone' \subseteq Request
BY DEF TypeOK, Unpark

(* Recording a verdict keeps the history well formed. *)
LEMMA SetVerdictType ==
    ASSUME TypeOK, NEW rs, NEW v \in Verdict, SetVerdict(rs, v)
    PROVE  verdict' \in [Request -> SUBSET Verdict]
BY DEF TypeOK, SetVerdict

(* What a PostToolUse connection forwards is a sequence of events. *)
LEMMA ToolResultType ==
    ASSUME NEW r \in Request, NEW evicted \in SUBSET Request
    PROVE  ToolResultEvents(r, evicted) \in Seq(Event)
<1>1. CASE evicted = {}
  BY <1>1, EventType DEF ToolResultEvents
<1>2. CASE evicted # {}
  <2> DEFINE q == CHOOSE q \in evicted : TRUE
  <2>1. q \in Request
    BY <1>2
  <2>2. ExpiredEvent(q) \in Event /\ PostToolUse(r) \in Event
    BY <2>1, EventType
  <2>3. ToolResultEvents(r, evicted) = <<ExpiredEvent(q), PostToolUse(r)>>
    BY <1>2 DEF ToolResultEvents
  <2> QED
    BY <2>2, <2>3
<1> QED
  BY <1>1, <1>2

(* Replacing one queue by a queue of events. *)
LEMMA ReplaceQueue ==
    ASSUME NEW D, NEW f \in [D -> Seq(Event)], NEW d \in D, NEW q \in Seq(Event)
    PROVE  [f EXCEPT ![d] = q] \in [D -> Seq(Event)]
OBVIOUS

(* An OpenCode event is queued or lost, nothing else. *)
LEMMA EmitType ==
    ASSUME TypeOK, NEW s \in Session, NEW ev \in Event, Emit(s, ev)
    PROVE  /\ sink' \in [Session -> Seq(Event)]
           /\ sse_lost' \subseteq Session
<1>1. sink \in [Session -> Seq(Event)] /\ sse_lost \subseteq Session
  BY DEF TypeOK
<1>2. Append(sink[s], ev) \in Seq(Event)
  BY <1>1
<1>3. [sink EXCEPT ![s] = Append(sink[s], ev)] \in [Session -> Seq(Event)]
  BY <1>1, <1>2, ReplaceQueue
<1> QED
  BY <1>1, <1>3 DEF Emit

(* Taking the head of a queue. *)
LEMMA QueueType ==
    ASSUME NEW q \in Seq(Event), q # <<>>
    PROVE  Head(q) \in Event /\ Tail(q) \in Seq(Event)
OBVIOUS

(* A step of the reply task stays inside its program. *)
LEMMA ReplyType ==
    ASSUME TypeOK, NEW r \in Request,
           NEW pc \in {"idle", "sent", "check", "demote", "resolve"}
    PROVE  /\ ReplyTo(r, pc) => reply' \in [Request -> ReplyTask]
           /\ Failed(r) => reply' \in [Request -> ReplyTask]
<1>1. reply \in [Request -> ReplyTask]
  BY DEF TypeOK
<1>2. [reply[r] EXCEPT !.pc = pc] \in ReplyTask
  BY <1>1 DEF ReplyTask
<1>3. NoReply \in ReplyTask
  BY DEF NoReply, ReplyTask
<1> HIDE DEF ReplyTask
<1>4. ReplyTo(r, pc) => reply' = [reply EXCEPT ![r] = [reply[r] EXCEPT !.pc = pc]]
  BY DEF ReplyTo
<1> QED
  BY <1>1, <1>2, <1>3, <1>4 DEF Failed

-----------------------------------------------------------------------------
(* The event of an idle drain loop is an event. *)
LEMMA NullEventType == NullEvent \in Event
BY FlowAssumption
DEF FlowAssumption, Event, NullEvent, HookEv, AgentKind, EventName, SourceTag, PayloadTag

(* The initial state is well typed. *)
LEMMA TypeInit == Init => TypeOK
<1> SUFFICES ASSUME Init PROVE TypeOK
  OBVIOUS
<1>1. NullEvent \in Event
  BY NullEventType
<1>2. machines \in [Session -> Machine]
  <2>1. ASSUME NEW h \in AgentKind, NEW b \in BOOLEAN
        PROVE  [NewMachine(h) EXCEPT !.silence_only = b] \in Machine
    BY DEF NewMachine, Machine, AgentState
  <2>2. ASSUME NEW s \in Session
        PROVE  [NewMachine(KindOf[s]) EXCEPT !.silence_only = (s \in SilenceOnly)] \in Machine
    <3>1. KindOf[s] \in AgentKind
      BY FlowAssumption DEF FlowAssumption
    <3>2. (s \in SilenceOnly) \in BOOLEAN
      OBVIOUS
    <3> QED
      BY <2>1, <3>1, <3>2, Zenon
  <2> HIDE DEF Machine
  <2> QED
    BY <2>2, Zenon DEF Init
<1>3. drain \in [pc : {"recv", "route", "emit"}, ev : Event, siblings : BOOLEAN]
  BY <1>1 DEF Init, NoDrain
<1>4. reply \in [Request -> ReplyTask]
  BY DEF Init, NoReply, ReplyTask
<1>5. conn \in [Conn -> Seq(Event)] /\ sink \in [Session -> Seq(Event)]
  BY DEF Init
<1> QED
  BY <1>2, <1>3, <1>4, <1>5 DEF Init, TypeOK

(* Every step keeps the state well typed: one step per action. *)
LEMMA TypeStep == TypeOK /\ [Next]_vars => TypeOK'
<1> SUFFICES ASSUME TypeOK, [Next]_vars PROVE TypeOK'
  OBVIOUS
<1>1. ASSUME NEW c \in Conn, Forward(c) PROVE TypeOK'
  <2>1. conn[c] \in Seq(Event) /\ channel \in Seq(Event)
    BY DEF TypeOK
  <2>2. Head(conn[c]) \in Event /\ Tail(conn[c]) \in Seq(Event)
    BY <1>1, <2>1, QueueType DEF Forward
  <2>3. channel' \in Seq(Event)
    BY <1>1, <2>1, <2>2 DEF Forward
  <2>4. conn' \in [Conn -> Seq(Event)]
    BY <1>1, <2>2, ReplaceQueue DEF Forward, TypeOK
  <2> QED
    BY <1>1, <2>3, <2>4 DEF Forward, TypeOK, registry, socket, opencode, webview, world
<1>2. ASSUME NEW r \in Request, Sweep(r) PROVE TypeOK'
  <2>1. /\ parked' \subseteq Request /\ client_gone' \subseteq Request
        /\ older' \subseteq Request \X Request
    BY <1>2, UnparkType DEF Sweep
  <2>2. verdict' \in [Request -> SUBSET Verdict]
    BY <1>2, SetVerdictType DEF Sweep, Verdict
  <2> QED
    BY <1>2, <2>1, <2>2 DEF Sweep, TypeOK, registry, socket, opencode, webview, world
<1>3. ASSUME NEW r \in Request, SendExpiry(r) PROVE TypeOK'
  <2>1. channel' \in Seq(Event)
    BY <1>3, EventType DEF SendExpiry, TypeOK
  <2> QED
    BY <1>3, <2>1 DEF SendExpiry, TypeOK, registry, socket, opencode, webview, world
<1>4. ASSUME NEW s \in Session, ForwardSink(s) PROVE TypeOK'
  <2>1. sink[s] \in Seq(Event) /\ channel \in Seq(Event)
    BY DEF TypeOK
  <2>2. Head(sink[s]) \in Event /\ Tail(sink[s]) \in Seq(Event)
    BY <1>4, <2>1, QueueType DEF ForwardSink
  <2>3. channel' \in Seq(Event)
    BY <1>4, <2>1, <2>2 DEF ForwardSink
  <2>4. sink' \in [Session -> Seq(Event)]
    BY <1>4, <2>2, ReplaceQueue DEF ForwardSink, TypeOK
  <2> QED
    BY <1>4, <2>3, <2>4 DEF ForwardSink, TypeOK, registry, socket, opencode, webview, world
<1>5. ASSUME DrainTake PROVE TypeOK'
  <2>1. Head(channel) \in Event /\ channel' \in Seq(Event)
    BY <1>5, QueueType DEF DrainTake, TypeOK
  <2>2. drain' \in [pc : {"recv", "route", "emit"}, ev : Event, siblings : BOOLEAN]
    BY <1>5, <2>1 DEF DrainTake
  <2> QED
    BY <1>5, <2>1, <2>2 DEF DrainTake, TypeOK, registry, socket, opencode, webview, world
<1>6. ASSUME DrainRoute PROVE TypeOK'
  <2>1. machines' \in [Session -> Machine]
    <3> DEFINE target == RouteTarget(drain.ev.harness, drain.ev.session_id)
               Hook(m) == OnHookEvent(m, drain.ev)
    <3>1. machines \in [Session -> Machine]
      BY DEF TypeOK
    <3>2. ASSUME machines' = [s \in Session |-> IF s \in target THEN ArmActivity(machines[s])
                                                               ELSE machines[s]]
          PROVE  machines' \in [Session -> Machine]
      BY <3>1, <3>2, ArmActivityType
    <3>3. ASSUME machines' = [s \in Session |-> IF s \in target THEN Hook(machines[s])
                                                               ELSE machines[s]]
          PROVE  machines' \in [Session -> Machine]
      BY <3>1, <3>3, OnHookEventType
    <3>4. \/ Update(target, ArmActivity)
          \/ machines' = machines
          \/ Update(target, Hook)
      BY <1>6 DEF DrainRoute
    <3> QED
      BY <3>1, <3>2, <3>3, <3>4 DEF Update
  <2>2. drain' \in [pc : {"recv", "route", "emit"}, ev : Event, siblings : BOOLEAN]
    BY <1>6, NullEventType DEF DrainRoute, NoDrain, TypeOK
  <2> QED
    BY <1>6, <2>1, <2>2 DEF DrainRoute, TypeOK, registry, socket, opencode, webview, world
<1>7. ASSUME DrainEmit PROVE TypeOK'
  <2>1. drain' \in [pc : {"recv", "route", "emit"}, ev : Event, siblings : BOOLEAN]
    BY <1>7, NullEventType DEF DrainEmit, NoDrain
  <2> QED
    BY <1>7, <2>1 DEF DrainEmit, TypeOK, registry, socket, opencode, webview, world
<1>8. ASSUME NEW r \in Request, ReplyHttp(r) PROVE TypeOK'
  <2>1. Owner[r] \in Session
    BY <1>8 DEF ReplyHttp, HasReplier, TypeOK
  <2>2. reply' \in [Request -> ReplyTask]
    BY <1>8, ReplyType DEF ReplyHttp
  <2>3. verdict' \in [Request -> SUBSET Verdict]
    BY <1>8, SetVerdictType DEF ReplyHttp, Verdict, TypeOK
  <2>4. /\ sink' \in [Session -> Seq(Event)] /\ sse_lost' \subseteq Session
        /\ oc_open' \subseteq Request
    <3>1. CASE UNCHANGED opencode
      BY <3>1 DEF opencode, TypeOK
    <3>2. CASE Emit(Owner[r], RepliedEvent(r)) /\ oc_open' = oc_open \ {r}
      BY <2>1, <3>2, EmitType, EventType DEF TypeOK
    <3> QED
      BY <1>8, <3>1, <3>2 DEF ReplyHttp
  <2> QED
    BY <1>8, <2>2, <2>3, <2>4 DEF ReplyHttp, TypeOK, registry, socket, opencode, webview, world
<1>9. ASSUME NEW r \in Request, ReplyHook(r) PROVE TypeOK'
  <2>1. /\ parked' \subseteq Request /\ client_gone' \subseteq Request
        /\ older' \subseteq Request \X Request
    BY <1>9, UnparkType DEF ReplyHook, TypeOK
  <2>2. verdict' \in [Request -> SUBSET Verdict]
    BY <1>9, SetVerdictType DEF ReplyHook, Verdict, TypeOK
  <2>3. reply' \in [Request -> ReplyTask]
    BY <1>9, ReplyType DEF ReplyHook
  <2> QED
    BY <1>9, <2>1, <2>2, <2>3 DEF ReplyHook, TypeOK, registry, socket, opencode, webview, world
<1>10. ASSUME NEW r \in Request, ReplyCheck(r) PROVE TypeOK'
  <2>1. reply' \in [Request -> ReplyTask]
    BY <1>10, ReplyType DEF ReplyCheck
  <2> QED
    BY <1>10, <2>1 DEF ReplyCheck, TypeOK, registry, socket, opencode, webview, world
<1>11. ASSUME NEW r \in Request, ReplyDemote(r) PROVE TypeOK'
  <2>1. machines' \in [Session -> Machine]
    BY <1>11, UserOpsType DEF ReplyDemote, Update, TypeOK
  <2>2. reply' \in [Request -> ReplyTask]
    BY <1>11, ReplyType DEF ReplyDemote
  <2> QED
    BY <1>11, <2>1, <2>2 DEF ReplyDemote, TypeOK, registry, socket, opencode, webview, world
<1>12. ASSUME NEW r \in Request, ReplyResolve(r) PROVE TypeOK'
  <2>1. reply' \in [Request -> ReplyTask]
    BY <1>12 DEF ReplyResolve, TypeOK, NoReply, ReplyTask
  <2> QED
    BY <1>12, <2>1 DEF ReplyResolve, TypeOK, registry, socket, opencode, webview, world
<1>13. ASSUME NEW c \in Conn, NEW r \in Request, ReceivePermissionRequest(c, r) PROVE TypeOK'
  <2>1. RequestEvent(r, "hook") \in Event
    BY EventType DEF SourceTag
  <2>2. conn' \in [Conn -> Seq(Event)]
    BY <1>13, <2>1, ReplaceQueue DEF ReceivePermissionRequest, TypeOK
  <2>3. parked' \subseteq Request /\ older' \subseteq Request \X Request
    BY <1>13 DEF ReceivePermissionRequest, Park, TypeOK
  <2> QED
    BY <1>13, <2>2, <2>3 DEF ReceivePermissionRequest, TypeOK, registry, socket, opencode, webview, world
<1>14. ASSUME NEW c \in Conn, NEW r \in Request, ReceivePostToolUse(c, r) PROVE TypeOK'
  <2> DEFINE evicted == Answered(Owner[r], Tool[r])
  <2>1. evicted \in SUBSET Request
    BY DEF Answered, Oldest, TypeOK
  <2>2. conn' \in [Conn -> Seq(Event)]
    BY <1>14, <2>1, ToolResultType, ReplaceQueue DEF ReceivePostToolUse, TypeOK
  <2>3. /\ parked' \subseteq Request /\ client_gone' \subseteq Request
        /\ older' \subseteq Request \X Request
    BY <1>14, UnparkType DEF ReceivePostToolUse
  <2>4. verdict' \in [Request -> SUBSET Verdict]
    BY <1>14, SetVerdictType DEF ReceivePostToolUse, Verdict
  <2> QED
    BY <1>14, <2>2, <2>3, <2>4 DEF ReceivePostToolUse, TypeOK, registry, socket, opencode, webview, world
<1>15. ASSUME NEW c \in Conn, NEW ev \in PlainEvents, ReceiveHook(c, ev) PROVE TypeOK'
  <2>1. <<ev>> \in Seq(Event)
    BY FlowAssumption DEF FlowAssumption
  <2>2. conn' \in [Conn -> Seq(Event)]
    BY <1>15, <2>1, ReplaceQueue DEF ReceiveHook, TypeOK
  <2> QED
    BY <1>15, <2>2 DEF ReceiveHook, TypeOK, registry, socket, opencode, webview, world
<1>16. ASSUME NEW r \in Request, ClientGivesUp(r) PROVE TypeOK'
  BY <1>16 DEF ClientGivesUp, TypeOK, registry, socket, opencode, webview, world
<1>17. ASSUME NEW r \in Request, OpenCodeAsks(r) PROVE TypeOK'
  <2>1. Owner[r] \in Session /\ RequestEvent(r, "opencode-sse") \in Event
    BY <1>17, EventType DEF OpenCodeAsks, TypeOK, SourceTag
  <2>2. sink' \in [Session -> Seq(Event)] /\ sse_lost' \subseteq Session
    BY <1>17, <2>1, EmitType DEF OpenCodeAsks
  <2> QED
    BY <1>17, <2>2 DEF OpenCodeAsks, TypeOK, registry, socket, opencode, webview, world
<1>18. ASSUME NEW r \in Request, OpenCodeAnswered(r) PROVE TypeOK'
  <2>1. Owner[r] \in Session /\ RepliedEvent(r) \in Event
    BY <1>18, EventType DEF OpenCodeAnswered, TypeOK
  <2>2. sink' \in [Session -> Seq(Event)] /\ sse_lost' \subseteq Session
    BY <1>18, <2>1, EmitType DEF OpenCodeAnswered
  <2>3. verdict' \in [Request -> SUBSET Verdict]
    BY <1>18, SetVerdictType DEF OpenCodeAnswered, Verdict
  <2> QED
    BY <1>18, <2>2, <2>3 DEF OpenCodeAnswered, TypeOK, registry, socket, opencode, webview, world
<1>19. ASSUME NEW r \in Request, NEW from \in {"rail", "banner"}, Click(r, from) PROVE TypeOK'
  <2>1. reply' \in [Request -> ReplyTask]
    BY <1>19 DEF Click, TypeOK, ReplyTask
  <2>2. tries' \in [Request -> Nat]
    BY <1>19 DEF Click, TypeOK
  <2> QED
    BY <1>19, <2>1, <2>2 DEF Click, TypeOK, registry, socket, opencode, webview, world
<1>20. ASSUME NEW s \in Session, Submit(s) PROVE TypeOK'
  <2>1. machines' \in [Session -> Machine]
    BY <1>20, ArmActivityType DEF Submit, Update, TypeOK
  <2> QED
    BY <1>20, <2>1 DEF Submit, TypeOK, registry, socket, opencode, webview, world
<1>21. ASSUME NEW s \in Session, Abort(s) PROVE TypeOK'
  <2>1. machines' \in [Session -> Machine]
    BY <1>21, UserOpsType DEF Abort, Update, TypeOK
  <2> QED
    BY <1>21, <2>1 DEF Abort, TypeOK, registry, socket, opencode, webview, world
<1>22. ASSUME NEW s \in Session, DropSession(s) PROVE TypeOK'
  <2>1. /\ parked' \subseteq Request /\ client_gone' \subseteq Request
        /\ older' \subseteq Request \X Request
    BY <1>22, UnparkType DEF DropSession
  <2>2. verdict' \in [Request -> SUBSET Verdict]
    BY <1>22, SetVerdictType DEF DropSession, Verdict
  <2> QED
    BY <1>22, <2>1, <2>2 DEF DropSession, TypeOK, registry, socket, opencode, webview, world
<1>23. ASSUME NEW s \in Session, Remove(s) PROVE TypeOK'
  <2>1. sink' \in [Session -> Seq(Event)]
    BY <1>23, ReplaceQueue DEF Remove, TypeOK
  <2> QED
    BY <1>23, <2>1 DEF Remove, TypeOK, registry, socket, opencode, webview, world
<1>24. ASSUME NEW s \in Session, AnnounceRemoved(s) PROVE TypeOK'
  BY <1>24 DEF AnnounceRemoved, TypeOK, registry, socket, opencode, webview, world
<1>25. ASSUME NEW s \in Session, NEW recent \in BOOLEAN, Tick(s, recent) PROVE TypeOK'
  <2>1. machines' \in [Session -> Machine]
    BY <1>25, UserOpsType DEF Tick, Update, TypeOK
  <2> QED
    BY <1>25, <2>1 DEF Tick, TypeOK, registry, socket, opencode, webview, world
<1>26. CASE UNCHANGED vars
  BY <1>26 DEF vars, TypeOK, registry, socket, opencode, webview, world
<1> QED
  BY <1>1, <1>2, <1>3, <1>4, <1>5, <1>6, <1>7, <1>8, <1>9, <1>10, <1>11, <1>12, <1>13,
     <1>14, <1>15, <1>16, <1>17, <1>18, <1>19, <1>20, <1>21, <1>22, <1>23, <1>24, <1>25,
     <1>26
  DEF Next, Server, Drain, Reply, Harness, User, Silence

(* Every reachable state is well typed. *)
THEOREM TypeCorrect == Spec => []TypeOK
BY TypeInit, TypeStep, PTL DEF Spec

-----------------------------------------------------------------------------
(* The strengthening of AtMostOneVerdict: a request has no verdict while it *)
(* is open, and is open in one transport only.                              *)
VerdictInv ==
    \A r \in Request :
        /\ \A v, w \in verdict[r] : v = w
        /\ r \in parked => r \in asked /\ verdict[r] = {} /\ ReqKind[r] # "opencode"
        /\ r \in oc_open => r \in asked /\ verdict[r] = {} /\ ReqKind[r] = "opencode"
        /\ r \notin asked => verdict[r] = {}

(* Whoever gives parked requests their verdict removes them in the same     *)
(* critical section, so it is their first.                                  *)
LEMMA UnparkVerdict ==
    ASSUME TypeOK, VerdictInv, NEW rs \in SUBSET parked, NEW v \in Verdict,
           Unpark(rs), SetVerdict(rs, v), asked' = asked, oc_open' = oc_open
    PROVE  VerdictInv'
<1> SUFFICES ASSUME NEW r \in Request
             PROVE  VerdictInv!(r)'
  BY DEF VerdictInv
<1>1. verdict'[r] = IF r \in rs THEN verdict[r] \cup {v} ELSE verdict[r]
  BY DEF SetVerdict
<1>2. CASE r \in rs
  <2>1. verdict[r] = {} /\ r \in asked /\ ReqKind[r] # "opencode"
    BY <1>2 DEF VerdictInv
  <2>2. verdict'[r] = {v} /\ r \notin parked' /\ r \notin oc_open
    BY <1>1, <1>2, <2>1 DEF Unpark, VerdictInv
  <2> QED
    BY <2>1, <2>2 DEF VerdictInv
<1>3. CASE r \notin rs
  BY <1>1, <1>3 DEF VerdictInv, Unpark
<1> QED
  BY <1>2, <1>3

(* The OpenCode server closes a request when it gives it a verdict. *)
LEMMA OpenCodeVerdict ==
    ASSUME TypeOK, VerdictInv, NEW q \in oc_open, NEW v \in Verdict,
           oc_open' = oc_open \ {q}, SetVerdict({q}, v), asked' = asked, parked' = parked
    PROVE  VerdictInv'
<1> SUFFICES ASSUME NEW r \in Request
             PROVE  VerdictInv!(r)'
  BY DEF VerdictInv
<1>1. verdict'[r] = IF r \in {q} THEN verdict[r] \cup {v} ELSE verdict[r]
  BY DEF SetVerdict
<1>2. CASE r = q
  <2>1. verdict[r] = {} /\ r \in asked /\ ReqKind[r] = "opencode"
    BY <1>2 DEF VerdictInv
  <2>2. verdict'[r] = {v} /\ r \notin oc_open' /\ r \notin parked
    BY <1>1, <1>2, <2>1 DEF VerdictInv
  <2> QED
    BY <2>1, <2>2 DEF VerdictInv
<1>3. CASE r # q
  BY <1>1, <1>3 DEF VerdictInv
<1> QED
  BY <1>2, <1>3

(* Requests start without a verdict. *)
LEMMA VerdictInit == Init => VerdictInv
BY DEF Init, VerdictInv

(* No step gives a request a second verdict: the actions that give one or   *)
(* open a request, one by one, and then all others.                         *)
LEMMA VerdictStep == TypeOK /\ VerdictInv /\ [Next]_vars => VerdictInv'
<1> SUFFICES ASSUME TypeOK, VerdictInv, [Next]_vars PROVE VerdictInv'
  OBVIOUS
<1> USE DEF Verdict
<1>1. ASSUME NEW c \in Conn, NEW r \in Request, ReceivePermissionRequest(c, r)
      PROVE  VerdictInv'
  BY <1>1 DEF ReceivePermissionRequest, Park, VerdictInv, opencode
<1>2. ASSUME NEW c \in Conn, NEW r \in Request, ReceivePostToolUse(c, r) PROVE VerdictInv'
  <2>1. Answered(Owner[r], Tool[r]) \in SUBSET parked
    BY DEF Answered, Oldest
  <2> QED
    BY <1>2, <2>1, UnparkVerdict DEF ReceivePostToolUse, opencode
<1>3. ASSUME NEW r \in Request, Sweep(r) PROVE VerdictInv'
  BY <1>3, UnparkVerdict DEF Sweep, opencode, world
<1>4. ASSUME NEW s \in Session, DropSession(s) PROVE VerdictInv'
  <2>1. ParkedForSession(s) \in SUBSET parked
    BY DEF ParkedForSession
  <2> QED
    BY <1>4, <2>1, UnparkVerdict DEF DropSession, opencode, world
<1>5. ASSUME NEW r \in Request, OpenCodeAsks(r) PROVE VerdictInv'
  BY <1>5 DEF OpenCodeAsks, VerdictInv, socket
<1>6. ASSUME NEW r \in Request, OpenCodeAnswered(r) PROVE VerdictInv'
  BY <1>6, OpenCodeVerdict DEF OpenCodeAnswered, socket, world
<1>7. ASSUME NEW r \in Request, ReplyHttp(r) PROVE VerdictInv'
  <2>1. parked' = parked /\ asked' = asked
    BY <1>7 DEF ReplyHttp, socket, world
  <2>2. CASE r \in oc_open /\ oc_open' = oc_open \ {r} /\ SetVerdict({r}, "delivered")
    BY <2>1, <2>2, OpenCodeVerdict
  <2>3. CASE UNCHANGED <<opencode, verdict>>
    BY <2>1, <2>3 DEF VerdictInv, opencode
  <2> QED
    BY <1>7, <2>2, <2>3 DEF ReplyHttp
<1>8. ASSUME NEW r \in Request, ReplyHook(r) PROVE VerdictInv'
  <2>1. asked' = asked /\ oc_open' = oc_open
    BY <1>8 DEF ReplyHook, world, opencode
  <2>2. CASE r \in parked
    <3>1. Unpark({r}) /\ (SetVerdict({r}, "delivered") \/ SetVerdict({r}, "lost"))
      BY <1>8, <2>2 DEF ReplyHook
    <3> QED
      BY <2>1, <2>2, <3>1, UnparkVerdict
  <2>3. CASE r \notin parked
    BY <1>8, <2>1, <2>3 DEF ReplyHook, VerdictInv
  <2> QED
    BY <2>2, <2>3
<1>9. ASSUME UNCHANGED <<parked, oc_open, asked, verdict>> PROVE VerdictInv'
  BY <1>9 DEF VerdictInv
<1>10. CASE UNCHANGED vars
  BY <1>9, <1>10 DEF vars, socket, opencode, world
<1>11. CASE Drain
  BY <1>9, <1>11 DEF Drain, DrainTake, DrainRoute, DrainEmit, socket, opencode, world
<1>12. CASE Server
  BY <1>3, <1>9, <1>12
  DEF Server, Forward, SendExpiry, ForwardSink, socket, opencode, world
<1>13. CASE Reply
  BY <1>7, <1>8, <1>9, <1>13
  DEF Reply, ReplyCheck, ReplyDemote, ReplyResolve, socket, opencode, world
<1>14. CASE Harness
  BY <1>1, <1>2, <1>5, <1>6, <1>9, <1>14
  DEF Harness, ReceiveHook, ClientGivesUp, socket, opencode, world
<1>15. CASE User
  BY <1>4, <1>9, <1>15
  DEF User, Click, Submit, Abort, Remove, AnnounceRemoved, socket, opencode, world
<1>16. CASE Silence
  BY <1>9, <1>16 DEF Silence, Tick, socket, opencode, world
<1> QED
  BY <1>10, <1>11, <1>12, <1>13, <1>14, <1>15, <1>16 DEF Next

(* Every request leaves raum's hands once and in one way, whatever order    *)
(* replies, tool results, sweeps and aborts come in.                        *)
THEOREM OneVerdict == Spec => []AtMostOneVerdict
<1>1. Init => TypeOK /\ VerdictInv
  BY TypeInit, VerdictInit
<1>2. TypeOK /\ VerdictInv /\ [Next]_vars => (TypeOK /\ VerdictInv)'
  BY TypeStep, VerdictStep
<1>3. VerdictInv => AtMostOneVerdict
  BY DEF VerdictInv, AtMostOneVerdict
<1> QED
  BY <1>1, <1>2, <1>3, PTL DEF Spec

-----------------------------------------------------------------------------
(* No step changes the harness of a machine.                                *)
HarnessInv == \A s \in Session : machines[s].harness = KindOf[s]

(* No operation of a machine changes its harness. *)
LEMMA SameHarness ==
    ASSUME NEW m \in Machine, NEW ev, NEW recent \in BOOLEAN
    PROVE  /\ ArmActivity(m).harness = m.harness
           /\ OnHookEvent(m, ev).harness = m.harness
           /\ OnPermissionReply(m).harness = m.harness
           /\ OnUserAbort(m).harness = m.harness
           /\ TickSilence(m, recent).harness = m.harness
<1>1. ArmActivity(m).harness = m.harness /\ ArmActivity(m) \in Machine
  BY ArmActivityType DEF ArmActivity, Machine
<1>2. ASSUME NEW k \in Machine, NEW kind PROVE ApplyKind(k, kind).harness = k.harness
  BY DEF ApplyKind, Machine
<1>3. OnHookEvent(m, ev).harness = m.harness
  <2> DEFINE started == IF ev.event = "SessionStart" THEN ArmActivity(m) ELSE m
             kind == Classify(m.harness, ev)
  <2>1. started \in Machine /\ started.harness = m.harness
    BY <1>1
  <2>2. [ArmActivity(m) EXCEPT !.state = "working"].harness = m.harness
    BY <1>1 DEF Machine
  <2>3. ApplyKind(started, kind).harness = m.harness
    BY <1>2, <2>1
  <2>4. m.silence_only \in BOOLEAN
    BY DEF Machine
  <2> HIDE DEF started, kind
  <2>5. OnHookEvent(m, ev) =
          CASE m.silence_only /\ ev.event = "SessionStart" -> started
            [] m.silence_only /\ ev.event # "SessionStart" ->
                   [ArmActivity(m) EXCEPT !.state = "working"]
            [] ~m.silence_only /\ kind = NoKind -> started
            [] OTHER -> ApplyKind(started, kind)
    BY DEF OnHookEvent, started, kind
  <2>6. CASE m.silence_only /\ ev.event = "SessionStart"
    BY <2>1, <2>5, <2>6
  <2>7. CASE m.silence_only /\ ev.event # "SessionStart"
    BY <2>2, <2>5, <2>7
  <2>8. CASE ~m.silence_only /\ kind = NoKind
    BY <2>1, <2>5, <2>8
  <2>9. CASE ~m.silence_only /\ kind # NoKind
    BY <2>3, <2>5, <2>9
  <2> QED
    BY <2>4, <2>6, <2>7, <2>8, <2>9
<1>4. OnPermissionReply(m).harness = m.harness
  BY <1>1 DEF OnPermissionReply, Machine
<1>5. OnUserAbort(m).harness = m.harness /\ TickSilence(m, recent).harness = m.harness
  BY DEF OnUserAbort, TickSilence, Machine
<1> QED
  BY <1>1, <1>3, <1>4, <1>5

(* What the drain loop's registry section does to the machines. *)
LEMMA RouteEffect ==
    ASSUME TypeOK, DrainRoute
    PROVE  LET target == RouteTarget(drain.ev.harness, drain.ev.session_id)
           IN  \A s \in Session :
                 \/ machines'[s] = machines[s]
                 \/ s \in target /\ machines'[s] = ArmActivity(machines[s])
                 \/ s \in target /\ machines'[s] = OnHookEvent(machines[s], drain.ev)
<1> DEFINE target == RouteTarget(drain.ev.harness, drain.ev.session_id)
           Hook(m) == OnHookEvent(m, drain.ev)
<1>1. \/ Update(target, ArmActivity)
      \/ machines' = machines
      \/ Update(target, Hook)
  BY DEF DrainRoute
<1> QED
  BY <1>1 DEF Update

(* Harnesses are right from the start. *)
LEMMA HarnessInit == Init => HarnessInv
<1> SUFFICES ASSUME Init, NEW s \in Session PROVE machines[s].harness = KindOf[s]
  BY DEF HarnessInv
<1>1. machines[s] = [NewMachine(KindOf[s]) EXCEPT !.silence_only = (s \in SilenceOnly)]
  BY DEF Init
<1> QED
  BY <1>1 DEF NewMachine

(* Every step keeps them. *)
LEMMA HarnessStep == TypeOK /\ HarnessInv /\ [Next]_vars => HarnessInv'
<1> SUFFICES ASSUME TypeOK, HarnessInv, [Next]_vars, NEW s \in Session
             PROVE  machines'[s].harness = machines[s].harness
  BY DEF HarnessInv
<1>1. machines[s] \in Machine
  BY DEF TypeOK
<1>2. CASE DrainRoute
  <2>1. \/ machines'[s] = machines[s]
        \/ machines'[s] = ArmActivity(machines[s])
        \/ machines'[s] = OnHookEvent(machines[s], drain.ev)
    BY <1>2, RouteEffect
  <2>2. /\ ArmActivity(machines[s]).harness = machines[s].harness
        /\ OnHookEvent(machines[s], drain.ev).harness = machines[s].harness
    <3>1. TRUE \in BOOLEAN
      OBVIOUS
    <3> QED
      BY <1>1, <3>1, SameHarness
  <2> QED
    BY <2>1, <2>2
<1>3. ASSUME NEW r \in Request, ReplyDemote(r) PROVE machines'[s].harness = machines[s].harness
  BY <1>1, <1>3, SameHarness DEF ReplyDemote, Update
<1>4. ASSUME NEW t \in Session, Submit(t) PROVE machines'[s].harness = machines[s].harness
  BY <1>1, <1>4, SameHarness DEF Submit, Update
<1>5. ASSUME NEW t \in Session, Abort(t) PROVE machines'[s].harness = machines[s].harness
  BY <1>1, <1>5, SameHarness DEF Abort, Update
<1>6. ASSUME NEW t \in Session, NEW recent \in BOOLEAN, Tick(t, recent)
      PROVE  machines'[s].harness = machines[s].harness
  BY <1>1, <1>6, SameHarness DEF Tick, Update
<1>7. CASE UNCHANGED machines
  BY <1>7
<1>8. CASE UNCHANGED vars
  BY <1>7, <1>8 DEF vars, registry
<1>9. CASE Server
  BY <1>7, <1>9 DEF Server, Forward, Sweep, SendExpiry, ForwardSink, registry
<1>10. CASE Drain
  BY <1>2, <1>7, <1>10 DEF Drain, DrainTake, DrainEmit, registry
<1>11. CASE Reply
  BY <1>3, <1>7, <1>11
  DEF Reply, ReplyHttp, ReplyHook, ReplyCheck, ReplyResolve, registry
<1>12. CASE Harness
  BY <1>7, <1>12
  DEF Harness, ReceivePermissionRequest, ReceivePostToolUse, ReceiveHook, ClientGivesUp,
      OpenCodeAsks, OpenCodeAnswered, registry
<1>13. CASE User
  BY <1>4, <1>5, <1>7, <1>13
  DEF User, Click, DropSession, Remove, AnnounceRemoved, registry
<1>14. CASE Silence
  BY <1>6, <1>14 DEF Silence
<1> QED
  BY <1>8, <1>9, <1>10, <1>11, <1>12, <1>13, <1>14 DEF Next

(* Only the registry section of the drain loop leaves its "route" step. *)
LEMMA LeavesRoute ==
    ASSUME [Next]_vars, drain.pc = "route", drain'.pc # "route"
    PROVE  DrainRoute
<1>1. drain' # drain
  OBVIOUS
<1>2. CASE UNCHANGED vars
  BY <1>1, <1>2 DEF vars
<1>3. CASE Server
  BY <1>1, <1>3 DEF Server, Forward, Sweep, SendExpiry, ForwardSink
<1>4. CASE Drain
  BY <1>4 DEF Drain, DrainTake, DrainEmit
<1>5. CASE Reply
  BY <1>1, <1>5 DEF Reply, ReplyHttp, ReplyHook, ReplyCheck, ReplyDemote, ReplyResolve
<1>6. CASE Harness
  BY <1>1, <1>6
  DEF Harness, ReceivePermissionRequest, ReceivePostToolUse, ReceiveHook, ClientGivesUp,
      OpenCodeAsks, OpenCodeAnswered
<1>7. CASE User
  BY <1>1, <1>7 DEF User, Click, Submit, Abort, DropSession, Remove, AnnounceRemoved
<1>8. CASE Silence
  BY <1>1, <1>8 DEF Silence, Tick
<1> QED
  BY <1>2, <1>3, <1>4, <1>5, <1>6, <1>7, <1>8 DEF Next

(* A drained event touches the machine of the session it names, and without *)
(* a name the sole machine of its harness.                                  *)
THEOREM RoutesHome == Spec => NoForeignFlip
<1> DEFINE Flip(s) == drain.pc = "route" /\ drain'.pc # "route" /\ machines'[s] # machines[s]
           Home(s) == /\ s \in live /\ KindOf[s] = drain.ev.harness
                      /\ \/ drain.ev.session_id = s
                         \/ /\ drain.ev.session_id = NoSession
                            /\ \A t \in live \ {s} : KindOf[t] # drain.ev.harness
<1>1. TypeOK /\ HarnessInv /\ [Next]_vars => [\A s \in Session : Flip(s) => Home(s)]_vars
  <2> SUFFICES ASSUME TypeOK, HarnessInv, [Next]_vars, NEW s \in Session, Flip(s)
               PROVE  Home(s)
    OBVIOUS
  <2>1. DrainRoute
    BY LeavesRoute
  <2>2. s \in RouteTarget(drain.ev.harness, drain.ev.session_id)
    BY <2>1, RouteEffect
  <2>3. live \subseteq Session
    BY DEF TypeOK
  <2> QED
    BY <2>2, <2>3 DEF RouteTarget, HarnessInv
<1>2. Init => TypeOK /\ HarnessInv
  BY TypeInit, HarnessInit
<1>3. TypeOK /\ HarnessInv /\ [Next]_vars => (TypeOK /\ HarnessInv)'
  BY TypeStep, HarnessStep
<1> QED
  BY <1>1, <1>2, <1>3, PTL DEF Spec, NoForeignFlip

-----------------------------------------------------------------------------
(* What travels where.                                                      *)

IsRequest(ev, r) == ev.event = "PermissionRequest" /\ ev.request_id = r

(* The line into the machines: what the drain loop has in hand, and then    *)
(* the channel behind it.                                                   *)
InLine == IF drain.pc = "recv" THEN 1..Len(channel) ELSE 0..Len(channel)

At(i) == IF i = 0 THEN drain.ev ELSE channel[i]

(* A request names its own session and harness; nothing else asks. *)
Proper(ev) ==
    /\ ev \in Event /\ (ev.event = "Notification" => ev \in PlainEvents)
    /\ ev.event = "PermissionRequest" =>
           \E r \in Request : IsRequest(ev, r) /\ ev.harness = ReqKind[r] /\ ev.session_id = Owner[r]

RequestFrom(c, r) == conn[c] = <<RequestEvent(r, "hook")>>

ResultFrom(c, q) == conn[c] = <<PostToolUse(q)>>

ExpiryFrom(c, r, q) == conn[c] = <<ExpiredEvent(r), PostToolUse(q)>>

(* A connection task is at one of five places in its program. *)
ConnShape(c) ==
    \/ conn[c] = <<>>
    \/ \E r \in Request : ReqKind[r] # "opencode" /\ RequestFrom(c, r)
    \/ \E r, q \in Request : SameCall(r, q) /\ ReqKind[r] # "opencode" /\ ExpiryFrom(c, r, q)
    \/ \E q \in Request : ResultFrom(c, q)
    \/ \E ev \in PlainEvents : conn[c] = <<ev>>

(* A session's sink holds the asking and the answering of its requests. *)
SinkShape(s) ==
    \A i \in 1..Len(sink[s]) : \E r \in Request :
        /\ Owner[r] = s /\ ReqKind[r] = "opencode"
        /\ sink[s][i] \in {RequestEvent(r, "opencode-sse"), RepliedEvent(r)}

Traffic ==
    /\ \A c \in Conn : ConnShape(c)
    /\ \A s \in Session : SinkShape(s)
    /\ \A i \in InLine : Proper(At(i))
    /\ drain.pc = "emit" => drain.ev.event \in {"PermissionRequest", "PermissionExpired"}

(* A request's event on its way to the drain loop. *)
OnLine(r) == \E i \in InLine : IsRequest(At(i), r)

InSink(r) == \E s \in Session : \E i \in 1..Len(sink[s]) : IsRequest(sink[s][i], r)

OnItsWay(r) == (\E c \in Conn : RequestFrom(c, r)) \/ InSink(r) \/ OnLine(r)

(* It is at one place only, and there once. *)
OnePlace(r) ==
    /\ OnLine(r) => ~InSink(r) /\ \A c \in Conn : ~RequestFrom(c, r)
    /\ \A i, j \in InLine : IsRequest(At(i), r) /\ IsRequest(At(j), r) => i = j
    /\ \A c, d \in Conn : RequestFrom(c, r) /\ RequestFrom(d, r) => c = d
    /\ \A s \in Session : \A i, j \in 1..Len(sink[s]) :
           IsRequest(sink[s][i], r) /\ IsRequest(sink[s][j], r) => i = j

Announced(r) ==
    /\ OnItsWay(r) => r \in asked /\ r \notin shown
    /\ r \in shown => r \in asked

(* A request is announced once, and answered only after that. *)
Announcements ==
    /\ badges \subseteq shown
    /\ \A r \in Request : reply[r].pc # "idle" \/ "delivered" \in verdict[r] => r \in shown
    /\ \A r \in Request : Announced(r) /\ OnePlace(r)

(* Parked requests are in the order of their arrival. *)
Queue == \A q, r \in parked : q = r \/ <<q, r>> \in older \/ <<r, q>> \in older

-----------------------------------------------------------------------------
(* Expiries.                                                                *)

(* From place i on r is not announced. *)
NotBehind(i, r) == \A k \in InLine : k >= i => ~IsRequest(At(k), r)

Settled(r) == r \notin badges /\ NotBehind(0, r)

(* The expiry of r is in the line, with every announcement of r before it. *)
Expires(i, r) == At(i) = ExpiredEvent(r) /\ NotBehind(i, r)

(* The tool result that proved r answered comes after r's expiry. *)
Proving(r, q) ==
    \/ \E c \in Conn : ExpiryFrom(c, r, q)
    \/ \E i \in InLine :
          /\ Expires(i, r)
          /\ \/ \E c \in Conn : ResultFrom(c, q)
             \/ \E j \in InLine : j > i /\ At(j) = PostToolUse(q)

Expiries ==
    \A r \in Request :
        /\ verdict[r] \cap {"evicted", "swept"} # {} =>
               ReqKind[r] # "opencode" /\ \A c \in Conn : ~RequestFrom(c, r)
        /\ "evicted" \in verdict[r] =>
               Settled(r) \/ \E q \in Request : SameCall(q, r) /\ Proving(r, q)
        /\ "swept" \in verdict[r] =>
               Settled(r) \/ r \in expiring \/ \E i \in InLine : Expires(i, r)

(* A hook request that is not parked has been given a verdict. *)
Accounted ==
    \A r \in Request :
        /\ r \in asked /\ ReqKind[r] # "opencode" =>
               r \in parked \/ verdict[r] \cap {"delivered", "lost", "evicted", "swept", "dropped"} # {}
        /\ ReqKind[r] # "opencode" => "native" \notin verdict[r]

-----------------------------------------------------------------------------
(* Waiting machines.                                                        *)

(* The answer of an OpenCode request follows its announcement. *)
FollowsInLine(i, r) == \E j \in InLine : j > i /\ At(j) = RepliedEvent(r)

FollowsInSink(i, r) == \E j \in 1..Len(sink[Owner[r]]) : j > i /\ sink[Owner[r]][j] = RepliedEvent(r)

AnswerBehind(r) ==
    /\ \A i \in InLine : IsRequest(At(i), r) => FollowsInLine(i, r) \/ FollowsInSink(0, r)
    /\ \A i \in 1..Len(sink[Owner[r]]) : IsRequest(sink[Owner[r]][i], r) => FollowsInSink(i, r)

Answers ==
    \A r \in Request :
        ReqKind[r] = "opencode" /\ r \in asked \ oc_open /\ Owner[r] \in live \ sse_lost =>
            AnswerBehind(r)

(* Something under way will arm or move the machine of r's session. *)
Rescues(r) ==
    \/ r \in expiring
    \/ \E c \in Conn, q \in Request : ExpiryFrom(c, r, q)
    \/ \E i \in InLine : At(i) = ExpiredEvent(r) /\ (i = 0 => drain.pc = "route")
    \/ reply[r].pc \in {"check", "demote"}
    \/ /\ ReqKind[r] = "opencode"
       /\ \/ FollowsInSink(0, r)
          \/ \E i \in InLine : At(i) = RepliedEvent(r)

Rescued(s) == \E r \in Request : Owner[r] = s /\ ReqKind[r] = KindOf[s] /\ Rescues(r)

Waits(s) == s \in live /\ machines[s].state = "waiting" /\ ~machines[s].activity_armed

(* Only a tool result is held back for the sake of parked siblings. *)
Held == drain.siblings => drain.ev.event = "PostToolUse"

NobodyForgotten ==
    \A s \in Session : Waits(s) /\ ~Unseen(s) => OpenRequests(s) # {} \/ Rescued(s)

-----------------------------------------------------------------------------
(* The events that travel, taken apart once. *)
LEMMA EventFacts ==
    ASSUME NEW r \in Request, NEW q \in Request, NEW src \in SourceTag
    PROVE  /\ IsRequest(RequestEvent(q, src), r) <=> q = r
           /\ ~IsRequest(ExpiredEvent(q), r) /\ ~IsRequest(PostToolUse(q), r)
           /\ ~IsRequest(RepliedEvent(q), r)
           /\ \A ev \in PlainEvents : ~IsRequest(ev, r) /\ ev # ExpiredEvent(q)
           /\ ExpiredEvent(q) = ExpiredEvent(r) => q = r
           /\ PostToolUse(q) # ExpiredEvent(r) /\ RepliedEvent(q) # ExpiredEvent(r)
           /\ RequestEvent(q, src) \notin {ExpiredEvent(r), PostToolUse(r), RepliedEvent(r)}
BY PlainAssumption DEF IsRequest, RequestEvent, ExpiredEvent, PostToolUse, RepliedEvent, HookEv

(* They are all proper. *)
LEMMA EventsProper ==
    ASSUME NEW r \in Request
    PROVE  /\ \A src \in SourceTag : Proper(RequestEvent(r, src))
           /\ Proper(ExpiredEvent(r)) /\ Proper(PostToolUse(r))
           /\ Owner[r] \in Session => Proper(RepliedEvent(r))
           /\ \A ev \in PlainEvents : Proper(ev)
<1>1. \A src \in SourceTag : Proper(RequestEvent(r, src))
  <2> SUFFICES ASSUME NEW src \in SourceTag PROVE Proper(RequestEvent(r, src))
    OBVIOUS
  <2>1. RequestEvent(r, src) \in Event
    BY EventType
  <2> QED
    BY <2>1 DEF Proper, IsRequest, RequestEvent, HookEv
<1>2. Proper(ExpiredEvent(r))
  <2>1. ExpiredEvent(r) \in Event
    BY EventType
  <2> QED
    BY <2>1 DEF Proper, ExpiredEvent, HookEv
<1>3. Proper(PostToolUse(r))
  <2>1. PostToolUse(r) \in Event
    BY EventType
  <2> QED
    BY <2>1 DEF Proper, PostToolUse, HookEv
<1>4. Owner[r] \in Session => Proper(RepliedEvent(r))
  <2>1. Owner[r] \in Session => RepliedEvent(r) \in Event
    BY EventType
  <2> QED
    BY <2>1 DEF Proper, RepliedEvent, HookEv
<1>5. \A ev \in PlainEvents : Proper(ev)
  BY PlainAssumption, FlowAssumption DEF Proper
<1> QED
  BY <1>1, <1>2, <1>3, <1>4, <1>5

(* Short sequences. *)
LEMMA OneEvent ==
    ASSUME NEW a, NEW b
    PROVE  /\ <<a>> # <<>> /\ Head(<<a>>) = a /\ Tail(<<a>>) = <<>>
           /\ <<a>> = <<b>> => a = b
OBVIOUS

\* What a list of two events is.
LEMMA TwoEvents ==
    ASSUME NEW a, NEW b, NEW c, NEW d
    PROVE  /\ <<a, b>> # <<>> /\ Head(<<a, b>>) = a /\ Tail(<<a, b>>) = <<b>>
           /\ <<a, b>> = <<c, d>> => a = c /\ b = d
           /\ <<a, b>> # <<c>>
OBVIOUS

(* How the line moves. *)
LEMMA LineSame ==
    ASSUME channel' = channel, drain' = drain
    PROVE  InLine' = InLine /\ \A i : At(i)' = At(i)
BY DEF InLine, At

\* An event sent to the drain loop goes behind all that wait.
LEMMA LinePush ==
    ASSUME TypeOK, NEW ev, channel' = Append(channel, ev), drain' = drain
    PROVE  \E n \in Nat :
               /\ n > 0 /\ n \notin InLine /\ InLine' = InLine \cup {n} /\ At(n)' = ev
               /\ \A i \in InLine : i \in Nat /\ i < n /\ At(i)' = At(i)
<1>1. channel \in Seq(Event)
  BY DEF TypeOK
<1>2. Len(channel) \in Nat /\ Len(channel') = Len(channel) + 1
  BY <1>1
<1>3. \A i \in 1..Len(channel) : channel'[i] = channel[i]
  BY <1>1
<1> PICK n \in Nat : n = Len(channel) + 1
  BY <1>2
<1>4. channel'[n] = ev
  BY <1>1
<1>5. n > 0 /\ n \notin InLine /\ InLine' = InLine \cup {n}
  <2>1. n \in Nat /\ n > 0 /\ \A i \in InLine : i \in Nat /\ i < n
    BY <1>2 DEF InLine
  <2>2. \A i : i \in InLine' <=> i \in InLine \/ i = n
    BY <1>2 DEF InLine
  <2> QED
    BY <2>1, <2>2
<1>6. At(n)' = ev
  BY <1>4, <1>5 DEF At
<1>7. ASSUME NEW i \in InLine PROVE i \in Nat /\ i < n /\ At(i)' = At(i)
  <2>1. i \in Nat /\ i < n /\ (i = 0 \/ i \in 1..Len(channel))
    BY <1>2 DEF InLine
  <2> QED
    BY <1>3, <2>1 DEF At
<1> QED
  BY <1>5, <1>6, <1>7

\* The drain loop takes the first event, and the others move up.
LEMMA LineTake ==
    ASSUME TypeOK, DrainTake
    PROVE  /\ drain'.pc = "route" /\ drain.pc = "recv"
           /\ \A i : i \in InLine' => i \in Nat /\ i + 1 \in InLine /\ At(i)' = At(i + 1)
           /\ \A i \in InLine : i \in Nat /\ i > 0 /\ i - 1 \in InLine' /\ At(i - 1)' = At(i)
<1>1. channel \in Seq(Event) /\ channel # <<>> /\ channel' = Tail(channel)
  BY DEF DrainTake, TypeOK
<1>2. Len(channel) \in Nat /\ Len(channel) > 0 /\ Len(channel') = Len(channel) - 1
  BY <1>1
<1>3. \A i \in 1..Len(channel') : channel'[i] = channel[i + 1]
  BY <1>1
<1>4. drain.pc = "recv" /\ drain'.pc = "route" /\ drain'.ev = channel[1]
  BY <1>1 DEF DrainTake
<1>5. InLine = 1..Len(channel) /\ InLine' = 0..Len(channel')
  BY <1>4 DEF InLine
<1>6. \A i \in InLine' : i \in Nat /\ i + 1 \in InLine /\ At(i)' = At(i + 1)
  <2> SUFFICES ASSUME NEW i \in InLine' PROVE i \in Nat /\ i + 1 \in InLine /\ At(i)' = At(i + 1)
    OBVIOUS
  <2>1. i \in Nat /\ i + 1 \in InLine
    BY <1>2, <1>5
  <2>2. At(i)' = IF i = 0 THEN drain'.ev ELSE channel'[i]
    BY DEF At
  <2>3. At(i + 1) = channel[i + 1]
    BY <2>1 DEF At
  <2> QED
    BY <1>2, <1>3, <1>4, <1>5, <2>1, <2>2, <2>3
<1>7. ASSUME NEW i \in InLine
      PROVE  i \in Nat /\ i > 0 /\ i - 1 \in InLine' /\ At(i - 1)' = At(i)
  <2>1. i \in Nat /\ i > 0 /\ i - 1 \in InLine' /\ (i - 1) + 1 = i
    BY <1>2, <1>5
  <2>2. At(i - 1)' = At((i - 1) + 1)
    BY <1>6, <2>1
  <2> QED
    BY <2>1, <2>2
<1> QED
  BY <1>4, <1>6, <1>7

\* Routing an event ends its turn or leaves it to be emitted, and moves no other.
LEMMA LineRoute ==
    ASSUME TypeOK, DrainRoute
    PROVE  /\ 0 \in InLine /\ \A i \in InLine : i \in Nat
           /\ drain'.pc # "route"
           /\ drain'.pc = "emit" => /\ InLine' = InLine /\ \A i : At(i)' = At(i)
                                    /\ drain.ev.event \in {"PermissionRequest", "PermissionExpired"}
           /\ drain'.pc # "emit" => /\ InLine' = InLine \ {0}
                                    /\ \A i \in InLine' : At(i)' = At(i)
                                    /\ drain.ev.event # "PermissionExpired"
                                    /\ drain'.pc = "recv"
<1>1. channel' = channel /\ drain.pc = "route" /\ Len(channel) \in Nat
  BY DEF DrainRoute, TypeOK
<1>2. drain \in [pc : {"recv", "route", "emit"}, ev : Event, siblings : BOOLEAN]
  BY DEF TypeOK
<1>3. \/ /\ drain' = [drain EXCEPT !.pc = "emit"]
         /\ drain.ev.event \in {"PermissionRequest", "PermissionExpired"}
      \/ drain' = NoDrain /\ drain.ev.event # "PermissionExpired"
  BY DEF DrainRoute
<1>4. CASE drain' = [drain EXCEPT !.pc = "emit"]
  <2>1. drain'.pc = "emit" /\ drain'.ev = drain.ev
    BY <1>2, <1>4
  <2> QED
    BY <1>1, <1>3, <2>1 DEF InLine, At, NoDrain
<1>5. CASE drain' = NoDrain
  <2>1. drain'.pc = "recv"
    BY <1>5 DEF NoDrain
  <2> QED
    BY <1>1, <1>2, <1>3, <2>1 DEF InLine, At
<1> QED
  BY <1>3, <1>4, <1>5

\* An emit takes the event at the front out of the line.
LEMMA LineEmit ==
    ASSUME TypeOK, DrainEmit
    PROVE  /\ 0 \in InLine /\ \A i \in InLine : i \in Nat
           /\ InLine' = InLine \ {0} /\ \A i \in InLine' : At(i)' = At(i)
           /\ drain.pc = "emit" /\ drain'.pc = "recv"
<1>1. channel' = channel /\ drain.pc = "emit" /\ Len(channel) \in Nat /\ drain' = NoDrain
  BY DEF DrainEmit, TypeOK
<1> QED
  BY <1>1 DEF InLine, At, NoDrain

(* How a connection's queue moves: the forms it can take are distinct. *)
LEMMA ConnForms ==
    ASSUME NEW x \in Request, NEW y \in Request, NEW r \in Request, NEW q \in Request
    PROVE  /\ <<RequestEvent(x, "hook")>> = <<RequestEvent(r, "hook")>> => x = r
           /\ <<RequestEvent(x, "hook")>> \notin {<<>>, <<PostToolUse(q)>>,
                                                 <<ExpiredEvent(r), PostToolUse(q)>>}
           /\ <<PostToolUse(x)>> \notin {<<>>, <<RequestEvent(r, "hook")>>,
                                        <<ExpiredEvent(r), PostToolUse(q)>>}
           /\ <<ExpiredEvent(x), PostToolUse(y)>> \notin
                  {<<>>, <<RequestEvent(r, "hook")>>, <<PostToolUse(q)>>}
           /\ <<ExpiredEvent(x), PostToolUse(y)>> = <<ExpiredEvent(r), PostToolUse(q)>> =>
                  x = r /\ PostToolUse(y) = PostToolUse(q)
           /\ \A ev \in PlainEvents :
                  <<ev>> \notin {<<>>, <<RequestEvent(r, "hook")>>, <<PostToolUse(q)>>,
                               <<ExpiredEvent(r), PostToolUse(q)>>}
<1>1. /\ RequestEvent(x, "hook") = RequestEvent(r, "hook") => x = r
      /\ RequestEvent(x, "hook") # PostToolUse(q)
      /\ PostToolUse(x) # RequestEvent(r, "hook")
      /\ ExpiredEvent(x) = ExpiredEvent(r) => x = r
      /\ \A ev \in PlainEvents : ev \notin {RequestEvent(r, "hook"), PostToolUse(q)}
  BY PlainAssumption DEF RequestEvent, ExpiredEvent, PostToolUse, HookEv
<1> QED
  BY <1>1, OneEvent, TwoEvents

(* What a connection task forwards. *)
LEMMA ForwardCases ==
    ASSUME TypeOK, Traffic, NEW c \in Conn, Forward(c)
    PROVE  \/ \E r \in Request :
                /\ ReqKind[r] # "opencode" /\ RequestFrom(c, r)
                /\ channel' = Append(channel, RequestEvent(r, "hook"))
                /\ conn' = [conn EXCEPT ![c] = <<>>]
           \/ \E r, q \in Request :
                /\ SameCall(r, q) /\ ReqKind[r] # "opencode" /\ ExpiryFrom(c, r, q)
                /\ channel' = Append(channel, ExpiredEvent(r))
                /\ conn' = [conn EXCEPT ![c] = <<PostToolUse(q)>>]
           \/ \E q \in Request :
                /\ ResultFrom(c, q)
                /\ channel' = Append(channel, PostToolUse(q))
                /\ conn' = [conn EXCEPT ![c] = <<>>]
           \/ \E ev \in PlainEvents :
                /\ conn[c] = <<ev>>
                /\ channel' = Append(channel, ev)
                /\ conn' = [conn EXCEPT ![c] = <<>>]
<1>1. ConnShape(c)
  BY DEF Traffic
<1>2. /\ conn[c] # <<>> /\ channel' = Append(channel, Head(conn[c]))
      /\ conn' = [conn EXCEPT ![c] = Tail(conn[c])]
  BY DEF Forward
<1>3. CASE \E r \in Request : ReqKind[r] # "opencode" /\ RequestFrom(c, r)
  <2>1. PICK r \in Request : ReqKind[r] # "opencode" /\ RequestFrom(c, r)
    BY <1>3
  <2>2. Head(conn[c]) = RequestEvent(r, "hook") /\ Tail(conn[c]) = <<>>
    BY <2>1, OneEvent DEF RequestFrom
  <2> QED
    BY <1>2, <2>1, <2>2
<1>4. CASE \E r, q \in Request : SameCall(r, q) /\ ReqKind[r] # "opencode" /\ ExpiryFrom(c, r, q)
  <2>1. PICK r \in Request, q \in Request :
              SameCall(r, q) /\ ReqKind[r] # "opencode" /\ ExpiryFrom(c, r, q)
    BY <1>4
  <2>2. Head(conn[c]) = ExpiredEvent(r) /\ Tail(conn[c]) = <<PostToolUse(q)>>
    BY <2>1, TwoEvents DEF ExpiryFrom
  <2> QED
    BY <1>2, <2>1, <2>2
<1>5. CASE \E q \in Request : ResultFrom(c, q)
  <2>1. PICK q \in Request : ResultFrom(c, q)
    BY <1>5
  <2>2. Head(conn[c]) = PostToolUse(q) /\ Tail(conn[c]) = <<>>
    BY <2>1, OneEvent DEF ResultFrom
  <2> QED
    BY <1>2, <2>1, <2>2
<1>6. CASE \E ev \in PlainEvents : conn[c] = <<ev>>
  <2>1. PICK ev \in PlainEvents : conn[c] = <<ev>>
    BY <1>6
  <2>2. Head(conn[c]) = ev /\ Tail(conn[c]) = <<>>
    BY <2>1, OneEvent
  <2> QED
    BY <1>2, <2>1, <2>2
<1> QED
  BY <1>1, <1>2, <1>3, <1>4, <1>5, <1>6 DEF ConnShape

(* How a sink moves. *)
LEMMA SinkTake ==
    ASSUME TypeOK, NEW s \in Session, ForwardSink(s)
    PROVE  /\ Len(sink[s]) \in Nat /\ Len(sink[s]) > 0 /\ Len(sink'[s]) = Len(sink[s]) - 1
           /\ \A i \in 1..Len(sink'[s]) : i + 1 \in 1..Len(sink[s]) /\ sink'[s][i] = sink[s][i + 1]
           /\ \A t \in Session \ {s} : sink'[t] = sink[t]
           /\ channel' = Append(channel, sink[s][1])
<1>1. sink[s] \in Seq(Event) /\ sink[s] # <<>> /\ sink \in [Session -> Seq(Event)]
  BY DEF ForwardSink, TypeOK
<1>2. /\ sink'[s] = Tail(sink[s]) /\ \A t \in Session \ {s} : sink'[t] = sink[t]
      /\ channel' = Append(channel, Head(sink[s]))
  BY <1>1 DEF ForwardSink
<1> QED
  BY <1>1, <1>2

\* What the SSE channel emits goes behind what waits in the session's sink, or is lost.
LEMMA SinkPut ==
    ASSUME TypeOK, NEW s \in Session, NEW ev \in Event, Emit(s, ev)
    PROVE  \/ sink' = sink /\ sse_lost' = sse_lost \cup {s}
           \/ /\ Len(sink[s]) \in Nat /\ Len(sink'[s]) = Len(sink[s]) + 1
              /\ \A i \in 1..Len(sink[s]) : sink'[s][i] = sink[s][i]
              /\ sink'[s][Len(sink[s]) + 1] = ev
              /\ \A t \in Session \ {s} : sink'[t] = sink[t]
              /\ sse_lost' = sse_lost
<1>1. sink[s] \in Seq(Event) /\ sink \in [Session -> Seq(Event)]
  BY DEF TypeOK
<1>2. CASE sink' = [sink EXCEPT ![s] = Append(sink[s], ev)] /\ sse_lost' = sse_lost
  <2>1. sink'[s] = Append(sink[s], ev) /\ \A t \in Session \ {s} : sink'[t] = sink[t]
    BY <1>1, <1>2
  <2> QED
    BY <1>1, <1>2, <2>1
<1> QED
  BY <1>2 DEF Emit

(* Arrivals keep the queue in order, and removals do not disturb it. *)
LEMMA QueueInit == Init => Queue
BY DEF Init, Queue

\* Parked requests stay ordered by their arrival.
LEMMA QueueStep == TypeOK /\ VerdictInv /\ Queue /\ [Next]_vars => Queue'
<1> SUFFICES ASSUME TypeOK, VerdictInv, Queue, [Next]_vars PROVE Queue'
  OBVIOUS
<1>1. ASSUME NEW r \in Request, Park(r) PROVE Queue'
  BY <1>1 DEF Park, Queue
<1>2. ASSUME NEW rs, Unpark(rs) PROVE Queue'
  BY <1>2 DEF Unpark, Queue
<1>3. ASSUME UNCHANGED <<parked, older>> PROVE Queue'
  BY <1>3 DEF Queue
<1>4. CASE UNCHANGED vars
  BY <1>3, <1>4 DEF vars, socket
<1>5. CASE Server
  BY <1>2, <1>3, <1>5 DEF Server, Forward, Sweep, SendExpiry, ForwardSink, socket
<1>6. CASE Drain
  BY <1>3, <1>6 DEF Drain, DrainTake, DrainRoute, DrainEmit, socket
<1>7. CASE Reply
  BY <1>2, <1>3, <1>7
  DEF Reply, ReplyHttp, ReplyHook, ReplyCheck, ReplyDemote, ReplyResolve, socket
<1>8. CASE Harness
  BY <1>1, <1>2, <1>3, <1>8
  DEF Harness, ReceivePermissionRequest, ReceivePostToolUse, ReceiveHook, ClientGivesUp,
      OpenCodeAsks, OpenCodeAnswered, socket
<1>9. CASE User
  BY <1>2, <1>3, <1>9 DEF User, Click, Submit, Abort, DropSession, Remove, AnnounceRemoved, socket
<1>10. CASE Silence
  BY <1>3, <1>10 DEF Silence, Tick, socket
<1> QED
  BY <1>4, <1>5, <1>6, <1>7, <1>8, <1>9, <1>10 DEF Next

(* A tool result evicts one request at most, for the same call. *)
LEMMA ResultCases ==
    ASSUME TypeOK, VerdictInv, Queue, NEW c \in Conn, NEW q \in Request,
           ReceivePostToolUse(c, q)
    PROVE  \/ /\ Unpark({}) /\ SetVerdict({}, "evicted")
              /\ conn' = [conn EXCEPT ![c] = <<PostToolUse(q)>>]
           \/ \E r \in parked :
                /\ SameCall(r, q) /\ ReqKind[r] # "opencode" /\ Owner[r] # NoSession
                /\ Unpark({r}) /\ SetVerdict({r}, "evicted")
                /\ conn' = [conn EXCEPT ![c] = <<ExpiredEvent(r), PostToolUse(q)>>]
<1> DEFINE same == {r \in parked : Owner[r] = Owner[q] /\ Tool[r] = Tool[q]}
           evicted == Answered(Owner[q], Tool[q])
<1>1. /\ Unpark(evicted) /\ SetVerdict(evicted, "evicted")
      /\ conn' = [conn EXCEPT ![c] = ToolResultEvents(q, evicted)]
  BY DEF ReceivePostToolUse
<1>2. CASE evicted = {}
  BY <1>1, <1>2 DEF ToolResultEvents
<1>3. CASE evicted # {}
  <2> DEFINE r == CHOOSE x \in evicted : TRUE
  <2>1. Owner[q] # NoSession /\ evicted = Oldest(same)
    BY <1>3 DEF Answered
  <2>2. r \in evicted /\ r \in same /\ r \in parked
    BY <1>3, <2>1 DEF Oldest
  <2>3. evicted = {r}
    <3>1. ASSUME NEW x \in evicted PROVE x = r
      BY <2>1, <2>2, <3>1 DEF Oldest, Queue
    <3> QED
      BY <2>2, <3>1
  <2>4. ToolResultEvents(q, evicted) = <<ExpiredEvent(r), PostToolUse(q)>>
    BY <1>3 DEF ToolResultEvents
  <2>5. ReqKind[r] # "opencode" /\ SameCall(r, q)
    BY <2>2 DEF VerdictInv, TypeOK, SameCall
  <2> HIDE DEF r, evicted
  <2> QED
    BY <1>1, <2>1, <2>2, <2>3, <2>4, <2>5 DEF SameCall
<1> QED
  BY <1>2, <1>3

-----------------------------------------------------------------------------
(* Traffic stays what it is said to be.                                     *)
LEMMA TrafficInit == Init => Traffic
BY DEF Init, Traffic, ConnShape, SinkShape, InLine, NoDrain

\* A connection task stays at one of the places of its program.
LEMMA ConnStep ==
    TypeOK /\ VerdictInv /\ Queue /\ Traffic /\ [Next]_vars => \A c \in Conn : ConnShape(c)'
<1> SUFFICES ASSUME TypeOK, VerdictInv, Queue, Traffic, [Next]_vars, NEW d \in Conn
             PROVE  ConnShape(d)'
  OBVIOUS
<1>0. ConnShape(d) /\ conn \in [Conn -> Seq(Event)]
  BY DEF Traffic, TypeOK
<1>1. ASSUME conn'[d] = conn[d] PROVE ConnShape(d)'
  BY <1>0, <1>1 DEF ConnShape, RequestFrom, ExpiryFrom, ResultFrom
<1>2. ASSUME NEW c \in Conn, Forward(c) PROVE ConnShape(d)'
  BY <1>0, <1>1, <1>2, ForwardCases DEF ConnShape, ResultFrom
<1>3. ASSUME NEW c \in Conn, NEW r \in Request, ReceivePermissionRequest(c, r)
      PROVE  ConnShape(d)'
  BY <1>0, <1>1, <1>3 DEF ReceivePermissionRequest, ConnShape, RequestFrom
<1>4. ASSUME NEW c \in Conn, NEW q \in Request, ReceivePostToolUse(c, q) PROVE ConnShape(d)'
  <2>1. CASE conn' = [conn EXCEPT ![c] = <<PostToolUse(q)>>]
    BY <1>0, <1>1, <2>1 DEF ConnShape, ResultFrom
  <2>2. ASSUME NEW r \in parked, SameCall(r, q), ReqKind[r] # "opencode",
               conn' = [conn EXCEPT ![c] = <<ExpiredEvent(r), PostToolUse(q)>>]
        PROVE  ConnShape(d)'
    <3>1. r \in Request
      BY DEF TypeOK
    <3> QED
      BY <1>0, <1>1, <2>2, <3>1 DEF ConnShape, ExpiryFrom
  <2> QED
    BY <1>4, <2>1, <2>2, ResultCases
<1>5. ASSUME NEW c \in Conn, NEW ev \in PlainEvents, ReceiveHook(c, ev) PROVE ConnShape(d)'
  BY <1>0, <1>1, <1>5 DEF ReceiveHook, ConnShape
<1>6. CASE UNCHANGED vars
  BY <1>1, <1>6 DEF vars, socket
<1>7. CASE Server
  BY <1>1, <1>2, <1>7 DEF Server, Sweep, SendExpiry, ForwardSink, socket
<1>8. CASE Drain
  BY <1>1, <1>8 DEF Drain, DrainTake, DrainRoute, DrainEmit, socket
<1>9. CASE Reply
  BY <1>1, <1>9
  DEF Reply, ReplyHttp, ReplyHook, ReplyCheck, ReplyDemote, ReplyResolve, socket
<1>10. CASE Harness
  BY <1>1, <1>3, <1>4, <1>5, <1>10 DEF Harness, ClientGivesUp, OpenCodeAsks, OpenCodeAnswered, socket
<1>11. CASE User
  BY <1>1, <1>11 DEF User, Click, Submit, Abort, DropSession, Remove, AnnounceRemoved, socket
<1>12. CASE Silence
  BY <1>1, <1>12 DEF Silence, Tick, socket
<1> QED
  BY <1>6, <1>7, <1>8, <1>9, <1>10, <1>11, <1>12 DEF Next

\* A session's sink keeps to the asking and answering of its own requests.
LEMMA SinkStep == TypeOK /\ VerdictInv /\ Traffic /\ [Next]_vars => \A s \in Session : SinkShape(s)'
<1> SUFFICES ASSUME TypeOK, VerdictInv, Traffic, [Next]_vars, NEW t \in Session PROVE SinkShape(t)'
  OBVIOUS
<1>0. SinkShape(t) /\ sink \in [Session -> Seq(Event)]
  BY DEF Traffic, TypeOK
<1>1. ASSUME sink'[t] = sink[t] PROVE SinkShape(t)'
  BY <1>0, <1>1 DEF SinkShape
<1>2. ASSUME NEW r \in Request, Owner[r] \in Session, ReqKind[r] = "opencode",
             NEW ev \in Event, ev \in {RequestEvent(r, "opencode-sse"), RepliedEvent(r)},
             Emit(Owner[r], ev)
      PROVE  SinkShape(t)'
  <2>1. CASE sink' = sink
    BY <1>1, <2>1
  <2>2. CASE t = Owner[r] /\ sink' # sink
    <3>1. /\ Len(sink[t]) \in Nat /\ Len(sink'[t]) = Len(sink[t]) + 1
          /\ \A i \in 1..Len(sink[t]) : sink'[t][i] = sink[t][i]
          /\ sink'[t][Len(sink[t]) + 1] = ev
      BY <1>2, <2>2, SinkPut
    <3>2. ASSUME NEW i \in 1..Len(sink'[t])
          PROVE  \E x \in Request : /\ Owner[x] = t /\ ReqKind[x] = "opencode"
                                    /\ sink'[t][i] \in {RequestEvent(x, "opencode-sse"), RepliedEvent(x)}
      <4>1. CASE i \in 1..Len(sink[t])
        BY <1>0, <3>1, <4>1 DEF SinkShape
      <4>2. CASE i = Len(sink[t]) + 1
        BY <1>2, <2>2, <3>1, <4>2
      <4> QED
        BY <3>1, <4>1, <4>2
    <3> QED
      BY <3>2 DEF SinkShape
  <2>3. CASE t # Owner[r] /\ sink' # sink
    BY <1>1, <1>2, <2>3, SinkPut
  <2> QED
    BY <2>1, <2>2, <2>3
<1>3. ASSUME NEW s \in Session, ForwardSink(s) PROVE SinkShape(t)'
  BY <1>0, <1>1, <1>3, SinkTake DEF SinkShape
<1>4. ASSUME NEW r \in Request, ReplyHttp(r) PROVE SinkShape(t)'
  <2>1. CASE r \in oc_open /\ Emit(Owner[r], RepliedEvent(r))
    <3>1. Owner[r] \in Session /\ ReqKind[r] = "opencode" /\ RepliedEvent(r) \in Event
      BY <1>4, <2>1, EventType DEF ReplyHttp, HasReplier, TypeOK, VerdictInv
    <3> QED
      BY <1>2, <2>1, <3>1
  <2> QED
    BY <1>1, <1>4, <2>1 DEF ReplyHttp, opencode
<1>5. ASSUME NEW r \in Request, OpenCodeAsks(r) PROVE SinkShape(t)'
  <2>1. /\ Owner[r] \in Session /\ ReqKind[r] = "opencode"
        /\ RequestEvent(r, "opencode-sse") \in Event
    BY <1>5, EventType DEF OpenCodeAsks, TypeOK, SourceTag
  <2> QED
    BY <1>2, <1>5, <2>1 DEF OpenCodeAsks
<1>6. ASSUME NEW r \in Request, OpenCodeAnswered(r) PROVE SinkShape(t)'
  <2>1. Owner[r] \in Session /\ ReqKind[r] = "opencode" /\ RepliedEvent(r) \in Event
    BY <1>6, EventType DEF OpenCodeAnswered, TypeOK, VerdictInv
  <2> QED
    BY <1>2, <1>6, <2>1 DEF OpenCodeAnswered
<1>7. ASSUME NEW s \in Session, Remove(s) PROVE SinkShape(t)'
  <2>1. CASE t = s
    <3>1. sink'[t] = <<>>
      BY <1>0, <1>7, <2>1 DEF Remove
    <3> QED
      BY <3>1 DEF SinkShape
  <2> QED
    BY <1>0, <1>1, <1>7, <2>1 DEF Remove
<1>8. CASE UNCHANGED vars
  BY <1>1, <1>8 DEF vars, opencode
<1>9. CASE Server
  BY <1>1, <1>3, <1>9 DEF Server, Forward, Sweep, SendExpiry, opencode
<1>10. CASE Drain
  BY <1>1, <1>10 DEF Drain, DrainTake, DrainRoute, DrainEmit, opencode
<1>11. CASE Reply
  BY <1>1, <1>4, <1>11 DEF Reply, ReplyHook, ReplyCheck, ReplyDemote, ReplyResolve, opencode
<1>12. CASE Harness
  BY <1>1, <1>5, <1>6, <1>12
  DEF Harness, ReceivePermissionRequest, ReceivePostToolUse, ReceiveHook, ClientGivesUp, opencode
<1>13. CASE User
  BY <1>1, <1>7, <1>13 DEF User, Click, Submit, Abort, DropSession, AnnounceRemoved, opencode
<1>14. CASE Silence
  BY <1>1, <1>14 DEF Silence, Tick, opencode
<1> QED
  BY <1>8, <1>9, <1>10, <1>11, <1>12, <1>13, <1>14 DEF Next

(* What a forwarder forwards. *)
LEMMA SinkCases ==
    ASSUME TypeOK, Traffic, NEW s \in Session, ForwardSink(s)
    PROVE  \E r \in Request :
               /\ Owner[r] = s /\ ReqKind[r] = "opencode"
               /\ sink[s][1] \in {RequestEvent(r, "opencode-sse"), RepliedEvent(r)}
               /\ channel' = Append(channel, sink[s][1])
<1>1. 1 \in 1..Len(sink[s]) /\ channel' = Append(channel, sink[s][1])
  BY SinkTake
<1> QED
  BY <1>1 DEF Traffic, SinkShape

(* The steps that move the line; all others leave it alone. *)
LEMMA LineCases ==
    ASSUME [Next]_vars
    PROVE  \/ channel' = channel /\ drain' = drain
           \/ \E c \in Conn : Forward(c)
           \/ \E r \in Request : SendExpiry(r)
           \/ \E s \in Session : ForwardSink(s)
           \/ DrainTake \/ DrainRoute \/ DrainEmit
<1>1. CASE UNCHANGED vars
  BY <1>1 DEF vars
<1>2. CASE Server
  BY <1>2 DEF Server, Sweep
<1>3. CASE Drain
  BY <1>3 DEF Drain
<1>4. CASE Reply
  BY <1>4 DEF Reply, ReplyHttp, ReplyHook, ReplyCheck, ReplyDemote, ReplyResolve
<1>5. CASE Harness
  BY <1>5
  DEF Harness, ReceivePermissionRequest, ReceivePostToolUse, ReceiveHook, ClientGivesUp,
      OpenCodeAsks, OpenCodeAnswered
<1>6. CASE User
  BY <1>6 DEF User, Click, Submit, Abort, DropSession, Remove, AnnounceRemoved
<1>7. CASE Silence
  BY <1>7 DEF Silence, Tick
<1> QED
  BY <1>1, <1>2, <1>3, <1>4, <1>5, <1>6, <1>7 DEF Next

(* What a step puts at the end of the line. *)
LEMMA PushProper ==
    ASSUME TypeOK, Traffic
    PROVE  /\ \A c \in Conn : Forward(c) =>
                  \E ev : Proper(ev) /\ channel' = Append(channel, ev) /\ drain' = drain
           /\ \A r \in Request : SendExpiry(r) =>
                  \E ev : Proper(ev) /\ channel' = Append(channel, ev) /\ drain' = drain
           /\ \A s \in Session : ForwardSink(s) =>
                  \E ev : Proper(ev) /\ channel' = Append(channel, ev) /\ drain' = drain
<1>1. ASSUME NEW c \in Conn, Forward(c)
      PROVE  \E ev : Proper(ev) /\ channel' = Append(channel, ev) /\ drain' = drain
  <2>1. drain' = drain
    BY <1>1 DEF Forward
  <2>2. "hook" \in SourceTag
    BY DEF SourceTag
  <2>3. \E ev : Proper(ev) /\ channel' = Append(channel, ev)
    <3>1. ASSUME NEW r \in Request
          PROVE  Proper(RequestEvent(r, "hook")) /\ Proper(ExpiredEvent(r)) /\ Proper(PostToolUse(r))
      BY <2>2, EventsProper
    <3>2. ASSUME NEW ev \in PlainEvents PROVE Proper(ev)
      BY PlainAssumption, FlowAssumption DEF Proper, FlowAssumption
    <3> QED
      BY <1>1, <3>1, <3>2, ForwardCases
  <2> QED
    BY <2>1, <2>3
<1>2. ASSUME NEW r \in Request, SendExpiry(r)
      PROVE  \E ev : Proper(ev) /\ channel' = Append(channel, ev) /\ drain' = drain
  BY <1>2, EventsProper DEF SendExpiry
<1>3. ASSUME NEW s \in Session, ForwardSink(s)
      PROVE  \E ev : Proper(ev) /\ channel' = Append(channel, ev) /\ drain' = drain
  <2>1. drain' = drain /\ "opencode-sse" \in SourceTag
    BY <1>3 DEF ForwardSink, SourceTag
  <2> QED
    BY <1>3, <2>1, SinkCases, EventsProper
<1> QED
  BY <1>1, <1>2, <1>3

\* What travels between harness and drain loop stays of the shapes listed.
LEMMA TrafficStep == TypeOK /\ VerdictInv /\ Queue /\ Traffic /\ [Next]_vars => Traffic'
<1> SUFFICES ASSUME TypeOK, VerdictInv, Queue, Traffic, [Next]_vars PROVE Traffic'
  OBVIOUS
<1> DEFINE LineShape == /\ \A i \in InLine : Proper(At(i))
                        /\ drain.pc = "emit" =>
                               drain.ev.event \in {"PermissionRequest", "PermissionExpired"}
<1>1. LineShape
  BY DEF Traffic
<1>2. LineShape'
  <2>1. CASE channel' = channel /\ drain' = drain
    <3>1. InLine' = InLine /\ \A i : At(i)' = At(i)
      BY <2>1, LineSame
    <3> QED
      BY <1>1, <2>1, <3>1 DEF Proper
  <2>2. ASSUME NEW ev, Proper(ev), channel' = Append(channel, ev), drain' = drain
        PROVE  LineShape'
    <3>1. \A i \in InLine' : Proper(At(i))'
      BY <1>1, <2>2, LinePush DEF Proper
    <3> QED
      BY <1>1, <2>2, <3>1
  <2>3. CASE DrainTake
    <3>1. \A i \in InLine' : Proper(At(i))'
      BY <1>1, <2>3, LineTake DEF Proper
    <3> QED
      BY <2>3, <3>1, LineTake
  <2>4. CASE DrainRoute
    <3>1. \A i \in InLine' : Proper(At(i))'
      BY <1>1, <2>4, LineRoute DEF Proper
    <3>2. drain'.pc = "emit" => drain'.ev = drain.ev
      BY <2>4, LineRoute DEF At
    <3> QED
      BY <2>4, <3>1, <3>2, LineRoute
  <2>5. CASE DrainEmit
    <3>1. \A i \in InLine' : Proper(At(i))'
      BY <1>1, <2>5, LineEmit DEF Proper
    <3> QED
      BY <2>5, <3>1, LineEmit
  <2> QED
    BY <2>1, <2>2, <2>3, <2>4, <2>5, LineCases, PushProper
<1> QED
  BY <1>2, ConnStep, SinkStep DEF Traffic

-----------------------------------------------------------------------------
(* Requests are announced once.                                             *)

\* The places in line are natural numbers.
LEMMA InLineNat == TypeOK => InLine \subseteq Nat
BY DEF TypeOK, InLine

(* Steps after which r is at no place it was not at before. *)
ConnFewer(r) == \A c \in Conn : RequestFrom(c, r)' => RequestFrom(c, r)

SinkFewer(r) ==
    \A s \in Session : \E k \in {0, 1} : \A i \in 1..Len(sink'[s]) :
        IsRequest(sink'[s][i], r) => i + k \in 1..Len(sink[s]) /\ IsRequest(sink[s][i + k], r)

LineFewer(r) ==
    \E k \in {0, 1} : \A i \in InLine' :
        IsRequest(At(i)', r) => i + k \in InLine /\ IsRequest(At(i + k), r)

\* Where no new copy of a request is made, one that is announced stays so, in one place.
LEMMA Fewer ==
    ASSUME TypeOK, TypeOK', NEW r \in Request, Announced(r), OnePlace(r),
           r \in shown' <=> r \in shown, asked \subseteq asked',
           ConnFewer(r), SinkFewer(r), LineFewer(r)
    PROVE  Announced(r)' /\ OnePlace(r)'
<1>1. InLine' \subseteq Nat
  BY DEF TypeOK, InLine
<1>2. OnLine(r)' => OnLine(r)
  BY DEF LineFewer, OnLine
<1>3. InSink(r)' => InSink(r)
  BY DEF SinkFewer, InSink
<1>4. OnItsWay(r)' => OnItsWay(r)
  BY <1>2, <1>3 DEF ConnFewer, OnItsWay
<1>5. Announced(r)'
  BY <1>4 DEF Announced
<1>6. \A i, j \in InLine' : IsRequest(At(i)', r) /\ IsRequest(At(j)', r) => i = j
  BY <1>1 DEF LineFewer, OnePlace
<1>7. ASSUME NEW s \in Session, NEW i \in 1..Len(sink'[s]), NEW j \in 1..Len(sink'[s]),
             IsRequest(sink'[s][i], r), IsRequest(sink'[s][j], r)
      PROVE  i = j
  BY <1>7 DEF SinkFewer, OnePlace
<1>8. OnePlace(r)'
  BY <1>2, <1>3, <1>6, <1>7 DEF OnePlace, ConnFewer
<1> QED
  BY <1>5, <1>8

\* The drain loop, and an event that is not the request, make no new copy in line.
LEMMA LineFewerCases ==
    ASSUME TypeOK, NEW r \in Request
    PROVE  /\ channel' = channel /\ drain' = drain => LineFewer(r)
           /\ DrainTake \/ DrainRoute \/ DrainEmit => LineFewer(r)
           /\ \A ev : ~IsRequest(ev, r) /\ channel' = Append(channel, ev) /\ drain' = drain =>
                  LineFewer(r)
<1>0. InLine \subseteq Nat
  BY InLineNat
<1>1. ASSUME \A i \in InLine' : IsRequest(At(i)', r) => i \in InLine /\ IsRequest(At(i), r)
      PROVE  LineFewer(r)
  <2>1. ASSUME NEW i \in InLine', IsRequest(At(i)', r)
        PROVE  i + 0 \in InLine /\ IsRequest(At(i + 0), r)
    <3>1. i \in InLine /\ IsRequest(At(i), r)
      BY <1>1, <2>1
    <3>2. i + 0 = i
      BY <1>0, <3>1
    <3> QED
      BY <3>1, <3>2, Zenon
  <2>2. 0 \in {0, 1}
    OBVIOUS
  <2> QED
    BY <2>1, <2>2, Zenon DEF LineFewer
<1>2. channel' = channel /\ drain' = drain => LineFewer(r)
  BY <1>1, LineSame
<1>3. DrainTake => LineFewer(r)
  BY LineTake DEF LineFewer
<1>4. DrainRoute \/ DrainEmit => LineFewer(r)
  BY <1>1, LineRoute, LineEmit
<1>5. ASSUME NEW ev, ~IsRequest(ev, r), channel' = Append(channel, ev), drain' = drain
      PROVE  LineFewer(r)
  BY <1>1, <1>5, LinePush
<1> QED
  BY <1>2, <1>3, <1>4, <1>5

\* Forwarding and removal, and an event that is not the request, make no new copy in a sink.
LEMMA SinkFewerCases ==
    ASSUME TypeOK, NEW r \in Request
    PROVE  /\ sink' = sink => SinkFewer(r)
           /\ \A s \in Session : ForwardSink(s) \/ Remove(s) => SinkFewer(r)
           /\ \A s \in Session, ev \in Event : ~IsRequest(ev, r) /\ Emit(s, ev) => SinkFewer(r)
<1>0. sink \in [Session -> Seq(Event)]
  BY DEF TypeOK
<1>1. ASSUME NEW t \in Session,
             \A i \in 1..Len(sink'[t]) :
                 IsRequest(sink'[t][i], r) => i \in 1..Len(sink[t]) /\ IsRequest(sink[t][i], r)
      PROVE  \E k \in {0, 1} : \A i \in 1..Len(sink'[t]) :
                 IsRequest(sink'[t][i], r) =>
                     i + k \in 1..Len(sink[t]) /\ IsRequest(sink[t][i + k], r)
  <2>1. \A i \in 1..Len(sink'[t]) :
            IsRequest(sink'[t][i], r) => i + 0 \in 1..Len(sink[t]) /\ IsRequest(sink[t][i + 0], r)
    BY <1>1
  <2> QED
    BY <2>1
<1>2. sink' = sink => SinkFewer(r)
  BY <1>1 DEF SinkFewer
<1>3. ASSUME NEW s \in Session, ForwardSink(s) PROVE SinkFewer(r)
  BY <1>1, <1>3, SinkTake DEF SinkFewer
<1>4. ASSUME NEW s \in Session, Remove(s) PROVE SinkFewer(r)
  <2>1. sink'[s] = <<>> /\ \A t \in Session \ {s} : sink'[t] = sink[t]
    BY <1>0, <1>4 DEF Remove
  <2> QED
    BY <1>1, <2>1 DEF SinkFewer
<1>5. ASSUME NEW s \in Session, NEW ev \in Event, ~IsRequest(ev, r), Emit(s, ev)
      PROVE  SinkFewer(r)
  BY <1>1, <1>2, <1>5, SinkPut DEF SinkFewer
<1> QED
  BY <1>2, <1>3, <1>4, <1>5

(* Where requests come from says where they are not. *)
LEMMA TwoWays ==
    ASSUME Traffic, NEW r \in Request
    PROVE  /\ \A c \in Conn : RequestFrom(c, r) => ReqKind[r] # "opencode"
           /\ InSink(r) => ReqKind[r] = "opencode"
           /\ \A s \in Session : \A i \in 1..Len(sink[s]) :
                  IsRequest(sink[s][i], r) => s = Owner[r]
<1>1. ASSUME NEW c \in Conn, RequestFrom(c, r) PROVE ReqKind[r] # "opencode"
  <2>1. ConnShape(c) /\ conn[c] = <<RequestEvent(r, "hook")>>
    BY <1>1 DEF Traffic, RequestFrom
  <2>2. /\ conn[c] # <<>> /\ \A x, q \in Request : ~ExpiryFrom(c, x, q) /\ ~ResultFrom(c, q)
        /\ \A ev \in PlainEvents : conn[c] # <<ev>>
        /\ \A x \in Request : RequestFrom(c, x) => x = r
    BY <2>1, ConnForms DEF RequestFrom, ExpiryFrom, ResultFrom
  <2> QED
    BY <2>1, <2>2 DEF ConnShape
<1>2. ASSUME NEW s \in Session, NEW i \in 1..Len(sink[s]), IsRequest(sink[s][i], r)
      PROVE  ReqKind[r] = "opencode" /\ s = Owner[r]
  <2>1. PICK x \in Request : /\ Owner[x] = s /\ ReqKind[x] = "opencode"
                             /\ sink[s][i] \in {RequestEvent(x, "opencode-sse"), RepliedEvent(x)}
    BY DEF Traffic, SinkShape
  <2>2. "opencode-sse" \in SourceTag
    BY DEF SourceTag
  <2> QED
    BY <1>2, <2>1, <2>2, EventFacts
<1> QED
  BY <1>1, <1>2 DEF InSink

(* A connection's queue changes to one without a request for r. *)
LEMMA ConnFewerCases ==
    ASSUME TypeOK, NEW r \in Request
    PROVE  /\ conn' = conn => ConnFewer(r)
           /\ \A c \in Conn : \A v : conn' = [conn EXCEPT ![c] = v] /\ v # <<RequestEvent(r, "hook")>> =>
                  ConnFewer(r) /\ ~RequestFrom(c, r)'
BY DEF TypeOK, ConnFewer, RequestFrom

(* A request moves from a connection or a sink to the end of the line. *)
LEMMA Moved ==
    ASSUME TypeOK, NEW r \in Request, Announced(r), OnePlace(r), ~OnLine(r), OnItsWay(r),
           NEW ev, channel' = Append(channel, ev), drain' = drain,
           \A c \in Conn : ~RequestFrom(c, r)', ~InSink(r)',
           r \in shown' <=> r \in shown, asked \subseteq asked'
    PROVE  Announced(r)' /\ OnePlace(r)'
<1>1. \E n \in Nat : \A i \in InLine' : IsRequest(At(i)', r) => i = n
  BY LinePush DEF OnLine
<1>2. r \in asked' /\ r \notin shown'
  BY DEF Announced
<1> QED
  BY <1>1, <1>2 DEF Announced, OnePlace, InSink

\* Forwarding from a connection moves a request and does not double it.
LEMMA ForwardAnnounces ==
    ASSUME TypeOK, TypeOK', Traffic, NEW r \in Request, Announced(r), OnePlace(r),
           NEW c \in Conn, Forward(c)
    PROVE  Announced(r)' /\ OnePlace(r)'
<1>1. drain' = drain /\ shown' = shown /\ asked' = asked /\ sink' = sink
  BY DEF Forward, webview, world, opencode
<1>2. "hook" \in SourceTag
  BY DEF SourceTag
<1>3. CASE RequestFrom(c, r)
  <2>1. ~OnLine(r) /\ OnItsWay(r) /\ \A d \in Conn \ {c} : ~RequestFrom(d, r)
    BY <1>3 DEF OnePlace, OnItsWay
  <2>2. ~InSink(r)'
    BY <1>1, <1>3, TwoWays DEF InSink
  <2>3. channel' = Append(channel, Head(conn[c])) /\ conn' = [conn EXCEPT ![c] = <<>>]
    BY <1>3, OneEvent DEF RequestFrom, Forward
  <2>4. \A d \in Conn : ~RequestFrom(d, r)'
    BY <2>1, <2>3, ConnForms, ConnFewerCases DEF ConnFewer
  <2> QED
    BY <1>1, <2>1, <2>2, <2>3, <2>4, Moved
<1>4. CASE ~RequestFrom(c, r)
  <2>1. PICK ev, v : /\ channel' = Append(channel, ev) /\ ~IsRequest(ev, r)
                     /\ conn' = [conn EXCEPT ![c] = v] /\ v # <<RequestEvent(r, "hook")>>
    <3>1. ASSUME NEW x \in Request, x # r
          PROVE  ~IsRequest(RequestEvent(x, "hook"), r)
      BY <1>2, <3>1, EventFacts
    <3>2. ASSUME NEW x \in Request
          PROVE  /\ ~IsRequest(ExpiredEvent(x), r) /\ ~IsRequest(PostToolUse(x), r)
                 /\ <<>> # <<RequestEvent(r, "hook")>>
                 /\ <<PostToolUse(x)>> # <<RequestEvent(r, "hook")>>
      BY <1>2, EventFacts, OneEvent DEF RequestEvent, PostToolUse, HookEv
    <3>3. ASSUME NEW ev \in PlainEvents PROVE ~IsRequest(ev, r)
      BY PlainAssumption DEF IsRequest
    <3> QED
      BY <1>4, <3>1, <3>2, <3>3, ForwardCases
  <2> QED
    BY <1>1, <2>1, Fewer, LineFewerCases, SinkFewerCases, ConnFewerCases
<1> QED
  BY <1>3, <1>4

\* Forwarding from a sink moves a request and does not double it.
LEMMA SinkAnnounces ==
    ASSUME TypeOK, TypeOK', Traffic, NEW r \in Request, Announced(r), OnePlace(r),
           NEW s \in Session, ForwardSink(s)
    PROVE  Announced(r)' /\ OnePlace(r)'
<1>1. drain' = drain /\ shown' = shown /\ asked' = asked /\ conn' = conn
  BY DEF ForwardSink, webview, world, socket
<1>2. channel' = Append(channel, sink[s][1]) /\ 1 \in 1..Len(sink[s])
  BY SinkTake
<1>3. CASE IsRequest(sink[s][1], r)
  <2>1. InSink(r) /\ ~OnLine(r) /\ OnItsWay(r)
    BY <1>2, <1>3 DEF OnePlace, OnItsWay, InSink
  <2>2. \A c \in Conn : ~RequestFrom(c, r)'
    BY <1>1, <2>1, TwoWays DEF RequestFrom
  <2>3. ~InSink(r)'
    <3>1. s = Owner[r]
      BY <1>2, <1>3, TwoWays
    <3>2. ASSUME NEW i \in 1..Len(sink'[s]) PROVE ~IsRequest(sink'[s][i], r)
      <4>1. i \in Nat \ {0} /\ i + 1 \in 1..Len(sink[s]) /\ sink'[s][i] = sink[s][i + 1]
        BY SinkTake
      <4>2. i + 1 # 1
        BY <4>1
      <4> QED
        BY <1>2, <1>3, <4>1, <4>2 DEF OnePlace
    <3>3. ASSUME NEW t \in Session \ {s}, NEW i \in 1..Len(sink'[t])
          PROVE  ~IsRequest(sink'[t][i], r)
      <4>1. sink'[t] = sink[t]
        BY SinkTake
      <4> QED
        BY <3>1, <4>1, TwoWays
    <3> QED
      BY <3>2, <3>3 DEF InSink
  <2> QED
    BY <1>1, <1>2, <2>1, <2>2, <2>3, Moved
<1>4. CASE ~IsRequest(sink[s][1], r)
  BY <1>1, <1>2, <1>4, Fewer, LineFewerCases, SinkFewerCases, ConnFewerCases
<1> QED
  BY <1>3, <1>4

(* The drain loop announces the request it has in hand. *)
LEMMA EmitCases ==
    ASSUME TypeOK, Traffic, DrainEmit
    PROVE  \/ \E r \in Request : /\ IsRequest(At(0), r)
                                 /\ badges' = badges \cup {r} /\ shown' = shown \cup {r}
           \/ /\ drain.ev.event = "PermissionExpired" /\ shown' = shown
              /\ badges' = badges \ ({drain.ev.request_id} \cap Request)
<1>1. 0 \in InLine /\ drain.pc = "emit" /\ At(0) = drain.ev
  BY LineEmit DEF At
<1>2. /\ Proper(drain.ev)
      /\ drain.ev.event \in {"PermissionRequest", "PermissionExpired"}
  BY <1>1 DEF Traffic
<1>3. CASE drain.ev.event = "PermissionExpired"
  BY <1>3 DEF DrainEmit
<1>4. CASE drain.ev.event = "PermissionRequest"
  <2>1. PICK r \in Request : IsRequest(drain.ev, r)
    BY <1>2, <1>4 DEF Proper
  <2>2. {drain.ev.request_id} \cap Request = {r}
    BY <2>1 DEF IsRequest
  <2> QED
    BY <1>1, <1>4, <2>1, <2>2 DEF DrainEmit
<1> QED
  BY <1>2, <1>3, <1>4

\* The emit of a request shows its badge, which then stands for it.
LEMMA EmitAnnounces ==
    ASSUME TypeOK, TypeOK', Traffic, NEW r \in Request, Announced(r), OnePlace(r), DrainEmit
    PROVE  Announced(r)' /\ OnePlace(r)'
<1>1. asked' = asked /\ sink' = sink /\ conn' = conn
  BY DEF DrainEmit, socket, opencode, world
<1>2. CASE r \in shown' <=> r \in shown
  BY <1>1, <1>2, Fewer, LineFewerCases, SinkFewerCases, ConnFewerCases
<1>3. CASE ~(r \in shown' <=> r \in shown)
  <2>1. r \in shown' /\ IsRequest(At(0), r)
    BY <1>3, EmitCases DEF IsRequest
  <2>2. OnLine(r) /\ OnItsWay(r)
    BY <2>1, LineEmit DEF OnLine, OnItsWay
  <2>3. ~OnLine(r)'
    BY <2>1, LineEmit DEF OnePlace, OnLine
  <2>4. ~InSink(r)' /\ \A c \in Conn : ~RequestFrom(c, r)'
    BY <1>1, <2>2 DEF OnePlace, InSink, RequestFrom
  <2>5. \A i, j \in InLine' : IsRequest(At(i)', r) /\ IsRequest(At(j)', r) => i = j
    BY <2>3 DEF OnLine
  <2>6. r \in asked'
    BY <1>1, <2>2 DEF Announced
  <2> QED
    BY <2>1, <2>3, <2>4, <2>5, <2>6 DEF Announced, OnePlace, OnItsWay, InSink
<1> QED
  BY <1>2, <1>3

(* A request that has just been made is nowhere else. *)
LEMMA AskedAnnounces ==
    ASSUME TypeOK, TypeOK', Traffic, NEW r \in Request, Announced(r), OnePlace(r), r \notin asked
    PROVE  /\ \A c \in Conn : ReceivePermissionRequest(c, r) => Announced(r)' /\ OnePlace(r)'
           /\ OpenCodeAsks(r) => Announced(r)' /\ OnePlace(r)'
<1>1. /\ ~OnLine(r) /\ ~InSink(r) /\ \A c \in Conn : ~RequestFrom(c, r)
      /\ r \notin shown
  BY DEF Announced, OnItsWay
<1>2. ASSUME channel' = channel, drain' = drain
      PROVE  ~OnLine(r)'
  BY <1>1, <1>2, LineSame DEF OnLine
<1>3. ASSUME NEW c \in Conn, ReceivePermissionRequest(c, r) PROVE Announced(r)' /\ OnePlace(r)'
  <2>1. /\ channel' = channel /\ drain' = drain /\ sink' = sink /\ shown' = shown
        /\ r \in asked' /\ conn' = [conn EXCEPT ![c] = <<RequestEvent(r, "hook")>>]
    BY <1>3 DEF ReceivePermissionRequest, opencode, webview
  <2>2. \A d \in Conn : RequestFrom(d, r)' => d = c
    BY <1>1, <2>1 DEF RequestFrom, TypeOK
  <2>3. ~OnLine(r)' /\ ~InSink(r)'
    BY <1>1, <1>2, <2>1 DEF InSink
  <2> QED
    BY <1>1, <2>1, <2>2, <2>3 DEF Announced, OnePlace, OnLine, InSink
<1>4. ASSUME OpenCodeAsks(r) PROVE Announced(r)' /\ OnePlace(r)'
  <2> DEFINE s == Owner[r]
  <2>1. /\ channel' = channel /\ drain' = drain /\ conn' = conn /\ shown' = shown
        /\ r \in asked' /\ Emit(s, RequestEvent(r, "opencode-sse"))
    BY <1>4 DEF OpenCodeAsks, socket, webview
  <2>2. s \in Session /\ RequestEvent(r, "opencode-sse") \in Event
    BY <1>4, EventType DEF OpenCodeAsks, TypeOK, SourceTag
  <2>3. ~OnLine(r)' /\ \A c \in Conn : ~RequestFrom(c, r)'
    BY <1>1, <1>2, <2>1 DEF RequestFrom
  <2>4. ASSUME NEW t \in Session
        PROVE  \A i, j \in 1..Len(sink'[t]) :
                   IsRequest(sink'[t][i], r) /\ IsRequest(sink'[t][j], r) => i = j
    <3>1. CASE sink' = sink
      BY <1>1, <3>1 DEF InSink
    <3>2. CASE sink' # sink
      <4>1. /\ Len(sink[s]) \in Nat /\ Len(sink'[s]) = Len(sink[s]) + 1
            /\ \A i \in 1..Len(sink[s]) : sink'[s][i] = sink[s][i]
            /\ \A u \in Session \ {s} : sink'[u] = sink[u]
        BY <2>1, <2>2, <3>2, SinkPut
      <4>2. \A i \in 1..Len(sink'[t]) : IsRequest(sink'[t][i], r) => t = s /\ i = Len(sink[s]) + 1
        BY <1>1, <2>2, <4>1 DEF InSink
      <4> QED
        BY <4>2
    <3> QED
      BY <3>1, <3>2
  <2> QED
    BY <1>1, <2>1, <2>3, <2>4 DEF Announced, OnePlace, OnLine
<1> QED
  BY <1>3, <1>4

(* Every request is announced once at most: the steps that move it, one by  *)
(* one, and then all others.                                                *)
LEMMA AnnouncedStep ==
    ASSUME TypeOK, TypeOK', VerdictInv, Queue, Traffic, [Next]_vars,
           NEW r \in Request, Announced(r), OnePlace(r)
    PROVE  Announced(r)' /\ OnePlace(r)'
<1> DEFINE Goal == Announced(r)' /\ OnePlace(r)'
<1>1. ASSUME channel' = channel, drain' = drain, shown' = shown, asked \subseteq asked',
             ConnFewer(r), SinkFewer(r)
      PROVE  Goal
  BY <1>1, Fewer, LineFewerCases
<1>2. ASSUME UNCHANGED <<conn, sink, channel, drain, shown, asked>> PROVE Goal
  BY <1>1, <1>2, ConnFewerCases, SinkFewerCases
<1>3. ASSUME NEW q \in Request, SendExpiry(q) PROVE Goal
  <2>1. /\ drain' = drain /\ shown' = shown /\ asked' = asked /\ sink' = sink /\ conn' = conn
        /\ channel' = Append(channel, ExpiredEvent(q))
    BY <1>3 DEF SendExpiry, webview, world, opencode
  <2>2. ~IsRequest(ExpiredEvent(q), r)
    BY EventFacts DEF SourceTag
  <2> QED
    BY <2>1, <2>2, Fewer, LineFewerCases, SinkFewerCases, ConnFewerCases
<1>4. CASE DrainTake \/ DrainRoute
  <2>1. shown' = shown /\ asked' = asked /\ sink' = sink /\ conn' = conn
    BY <1>4 DEF DrainTake, DrainRoute, webview, world, opencode, socket
  <2> QED
    BY <1>4, <2>1, Fewer, LineFewerCases, SinkFewerCases, ConnFewerCases
<1>5. ASSUME NEW q \in Request, Owner[q] \in Session, Emit(Owner[q], RepliedEvent(q)),
             UNCHANGED <<conn, channel, drain, shown, asked>>
      PROVE  Goal
  <2>1. RepliedEvent(q) \in Event
    BY <1>5, EventType
  <2>2. ~IsRequest(RepliedEvent(q), r)
    BY EventFacts DEF SourceTag
  <2> QED
    BY <1>1, <1>5, <2>1, <2>2, SinkFewerCases, ConnFewerCases
<1>6. ASSUME NEW c \in Conn, NEW q \in Request, ReceivePermissionRequest(c, q) PROVE Goal
  <2>1. /\ channel' = channel /\ drain' = drain /\ sink' = sink /\ shown' = shown
        /\ asked \subseteq asked' /\ conn' = [conn EXCEPT ![c] = <<RequestEvent(q, "hook")>>]
        /\ q \notin asked
    BY <1>6 DEF ReceivePermissionRequest, opencode, webview
  <2>2. CASE q = r
    BY <1>6, <2>1, <2>2, AskedAnnounces
  <2>3. CASE q # r
    <3>1. <<RequestEvent(q, "hook")>> # <<RequestEvent(r, "hook")>>
      BY <2>3, ConnForms
    <3> QED
      BY <1>1, <2>1, <3>1, SinkFewerCases, ConnFewerCases
  <2> QED
    BY <2>2, <2>3
<1>7. ASSUME NEW c \in Conn, NEW q \in Request, ReceivePostToolUse(c, q) PROVE Goal
  <2>1. channel' = channel /\ drain' = drain /\ sink' = sink /\ shown' = shown /\ asked' = asked
    BY <1>7 DEF ReceivePostToolUse, opencode, webview
  <2>2. \E v : conn' = [conn EXCEPT ![c] = v] /\ v # <<RequestEvent(r, "hook")>>
    <3>1. ASSUME NEW x \in parked
          PROVE  /\ <<ExpiredEvent(x), PostToolUse(q)>> # <<RequestEvent(r, "hook")>>
                 /\ <<PostToolUse(q)>> # <<RequestEvent(r, "hook")>>
      BY ConnForms DEF TypeOK
    <3>2. <<PostToolUse(q)>> # <<RequestEvent(r, "hook")>>
      BY ConnForms
    <3> QED
      BY <1>7, <3>1, <3>2, ResultCases
  <2> QED
    BY <1>1, <2>1, <2>2, SinkFewerCases, ConnFewerCases
<1>8. ASSUME NEW c \in Conn, NEW ev \in PlainEvents, ReceiveHook(c, ev) PROVE Goal
  <2>1. /\ channel' = channel /\ drain' = drain /\ sink' = sink /\ shown' = shown /\ asked' = asked
        /\ conn' = [conn EXCEPT ![c] = <<ev>>]
    BY <1>8 DEF ReceiveHook, opencode, webview
  <2>2. <<ev>> # <<RequestEvent(r, "hook")>>
    BY ConnForms
  <2> QED
    BY <1>1, <2>1, <2>2, SinkFewerCases, ConnFewerCases
<1>9. ASSUME NEW q \in Request, OpenCodeAsks(q) PROVE Goal
  <2>1. CASE q = r
    BY <1>9, <2>1, AskedAnnounces DEF OpenCodeAsks
  <2>2. CASE q # r
    <3>1. /\ channel' = channel /\ drain' = drain /\ conn' = conn /\ shown' = shown
          /\ asked \subseteq asked' /\ Emit(Owner[q], RequestEvent(q, "opencode-sse"))
      BY <1>9 DEF OpenCodeAsks, socket, webview
    <3>2. "opencode-sse" \in SourceTag
      BY DEF SourceTag
    <3>3. Owner[q] \in Session /\ RequestEvent(q, "opencode-sse") \in Event
      BY <1>9, <3>2, EventType DEF OpenCodeAsks, TypeOK
    <3>4. ~IsRequest(RequestEvent(q, "opencode-sse"), r)
      BY <2>2, <3>2, EventFacts
    <3> QED
      BY <1>1, <3>1, <3>3, <3>4, SinkFewerCases, ConnFewerCases
  <2> QED
    BY <2>1, <2>2
<1>10. ASSUME NEW q \in Request, OpenCodeAnswered(q) PROVE Goal
  BY <1>5, <1>10 DEF OpenCodeAnswered, TypeOK, socket, webview, world
<1>11. ASSUME NEW q \in Request, ReplyHttp(q) PROVE Goal
  <2>1. Owner[q] \in Session /\ UNCHANGED <<conn, channel, drain, shown, asked>>
    BY <1>11 DEF ReplyHttp, HasReplier, TypeOK, socket, webview, world
  <2>2. Emit(Owner[q], RepliedEvent(q)) \/ sink' = sink
    BY <1>11 DEF ReplyHttp, opencode
  <2> QED
    BY <1>2, <1>5, <2>1, <2>2
<1>12. ASSUME NEW s \in Session, Remove(s) PROVE Goal
  <2>1. channel' = channel /\ drain' = drain /\ conn' = conn /\ shown' = shown /\ asked' = asked
    BY <1>12 DEF Remove, socket, webview, world
  <2> QED
    BY <1>1, <1>12, <2>1, SinkFewerCases, ConnFewerCases
<1>13. CASE UNCHANGED vars
  BY <1>2, <1>13 DEF vars, socket, opencode, webview, world
<1>14. CASE Server
  BY <1>2, <1>3, <1>14, ForwardAnnounces, SinkAnnounces
  DEF Server, Sweep, opencode, webview, world
<1>15. CASE Drain
  BY <1>4, <1>15, EmitAnnounces DEF Drain
<1>16. CASE Reply
  BY <1>2, <1>11, <1>16
  DEF Reply, ReplyHook, ReplyCheck, ReplyDemote, ReplyResolve, socket, opencode, webview, world
<1>17. CASE Harness
  BY <1>2, <1>6, <1>7, <1>8, <1>9, <1>10, <1>17 DEF Harness, ClientGivesUp, opencode, webview, world
<1>18. CASE User
  BY <1>2, <1>12, <1>18
  DEF User, Click, Submit, Abort, DropSession, AnnounceRemoved, socket, opencode, webview, world
<1>19. CASE Silence
  BY <1>2, <1>19 DEF Silence, Tick, socket, opencode, webview, world
<1> QED
  BY <1>13, <1>14, <1>15, <1>16, <1>17, <1>18, <1>19 DEF Next

\* No request is announced at the start.
LEMMA AnnounceInit == Init => Announcements
BY DEF Init, Announcements, Announced, OnePlace, OnItsWay, OnLine, InSink, InLine, NoDrain, NoReply,
       RequestFrom

(* Only what has been shown can be on the rail, replied to or delivered. *)
LEMMA ShownFirst ==
    ASSUME TypeOK, Traffic, [Next]_vars, badges \subseteq shown,
           \A r \in Request : reply[r].pc # "idle" \/ "delivered" \in verdict[r] => r \in shown
    PROVE  /\ badges' \subseteq shown' /\ shown \subseteq shown'
           /\ \A r \in Request : reply'[r].pc # "idle" \/ "delivered" \in verdict'[r] => r \in shown'
<1> DEFINE Goal == /\ badges' \subseteq shown' /\ shown \subseteq shown'
                   /\ \A r \in Request :
                          reply'[r].pc # "idle" \/ "delivered" \in verdict'[r] => r \in shown'
<1>0. reply \in [Request -> ReplyTask] /\ verdict \in [Request -> SUBSET Verdict]
  BY DEF TypeOK
<1>1. ASSUME badges' \subseteq badges, shown' = shown,
             \A r \in Request : reply'[r].pc # "idle" => reply[r].pc # "idle",
             \A r \in Request : "delivered" \in verdict'[r] =>
                 "delivered" \in verdict[r] \/ reply[r].pc # "idle"
      PROVE  Goal
  BY <1>1
<1>2. ASSUME UNCHANGED <<badges, shown, reply>>, NEW rs, NEW v, v # "delivered", SetVerdict(rs, v)
      PROVE  Goal
  <2>1. \A r \in Request : "delivered" \in verdict'[r] => "delivered" \in verdict[r]
    BY <1>2 DEF SetVerdict
  <2> QED
    BY <1>1, <1>2, <2>1
<1>3. ASSUME UNCHANGED <<badges, shown, reply, verdict>> PROVE Goal
  BY <1>1, <1>3
<1>4. ASSUME NEW r \in Request, reply[r].pc # "idle", badges' \subseteq badges, shown' = shown,
             \/ verdict' = verdict
             \/ \E v \in Verdict : SetVerdict({r}, v),
             \/ \E pc \in {"idle", "sent", "check", "demote", "resolve"} : ReplyTo(r, pc)
             \/ Failed(r)
      PROVE  Goal
  <2>1. \A q \in Request \ {r} : reply'[q] = reply[q]
    BY <1>0, <1>4 DEF ReplyTo, Failed
  <2>2. \A q \in Request \ {r} : verdict'[q] = verdict[q]
    BY <1>0, <1>4 DEF SetVerdict
  <2> QED
    BY <1>1, <1>4, <2>1, <2>2
<1>5. CASE DrainEmit
  <2>1. reply' = reply /\ verdict' = verdict
    BY <1>5 DEF DrainEmit
  <2> QED
    BY <1>5, <2>1, EmitCases
<1>6. ASSUME NEW r \in Request, NEW from, Click(r, from) PROVE Goal
  <2>1. badges' = badges /\ shown' = shown /\ verdict' = verdict /\ r \in shown
    BY <1>6 DEF Click, webview
  <2>2. \A q \in Request \ {r} : reply'[q] = reply[q]
    BY <1>0, <1>6 DEF Click
  <2> QED
    BY <2>1, <2>2
<1>7. ASSUME NEW r \in Request, ReplyHttp(r) PROVE Goal
  <2>1. badges' = badges /\ shown' = shown /\ reply[r].pc # "idle"
    BY <1>7 DEF ReplyHttp, webview
  <2>2. verdict' = verdict \/ \E v \in Verdict : SetVerdict({r}, v)
    BY <1>7 DEF ReplyHttp, Verdict
  <2>3. ReplyTo(r, "demote") \/ Failed(r)
    BY <1>7 DEF ReplyHttp
  <2> QED
    BY <1>4, <2>1, <2>2, <2>3
<1>8. ASSUME NEW r \in Request, ReplyHook(r) PROVE Goal
  <2>1. badges' = badges /\ shown' = shown /\ reply[r].pc # "idle"
    BY <1>8 DEF ReplyHook, webview
  <2>2. verdict' = verdict \/ \E v \in Verdict : SetVerdict({r}, v)
    BY <1>8 DEF ReplyHook, Verdict
  <2>3. ReplyTo(r, "check") \/ ReplyTo(r, "resolve") \/ Failed(r)
    BY <1>8 DEF ReplyHook
  <2> QED
    BY <1>4, <2>1, <2>2, <2>3
<1>9. ASSUME NEW r \in Request, ReplyCheck(r) \/ ReplyDemote(r) PROVE Goal
  <2>1. badges' = badges /\ shown' = shown /\ verdict' = verdict /\ reply[r].pc # "idle"
    BY <1>9 DEF ReplyCheck, ReplyDemote, webview
  <2>2. ReplyTo(r, "demote") \/ ReplyTo(r, "resolve")
    BY <1>9 DEF ReplyCheck, ReplyDemote
  <2> QED
    BY <1>4, <2>1, <2>2
<1>10. ASSUME NEW r \in Request, ReplyResolve(r) PROVE Goal
  BY <1>4, <1>10 DEF ReplyResolve, Failed
<1>11. ASSUME NEW s \in Session, AnnounceRemoved(s) PROVE Goal
  BY <1>1, <1>11 DEF AnnounceRemoved, world
<1>12. CASE UNCHANGED vars
  BY <1>3, <1>12 DEF vars, webview
<1>13. CASE Server
  BY <1>2, <1>3, <1>13 DEF Server, Forward, Sweep, SendExpiry, ForwardSink, webview
<1>14. CASE Drain
  BY <1>3, <1>5, <1>14 DEF Drain, DrainTake, DrainRoute, webview
<1>15. CASE Reply
  BY <1>7, <1>8, <1>9, <1>10, <1>15 DEF Reply
<1>16. CASE Harness
  BY <1>2, <1>3, <1>16
  DEF Harness, ReceivePermissionRequest, ReceivePostToolUse, ReceiveHook, ClientGivesUp,
      OpenCodeAsks, OpenCodeAnswered, webview
<1>17. CASE User
  BY <1>2, <1>3, <1>6, <1>11, <1>17
  DEF User, Submit, Abort, DropSession, Remove, webview
<1>18. CASE Silence
  BY <1>3, <1>18 DEF Silence, Tick, webview
<1> QED
  BY <1>12, <1>13, <1>14, <1>15, <1>16, <1>17, <1>18 DEF Next

\* Every step keeps a request's announcement unique and ahead of its answers.
LEMMA AnnounceStep ==
    TypeOK /\ TypeOK' /\ VerdictInv /\ Queue /\ Traffic /\ Announcements /\ [Next]_vars
        => Announcements'
BY AnnouncedStep, ShownFirst DEF Announcements

-----------------------------------------------------------------------------
(* Every eviction and every sweep is announced behind the request itself.   *)

(* Nothing will ever ask for r again. *)
Clear(r) == ReqKind[r] # "opencode" /\ \A c \in Conn : ~RequestFrom(c, r)

\* The announcement of a forwarded request is on no connection.
LEMMA ForwardedClear ==
    ASSUME TypeOK, NEW r \in Request, Forwarded(r)
    PROVE  \A c \in Conn : ~RequestFrom(c, r)
<1> SUFFICES ASSUME NEW c \in Conn, RequestFrom(c, r) PROVE FALSE
  OBVIOUS
<1>1. 1 \in 1..Len(conn[c]) /\ conn[c][1] = RequestEvent(r, "hook")
  BY DEF RequestFrom
<1> QED
  BY <1>1 DEF Forwarded, RequestEvent, HookEv

(* Only its own task takes from a connection's queue. *)
LEMMA ConnKept ==
    ASSUME TypeOK, [Next]_vars, NEW c \in Conn, conn[c] # <<>>
    PROVE  conn'[c] = conn[c] \/ Forward(c)
<1>0. conn \in [Conn -> Seq(Event)]
  BY DEF TypeOK
<1>1. CASE UNCHANGED vars
  BY <1>1 DEF vars, socket
<1>2. CASE Server
  BY <1>0, <1>2 DEF Server, Forward, Sweep, SendExpiry, ForwardSink, socket
<1>3. CASE Drain
  BY <1>3 DEF Drain, DrainTake, DrainRoute, DrainEmit, socket
<1>4. CASE Reply
  BY <1>4 DEF Reply, ReplyHttp, ReplyHook, ReplyCheck, ReplyDemote, ReplyResolve, socket
<1>5. CASE Harness
  BY <1>0, <1>5
  DEF Harness, ReceivePermissionRequest, ReceivePostToolUse, ReceiveHook, ClientGivesUp,
      OpenCodeAsks, OpenCodeAnswered, socket
<1>6. CASE User
  BY <1>6 DEF User, Click, Submit, Abort, DropSession, Remove, AnnounceRemoved, socket
<1>7. CASE Silence
  BY <1>7 DEF Silence, Tick, socket
<1> QED
  BY <1>1, <1>2, <1>3, <1>4, <1>5, <1>6, <1>7 DEF Next

(* Steps of a request nobody asks for again put no request for it in line. *)
LEMMA ClearLine ==
    ASSUME TypeOK, Traffic, [Next]_vars, NEW r \in Request, Clear(r)
    PROVE  \/ channel' = channel /\ drain' = drain
           \/ \E ev : ~IsRequest(ev, r) /\ channel' = Append(channel, ev) /\ drain' = drain
           \/ DrainTake \/ DrainRoute \/ DrainEmit
<1> DEFINE Push == \E ev : ~IsRequest(ev, r) /\ channel' = Append(channel, ev) /\ drain' = drain
<1>1. ASSUME NEW c \in Conn, Forward(c) PROVE Push
  <2>1. drain' = drain
    BY <1>1 DEF Forward
  <2>2. ASSUME NEW x \in Request
        PROVE  /\ ~IsRequest(ExpiredEvent(x), r) /\ ~IsRequest(PostToolUse(x), r)
               /\ IsRequest(RequestEvent(x, "hook"), r) => x = r
    BY EventFacts DEF SourceTag
  <2>3. \A ev \in PlainEvents : ~IsRequest(ev, r)
    BY PlainAssumption DEF IsRequest
  <2> QED
    BY <1>1, <2>1, <2>2, <2>3, ForwardCases DEF Clear
<1>2. ASSUME NEW q \in Request, SendExpiry(q) PROVE Push
  <2>1. ~IsRequest(ExpiredEvent(q), r)
    BY EventFacts DEF SourceTag
  <2> QED
    BY <1>2, <2>1 DEF SendExpiry
<1>3. ASSUME NEW s \in Session, ForwardSink(s) PROVE Push
  <2>1. drain' = drain
    BY <1>3 DEF ForwardSink
  <2>2. 1 \in 1..Len(sink[s]) /\ channel' = Append(channel, sink[s][1])
    BY <1>3, SinkTake
  <2>3. ~IsRequest(sink[s][1], r)
    BY <2>2, TwoWays DEF Clear, InSink
  <2> QED
    BY <2>1, <2>2, <2>3
<1> QED
  BY <1>1, <1>2, <1>3, LineCases

(* A badge goes up with the request the drain loop announces. *)
LEMMA BadgeUp ==
    ASSUME TypeOK, Traffic, [Next]_vars, NEW r \in Request, r \in badges', r \notin badges
    PROVE  DrainEmit /\ IsRequest(At(0), r)
<1>1. DrainEmit
  <2>1. CASE UNCHANGED vars
    BY <2>1 DEF vars, webview
  <2>2. CASE Server
    BY <2>2 DEF Server, Forward, Sweep, SendExpiry, ForwardSink, webview
  <2>3. CASE Drain
    BY <2>3 DEF Drain, DrainTake, DrainRoute, webview
  <2>4. CASE Reply
    BY <2>4 DEF Reply, ReplyHttp, ReplyHook, ReplyCheck, ReplyDemote, ReplyResolve, webview
  <2>5. CASE Harness
    BY <2>5
    DEF Harness, ReceivePermissionRequest, ReceivePostToolUse, ReceiveHook, ClientGivesUp,
        OpenCodeAsks, OpenCodeAnswered, webview
  <2>6. CASE User
    BY <2>6 DEF User, Click, Submit, Abort, DropSession, Remove, AnnounceRemoved, webview
  <2>7. CASE Silence
    BY <2>7 DEF Silence, Tick, webview
  <2> QED
    BY <2>1, <2>2, <2>3, <2>4, <2>5, <2>6, <2>7 DEF Next
<1> QED
  BY <1>1, EmitCases

(* Once the last announcement of r is past, its badge stays down. *)
LEMMA StaysSettled ==
    ASSUME TypeOK, TypeOK', Traffic, [Next]_vars, NEW r \in Request, Clear(r), Settled(r)
    PROVE  Settled(r)'
<1>1. InLine \subseteq Nat /\ InLine' \subseteq Nat
  BY DEF TypeOK, InLine
<1>2. \A i \in InLine : ~IsRequest(At(i), r)
  BY <1>1 DEF Settled, NotBehind
<1>3. LineFewer(r)
  BY ClearLine, LineFewerCases
<1>4. \A i \in InLine' : ~IsRequest(At(i)', r)
  BY <1>2, <1>3 DEF LineFewer
<1>5. r \notin badges'
  BY <1>2, BadgeUp, LineEmit DEF Settled
<1> QED
  BY <1>4, <1>5 DEF Settled, NotBehind

(* The expiry of r keeps its place, with what is behind it, until it lands. *)
LEMMA ExpiryMoves ==
    ASSUME TypeOK, TypeOK', Traffic, [Next]_vars, NEW r \in Request, Clear(r),
           NEW i \in InLine, Expires(i, r)
    PROVE  \/ Settled(r)'
           \/ \E k \in {0, 1} :
                 /\ i - k \in InLine' /\ Expires(i - k, r)'
                 /\ \A j \in InLine : j > i => j - k \in InLine' /\ At(j - k)' = At(j)
<1>1. InLine \subseteq Nat /\ InLine' \subseteq Nat
  BY DEF TypeOK, InLine
<1>2. At(i) = ExpiredEvent(r) /\ \A j \in InLine : j >= i => ~IsRequest(At(j), r)
  BY DEF Expires, NotBehind
<1>3. ASSUME i \in InLine', \A j \in InLine : j >= i => j \in InLine' /\ At(j)' = At(j),
             \A j \in InLine' : j >= i => ~IsRequest(At(j)', r)
      PROVE  \E k \in {0, 1} :
                 /\ i - k \in InLine' /\ Expires(i - k, r)'
                 /\ \A j \in InLine : j > i => j - k \in InLine' /\ At(j - k)' = At(j)
  <2>1. i - 0 = i /\ \A j \in InLine : j - 0 = j
    BY <1>1
  <2>2. Expires(i, r)'
    BY <1>1, <1>2, <1>3 DEF Expires, NotBehind
  <2>3. \A j \in InLine : j > i => j >= i
    BY <1>1
  <2> QED
    BY <1>3, <2>1, <2>2, <2>3
<1>4. CASE channel' = channel /\ drain' = drain
  BY <1>2, <1>3, <1>4, LineSame
<1>5. ASSUME NEW ev, ~IsRequest(ev, r), channel' = Append(channel, ev), drain' = drain
      PROVE  \E k \in {0, 1} :
                 /\ i - k \in InLine' /\ Expires(i - k, r)'
                 /\ \A j \in InLine : j > i => j - k \in InLine' /\ At(j - k)' = At(j)
  BY <1>2, <1>3, <1>5, LinePush
<1>6. CASE DrainTake
  <2>1. i - 1 \in InLine' /\ At(i - 1)' = At(i)
    BY <1>6, LineTake
  <2>2. ASSUME NEW j \in InLine', j >= i - 1 PROVE ~IsRequest(At(j)', r)
    <3>1. j + 1 \in InLine /\ At(j)' = At(j + 1) /\ j + 1 >= i
      BY <1>1, <1>6, <2>2, LineTake
    <3> QED
      BY <1>2, <3>1
  <2>3. Expires(i - 1, r)'
    BY <1>2, <2>1, <2>2 DEF Expires, NotBehind
  <2>4. \A j \in InLine : j - 1 \in InLine' /\ At(j - 1)' = At(j)
    BY <1>6, LineTake
  <2> QED
    BY <2>1, <2>3, <2>4
<1>7. CASE DrainRoute
  <2>1. At(0) = ExpiredEvent(r) => drain.ev.event = "PermissionExpired"
    BY DEF At, ExpiredEvent, HookEv
  <2>2. i \in InLine' /\ \A j \in InLine : j >= i => j \in InLine' /\ At(j)' = At(j)
    BY <1>1, <1>2, <1>7, <2>1, LineRoute
  <2>3. \A j \in InLine' : j >= i => ~IsRequest(At(j)', r)
    BY <1>2, <1>7, <2>2, LineRoute
  <2> QED
    BY <1>3, <2>2, <2>3
<1>8. CASE DrainEmit
  <2>1. CASE i = 0
    <3>1. drain.ev = ExpiredEvent(r)
      BY <1>2, <2>1 DEF At
    <3>2. drain.ev.event = "PermissionExpired" /\ drain.ev.request_id = r
      BY <3>1 DEF ExpiredEvent, HookEv
    <3>3. badges' = badges \ {r}
      BY <1>8, <3>2 DEF DrainEmit
    <3>4. \A j \in InLine' : ~IsRequest(At(j)', r)
      BY <1>1, <1>2, <1>8, <2>1, LineEmit
    <3> QED
      BY <3>3, <3>4 DEF Settled, NotBehind
  <2>2. CASE i # 0
    <3>1. i \in InLine' /\ \A j \in InLine : j >= i => j \in InLine' /\ At(j)' = At(j)
      BY <1>1, <1>8, <2>2, LineEmit
    <3>2. \A j \in InLine' : j >= i => ~IsRequest(At(j)', r)
      BY <1>2, <1>8, LineEmit
    <3> QED
      BY <1>3, <3>1, <3>2
  <2> QED
    BY <2>1, <2>2
<1> QED
  BY <1>4, <1>5, <1>6, <1>7, <1>8, ClearLine

(* So does the tool result behind it. *)
LEMMA ProvingMoves ==
    ASSUME TypeOK, TypeOK', Traffic, [Next]_vars, NEW r \in Request, NEW q \in Request,
           Clear(r), Proving(r, q)
    PROVE  Settled(r)' \/ Proving(r, q)'
<1>1. InLine \subseteq Nat /\ InLine' \subseteq Nat
  BY DEF TypeOK, InLine
<1>2. ASSUME NEW c \in Conn, ExpiryFrom(c, r, q) PROVE Proving(r, q)'
  <2>1. conn[c] = <<ExpiredEvent(r), PostToolUse(q)>> /\ conn[c] # <<>>
    BY <1>2, TwoEvents DEF ExpiryFrom
  <2>2. CASE conn'[c] = conn[c]
    BY <2>1, <2>2 DEF Proving, ExpiryFrom
  <2>3. CASE Forward(c)
    <3>1. /\ channel' = Append(channel, ExpiredEvent(r)) /\ drain' = drain
          /\ conn'[c] = <<PostToolUse(q)>>
      BY <2>1, <2>3, TwoEvents DEF Forward, TypeOK
    <3>2. PICK n \in Nat : /\ InLine' = InLine \cup {n} /\ At(n)' = ExpiredEvent(r)
                           /\ \A i \in InLine : i < n
      BY <3>1, LinePush
    <3>3. ~IsRequest(ExpiredEvent(r), r)
      BY EventFacts DEF SourceTag
    <3>4. Expires(n, r)'
      <4>1. \A i \in InLine' : i >= n => i = n
        BY <1>1, <3>2
      <4> QED
        BY <3>2, <3>3, <4>1 DEF Expires, NotBehind
    <3> QED
      BY <3>1, <3>2, <3>4 DEF Proving, ResultFrom
  <2> QED
    BY <2>1, <2>2, <2>3, ConnKept
<1>3. ASSUME NEW i \in InLine, Expires(i, r), ~Settled(r)'
      PROVE  /\ \A c \in Conn : ResultFrom(c, q) => Proving(r, q)'
             /\ \A j \in InLine : j > i /\ At(j) = PostToolUse(q) => Proving(r, q)'
  <2>1. PICK k \in {0, 1} :
            /\ i - k \in InLine' /\ Expires(i - k, r)'
            /\ \A j \in InLine : j > i => j - k \in InLine' /\ At(j - k)' = At(j)
    BY <1>3, ExpiryMoves
  <2>2. ASSUME NEW j \in InLine, j > i, At(j) = PostToolUse(q) PROVE Proving(r, q)'
    <3>1. j - k \in InLine' /\ At(j - k)' = PostToolUse(q) /\ j - k > i - k
      BY <1>1, <2>1, <2>2
    <3> QED
      BY <2>1, <3>1 DEF Proving
  <2>3. ASSUME NEW c \in Conn, ResultFrom(c, q) PROVE Proving(r, q)'
    <3>1. conn[c] = <<PostToolUse(q)>> /\ conn[c] # <<>>
      BY <2>3, OneEvent DEF ResultFrom
    <3>2. CASE conn'[c] = conn[c]
      BY <2>1, <3>1, <3>2 DEF Proving, ResultFrom
    <3>3. CASE Forward(c)
      <4>1. channel' = Append(channel, PostToolUse(q)) /\ drain' = drain
        BY <3>1, <3>3, OneEvent DEF Forward
      <4>2. PICK n \in Nat : /\ InLine' = InLine \cup {n} /\ At(n)' = PostToolUse(q)
                             /\ \A j \in InLine : j < n
        BY <4>1, LinePush
      <4>3. n > i - k
        BY <1>1, <4>2
      <4> QED
        BY <2>1, <4>2, <4>3 DEF Proving
    <3> QED
      BY <3>1, <3>2, <3>3, ConnKept
  <2> QED
    BY <2>2, <2>3
<1> QED
  BY <1>2, <1>3 DEF Proving

(* Who evicts and who sweeps. *)
LEMMA NewVerdict ==
    ASSUME TypeOK, [Next]_vars, NEW r \in Request
    PROVE  /\ "evicted" \in verdict'[r] /\ "evicted" \notin verdict[r] =>
                  \E c \in Conn, q \in Request : ReceivePostToolUse(c, q)
           /\ "swept" \in verdict'[r] /\ "swept" \notin verdict[r] => Sweep(r)
<1> DEFINE Goal == /\ "evicted" \in verdict'[r] /\ "evicted" \notin verdict[r] =>
                          \E c \in Conn, q \in Request : ReceivePostToolUse(c, q)
                   /\ "swept" \in verdict'[r] /\ "swept" \notin verdict[r] => Sweep(r)
<1>1. ASSUME NEW rs, NEW v \in Verdict, SetVerdict(rs, v), v \notin {"evicted", "swept"}
      PROVE  Goal
  BY <1>1 DEF SetVerdict
<1>2. ASSUME verdict' = verdict PROVE Goal
  BY <1>2
<1>3. ASSUME NEW q \in Request, Sweep(q) PROVE Goal
  BY <1>3 DEF Sweep, SetVerdict
<1>4. ASSUME NEW c \in Conn, NEW q \in Request, ReceivePostToolUse(c, q) PROVE Goal
  <2>1. "swept" \in verdict'[r] => "swept" \in verdict[r]
    BY <1>4 DEF ReceivePostToolUse, SetVerdict
  <2> QED
    BY <1>4, <2>1
<1>5. CASE UNCHANGED vars
  BY <1>2, <1>5 DEF vars
<1>6. CASE Server
  BY <1>2, <1>3, <1>6 DEF Server, Forward, SendExpiry, ForwardSink
<1>7. CASE Drain
  BY <1>2, <1>7 DEF Drain, DrainTake, DrainRoute, DrainEmit
<1>8. CASE Reply
  BY <1>1, <1>2, <1>8
  DEF Reply, ReplyHttp, ReplyHook, ReplyCheck, ReplyDemote, ReplyResolve, Verdict
<1>9. CASE Harness
  BY <1>1, <1>2, <1>4, <1>9
  DEF Harness, ReceivePermissionRequest, ReceiveHook, ClientGivesUp, OpenCodeAsks,
      OpenCodeAnswered, Verdict
<1>10. CASE User
  BY <1>1, <1>2, <1>10
  DEF User, Click, Submit, Abort, DropSession, Remove, AnnounceRemoved, Verdict
<1>11. CASE Silence
  BY <1>2, <1>11 DEF Silence, Tick
<1> QED
  BY <1>5, <1>6, <1>7, <1>8, <1>9, <1>10, <1>11 DEF Next

(* Nobody asks twice. *)
LEMMA NeverAgain ==
    ASSUME TypeOK, VerdictInv, Queue, Traffic, [Next]_vars, NEW r \in Request, r \in asked
    PROVE  ConnFewer(r)
<1>1. ASSUME conn' = conn PROVE ConnFewer(r)
  BY <1>1, ConnFewerCases
<1>2. ASSUME NEW c \in Conn, NEW v, conn' = [conn EXCEPT ![c] = v],
             v # <<RequestEvent(r, "hook")>>
      PROVE  ConnFewer(r)
  BY <1>2, ConnFewerCases
<1>3. ASSUME NEW c \in Conn, Forward(c) PROVE ConnFewer(r)
  <2>1. \A q \in Request : /\ <<>> # <<RequestEvent(r, "hook")>>
                           /\ <<PostToolUse(q)>> # <<RequestEvent(r, "hook")>>
    BY ConnForms
  <2> QED
    BY <1>2, <1>3, <2>1, ForwardCases
<1>4. ASSUME NEW c \in Conn, NEW q \in Request, ReceivePermissionRequest(c, q) PROVE ConnFewer(r)
  <2>1. <<RequestEvent(q, "hook")>> # <<RequestEvent(r, "hook")>>
    BY <1>4, ConnForms DEF ReceivePermissionRequest
  <2> QED
    BY <1>2, <1>4, <2>1 DEF ReceivePermissionRequest
<1>5. ASSUME NEW c \in Conn, NEW q \in Request, ReceivePostToolUse(c, q) PROVE ConnFewer(r)
  <2>1. <<PostToolUse(q)>> # <<RequestEvent(r, "hook")>>
    BY ConnForms
  <2>2. \A x \in parked : <<ExpiredEvent(x), PostToolUse(q)>> # <<RequestEvent(r, "hook")>>
    BY ConnForms DEF TypeOK
  <2> QED
    BY <1>2, <1>5, <2>1, <2>2, ResultCases
<1>6. ASSUME NEW c \in Conn, NEW ev \in PlainEvents, ReceiveHook(c, ev) PROVE ConnFewer(r)
  <2>1. <<ev>> # <<RequestEvent(r, "hook")>>
    BY ConnForms
  <2> QED
    BY <1>2, <1>6, <2>1 DEF ReceiveHook
<1>7. CASE UNCHANGED vars
  BY <1>1, <1>7 DEF vars, socket
<1>8. CASE Server
  BY <1>1, <1>3, <1>8 DEF Server, Sweep, SendExpiry, ForwardSink, socket
<1>9. CASE Drain
  BY <1>1, <1>9 DEF Drain, DrainTake, DrainRoute, DrainEmit, socket
<1>10. CASE Reply
  BY <1>1, <1>10
  DEF Reply, ReplyHttp, ReplyHook, ReplyCheck, ReplyDemote, ReplyResolve, socket
<1>11. CASE Harness
  BY <1>1, <1>4, <1>5, <1>6, <1>11 DEF Harness, ClientGivesUp, OpenCodeAsks, OpenCodeAnswered, socket
<1>12. CASE User
  BY <1>1, <1>12 DEF User, Click, Submit, Abort, DropSession, Remove, AnnounceRemoved, socket
<1>13. CASE Silence
  BY <1>1, <1>13 DEF Silence, Tick, socket
<1> QED
  BY <1>7, <1>8, <1>9, <1>10, <1>11, <1>12, <1>13 DEF Next

(* An eviction puts its own expiry, and then the tool result, on the wire. *)
LEMMA Evicts ==
    ASSUME TypeOK, TypeOK', VerdictInv, Queue, Traffic, NEW r \in Request,
           NEW c \in Conn, NEW q \in Request, ReceivePostToolUse(c, q),
           "evicted" \in verdict'[r], "evicted" \notin verdict[r]
    PROVE  SameCall(q, r) /\ Clear(r)' /\ ExpiryFrom(c, r, q)'
<1>1. PICK x \in parked : /\ SameCall(x, q) /\ ReqKind[x] # "opencode"
                          /\ SetVerdict({x}, "evicted")
                          /\ conn' = [conn EXCEPT ![c] = <<ExpiredEvent(x), PostToolUse(q)>>]
  <2>1. ~SetVerdict({}, "evicted")
    BY DEF SetVerdict
  <2> QED
    BY <2>1, ResultCases
<1>2. x = r
  BY <1>1 DEF SetVerdict
<1>3. Forwarded(r) /\ r \in asked
  BY <1>1, <1>2 DEF ReceivePostToolUse, AnswerAfterForward, SameCall, VerdictInv
<1>4. \A d \in Conn : ~RequestFrom(d, r)
  BY <1>3, ForwardedClear
<1>5. <<ExpiredEvent(r), PostToolUse(q)>> # <<RequestEvent(r, "hook")>>
  BY ConnForms
<1>6. \A d \in Conn : ~RequestFrom(d, r)'
  BY <1>1, <1>2, <1>4, <1>5, ConnFewerCases DEF ConnFewer
<1>7. ExpiryFrom(c, r, q)'
  BY <1>1, <1>2 DEF ExpiryFrom, TypeOK
<1> QED
  BY <1>1, <1>2, <1>6, <1>7 DEF Clear, SameCall

(* A sweep's expiry waits to be sent, and then is in the line. *)
LEMMA SweepMoves ==
    ASSUME TypeOK, TypeOK', Traffic, [Next]_vars, NEW r \in Request, r \in expiring
    PROVE  r \in expiring' \/ \E i \in InLine' : i > 0 /\ Expires(i, r)'
<1>1. ASSUME NEW q \in Request, SendExpiry(q)
      PROVE  r \in expiring' \/ \E i \in InLine' : i > 0 /\ Expires(i, r)'
  <2>1. CASE q = r
    <3>1. channel' = Append(channel, ExpiredEvent(r)) /\ drain' = drain
      BY <1>1, <2>1 DEF SendExpiry
    <3>2. PICK n \in Nat : /\ n > 0 /\ InLine' = InLine \cup {n} /\ At(n)' = ExpiredEvent(r)
                           /\ \A i \in InLine : i \in Nat /\ i < n
      BY <3>1, LinePush
    <3>3. ~IsRequest(ExpiredEvent(r), r)
      BY EventFacts DEF SourceTag
    <3>4. \A i \in InLine' : i >= n => i = n
      BY <3>2
    <3>5. Expires(n, r)'
      BY <3>2, <3>3, <3>4 DEF Expires, NotBehind
    <3> QED
      BY <3>2, <3>5
  <2>2. CASE q # r
    BY <1>1, <2>2 DEF SendExpiry
  <2> QED
    BY <2>1, <2>2
<1>2. CASE UNCHANGED vars
  BY <1>2 DEF vars, socket
<1>3. CASE Server
  BY <1>1, <1>3 DEF Server, Forward, Sweep, ForwardSink, socket
<1>4. CASE Drain
  BY <1>4 DEF Drain, DrainTake, DrainRoute, DrainEmit, socket
<1>5. CASE Reply
  BY <1>5 DEF Reply, ReplyHttp, ReplyHook, ReplyCheck, ReplyDemote, ReplyResolve, socket
<1>6. CASE Harness
  BY <1>6
  DEF Harness, ReceivePermissionRequest, ReceivePostToolUse, ReceiveHook, ClientGivesUp,
      OpenCodeAsks, OpenCodeAnswered, socket
<1>7. CASE User
  BY <1>7 DEF User, Click, Submit, Abort, DropSession, Remove, AnnounceRemoved, socket
<1>8. CASE Silence
  BY <1>8 DEF Silence, Tick, socket
<1> QED
  BY <1>2, <1>3, <1>4, <1>5, <1>6, <1>7, <1>8 DEF Next

\* No expiry is owed at the start.
LEMMA ExpiryInit == Init => Expiries
BY DEF Init, Expiries

\* Every step keeps the expiry of an evicted or swept request on its way until its badge is gone.
LEMMA ExpiryStep ==
    TypeOK /\ TypeOK' /\ VerdictInv /\ Queue /\ Traffic /\ Expiries /\ [Next]_vars => Expiries'
<1> SUFFICES ASSUME TypeOK, TypeOK', VerdictInv, Queue, Traffic, Expiries, [Next]_vars,
                    NEW r \in Request
             PROVE  Expiries!(r)'
  BY DEF Expiries
<1>0. verdict[r] \subseteq Verdict
  BY DEF TypeOK
<1>1. ASSUME verdict[r] \cap {"evicted", "swept"} # {} PROVE Clear(r) /\ Clear(r)'
  <2>1. Clear(r) /\ r \in asked
    BY <1>1 DEF Expiries, Clear, VerdictInv
  <2> QED
    BY <2>1, NeverAgain DEF Clear, ConnFewer
<1>2. ASSUME Sweep(r) PROVE Clear(r)' /\ r \in expiring'
  <2>1. ReqKind[r] # "opencode" /\ Forwarded(r) /\ conn' = conn /\ r \in expiring'
    BY <1>2 DEF Sweep, VerdictInv
  <2> QED
    BY <2>1, ForwardedClear DEF Clear, RequestFrom
<1>3. verdict'[r] \cap {"evicted", "swept"} # {} => Clear(r)'
  BY <1>1, <1>2, NewVerdict, Evicts
<1>4. "evicted" \in verdict'[r] =>
          Settled(r)' \/ \E q \in Request : SameCall(q, r) /\ Proving(r, q)'
  <2>1. CASE "evicted" \in verdict'[r] /\ "evicted" \notin verdict[r]
    <3>1. PICK c \in Conn, q \in Request : ReceivePostToolUse(c, q)
      BY <2>1, NewVerdict
    <3>2. SameCall(q, r) /\ ExpiryFrom(c, r, q)'
      BY <2>1, <3>1, Evicts
    <3> QED
      BY <3>2 DEF Proving
  <2>2. CASE "evicted" \in verdict[r]
    <3>1. Clear(r)
      BY <1>1, <2>2
    <3>2. Settled(r) \/ \E q \in Request : SameCall(q, r) /\ Proving(r, q)
      BY <2>2 DEF Expiries
    <3> QED
      BY <3>1, <3>2, StaysSettled, ProvingMoves
  <2> QED
    BY <2>1, <2>2
<1>5. "swept" \in verdict'[r] =>
          Settled(r)' \/ r \in expiring' \/ \E i \in InLine' : Expires(i, r)'
  <2>1. CASE "swept" \in verdict'[r] /\ "swept" \notin verdict[r]
    BY <1>2, <2>1, NewVerdict
  <2>2. CASE "swept" \in verdict[r]
    <3>1. Clear(r)
      BY <1>1, <2>2
    <3>2. Settled(r) \/ r \in expiring \/ \E i \in InLine : Expires(i, r)
      BY <2>2 DEF Expiries
    <3> QED
      BY <3>1, <3>2, StaysSettled, SweepMoves, ExpiryMoves
  <2> QED
    BY <2>1, <2>2
<1> QED
  BY <1>3, <1>4, <1>5 DEF Clear

(* Every request a hook script made is parked or has its verdict. *)
LEMMA AccountedInit == Init => Accounted
BY DEF Init, Accounted

\* No step unparks a hook request without a verdict.
LEMMA AccountedStep ==
    TypeOK /\ TypeOK' /\ VerdictInv /\ Queue /\ Accounted /\ [Next]_vars => Accounted'
<1> SUFFICES ASSUME TypeOK, TypeOK', VerdictInv, Queue, Accounted, [Next]_vars, NEW r \in Request,
                    ReqKind[r] # "opencode"
             PROVE  Accounted!(r)'
  BY DEF Accounted
<1> DEFINE Given == verdict[r] \cap {"delivered", "lost", "evicted", "swept", "dropped"} # {}
           Goal == (r \in asked => r \in parked \/ Given)' /\ "native" \notin verdict'[r]
<1>0. (r \in asked => r \in parked \/ Given) /\ "native" \notin verdict[r]
  BY DEF Accounted
<1>1. ASSUME UNCHANGED <<asked, parked, verdict>> PROVE Goal
  BY <1>0, <1>1
<1>2. ASSUME NEW rs, NEW v \in {"delivered", "lost", "evicted", "swept", "dropped"},
             Unpark(rs), SetVerdict(rs, v), asked' = asked
      PROVE  Goal
  BY <1>0, <1>2 DEF Unpark, SetVerdict
<1>3. ASSUME NEW q \in oc_open, NEW v \in Verdict, SetVerdict({q}, v),
             UNCHANGED <<asked, parked>>
      PROVE  Goal
  BY <1>0, <1>3 DEF SetVerdict, VerdictInv
<1>4. ASSUME NEW c \in Conn, NEW q \in Request, ReceivePermissionRequest(c, q) PROVE Goal
  BY <1>0, <1>4 DEF ReceivePermissionRequest, Park
<1>5. ASSUME NEW q \in Request, OpenCodeAsks(q) PROVE Goal
  BY <1>0, <1>5 DEF OpenCodeAsks, socket
<1>6. ASSUME NEW q \in Request, ReplyHook(q) PROVE Goal
  BY <1>1, <1>2, <1>6 DEF ReplyHook, world
<1>7. ASSUME NEW q \in Request, ReplyHttp(q) PROVE Goal
  BY <1>1, <1>3, <1>7 DEF ReplyHttp, socket, world, Verdict
<1>8. CASE UNCHANGED vars
  BY <1>1, <1>8 DEF vars, socket, world
<1>9. CASE Server
  BY <1>1, <1>2, <1>9 DEF Server, Forward, Sweep, SendExpiry, ForwardSink, socket, world
<1>10. CASE Drain
  BY <1>1, <1>10 DEF Drain, DrainTake, DrainRoute, DrainEmit, socket, world
<1>11. CASE Reply
  BY <1>1, <1>6, <1>7, <1>11 DEF Reply, ReplyCheck, ReplyDemote, ReplyResolve, socket, world
<1>12. CASE Harness
  BY <1>1, <1>2, <1>3, <1>4, <1>5, <1>12
  DEF Harness, ReceivePostToolUse, ReceiveHook, ClientGivesUp, OpenCodeAnswered, socket, world,
      Verdict
<1>13. CASE User
  BY <1>1, <1>2, <1>13
  DEF User, Click, Submit, Abort, DropSession, Remove, AnnounceRemoved, socket, world
<1>14. CASE Silence
  BY <1>1, <1>14 DEF Silence, Tick, socket, world
<1> QED
  BY <1>8, <1>9, <1>10, <1>11, <1>12, <1>13, <1>14 DEF Next

-----------------------------------------------------------------------------
(* The inductive invariant of what travels.                                 *)
FlowInv == TypeOK /\ VerdictInv /\ Queue /\ Traffic /\ Announcements /\ Expiries /\ Accounted

\* The combined invariant at the start.
LEMMA FlowInit == Init => FlowInv
BY TypeInit, VerdictInit, QueueInit, TrafficInit, AnnounceInit, ExpiryInit, AccountedInit
DEF FlowInv

\* Every step preserves the combined invariant.
LEMMA FlowStep == FlowInv /\ [Next]_vars => FlowInv'
<1> SUFFICES ASSUME FlowInv, [Next]_vars PROVE FlowInv'
  OBVIOUS
<1>1. TypeOK /\ VerdictInv /\ Queue /\ Traffic /\ Announcements /\ Expiries /\ Accounted
  BY DEF FlowInv
<1>2. TypeOK' /\ VerdictInv'
  BY <1>1, TypeStep, VerdictStep
<1> QED
  BY <1>1, <1>2, QueueStep, TrafficStep, AnnounceStep, ExpiryStep, AccountedStep DEF FlowInv

(* While the badge of an evicted request is up, the tool result that proved *)
(* it answered has not been drained: its expiry comes first.                *)
THEOREM ExpiryComesFirst == Spec => []ExpiryAhead
<1>1. FlowInv => ExpiryAhead
  <2> SUFFICES ASSUME FlowInv, NEW r \in badges, "evicted" \in verdict[r]
               PROVE  \E q \in Request : SameCall(q, r) /\ InFlight(PostToolUse(q))
    BY DEF ExpiryAhead
  <2>1. r \in Request /\ channel \in Seq(Event)
    BY DEF FlowInv, TypeOK
  <2>2. PICK q \in Request : SameCall(q, r) /\ Proving(r, q)
    BY <2>1 DEF FlowInv, Expiries, Settled
  <2>3. ASSUME NEW c \in Conn, ExpiryFrom(c, r, q) PROVE InFlight(PostToolUse(q))
    <3>1. 2 \in 1..Len(conn[c]) /\ conn[c][2] = PostToolUse(q)
      BY <2>3 DEF ExpiryFrom
    <3> QED
      BY <3>1 DEF InFlight
  <2>4. ASSUME NEW c \in Conn, ResultFrom(c, q) PROVE InFlight(PostToolUse(q))
    <3>1. 1 \in 1..Len(conn[c]) /\ conn[c][1] = PostToolUse(q)
      BY <2>4 DEF ResultFrom
    <3> QED
      BY <3>1 DEF InFlight
  <2>5. ASSUME NEW i \in InLine, NEW j \in InLine, j > i, At(j) = PostToolUse(q)
        PROVE  InFlight(PostToolUse(q))
    <3>1. j \in 1..Len(channel) /\ j # 0
      BY <2>1, <2>5 DEF InLine
    <3> QED
      BY <2>5, <3>1 DEF At, InFlight
  <2> QED
    BY <2>2, <2>3, <2>4, <2>5 DEF Proving
<1> QED
  BY <1>1, FlowInit, FlowStep, PTL DEF Spec

(* When nothing is under way, the badge of a hook request that is not       *)
(* parked belongs to one decided elsewhere, lost or dropped.                *)
THEOREM BadgesHaveAuthority == Spec => []BadgeHasAuthority
<1>1. FlowInv => BadgeHasAuthority
  <2> SUFFICES ASSUME FlowInv, NEW r \in badges, Quiet, ReqKind[r] # "opencode", r \notin parked,
                      verdict[r] \cap {"delivered", "lost", "dropped"} = {}
               PROVE  FALSE
    BY DEF BadgeHasAuthority
  <2>1. r \in Request /\ verdict[r] \subseteq Verdict
    BY DEF FlowInv, TypeOK
  <2>2. r \in asked
    BY <2>1 DEF FlowInv, Announcements, Announced
  <2>3. "evicted" \in verdict[r] \/ "swept" \in verdict[r]
    BY <2>1, <2>2 DEF FlowInv, Accounted
  <2>4. InLine = {} /\ expiring = {} /\ \A c \in Conn : conn[c] = <<>>
    BY DEF Quiet, InLine
  <2>5. \A q \in Request : ~Proving(r, q)
    BY <2>4, TwoEvents DEF Proving, ExpiryFrom
  <2> QED
    BY <2>1, <2>3, <2>4, <2>5 DEF FlowInv, Expiries, Settled
<1> QED
  BY <1>1, FlowInit, FlowStep, PTL DEF Spec

-----------------------------------------------------------------------------
(* The answer of an OpenCode request follows it down the pipe.              *)

(* What a step does to the line and to the sink of r's session. *)
LEMMA PipeCases ==
    ASSUME TypeOK, Traffic, [Next]_vars, NEW r \in Request, ReqKind[r] = "opencode",
           Owner[r] \in Session, Owner[r] \in live'
    PROVE  LET s == Owner[r]
           IN  \/ channel' = channel /\ drain' = drain /\ sink'[s] = sink[s]
               \/ /\ sink'[s] = sink[s] /\ drain' = drain
                  /\ \E ev : ~IsRequest(ev, r) /\ channel' = Append(channel, ev)
               \/ ForwardSink(s)
               \/ (DrainTake \/ DrainRoute \/ DrainEmit) /\ sink'[s] = sink[s]
               \/ /\ channel' = channel /\ drain' = drain
                  /\ Len(sink'[s]) = Len(sink[s]) + 1
                  /\ \A i \in 1..Len(sink[s]) : sink'[s][i] = sink[s][i]
                  /\ IsRequest(sink'[s][Len(sink[s]) + 1], r) => r \notin asked
<1> DEFINE s == Owner[r]
           Still == channel' = channel /\ drain' = drain /\ sink'[s] = sink[s]
           Push == /\ sink'[s] = sink[s] /\ drain' = drain
                   /\ \E ev : ~IsRequest(ev, r) /\ channel' = Append(channel, ev)
           Put == /\ channel' = channel /\ drain' = drain
                  /\ Len(sink'[s]) = Len(sink[s]) + 1
                  /\ \A i \in 1..Len(sink[s]) : sink'[s][i] = sink[s][i]
                  /\ IsRequest(sink'[s][Len(sink[s]) + 1], r) => r \notin asked
           Turn == (DrainTake \/ DrainRoute \/ DrainEmit) /\ sink'[s] = sink[s]
<1>0. sink \in [Session -> Seq(Event)] /\ s \in Session
  BY DEF TypeOK
<1>1. ASSUME NEW c \in Conn, Forward(c) PROVE Push
  <2>1. drain' = drain /\ sink' = sink
    BY <1>1 DEF Forward, opencode
  <2>2. ASSUME NEW x \in Request
        PROVE  /\ ~IsRequest(ExpiredEvent(x), r) /\ ~IsRequest(PostToolUse(x), r)
               /\ IsRequest(RequestEvent(x, "hook"), r) => x = r
    BY EventFacts DEF SourceTag
  <2>3. \A ev \in PlainEvents : ~IsRequest(ev, r)
    BY PlainAssumption DEF IsRequest
  <2> QED
    BY <1>1, <2>1, <2>2, <2>3, ForwardCases
<1>2. ASSUME NEW q \in Request, SendExpiry(q) PROVE Push
  <2>1. ~IsRequest(ExpiredEvent(q), r)
    BY EventFacts DEF SourceTag
  <2> QED
    BY <1>2, <2>1 DEF SendExpiry, opencode
<1>3. ASSUME NEW t \in Session, t # s, ForwardSink(t) PROVE Push
  <2>1. drain' = drain /\ sink'[s] = sink[s]
    BY <1>0, <1>3, SinkTake DEF ForwardSink
  <2>2. 1 \in 1..Len(sink[t]) /\ channel' = Append(channel, sink[t][1])
    BY <1>3, SinkTake
  <2>3. ~IsRequest(sink[t][1], r)
    BY <1>3, <2>2, TwoWays
  <2> QED
    BY <2>1, <2>2, <2>3
<1>4. ASSUME NEW q \in Request, Owner[q] \in Session, NEW ev \in Event, Emit(Owner[q], ev),
             IsRequest(ev, r) => r \notin asked, channel' = channel, drain' = drain
      PROVE  Still \/ Put
  <2>1. CASE sink' = sink
    BY <1>4, <2>1
  <2>2. CASE sink' # sink /\ Owner[q] # s
    BY <1>0, <1>4, <2>2, SinkPut
  <2>3. CASE sink' # sink /\ Owner[q] = s
    BY <1>4, <2>3, SinkPut
  <2> QED
    BY <2>1, <2>2, <2>3
<1>5. ASSUME NEW q \in Request, OpenCodeAsks(q) PROVE Still \/ Put
  <2>1. "opencode-sse" \in SourceTag
    BY DEF SourceTag
  <2>2. Owner[q] \in Session /\ RequestEvent(q, "opencode-sse") \in Event
    BY <1>5, <2>1, EventType DEF OpenCodeAsks, TypeOK
  <2>3. IsRequest(RequestEvent(q, "opencode-sse"), r) => r \notin asked
    BY <1>5, <2>1, EventFacts DEF OpenCodeAsks
  <2> QED
    BY <1>4, <1>5, <2>2, <2>3 DEF OpenCodeAsks
<1>6. ASSUME NEW q \in Request, Owner[q] \in Session, Emit(Owner[q], RepliedEvent(q)),
             channel' = channel, drain' = drain
      PROVE  Still \/ Put
  <2>1. RepliedEvent(q) \in Event /\ ~IsRequest(RepliedEvent(q), r)
    BY <1>6, EventType, EventFacts DEF SourceTag
  <2> QED
    BY <1>4, <1>6, <2>1
<1>7. ASSUME NEW q \in Request, OpenCodeAnswered(q) PROVE Still \/ Put
  BY <1>6, <1>7 DEF OpenCodeAnswered, TypeOK
<1>8. ASSUME NEW q \in Request, ReplyHttp(q) PROVE Still \/ Put
  <2>1. Owner[q] \in Session /\ channel' = channel /\ drain' = drain
    BY <1>8 DEF ReplyHttp, HasReplier, TypeOK
  <2>2. Emit(Owner[q], RepliedEvent(q)) \/ sink' = sink
    BY <1>8 DEF ReplyHttp, opencode
  <2> QED
    BY <1>6, <2>1, <2>2
<1>9. ASSUME NEW t \in Session, Remove(t) PROVE Still
  <2>1. t # s
    BY <1>9 DEF Remove
  <2> QED
    BY <1>0, <1>9, <2>1 DEF Remove
<1>10. CASE UNCHANGED vars
  BY <1>10 DEF vars, opencode
<1>11. CASE Server
  BY <1>1, <1>2, <1>3, <1>11 DEF Server, Sweep, opencode
<1>12. CASE Drain
  <2>1. sink' = sink
    BY <1>12 DEF Drain, DrainTake, DrainRoute, DrainEmit, opencode
  <2> QED
    BY <1>12, <2>1 DEF Drain
<1>13. CASE Reply
  BY <1>8, <1>13 DEF Reply, ReplyHook, ReplyCheck, ReplyDemote, ReplyResolve, opencode
<1>14. CASE Harness
  BY <1>5, <1>7, <1>14
  DEF Harness, ReceivePermissionRequest, ReceivePostToolUse, ReceiveHook, ClientGivesUp, opencode
<1>15. CASE User
  BY <1>9, <1>15 DEF User, Click, Submit, Abort, DropSession, AnnounceRemoved, opencode
<1>16. CASE Silence
  BY <1>16 DEF Silence, Tick, opencode
<1> QED
  BY <1>10, <1>11, <1>12, <1>13, <1>14, <1>15, <1>16 DEF Next

(* An answer on its way stays on its way, until the drain loop takes it. *)
LEMMA AnswerMoves ==
    ASSUME TypeOK, TypeOK', Traffic, [Next]_vars, NEW r \in Request, ReqKind[r] = "opencode",
           Owner[r] \in Session, Owner[r] \in live', NEW i \in Nat, FollowsInSink(i, r)
    PROVE  \/ FollowsInSink(i, r)'
           \/ /\ ForwardSink(Owner[r])
              /\ \/ i > 0 /\ FollowsInSink(i - 1, r)'
                 \/ i = 0 /\ FollowsInSink(0, r)'
                 \/ i = 0 /\ \E n \in Nat : /\ InLine' = InLine \cup {n} /\ At(n)' = RepliedEvent(r)
                                            /\ \A j \in InLine : j < n /\ At(j)' = At(j)
<1> DEFINE s == Owner[r]
<1>1. PICK j \in 1..Len(sink[s]) : j > i /\ sink[s][j] = RepliedEvent(r)
  BY DEF FollowsInSink
<1>0. Len(sink[s]) \in Nat /\ Len(sink'[s]) \in Nat
  BY DEF TypeOK
<1>2. CASE sink'[s] = sink[s]
  BY <1>2 DEF FollowsInSink
<1>3. CASE /\ Len(sink'[s]) = Len(sink[s]) + 1
           /\ \A k \in 1..Len(sink[s]) : sink'[s][k] = sink[s][k]
  <2>1. j \in 1..Len(sink'[s]) /\ sink'[s][j] = RepliedEvent(r)
    BY <1>0, <1>1, <1>3
  <2> QED
    BY <1>1, <2>1 DEF FollowsInSink
<1>4. CASE ForwardSink(s)
  <2>1. /\ Len(sink'[s]) = Len(sink[s]) - 1
        /\ \A k \in 1..Len(sink'[s]) : sink'[s][k] = sink[s][k + 1]
        /\ channel' = Append(channel, sink[s][1]) /\ drain' = drain
    BY <1>4, SinkTake DEF ForwardSink
  <2>2. CASE j = 1
    <3>1. i = 0 /\ channel' = Append(channel, RepliedEvent(r))
      BY <1>1, <2>1, <2>2
    <3>2. \E n \in Nat : /\ InLine' = InLine \cup {n} /\ At(n)' = RepliedEvent(r)
                         /\ \A k \in InLine : k < n /\ At(k)' = At(k)
      BY <2>1, <3>1, LinePush
    <3> QED
      BY <1>4, <3>1, <3>2
  <2>3. CASE j # 1
    <3>1. j - 1 \in 1..Len(sink'[s]) /\ (j - 1) + 1 = j
      BY <1>0, <1>1, <2>1, <2>3
    <3>2. sink'[s][j - 1] = RepliedEvent(r)
      BY <1>1, <2>1, <3>1
    <3>3. CASE i > 0
      <4>1. j - 1 > i - 1
        BY <1>1, <3>1
      <4>2. FollowsInSink(i - 1, r)'
        BY <3>1, <3>2, <4>1 DEF FollowsInSink
      <4> QED
        BY <1>4, <3>3, <4>2
    <3>4. CASE i = 0
      <4>1. FollowsInSink(0, r)'
        BY <3>1, <3>2 DEF FollowsInSink
      <4> QED
        BY <1>4, <3>4, <4>1
    <3> QED
      BY <3>3, <3>4
  <2> QED
    BY <2>2, <2>3
<1> QED
  BY <1>2, <1>3, <1>4, PipeCases

\* The answer on its way to a live session stays behind the request it answers.
LEMMA AnswerStays ==
    ASSUME TypeOK, TypeOK', Traffic, [Next]_vars, NEW r \in Request, ReqKind[r] = "opencode",
           Owner[r] \in Session, Owner[r] \in live', r \in asked, AnswerBehind(r)
    PROVE  AnswerBehind(r)'
<1> DEFINE s == Owner[r]
           Line(i) == FollowsInLine(i, r) \/ FollowsInSink(0, r)
<1>0. /\ InLine \subseteq Nat /\ InLine' \subseteq Nat
      /\ Len(sink[s]) \in Nat /\ Len(sink'[s]) \in Nat
  BY DEF TypeOK, InLine
<1>1. /\ \A i \in InLine : IsRequest(At(i), r) => Line(i)
      /\ \A i \in 1..Len(sink[s]) : IsRequest(sink[s][i], r) => FollowsInSink(i, r)
  BY DEF AnswerBehind
<1>2. ASSUME channel' = channel, drain' = drain, sink'[s] = sink[s] PROVE AnswerBehind(r)'
  <2>1. InLine' = InLine /\ \A i : At(i)' = At(i)
    BY <1>2, LineSame
  <2> QED
    BY <1>1, <1>2, <2>1 DEF AnswerBehind, FollowsInLine, FollowsInSink
<1>3. ASSUME NEW ev, sink'[s] = sink[s], drain' = drain, ~IsRequest(ev, r),
             channel' = Append(channel, ev)
      PROVE  AnswerBehind(r)'
  <2>1. PICK n \in Nat : /\ InLine' = InLine \cup {n} /\ At(n)' = ev
                         /\ \A i \in InLine : i < n /\ At(i)' = At(i)
    BY <1>3, LinePush
  <2>2. \A i \in InLine : Line(i) => Line(i)'
    BY <1>3, <2>1 DEF FollowsInLine, FollowsInSink
  <2>3. \A i \in InLine' : IsRequest(At(i)', r) => Line(i)'
    BY <1>1, <1>3, <2>1, <2>2
  <2> QED
    BY <1>1, <1>3, <2>3 DEF AnswerBehind, FollowsInSink
<1>4. CASE ForwardSink(s)
  <2>1. /\ Len(sink'[s]) = Len(sink[s]) - 1 /\ 1 \in 1..Len(sink[s])
        /\ \A k \in 1..Len(sink'[s]) : sink'[s][k] = sink[s][k + 1] /\ k + 1 \in 1..Len(sink[s])
        /\ channel' = Append(channel, sink[s][1]) /\ drain' = drain
    <3>1. /\ Len(sink[s]) > 0 /\ Len(sink'[s]) = Len(sink[s]) - 1
          /\ channel' = Append(channel, sink[s][1])
      BY <1>4, SinkTake
    <3>2. \A k \in 1..Len(sink'[s]) : sink'[s][k] = sink[s][k + 1] /\ k + 1 \in 1..Len(sink[s])
      BY <1>4, SinkTake
    <3> QED
      BY <1>0, <1>4, <3>1, <3>2 DEF ForwardSink
  <2>2. PICK n \in Nat : /\ InLine' = InLine \cup {n} /\ At(n)' = sink[s][1]
                         /\ \A i \in InLine : i < n /\ At(i)' = At(i)
    BY <2>1, LinePush
  <2>3. ASSUME NEW i \in InLine, Line(i) PROVE Line(i)'
    <3>1. CASE FollowsInLine(i, r)
      BY <2>2, <3>1 DEF FollowsInLine
    <3>2. CASE FollowsInSink(0, r)
      <4>1. PICK j \in 1..Len(sink[s]) : sink[s][j] = RepliedEvent(r)
        BY <3>2 DEF FollowsInSink
      <4>2. CASE j = 1
        BY <2>2, <4>1, <4>2 DEF FollowsInLine
      <4>3. CASE j # 1
        <5>1. j - 1 \in 1..Len(sink'[s]) /\ (j - 1) + 1 = j
          BY <1>0, <2>1, <4>3
        <5>2. sink'[s][j - 1] = RepliedEvent(r)
          BY <2>1, <4>1, <5>1
        <5> QED
          BY <5>1, <5>2 DEF FollowsInSink
      <4> QED
        BY <4>2, <4>3
    <3> QED
      BY <2>3, <3>1, <3>2
  <2>4. ASSUME NEW i \in 1..Len(sink[s]), FollowsInSink(i, r) PROVE FollowsInSink(i - 1, r)'
    <3>1. PICK j \in 1..Len(sink[s]) : j > i /\ sink[s][j] = RepliedEvent(r)
      BY <2>4 DEF FollowsInSink
    <3>2. j - 1 \in 1..Len(sink'[s]) /\ (j - 1) + 1 = j /\ j - 1 > i - 1
      BY <1>0, <2>1, <3>1
    <3>3. sink'[s][j - 1] = RepliedEvent(r)
      BY <2>1, <3>1, <3>2
    <3> QED
      BY <3>2, <3>3 DEF FollowsInSink
  <2>5. IsRequest(sink[s][1], r) => FollowsInSink(0, r)'
    <3>1. 1 - 1 = 0
      OBVIOUS
    <3> QED
      BY <1>1, <2>1, <2>4, <3>1
  <2>6. \A i \in InLine' : IsRequest(At(i)', r) => Line(i)'
    BY <1>1, <2>2, <2>3, <2>5
  <2>7. ASSUME NEW i \in 1..Len(sink'[s]), IsRequest(sink'[s][i], r) PROVE FollowsInSink(i, r)'
    <3>1. i + 1 \in 1..Len(sink[s]) /\ IsRequest(sink[s][i + 1], r) /\ (i + 1) - 1 = i
      BY <1>0, <2>1, <2>7
    <3>2. FollowsInSink((i + 1) - 1, r)'
      BY <1>1, <2>4, <3>1
    <3> QED
      BY <3>1, <3>2
  <2> QED
    BY <2>6, <2>7 DEF AnswerBehind
<1>5. CASE DrainTake /\ sink'[s] = sink[s]
  <2>1. /\ \A i \in InLine' : i + 1 \in InLine /\ At(i)' = At(i + 1)
        /\ \A i \in InLine : i - 1 \in InLine' /\ At(i - 1)' = At(i)
    BY <1>5, LineTake
  <2>2. ASSUME NEW i \in InLine', FollowsInLine(i + 1, r) PROVE FollowsInLine(i, r)'
    <3>1. PICK j \in InLine : j > i + 1 /\ At(j) = RepliedEvent(r)
      BY <2>2 DEF FollowsInLine
    <3>2. j - 1 \in InLine' /\ At(j - 1)' = RepliedEvent(r) /\ j - 1 > i
      BY <1>0, <2>1, <3>1
    <3> QED
      BY <3>2 DEF FollowsInLine
  <2>3. FollowsInSink(0, r) => FollowsInSink(0, r)'
    BY <1>5 DEF FollowsInSink
  <2>4. \A i \in InLine' : IsRequest(At(i)', r) => Line(i)'
    BY <1>1, <2>1, <2>2, <2>3
  <2> QED
    BY <1>1, <1>5, <2>4 DEF AnswerBehind, FollowsInSink
<1>6. CASE (DrainRoute \/ DrainEmit) /\ sink'[s] = sink[s]
  <2>1. /\ \A i \in InLine' : i \in InLine /\ At(i)' = At(i)
        /\ \A i \in InLine : i > 0 => i \in InLine'
    BY <1>0, <1>6, LineRoute, LineEmit
  <2>2. ASSUME NEW i \in InLine', FollowsInLine(i, r) PROVE FollowsInLine(i, r)'
    <3>1. PICK j \in InLine : j > i /\ At(j) = RepliedEvent(r)
      BY <2>2 DEF FollowsInLine
    <3>2. j \in InLine'
      BY <1>0, <2>1, <3>1
    <3> QED
      BY <2>1, <3>1, <3>2 DEF FollowsInLine
  <2>3. FollowsInSink(0, r) => FollowsInSink(0, r)'
    BY <1>6 DEF FollowsInSink
  <2>4. \A i \in InLine' : IsRequest(At(i)', r) => Line(i)'
    BY <1>1, <2>1, <2>2, <2>3
  <2> QED
    BY <1>1, <1>6, <2>4 DEF AnswerBehind, FollowsInSink
<1>7. CASE /\ channel' = channel /\ drain' = drain
           /\ Len(sink'[s]) = Len(sink[s]) + 1
           /\ \A k \in 1..Len(sink[s]) : sink'[s][k] = sink[s][k]
           /\ ~IsRequest(sink'[s][Len(sink[s]) + 1], r)
  <2>1. InLine' = InLine /\ \A i : At(i)' = At(i)
    BY <1>7, LineSame
  <2>2. ASSUME NEW i \in Nat, FollowsInSink(i, r) PROVE FollowsInSink(i, r)'
    <3>1. PICK j \in 1..Len(sink[s]) : j > i /\ sink[s][j] = RepliedEvent(r)
      BY <2>2 DEF FollowsInSink
    <3>2. j \in 1..Len(sink'[s]) /\ sink'[s][j] = RepliedEvent(r)
      BY <1>0, <1>7, <3>1
    <3> QED
      BY <3>1, <3>2 DEF FollowsInSink
  <2>3. \A i \in InLine' : IsRequest(At(i)', r) => Line(i)'
    BY <1>1, <2>1, <2>2 DEF FollowsInLine
  <2>4. ASSUME NEW i \in 1..Len(sink'[s]), IsRequest(sink'[s][i], r)
        PROVE  i \in 1..Len(sink[s]) /\ IsRequest(sink[s][i], r)
    BY <1>0, <1>7, <2>4
  <2> QED
    BY <1>1, <2>2, <2>3, <2>4 DEF AnswerBehind
<1> QED
  BY <1>2, <1>3, <1>4, <1>5, <1>6, <1>7, PipeCases

(* Whoever closes an OpenCode request sends its answer, or loses an event. *)
LEMMA Closes ==
    ASSUME TypeOK, [Next]_vars, NEW r \in Request, r \in oc_open, r \notin oc_open'
    PROVE  Owner[r] \in live /\ channel' = channel /\ drain' = drain /\ Emit(Owner[r], RepliedEvent(r))
<1>1. ASSUME UNCHANGED oc_open PROVE FALSE
  BY <1>1
<1>2. ASSUME NEW q \in Request, OpenCodeAnswered(q)
      PROVE  Owner[r] \in live /\ channel' = channel /\ drain' = drain /\ Emit(Owner[r], RepliedEvent(r))
  BY <1>2 DEF OpenCodeAnswered
<1>3. ASSUME NEW q \in Request, ReplyHttp(q)
      PROVE  Owner[r] \in live /\ channel' = channel /\ drain' = drain /\ Emit(Owner[r], RepliedEvent(r))
  BY <1>3 DEF ReplyHttp, HasReplier, opencode
<1>4. CASE UNCHANGED vars
  BY <1>1, <1>4 DEF vars, opencode
<1>5. CASE Server
  BY <1>1, <1>5 DEF Server, Forward, Sweep, SendExpiry, ForwardSink, opencode
<1>6. CASE Drain
  BY <1>1, <1>6 DEF Drain, DrainTake, DrainRoute, DrainEmit, opencode
<1>7. CASE Reply
  BY <1>1, <1>3, <1>7 DEF Reply, ReplyHook, ReplyCheck, ReplyDemote, ReplyResolve, opencode
<1>8. CASE Harness
  BY <1>1, <1>2, <1>8
  DEF Harness, ReceivePermissionRequest, ReceivePostToolUse, ReceiveHook, ClientGivesUp,
      OpenCodeAsks, opencode
<1>9. CASE User
  BY <1>1, <1>9
  DEF User, Click, Submit, Abort, DropSession, Remove, AnnounceRemoved, opencode
<1>10. CASE Silence
  BY <1>1, <1>10 DEF Silence, Tick, opencode
<1> QED
  BY <1>4, <1>5, <1>6, <1>7, <1>8, <1>9, <1>10 DEF Next

\* An answer put into the sink goes behind its request.
LEMMA AnswerSent ==
    ASSUME TypeOK, TypeOK', [Next]_vars, NEW r \in Request, r \in oc_open, r \notin oc_open',
           Owner[r] \notin sse_lost'
    PROVE  AnswerBehind(r)' /\ FollowsInSink(0, r)'
<1> DEFINE s == Owner[r]
<1>1. s \in Session /\ Emit(s, RepliedEvent(r)) /\ RepliedEvent(r) \in Event
  BY Closes, EventType DEF TypeOK
<1>2. /\ Len(sink[s]) \in Nat /\ Len(sink'[s]) = Len(sink[s]) + 1
      /\ sink'[s][Len(sink[s]) + 1] = RepliedEvent(r)
  BY <1>1, SinkPut
<1>3. ASSUME NEW i \in Nat, i < Len(sink'[s]) PROVE FollowsInSink(i, r)'
  <2>1. Len(sink'[s]) \in 1..Len(sink'[s]) /\ sink'[s][Len(sink'[s])] = RepliedEvent(r)
    BY <1>2
  <2> QED
    BY <1>3, <2>1 DEF FollowsInSink
<1>4. FollowsInSink(0, r)'
  BY <1>2, <1>3
<1>5. ASSUME NEW i \in 1..Len(sink'[s]), IsRequest(sink'[s][i], r) PROVE FollowsInSink(i, r)'
  <2>1. ~IsRequest(RepliedEvent(r), r)
    BY EventFacts DEF SourceTag
  <2>2. i # Len(sink'[s])
    BY <1>2, <1>5, <2>1
  <2> QED
    BY <1>2, <1>3, <2>2
<1> QED
  BY <1>4, <1>5 DEF AnswerBehind

(* What raum remembers of a request, it does not forget. *)
LEMMA Remembers ==
    ASSUME TypeOK, [Next]_vars
    PROVE  /\ asked \subseteq asked' /\ sse_lost \subseteq sse_lost' /\ live' \subseteq live
           /\ \A r \in Request : verdict[r] \subseteq verdict'[r]
<1> DEFINE Goal == /\ asked \subseteq asked' /\ sse_lost \subseteq sse_lost' /\ live' \subseteq live
                   /\ \A r \in Request : verdict[r] \subseteq verdict'[r]
<1>1. ASSUME NEW rs, NEW v, SetVerdict(rs, v)
      PROVE  \A r \in Request : verdict[r] \subseteq verdict'[r]
  BY <1>1 DEF SetVerdict
<1>2. ASSUME NEW s, NEW ev, Emit(s, ev) PROVE sse_lost \subseteq sse_lost'
  BY <1>2 DEF Emit
<1>3. CASE UNCHANGED vars
  BY <1>3 DEF vars, registry, opencode, world
<1>4. CASE Server
  BY <1>1, <1>4 DEF Server, Forward, Sweep, SendExpiry, ForwardSink, registry, opencode, world
<1>5. CASE Drain
  BY <1>5 DEF Drain, DrainTake, DrainRoute, DrainEmit, registry, opencode, world
<1>6. CASE Reply
  <2>1. ASSUME NEW r \in Request, ReplyHttp(r) PROVE Goal
    BY <1>1, <1>2, <2>1 DEF ReplyHttp, registry, opencode, world
  <2> QED
    BY <1>1, <1>6, <2>1
    DEF Reply, ReplyHook, ReplyCheck, ReplyDemote, ReplyResolve, registry, opencode, world
<1>7. CASE Harness
  BY <1>1, <1>2, <1>7
  DEF Harness, ReceivePermissionRequest, ReceivePostToolUse, ReceiveHook, ClientGivesUp,
      OpenCodeAsks, OpenCodeAnswered, registry, opencode, world
<1>8. CASE User
  BY <1>1, <1>8
  DEF User, Click, Submit, Abort, DropSession, Remove, AnnounceRemoved, registry, opencode, world
<1>9. CASE Silence
  BY <1>9 DEF Silence, Tick, registry, opencode, world
<1> QED
  BY <1>3, <1>4, <1>5, <1>6, <1>7, <1>8, <1>9 DEF Next

(* Who asks an OpenCode request opens it. *)
LEMMA NewlyAsked ==
    ASSUME TypeOK, [Next]_vars, NEW r \in Request, r \in asked', r \notin asked,
           ReqKind[r] = "opencode"
    PROVE  r \in oc_open'
<1>1. ASSUME UNCHANGED asked PROVE FALSE
  BY <1>1
<1>2. CASE UNCHANGED vars
  BY <1>1, <1>2 DEF vars, world
<1>3. CASE Server
  BY <1>1, <1>3 DEF Server, Forward, Sweep, SendExpiry, ForwardSink, world
<1>4. CASE Drain
  BY <1>1, <1>4 DEF Drain, DrainTake, DrainRoute, DrainEmit, world
<1>5. CASE Reply
  BY <1>1, <1>5
  DEF Reply, ReplyHttp, ReplyHook, ReplyCheck, ReplyDemote, ReplyResolve, world
<1>6. CASE Harness
  BY <1>1, <1>6
  DEF Harness, ReceivePermissionRequest, ReceivePostToolUse, ReceiveHook, ClientGivesUp,
      OpenCodeAsks, OpenCodeAnswered, world
<1>7. CASE User
  BY <1>1, <1>7 DEF User, Click, Submit, Abort, DropSession, Remove, AnnounceRemoved, world
<1>8. CASE Silence
  BY <1>1, <1>8 DEF Silence, Tick, world
<1> QED
  BY <1>2, <1>3, <1>4, <1>5, <1>6, <1>7, <1>8 DEF Next

\* No answer is on its way at the start.
LEMMA AnswersInit == Init => Answers
BY DEF Init, Answers

\* Every step keeps the answers behind their requests.
LEMMA AnswersStep == TypeOK /\ TypeOK' /\ Traffic /\ Answers /\ [Next]_vars => Answers'
<1> SUFFICES ASSUME TypeOK, TypeOK', Traffic, Answers, [Next]_vars, NEW r \in Request,
                    ReqKind[r] = "opencode", r \in asked' \ oc_open', Owner[r] \in live' \ sse_lost'
             PROVE  AnswerBehind(r)'
  BY DEF Answers
<1>1. r \in asked /\ Owner[r] \in live \ sse_lost /\ Owner[r] \in Session
  BY NewlyAsked, Remembers DEF TypeOK
<1>2. CASE r \in oc_open
  BY <1>2, AnswerSent
<1>3. CASE r \notin oc_open
  <2>1. AnswerBehind(r)
    BY <1>1, <1>3 DEF Answers
  <2> QED
    BY <1>1, <2>1, AnswerStays
<1> QED
  BY <1>2, <1>3

-----------------------------------------------------------------------------
(* Nobody is left waiting.                                                  *)

\* Nothing is held back at the start.
LEMMA HeldInit == Init => Held
BY DEF Init, Held, NoDrain

\* No step holds back anything but a tool result for parked siblings.
LEMMA HeldStep == TypeOK /\ Held /\ [Next]_vars => Held'
<1> SUFFICES ASSUME TypeOK, Held, [Next]_vars PROVE Held'
  OBVIOUS
<1>1. ASSUME drain' = drain PROVE Held'
  BY <1>1 DEF Held
<1>2. CASE DrainTake
  BY <1>2 DEF DrainTake, Held
<1>3. CASE DrainRoute
  <2>1. drain' = [drain EXCEPT !.pc = "emit"] \/ drain' = NoDrain
    BY <1>3 DEF DrainRoute
  <2> QED
    BY <2>1 DEF Held, NoDrain, TypeOK
<1>4. CASE DrainEmit
  BY <1>4 DEF DrainEmit, Held, NoDrain
<1>5. \/ drain' = drain \/ DrainTake \/ DrainRoute \/ DrainEmit
  BY LineCases DEF Forward, SendExpiry, ForwardSink
<1> QED
  BY <1>1, <1>2, <1>3, <1>4, <1>5

(* No plain event is a notification that raises a question in the harness's *)
(* own terminal: raum cannot tell its answer from other output, and leaves  *)
(* the machine Waiting until the user types in the pane.                    *)
NoQuestions == \A ev \in PlainEvents : ev.event # "Notification"

(* An event that leaves a machine waiting and unarmed is a request, or has  *)
(* left the machine alone.                                                  *)
LEMMA HookWaits ==
    ASSUME NEW m \in Machine, NEW ev, ev.event \in EventName, ev.event # "Notification",
           OnHookEvent(m, ev).state = "waiting", ~OnHookEvent(m, ev).activity_armed
    PROVE  ev.event = "PermissionRequest" \/ OnHookEvent(m, ev) = m
<1> DEFINE started == IF ev.event = "SessionStart" THEN ArmActivity(m) ELSE m
           kind == Classify(m.harness, ev)
<1>1. started \in Machine /\ m.silence_only \in BOOLEAN
  BY ArmActivityType DEF Machine
<1>2. ArmActivity(m).activity_armed = TRUE
  BY DEF ArmActivity, Machine
<1>3. [ArmActivity(m) EXCEPT !.state = "working"].state = "working"
  BY ArmActivityType DEF Machine
<1>4. ApplyKind(started, kind).state = TargetState(kind)
  BY <1>1 DEF ApplyKind, Machine
<1>5. /\ ev.event \in {"SessionStart", "PermissionExpired"} => kind = NoKind
      /\ ev.event = "Stop" => kind = "TurnEnd"
      /\ ev.event = "Error" => kind = "Error"
      /\ ev.event \in {"UserPromptSubmit", "PostToolUse"} => kind = "TurnStart"
  BY DEF Classify
<1>6. TargetState("TurnEnd") # "waiting" /\ TargetState("Error") # "waiting"
      /\ TargetState("TurnStart") # "waiting"
  BY DEF TargetState
<1> HIDE DEF started, kind
<1>7. OnHookEvent(m, ev) =
          CASE m.silence_only /\ ev.event = "SessionStart" -> started
            [] m.silence_only /\ ev.event # "SessionStart" ->
                   [ArmActivity(m) EXCEPT !.state = "working"]
            [] ~m.silence_only /\ kind = NoKind -> started
            [] OTHER -> ApplyKind(started, kind)
  BY DEF OnHookEvent, started, kind
<1>8. CASE m.silence_only /\ ev.event # "SessionStart"
  BY <1>3, <1>7, <1>8
<1>9. CASE started = OnHookEvent(m, ev)
  BY <1>2, <1>9 DEF started
<1>10. CASE ~m.silence_only /\ kind # NoKind
  <2>1. OnHookEvent(m, ev) = ApplyKind(started, kind)
    BY <1>7, <1>10
  <2>2. ev.event \notin {"SessionStart", "PermissionExpired"} /\ TargetState(kind) = "waiting"
    BY <1>4, <1>5, <1>10, <2>1
  <2> QED
    BY <1>5, <1>6, <2>2 DEF EventName
<1> QED
  BY <1>1, <1>7, <1>8, <1>9, <1>10

(* The only step after which a machine newly waits unarmed. *)
LEMMA NewlyWaits ==
    ASSUME NoQuestions, TypeOK, HarnessInv, Traffic, [Next]_vars,
           NEW s \in Session, Waits(s)', ~Waits(s)
    PROVE  /\ DrainRoute
           /\ \E r \in Request : /\ IsRequest(At(0), r)
                                 /\ Owner[r] \in {s, NoSession} /\ ReqKind[r] = KindOf[s]
<1>0. machines \in [Session -> Machine] /\ live' \subseteq live
  BY Remembers DEF TypeOK
<1>1. ASSUME machines'[s] = machines[s] PROVE FALSE
  BY <1>0, <1>1 DEF Waits
<1>2. ASSUME NEW recent \in BOOLEAN
      PROVE  /\ ArmActivity(machines[s]).activity_armed = TRUE
             /\ OnPermissionReply(machines[s]).state # "waiting"
             /\ OnUserAbort(machines[s]).state # "waiting"
             /\ TickSilence(machines[s], recent).state = "waiting" =>
                    TickSilence(machines[s], recent) = machines[s]
  BY <1>0, ArmActivityType DEF ArmActivity, OnPermissionReply, OnUserAbort, TickSilence, Machine
<1>3. ASSUME NEW r \in Request, ReplyDemote(r) PROVE FALSE
  BY <1>0, <1>1, <1>2, <1>3 DEF ReplyDemote, Update, Waits
<1>4. ASSUME NEW t \in Session, Submit(t) PROVE FALSE
  BY <1>0, <1>1, <1>2, <1>4 DEF Submit, Update, Waits
<1>5. ASSUME NEW t \in Session, Abort(t) PROVE FALSE
  BY <1>0, <1>1, <1>2, <1>5 DEF Abort, Update, Waits
<1>6. ASSUME NEW t \in Session, NEW recent \in BOOLEAN, Tick(t, recent) PROVE FALSE
  BY <1>0, <1>1, <1>2, <1>6 DEF Tick, Update, Waits
<1>7. DrainRoute
  <2>1. CASE UNCHANGED vars
    BY <1>1, <2>1 DEF vars, registry
  <2>2. CASE Server
    BY <1>1, <2>2 DEF Server, Forward, Sweep, SendExpiry, ForwardSink, registry
  <2>3. CASE Drain
    BY <1>1, <2>3 DEF Drain, DrainTake, DrainEmit, registry
  <2>4. CASE Reply
    BY <1>1, <1>3, <2>4 DEF Reply, ReplyHttp, ReplyHook, ReplyCheck, ReplyResolve, registry
  <2>5. CASE Harness
    BY <1>1, <2>5
    DEF Harness, ReceivePermissionRequest, ReceivePostToolUse, ReceiveHook, ClientGivesUp,
        OpenCodeAsks, OpenCodeAnswered, registry
  <2>6. CASE User
    BY <1>1, <1>4, <1>5, <2>6 DEF User, Click, DropSession, Remove, AnnounceRemoved, registry
  <2>7. CASE Silence
    BY <1>6, <2>7 DEF Silence
  <2> QED
    BY <2>1, <2>2, <2>3, <2>4, <2>5, <2>6, <2>7 DEF Next
<1>8. 0 \in InLine /\ At(0) = drain.ev /\ Proper(drain.ev)
  BY <1>7, LineRoute DEF At, Traffic
<1>9. /\ s \in RouteTarget(drain.ev.harness, drain.ev.session_id)
      /\ machines'[s] = OnHookEvent(machines[s], drain.ev)
  BY <1>1, <1>2, <1>7, RouteEffect DEF Waits
<1>10. drain.ev.event = "PermissionRequest"
  <2>1. drain.ev.event \in EventName
    BY DEF TypeOK, Event
  <2>2. OnHookEvent(machines[s], drain.ev) # machines[s]
    BY <1>1, <1>9
  <2>3. drain.ev.event # "Notification"
    BY <1>8 DEF Proper, NoQuestions
  <2> QED
    BY <1>0, <1>9, <2>1, <2>2, <2>3, HookWaits DEF Waits
<1>11. PICK r \in Request : /\ IsRequest(drain.ev, r) /\ drain.ev.harness = ReqKind[r]
                            /\ drain.ev.session_id = Owner[r]
  BY <1>8, <1>10 DEF Proper
<1>12. Owner[r] \in {s, NoSession} /\ ReqKind[r] = KindOf[s]
  BY <1>9, <1>11 DEF RouteTarget, HarnessInv, TypeOK
<1> QED
  BY <1>7, <1>8, <1>11, <1>12

(* An expiry or an answer that the drain loop routes to a waiting machine   *)
(* does not leave it waiting unarmed.                                       *)
LEMMA LandsHome ==
    ASSUME TypeOK, HarnessInv, Held, DrainRoute, NEW s \in Session, s \in live, NEW r \in Request,
           Owner[r] = s, ReqKind[r] = KindOf[s],
           \/ At(0) = ExpiredEvent(r)
           \/ At(0) = RepliedEvent(r) /\ ReqKind[r] = "opencode"
    PROVE  ~Waits(s)'
<1> DEFINE ev == drain.ev
           target == RouteTarget(ev.harness, ev.session_id)
           Hook(m) == OnHookEvent(m, ev)
<1>1. machines \in [Session -> Machine] /\ machines[s] \in Machine /\ s # NoSession
  BY FlowAssumption DEF TypeOK, FlowAssumption
<1>2. ev = At(0) /\ ev.harness = KindOf[s] /\ ev.session_id = s
  BY DEF At, ExpiredEvent, RepliedEvent, HookEv
<1>3. s \in target
  BY <1>1, <1>2 DEF RouteTarget, HarnessInv
<1>4. CASE At(0) = ExpiredEvent(r)
  <2>1. ev.event = "PermissionExpired" /\ ~drain.siblings
    BY <1>2, <1>4 DEF ExpiredEvent, HookEv, Held
  <2>2. Update(target, ArmActivity)
    BY <2>1 DEF DrainRoute
  <2>3. machines'[s] = ArmActivity(machines[s])
    BY <1>3, <2>2 DEF Update
  <2> QED
    BY <1>1, <2>3 DEF ArmActivity, Waits, Machine
<1>5. CASE At(0) = RepliedEvent(r)
  <2>1. ev.event = "Stop" /\ ~drain.siblings
    BY <1>2, <1>5 DEF RepliedEvent, HookEv, Held
  <2>2. Update(target, Hook)
    BY <2>1 DEF DrainRoute
  <2>3. machines'[s] = OnHookEvent(machines[s], ev)
    BY <1>3, <2>2 DEF Update
  <2>4. ev.event \in EventName /\ ev.event \notin {"Notification", "PermissionRequest"}
    BY <2>1 DEF EventName
  <2>5. OnHookEvent(machines[s], ev).state # "waiting"
    <3> DEFINE m == machines[s]
    <3>1. Classify(m.harness, ev) = "TurnEnd" /\ "TurnEnd" # NoKind
      BY <2>1 DEF Classify, NoKind
    <3>2. ArmActivity(m) \in Machine /\ m.silence_only \in BOOLEAN
      BY <1>1, ArmActivityType DEF Machine
    <3>3. [ArmActivity(m) EXCEPT !.state = "working"].state = "working"
      BY <3>2 DEF Machine
    <3>4. ApplyKind(m, "TurnEnd").state = "completed"
      BY <1>1 DEF ApplyKind, TargetState, Machine
    <3>5. OnHookEvent(m, ev) = IF m.silence_only THEN [ArmActivity(m) EXCEPT !.state = "working"]
                                                 ELSE ApplyKind(m, "TurnEnd")
      BY <2>1, <3>1, <3>2 DEF OnHookEvent
    <3> QED
      BY <3>3, <3>4, <3>5
  <2> QED
    BY <2>3, <2>5 DEF Waits
<1> QED
  BY <1>4, <1>5

(* Whatever is in the line keeps its place until the drain loop has         *)
(* finished with it.                                                        *)
LEMMA PlaceMoves ==
    ASSUME TypeOK, TypeOK', Traffic, [Next]_vars, NEW i \in InLine
    PROVE  \/ i = 0 /\ (DrainRoute \/ DrainEmit)
           \/ \E j \in InLine' : /\ At(j)' = At(i)
                                 /\ j = 0 => drain'.pc = "route" \/ (i = 0 /\ drain' = drain)
<1>0. InLine \subseteq Nat
  BY DEF TypeOK, InLine
<1>1. CASE channel' = channel /\ drain' = drain
  BY <1>1, LineSame
<1>2. ASSUME NEW ev, channel' = Append(channel, ev), drain' = drain
      PROVE  \E j \in InLine' : /\ At(j)' = At(i)
                                /\ j = 0 => drain'.pc = "route" \/ (i = 0 /\ drain' = drain)
  BY <1>2, LinePush
<1>3. CASE DrainTake
  BY <1>3, LineTake
<1>4. CASE (DrainRoute \/ DrainEmit) /\ i # 0
  <2>1. i \in InLine' /\ At(i)' = At(i)
    BY <1>4, LineRoute, LineEmit
  <2> QED
    BY <1>4, <2>1
<1> QED
  BY <1>1, <1>2, <1>3, <1>4, LineCases, PushProper

(* A reply that has got past the transport moves by its own steps only. *)
LEMMA ReplyMoves ==
    ASSUME TypeOK, [Next]_vars, NEW r \in Request, reply[r].pc \in {"check", "demote"}
    PROVE  reply'[r] = reply[r] \/ ReplyCheck(r) \/ ReplyDemote(r)
<1>0. reply \in [Request -> ReplyTask]
  BY DEF TypeOK
<1>1. ASSUME NEW q \in Request, q # r,
             \/ \E pc \in {"idle", "sent", "check", "demote", "resolve"} : ReplyTo(q, pc)
             \/ Failed(q)
      PROVE  reply'[r] = reply[r]
  BY <1>0, <1>1 DEF ReplyTo, Failed
<1>2. ASSUME NEW q \in Request, NEW from, Click(q, from) PROVE reply'[r] = reply[r]
  BY <1>0, <1>2 DEF Click
<1>3. CASE UNCHANGED vars
  BY <1>3 DEF vars
<1>4. CASE Server
  BY <1>4 DEF Server, Forward, Sweep, SendExpiry, ForwardSink
<1>5. CASE Drain
  BY <1>5 DEF Drain, DrainTake, DrainRoute, DrainEmit
<1>6. CASE Reply
  <2>1. ASSUME NEW q \in Request, ReplyHttp(q) \/ ReplyHook(q) \/ ReplyResolve(q)
        PROVE  reply'[r] = reply[r]
    <3>1. q # r
      BY <2>1 DEF ReplyHttp, ReplyHook, ReplyResolve
    <3>2. \/ ReplyTo(q, "demote") \/ ReplyTo(q, "check") \/ ReplyTo(q, "resolve")
          \/ Failed(q)
      BY <2>1 DEF ReplyHttp, ReplyHook, ReplyResolve, Failed
    <3> QED
      BY <1>1, <3>1, <3>2
  <2>2. ASSUME NEW q \in Request, ReplyCheck(q) \/ ReplyDemote(q), q # r
        PROVE  reply'[r] = reply[r]
    <3>1. ReplyTo(q, "demote") \/ ReplyTo(q, "resolve")
      BY <2>2 DEF ReplyCheck, ReplyDemote
    <3> QED
      BY <1>1, <2>2, <3>1
  <2> QED
    BY <1>6, <2>1, <2>2 DEF Reply
<1>7. CASE Harness
  BY <1>7
  DEF Harness, ReceivePermissionRequest, ReceivePostToolUse, ReceiveHook, ClientGivesUp,
      OpenCodeAsks, OpenCodeAnswered
<1>8. CASE User
  BY <1>2, <1>8 DEF User, Submit, Abort, DropSession, Remove, AnnounceRemoved
<1>9. CASE Silence
  BY <1>9 DEF Silence, Tick
<1> QED
  BY <1>3, <1>4, <1>5, <1>6, <1>7, <1>8, <1>9 DEF Next

(* What comes to a waiting session's rescue arrives, or does its work. *)
LEMMA RescueMoves ==
    ASSUME TypeOK, TypeOK', Traffic, HarnessInv, Held, [Next]_vars,
           NEW s \in Session, Waits(s), Waits(s)',
           NEW r \in Request, Owner[r] = s, ReqKind[r] = KindOf[s], Rescues(r)
    PROVE  Rescues(r)' \/ OpenRequests(s)' # {}
<1>0. s \in live /\ s \in live' /\ s # NoSession
  BY FlowAssumption DEF Waits, FlowAssumption
<1>1. CASE r \in expiring
  <2>1. r \in expiring' \/ \E i \in InLine' : i > 0 /\ Expires(i, r)'
    BY <1>1, SweepMoves
  <2>2. InLine' \subseteq Nat
    BY DEF TypeOK, InLine
  <2> QED
    BY <2>1, <2>2 DEF Rescues, Expires
<1>2. ASSUME NEW c \in Conn, NEW q \in Request, ExpiryFrom(c, r, q) PROVE Rescues(r)'
  <2>1. conn[c] = <<ExpiredEvent(r), PostToolUse(q)>> /\ conn[c] # <<>>
    BY <1>2, TwoEvents DEF ExpiryFrom
  <2>2. CASE conn'[c] = conn[c]
    BY <2>1, <2>2 DEF Rescues, ExpiryFrom
  <2>3. CASE Forward(c)
    <3>1. channel' = Append(channel, ExpiredEvent(r)) /\ drain' = drain
      BY <2>1, <2>3, TwoEvents DEF Forward
    <3>2. \E n \in Nat : n > 0 /\ n \in InLine' /\ At(n)' = ExpiredEvent(r)
      BY <3>1, LinePush
    <3> QED
      BY <3>2 DEF Rescues
  <2> QED
    BY <2>1, <2>2, <2>3, ConnKept
<1>3. ASSUME NEW i \in InLine, At(i) = ExpiredEvent(r), i = 0 => drain.pc = "route"
      PROVE  Rescues(r)'
  <2>1. CASE i = 0 /\ DrainRoute
    BY <1>0, <1>3, <2>1, LandsHome
  <2>2. CASE i = 0 /\ DrainEmit
    BY <1>3, <2>2 DEF DrainEmit
  <2>3. ASSUME NEW j \in InLine', At(j)' = At(i),
               j = 0 => drain'.pc = "route" \/ (i = 0 /\ drain' = drain)
        PROVE  Rescues(r)'
    BY <1>3, <2>3 DEF Rescues
  <2> QED
    BY <2>1, <2>2, <2>3, PlaceMoves
<1>4. CASE reply[r].pc \in {"check", "demote"}
  <2>1. CASE reply'[r] = reply[r]
    BY <1>4, <2>1 DEF Rescues
  <2>2. CASE ReplyCheck(r)
    <3>1. CASE ParkedForSession(s) = {}
      <4>1. ReplyTo(r, "demote")
        BY <1>0, <2>2, <3>1 DEF ReplyCheck
      <4>2. reply'[r].pc = "demote"
        BY <4>1 DEF ReplyTo, TypeOK, ReplyTask
      <4> QED
        BY <4>2 DEF Rescues
    <3>2. CASE ParkedForSession(s) # {}
      <4>1. parked' = parked
        BY <2>2 DEF ReplyCheck, socket
      <4> QED
        BY <3>2, <4>1 DEF ParkedForSession, OpenRequests
    <3> QED
      BY <3>1, <3>2
  <2>3. CASE ReplyDemote(r)
    <3>1. machines'[s] = OnPermissionReply(machines[s]) /\ machines[s] \in Machine
      BY <1>0, <2>3 DEF ReplyDemote, Update, TypeOK
    <3>2. OnPermissionReply(machines[s]).state # "waiting"
      BY <3>1, ArmActivityType DEF OnPermissionReply, Machine
    <3> QED
      BY <3>1, <3>2 DEF Waits
  <2> QED
    BY <1>4, <2>1, <2>2, <2>3, ReplyMoves
<1>5. CASE ReqKind[r] = "opencode" /\ FollowsInSink(0, r)
  <2>1. \/ FollowsInSink(0, r)'
        \/ \E n \in Nat : n \in InLine' /\ At(n)' = RepliedEvent(r)
    BY <1>0, <1>5, AnswerMoves
  <2> QED
    BY <1>5, <2>1 DEF Rescues
<1>6. ASSUME ReqKind[r] = "opencode", NEW i \in InLine, At(i) = RepliedEvent(r)
      PROVE  Rescues(r)'
  <2>1. CASE i = 0 /\ DrainRoute
    BY <1>0, <1>6, <2>1, LandsHome
  <2>2. CASE i = 0 /\ DrainEmit
    <3>1. drain.ev.event = "Stop" /\ drain.pc = "emit"
      BY <1>6, <2>2 DEF At, RepliedEvent, HookEv, DrainEmit
    <3> QED
      BY <3>1 DEF Traffic
  <2>3. ASSUME NEW j \in InLine', At(j)' = At(i) PROVE Rescues(r)'
    BY <1>6, <2>3 DEF Rescues
  <2> QED
    BY <2>1, <2>2, <2>3, PlaceMoves
<1> QED
  BY <1>1, <1>2, <1>3, <1>4, <1>5, <1>6 DEF Rescues

(* Who takes a request out of PendingRequests. *)
LEMMA Unparks ==
    ASSUME TypeOK, [Next]_vars, NEW r \in Request, r \in parked, r \notin parked'
    PROVE  \/ reply'[r].pc = "check"
           \/ "lost" \in verdict'[r] \/ "dropped" \in verdict'[r]
           \/ Sweep(r)
           \/ "evicted" \in verdict'[r] /\ \E c \in Conn, q \in Request : ReceivePostToolUse(c, q)
<1> DEFINE Goal == \/ reply'[r].pc = "check"
                   \/ "lost" \in verdict'[r] \/ "dropped" \in verdict'[r]
                   \/ Sweep(r)
                   \/ /\ "evicted" \in verdict'[r]
                      /\ \E c \in Conn, q \in Request : ReceivePostToolUse(c, q)
<1>1. ASSUME UNCHANGED parked PROVE FALSE
  BY <1>1
<1>2. ASSUME NEW q \in Request, Sweep(q) PROVE Goal
  BY <1>2 DEF Sweep, Unpark
<1>3. ASSUME NEW s \in Session, DropSession(s) PROVE Goal
  BY <1>3 DEF DropSession, Unpark, SetVerdict
<1>4. ASSUME NEW c \in Conn, NEW q \in Request, ReceivePostToolUse(c, q) PROVE Goal
  BY <1>4 DEF ReceivePostToolUse, Unpark, SetVerdict
<1>5. ASSUME NEW q \in Request, ReplyHook(q) PROVE Goal
  <2>1. q = r /\ (ReplyTo(r, "check") \/ SetVerdict({r}, "lost"))
    BY <1>5 DEF ReplyHook, Unpark
  <2>2. ReplyTo(r, "check") => reply'[r].pc = "check"
    BY DEF ReplyTo, TypeOK, ReplyTask
  <2> QED
    BY <2>1, <2>2 DEF SetVerdict
<1>6. ASSUME NEW c \in Conn, NEW q \in Request, ReceivePermissionRequest(c, q) PROVE FALSE
  BY <1>6 DEF ReceivePermissionRequest, Park
<1>7. CASE UNCHANGED vars
  BY <1>1, <1>7 DEF vars, socket
<1>8. CASE Server
  BY <1>1, <1>2, <1>8 DEF Server, Forward, SendExpiry, ForwardSink, socket
<1>9. CASE Drain
  BY <1>1, <1>9 DEF Drain, DrainTake, DrainRoute, DrainEmit, socket
<1>10. CASE Reply
  BY <1>1, <1>5, <1>10 DEF Reply, ReplyHttp, ReplyCheck, ReplyDemote, ReplyResolve, socket
<1>11. CASE Harness
  BY <1>1, <1>4, <1>6, <1>11
  DEF Harness, ReceiveHook, ClientGivesUp, OpenCodeAsks, OpenCodeAnswered, socket
<1>12. CASE User
  BY <1>1, <1>3, <1>12 DEF User, Click, Submit, Abort, Remove, AnnounceRemoved, socket
<1>13. CASE Silence
  BY <1>1, <1>13 DEF Silence, Tick, socket
<1> QED
  BY <1>7, <1>8, <1>9, <1>10, <1>11, <1>12, <1>13 DEF Next

(* A request that is closed in raum's sight leaves a rescue behind. *)
LEMMA OpenLost ==
    ASSUME TypeOK, TypeOK', VerdictInv, Queue, Traffic, [Next]_vars, NEW s \in Session, ~Unseen(s)',
           NEW r \in Request, Owner[r] = s, r \in parked \cup oc_open, r \notin (parked \cup oc_open)'
    PROVE  ReqKind[r] = KindOf[s] /\ Rescues(r)'
<1>1. r \in asked /\ r \in asked' /\ verdict[r] = {}
  BY Remembers DEF VerdictInv
<1>2. /\ ReqKind[r] = KindOf[s] /\ "lost" \notin verdict'[r] /\ "dropped" \notin verdict'[r]
      /\ s \notin sse_lost'
  BY <1>1 DEF Unseen
<1>3. CASE r \in oc_open
  <2>1. FollowsInSink(0, r)' /\ ReqKind[r] = "opencode"
    BY <1>2, <1>3, AnswerSent DEF VerdictInv
  <2> QED
    BY <1>2, <2>1 DEF Rescues
<1>4. CASE r \in parked
  <2>1. CASE reply'[r].pc = "check"
    BY <1>2, <2>1 DEF Rescues
  <2>2. CASE Sweep(r)
    BY <1>2, <2>2 DEF Sweep, Rescues
  <2>3. ASSUME "evicted" \in verdict'[r], NEW c \in Conn, NEW q \in Request, ReceivePostToolUse(c, q)
        PROVE  Rescues(r)'
    <3>1. ExpiryFrom(c, r, q)'
      BY <1>1, <2>3, Evicts
    <3> QED
      BY <3>1 DEF Rescues
  <2> QED
    BY <1>2, <1>4, <2>1, <2>2, <2>3, Unparks
<1> QED
  BY <1>3, <1>4

(* A request that arrives after it was closed is followed by its rescue. *)
LEMMA LateRequest ==
    ASSUME TypeOK, TypeOK', FlowInv, Answers, DrainRoute, NEW s \in Session, s \in live, ~Unseen(s)',
           NEW r \in Request, IsRequest(At(0), r), Owner[r] = s, r \notin parked \cup oc_open
    PROVE  Rescues(r)'
<1>1. /\ 0 \in InLine /\ \A i \in InLine : i # 0 => i \in InLine' /\ At(i)' = At(i)
      /\ conn' = conn /\ sink' = sink /\ expiring' = expiring
      /\ UNCHANGED <<asked, verdict, sse_lost>>
  BY LineRoute DEF DrainRoute, socket, opencode, world
<1>2. InLine \subseteq Nat
  BY DEF TypeOK, InLine
<1>3. r \in asked /\ r \notin shown
  BY <1>1 DEF FlowInv, Announcements, Announced, OnItsWay, OnLine
<1>4. /\ s \notin sse_lost /\ "lost" \notin verdict[r] /\ "dropped" \notin verdict[r]
      /\ "delivered" \notin verdict[r]
  BY <1>1, <1>3 DEF Unseen, FlowInv, Announcements
<1>5. CASE ReqKind[r] = "opencode"
  <2>1. FollowsInLine(0, r) \/ FollowsInSink(0, r)
    BY <1>1, <1>3, <1>4, <1>5 DEF Answers, AnswerBehind
  <2>2. CASE FollowsInLine(0, r)
    <3>1. PICK j \in InLine : j > 0 /\ At(j) = RepliedEvent(r)
      BY <2>2 DEF FollowsInLine
    <3> QED
      BY <1>1, <1>2, <1>5, <3>1 DEF Rescues
  <2>3. CASE FollowsInSink(0, r)
    BY <1>1, <1>5, <2>3 DEF Rescues, FollowsInSink
  <2> QED
    BY <2>1, <2>2, <2>3
<1>6. CASE ReqKind[r] # "opencode"
  <2>1. "evicted" \in verdict[r] \/ "swept" \in verdict[r]
    BY <1>3, <1>4, <1>6 DEF FlowInv, Accounted
  <2>2. ~Settled(r)
    BY <1>1 DEF Settled, NotBehind
  <2>3. ASSUME NEW i \in InLine, Expires(i, r) PROVE Rescues(r)'
    <3>1. i # 0
      BY <1>1, <2>3 DEF Expires, NotBehind
    <3> QED
      BY <1>1, <2>3, <3>1 DEF Rescues, Expires
  <2>4. ASSUME NEW c \in Conn, NEW q \in Request, ExpiryFrom(c, r, q) PROVE Rescues(r)'
    BY <1>1, <2>4 DEF Rescues, ExpiryFrom
  <2>5. CASE r \in expiring
    BY <1>1, <2>5 DEF Rescues
  <2> QED
    BY <2>1, <2>2, <2>3, <2>4, <2>5 DEF FlowInv, Expiries, Proving
<1> QED
  BY <1>5, <1>6

\* No machine waits at the start.
LEMMA ForgottenInit == Init => NobodyForgotten
<1> SUFFICES ASSUME Init, NEW s \in Session PROVE ~Waits(s)
  BY DEF NobodyForgotten
<1>1. machines[s] = [NewMachine(KindOf[s]) EXCEPT !.silence_only = (s \in SilenceOnly)]
  BY DEF Init
<1> QED
  BY <1>1 DEF NewMachine, Waits

\* No step leaves a machine Waiting that nothing would take out of it.
LEMMA ForgottenStep ==
    /\ NoQuestions /\ FlowInv /\ FlowInv' /\ HarnessInv /\ Held /\ Answers
    /\ NobodyForgotten /\ [Next]_vars
    => NobodyForgotten'
<1> SUFFICES ASSUME NoQuestions, FlowInv, FlowInv', HarnessInv, Held, Answers, NobodyForgotten, [Next]_vars,
                    NEW s \in Session, Waits(s)', ~Unseen(s)'
             PROVE  OpenRequests(s)' # {} \/ Rescued(s)'
  BY DEF NobodyForgotten
<1>1. TypeOK /\ TypeOK' /\ VerdictInv /\ Queue /\ Traffic
  BY DEF FlowInv
<1>2. ~Unseen(s)
  BY <1>1, Remembers DEF Unseen, TypeOK
<1>3. CASE Waits(s)
  <2>1. OpenRequests(s) # {} \/ Rescued(s)
    BY <1>2, <1>3 DEF NobodyForgotten
  <2>2. ASSUME NEW r \in OpenRequests(s) PROVE OpenRequests(s)' # {} \/ Rescued(s)'
    <3>1. r \in Request /\ Owner[r] = s /\ r \in parked \cup oc_open
      BY <1>1 DEF OpenRequests, TypeOK
    <3>2. CASE r \in (parked \cup oc_open)'
      BY <3>1, <3>2 DEF OpenRequests
    <3>3. CASE r \notin (parked \cup oc_open)'
      BY <1>1, <3>1, <3>3, OpenLost DEF Rescued
    <3> QED
      BY <3>2, <3>3
  <2>3. CASE Rescued(s)
    <3>1. PICK r \in Request : Owner[r] = s /\ ReqKind[r] = KindOf[s] /\ Rescues(r)
      BY <2>3 DEF Rescued
    <3>2. Rescues(r)' \/ OpenRequests(s)' # {}
      BY <1>1, <1>3, <3>1, RescueMoves
    <3> QED
      BY <3>1, <3>2 DEF Rescued
  <2> QED
    BY <2>1, <2>2, <2>3
<1>4. CASE ~Waits(s)
  <2>1. PICK r \in Request : /\ IsRequest(At(0), r) /\ Owner[r] \in {s, NoSession}
                             /\ ReqKind[r] = KindOf[s]
    BY <1>1, <1>4, NewlyWaits
  <2>2. DrainRoute
    BY <1>1, <1>4, NewlyWaits
  <2>3. s \in live /\ UNCHANGED <<parked, oc_open, asked>>
    BY <1>1, <2>2, Remembers DEF Waits, DrainRoute, socket, opencode, world
  <2>4. r \in asked
    BY <1>1, <2>1, <2>2, LineRoute DEF FlowInv, Announcements, Announced, OnItsWay, OnLine
  <2>5. Owner[r] = s
    BY <2>1, <2>3, <2>4 DEF Unseen
  <2>6. CASE r \in parked \cup oc_open
    BY <2>3, <2>5, <2>6 DEF OpenRequests
  <2>7. CASE r \notin parked \cup oc_open
    BY <1>1, <2>1, <2>2, <2>3, <2>5, <2>7, LateRequest DEF Rescued
  <2> QED
    BY <2>6, <2>7
<1> QED
  BY <1>3, <1>4

(* Once everything in flight has landed, a machine that waits without being *)
(* armed has an open request, whatever replies, answers in the terminal,    *)
(* sweeps and the two checks for parked siblings did before.                *)
THEOREM NobodyStuck ==
    ASSUME NoQuestions
    PROVE  Spec => []NoStuckWaiting
<1> DEFINE Inv == FlowInv /\ HarnessInv /\ Held /\ Answers /\ NobodyForgotten
<1>1. Init => Inv
  BY FlowInit, HarnessInit, HeldInit, AnswersInit, ForgottenInit
<1>2. Inv /\ [Next]_vars => Inv'
  <2> SUFFICES ASSUME Inv, [Next]_vars PROVE Inv'
    OBVIOUS
  <2>1. TypeOK /\ Traffic /\ FlowInv'
    BY FlowStep DEF FlowInv
  <2>2. TypeOK'
    BY <2>1 DEF FlowInv
  <2> QED
    BY <2>1, <2>2, HarnessStep, HeldStep, AnswersStep, ForgottenStep
<1>3. Inv => NoStuckWaiting
  <2> SUFFICES ASSUME Inv, NEW s \in live, Quiet, Waits(s), ~Unseen(s), OpenRequests(s) = {}
               PROVE  FALSE
    BY DEF NoStuckWaiting, Waits
  <2>1. s \in Session
    BY DEF FlowInv, TypeOK
  <2>2. PICK r \in Request : Owner[r] = s /\ Rescues(r)
    BY <2>1 DEF NobodyForgotten, Rescued
  <2>3. InLine = {} /\ sink[s] = <<>> /\ \A c \in Conn : conn[c] = <<>>
    BY <2>1 DEF Quiet, InLine
  <2>4. ~FollowsInSink(0, r) /\ \A c \in Conn, q \in Request : ~ExpiryFrom(c, r, q)
    BY <2>2, <2>3, TwoEvents DEF FollowsInSink, ExpiryFrom
  <2> QED
    BY <2>2, <2>3, <2>4 DEF Rescues, Quiet
<1> QED
  BY <1>1, <1>2, <1>3, PTL DEF Spec

=============================================================================
