------------------------- MODULE WorkRegistryProofs -------------------------
(***************************************************************************)
(* The registry of one agent, for any number of streams, commands, slots,  *)
(* connections and restarts: a cancel always finds its worker, and the     *)
(* agent takes every stream the server admits.                             *)
(***************************************************************************)
EXTENDS WorkRegistry, FiniteSetTheorems, TLAPS

-----------------------------------------------------------------------------
(* Types *)

CallTyped ==
  /\ caller \in [Works -> {"new", "open", "waiting", "leaving", "gone", "answered", "failed"}]
  /\ idOf \in [Works -> Nat] /\ nextId \in Nat

RouterTyped ==
  /\ conn \in 0 .. MaxConnections
  /\ slots \subseteq Streams /\ flows \subseteq Commands /\ cancelable \subseteq Commands

LaneTyped ==
  /\ ticket \in [Works -> {"none", "queued", "written", "withdrawn"}]
  /\ commands \in Seq(Requests)
  /\ priority \in Seq(Works) /\ retained \in Seq(Works) /\ waited \subseteq Works

WireTyped == toAgent \in Seq(Orders) /\ toServer \in Seq(Reports)

LinkTyped ==
  /\ link \in 0 .. MaxConnections /\ up \in BOOLEAN
  /\ connections \in 0 .. MaxConnections /\ troubles \in 0 .. MaxTroubles

AgentTyped ==
  /\ registered \subseteq Works /\ results \subseteq Nat /\ refused \subseteq Streams
  /\ worker \in [Works -> {"none", "running", "canceled", "ending", "ended"}]
  /\ workConn \in [Works -> 0 .. MaxConnections]

Typed == CallTyped /\ RouterTyped /\ LaneTyped /\ WireTyped /\ LinkTyped /\ AgentTyped

LEMMA TypesTogether == WorkTypeOK <=> Typed
  BY DEF WorkTypeOK, Typed, CallTyped, RouterTyped, LaneTyped, WireTyped, LinkTyped, AgentTyped

\* What is taken from the front of a queue, and what that leaves.
LEMMA FrontOfQueue ==
  ASSUME NEW S, NEW s \in Seq(S), s # <<>>
  PROVE  Head(s) \in S /\ Tail(s) \in Seq(S)
  OBVIOUS

LEMMA OrdersKnown ==
  /\ \A f \in Requests : f \in Orders /\ f.work \in Works /\ f = [kind |-> f.kind, work |-> f.work]
  /\ \A w \in Works : [kind |-> "cancel", work |-> w] \in Orders
  /\ \A w \in Streams : [kind |-> "open", work |-> w] \in Requests
  /\ \A w \in Commands : [kind |-> "command", work |-> w] \in Requests
  /\ \A w : [kind |-> "open", work |-> w] \in Orders => w \in Streams
  /\ \A w : [kind |-> "command", work |-> w] \in Orders => w \in Commands
  /\ \A k \in {"fin", "result"}, w \in Works, l \in 0 .. MaxConnections :
       [kind |-> k, work |-> w, conn |-> l] \in Reports
  BY DEF Requests, Orders, Reports, Works

-----------------------------------------------------------------------------
(* The two sides *)

RouterNext ==
  \/ \E w \in Works : Ask(w) \/ CallerLeaves(w) \/ Router(w)
  \/ Writer \/ Session \/ RestartServer

AgentNext ==
  \/ \E w \in Works : Runtime(w) \/ EndStream(w) \/ LeaveStream(w) \/ EndCommand(w)
  \/ Connect \/ LinkFails \/ NoticeLoss

LEMMA TwoSides == WorkNext <=> RouterNext \/ AgentNext
  BY DEF WorkNext, RouterNext, AgentNext

\* The agent asks for nothing and touches no lane of the router.
LEMMA AgentLeavesTheRouter ==
  AgentNext => UNCHANGED <<callVars, conn, routerVars, laneVars>>
  BY DEF AgentNext, Runtime, TakeStream, TakeCommand, Cancel, Takes, EndStream, LeaveStream,
         EndCommand, Connect, LinkFails, NoticeLoss

\* The router reaches the agent by its frames alone; a restart breaks the socket.
LEMMA RouterLeavesTheAgent ==
  RouterNext =>
    /\ UNCHANGED <<agentVars, link, connections>>
    /\ UNCHANGED <<up, troubles>> \/ (up' = FALSE /\ Trouble)
<1> SUFFICES ASSUME RouterNext
             PROVE /\ UNCHANGED <<agentVars, link, connections>>
                   /\ UNCHANGED <<up, troubles>> \/ (up' = FALSE /\ Trouble)
  OBVIOUS
<1>1. ASSUME NEW w \in Works, Ask(w) \/ CallerLeaves(w) \/ Router(w)
      PROVE UNCHANGED <<agentVars, linkVars, troubles>>
  BY <1>1 DEF Ask, OpenStream, Execute, RefuseWork, CallerLeaves, Router, CloseStream,
              AbandonCommand
<1>2. CASE Writer
  BY <1>2 DEF Writer, RetainedSent, WritePriority, WriteCommand, linkVars
<1>3. CASE Session
  BY <1>3 DEF Session, ReadFrame, Register, Unregister, linkVars
<1>4. CASE RestartServer
  BY <1>4 DEF RestartServer
<1>5. QED
  BY <1>1, <1>2, <1>3, <1>4 DEF RouterNext, linkVars

-----------------------------------------------------------------------------
(* Types are kept *)

LEMMA CallTypesKept == Typed /\ RouterNext => CallTyped'
<1> SUFFICES ASSUME Typed, RouterNext PROVE CallTyped'
  OBVIOUS
<1> USE DEF Typed, CallTyped
<1>1. ASSUME NEW w \in Works, Ask(w) PROVE CallTyped'
  BY <1>1 DEF Ask, OpenStream, Execute, RefuseWork, DrawId
<1>2. ASSUME NEW w \in Works, CallerLeaves(w) \/ Router(w) PROVE CallTyped'
  BY <1>2 DEF CallerLeaves, Router, CloseStream, AbandonCommand
<1>3. CASE Writer
  BY <1>3 DEF Writer, RetainedSent, WritePriority, WriteCommand, callVars
<1>4. CASE ReadFrame
  BY <1>4 DEF ReadFrame
<1>5. CASE Register \/ Unregister
  BY <1>5 DEF Register, Unregister, Release
<1>6. CASE RestartServer
  BY <1>6 DEF RestartServer
<1>7. QED
  BY <1>1, <1>2, <1>3, <1>4, <1>5, <1>6 DEF RouterNext, Session

LEMMA RouterTypesKept == Typed /\ RouterNext => RouterTyped'
<1> SUFFICES ASSUME Typed, RouterNext PROVE RouterTyped'
  OBVIOUS
<1> USE DEF Typed, RouterTyped
<1>1. ASSUME NEW w \in Works, Ask(w) PROVE RouterTyped'
  BY <1>1 DEF Ask, OpenStream, Execute, RefuseWork, routerVars
<1>2. ASSUME NEW w \in Works, CallerLeaves(w) \/ Router(w) PROVE RouterTyped'
  BY <1>2 DEF CallerLeaves, Router, CloseStream, AbandonCommand, routerVars
<1>3. CASE Writer \/ ReadFrame
  BY <1>3 DEF Writer, RetainedSent, WritePriority, WriteCommand, ReadFrame, routerVars
<1>4. CASE Register \/ Unregister
  BY <1>4, WorkAssumption DEF Register, Unregister, Release, LinkTyped
<1>5. CASE RestartServer
  BY <1>5, WorkAssumption DEF RestartServer
<1>6. QED
  BY <1>1, <1>2, <1>3, <1>4, <1>5 DEF RouterNext, Session

\* A withdrawn ticket, a place in the priority lane or a task that waits for one.
LEMMA CancelKeepsLanes ==
  ASSUME LaneTyped, NEW w \in Works, CancelRequest(w) PROVE LaneTyped'
<1> USE DEF LaneTyped
<1>1. CASE UNCHANGED <<priority, retained, waited>>
  BY <1>1 DEF CancelRequest
<1>2. CASE QueueCancel(w) /\ UNCHANGED ticket
  <2>1. UNCHANGED <<commands, ticket>>
    BY <1>2 DEF CancelRequest
  <2>2. CASE priority' = Append(priority, w) /\ UNCHANGED <<retained, waited>>
    BY <2>1, <2>2
  <2>3. CASE retained' = Append(retained, w) /\ waited' = waited \cup {w} /\ UNCHANGED priority
    BY <2>1, <2>3
  <2>4. QED
    BY <1>2, <2>2, <2>3 DEF QueueCancel
<1>3. QED
  BY <1>1, <1>2 DEF CancelRequest

LEMMA LaneTypesKept == Typed /\ RouterNext => LaneTyped'
<1> SUFFICES ASSUME Typed, RouterNext PROVE LaneTyped'
  OBVIOUS
<1> USE DEF Typed
<1>1. ASSUME NEW w \in Works, OpenStream(w) PROVE LaneTyped'
  BY <1>1, OrdersKnown DEF OpenStream, SendRequest, LaneTyped
<1>2. ASSUME NEW w \in Works, Execute(w) PROVE LaneTyped'
  BY <1>2, OrdersKnown DEF Execute, SendRequest, LaneTyped
<1>3. ASSUME NEW w \in Works, RefuseWork(w) \/ CallerLeaves(w) PROVE LaneTyped'
  BY <1>3 DEF RefuseWork, CallerLeaves, laneVars, LaneTyped
<1>4. ASSUME NEW w \in Works, Router(w) PROVE LaneTyped'
  <2>1. CASE UNCHANGED laneVars
    BY <2>1 DEF laneVars, LaneTyped
  <2>2. CASE CancelRequest(w)
    BY <2>2, CancelKeepsLanes
  <2>3. QED
    BY <1>4, <2>1, <2>2 DEF Router, CloseStream, AbandonCommand
<1>5. CASE RetainedSent
  BY <1>5 DEF RetainedSent, LaneTyped
<1>6. CASE WritePriority
  BY <1>6 DEF WritePriority, LaneTyped
<1>7. CASE WriteCommand
  <2>1. Head(commands) \in Requests /\ Tail(commands) \in Seq(Requests)
    BY <1>7, FrontOfQueue DEF WriteCommand, LaneTyped
  <2>2. QED
    BY <1>7, <2>1 DEF WriteCommand, LaneTyped
<1>8. CASE ReadFrame
  BY <1>8 DEF ReadFrame, laneVars, LaneTyped
<1>9. CASE Register \/ Unregister
  <2>1. Release
    BY <1>9 DEF Register, Unregister
  <2>2. commands' = <<>> /\ priority' = <<>> /\ retained' = <<>> /\ UNCHANGED <<ticket, waited>>
    BY <2>1 DEF Release
  <2>3. QED
    BY <2>2 DEF LaneTyped
<1>10. CASE RestartServer
  BY <1>10 DEF RestartServer, LaneTyped
<1>11. QED
  BY <1>1, <1>2, <1>3, <1>4, <1>5, <1>6, <1>7, <1>8, <1>9, <1>10
  DEF RouterNext, Ask, Writer, Session

LEMMA WriteKeepsWire ==
  ASSUME WireTyped, NEW kind, NEW w, [kind |-> kind, work |-> w] \in Orders, Write(kind, w)
  PROVE  toAgent' \in Seq(Orders)
  BY DEF Write, WireTyped

LEMMA WireTypesKept == Typed /\ RouterNext => WireTyped'
<1> SUFFICES ASSUME Typed, RouterNext PROVE WireTyped'
  OBVIOUS
<1> USE DEF Typed
<1>1. ASSUME NEW w \in Works, Ask(w) \/ CallerLeaves(w) \/ Router(w) PROVE WireTyped'
  BY <1>1 DEF Ask, OpenStream, Execute, RefuseWork, CallerLeaves, Router, CloseStream,
              AbandonCommand, wireVars, WireTyped
<1>2. CASE RetainedSent
  BY <1>2 DEF RetainedSent, wireVars, WireTyped
<1>3. CASE WritePriority
  <2>1. Head(priority) \in Works
    BY <1>3, FrontOfQueue DEF WritePriority, LaneTyped
  <2>2. toAgent' \in Seq(Orders)
    BY <1>3, <2>1, OrdersKnown, WriteKeepsWire DEF WritePriority
  <2>3. QED
    BY <1>3, <2>2 DEF WritePriority, WireTyped
<1>4. CASE WriteCommand
  <2>1. Head(commands) \in Requests
    BY <1>4, FrontOfQueue DEF WriteCommand, LaneTyped
  <2>2. [kind |-> Head(commands).kind, work |-> Head(commands).work] \in Orders
    BY <2>1, OrdersKnown
  <2>3. toAgent' = toAgent \/ Write(Head(commands).kind, Head(commands).work)
    BY <1>4 DEF WriteCommand
  <2>4. toAgent' \in Seq(Orders)
    BY <2>2, <2>3, WriteKeepsWire DEF WireTyped
  <2>5. QED
    BY <1>4, <2>4 DEF WriteCommand, WireTyped
<1>5. CASE ReadFrame
  <2>1. toServer # <<>> /\ toServer' = Tail(toServer) /\ UNCHANGED toAgent
    BY <1>5 DEF ReadFrame
  <2>2. QED
    BY <2>1 DEF WireTyped
<1>6. CASE Register \/ Unregister
  BY <1>6 DEF Register, Unregister, wireVars, WireTyped
<1>7. CASE RestartServer
  BY <1>7 DEF RestartServer, WireTyped
<1>8. QED
  BY <1>1, <1>2, <1>3, <1>4, <1>5, <1>6, <1>7 DEF RouterNext, Writer, Session

\* What the runtime takes off its queue.
LEMMA TakenOrder ==
  ASSUME WireTyped, NEW kind, NEW w, Takes(kind, w)
  PROVE  /\ [kind |-> kind, work |-> w] \in Orders
         /\ toAgent' \in Seq(Orders)
         /\ link # 0 /\ UNCHANGED linkVars
  BY FrontOfQueue DEF Takes, WireTyped

LEMMA SendKeepsWire ==
  ASSUME WireTyped, LinkTyped, NEW kind \in {"fin", "result"}, NEW w \in Works,
         Send(kind, w) \/ UNCHANGED toServer
  PROVE  toServer' \in Seq(Reports)
  BY OrdersKnown DEF Send, WireTyped, LinkTyped

LEMMA TroubleBounded ==
  ASSUME troubles \in 0 .. MaxTroubles, Trouble PROVE troubles' \in 0 .. MaxTroubles
  BY WorkAssumption DEF Trouble

LEMMA LinkTypesKept == Typed /\ WorkNext => LinkTyped'
<1> SUFFICES ASSUME Typed, WorkNext PROVE LinkTyped'
  OBVIOUS
<1> USE DEF Typed, LinkTyped
<1>1. CASE RouterNext
  <2>1. UNCHANGED <<link, connections>>
    BY <1>1, RouterLeavesTheAgent
  <2>2. up' \in BOOLEAN
    BY <1>1, RouterLeavesTheAgent
  <2>3. UNCHANGED troubles \/ Trouble
    BY <1>1, RouterLeavesTheAgent
  <2>4. QED
    BY <2>1, <2>2, <2>3, TroubleBounded
<1>2. ASSUME NEW w \in Works, Runtime(w) \/ EndStream(w) \/ LeaveStream(w) \/ EndCommand(w)
      PROVE LinkTyped'
  BY <1>2 DEF Runtime, TakeStream, TakeCommand, Cancel, Takes, EndStream, LeaveStream,
              EndCommand, linkVars
<1>3. CASE Connect
  BY <1>3, WorkAssumption DEF Connect
<1>4. CASE LinkFails
  BY <1>4, TroubleBounded DEF LinkFails
<1>5. CASE NoticeLoss
  BY <1>5, WorkAssumption DEF NoticeLoss
<1>6. QED
  BY <1>1, <1>2, <1>3, <1>4, <1>5, TwoSides DEF AgentNext

\* Every step of the agent keeps its wires and its registries typed.
LEMMA AgentTypesKept == Typed /\ AgentNext => WireTyped' /\ AgentTyped'
<1> SUFFICES ASSUME Typed, AgentNext PROVE WireTyped' /\ AgentTyped'
  OBVIOUS
<1> USE DEF Typed, AgentTyped
<1>1. ASSUME NEW w \in Works, TakeStream(w) PROVE WireTyped' /\ AgentTyped'
  <2>1. w \in Streams /\ toAgent' \in Seq(Orders)
    BY <1>1, TakenOrder, OrdersKnown DEF TakeStream
  <2>2. Send("fin", w) \/ UNCHANGED toServer
    BY <1>1 DEF TakeStream
  <2>3. toServer' \in Seq(Reports)
    BY <2>2, SendKeepsWire
  <2>4. AgentTyped'
    BY <1>1, <2>1 DEF TakeStream, Start, LinkTyped, Works
  <2>5. QED
    BY <2>1, <2>3, <2>4 DEF WireTyped
<1>2. ASSUME NEW w \in Works, TakeCommand(w) PROVE WireTyped' /\ AgentTyped'
  <2>1. w \in Commands /\ toAgent' \in Seq(Orders)
    BY <1>2, TakenOrder, OrdersKnown DEF TakeCommand
  <2>2. CASE UNCHANGED <<registered, results, worker, workConn, toServer>>
    BY <1>2, <2>1, <2>2 DEF TakeCommand, WireTyped
  <2>3. CASE /\ results' = results \cup {idOf[w]}
             /\ registered' = registered \cup ({w} \cap cancelable)
             /\ Start(w) /\ UNCHANGED toServer
    <3>1. w \in Works /\ idOf[w] \in Nat /\ UNCHANGED refused
      BY <1>2 DEF TakeCommand, CallTyped
    <3>2. worker' = [worker EXCEPT ![w] = "running"] /\ workConn' = [workConn EXCEPT ![w] = link]
      BY <2>3 DEF Start
    <3>3. AgentTyped'
      BY <2>3, <3>1, <3>2 DEF LinkTyped
    <3>4. QED
      BY <2>1, <2>3, <3>3 DEF WireTyped
  <2>4. CASE /\ workConn' = [workConn EXCEPT ![w] = link]
             /\ Send("result", w)
             /\ UNCHANGED <<registered, results, worker>>
    BY <1>2, <2>1, <2>4, SendKeepsWire DEF TakeCommand, WireTyped, LinkTyped
  <2>5. QED
    BY <1>2, <2>2, <2>3, <2>4 DEF TakeCommand
<1>3. ASSUME NEW w \in Works, Cancel(w) PROVE WireTyped' /\ AgentTyped'
  <2>1. toAgent' \in Seq(Orders) /\ UNCHANGED toServer
    BY <1>3, TakenOrder DEF Cancel
  <2>2. UNCHANGED <<results, workConn, refused>> /\ registered' \subseteq registered
    BY <1>3 DEF Cancel
  <2>3. worker' \in [Works -> {"none", "running", "canceled", "ending", "ended"}]
    BY <1>3 DEF Cancel
  <2>4. QED
    BY <2>1, <2>2, <2>3 DEF WireTyped
<1>4. ASSUME NEW w \in Works, EndStream(w) PROVE WireTyped' /\ AgentTyped'
  <2>1. toServer' \in Seq(Reports) /\ UNCHANGED toAgent
    BY <1>4, SendKeepsWire DEF EndStream
  <2>2. QED
    BY <1>4, <2>1 DEF EndStream, WireTyped
<1>5. ASSUME NEW w \in Works, LeaveStream(w) PROVE WireTyped' /\ AgentTyped'
  BY <1>5 DEF LeaveStream, DropGuard, wireVars, WireTyped
<1>6. ASSUME NEW w \in Works, EndCommand(w) PROVE WireTyped' /\ AgentTyped'
  <2>1. Send("result", w) \/ UNCHANGED toServer
    BY <1>6 DEF EndCommand
  <2>2. toServer' \in Seq(Reports) /\ UNCHANGED toAgent
    BY <1>6, <2>1, SendKeepsWire DEF EndCommand
  <2>3. QED
    BY <1>6, <2>2 DEF EndCommand, DropGuard, WireTyped
<1>7. CASE Connect
  BY <1>7 DEF Connect, WireTyped
<1>8. CASE LinkFails
  <2>1. toServer' = toServer \/ toServer' = <<>>
    BY <1>8 DEF LinkFails
  <2>2. toServer \in Seq(Reports) /\ <<>> \in Seq(Reports)
    BY DEF WireTyped
  <2>3. QED
    BY <1>8, <2>1, <2>2 DEF LinkFails, WireTyped, agentVars
<1>9. CASE NoticeLoss
  BY <1>9 DEF NoticeLoss, WireTyped
<1>10. QED
  BY <1>1, <1>2, <1>3, <1>4, <1>5, <1>6, <1>7, <1>8, <1>9 DEF AgentNext, Runtime

LEMMA WorkInitTyped == WorkInit => Typed
<1> SUFFICES ASSUME WorkInit PROVE Typed
  OBVIOUS
<1> USE DEF WorkInit
<1>1. 0 \in 0 .. MaxConnections /\ 0 \in 0 .. MaxTroubles
  BY WorkAssumption
<1>2. CallTyped
  BY DEF CallTyped
<1>3. RouterTyped
  BY <1>1 DEF RouterTyped
<1>4. LaneTyped
  BY DEF LaneTyped
<1>5. WireTyped
  BY DEF WireTyped
<1>6. LinkTyped
  BY <1>1 DEF LinkTyped
<1>7. AgentTyped
  BY <1>1 DEF AgentTyped
<1>8. QED
  BY <1>2, <1>3, <1>4, <1>5, <1>6, <1>7 DEF Typed

LEMMA WorkTypesKept == Typed /\ [WorkNext]_vars => Typed'
<1> SUFFICES ASSUME Typed, [WorkNext]_vars PROVE Typed'
  OBVIOUS
<1>1. CASE RouterNext
  <2>1. AgentTyped'
    BY <1>1, RouterLeavesTheAgent DEF Typed, AgentTyped, agentVars
  <2>2. QED
    BY <1>1, <2>1, TwoSides, CallTypesKept, RouterTypesKept, LaneTypesKept, WireTypesKept,
       LinkTypesKept DEF Typed
<1>2. CASE AgentNext
  <2>1. CallTyped' /\ RouterTyped' /\ LaneTyped'
    BY <1>2, AgentLeavesTheRouter
    DEF Typed, CallTyped, RouterTyped, LaneTyped, callVars, routerVars, laneVars
  <2>2. QED
    BY <1>2, <2>1, TwoSides, AgentTypesKept, LinkTypesKept DEF Typed
<1>3. CASE UNCHANGED vars
  BY <1>3 DEF vars, callVars, routerVars, laneVars, wireVars, linkVars, agentVars,
     Typed, CallTyped, RouterTyped, LaneTyped, WireTyped, LinkTyped, AgentTyped
<1>4. QED
  BY <1>1, <1>2, <1>3, TwoSides

\* Queues, registries and both counts keep their types: only streams are ever
\* opened, held in a slot or refused, and only commands are executed.
THEOREM WorkTypesHold == WorkSpec => []WorkTypeOK
<1>1. WorkInit => WorkTypeOK
  BY WorkInitTyped, TypesTogether
<1>2. WorkTypeOK /\ [WorkNext]_vars => WorkTypeOK'
  BY WorkTypesKept, TypesTogether
  DEF WorkTypeOK, Typed, CallTyped, RouterTyped, LaneTyped, WireTyped, LinkTyped, AgentTyped
<1>3. QED
  BY <1>1, <1>2, PTL DEF WorkSpec

-----------------------------------------------------------------------------
(* A cancel finds its worker *)

\* Orders that start work nobody has asked for are nowhere.
Asked == {f \in Orders : f.kind = "cancel" \/ caller[f.work] # "new"}

\* Execute may make a command cancelable, so a command that runs was asked for;
\* and a connection that ends takes every running worker with it, so the next
\* one may start with an empty registry.
RegistryInv ==
  /\ Typed
  /\ CancelFindsItsWorker
  /\ \A w \in Works : caller[w] = "new" => worker[w] = "none"
  /\ commands \in Seq(Asked) /\ toAgent \in Seq(Asked)
  /\ link = 0 => \A w \in Works : worker[w] # "running"

LEMMA WiderSeq ==
  ASSUME NEW S, NEW T, S \subseteq T, NEW s \in Seq(S) PROVE s \in Seq(T)
  OBVIOUS

\* Nothing is asked for twice.
LEMMA NeverNewAgain ==
  Typed /\ RouterNext => \A w \in Works : caller'[w] = "new" => caller[w] = "new"
<1> SUFFICES ASSUME Typed, RouterNext
             PROVE \A w \in Works : caller'[w] = "new" => caller[w] = "new"
  OBVIOUS
<1> USE DEF Typed, CallTyped
<1>1. ASSUME NEW w \in Works, Ask(w)
      PROVE \A x \in Works : caller'[x] = "new" => caller[x] = "new"
  BY <1>1 DEF Ask, OpenStream, Execute, RefuseWork
<1>2. ASSUME NEW w \in Works, CallerLeaves(w) \/ Router(w)
      PROVE \A x \in Works : caller'[x] = "new" => caller[x] = "new"
  BY <1>2 DEF CallerLeaves, Router, CloseStream, AbandonCommand
<1>3. CASE Writer
  BY <1>3 DEF Writer, RetainedSent, WritePriority, WriteCommand, callVars
<1>4. CASE ReadFrame
  BY <1>4 DEF ReadFrame
<1>5. CASE Register \/ Unregister
  BY <1>5 DEF Register, Unregister, Release
<1>6. CASE RestartServer
  BY <1>6 DEF RestartServer
<1>7. QED
  BY <1>1, <1>2, <1>3, <1>4, <1>5, <1>6 DEF RouterNext, Session

LEMMA AskedGrows ==
  Typed /\ RouterNext => Asked \subseteq Asked'
<1> SUFFICES ASSUME Typed, RouterNext, NEW f \in Asked PROVE f \in Asked'
  OBVIOUS
<1>1. f \in Orders /\ f.work \in Works
  BY DEF Asked, Orders, Requests, Works
<1>2. QED
  BY <1>1, NeverNewAgain DEF Asked

\* What the router queues and writes was asked for.
LEMMA QueuesKeepAsked ==
  RegistryInv /\ RouterNext => commands' \in Seq(Asked') /\ toAgent' \in Seq(Asked')
<1> SUFFICES ASSUME RegistryInv, RouterNext
             PROVE commands' \in Seq(Asked') /\ toAgent' \in Seq(Asked')
  OBVIOUS
<1>1. Typed /\ commands \in Seq(Asked) /\ toAgent \in Seq(Asked)
  BY DEF RegistryInv
<1>2. commands \in Seq(Asked') /\ toAgent \in Seq(Asked')
  BY <1>1, AskedGrows, WiderSeq
<1>3. \A f \in Asked : f \in Asked'
  BY <1>1, AskedGrows
<1>4. \A w \in Works : [kind |-> "cancel", work |-> w] \in Asked'
  BY OrdersKnown DEF Asked
<1>5. ASSUME NEW w \in Works, Ask(w)
      PROVE commands' \in Seq(Asked') /\ toAgent' \in Seq(Asked')
  <2>1. UNCHANGED toAgent
    BY <1>5 DEF Ask, OpenStream, Execute, RefuseWork, wireVars
  <2>2. CASE OpenStream(w)
    <3>1. [kind |-> "open", work |-> w] \in Asked'
      BY <1>1, <2>2, OrdersKnown DEF OpenStream, Asked, Typed, CallTyped
    <3>2. QED
      BY <1>2, <2>1, <2>2, <3>1 DEF OpenStream, SendRequest
  <2>3. CASE Execute(w)
    <3>1. [kind |-> "command", work |-> w] \in Asked'
      BY <1>1, <2>3, OrdersKnown DEF Execute, Asked, Typed, CallTyped
    <3>2. QED
      BY <1>2, <2>1, <2>3, <3>1 DEF Execute, SendRequest
  <2>4. CASE RefuseWork(w)
    BY <1>2, <2>1, <2>4 DEF RefuseWork, laneVars
  <2>5. QED
    BY <1>5, <2>2, <2>3, <2>4 DEF Ask
<1>6. ASSUME NEW w \in Works, CallerLeaves(w) \/ Router(w)
      PROVE UNCHANGED <<commands, toAgent>>
  BY <1>6 DEF CallerLeaves, Router, CloseStream, AbandonCommand, CancelRequest, laneVars, wireVars
<1>7. CASE RetainedSent
  BY <1>2, <1>7 DEF RetainedSent, wireVars
<1>8. CASE WritePriority
  <2>1. Head(priority) \in Works
    BY <1>1, <1>8, FrontOfQueue DEF WritePriority, Typed, LaneTyped
  <2>2. [kind |-> "cancel", work |-> Head(priority)] \in Asked'
    BY <1>4, <2>1
  <2>3. QED
    BY <1>2, <1>8, <2>2 DEF WritePriority, Write
<1>9. CASE WriteCommand
  <2>1. Head(commands) \in Requests /\ Head(commands) \in Asked /\ Tail(commands) \in Seq(Asked')
    BY <1>1, <1>2, <1>9, FrontOfQueue DEF WriteCommand, Typed, LaneTyped
  <2>2. [kind |-> Head(commands).kind, work |-> Head(commands).work] \in Asked'
    BY <1>3, <2>1, OrdersKnown
  <2>3. toAgent' = toAgent \/ Write(Head(commands).kind, Head(commands).work)
    BY <1>9 DEF WriteCommand
  <2>4. toAgent' \in Seq(Asked')
    BY <1>2, <2>2, <2>3 DEF Write
  <2>5. QED
    BY <1>9, <2>1, <2>4 DEF WriteCommand
<1>10. CASE ReadFrame
  BY <1>2, <1>10 DEF ReadFrame, laneVars
<1>11. CASE Register \/ Unregister
  <2>1. commands' = <<>> /\ UNCHANGED toAgent
    BY <1>11 DEF Register, Unregister, Release, wireVars
  <2>2. QED
    BY <1>2, <2>1
<1>12. CASE RestartServer
  BY <1>2, <1>12 DEF RestartServer
<1>13. QED
  BY <1>2, <1>5, <1>6, <1>7, <1>8, <1>9, <1>10, <1>11, <1>12 DEF RouterNext, Writer, Session

\* A command becomes cancelable before it runs.
LEMMA RouterKeepsRegistry ==
  RegistryInv /\ RouterNext => RegistryInv'
<1> SUFFICES ASSUME RegistryInv, RouterNext PROVE RegistryInv'
  OBVIOUS
<1>1. Typed' /\ commands' \in Seq(Asked') /\ toAgent' \in Seq(Asked')
  BY QueuesKeepAsked, WorkTypesKept, TwoSides DEF RegistryInv
<1>2. UNCHANGED <<registered, worker, workConn, link>>
  BY RouterLeavesTheAgent DEF agentVars
<1>3. \A w \in Works : caller'[w] = "new" => worker'[w] = "none"
  BY <1>2, NeverNewAgain DEF RegistryInv
<1>4. \A w \in Works : w \in Registering' => w \in Registering \/ worker[w] = "none"
  <2>1. ASSUME NEW w \in Works, Execute(w)
        PROVE worker[w] = "none" /\ cancelable' \subseteq cancelable \cup {w}
    BY <2>1 DEF Execute, DrawId, RegistryInv
  <2>2. (\E w \in Works : Execute(w)) \/ UNCHANGED cancelable
    <3>1. ASSUME NEW w \in Works, OpenStream(w) \/ RefuseWork(w) PROVE UNCHANGED cancelable
      BY <3>1 DEF OpenStream, RefuseWork, routerVars
    <3>2. ASSUME NEW w \in Works, CallerLeaves(w) \/ Router(w) PROVE UNCHANGED cancelable
      BY <3>2 DEF CallerLeaves, Router, CloseStream, AbandonCommand, routerVars
    <3>3. CASE Writer \/ ReadFrame
      BY <3>3 DEF Writer, RetainedSent, WritePriority, WriteCommand, ReadFrame, routerVars
    <3>4. CASE Register \/ Unregister \/ RestartServer
      BY <3>4 DEF Register, Unregister, Release, RestartServer
    <3>5. QED
      BY <3>1, <3>2, <3>3, <3>4 DEF RouterNext, Ask, Session
  <2>3. QED
    BY <2>1, <2>2 DEF Registering
<1>5. CancelFindsItsWorker'
  <2>1. \A w \in Registering' : w \in Works
    BY <1>1 DEF Registering, Works, Typed, RouterTyped
  <2>2. \A w \in Registering : worker[w] = "running" => w \in registered /\ workConn[w] = link
    BY DEF RegistryInv, CancelFindsItsWorker
  <2>3. QED
    BY <1>2, <1>4, <2>1, <2>2 DEF CancelFindsItsWorker
<1>6. QED
  BY <1>1, <1>2, <1>3, <1>5 DEF RegistryInv

\* What is left of the queue was asked for, and so was what was taken.
LEMMA TakenWasAsked ==
  ASSUME RegistryInv, NEW kind \in {"open", "command"}, NEW w \in Works, Takes(kind, w)
  PROVE  caller[w] # "new"
<1>1. [kind |-> kind, work |-> w] \in Asked
  BY FrontOfQueue DEF Takes, RegistryInv
<1>2. QED
  BY <1>1 DEF Asked

LEMMA AgentKeepsAsked ==
  RegistryInv /\ AgentNext => commands' \in Seq(Asked') /\ toAgent' \in Seq(Asked')
<1> SUFFICES ASSUME RegistryInv, AgentNext
             PROVE commands' \in Seq(Asked') /\ toAgent' \in Seq(Asked')
  OBVIOUS
<1>1. UNCHANGED <<caller, commands>>
  BY AgentLeavesTheRouter DEF callVars, laneVars
<1>2. Asked' = Asked
  BY <1>1 DEF Asked
<1>3. toAgent' \in {toAgent, <<>>} \/ (toAgent # <<>> /\ toAgent' = Tail(toAgent))
  BY DEF AgentNext, Runtime, TakeStream, TakeCommand, Cancel, Takes, EndStream, LeaveStream,
         EndCommand, Connect, LinkFails, NoticeLoss, wireVars
<1>4. commands \in Seq(Asked) /\ toAgent \in Seq(Asked) /\ <<>> \in Seq(Asked)
  BY DEF RegistryInv
<1>5. toAgent' \in Seq(Asked)
  <2>1. toAgent # <<>> => Tail(toAgent) \in Seq(Asked)
    BY <1>4, FrontOfQueue
  <2>2. QED
    BY <1>3, <1>4, <2>1
<1>6. QED
  BY <1>1, <1>2, <1>4, <1>5

\* The three parts of RegistryInv that a step of the agent can disturb.
Bound ==
  /\ \A w \in Registering : worker[w] = "running" => w \in registered /\ workConn[w] = link
  /\ \A w \in Works : caller[w] = "new" => worker[w] = "none"
  /\ link = 0 => \A w \in Works : worker[w] # "running"

LEMMA AgentKeepsBound ==
  RegistryInv /\ AgentNext => Bound'
<1> SUFFICES ASSUME RegistryInv, AgentNext PROVE Bound'
  OBVIOUS
<1>1. Bound /\ AgentTyped /\ Registering \subseteq Works
  BY DEF RegistryInv, Bound, CancelFindsItsWorker, Registering, Works, Typed, RouterTyped
<1>2. UNCHANGED <<caller, cancelable>> /\ Registering' = Registering
  BY AgentLeavesTheRouter DEF callVars, routerVars, Registering
<1> USE DEF AgentTyped
\* A worker that starts is registered if a cancel is meant for it.
<1>3. ASSUME NEW w \in Works, caller[w] # "new", link # 0, Start(w), UNCHANGED link,
             registered \subseteq registered', w \in Registering => w \in registered'
      PROVE Bound'
  <2>1. \A x \in Works : x # w => worker'[x] = worker[x] /\ workConn'[x] = workConn[x]
    BY <1>1, <1>3 DEF Start
  <2>2. workConn'[w] = link
    BY <1>1, <1>3 DEF Start
  <2>3. QED
    BY <1>1, <1>2, <1>3, <2>1, <2>2 DEF Bound
\* Nobody starts, and who stops may lose its entry.
<1>4. ASSUME UNCHANGED link,
             \A x \in Works :
               \/ /\ worker'[x] = worker[x]
                  /\ x \in registered /\ worker[x] = "running"
                       => x \in registered' /\ workConn'[x] = workConn[x]
               \/ worker'[x] # "running" /\ worker[x] # "none"
      PROVE Bound'
  <2>1. ASSUME NEW x \in Registering, worker'[x] = "running"
        PROVE x \in registered' /\ workConn'[x] = link
    <3>1. x \in Works /\ worker[x] = "running"
      BY <1>1, <1>4, <2>1
    <3>2. x \in registered /\ workConn[x] = link
      BY <1>1, <2>1, <3>1 DEF Bound
    <3>3. QED
      BY <1>4, <2>1, <3>1, <3>2
  <2>2. ASSUME NEW x \in Works, caller[x] = "new" PROVE worker'[x] = "none"
    BY <1>1, <1>4, <2>2 DEF Bound
  <2>3. ASSUME link = 0, NEW x \in Works PROVE worker'[x] # "running"
    BY <1>1, <1>4, <2>3 DEF Bound
  <2>4. QED
    BY <1>2, <1>4, <2>1, <2>2, <2>3 DEF Bound
<1>5. ASSUME NEW w \in Works, TakeStream(w) PROVE Bound'
  <2>1. caller[w] # "new" /\ link # 0 /\ UNCHANGED link
    BY <1>5, TakenWasAsked DEF TakeStream, Takes, linkVars
  <2>2. CASE registered' = registered \cup {w} /\ Start(w)
    BY <1>3, <2>1, <2>2
  <2>3. CASE UNCHANGED <<registered, worker>> /\ workConn' = [workConn EXCEPT ![w] = link]
    <3>1. \A x \in Works : worker[x] = "running" => workConn'[x] = workConn[x] \/ workConn'[x] = link
      BY <1>1, <2>3
    <3>2. QED
      BY <1>1, <1>2, <2>1, <2>3, <3>1 DEF Bound
  <2>4. QED
    BY <1>5, <2>2, <2>3 DEF TakeStream
<1>6. ASSUME NEW w \in Works, TakeCommand(w) PROVE Bound'
  <2>1. caller[w] # "new" /\ link # 0 /\ UNCHANGED link
    BY <1>6, TakenWasAsked DEF TakeCommand, Takes, linkVars
  <2>2. w \in Commands
    BY <1>6, TakenOrder, OrdersKnown DEF TakeCommand, RegistryInv, Typed
  <2>3. CASE UNCHANGED <<registered, worker, workConn>>
    BY <1>4, <2>1, <2>3
  <2>4. CASE registered' = registered \cup ({w} \cap cancelable) /\ Start(w)
    <3>1. w \in Registering => w \in registered'
      BY <2>2, <2>4, WorkAssumption DEF Registering
    <3>2. QED
      BY <1>3, <2>1, <2>4, <3>1
  <2>5. CASE UNCHANGED <<registered, worker>> /\ workConn' = [workConn EXCEPT ![w] = link]
    <3>1. \A x \in Works : worker[x] = "running" => workConn'[x] = workConn[x] \/ workConn'[x] = link
      BY <1>1, <2>5
    <3>2. QED
      BY <1>1, <1>2, <2>1, <2>5, <3>1 DEF Bound
  <2>6. QED
    BY <1>6, <2>3, <2>4, <2>5 DEF TakeCommand
<1>7. ASSUME NEW w \in Works, Cancel(w) PROVE Bound'
  <2>1. UNCHANGED <<link, workConn>>
    BY <1>7 DEF Cancel, Takes, linkVars
  <2>2. \A x \in Works :
          \/ worker'[x] = worker[x] /\ (x \in registered /\ worker[x] = "running" => x \in registered')
          \/ worker'[x] # "running" /\ worker[x] # "none"
    BY <1>7 DEF Cancel
  <2>3. QED
    BY <1>4, <2>1, <2>2
<1>8. ASSUME NEW w \in Works, EndStream(w) PROVE Bound'
  <2>1. UNCHANGED <<link, workConn, registered>> /\ worker[w] = "running"
        /\ worker' = [worker EXCEPT ![w] = "ending"]
    BY <1>8 DEF EndStream, linkVars
  <2>2. QED
    BY <1>1, <1>4, <2>1
\* Only its own entry goes with a worker.
<1>9. ASSUME NEW w \in Works, LeaveStream(w) \/ EndCommand(w) PROVE Bound'
  <2>1. /\ UNCHANGED <<link, workConn>> /\ worker[w] # "none"
        /\ worker' = [worker EXCEPT ![w] = "ended"] /\ DropGuard(w)
    BY <1>9 DEF LeaveStream, EndCommand, linkVars
  <2>2. QED
    BY <1>1, <1>4, <2>1 DEF DropGuard
<1>10. CASE Connect
  <2>1. link = 0 /\ UNCHANGED worker
    BY <1>10 DEF Connect
  <2>2. QED
    BY <1>1, <1>2, <2>1 DEF Bound
<1>11. CASE LinkFails
  BY <1>4, <1>11 DEF LinkFails, agentVars
<1>12. CASE NoticeLoss
  <2>1. \A x \in Works : worker'[x] # "running" /\ (worker[x] = "none" => worker'[x] = "none")
    BY <1>1, <1>12 DEF NoticeLoss
  <2>2. QED
    BY <1>1, <1>2, <2>1 DEF Bound
<1>13. QED
  BY <1>5, <1>6, <1>7, <1>8, <1>9, <1>10, <1>11, <1>12 DEF AgentNext, Runtime

LEMMA RegistryInvKept == RegistryInv /\ [WorkNext]_vars => RegistryInv'
<1> SUFFICES ASSUME RegistryInv, [WorkNext]_vars PROVE RegistryInv'
  OBVIOUS
<1>1. CASE RouterNext
  BY <1>1, RouterKeepsRegistry
<1>2. CASE AgentNext
  <2>1. Typed'
    BY <1>2, TwoSides, WorkTypesKept DEF RegistryInv
  <2>2. QED
    BY <1>2, <2>1, AgentKeepsAsked, AgentKeepsBound DEF RegistryInv, Bound, CancelFindsItsWorker
<1>3. CASE UNCHANGED vars
  <2>1. Typed'
    BY WorkTypesKept DEF RegistryInv
  <2>2. QED
    BY <1>3, <2>1 DEF vars, callVars, routerVars, laneVars, wireVars, linkVars, agentVars,
       RegistryInv, CancelFindsItsWorker, Registering, Asked
<1>4. QED
  BY <1>1, <1>2, <1>3, TwoSides

\* For any number of streams, commands, slots, connections and restarts, a
\* running worker that a cancel is meant for can be found by it, although old
\* workers drop their guards late and a restarted server uses their ids again
\* (Registration::drop compares serials, cancel.rs:246-262).
THEOREM CancelAlwaysFindsItsWorker == WorkSpec => []CancelFindsItsWorker
<1>1. WorkInit => RegistryInv
  <2>1. ASSUME WorkInit
        PROVE /\ CancelFindsItsWorker /\ commands \in Seq(Asked) /\ toAgent \in Seq(Asked)
              /\ \A w \in Works : worker[w] = "none"
    BY <2>1 DEF WorkInit, CancelFindsItsWorker, Registering, Works
  <2>2. QED
    BY <2>1, WorkInitTyped DEF RegistryInv
<1>2. RegistryInv => CancelFindsItsWorker
  BY DEF RegistryInv
<1>3. QED
  BY <1>1, <1>2, RegistryInvKept, PTL DEF WorkSpec

-----------------------------------------------------------------------------
(* Admitted streams are taken *)

\* The frames of a stream.
Opens(x) == [kind |-> "open", work |-> x]
Cancels(x) == [kind |-> "cancel", work |-> x]

\* Works in the command lane.
InLane(x) == \E i \in DOMAIN commands : commands[i].work = x

\* A stream's frame waits in the lane, once and with its slot, until it is
\* written or withdrawn; only a stream that was written gets a cancel.
Tickets ==
  /\ \A x \in Streams : caller[x] = "new" => ticket[x] = "none"
  /\ \A x \in Streams : InLane(x) =>
       /\ ticket[x] \in {"queued", "withdrawn"}
       /\ ticket[x] = "queued" => x \in slots
  /\ \A i, j \in DOMAIN commands :
       commands[i].work \in Streams /\ commands[i].work = commands[j].work => i = j
  /\ \A x \in slots : ticket[x] \in {"queued", "written"}
  /\ \A i \in DOMAIN priority : priority[i] \in Streams => ticket[priority[i]] = "written"

\* The agent hears of a stream once, and of its cancel later.
Wires ==
  /\ \A x \in registered \cap Streams :
       ticket[x] = "written" /\ \A i \in DOMAIN toAgent : toAgent[i] # Opens(x)
  /\ \A x \in Streams, i \in DOMAIN toAgent :
       /\ toAgent[i] = Opens(x) \/ toAgent[i] = Cancels(x) => ticket[x] = "written"
       /\ toAgent[i] = Opens(x) => \A j \in DOMAIN toAgent :
            /\ toAgent[j] = Opens(x) => j = i
            /\ toAgent[j] = Cancels(x) => i < j

\* The streams the agent holds once it has taken n more frames.
Held(n) ==
  {x \in Streams :
     /\ x \in registered \/ \E i \in 1 .. n : toAgent[i] = Opens(x)
     /\ \A i \in 1 .. n : toAgent[i] # Cancels(x)}

\* No more than the server has slots for.
Few(S) == IsFiniteSet(S) /\ Cardinality(S) <= Slots

\* Whatever the agent takes next, it holds no more streams than there are slots.
Room == \A n \in 0 .. Len(toAgent) : Few(Held(n))

\* The router has registered the agent's connection and its frames arrive.
Joined == link # 0 /\ conn = link /\ up

\* What the agent will hold has a slot of the server, or its cancel is next.
Owed ==
  Joined => \A x \in Held(Len(toAgent)) : x \in slots \/ \E i \in DOMAIN priority : priority[i] = x

\* Streams the agent has or will hear of, and those whose ids are still in use.
Wired ==
  {x \in Streams : x \in registered \/ \E i \in DOMAIN toAgent : toAgent[i] = Opens(x)}
Young == {x \in Streams : InLane(x) \/ (Joined /\ x \in Wired)}

\* Streams that meet on the agent got their ids from one server process.
Ids ==
  /\ \A x, y \in Wired : idOf[x] = idOf[y] => x = y
  /\ \A x \in Young : idOf[x] < nextId
  /\ \A x, y \in Young : idOf[x] = idOf[y] => x = y

\* A connection the router does not have yet has carried nothing.
Fresh ==
  /\ conn <= connections /\ link <= connections
  /\ link = 0 => ~up
  /\ link # 0 /\ up /\ conn # link => toAgent = <<>> /\ registered = {}

\* All of it, as long as no cancel had to wait for room in the priority lane.
Admitted ==
  waited = {} =>
    /\ refused = {} /\ retained = <<>> /\ Few(slots)
    /\ Tickets /\ Wires /\ Room /\ Owed /\ Ids

\* A part of few streams is few.
LEMMA FewLess ==
  ASSUME NEW S, Few(S), NEW T, T \subseteq S
  PROVE  Few(T)
<1>1. IsFiniteSet(T) /\ Cardinality(T) <= Cardinality(S)
  BY FS_Subset DEF Few
<1>2. Cardinality(T) \in Nat /\ Cardinality(S) \in Nat
  BY <1>1, FS_CardinalityType DEF Few
<1>3. QED
  BY <1>1, <1>2, WorkAssumption DEF Few

LEMMA FewEmpty == Few({})
  BY FS_EmptySet, WorkAssumption DEF Few

\* A stream is admitted while a slot is free.
LEMMA FewMore ==
  ASSUME NEW S, Few(S), Cardinality(S) < Slots, NEW w
  PROVE  Few(S \cup {w})
<1>1. /\ IsFiniteSet(S \cup {w}) /\ Cardinality(S) \in Nat
      /\ Cardinality(S \cup {w}) = IF w \in S THEN Cardinality(S) ELSE Cardinality(S) + 1
  BY FS_AddElement, FS_CardinalityType DEF Few
<1>2. QED
  BY <1>1, WorkAssumption DEF Few

\* Where one more would still be few, there is room for it now.
LEMMA FewWithout ==
  ASSUME NEW S, NEW w, w \notin S, Few(S \cup {w})
  PROVE  IsFiniteSet(S) /\ Cardinality(S) < Slots
<1>1. S \subseteq S \cup {w}
  OBVIOUS
<1>2. IsFiniteSet(S)
  BY <1>1, FS_Subset DEF Few
<1>3. Cardinality(S \cup {w}) = Cardinality(S) + 1 /\ Cardinality(S) \in Nat
  BY <1>2, FS_AddElement, FS_CardinalityType
<1>4. QED
  BY <1>2, <1>3, WorkAssumption DEF Few

\* An open frame is no cancel, and names its own stream.
LEMMA FramesDiffer ==
  \A x, y : /\ Opens(x) = Opens(y) => x = y
            /\ Cancels(x) = Cancels(y) => x = y
            /\ Opens(x) # Cancels(y)
            /\ Opens(x).work = x /\ Cancels(x).work = x
            /\ Opens(x).kind = "open" /\ Cancels(x).kind = "cancel"
  BY DEF Opens, Cancels

\* Where the frames of a queue are after one is taken or added.
LEMMA TailPlaces ==
  ASSUME NEW S, NEW s \in Seq(S), s # <<>>
  PROVE  /\ Len(s) \in Nat \ {0} /\ DOMAIN s = 1 .. Len(s) /\ Head(s) = s[1]
         /\ Len(Tail(s)) = Len(s) - 1 /\ DOMAIN Tail(s) = 1 .. Len(s) - 1
         /\ \A i \in 1 .. Len(s) - 1 : Tail(s)[i] = s[i + 1]
  OBVIOUS

LEMMA AppendPlaces ==
  ASSUME NEW S, NEW s \in Seq(S), NEW e \in S
  PROVE  /\ Len(s) \in Nat /\ DOMAIN s = 1 .. Len(s)
         /\ Len(Append(s, e)) = Len(s) + 1 /\ DOMAIN Append(s, e) = 1 .. Len(s) + 1
         /\ \A i \in 1 .. Len(s) : Append(s, e)[i] = s[i]
         /\ Append(s, e)[Len(s) + 1] = e
  OBVIOUS

\* What holds while no cancel had to wait.
Parts == Few(slots) /\ Tickets /\ Wires /\ Room /\ Owed /\ Ids

\* Who was not asked for is on no lane, no wire and in no registry.
LEMMA OnlyAsked ==
  ASSUME Typed, Tickets, Wires, NEW x \in Streams, caller[x] = "new"
  PROVE  ~InLane(x) /\ x \notin slots /\ x \notin Wired /\ x \notin Young
  BY DEF Tickets, Wires, Wired, Young

\* The wire and the registry stand as they were.
LEMMA WireStands ==
  ASSUME UNCHANGED <<registered, toAgent>>
  PROVE  /\ Wired' = Wired /\ (Room <=> Room')
         /\ \A n : Held(n)' = Held(n)
  BY DEF Wired, Room, Held

LEMMA WiresStand ==
  ASSUME Wires, UNCHANGED <<registered, toAgent>>,
         \A x \in Streams : ticket[x] = "written" => ticket'[x] = "written"
  PROVE  Wires'
  BY DEF Wires

\* A step of the router or of a caller that is about no stream.
LEMMA StreamsStand ==
  ASSUME Typed, Parts, UNCHANGED <<registered, toAgent, conn, link, up, slots>>,
         \/ commands' = commands
         \/ \E f \in Requests : f.work \notin Streams /\ commands' = Append(commands, f),
         \/ priority' = priority
         \/ \E c \in Works \ Streams : priority' = Append(priority, c),
         \A x \in Streams : ticket'[x] = ticket[x] /\ (caller'[x] = "new" => caller[x] = "new"),
         \A x \in Streams : caller[x] # "new" => idOf'[x] = idOf[x],
         nextId <= nextId' /\ nextId' \in Nat
  PROVE  Parts'
<1>1. \A i \in DOMAIN commands' :
        commands'[i].work \in Streams => i \in DOMAIN commands /\ commands'[i] = commands[i]
  <2>1. CASE commands' = commands
    BY <2>1
  <2>2. ASSUME NEW f \in Requests, f.work \notin Streams, commands' = Append(commands, f)
        PROVE \A i \in DOMAIN commands' :
                commands'[i].work \in Streams => i \in DOMAIN commands /\ commands'[i] = commands[i]
    <3>1. commands \in Seq(Requests)
      BY DEF Typed, LaneTyped
    <3>2. QED
      BY <2>2, <3>1, AppendPlaces
  <2>3. QED
    BY <2>1, <2>2
<1>2. \A i \in DOMAIN priority' :
        priority'[i] \in Streams => i \in DOMAIN priority /\ priority'[i] = priority[i]
  <2>1. CASE priority' = priority
    BY <2>1
  <2>2. ASSUME NEW c \in Works \ Streams, priority' = Append(priority, c)
        PROVE \A i \in DOMAIN priority' :
                priority'[i] \in Streams => i \in DOMAIN priority /\ priority'[i] = priority[i]
    <3>1. priority \in Seq(Works)
      BY DEF Typed, LaneTyped
    <3>2. QED
      BY <2>2, <3>1, AppendPlaces
  <2>3. QED
    BY <2>1, <2>2
<1>3. \A i \in DOMAIN priority : i \in DOMAIN priority' /\ priority'[i] = priority[i]
  <2>1. priority \in Seq(Works)
    BY DEF Typed, LaneTyped
  <2>2. ASSUME NEW c \in Works, priority' = Append(priority, c)
        PROVE \A i \in DOMAIN priority : i \in DOMAIN priority' /\ priority'[i] = priority[i]
    BY <2>1, <2>2, AppendPlaces
  <2>3. QED
    BY <2>2
<1>4. \A x \in Streams : InLane(x)' => InLane(x)
  BY <1>1 DEF InLane
<1>5. slots \subseteq Streams
  BY DEF Typed, RouterTyped
<1>6. Tickets'
  <2>1. \A x \in Streams : caller'[x] = "new" => ticket'[x] = "none"
    BY DEF Parts, Tickets
  <2>2. ASSUME NEW x \in Streams, InLane(x)'
        PROVE ticket'[x] \in {"queued", "withdrawn"} /\ (ticket'[x] = "queued" => x \in slots')
    BY <1>4, <2>2 DEF Parts, Tickets
  <2>3. ASSUME NEW i \in DOMAIN commands', NEW j \in DOMAIN commands',
               commands'[i].work \in Streams, commands'[i].work = commands'[j].work
        PROVE i = j
    BY <1>1, <2>3 DEF Parts, Tickets
  <2>4. \A x \in slots' : ticket'[x] \in {"queued", "written"}
    BY <1>5 DEF Parts, Tickets
  <2>5. \A i \in DOMAIN priority' : priority'[i] \in Streams => ticket'[priority'[i]] = "written"
    BY <1>2 DEF Parts, Tickets
  <2>6. QED
    BY <2>1, <2>2, <2>3, <2>4, <2>5 DEF Tickets
<1>7. Wires' /\ Room' /\ Few(slots)'
  BY WiresStand, WireStands DEF Parts, Few
<1>8. Owed'
  <2>1. Held(Len(toAgent))' = Held(Len(toAgent)) /\ (Joined' => Joined)
    BY DEF Held, Joined
  <2>2. Held(Len(toAgent)) \subseteq Streams
    BY DEF Held
  <2>3. ASSUME Joined, NEW x \in Held(Len(toAgent))
        PROVE x \in slots' \/ \E i \in DOMAIN priority' : priority'[i] = x
    BY <1>3, <2>3 DEF Parts, Owed
  <2>4. QED
    BY <2>1, <2>3 DEF Owed
<1>9. Ids'
  <2>1. Wired' = Wired /\ Wired \subseteq Streams
    BY WireStands DEF Wired
  <2>2. Young' \subseteq Young /\ Young \subseteq Streams
    BY <1>4, <2>1 DEF Young, Joined
  <2>3. \A x \in Wired \cup Young : idOf'[x] = idOf[x]
    BY <2>1, <2>2, OnlyAsked DEF Parts
  <2>4. \A x \in Young : idOf[x] \in Nat /\ nextId \in Nat
    BY <2>2 DEF Typed, CallTyped, Works
  <2>5. QED
    BY <2>1, <2>2, <2>3, <2>4 DEF Ids, Parts
<1>10. QED
  BY <1>6, <1>7, <1>8, <1>9 DEF Parts

\* A stream that is opened takes a slot and the next number, and waits in the lane.
LEMMA StreamOpened ==
  ASSUME Typed, Parts, NEW w \in Works, OpenStream(w)
  PROVE  Parts'
<1>1. /\ w \in Streams /\ caller[w] = "new"
      /\ idOf' = [idOf EXCEPT ![w] = nextId] /\ nextId' = nextId + 1
      /\ commands' = Append(commands, Opens(w)) /\ ticket' = [ticket EXCEPT ![w] = "queued"]
      /\ slots' = slots \cup {w} /\ caller' = [caller EXCEPT ![w] = "open"]
      /\ Cardinality(slots) < Slots
      /\ UNCHANGED <<priority, registered, toAgent, conn, link, up>>
  BY DEF OpenStream, DrawId, Admits, SendRequest, Opens, wireVars, linkVars, agentVars
<1>2. /\ commands \in Seq(Requests) /\ Opens(w) \in Requests /\ Streams \subseteq Works
      /\ slots \subseteq Streams /\ nextId \in Nat
      /\ ticket \in [Works -> {"none", "queued", "written", "withdrawn"}]
      /\ idOf \in [Works -> Nat]
      /\ DOMAIN caller = Works
  BY <1>1, OrdersKnown DEF Typed, LaneTyped, RouterTyped, CallTyped, Works, Opens
<1>3. ~InLane(w) /\ w \notin slots /\ w \notin Wired /\ w \notin Young /\ ticket[w] = "none"
  BY <1>1, OnlyAsked DEF Parts, Tickets
<1>4. \A i \in DOMAIN commands' :
        \/ i \in DOMAIN commands /\ commands'[i] = commands[i] /\ commands'[i].work # w
        \/ i = Len(commands) + 1 /\ commands'[i].work = w
  BY <1>1, <1>2, <1>3, AppendPlaces, FramesDiffer DEF InLane
<1>5. \A x \in Streams : InLane(x)' => x = w \/ InLane(x)
  BY <1>4 DEF InLane
<1>6. \A x \in Streams : x # w => ticket'[x] = ticket[x] /\ idOf'[x] = idOf[x] /\ caller'[x] = caller[x]
  BY <1>1, <1>2
<1>7. ticket'[w] = "queued" /\ idOf'[w] = nextId /\ caller'[w] = "open"
  BY <1>1, <1>2
<1>8. Few(slots)'
  BY <1>1, FewMore DEF Parts, Few
<1>9. Tickets'
  <2>1. \A x \in Streams : caller'[x] = "new" => ticket'[x] = "none"
    BY <1>6, <1>7 DEF Parts, Tickets
  <2>2. ASSUME NEW x \in Streams, InLane(x)'
        PROVE ticket'[x] \in {"queued", "withdrawn"} /\ (ticket'[x] = "queued" => x \in slots')
    BY <1>1, <1>5, <1>6, <1>7, <2>2 DEF Parts, Tickets
  <2>3. ASSUME NEW i \in DOMAIN commands', NEW j \in DOMAIN commands',
               commands'[i].work \in Streams, commands'[i].work = commands'[j].work
        PROVE i = j
    BY <1>4, <2>3 DEF Parts, Tickets
  <2>4. \A x \in slots' : ticket'[x] \in {"queued", "written"}
    BY <1>1, <1>2, <1>6, <1>7 DEF Parts, Tickets
  <2>5. \A i \in DOMAIN priority' : priority'[i] \in Streams => ticket'[priority'[i]] = "written"
    BY <1>1, <1>3, <1>6 DEF Parts, Tickets
  <2>6. QED
    BY <2>1, <2>2, <2>3, <2>4, <2>5 DEF Tickets
<1>10. Wires'
  <2>1. \A x \in Streams : ticket[x] = "written" => ticket'[x] = "written"
    BY <1>3, <1>6
  <2>2. QED
    BY <1>1, <2>1, WiresStand DEF Parts
<1>11. Room'
  BY <1>1, WireStands DEF Parts
<1>12. Owed'
  <2>1. Held(Len(toAgent))' = Held(Len(toAgent)) /\ (Joined' => Joined)
    BY <1>1 DEF Held, Joined
  <2>2. QED
    BY <1>1, <2>1 DEF Parts, Owed
<1>13. Ids'
  <2>1. Wired' = Wired /\ Wired \subseteq Streams /\ Young \subseteq Streams
    BY <1>1, WireStands DEF Wired, Young
  <2>2. \A x \in Young' : x = w \/ x \in Young
    BY <1>1, <1>5, <2>1 DEF Young, Joined
  <2>3. \A x \in Wired \cup Young : x # w /\ idOf'[x] = idOf[x]
    BY <1>3, <1>6, <2>1
  <2>4. \A x \in Young : idOf[x] \in Nat /\ idOf[x] < nextId
    BY <1>2, <2>1 DEF Parts, Ids
  <2>5. \A x, y \in Wired' : idOf'[x] = idOf'[y] => x = y
    BY <2>1, <2>3 DEF Parts, Ids
  <2>6. \A x \in Young' : idOf'[x] < nextId'
    BY <1>1, <1>2, <1>7, <2>2, <2>3, <2>4
  <2>7. \A x, y \in Young' : idOf'[x] = idOf'[y] => x = y
    <3> SUFFICES ASSUME NEW x \in Young', NEW y \in Young', idOf'[x] = idOf'[y] PROVE x = y
      OBVIOUS
    <3>1. CASE x \in Young /\ y \in Young
      BY <2>3, <3>1 DEF Parts, Ids
    <3>2. CASE x = w /\ y \in Young
      BY <1>2, <1>7, <2>3, <2>4, <3>2
    <3>3. CASE y = w /\ x \in Young
      BY <1>2, <1>7, <2>3, <2>4, <3>3
    <3>4. QED
      BY <2>2, <3>1, <3>2, <3>3
  <2>8. QED
    BY <2>5, <2>6, <2>7 DEF Ids
<1>14. QED
  BY <1>8, <1>9, <1>10, <1>11, <1>12, <1>13 DEF Parts

\* A stream that is closed gives up its slot, and either never leaves the lane
\* or has its cancel in front of every frame that is not written yet.
LEMMA StreamClosed ==
  ASSUME Typed, Parts, NEW w \in slots, CancelRequest(w), waited' = {},
         slots' = slots \ {w}, UNCHANGED <<registered, toAgent, conn, link, up, idOf, nextId>>,
         \A x \in Streams : caller'[x] = "new" => caller[x] = "new" /\ x # w
  PROVE  Parts' /\ UNCHANGED retained
<1>1. /\ slots \subseteq Streams /\ w \in Streams /\ Streams \subseteq Works
      /\ ticket \in [Works -> {"none", "queued", "written", "withdrawn"}]
      /\ priority \in Seq(Works)
  BY DEF Typed, LaneTyped, RouterTyped, Works
<1>2. UNCHANGED <<retained, commands>>
      /\ \/ /\ ticket[w] = "queued" /\ ticket' = [ticket EXCEPT ![w] = "withdrawn"]
            /\ priority' = priority
         \/ /\ ticket[w] # "queued" /\ ticket' = ticket
            /\ priority' = Append(priority, w)
  BY DEF CancelRequest, QueueCancel
<1>3. ticket[w] \in {"queued", "written"}
  BY DEF Parts, Tickets
<1>4. \A x \in Streams : x # w => ticket'[x] = ticket[x]
  BY <1>1, <1>2
<1>5. /\ ticket'[w] \in {"withdrawn", "written"} /\ (ticket[w] = "written" => ticket'[w] = "written")
      /\ ticket'[w] = "withdrawn" => ticket[w] = "queued"
  BY <1>1, <1>2, <1>3
<1>6. \A i \in DOMAIN priority : i \in DOMAIN priority' /\ priority'[i] = priority[i]
  BY <1>1, <1>2, AppendPlaces
<1>7. \A i \in DOMAIN priority' :
        \/ i \in DOMAIN priority /\ priority'[i] = priority[i]
        \/ priority'[i] = w /\ ticket'[w] = "written"
  BY <1>1, <1>2, <1>3, AppendPlaces
<1>8. ticket'[w] = "written" => \E i \in DOMAIN priority' : priority'[i] = w
  <2>1. CASE ticket[w] # "queued" /\ priority' = Append(priority, w)
    <3>1. Len(priority) + 1 \in DOMAIN priority' /\ priority'[Len(priority) + 1] = w
      BY <1>1, <2>1, AppendPlaces
    <3>2. QED
      BY <3>1
  <2>2. QED
    BY <1>1, <1>2, <2>1
<1>9. \A x \in Streams : InLane(x)' <=> InLane(x)
  BY <1>2 DEF InLane
<1>10. Few(slots)'
  <2>1. Few(slots \ {w})
    BY FewLess DEF Parts
  <2>2. QED
    BY <2>1 DEF Few
<1>11. Tickets'
  <2>1. \A x \in Streams : caller'[x] = "new" => ticket'[x] = "none"
    BY <1>4 DEF Parts, Tickets
  <2>2. ASSUME NEW x \in Streams, InLane(x)'
        PROVE ticket'[x] \in {"queued", "withdrawn"} /\ (ticket'[x] = "queued" => x \in slots')
    <3>1. CASE x = w
      BY <1>1, <1>2, <1>5, <1>9, <2>2, <3>1 DEF Parts, Tickets
    <3>2. CASE x # w
      BY <1>4, <1>9, <2>2, <3>2 DEF Parts, Tickets
    <3>3. QED
      BY <3>1, <3>2
  <2>3. ASSUME NEW i \in DOMAIN commands', NEW j \in DOMAIN commands',
               commands'[i].work \in Streams, commands'[i].work = commands'[j].work
        PROVE i = j
    BY <1>2, <2>3 DEF Parts, Tickets
  <2>4. \A x \in slots' : ticket'[x] \in {"queued", "written"}
    BY <1>1, <1>4 DEF Parts, Tickets
  <2>5. ASSUME NEW i \in DOMAIN priority', priority'[i] \in Streams
        PROVE ticket'[priority'[i]] = "written"
    <3>1. CASE i \in DOMAIN priority /\ priority'[i] = priority[i]
      BY <1>4, <1>5, <2>5, <3>1 DEF Parts, Tickets
    <3>2. QED
      BY <1>7, <2>5, <3>1
  <2>6. QED
    BY <2>1, <2>2, <2>3, <2>4, <2>5 DEF Tickets
<1>12. Wires' /\ Room'
  BY <1>4, <1>5, WiresStand, WireStands DEF Parts
<1>13. Owed'
  <2>1. Held(Len(toAgent))' = Held(Len(toAgent)) /\ (Joined' => Joined)
    BY DEF Held, Joined
  <2>2. ASSUME Joined, NEW x \in Held(Len(toAgent))
        PROVE x \in slots' \/ \E i \in DOMAIN priority' : priority'[i] = x
    <3>1. x \in slots \/ \E i \in DOMAIN priority : priority[i] = x
      BY <2>2 DEF Parts, Owed
    <3>2. CASE x = w
      <4>1. ticket[w] = "written"
        <5>1. x \in registered \/ \E i \in 1 .. Len(toAgent) : toAgent[i] = Opens(x)
          BY <2>2 DEF Held
        <5>2. toAgent \in Seq(Orders)
          BY DEF Typed, WireTyped
        <5>3. QED
          BY <1>1, <3>2, <5>1, <5>2 DEF Parts, Wires
      <4>2. QED
        BY <1>5, <1>8, <3>2, <4>1
    <3>3. CASE x # w
      BY <1>6, <3>1, <3>3
    <3>4. QED
      BY <3>2, <3>3
  <2>3. QED
    BY <2>1, <2>2 DEF Owed
<1>14. Ids'
  <2>1. Wired' = Wired
    BY WireStands
  <2>2. Young' = Young
    BY <1>9, <2>1 DEF Young, Joined
  <2>3. QED
    BY <2>1, <2>2 DEF Ids, Parts
<1>15. QED
  BY <1>2, <1>10, <1>11, <1>12, <1>13, <1>14 DEF Parts

\* What the agent will hold once a frame is at the end of its wire.
LEMMA WireGrows ==
  ASSUME Typed, NEW f \in Orders, toAgent' = Append(toAgent, f),
         UNCHANGED registered, NEW m, m = Len(toAgent)
  PROVE  /\ m \in Nat /\ Len(toAgent') = m + 1
         /\ DOMAIN toAgent = 1 .. m /\ DOMAIN toAgent' = 1 .. m + 1
         /\ \A i \in 1 .. m : toAgent'[i] = toAgent[i]
         /\ toAgent'[m + 1] = f
         /\ \A n \in 0 .. m : Held(n)' = Held(n)
<1>1. /\ m \in Nat /\ Len(toAgent') = m + 1
      /\ DOMAIN toAgent = 1 .. m /\ DOMAIN toAgent' = 1 .. m + 1
      /\ \A i \in 1 .. m : toAgent'[i] = toAgent[i]
      /\ toAgent'[m + 1] = f
  BY AppendPlaces DEF Typed, WireTyped
<1>2. ASSUME NEW n \in 0 .. m PROVE Held(n)' = Held(n)
  <2>1. \A i \in 1 .. n : toAgent'[i] = toAgent[i]
    BY <1>1, <1>2
  <2>2. QED
    BY <2>1 DEF Held
<1>3. QED
  BY <1>1, <1>2

\* A cancel is written: what it is for is not held any more after it.
LEMMA CancelWritten ==
  ASSUME Typed, Parts, Fresh, WritePriority
  PROVE  Parts'
<1> PICK w : w = Head(priority)
  OBVIOUS
<1> PICK m : m = Len(toAgent)
  OBVIOUS
<1>1. /\ w \in Works /\ Cancels(w) \in Orders /\ priority \in Seq(Works) /\ priority # <<>>
      /\ priority' = Tail(priority)
      /\ UNCHANGED <<slots, commands, ticket, caller, registered, conn, link, up, idOf, nextId>>
      /\ \/ Joined /\ toAgent' = Append(toAgent, Cancels(w))
         \/ ~Joined /\ toAgent' = toAgent
  BY FrontOfQueue, OrdersKnown DEF WritePriority, Write, Typed, LaneTyped, Fresh, Joined, Cancels,
     callVars, routerVars, linkVars, agentVars
<1>2. /\ 1 \in DOMAIN priority /\ priority[1] = w
      /\ \A i \in DOMAIN priority' : i + 1 \in DOMAIN priority /\ priority'[i] = priority[i + 1]
      /\ \A i \in DOMAIN priority : i # 1 => i - 1 \in DOMAIN priority' /\ priority'[i - 1] = priority[i]
  BY <1>1, TailPlaces
<1>3. Tickets' /\ Few(slots)'
  <2>1. \A i \in DOMAIN priority' : priority'[i] \in Streams => ticket'[priority'[i]] = "written"
    BY <1>1, <1>2 DEF Parts, Tickets
  <2>2. \A x \in Streams : InLane(x)' <=> InLane(x)
    BY <1>1 DEF InLane
  <2>3. QED
    BY <1>1, <2>1, <2>2 DEF Parts, Tickets, Few
<1>4. Young' = {x \in Streams : InLane(x) \/ (Joined /\ x \in Wired')} /\ Joined' = Joined
  BY <1>1 DEF Young, InLane, Joined
<1>5. CASE ~Joined /\ toAgent' = toAgent
  <2>1. Wires' /\ Room' /\ Wired' = Wired
    BY <1>1, <1>5, WiresStand, WireStands DEF Parts
  <2>2. Owed' /\ Young' = Young
    BY <1>4, <1>5, <2>1 DEF Owed, Young
  <2>3. Ids'
    BY <1>1, <2>1, <2>2 DEF Parts, Ids
  <2>4. QED
    BY <1>3, <2>1, <2>2, <2>3 DEF Parts
<1>6. CASE Joined /\ toAgent' = Append(toAgent, Cancels(w))
  <2>1. /\ Len(toAgent') = m + 1 /\ m \in Nat
        /\ DOMAIN toAgent = 1 .. m /\ DOMAIN toAgent' = 1 .. m + 1
        /\ \A i \in 1 .. m : toAgent'[i] = toAgent[i]
        /\ toAgent'[m + 1] = Cancels(w)
        /\ \A n \in 0 .. m : Held(n)' = Held(n)
    BY <1>1, <1>6, WireGrows
  <2>2. \A i \in DOMAIN toAgent' :
          \/ i \in DOMAIN toAgent /\ toAgent'[i] = toAgent[i]
          \/ i = m + 1 /\ toAgent'[i] = Cancels(w)
    BY <2>1
  <2>3. w \in Streams => ticket[w] = "written"
    BY <1>2 DEF Parts, Tickets
  <2>4. Wires'
    <3>1. ASSUME NEW x \in registered' \cap Streams
          PROVE ticket'[x] = "written" /\ \A i \in DOMAIN toAgent' : toAgent'[i] # Opens(x)
      BY <1>1, <2>2, <3>1, FramesDiffer DEF Parts, Wires
    <3>2. ASSUME NEW x \in Streams, NEW i \in DOMAIN toAgent',
                 toAgent'[i] = Opens(x) \/ toAgent'[i] = Cancels(x)
          PROVE ticket'[x] = "written"
      BY <1>1, <2>2, <2>3, <3>2, FramesDiffer DEF Parts, Wires
    <3>3. ASSUME NEW x \in Streams, NEW i \in DOMAIN toAgent', toAgent'[i] = Opens(x),
                 NEW j \in DOMAIN toAgent'
          PROVE (toAgent'[j] = Opens(x) => j = i) /\ (toAgent'[j] = Cancels(x) => i < j)
      <4>1. i \in DOMAIN toAgent /\ toAgent[i] = Opens(x) /\ i <= m
        BY <2>1, <2>2, <3>3, FramesDiffer
      <4>2. CASE j \in DOMAIN toAgent /\ toAgent'[j] = toAgent[j]
        BY <4>1, <4>2 DEF Parts, Wires
      <4>3. CASE j = m + 1 /\ toAgent'[j] = Cancels(w)
        BY <2>1, <4>1, <4>3, FramesDiffer
      <4>4. QED
        BY <2>2, <4>2, <4>3
    <3>4. QED
      BY <3>1, <3>2, <3>3 DEF Wires
  <2>5. ASSUME NEW x \in Held(m + 1)' PROVE x \in Held(m) /\ x # w
    <3>1. /\ x \in Streams
          /\ x \in registered \/ \E i \in 1 .. m + 1 : toAgent'[i] = Opens(x)
          /\ \A i \in 1 .. m + 1 : toAgent'[i] # Cancels(x)
      BY <1>1, <2>5 DEF Held
    <3>2. x # w
      BY <2>1, <3>1
    <3>3. x \in registered \/ \E i \in 1 .. m : toAgent[i] = Opens(x)
      BY <2>1, <3>1, FramesDiffer
    <3>4. \A i \in 1 .. m : toAgent[i] # Cancels(x)
      BY <2>1, <3>1
    <3>5. QED
      BY <3>1, <3>2, <3>3, <3>4 DEF Held
  <2>6. Room'
    <3>1. Few(Held(m + 1)')
      BY <2>1, <2>5, FewLess DEF Parts, Room
    <3>2. \A n \in 0 .. m : Few(Held(n)')
      BY <2>1 DEF Parts, Room
    <3>3. \A n \in 0 .. Len(toAgent') : n \in 0 .. m \/ n = m + 1
      BY <2>1
    <3>4. QED
      BY <3>1, <3>2, <3>3 DEF Room, Few
  <2>7. Owed'
    <3>1. ASSUME NEW x \in Held(m + 1)'
          PROVE x \in slots' \/ \E i \in DOMAIN priority' : priority'[i] = x
      <4>1. x \in Held(Len(toAgent)) /\ x # w
        BY <2>5, <3>1
      <4>2. x \in slots \/ \E i \in DOMAIN priority : priority[i] = x
        BY <1>6, <4>1 DEF Parts, Owed
      <4>3. ASSUME NEW i \in DOMAIN priority, priority[i] = x
            PROVE i - 1 \in DOMAIN priority' /\ priority'[i - 1] = x
        BY <1>2, <4>1, <4>3
      <4>4. QED
        BY <1>1, <4>2, <4>3
    <3>2. Held(Len(toAgent))' = Held(m + 1)'
      BY <2>1 DEF Held
    <3>3. QED
      BY <3>1, <3>2 DEF Owed
  <2>8. Wired' = Wired
    BY <1>1, <2>1, <2>2, FramesDiffer DEF Wired
  <2>9. Ids'
    BY <1>1, <1>4, <2>8 DEF Parts, Ids, Young
  <2>10. QED
    BY <1>3, <2>4, <2>6, <2>7, <2>9 DEF Parts
<1>7. QED
  BY <1>1, <1>5, <1>6

\* A frame leaves the lane for the wire, or is dropped because it was withdrawn.
\* Every cancel is on the wire already, so what the agent will hold has its slots.
LEMMA FrameWritten ==
  ASSUME Typed, Parts, Fresh, WriteCommand
  PROVE  Parts'
<1> PICK f : f = Head(commands)
  OBVIOUS
<1> PICK w : w = f.work
  OBVIOUS
<1> PICK m : m = Len(toAgent)
  OBVIOUS
<1>1. /\ f \in Requests /\ w \in Works /\ f \in Orders /\ commands \in Seq(Requests)
      /\ f = [kind |-> f.kind, work |-> w]
      /\ commands # <<>> /\ commands' = Tail(commands) /\ priority = <<>>
      /\ UNCHANGED <<slots, priority, caller, registered, conn, link, up, idOf, nextId>>
      /\ ticket \in [Works -> {"none", "queued", "written", "withdrawn"}]
      /\ slots \subseteq Streams /\ Streams \subseteq Works
  BY FrontOfQueue, OrdersKnown DEF WriteCommand, Typed, LaneTyped, RouterTyped, callVars,
     routerVars, linkVars, agentVars, Works
<1>2. \/ ticket[w] = "withdrawn" /\ UNCHANGED <<ticket, toAgent>>
      \/ /\ ticket[w] # "withdrawn" /\ ticket' = [ticket EXCEPT ![w] = "written"]
         /\ \/ Joined /\ toAgent' = Append(toAgent, f)
            \/ ~Joined /\ toAgent' = toAgent
  BY <1>1 DEF WriteCommand, Write, Fresh, Joined
<1>3. /\ 1 \in DOMAIN commands /\ commands[1] = f
      /\ \A i \in DOMAIN commands' :
           i \in Nat /\ i >= 1 /\ i + 1 \in DOMAIN commands /\ commands'[i] = commands[i + 1]
  BY <1>1, TailPlaces
<1>4. \A x \in Streams : InLane(x)' => InLane(x) /\ x # w
  <2>1. ASSUME NEW x \in Streams, NEW i \in DOMAIN commands', commands'[i].work = x
        PROVE InLane(x) /\ x # w
    <3>1. i + 1 \in DOMAIN commands /\ commands[i + 1].work = x /\ i + 1 # 1
      BY <1>3, <2>1
    <3>2. x # w
      BY <1>3, <3>1 DEF Parts, Tickets
    <3>3. QED
      BY <3>1, <3>2 DEF InLane
  <2>2. QED
    BY <2>1 DEF InLane
<1>5. w \in Streams => InLane(w) /\ f = Opens(w) /\ ticket[w] \in {"queued", "withdrawn"}
                       /\ (ticket[w] = "queued" => w \in slots)
  <2>1. w \in Streams => f = Opens(w)
    BY <1>1, OrdersKnown, WorkAssumption DEF Requests, Opens
  <2>2. w \in Streams => InLane(w)
    BY <1>3 DEF InLane
  <2>3. QED
    BY <2>1, <2>2 DEF Parts, Tickets
<1>6. \A x \in Streams : /\ x # w => ticket'[x] = ticket[x]
                         /\ x = w => ticket'[x] = "written" \/ (ticket[x] = "withdrawn" /\ ticket'[x] = ticket[x])
                         /\ ticket[x] = "written" => ticket'[x] = "written"
  BY <1>1, <1>2
<1>7. Tickets' /\ Few(slots)'
  <2>1. \A x \in Streams : caller'[x] = "new" => ticket'[x] = "none"
    BY <1>1, <1>5, <1>6 DEF Parts, Tickets
  <2>2. ASSUME NEW x \in Streams, InLane(x)'
        PROVE ticket'[x] \in {"queued", "withdrawn"} /\ (ticket'[x] = "queued" => x \in slots')
    BY <1>1, <1>4, <1>6, <2>2 DEF Parts, Tickets
  <2>3. ASSUME NEW i \in DOMAIN commands', NEW j \in DOMAIN commands',
               commands'[i].work \in Streams, commands'[i].work = commands'[j].work
        PROVE i = j
    <3>1. i + 1 = j + 1
      BY <1>3, <2>3 DEF Parts, Tickets
    <3>2. QED
      BY <1>3, <3>1
  <2>4. \A x \in slots' : ticket'[x] \in {"queued", "written"}
    BY <1>1, <1>6 DEF Parts, Tickets
  <2>5. \A i \in DOMAIN priority' : priority'[i] \in Streams => ticket'[priority'[i]] = "written"
    BY <1>1
  <2>6. QED
    BY <1>1, <2>1, <2>2, <2>3, <2>4, <2>5 DEF Tickets, Parts, Few
<1>8. CASE toAgent' = toAgent
  <2>1. Wires' /\ Room' /\ Wired' = Wired /\ \A n : Held(n)' = Held(n)
    BY <1>1, <1>6, <1>8, WiresStand, WireStands DEF Parts
  <2>2. Owed'
    <3>1. Held(Len(toAgent))' = Held(Len(toAgent)) /\ Joined' = Joined
      BY <1>1, <1>8 DEF Held, Joined
    <3>2. QED
      BY <1>1, <3>1 DEF Owed, Parts
  <2>3. Young' \subseteq Young
    BY <1>1, <1>4, <2>1 DEF Young, Joined
  <2>4. Ids'
    BY <1>1, <2>1, <2>3 DEF Parts, Ids
  <2>5. QED
    BY <1>7, <2>1, <2>2, <2>4 DEF Parts
<1>9. CASE Joined /\ toAgent' = Append(toAgent, f) /\ ticket[w] # "withdrawn"
  <2>1. /\ Len(toAgent') = m + 1 /\ m \in Nat
        /\ DOMAIN toAgent = 1 .. m /\ DOMAIN toAgent' = 1 .. m + 1
        /\ \A i \in 1 .. m : toAgent'[i] = toAgent[i]
        /\ toAgent'[m + 1] = f
        /\ \A n \in 0 .. m : Held(n)' = Held(n)
    BY <1>1, <1>9, WireGrows
  <2>2. \A i \in DOMAIN toAgent' :
          \/ i \in DOMAIN toAgent /\ toAgent'[i] = toAgent[i]
          \/ i = m + 1 /\ toAgent'[i] = f
    BY <2>1
  \* A stream that is written was not on the wire or in the registry before.
  <2>3. /\ \A x \in Streams : f = Opens(x) => x = w
        /\ \A x \in Streams : f # Cancels(x)
        /\ w \in Streams =>
             /\ ticket[w] = "queued" /\ ticket'[w] = "written" /\ w \in slots
             /\ w \notin registered /\ w \notin Wired
             /\ \A i \in DOMAIN toAgent : toAgent[i] # Opens(w) /\ toAgent[i] # Cancels(w)
    <3>1. /\ \A x \in Streams : f = Opens(x) => x = w
          /\ \A x \in Streams : f # Cancels(x)
      BY <1>1, FramesDiffer DEF Requests
    <3>2. w \in Streams => ticket[w] = "queued" /\ ticket'[w] = "written" /\ w \in slots
      BY <1>2, <1>5, <1>6, <1>9
    <3>3. w \in Streams =>
             /\ w \notin registered
             /\ \A i \in DOMAIN toAgent : toAgent[i] # Opens(w) /\ toAgent[i] # Cancels(w)
      BY <3>2 DEF Parts, Wires
    <3>4. QED
      BY <3>1, <3>2, <3>3 DEF Wired
  <2>4. Wires'
    <3>1. ASSUME NEW x \in registered' \cap Streams
          PROVE ticket'[x] = "written" /\ \A i \in DOMAIN toAgent' : toAgent'[i] # Opens(x)
      BY <1>1, <1>6, <2>2, <2>3, <3>1 DEF Parts, Wires
    <3>2. ASSUME NEW x \in Streams, NEW i \in DOMAIN toAgent',
                 toAgent'[i] = Opens(x) \/ toAgent'[i] = Cancels(x)
          PROVE ticket'[x] = "written"
      BY <1>6, <2>2, <2>3, <3>2 DEF Parts, Wires
    <3>3. ASSUME NEW x \in Streams, NEW i \in DOMAIN toAgent', toAgent'[i] = Opens(x),
                 NEW j \in DOMAIN toAgent'
          PROVE (toAgent'[j] = Opens(x) => j = i) /\ (toAgent'[j] = Cancels(x) => i < j)
      <4>1. CASE i \in DOMAIN toAgent /\ toAgent'[i] = toAgent[i]
        <5>1. x # w
          BY <2>3, <3>3, <4>1
        <5>2. CASE j \in DOMAIN toAgent /\ toAgent'[j] = toAgent[j]
          BY <3>3, <4>1, <5>2 DEF Parts, Wires
        <5>3. CASE j = m + 1 /\ toAgent'[j] = f
          BY <2>3, <5>1, <5>3
        <5>4. QED
          BY <2>2, <5>2, <5>3
      <4>2. CASE i = m + 1 /\ toAgent'[i] = f
        <5>1. x = w
          BY <2>3, <3>3, <4>2
        <5>2. CASE j \in DOMAIN toAgent /\ toAgent'[j] = toAgent[j]
          BY <2>3, <5>1, <5>2
        <5>3. CASE j = m + 1 /\ toAgent'[j] = f
          BY <2>3, <4>2, <5>3
        <5>4. QED
          BY <2>2, <5>2, <5>3
      <4>3. QED
        BY <2>2, <4>1, <4>2
    <3>4. QED
      BY <3>1, <3>2, <3>3 DEF Wires
  <2>5. ASSUME NEW x \in Held(m + 1)' PROVE x \in slots
    <3>1. x \in Streams /\ (x \in registered \/ \E i \in 1 .. m + 1 : toAgent'[i] = Opens(x))
          /\ \A i \in 1 .. m + 1 : toAgent'[i] # Cancels(x)
      BY <1>1, <2>5 DEF Held
    <3>2. CASE x = w
      BY <2>3, <3>1, <3>2
    <3>3. CASE x # w
      <4>1. x \in Held(m)
        <5>1. x \in registered \/ \E i \in 1 .. m : toAgent[i] = Opens(x)
          BY <2>1, <2>3, <3>1, <3>3
        <5>2. \A i \in 1 .. m : toAgent[i] # Cancels(x)
          BY <2>1, <3>1
        <5>3. QED
          BY <3>1, <5>1, <5>2 DEF Held
      <4>2. QED
        BY <1>1, <1>9, <4>1 DEF Parts, Owed
    <3>4. QED
      BY <3>2, <3>3
  <2>6. Room'
    <3>1. Few(Held(m + 1)')
      BY <2>5, FewLess DEF Parts
    <3>2. \A n \in 0 .. m : Few(Held(n)')
      BY <2>1 DEF Parts, Room
    <3>3. \A n \in 0 .. Len(toAgent') : n \in 0 .. m \/ n = m + 1
      BY <2>1
    <3>4. QED
      BY <3>1, <3>2, <3>3 DEF Room, Few
  <2>7. Owed'
    <3>1. Held(Len(toAgent))' = Held(m + 1)'
      BY <2>1 DEF Held
    <3>2. QED
      BY <1>1, <2>5, <3>1 DEF Owed
  <2>8. \A x \in Wired' : x \in Wired \/ x = w
    BY <1>1, <2>2, <2>3 DEF Wired
  <2>9. \A x \in Young' : x \in Young
    <3>1. w \in Streams => w \in Young
      BY <1>5 DEF Young
    <3>2. Wired' \subseteq Streams /\ Joined
      BY <1>9 DEF Wired
    <3>3. QED
      BY <1>1, <1>4, <2>8, <3>1, <3>2 DEF Young, Joined
  <2>10. \A x \in Wired' : x \in Young
    <3>1. w \in Streams => w \in Young
      BY <1>5 DEF Young
    <3>2. Wired' \subseteq Streams /\ Wired \subseteq Streams
      BY DEF Wired
    <3>3. QED
      BY <1>9, <2>8, <3>1, <3>2 DEF Young
  <2>11. Ids'
    BY <1>1, <2>9, <2>10 DEF Parts, Ids
  <2>12. QED
    BY <1>7, <2>4, <2>6, <2>7, <2>11 DEF Parts
<1>10. QED
  BY <1>2, <1>8, <1>9

\* The lanes go with the router's connection, and a new one starts with nothing
\* on its wire.
LEMMA LanesCleared ==
  ASSUME Typed, Parts, Fresh,
         slots' = {}, commands' = <<>>, priority' = <<>>,
         UNCHANGED <<toAgent, registered, ticket, idOf>>,
         \A x \in Streams : caller'[x] = "new" => caller[x] = "new",
         Joined' => toAgent = <<>> /\ registered = {}
  PROVE  Parts'
<1>1. Few(slots)'
  BY FewEmpty DEF Few
<1>2. \A x \in Streams : ~InLane(x)'
  BY DEF InLane
<1>3. Tickets'
  BY <1>2 DEF Tickets, Parts
<1>4. Wires' /\ Room' /\ Wired' = Wired
  BY WiresStand, WireStands DEF Parts
<1>5. Joined' => Wired = {} /\ Held(Len(toAgent))' = {}
  BY DEF Held, Wired
<1>6. Owed'
  BY <1>5 DEF Owed
<1>7. Young' = {}
  BY <1>2, <1>4, <1>5 DEF Young
<1>8. Ids'
  BY <1>4, <1>7 DEF Ids, Parts
<1>9. QED
  BY <1>1, <1>3, <1>4, <1>6, <1>8 DEF Parts

\* No step of a caller, of the router or of a session breaks the parts.
LEMMA RouterKeepsParts ==
  ASSUME Typed, Parts, Fresh, RouterNext, retained = <<>>, waited' = {}
  PROVE  Parts' /\ retained' = <<>>
<1> USE DEF Typed
<1>0. /\ nextId \in Nat /\ slots \subseteq Streams /\ flows \subseteq Commands
      /\ DOMAIN caller = Works /\ DOMAIN ticket = Works /\ DOMAIN idOf = Works
      /\ Streams \cup Commands = Works /\ Streams \cap Commands = {}
  BY WorkAssumption DEF CallTyped, RouterTyped, LaneTyped, Works
<1>1. ASSUME NEW w \in Works, OpenStream(w) PROVE Parts' /\ retained' = <<>>
  BY <1>1, StreamOpened DEF OpenStream, SendRequest
<1>2. ASSUME NEW w \in Works, Execute(w) PROVE Parts' /\ retained' = <<>>
  <2>1. /\ w \in Commands /\ caller[w] = "new"
        /\ commands' = Append(commands, [kind |-> "command", work |-> w])
        /\ ticket' = [ticket EXCEPT ![w] = "queued"]
        /\ caller' = [caller EXCEPT ![w] = "waiting"]
        /\ idOf' = [idOf EXCEPT ![w] = nextId] /\ nextId' = nextId + 1
        /\ UNCHANGED <<registered, toAgent, conn, link, up, slots, priority, retained>>
    BY <1>2 DEF Execute, DrawId, SendRequest, wireVars, linkVars, agentVars
  <2>2. \E f \in Requests : f.work \notin Streams /\ commands' = Append(commands, f)
    BY <1>0, <2>1, OrdersKnown
  <2>3. \A x \in Streams : /\ ticket'[x] = ticket[x] /\ caller'[x] = caller[x]
                           /\ idOf'[x] = idOf[x]
    BY <1>0, <2>1
  <2>4. QED
    BY <1>0, <2>1, <2>2, <2>3, StreamsStand
<1>3. ASSUME NEW w \in Works, RefuseWork(w) PROVE Parts' /\ retained' = <<>>
  <2>1. /\ caller[w] = "new" /\ caller' = [caller EXCEPT ![w] = "failed"]
        /\ idOf' = [idOf EXCEPT ![w] = nextId] /\ nextId' = nextId + 1
        /\ UNCHANGED <<registered, toAgent, conn, link, up, slots, commands, priority,
                       retained, ticket>>
    BY <1>3 DEF RefuseWork, DrawId, routerVars, laneVars, wireVars, linkVars, agentVars
  <2>2. /\ \A x \in Streams : caller'[x] = "new" => caller[x] = "new"
        /\ \A x \in Streams : caller[x] # "new" => idOf'[x] = idOf[x]
        /\ nextId <= nextId' /\ nextId' \in Nat
    BY <1>0, <2>1
  <2>3. QED
    BY <2>1, <2>2, StreamsStand
<1>4. ASSUME NEW w \in Works, CallerLeaves(w) PROVE Parts' /\ retained' = <<>>
  <2>1. /\ caller' = [caller EXCEPT ![w] = "leaving"]
        /\ UNCHANGED <<registered, toAgent, conn, link, up, slots, commands, priority,
                       retained, ticket, idOf, nextId>>
    BY <1>4 DEF CallerLeaves, routerVars, laneVars, wireVars, linkVars, agentVars
  <2>2. \A x \in Streams : caller'[x] = "new" => caller[x] = "new"
    BY <1>0, <2>1
  <2>3. QED
    BY <1>0, <2>1, <2>2, StreamsStand
<1>5. ASSUME NEW w \in Works, CloseStream(w) PROVE Parts' /\ retained' = <<>>
  <2>1. /\ w \in Streams /\ caller' = [caller EXCEPT ![w] = "gone"] /\ slots' = slots \ {w}
        /\ IF w \in slots THEN CancelRequest(w) ELSE UNCHANGED laneVars
        /\ UNCHANGED <<registered, toAgent, conn, link, up, idOf, nextId>>
    BY <1>5 DEF CloseStream, wireVars, linkVars, agentVars
  <2>2. \A x \in Streams : caller'[x] = "new" => caller[x] = "new" /\ x # w
    BY <1>0, <2>1
  <2>3. CASE w \in slots
    BY <2>1, <2>2, <2>3, StreamClosed
  <2>4. CASE w \notin slots
    <3>1. UNCHANGED <<slots, commands, priority, retained, ticket>>
      BY <2>1, <2>4 DEF laneVars
    <3>2. QED
      BY <1>0, <2>1, <2>2, <3>1, StreamsStand
  <2>5. QED
    BY <2>3, <2>4
<1>6. ASSUME NEW w \in Works, AbandonCommand(w) PROVE Parts' /\ retained' = <<>>
  <2>1. /\ w \in Commands /\ caller' = [caller EXCEPT ![w] = "gone"]
        /\ CancelRequest(w) \/ UNCHANGED laneVars
        /\ UNCHANGED <<registered, toAgent, conn, link, up, slots, idOf, nextId>>
    BY <1>6 DEF AbandonCommand, wireVars, linkVars, agentVars
  <2>2. /\ UNCHANGED <<commands, retained>>
        /\ ticket' = ticket \/ ticket' = [ticket EXCEPT ![w] = "withdrawn"]
        /\ priority' = priority \/ priority' = Append(priority, w)
    BY <2>1 DEF CancelRequest, QueueCancel, laneVars
  <2>3. \A x \in Streams : ticket'[x] = ticket[x] /\ (caller'[x] = "new" => caller[x] = "new")
    BY <1>0, <2>1, <2>2
  <2>4. w \in Works \ Streams
    BY <1>0, <2>1
  <2>5. QED
    BY <1>0, <2>1, <2>2, <2>3, <2>4, StreamsStand
<1>7. CASE Writer
  <2>1. ~RetainedSent
    BY DEF RetainedSent
  <2>2. WritePriority \/ WriteCommand => retained' = retained
    BY DEF WritePriority, WriteCommand
  <2>3. QED
    BY <1>7, <2>1, <2>2, CancelWritten, FrameWritten DEF Writer
<1>8. CASE ReadFrame
  <2>1. /\ caller' = [w \in Works |->
             CASE w \in Answered(Head(toServer)) /\ caller[w] = "waiting" -> "answered"
               [] w \in Finished(Head(toServer)) /\ caller[w] = "open" -> "leaving"
               [] OTHER -> caller[w]]
        /\ UNCHANGED <<registered, toAgent, conn, link, up, slots, commands, priority,
                       retained, ticket, idOf, nextId>>
    BY <1>8 DEF ReadFrame, laneVars, linkVars, agentVars
  <2>2. \A x \in Streams : caller'[x] = "new" => caller[x] = "new"
    BY <1>0, <2>1
  <2>3. QED
    BY <1>0, <2>1, <2>2, StreamsStand
<1>9. CASE Register \/ Unregister
  <2>1. Release /\ UNCHANGED <<wireVars, linkVars, agentVars>>
    BY <1>9 DEF Register, Unregister
  <2>2. \A x \in Streams : caller'[x] = "new" => caller[x] = "new"
    BY <1>0, <2>1 DEF Release
  <2>3. Joined' => toAgent = <<>> /\ registered = {}
    <3>1. CASE Register
      BY <3>1 DEF Register, Fresh
    <3>2. CASE Unregister
      BY <3>2 DEF Unregister, Joined, linkVars
    <3>3. QED
      BY <1>9, <3>1, <3>2
  <2>4. QED
    BY <2>1, <2>2, <2>3, LanesCleared DEF Release, wireVars, agentVars
<1>10. CASE RestartServer
  <2>1. \A x \in Streams : caller'[x] = "new" => caller[x] = "new"
    BY <1>0, <1>10 DEF RestartServer
  <2>2. ~Joined'
    BY <1>10 DEF RestartServer, Joined
  <2>3. QED
    BY <1>10, <2>1, <2>2, LanesCleared DEF RestartServer, agentVars
<1>11. QED
  BY <1>1, <1>2, <1>3, <1>4, <1>5, <1>6, <1>7, <1>8, <1>9, <1>10
  DEF RouterNext, Ask, Router, Session

\* The agent makes what it holds and what it will hold no more.
LEMMA AgentHoldsNoMore ==
  ASSUME Typed, Parts, UNCHANGED <<callVars, conn, routerVars, laneVars>>, Wires',
         \A x \in Wired' : x \in Wired, Joined' => Joined,
         \A n \in 0 .. Len(toAgent') :
           \E m \in 0 .. Len(toAgent) : \A x \in Held(n)' : x \in Held(m),
         Joined' => \A x \in Held(Len(toAgent))' : x \in Held(Len(toAgent))
  PROVE  Parts'
<1>1. UNCHANGED <<caller, ticket, slots, commands, priority, idOf, nextId>>
  BY DEF callVars, routerVars, laneVars
<1>2. Few(slots)' /\ Tickets'
  BY <1>1 DEF Parts, Few, Tickets, InLane
<1>3. Room'
  <2>1. ASSUME NEW n \in 0 .. Len(toAgent') PROVE Few(Held(n)')
    <3>1. PICK m \in 0 .. Len(toAgent) : \A x \in Held(n)' : x \in Held(m)
      BY <2>1
    <3>2. Few(Held(m))
      BY DEF Parts, Room
    <3>3. QED
      BY <3>1, <3>2, FewLess
  <2>2. QED
    BY <2>1 DEF Room, Few
<1>4. Owed'
  BY <1>1 DEF Parts, Owed
<1>5. Ids'
  <2>1. \A x \in Young' : x \in Young
    BY <1>1 DEF Young, InLane
  <2>2. QED
    BY <1>1, <2>1 DEF Parts, Ids
<1>6. QED
  BY <1>2, <1>3, <1>4, <1>5 DEF Parts

\* A frame is taken off the wire, and the registry does with its stream what the
\* frame asks for.
LEMMA FrameTaken ==
  ASSUME Typed, Parts, NEW kind, NEW w, Takes(kind, w),
         \A x \in registered' \cap Streams :
           \/ x \in registered /\ ~(kind = "cancel" /\ x = w)
           \/ kind = "open" /\ x = w
  PROVE  Parts'
<1> PICK f : f = [kind |-> kind, work |-> w]
  OBVIOUS
<1> PICK m : m = Len(toAgent)
  OBVIOUS
<1>1. /\ m \in Nat \ {0} /\ DOMAIN toAgent = 1 .. m /\ toAgent[1] = f
      /\ Len(toAgent') = m - 1 /\ DOMAIN toAgent' = 1 .. m - 1
      /\ \A i \in 1 .. m - 1 : toAgent'[i] = toAgent[i + 1]
  BY TailPlaces DEF Takes, Typed, WireTyped
<1>2. UNCHANGED <<callVars, conn, routerVars, laneVars, linkVars, ticket>>
  BY DEF Takes, laneVars
<1>3. \A x \in Streams : /\ kind = "open" /\ x = w => f = Opens(x)
                         /\ kind = "cancel" /\ x = w => f = Cancels(x)
                         /\ f = Cancels(x) => kind = "cancel" /\ x = w
  BY DEF Opens, Cancels
<1>4. Wires'
  <2>1. ASSUME NEW x \in registered' \cap Streams
        PROVE ticket'[x] = "written" /\ \A i \in DOMAIN toAgent' : toAgent'[i] # Opens(x)
    <3>1. CASE x \in registered
      BY <1>1, <1>2, <3>1 DEF Parts, Wires
    <3>2. CASE kind = "open" /\ x = w
      <4>1. toAgent[1] = Opens(x)
        BY <1>1, <1>3, <3>2
      <4>2. \A j \in DOMAIN toAgent : toAgent[j] = Opens(x) => j = 1
        BY <1>1, <4>1 DEF Parts, Wires
      <4>3. ticket[x] = "written"
        BY <1>1, <4>1 DEF Parts, Wires
      <4>4. \A i \in DOMAIN toAgent' : i + 1 \in DOMAIN toAgent /\ i + 1 # 1
        BY <1>1
      <4>5. QED
        BY <1>1, <1>2, <4>2, <4>3, <4>4
    <3>3. QED
      BY <2>1, <3>1, <3>2
  <2>2. \A i \in DOMAIN toAgent' :
          i \in Nat /\ i + 1 \in DOMAIN toAgent /\ toAgent'[i] = toAgent[i + 1]
    BY <1>1
  <2>3. ASSUME NEW x \in Streams, NEW i \in DOMAIN toAgent',
               toAgent'[i] = Opens(x) \/ toAgent'[i] = Cancels(x)
        PROVE ticket'[x] = "written"
    BY <1>2, <2>2, <2>3 DEF Parts, Wires
  <2>4. ASSUME NEW x \in Streams, NEW i \in DOMAIN toAgent', toAgent'[i] = Opens(x),
               NEW j \in DOMAIN toAgent'
        PROVE (toAgent'[j] = Opens(x) => j = i) /\ (toAgent'[j] = Cancels(x) => i < j)
    <3>1. toAgent'[j] = Opens(x) => j + 1 = i + 1
      BY <2>2, <2>4 DEF Parts, Wires
    <3>2. toAgent'[j] = Cancels(x) => i + 1 < j + 1
      BY <2>2, <2>4 DEF Parts, Wires
    <3>3. QED
      BY <2>2, <3>1, <3>2
  <2>5. QED
    BY <2>1, <2>3, <2>4 DEF Wires
<1>5. ASSUME NEW n \in 0 .. m - 1, NEW x \in Held(n)' PROVE x \in Held(n + 1)
  <2>1. /\ x \in Streams
        /\ x \in registered' \/ \E i \in 1 .. n : toAgent'[i] = Opens(x)
        /\ \A i \in 1 .. n : toAgent'[i] # Cancels(x)
    BY <1>5 DEF Held
  <2>2. \A i \in 1 .. n : i + 1 \in 1 .. n + 1 /\ toAgent'[i] = toAgent[i + 1]
    BY <1>1, <1>5
  <2>3. 1 \in 1 .. n + 1 /\ 1 \in DOMAIN toAgent
    BY <1>1, <1>5
  <2>4. x \in registered \/ \E i \in 1 .. n + 1 : toAgent[i] = Opens(x)
    <3>1. CASE \E i \in 1 .. n : toAgent'[i] = Opens(x)
      BY <2>2, <3>1
    <3>2. CASE x \in registered'
      BY <1>1, <1>3, <2>1, <2>3, <3>2
    <3>3. QED
      BY <2>1, <3>1, <3>2
  <2>5. toAgent[1] # Cancels(x)
    <3> SUFFICES ASSUME toAgent[1] = Cancels(x) PROVE FALSE
      OBVIOUS
    <3>1. kind = "cancel" /\ x = w
      BY <1>1, <1>3, <2>1
    <3>2. CASE x \in registered'
      BY <2>1, <3>1, <3>2
    <3>3. ASSUME NEW i \in 1 .. n, toAgent'[i] = Opens(x) PROVE FALSE
      <4>1. i + 1 \in DOMAIN toAgent /\ toAgent[i + 1] = Opens(x) /\ ~(i + 1 < 1)
        BY <1>1, <1>5, <3>3
      <4>2. QED
        BY <2>1, <2>3, <4>1 DEF Parts, Wires
    <3>4. QED
      BY <2>1, <3>2, <3>3
  <2>6. ASSUME NEW i \in 1 .. n + 1 PROVE toAgent[i] # Cancels(x)
    <3>1. CASE i = 1
      BY <2>5, <3>1
    <3>2. CASE i # 1
      <4>1. i - 1 \in 1 .. n /\ toAgent'[i - 1] = toAgent[i]
        BY <1>1, <1>5, <2>6, <3>2
      <4>2. QED
        BY <2>1, <4>1
    <3>3. QED
      BY <3>1, <3>2
  <2>7. QED
    BY <2>1, <2>4, <2>6 DEF Held
<1>6. \A x \in Wired' : x \in Wired
  <2>1. ASSUME NEW x \in Wired' PROVE x \in Wired
    <3>1. x \in Streams /\ (x \in registered' \/ \E i \in DOMAIN toAgent' : toAgent'[i] = Opens(x))
      BY <2>1 DEF Wired
    <3>2. CASE x \in registered'
      <4>1. x \in registered \/ toAgent[1] = Opens(x)
        BY <1>1, <1>3, <3>1, <3>2
      <4>2. 1 \in DOMAIN toAgent
        BY <1>1
      <4>3. QED
        BY <3>1, <4>1, <4>2 DEF Wired
    <3>3. ASSUME NEW i \in DOMAIN toAgent', toAgent'[i] = Opens(x) PROVE x \in Wired
      <4>1. i + 1 \in DOMAIN toAgent /\ toAgent[i + 1] = Opens(x)
        BY <1>1, <3>3
      <4>2. QED
        BY <3>1, <4>1 DEF Wired
    <3>4. QED
      BY <3>1, <3>2, <3>3
  <2>2. QED
    BY <2>1
<1>7. \A n \in 0 .. Len(toAgent') :
        \E k \in 0 .. Len(toAgent) : \A x \in Held(n)' : x \in Held(k)
  <2>1. ASSUME NEW n \in 0 .. m - 1
        PROVE \E k \in 0 .. m : \A x \in Held(n)' : x \in Held(k)
    <3>1. n + 1 \in 0 .. m
      BY <1>1, <2>1
    <3>2. QED
      BY <1>5, <2>1, <3>1
  <2>2. QED
    BY <1>1, <2>1
<1>8. \A x \in Held(Len(toAgent))' : x \in Held(Len(toAgent))
  <2>1. m - 1 \in 0 .. m - 1 /\ m - 1 + 1 = m
    BY <1>1
  <2>2. Held(Len(toAgent))' = Held(m - 1)'
    BY <1>1 DEF Held
  <2>3. QED
    BY <1>5, <2>1, <2>2
<1>9. Joined' = Joined
  BY <1>2 DEF Joined, linkVars
<1>10. QED
  BY <1>2, <1>4, <1>6, <1>7, <1>8, <1>9, AgentHoldsNoMore

\* Nothing is taken: entries may go.
LEMMA EntriesGo ==
  ASSUME Typed, Parts, UNCHANGED <<callVars, conn, routerVars, laneVars>>,
         registered' \subseteq registered,
         toAgent' = toAgent \/ (toAgent' = <<>> /\ registered' = {}), Joined' => Joined
  PROVE  Parts'
<1>1. toAgent \in Seq(Orders) /\ ticket' = ticket
  BY DEF Typed, WireTyped, laneVars
<1>2. CASE toAgent' = toAgent
  <2>1. Wires' /\ \A x \in Wired' : x \in Wired
    BY <1>1, <1>2 DEF Wires, Wired, Parts
  <2>2. \A n : \A x \in Held(n)' : x \in Held(n)
    BY <1>2 DEF Held
  <2>3. \A x \in Held(Len(toAgent))' : x \in Held(Len(toAgent))
    BY <1>2 DEF Held
  <2>4. QED
    BY <1>2, <2>1, <2>2, <2>3, AgentHoldsNoMore
<1>3. CASE toAgent' = <<>> /\ registered' = {}
  <2>1. Wires' /\ Wired' = {} /\ \A n : Held(n)' = {} \/ n \notin 0 .. 0
    BY <1>3 DEF Wires, Wired, Held
  <2>2. Held(Len(toAgent))' = {}
    BY <1>3 DEF Held
  <2>3. Len(toAgent') = 0 /\ 0 \in 0 .. Len(toAgent)
    BY <1>1, <1>3
  <2>4. \A n \in 0 .. Len(toAgent') : Held(n)' = {}
    BY <2>1, <2>3
  <2>5. QED
    BY <2>1, <2>2, <2>3, <2>4, AgentHoldsNoMore
<1>4. QED
  BY <1>2, <1>3

\* There is room for the stream whose frame is next, and nobody else has its id.
LEMMA StreamIsTaken ==
  ASSUME Typed, Parts, NEW w \in Works, Takes("open", w)
  PROVE  w \in Streams /\ ~Duplicate(w) /\ ~Full(w)
<1>1. /\ w \in Streams /\ toAgent \in Seq(Orders) /\ toAgent # <<>>
      /\ 1 \in DOMAIN toAgent /\ Len(toAgent) \in Nat \ {0} /\ toAgent[1] = Opens(w)
  BY TakenOrder, OrdersKnown, TailPlaces DEF Typed, WireTyped, Takes, Opens
<1>2. w \in Wired /\ w \notin registered
  BY <1>1 DEF Wired, Parts, Wires
<1>3. ~Duplicate(w)
  <2>1. \A x \in registered \cap Streams : x \in Wired
    BY DEF Wired
  <2>2. QED
    BY <1>1, <1>2, <2>1 DEF Duplicate, Parts, Ids
<1>4. (registered \cap Streams) \cup {w} \subseteq Held(1)
  <2>1. \A i \in 1 .. 1 : i = 1 /\ toAgent[i] = Opens(w)
    BY <1>1
  <2>2. 1 \in 1 .. 1
    OBVIOUS
  <2>3. QED
    BY <1>1, <2>1, <2>2, FramesDiffer DEF Held
<1>5. Few(Held(1))
  BY <1>1 DEF Parts, Room
<1>6. Few((registered \cap Streams) \cup {w})
  BY <1>4, <1>5, FewLess
<1>7. IsFiniteSet(registered \cap Streams) /\ Cardinality(registered \cap Streams) < Slots
  BY <1>2, <1>6, FewWithout
<1>8. ~Full(w)
  <2>1. Cardinality(registered \cap Streams) \in Nat
    BY <1>7, FS_CardinalityType
  <2>2. QED
    BY <1>7, <2>1, WorkAssumption DEF Full
<1>9. QED
  BY <1>1, <1>3, <1>8

\* No step of the agent breaks the parts, and it refuses no stream.
LEMMA AgentKeepsParts ==
  ASSUME Typed, Parts, Fresh, AgentNext, refused = {}
  PROVE  Parts' /\ refused' = {}
<1>0. UNCHANGED <<callVars, conn, routerVars, laneVars>>
  BY AgentLeavesTheRouter
<1>1. ASSUME NEW w \in Works, TakeStream(w) PROVE Parts' /\ refused' = {}
  <2>1. Takes("open", w) /\ w \in Streams /\ ~Duplicate(w) /\ ~Full(w)
    BY <1>1, StreamIsTaken DEF TakeStream
  <2>2. registered' = registered \cup {w} /\ refused' = refused
    BY <1>1, <2>1 DEF TakeStream
  <2>3. QED
    BY <2>1, <2>2, FrameTaken
<1>2. ASSUME NEW w \in Works, TakeCommand(w) PROVE Parts' /\ refused' = {}
  <2>1. Takes("command", w) /\ refused' = refused
    BY <1>2 DEF TakeCommand
  <2>2. registered' \subseteq registered \cup {w} /\ w \notin Streams
    BY <1>2, <2>1, TakenOrder, OrdersKnown, WorkAssumption DEF TakeCommand, Typed
  <2>3. QED
    BY <2>1, <2>2, FrameTaken
<1>3. ASSUME NEW w \in Works, Cancel(w) PROVE Parts' /\ refused' = {}
  <2>1. Takes("cancel", w) /\ refused' = refused
    BY <1>3 DEF Cancel
  <2>2. registered' \subseteq registered /\ w \notin registered' \cap Streams
    BY <1>3 DEF Cancel
  <2>3. QED
    BY <2>1, <2>2, FrameTaken
<1>4. ASSUME NEW w \in Works, EndStream(w) \/ LeaveStream(w) \/ EndCommand(w)
      PROVE Parts' /\ refused' = {}
  <2>1. /\ UNCHANGED <<toAgent, refused, link, up>> /\ registered' \subseteq registered
    BY <1>4 DEF EndStream, LeaveStream, EndCommand, DropGuard, wireVars, linkVars
  <2>2. QED
    BY <1>0, <2>1, EntriesGo DEF Joined
<1>5. CASE Connect
  <2>1. toAgent' = <<>> /\ registered' = {} /\ UNCHANGED refused /\ link' = connections + 1
    BY <1>5 DEF Connect
  <2>2. ~Joined'
    BY <1>0, <2>1 DEF Joined, Fresh, Typed, RouterTyped, LinkTyped
  <2>3. QED
    BY <1>0, <2>1, <2>2, EntriesGo
<1>6. CASE LinkFails \/ NoticeLoss
  <2>1. /\ UNCHANGED refused /\ ~Joined'
        /\ registered' \subseteq registered
        /\ toAgent' = toAgent \/ (toAgent' = <<>> /\ registered' = {})
    BY <1>6 DEF LinkFails, NoticeLoss, Joined, agentVars
  <2>2. QED
    BY <1>0, <2>1, EntriesGo
<1>7. QED
  BY <1>1, <1>2, <1>3, <1>4, <1>5, <1>6 DEF AgentNext, Runtime

\* A connection that the router does not have yet stays empty.
LEMMA FreshKept == Typed /\ Fresh /\ WorkNext => Fresh'
<1> SUFFICES ASSUME Typed, Fresh, WorkNext PROVE Fresh'
  OBVIOUS
<1> USE DEF Typed, RouterTyped, LinkTyped
<1>1. ASSUME NEW w \in Works, Ask(w) \/ CallerLeaves(w) \/ Router(w) PROVE Fresh'
  BY <1>1 DEF Ask, OpenStream, Execute, RefuseWork, CallerLeaves, Router, CloseStream,
              AbandonCommand, wireVars, linkVars, agentVars, Fresh
<1>2. CASE Writer
  <2>1. UNCHANGED <<conn, link, connections, up, registered>>
    BY <1>2 DEF Writer, RetainedSent, WritePriority, WriteCommand, linkVars, agentVars
  <2>2. toAgent' = toAgent \/ conn = link
    BY <1>2 DEF Writer, RetainedSent, WritePriority, WriteCommand, Write, wireVars
  <2>3. QED
    BY <2>1, <2>2 DEF Fresh
<1>3. CASE ReadFrame
  BY <1>3 DEF ReadFrame, linkVars, agentVars, Fresh
<1>4. CASE Register \/ Unregister
  <2>1. UNCHANGED <<toAgent, link, connections, up, registered>>
        /\ \/ conn' = link
           \/ conn' = 0 /\ (conn # link \/ ~up)
    BY <1>4 DEF Register, Unregister, wireVars, linkVars, agentVars
  <2>2. QED
    BY <2>1 DEF Fresh
<1>5. CASE RestartServer
  BY <1>5 DEF RestartServer, Fresh
<1>6. ASSUME NEW w \in Works, NEW kind, Takes(kind, w) PROVE Fresh'
  <2>1. toAgent # <<>> /\ UNCHANGED <<conn, link, connections, up>>
    BY <1>6 DEF Takes, linkVars
  <2>2. QED
    BY <2>1 DEF Fresh
<1>7. ASSUME NEW w \in Works, EndStream(w) \/ LeaveStream(w) \/ EndCommand(w) PROVE Fresh'
  <2>1. UNCHANGED <<conn, link, connections, up, toAgent>> /\ registered' \subseteq registered
    BY <1>7 DEF EndStream, LeaveStream, EndCommand, DropGuard, wireVars, linkVars
  <2>2. QED
    BY <2>1 DEF Fresh
<1>8. CASE Connect
  <2>1. link' = connections + 1 /\ connections' = connections + 1 /\ conn' = conn
        /\ toAgent' = <<>> /\ registered' = {}
    BY <1>8 DEF Connect
  <2>2. QED
    BY <2>1 DEF Fresh
<1>9. CASE LinkFails
  BY <1>9 DEF LinkFails, Fresh, agentVars
<1>10. CASE NoticeLoss
  BY <1>10 DEF NoticeLoss, Fresh
<1>11. QED
  BY <1>1, <1>2, <1>3, <1>4, <1>5, <1>6, <1>7, <1>8, <1>9, <1>10
  DEF WorkNext, Session, Runtime, TakeStream, TakeCommand, Cancel

\* A cancel that had to wait for room stays one that had to.
LEMMA WaitedGrows == WorkNext => waited \subseteq waited'
<1>1. RouterNext => waited \subseteq waited'
  BY DEF RouterNext, Ask, OpenStream, Execute, RefuseWork, SendRequest, CallerLeaves, Router,
         CloseStream, AbandonCommand, CancelRequest, QueueCancel, Writer, RetainedSent,
         WritePriority, WriteCommand, Session, ReadFrame, Register, Unregister, Release,
         RestartServer, laneVars
<1>2. AgentNext => waited \subseteq waited'
  BY AgentLeavesTheRouter DEF laneVars
<1>3. QED
  BY <1>1, <1>2, TwoSides

\* At the start nothing is asked for.
LEMMA AdmittedStart == WorkInit => Fresh /\ Admitted
<1> SUFFICES ASSUME WorkInit PROVE Fresh /\ Admitted
  OBVIOUS
<1>1. /\ slots = {} /\ commands = <<>> /\ priority = <<>> /\ toAgent = <<>>
      /\ registered = {} /\ retained = <<>> /\ refused = {}
      /\ link = 0 /\ conn = 0 /\ connections = 0 /\ ~up
      /\ \A w \in Works : ticket[w] = "none"
  BY DEF WorkInit
<1>2. Streams \subseteq Works
  BY DEF Works
<1>3. \A x \in Streams : ~InLane(x)
  BY <1>1 DEF InLane
<1>4. Wired = {} /\ Young = {} /\ \A n \in 0 .. Len(toAgent) : Held(n) = {}
  BY <1>1, <1>3 DEF Wired, Young, Joined, Held
<1>5. Room /\ Few(slots)
  BY <1>1, <1>4, FewEmpty DEF Room
<1>6. Tickets /\ Wires
  BY <1>1, <1>2, <1>3 DEF Tickets, Wires
<1>7. Owed /\ Ids
  BY <1>1, <1>4 DEF Owed, Ids, Joined
<1>8. Fresh
  BY <1>1 DEF Fresh
<1>9. QED
  BY <1>1, <1>5, <1>6, <1>7, <1>8 DEF Admitted

\* Every step keeps the admitted streams within the slots.
LEMMA AdmittedKept ==
  Typed /\ Fresh /\ Admitted /\ [WorkNext]_vars => Fresh' /\ Admitted'
<1> SUFFICES ASSUME Typed, Fresh, Admitted, [WorkNext]_vars PROVE Fresh' /\ Admitted'
  OBVIOUS
<1>1. CASE WorkNext
  <2>1. Fresh'
    BY <1>1, FreshKept
  <2>2. ASSUME waited' = {}
        PROVE refused' = {} /\ retained' = <<>> /\ Parts'
    <3>1. waited = {}
      BY <1>1, <2>2, WaitedGrows
    <3>2. refused = {} /\ retained = <<>> /\ Parts
      BY <3>1 DEF Admitted, Parts
    <3>3. CASE RouterNext
      BY <2>2, <3>2, <3>3, RouterKeepsParts, RouterLeavesTheAgent DEF agentVars
    <3>4. CASE AgentNext
      BY <3>2, <3>4, AgentKeepsParts, AgentLeavesTheRouter DEF laneVars
    <3>5. QED
      BY <1>1, <3>3, <3>4, TwoSides
  <2>3. QED
    BY <2>1, <2>2 DEF Admitted, Parts
<1>2. CASE UNCHANGED vars
  <2>1. UNCHANGED <<caller, idOf, nextId, conn, slots, ticket, commands, priority, retained,
                    waited, toAgent, link, up, connections, registered, refused>>
    BY <1>2 DEF vars, callVars, routerVars, laneVars, wireVars, linkVars, agentVars
  <2>2. Fresh'
    BY <2>1 DEF Fresh
  <2>3. Wired' = Wired /\ (Room <=> Room') /\ (\A x : InLane(x)' <=> InLane(x))
        /\ (Joined' <=> Joined) /\ Held(Len(toAgent))' = Held(Len(toAgent))
    BY <2>1, WireStands DEF InLane, Joined, Held
  <2>4. Young' = Young
    BY <2>3 DEF Young
  <2>5. ASSUME Parts PROVE Parts'
    <3>1. Tickets' /\ Wires' /\ Few(slots)'
      BY <2>1, <2>3, <2>5 DEF Parts, Tickets, Wires, Few
    <3>2. Owed' /\ Ids'
      BY <2>1, <2>3, <2>4, <2>5 DEF Parts, Owed, Ids
    <3>3. QED
      BY <2>3, <2>5, <3>1, <3>2 DEF Parts
  <2>6. QED
    BY <2>1, <2>2, <2>5 DEF Admitted, Parts
<1>3. QED
  BY <1>1, <1>2

\* A stream that the server admits is never one too many for the agent and never
\* has an id in use there, for any number of streams, slots, connections and
\* restarts: the lane of priority frames is written before every request, so the
\* cancel that freed the slot arrives first.  Only a cancel that had to wait for
\* room in that lane can be overtaken (agents.rs:25-29).
THEOREM AdmittedStreamsAreTaken == WorkSpec => []AdmittedStreamIsTaken
<1>1. Admitted => AdmittedStreamIsTaken
  BY DEF Admitted, AdmittedStreamIsTaken
<1>2. WorkTypeOK <=> Typed
  BY TypesTogether
<1>3. QED
  BY <1>1, <1>2, AdmittedStart, AdmittedKept, WorkTypesHold, PTL DEF WorkSpec

=============================================================================
