---------------------------- MODULE WorkRegistry ----------------------------
(***************************************************************************)
(* Who may still run on the agent, and who it runs for.                    *)
(*                                                                         *)
(* The server opens streams (terminal attachments, log streams) and sends  *)
(* one-shot commands over the connection of one agent.  It counts the      *)
(* streams it has open, frees a slot when it sends the cancel, and may     *)
(* open the next stream at once.  The agent counts too: its registries     *)
(* refuse a second worker of an id and one worker too many.  The two       *)
(* counts meet only through two lanes of different priority, a wire, and   *)
(* workers that take their time to stop.  Connections end while workers of *)
(* the old one still hold their guards, and a restarted server numbers its *)
(* requests from 1 again.                                                  *)
(*                                                                         *)
(* Work is a stream or a command that is asked for once; its request id    *)
(* is drawn when the router takes it.  A work stands for the serial of its *)
(* registration, which is unique too.  Streams have one capacity for       *)
(* terminals and log streams, whose registries are alike.  What a stream   *)
(* carries, credit and the lanes to the server are left out (StreamCredit  *)
(* and OutputFlow have them), and so are the refusal of a hello and the     *)
(* commands of request scope whose caller does not want them canceled.     *)
(***************************************************************************)
EXTENDS Integers, Sequences, FiniteSets

CONSTANTS
  Streams,        \* streams that viewers open, one after the other or together
  Commands,       \* one-shot commands
  Slots,          \* MAX_LOG_STREAMS_PER_CONNECTION and MAX_LOG_STREAMS
  PriorityRoom,   \* CONTROL_PRIORITY_QUEUE_CAPACITY
  CommandRoom,    \* CONTROL_COMMAND_QUEUE_CAPACITY
  MaxConnections, \* connections the agent makes (model bound)
  MaxTroubles     \* broken sockets and restarts of the server (model bound)

ASSUME WorkAssumption ==
  /\ Streams \cap Commands = {}
  /\ Slots \in Nat \ {0}
  /\ PriorityRoom \in Nat \ {0} /\ CommandRoom \in Nat \ {0}
  /\ MaxConnections \in Nat /\ MaxTroubles \in Nat

Works == Streams \cup Commands

\* The frames of the command lane, of the wire to the agent and of the way back.
Requests == [kind : {"open"}, work : Streams] \cup [kind : {"command"}, work : Commands]
Orders == Requests \cup [kind : {"cancel"}, work : Works]
Reports == [kind : {"fin", "result"}, work : Works, conn : 0 .. MaxConnections]

VARIABLES
  caller,     \* the bridge or the HTTP call behind each work
  idOf,       \* the request id each work got, 0 before
  nextId,     \* RequestIds.next
  conn,       \* the connection the router has for the agent, or 0
  slots,      \* AgentConnection.log_streams
  flows,      \* flows of one-shot commands
  cancelable, \* commands of request scope, to be canceled when abandoned
  ticket,     \* CommandTicket of each work
  commands,   \* the command lane of the router's connection
  priority,   \* its priority lane
  retained,   \* cancels whose task waits for room in the priority lane
  toAgent,    \* frames on their way to the agent
  toServer,   \* frames on their way to the router, with their connection
  link,       \* the agent's connection, or 0
  up,         \* whether the socket of that connection still works
  registered, \* entries of the agent's cancel registries
  results,    \* ResultLedger.open
  worker,     \* the task of each work on the agent
  workConn,   \* the connection each task was started for
  refused,    \* streams the agent's registry refused
  waited,     \* works whose cancel found the priority lane full
  connections, troubles

callVars   == <<caller, idOf, nextId>>
routerVars == <<slots, flows, cancelable>>
laneVars   == <<ticket, commands, priority, retained, waited>>
wireVars   == <<toAgent, toServer>>
linkVars   == <<link, up, connections>>
agentVars  == <<registered, results, worker, workConn, refused>>
vars == <<callVars, conn, routerVars, laneVars, wireVars, linkVars, agentVars, troubles>>

WorkInit ==
  /\ caller = [w \in Works |-> "new"]
  /\ idOf = [w \in Works |-> 0] /\ nextId = 1
  /\ conn = 0 /\ slots = {} /\ flows = {} /\ cancelable = {}
  /\ ticket = [w \in Works |-> "none"]
  /\ commands = <<>> /\ priority = <<>> /\ retained = <<>> /\ waited = {}
  /\ toAgent = <<>> /\ toServer = <<>>
  /\ link = 0 /\ up = FALSE /\ connections = 0 /\ troubles = 0
  /\ registered = {} /\ results = {} /\ refused = {}
  /\ worker = [w \in Works |-> "none"] /\ workConn = [w \in Works |-> 0]

Trouble == troubles < MaxTroubles /\ troubles' = troubles + 1

-----------------------------------------------------------------------------
(* The router and those who ask it *)

\* RouterState::next_id; the caller of a command draws from the same numbers.
DrawId(w) ==
  /\ caller[w] = "new"
  /\ idOf' = [idOf EXCEPT ![w] = nextId]
  /\ nextId' = nextId + 1

\* AgentConnection::send_request: the frame waits with its ticket.
SendRequest(kind, w) ==
  /\ Len(commands) < CommandRoom
  /\ commands' = Append(commands, [kind |-> kind, work |-> w])
  /\ ticket' = [ticket EXCEPT ![w] = "queued"]
  /\ UNCHANGED <<priority, retained, waited>>

Admits(w) ==
  /\ conn # 0
  /\ Len(commands) < CommandRoom
  /\ w \in Streams => Cardinality(slots) < Slots

\* attach_terminal, open_log_stream
OpenStream(w) ==
  /\ w \in Streams /\ DrawId(w)
  /\ Admits(w)
  /\ SendRequest("open", w)
  /\ slots' = slots \cup {w}
  /\ caller' = [caller EXCEPT ![w] = "open"]
  /\ UNCHANGED <<conn, flows, cancelable, wireVars, linkVars, agentVars, troubles>>

\* execute_command_rest
Execute(w) ==
  /\ w \in Commands /\ DrawId(w)
  /\ Admits(w)
  /\ SendRequest("command", w)
  /\ flows' = flows \cup {w}
  /\ cancelable' \in {cancelable, cancelable \cup {w}}
  /\ caller' = [caller EXCEPT ![w] = "waiting"]
  /\ UNCHANGED <<conn, slots, wireVars, linkVars, agentVars, troubles>>

\* No agent, no free slot or no room in the lane: a reservation is undone.
RefuseWork(w) ==
  /\ DrawId(w)
  /\ ~Admits(w)
  /\ caller' = [caller EXCEPT ![w] = "failed"]
  /\ UNCHANGED <<conn, routerVars, laneVars, wireVars, linkVars, agentVars, troubles>>

\* The browser leaves, or the caller's deadline passes: a guard is dropped.
CallerLeaves(w) ==
  /\ caller[w] \in {"open", "waiting"}
  /\ caller' = [caller EXCEPT ![w] = "leaving"]
  /\ UNCHANGED <<idOf, nextId, conn, routerVars, laneVars, wireVars, linkVars, agentVars,
                 troubles>>

\* ControlLanes::queue_priority: a waiting task has the next free place.
QueueCancel(w) ==
  IF Len(priority) + Len(retained) < PriorityRoom
    THEN priority' = Append(priority, w) /\ UNCHANGED <<retained, waited>>
    ELSE /\ retained' = Append(retained, w) /\ waited' = waited \cup {w}
         /\ UNCHANGED priority

\* AgentConnection::cancel_request
CancelRequest(w) ==
  /\ \/ /\ ticket[w] = "queued"
        /\ ticket' = [ticket EXCEPT ![w] = "withdrawn"]
        /\ UNCHANGED <<priority, retained, waited>>
     \/ /\ ticket[w] # "queued"
        /\ QueueCancel(w)
        /\ UNCHANGED ticket
  /\ UNCHANGED commands

\* close_stream, once the bridge has ended
CloseStream(w) ==
  /\ w \in Streams /\ caller[w] = "leaving"
  /\ caller' = [caller EXCEPT ![w] = "gone"]
  /\ slots' = slots \ {w}
  /\ IF w \in slots THEN CancelRequest(w) ELSE UNCHANGED laneVars
  /\ UNCHANGED <<idOf, nextId, conn, flows, cancelable, wireVars, linkVars, agentVars,
                 troubles>>

\* Mutant: the flow is forgotten first, and then nothing is found to cancel.
AbandonForgotten(w) ==
  /\ w \in Commands /\ caller[w] = "leaving"
  /\ caller' = [caller EXCEPT ![w] = "gone"]
  /\ flows' = flows \ {w}
  /\ IF w \in flows' \cap cancelable THEN CancelRequest(w) ELSE UNCHANGED laneVars
  /\ UNCHANGED <<idOf, nextId, conn, slots, cancelable, wireVars, linkVars, agentVars,
                 troubles>>

\* abandon_command, cancel_abandoned
AbandonCommand(w) ==
  /\ w \in Commands /\ caller[w] = "leaving"
  /\ caller' = [caller EXCEPT ![w] = "gone"]
  /\ flows' = flows \ {w}
  /\ IF w \in flows \cap cancelable THEN CancelRequest(w) ELSE UNCHANGED laneVars
  /\ UNCHANGED <<idOf, nextId, conn, slots, cancelable, wireVars, linkVars, agentVars,
                 troubles>>

\* The task of a retained cancel gets its place.
RetainedSent ==
  /\ retained # <<>> /\ Len(priority) < PriorityRoom
  /\ priority' = Append(priority, Head(retained))
  /\ retained' = Tail(retained)
  /\ UNCHANGED <<callVars, conn, routerVars, ticket, commands, waited, wireVars, linkVars,
                 agentVars, troubles>>

\* A frame of a dead socket reaches nobody.
Write(kind, w) ==
  toAgent' = IF conn = link /\ up
               THEN Append(toAgent, [kind |-> kind, work |-> w])
               ELSE toAgent

WritePriority ==
  /\ priority # <<>>
  /\ Write("cancel", Head(priority))
  /\ priority' = Tail(priority)
  /\ UNCHANGED <<callVars, conn, routerVars, ticket, commands, retained, waited, toServer,
                 linkVars, agentVars, troubles>>

\* take_command: only when no priority frame is there.
WriteCommand ==
  /\ priority = <<>> /\ commands # <<>>
  /\ LET frame == Head(commands) IN
       IF ticket[frame.work] = "withdrawn"
         THEN UNCHANGED <<ticket, toAgent>>
         ELSE /\ ticket' = [ticket EXCEPT ![frame.work] = "written"]
              /\ Write(frame.kind, frame.work)
  /\ commands' = Tail(commands)
  /\ UNCHANGED <<callVars, conn, routerVars, priority, retained, waited, toServer,
                 linkVars, agentVars, troubles>>

\* route_response, finish_command: only of the current session.
Answered(frame) ==
  {w \in flows : frame.kind = "result" /\ frame.conn = conn
                 /\ idOf[w] = idOf[frame.work]}

\* ConnectionStreams::deliver of a FIN: the bridge drains and ends.
Finished(frame) ==
  {w \in slots : frame.kind = "fin" /\ frame.conn = conn
                 /\ idOf[w] = idOf[frame.work]}

ReadFrame ==
  /\ toServer # <<>>
  /\ LET frame == Head(toServer) IN
       /\ flows' = flows \ Answered(frame)
       /\ caller' = [w \in Works |->
            CASE w \in Answered(frame) /\ caller[w] = "waiting" -> "answered"
              [] w \in Finished(frame) /\ caller[w] = "open" -> "leaving"
              [] OTHER -> caller[w]]
  /\ toServer' = Tail(toServer)
  /\ UNCHANGED <<idOf, nextId, conn, slots, cancelable, laneVars, toAgent, linkVars, agentVars,
                 troubles>>

\* Mutant: a lost connection takes its flows with it but tells nobody.
ReleaseSilently ==
  /\ slots' = {} /\ flows' = {}
  /\ commands' = <<>> /\ priority' = <<>> /\ retained' = <<>>
  /\ caller' = [w \in Works |-> IF caller[w] = "open" THEN "leaving" ELSE caller[w]]
  /\ UNCHANGED <<idOf, nextId, cancelable, ticket, waited>>

\* release_connection: flows fail and queues close with the tables.
Release ==
  /\ slots' = {} /\ flows' = {}
  /\ commands' = <<>> /\ priority' = <<>> /\ retained' = <<>>
  /\ caller' = [w \in Works |->
       CASE caller[w] = "open" -> "leaving"
         [] w \in flows /\ caller[w] = "waiting" -> "failed"
         [] OTHER -> caller[w]]
  /\ UNCHANGED <<idOf, nextId, cancelable, ticket, waited>>

\* register_agent, with the takeover of an older connection
Register ==
  /\ link # 0 /\ up /\ conn # link
  /\ conn' = link
  /\ Release
  /\ UNCHANGED <<wireVars, linkVars, agentVars, troubles>>

\* SessionRuntime::shutdown, unregister_agent
Unregister ==
  /\ conn # 0 /\ (conn # link \/ ~up)
  /\ conn' = 0
  /\ Release
  /\ UNCHANGED <<wireVars, linkVars, agentVars, troubles>>

\* A new server process: its numbers start over and nobody waits.
RestartServer ==
  /\ Trouble
  /\ conn' = 0 /\ slots' = {} /\ flows' = {} /\ nextId' = 1
  /\ commands' = <<>> /\ priority' = <<>> /\ retained' = <<>>
  /\ toServer' = <<>> /\ up' = FALSE
  /\ caller' = [w \in Works |-> IF caller[w] \in {"open", "waiting", "leaving"}
                                  THEN "gone" ELSE caller[w]]
  /\ UNCHANGED <<idOf, cancelable, ticket, waited, toAgent, link, connections, agentVars>>

-----------------------------------------------------------------------------
(* The agent *)

\* AgentRuntime::connect, rebind: every command of the old connection was joined.
Connect ==
  /\ link = 0 /\ connections < MaxConnections
  /\ \A c \in Commands : worker[c] \notin {"running", "canceled"}
  /\ connections' = connections + 1
  /\ link' = connections' /\ up' = TRUE
  /\ registered' = {} /\ results' = {} /\ toAgent' = <<>>
  /\ UNCHANGED <<callVars, conn, routerVars, laneVars, toServer, worker, workConn, refused,
                 troubles>>

\* The network: what was on its way may be lost.
LinkFails ==
  /\ link # 0 /\ up
  /\ Trouble
  /\ up' = FALSE
  /\ toServer' \in {toServer, <<>>}
  /\ UNCHANGED <<callVars, conn, routerVars, laneVars, toAgent, link, connections,
                 agentVars>>

\* invalidate_connection: everything of the connection is canceled and forgotten.
NoticeLoss ==
  /\ link # 0 /\ ~up
  /\ link' = 0
  /\ registered' = {} /\ toAgent' = <<>>
  /\ worker' = [w \in Works |-> IF worker[w] = "running" THEN "canceled" ELSE worker[w]]
  /\ UNCHANGED <<callVars, conn, routerVars, laneVars, toServer, up, connections, results,
                 workConn, refused, troubles>>

\* The runtime takes a frame of this kind from its connection.
Takes(kind, w) ==
  /\ link # 0 /\ toAgent # <<>>
  /\ Head(toAgent) = [kind |-> kind, work |-> w]
  /\ toAgent' = Tail(toAgent)
  /\ UNCHANGED <<callVars, conn, routerVars, laneVars, linkVars, troubles>>

\* A frame of work w for its own connection.
Send(kind, w) ==
  toServer' = IF workConn'[w] = link /\ up
                THEN Append(toServer, [kind |-> kind, work |-> w, conn |-> link])
                ELSE toServer

\* The errors of CancelRegistry::register
Duplicate(w) ==
  \E x \in registered : idOf[x] = idOf[w] /\ (x \in Streams <=> w \in Streams)
Full(w) == w \in Streams /\ Cardinality(registered \cap Streams) >= Slots

Start(w) ==
  /\ worker' = [worker EXCEPT ![w] = "running"]
  /\ workConn' = [workConn EXCEPT ![w] = link]

\* attach_terminal, start_log_stream: a full registry is answered with a FIN.
TakeStream(w) ==
  /\ Takes("open", w)
  /\ IF Duplicate(w) \/ Full(w)
       THEN /\ refused' = refused \cup {w}
            /\ workConn' = [workConn EXCEPT ![w] = link]
            /\ IF Duplicate(w) THEN UNCHANGED toServer ELSE Send("fin", w)
            /\ UNCHANGED <<registered, worker>>
       ELSE /\ registered' = registered \cup {w}
            /\ Start(w)
            /\ UNCHANGED <<refused, toServer>>
  /\ UNCHANGED results

\* Dispatcher::dispatch: an id that is running is ignored; a command there is
\* no task for is answered, which closes its id again.  The tasks are shared
\* with commands of others, so any command may be the one too many.
TakeCommand(w) ==
  /\ Takes("command", w)
  /\ IF idOf[w] \in results
       THEN UNCHANGED <<registered, results, worker, workConn, toServer>>
       ELSE \/ /\ w \in cancelable => ~Duplicate(w)
               /\ results' = results \cup {idOf[w]}
               /\ registered' = registered \cup ({w} \cap cancelable)
               /\ Start(w)
               /\ UNCHANGED toServer
            \/ /\ workConn' = [workConn EXCEPT ![w] = link]
               /\ Send("result", w)
               /\ UNCHANGED <<registered, results, worker>>
  /\ UNCHANGED refused

\* Mutant: a stream keeps its key until its worker has ended, like a command.
CancelKeepingKey(w) ==
  /\ Takes("cancel", w)
  /\ LET hit == {x \in registered : idOf[x] = idOf[w]} IN
       worker' = [x \in Works |-> IF x \in hit /\ worker[x] = "running"
                                    THEN "canceled" ELSE worker[x]]
  /\ UNCHANGED <<registered, results, workConn, refused, toServer>>

\* cancel_request_with_reason: a stream gives up its key, a command keeps it.
Cancel(w) ==
  /\ Takes("cancel", w)
  /\ LET hit == {x \in registered : idOf[x] = idOf[w]} IN
       /\ registered' = registered \ (hit \cap Streams)
       /\ worker' = [x \in Works |-> IF x \in hit /\ worker[x] = "running"
                                       THEN "canceled" ELSE worker[x]]
  /\ UNCHANGED <<results, workConn, refused, toServer>>

\* Mutant: the guard removes whatever entry has its key.
DropKey(w) == registered' = {x \in registered : idOf[x] # idOf[w]}

\* Registration::drop: only the worker's own entry goes.
DropGuard(w) == registered' = registered \ {w}

\* A stream ends by itself: the FIN goes out first ...
EndStream(w) ==
  /\ w \in Streams /\ worker[w] = "running"
  /\ worker' = [worker EXCEPT ![w] = "ending"]
  /\ UNCHANGED workConn
  /\ Send("fin", w)
  /\ UNCHANGED <<callVars, conn, routerVars, laneVars, toAgent, linkVars, registered,
                 results, refused, troubles>>

\* ... and the guard is dropped afterwards.  (No slot is left for the FIN of a
\* canceled terminal.)
LeaveStream(w) ==
  /\ w \in Streams /\ worker[w] \in {"ending", "canceled"}
  /\ worker' = [worker EXCEPT ![w] = "ended"]
  /\ DropGuard(w)
  /\ UNCHANGED <<callVars, conn, routerVars, laneVars, wireVars, linkVars, results,
                 workConn, refused, troubles>>

\* The command ends: its guard goes, then its one result.  Without its
\* connection a command of connection scope is dropped and answers nothing.
EndCommand(w) ==
  /\ w \in Commands /\ worker[w] \in {"running", "canceled"}
  /\ worker' = [worker EXCEPT ![w] = "ended"]
  /\ DropGuard(w)
  /\ UNCHANGED workConn
  /\ IF worker[w] = "canceled" /\ w \notin cancelable
       THEN UNCHANGED <<results, toServer>>
       ELSE results' = results \ {idOf[w]} /\ Send("result", w)
  /\ UNCHANGED <<callVars, conn, routerVars, laneVars, toAgent, linkVars, refused, troubles>>

-----------------------------------------------------------------------------
Ask(w) == OpenStream(w) \/ Execute(w) \/ RefuseWork(w)
Router(w) == CloseStream(w) \/ AbandonCommand(w)
Writer == RetainedSent \/ WritePriority \/ WriteCommand
Session == ReadFrame \/ Register \/ Unregister
Runtime(w) ==
  TakeStream(w) \/ TakeCommand(w) \/ Cancel(w)

WorkNext ==
  \/ \E w \in Works :
       Ask(w) \/ CallerLeaves(w) \/ Router(w) \/ Runtime(w)
       \/ EndStream(w) \/ LeaveStream(w) \/ EndCommand(w)
  \/ Writer \/ Session
  \/ RestartServer \/ Connect \/ LinkFails \/ NoticeLoss

WorkSpec == WorkInit /\ [][WorkNext]_vars

\* Tasks that are ready run, both sides notice a dead socket and a worker that
\* was told to stop does.  Nobody has to ask, to leave or to reconnect, and what
\* nobody stops may run for ever.  Every step uses something up, so one
\* condition on all of these is as strong as one on each.
Stops(w) == LeaveStream(w) \/ (worker[w] = "canceled" /\ EndCommand(w))
Ready ==
  \/ \E w \in Works : Router(w) \/ Runtime(w) \/ Stops(w)
  \/ Writer \/ ReadFrame \/ Unregister \/ NoticeLoss

FairWorkSpec == WorkSpec /\ WF_vars(Ready)

-----------------------------------------------------------------------------
(* Properties *)

\* The work that a cancel can reach on the agent.
Registering == Streams \cup cancelable

WorkTypeOK ==
  /\ caller \in [Works -> {"new", "open", "waiting", "leaving", "gone", "answered", "failed"}]
  /\ idOf \in [Works -> Nat] /\ nextId \in Nat
  /\ conn \in 0 .. MaxConnections /\ link \in 0 .. MaxConnections /\ up \in BOOLEAN
  /\ connections \in 0 .. MaxConnections /\ troubles \in 0 .. MaxTroubles
  /\ slots \subseteq Streams /\ flows \subseteq Commands
  /\ ticket \in [Works -> {"none", "queued", "written", "withdrawn"}]
  /\ commands \in Seq(Requests)
  /\ priority \in Seq(Works) /\ retained \in Seq(Works) /\ waited \subseteq Works
  /\ toAgent \in Seq(Orders) /\ toServer \in Seq(Reports)
  /\ registered \subseteq Works /\ cancelable \subseteq Commands
  /\ results \subseteq Nat /\ refused \subseteq Streams
  /\ worker \in [Works -> {"none", "running", "canceled", "ending", "ended"}]
  /\ workConn \in [Works -> 0 .. MaxConnections]

\* A cancel finds whoever still has to hear it: a running worker that a cancel
\* is meant for holds its own entry in the registry, on the connection the
\* agent has now, whatever guards of older workers with its request id are
\* dropped meanwhile (cancel.rs:195-246).
CancelFindsItsWorker ==
  \A w \in Registering : worker[w] = "running" => w \in registered /\ workConn[w] = link

\* "Matching the agent's own limit so the server refuses excess attachments
\* before the agent has to" (agents.rs:25-29): a stream the server admitted is
\* taken by the agent.  Only a cancel that had to wait for room in the priority
\* lane may come too late for it.
AdmittedStreamIsTaken == refused # {} => waited # {}

\* Whoever asked for a command hears of it: in the end nobody waits for a
\* command that does not run, whatever refused it, answered it or ended with a
\* connection (agents.rs:627-712, dispatch.rs:70-160).
CallersHear ==
  <>[](\A w \in Commands : caller[w] = "waiting" => worker[w] = "running")

\* Nothing runs on for somebody who left: a stream or a cancelable command
\* ends on the agent once its caller is gone, however it left (agents.rs:95-119).
LeftWorkStops ==
  <>[](\A w \in Registering : caller[w] = "gone" => worker[w] \in {"none", "ended"})
=============================================================================
