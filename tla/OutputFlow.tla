----------------------------- MODULE OutputFlow -----------------------------
(***************************************************************************)
(* One download from admission to settlement: the router's flow and        *)
(* history row, the lanes to the agent, the agent's worker, the server's   *)
(* connection reader and the HTTP caller, around one credited stream.      *)
(*                                                                         *)
(* The router handles one message at a time and never waits.  Its handlers *)
(* share the stream tables and leases with the reader and the consumer,    *)
(* which run meanwhile, so a handler that touches them twice (fail the     *)
(* lease, then close the slot) is two steps here, and "router" says which  *)
(* second step is due.  Everything else a handler does is private to the   *)
(* router and happens in one step.                                         *)
(*                                                                         *)
(* The command and its cancel go to the agent on lanes; data, results and  *)
(* grants come back on one socket.  The reader turns a result, a credit    *)
(* violation or the end of the connection into messages of the router's    *)
(* mailbox, in that order of arrival.                                      *)
(***************************************************************************)
EXTENDS StreamCredit, Sequences

\* The sender of a download's stream starts with its whole window.
ASSUME DownloadAssumption == AwaitGrant = FALSE

VARIABLES
  caller,      \* the HTTP side, from waiting for the reply to its end
  ticket,      \* CommandTicket of the download command
  delivery,    \* where the Cancel frame is, if there is one
  toAgent,     \* frames written to the socket and not yet dispatched
  worker,      \* the agent's download task
  token,       \* its registration's cancellation token fired
  outcome,     \* the outcome of its one result
  result,      \* where that result is
  inbox,       \* the session's messages to the router
  conn,        \* the socket: "up", "broken", or "gone" once unregistered
  registered,  \* the connection is in the router's by_id
  flow,        \* the flow table's entry and its OutputPhase
  row,         \* TransferProgressState of the history row
  router       \* second step due in the handler the router is running

laneVars   == <<ticket, delivery, toAgent>>
agentVars  == <<worker, token, outcome, result>>
connVars   == <<inbox, conn>>
routerVars == <<registered, flow, row, router>>
flowVars   == <<caller, laneVars, agentVars, connVars, routerVars>>
vars       == <<creditVars, flowVars>>

-----------------------------------------------------------------------------

\* start_output has opened the inbound slot and is about to queue the command.
FlowInit ==
  /\ CreditInit
  /\ caller = "waiting"
  /\ ticket = "none" /\ delivery = "none" /\ toAgent = <<>>
  /\ worker = "absent" /\ token = FALSE /\ outcome = "none" /\ result = "none"
  /\ inbox = <<>> /\ conn = "up"
  /\ registered = TRUE /\ flow = "none" /\ row = "none" /\ router = "starting"

-----------------------------------------------------------------------------
(* Admission *)

\* The lane took the command; the flow and its row exist before the reply.
Admit ==
  /\ router = "starting" /\ conn # "gone"
  /\ ticket' = "queued"
  /\ flow' = "streaming" /\ row' = "active" /\ router' = "replying"
  /\ UNCHANGED <<creditVars, caller, delivery, toAgent, agentVars, connVars,
                 registered>>

\* The command lane is full or closed.
Refuse ==
  /\ router = "starting"
  /\ CloseSlot
  /\ caller' = IF caller = "waiting" THEN "ended" ELSE caller
  /\ router' = "idle"
  /\ UNCHANGED <<laneVars, agentVars, connVars, registered, flow, row>>

ReplyToCaller ==
  /\ router = "replying" /\ caller = "waiting"
  /\ caller' = "handed" /\ router' = "idle"
  /\ UNCHANGED <<creditVars, laneVars, agentVars, connVars, registered, flow, row>>

-----------------------------------------------------------------------------
(* Cancelling on the agent *)

\* The command still waits in its lane: it is withdrawn and the router answers
\* the flow itself when this handler is done.
Withdraw ==
  /\ ticket = "queued"
  /\ ticket' = "withdrawn"
  /\ router' = "local"
  /\ UNCHANGED <<delivery, toAgent>>

\* The command was written: a Cancel goes on the priority lane, or to a task
\* that waits for room there.
SendCancel ==
  /\ ticket # "queued" /\ conn # "gone"
  /\ delivery' \in {"retained", "queued"}
  /\ router' = "idle"
  /\ UNCHANGED <<ticket, toAgent>>

\* Mutant: the ticket is not consulted.
CancelWithoutTicket ==
  /\ registered
  /\ delivery' \in {"retained", "queued"}
  /\ router' = "idle"
  /\ UNCHANGED <<ticket, toAgent>>
  /\ flow' = "canceling"

\* request_output_cancel admitted.
CancelAdmitted ==
  /\ registered
  /\ Withdraw \/ SendCancel
  /\ flow' = "canceling"

\* The lane is closed: the flow stays as it is.
CancelRefused ==
  /\ ticket # "queued" /\ conn # "up"
  /\ router' = "idle"
  /\ UNCHANGED <<laneVars, flow>>

StopLease == Stop \/ (cancel /\ UNCHANGED creditVars)
FailLease == Fail \/ (fault /\ cancel /\ UNCHANGED creditVars)

\* cancel_transfer of a streaming flow: the row ends now, as an error the
\* client may resume from.
CancelForClient ==
  \/ CancelAdmitted /\ StopLease /\ row' = "errored"
  \/ CancelRefused /\ UNCHANGED <<creditVars, row>>

\* The caller had dropped its receiver before the reply was sent.
ReplyUnwanted ==
  /\ router = "replying" /\ caller = "gone"
  /\ CancelForClient
  /\ UNCHANGED <<caller, agentVars, connVars, registered>>

\* RouterMsg::CancelTransfer, sent by the guard of a dropped body.
HandleClientGone ==
  /\ router = "idle" /\ caller = "leaving"
  /\ caller' = "ended"
  /\ IF flow = "streaming"
     THEN CancelForClient
     ELSE UNCHANGED <<creditVars, laneVars, flow, row, router>>
  /\ UNCHANGED <<agentVars, connVars, registered>>

\* RouterMsg::CancelPublicTransfer; a refused one changes nothing.
UserCancel ==
  /\ router = "idle" /\ row = "active" /\ flow = "streaming"
  /\ CancelAdmitted /\ StopLease
  /\ row' = "canceling"
  /\ UNCHANGED <<caller, agentVars, connVars, registered>>

-----------------------------------------------------------------------------
(* The writer of the server's connection, in its lane order *)

\* A retained Cancel found room on the priority lane.
DeliverRetained ==
  /\ delivery = "retained" /\ conn = "up"
  /\ delivery' = "queued"
  /\ UNCHANGED <<creditVars, caller, ticket, toAgent, agentVars, connVars,
                 routerVars>>

WriteCancel ==
  /\ delivery = "queued" /\ conn = "up"
  /\ delivery' = "written"
  /\ toAgent' = Append(toAgent, "cancel")
  /\ UNCHANGED <<creditVars, caller, ticket, agentVars, connVars, routerVars>>

WriteCommand ==
  /\ ticket = "queued" /\ delivery # "queued" /\ conn = "up"
  /\ ticket' = "written"
  /\ toAgent' = Append(toAgent, "command")
  /\ UNCHANGED <<creditVars, caller, delivery, agentVars, connVars, routerVars>>

-----------------------------------------------------------------------------
(* Agent *)

\* The dispatcher registers the request and spawns its worker, or answers on
\* the control lane that it is at its limit.
ReceiveCommand ==
  /\ conn = "up" /\ toAgent # <<>> /\ Head(toAgent) = "command"
  /\ toAgent' = Tail(toAgent)
  /\ \/ worker' = "running" /\ UNCHANGED <<outcome, result>>
     \/ worker' = "finished" /\ outcome' = "error" /\ result' = "control"
  /\ UNCHANGED <<creditVars, caller, ticket, delivery, token, connVars,
                 routerVars>>

\* CancelRegistry::cancel_with_reason; unknown requests are ignored.
ReceiveCancel ==
  /\ conn = "up" /\ toAgent # <<>> /\ Head(toAgent) = "cancel"
  /\ toAgent' = Tail(toAgent)
  /\ token' = IF worker = "running" THEN TRUE ELSE token
  /\ UNCHANGED <<creditVars, caller, ticket, delivery, worker, outcome, result,
                 connVars, routerVars>>

\* The worker's select may prefer sending although its token fired.
WorkerSends ==
  /\ worker = "running" /\ conn = "up"
  /\ Acquire \/ Enqueue
  /\ UNCHANGED flowVars

\* The worker of an agent that does not wait for credit.
WorkerOverspends ==
  /\ worker = "running" /\ conn = "up"
  /\ SendWithoutCredit
  /\ UNCHANGED flowVars

\* Mutant: the result does not follow the data.
AnswersOnControlLane(answer, lane) ==
  /\ worker = "running" /\ conn = "up"
  /\ worker' = "finished" /\ outcome' = answer /\ result' = "control"
  /\ UNCHANGED <<creditVars, caller, laneVars, token, connVars, routerVars>>

\* The one result of the request.
Answers(answer, lane) ==
  /\ worker = "running" /\ conn = "up"
  /\ worker' = "finished" /\ outcome' = answer /\ result' = lane
  /\ UNCHANGED <<creditVars, caller, laneVars, token, connVars, routerVars>>

WorkerCompletes == sent = Last /\ Answers("ok", "stream")

\* A cancel may win even after FIN is on the lane.
WorkerCanceled == token /\ Answers("canceled", "stream")

WorkerFails == sent < Last /\ ~held /\ Answers("error", "stream")

\* A panic is answered on the control lane and may overtake queued data.
WorkerPanics == Answers("error", "control")

\* The finished worker's StreamWriter is dropped.
DropWriter ==
  /\ worker = "finished"
  /\ CloseGate
  /\ UNCHANGED flowVars

AgentAppliesGrant == conn = "up" /\ ApplyGrant /\ UNCHANGED flowVars

-----------------------------------------------------------------------------
(* Reader of the server's connection *)

ReadFrame == conn = "up" /\ Deliver /\ UNCHANGED flowVars

\* The reader finishes a violating delivery even when the socket just broke.
ReportViolation ==
  /\ conn # "gone"
  /\ CloseOverflowing
  /\ inbox' = Append(inbox, "violation")
  /\ UNCHANGED <<caller, laneVars, agentVars, conn, routerVars>>

\* Mutant: a result discards the data it overtakes.
ReadResultSkippingData ==
  /\ conn = "up" /\ ~overflow /\ result \in {"stream", "control"}
  /\ result' = "taken"
  /\ arrived' = sent
  /\ inbox' = Append(inbox, "result")
  /\ UNCHANGED <<rogue, senderVars, queued, slot, overflow, violated, leaseVars,
                 consumerVars, grantVars, caller, laneVars, worker, token,
                 outcome, conn, routerVars>>

\* A result on the stream's lane follows the stream's data.
ReadResult ==
  /\ conn = "up" /\ ~overflow
  /\ result = "control" \/ (result = "stream" /\ arrived = sent)
  /\ result' = "taken"
  /\ inbox' = Append(inbox, "result")
  /\ UNCHANGED <<creditVars, caller, laneVars, worker, token, outcome, conn,
                 routerVars>>

\* The socket fails in either direction: lanes close, nothing more is read.
Disconnect ==
  /\ conn = "up"
  /\ conn' = "broken"
  /\ UNCHANGED <<creditVars, caller, laneVars, agentVars, inbox, routerVars>>

\* SessionRuntime::shutdown queues UnregisterAgent.
SessionEnds ==
  /\ conn = "broken" /\ ~overflow
  /\ conn' = "gone"
  /\ inbox' = Append(inbox, "lost")
  /\ UNCHANGED <<creditVars, caller, laneVars, agentVars, routerVars>>

-----------------------------------------------------------------------------
(* Router, for the session's messages *)

Take(message) ==
  /\ router = "idle" /\ inbox # <<>> /\ Head(inbox) = message
  /\ inbox' = Tail(inbox)

\* Dropping a canceling flow aborts a Cancel that still waits for room.
RemoveFlow ==
  /\ flow' = "settled"
  /\ delivery' = IF delivery = "retained" THEN "none" ELSE delivery

\* acknowledge_download_cancel
Acknowledged == IF row = "canceling" THEN "canceled" ELSE row

\* Mutant: the outcome decides although the flow was being canceled.
SettleByOutcomeAlways ==
  /\ RemoveFlow
  /\ router' = "closing"
  /\ IF outcome = "ok"
     THEN row' = "completed" /\ UNCHANGED creditVars
     ELSE row' = "errored" /\ FailLease

\* finish_output_response up to close_inbound: the result of a canceling flow
\* only acknowledges, an error is stored in the lease before the queue closes.
Settle ==
  /\ RemoveFlow
  /\ router' = "closing"
  /\ IF flow = "canceling" THEN row' = Acknowledged /\ UNCHANGED creditVars
     ELSE IF outcome = "ok"
     THEN row' = "completed" /\ UNCHANGED creditVars
     ELSE row' = "errored" /\ FailLease

HandleResult ==
  /\ Take("result")
  /\ IF flow \in {"streaming", "canceling"}
     THEN Settle
     ELSE UNCHANGED <<creditVars, delivery, flow, row, router>>
  /\ UNCHANGED <<caller, ticket, toAgent, agentVars, conn, registered>>

\* route_local_results: the canceled result of a withdrawn command.
RouteLocalResult ==
  /\ router = "local"
  /\ Settle
  /\ UNCHANGED <<caller, ticket, toAgent, agentVars, connVars, registered>>

\* finish_output_response: close_inbound; release_connection: streams.clear.
CloseStream ==
  /\ router \in {"closing", "clearing"}
  /\ CloseSlot \/ (~slot /\ UNCHANGED creditVars)
  /\ router' = "idle"
  /\ UNCHANGED <<caller, laneVars, agentVars, connVars, registered, flow, row>>

\* fail_overflowing_output
HandleViolation ==
  /\ Take("violation")
  /\ IF flow = "streaming"
     THEN /\ FailLease
          /\ row' = "errored"
          /\ CancelAdmitted \/ CancelRefused
     ELSE UNCHANGED <<creditVars, laneVars, flow, row, router>>
  /\ UNCHANGED <<caller, agentVars, conn, registered>>

\* Mutant: the lost flow's lease is not failed before its queue is cleared.
ReleaseWithoutFailing ==
  /\ registered' = FALSE
  /\ router' = "clearing"
  /\ RemoveFlow
  /\ row' = IF row = "canceling" THEN "canceled" ELSE "errored"
  /\ UNCHANGED creditVars

\* release_connection of this agent's connection up to streams.clear.
ReleaseConnection ==
  /\ registered' = FALSE
  /\ router' = "clearing"
  /\ IF flow \in {"streaming", "canceling"}
     THEN /\ RemoveFlow
          /\ FailLease
          /\ row' = IF row = "canceling" THEN "canceled" ELSE "errored"
     ELSE UNCHANGED <<creditVars, delivery, flow, row>>

\* unregister_agent: a session that was replaced is not current any more.
HandleLost ==
  /\ Take("lost")
  /\ IF registered
     THEN ReleaseConnection
     ELSE UNCHANGED <<creditVars, delivery, registered, flow, row, router>>
  /\ UNCHANGED <<caller, ticket, toAgent, agentVars, conn>>

\* A newer session of the agent, or its removal, evicts this one while its
\* reader still runs.
Evict ==
  /\ router = "idle" /\ registered
  /\ ReleaseConnection
  /\ UNCHANGED <<caller, ticket, toAgent, agentVars, connVars>>

-----------------------------------------------------------------------------
(* HTTP caller *)

\* The handler's future is dropped while it waits for the reply.
CallerLeaves ==
  /\ caller = "waiting"
  /\ caller' = "gone"
  /\ UNCHANGED <<creditVars, laneVars, agentVars, connVars, routerVars>>

\* The reply arrives and the cancel guard is armed.
TakeReply ==
  /\ caller = "handed"
  /\ caller' = "reading"
  /\ UNCHANGED <<creditVars, laneVars, agentVars, connVars, routerVars>>

\* The future is dropped with the reply in its channel, so no guard exists.
LoseReply ==
  /\ caller = "handed"
  /\ Abandon
  /\ caller' = "lost"
  /\ UNCHANGED <<laneVars, agentVars, connVars, routerVars>>

\* OutputStream::poll_recv; FIN, a failure or a stop disarms the guard.
ConsumerReads ==
  /\ caller = "reading"
  /\ Drain \/ ObserveEnd \/ ReturnCredit
  /\ caller' = IF consumer' = "reading" THEN "reading" ELSE "ended"
  /\ UNCHANGED <<laneVars, agentVars, connVars, routerVars>>

\* Mutant: the guard is not armed.
ClientLeavesSilently ==
  /\ caller = "reading"
  /\ Abandon
  /\ caller' = "ended"
  /\ UNCHANGED <<laneVars, agentVars, connVars, routerVars>>

\* The body is dropped before its end; the armed guard sends CancelTransfer.
ClientLeaves ==
  /\ caller = "reading"
  /\ Abandon
  /\ caller' = "leaving"
  /\ UNCHANGED <<laneVars, agentVars, connVars, routerVars>>

-----------------------------------------------------------------------------

RouterStep ==
  \/ Admit \/ Refuse \/ ReplyToCaller \/ ReplyUnwanted
  \/ HandleClientGone \/ UserCancel
  \/ HandleResult \/ RouteLocalResult \/ CloseStream
  \/ HandleViolation \/ HandleLost \/ Evict

ConnectionStep ==
  \/ DeliverRetained \/ WriteCancel \/ WriteCommand
  \/ ReadFrame \/ ReportViolation \/ ReadResult \/ Disconnect \/ SessionEnds

AgentStep ==
  \/ ReceiveCommand \/ ReceiveCancel \/ WorkerSends \/ WorkerOverspends
  \/ WorkerCompletes \/ WorkerCanceled \/ WorkerFails \/ WorkerPanics
  \/ DropWriter \/ AgentAppliesGrant

CallerStep ==
  \/ CallerLeaves \/ TakeReply \/ LoseReply \/ ConsumerReads \/ ClientLeaves

FlowNext == RouterStep \/ ConnectionStep \/ AgentStep \/ CallerStep

FlowSpec == FlowInit /\ [][FlowNext]_vars

\* Tasks that can run are polled, the router's mailbox is drained, the client
\* reads or leaves, the agent's file yields its blocks.  Nobody has to cancel,
\* fail, panic, leave, overspend or disconnect.
FlowFairness ==
  /\ WF_vars(Admit) /\ WF_vars(ReplyToCaller) /\ WF_vars(ReplyUnwanted)
  /\ WF_vars(HandleClientGone) /\ WF_vars(HandleResult)
  /\ WF_vars(RouteLocalResult) /\ WF_vars(CloseStream)
  /\ WF_vars(HandleViolation) /\ WF_vars(HandleLost)
  /\ WF_vars(DeliverRetained) /\ WF_vars(WriteCancel) /\ WF_vars(WriteCommand)
  /\ WF_vars(ReadFrame) /\ WF_vars(ReportViolation) /\ WF_vars(ReadResult)
  /\ WF_vars(SessionEnds)
  /\ WF_vars(ReceiveCommand) /\ WF_vars(ReceiveCancel) /\ WF_vars(WorkerSends)
  /\ WF_vars(WorkerCompletes) /\ WF_vars(WorkerCanceled)
  /\ WF_vars(AgentAppliesGrant)
  /\ WF_vars(TakeReply) /\ WF_vars(ConsumerReads)

FairFlowSpec == FlowSpec /\ FlowFairness

-----------------------------------------------------------------------------
(* Properties *)

FlowTypeOK ==
  /\ TypeOK
  /\ caller \in {"waiting", "gone", "handed", "lost", "reading", "leaving", "ended"}
  /\ ticket \in {"none", "queued", "written", "withdrawn"}
  /\ delivery \in {"none", "retained", "queued", "written"}
  /\ toAgent \in {<<>>, <<"command">>, <<"cancel">>, <<"command", "cancel">>}
  /\ worker \in {"absent", "running", "finished"} /\ token \in BOOLEAN
  /\ outcome \in {"none", "ok", "canceled", "error"}
  /\ result \in {"none", "stream", "control", "taken"}
  /\ inbox \in Seq({"violation", "result", "lost"})
  /\ conn \in {"up", "broken", "gone"} /\ registered \in BOOLEAN
  /\ flow \in {"none", "streaming", "canceling", "settled"}
  /\ row \in {"none", "active", "canceling", "canceled", "errored", "completed"}
  /\ router \in {"starting", "replying", "idle", "local", "closing", "clearing"}

\* The router drives the stream as StreamCredit lets an owner do, so whatever
\* holds of a credited stream holds of every download (streams.rs).
ImplementsCredit == CreditSpec

\* A download that failed is never seen as one that was stopped: a consumer
\* that is still reading ends without an error only when the user canceled
\* (finish_output_response and fail_agent_flows store the failure before the
\* queue closes; the reader stores the fault of a violation).
StoppedMeansCanceled == consumer = "stopped" => row \in {"canceling", "canceled"}

\* A row says Completed only when every frame was queued for the consumer, and
\* Canceled only when no worker can be running for it: it ended, it never started
\* and never will, or its connection was lost (complete_download,
\* acknowledge_download_cancel).
EndedRowIsTrue ==
  /\ (~violated /\ row = "completed") => queued = Last \/ consumer = "gone"
  /\ row = "canceled" =>
       \/ worker = "finished" \/ ticket = "withdrawn" \/ conn # "up" \/ ~registered

\* The agent never sees a cancel before the command it cancels, so a canceled
\* command is never left running (CommandTicket against the priority lane).
CancelFollowsCommand ==
  (toAgent # <<>> /\ Head(toAgent) = "cancel") => worker # "absent"

\* History is final: a row that ended keeps its state, whatever results, losses
\* and cancels arrive late (finish_output_response, settle_lost_transfer).  Only
\* the failed row of a stream that violated its credit is not, when the cancel
\* fail_overflowing_output sends is refused.
TerminalRowStays ==
  [][\/ row \in {"canceled", "completed"}
     \/ row = "errored" /\ ~violated
     => row' = row]_row

\* Every admitted flow is settled, so its row, slot and worker are released,
\* unless the reply carrying the receiver was dropped unread.
FlowSettles == (flow = "streaming") ~> (flow = "settled" \/ caller = "lost")

\* As ARCHITECTURE.md has it: a caller that gives up settles its flow too.
EveryFlowSettles == (flow = "streaming") ~> (flow = "settled")

=============================================================================
