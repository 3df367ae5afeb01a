----------------------------- MODULE UploadFlow -----------------------------
(***************************************************************************)
(* One upload or file edit from admission to settlement: the router's      *)
(* flow and history row, the HTTP producer, the frames in both directions  *)
(* and the agent's UploadDriver up to the change of the destination.       *)
(*                                                                         *)
(* The payload is StreamCredit with AwaitGrant; here a body is only        *)
(* unfinished or ended by its FIN.  What is modelled in full is the        *)
(* boundary: a replacing upload asks the router before it publishes, an    *)
(* edit is committed by the router handing its FIN to the lane, and        *)
(* cancels, failures, timeouts and losses race both.                       *)
(*                                                                         *)
(* Cancel, decision and FIN travel on different lanes and reach the worker *)
(* by different routes, so each has a position of its own and no order     *)
(* among them.  What the agent sends back for one upload is in order.      *)
(***************************************************************************)
EXTENDS Integers, Sequences

VARIABLES
  kind,        \* "replace" (raw and tar uploads) or "edit"
  producer,    \* the HTTP side, from waiting for the reply to its end
  httpbox,     \* its messages to the router
  readiness,   \* content of the readiness channel
  completion,  \* content of the completion channel
  told,        \* the outcome the HTTP caller was told
  flow,        \* the flow table's entry and its UploadPhase
  explicit,    \* Canceling.explicit
  row,         \* TransferProgressState of the history row
  cancelable,  \* its cancelable flag
  stopped,     \* StreamLease.cancel fired
  registered,  \* the connection is in the router's by_id
  ticket,      \* CommandTicket of the upload command
  cancelAt,    \* position of the Cancel frame
  decision,    \* what the router answered to the publication request
  decisionAt,  \* position of that answer
  finAt,       \* position of the terminal frame
  worker,      \* the agent's upload task
  token,       \* its cancellation token fired
  outcome,     \* the outcome of its one result
  published,   \* the destination was changed
  fromAgent,   \* frames of the agent on their way to the server
  inbox,       \* the session's messages to the router
  conn         \* the socket: "up", "broken", or "gone" once unregistered

httpVars   == <<producer, httpbox, readiness, completion, told>>
routerVars == <<flow, explicit, row, cancelable, stopped, registered>>
laneVars   == <<ticket, cancelAt, decision, decisionAt, finAt>>
agentVars  == <<worker, token, outcome, published, fromAgent>>
vars == <<kind, httpVars, routerVars, laneVars, agentVars, inbox, conn>>

UploadInit ==
  /\ kind \in {"replace", "edit"}
  /\ producer = "waiting" /\ httpbox = <<>>
  /\ readiness = "none" /\ completion = "none" /\ told = "none"
  /\ flow = "none" /\ explicit = FALSE /\ row = "none" /\ cancelable = FALSE
  /\ stopped = FALSE /\ registered = TRUE
  /\ ticket = "none" /\ cancelAt = "none"
  /\ decision = "none" /\ decisionAt = "none" /\ finAt = "none"
  /\ worker = "absent" /\ token = FALSE /\ outcome = "none" /\ published = FALSE
  /\ fromAgent = <<>> /\ inbox = <<>> /\ conn = "up"

-----------------------------------------------------------------------------
(* Admission *)

\* The command is queued, row and flow exist, and the producer has its reply.
Admit ==
  /\ flow = "none" /\ producer = "waiting" /\ conn # "gone"
  /\ ticket' = "queued" /\ flow' = "awaitingReady"
  /\ row' = "active" /\ cancelable' = TRUE
  /\ producer' = "handed"
  /\ UNCHANGED <<kind, httpbox, readiness, completion, told, explicit, stopped,
                 registered, cancelAt, decision, decisionAt, finAt, agentVars,
                 inbox, conn>>

\* The reply found its receiver gone: the flow is taken back and the command
\* withdrawn, or canceled when the writer was faster.
AdmitUnwanted ==
  /\ flow = "none" /\ producer = "gone" /\ conn # "gone"
  /\ flow' = "settled" /\ row' = "errored" /\ stopped' = TRUE
  /\ \/ ticket' = "withdrawn" /\ UNCHANGED cancelAt
     \/ conn = "up" /\ ticket' = "written" /\ cancelAt' = "lane"
  /\ UNCHANGED <<kind, httpVars, explicit, cancelable, registered, decision,
                 decisionAt, finAt, agentVars, inbox, conn>>

-----------------------------------------------------------------------------
(* Cancelling *)

Unfinished == {"awaitingReady", "streaming", "committing", "publishing"}

\* release_upload
Release == stopped' = TRUE /\ flow' = "settled"

\* Sends what still has a sender: setup errors go to the readiness channel,
\* everything else to the completion channel.
Answer(result) ==
  IF readiness = "none"
  THEN readiness' = result /\ UNCHANGED completion
  ELSE /\ UNCHANGED readiness
       /\ completion' = IF completion = "none" THEN result ELSE completion

\* cancel_on_agent for a flow that is now canceling.  A withdrawn command is
\* answered by the router itself, with an error.
WithdrawUpload ==
  /\ ticket = "queued" /\ ticket' = "withdrawn"
  /\ Release
  /\ UNCHANGED cancelAt

SendCancel ==
  /\ ticket = "written" /\ conn # "gone"
  /\ cancelAt' = "lane"
  /\ stopped' = TRUE /\ flow' = "canceling"
  /\ UNCHANGED ticket

\* The lane is closed; the loss of the connection will settle the flow.
CancelUndelivered ==
  /\ ticket = "written" /\ conn # "up"
  /\ stopped' = TRUE /\ flow' = "canceling"
  /\ UNCHANGED <<ticket, cancelAt>>

CancelUpload == WithdrawUpload \/ SendCancel \/ CancelUndelivered

\* cancel_transfer of a flow that is still reversible; the row ends now.
CancelForProducer ==
  /\ row' = "errored" /\ cancelable' = FALSE /\ explicit' = FALSE
  /\ CancelUpload

\* cancel_transfer: past the commit or publication boundary it does nothing.
CancelTransfer ==
  IF flow \in {"awaitingReady", "streaming"}
  THEN CancelForProducer
  ELSE UNCHANGED <<flow, explicit, row, cancelable, stopped, ticket, cancelAt>>

\* RouterMsg::CancelPublicTransfer asks the row only; the producer is answered
\* at once.
UserCancel ==
  /\ row = "active" /\ cancelable
  /\ flow \in Unfinished
  /\ explicit' = TRUE /\ cancelable' = FALSE
  /\ completion' = "canceled"
  /\ readiness' = IF readiness = "none" THEN "canceled" ELSE readiness
  /\ CancelUpload
  /\ row' = IF flow' = "settled" THEN "canceled" ELSE "canceling"
  /\ UNCHANGED <<kind, producer, httpbox, told, registered, decision, decisionAt,
                 finAt, agentVars, inbox, conn>>

-----------------------------------------------------------------------------
(* Router, for the producer's messages *)

FromProducer(message) ==
  /\ httpbox # <<>> /\ Head(httpbox) = message
  /\ httpbox' = Tail(httpbox)

HandleCancelTransfer ==
  /\ FromProducer("cancel")
  /\ CancelTransfer
  /\ UNCHANGED <<kind, producer, readiness, completion, told, registered, decision,
                 decisionAt, finAt, agentVars, inbox, conn>>

\* Mutant: the flow is forgotten without telling the agent.
AbandonSilently ==
  /\ row' = "errored" /\ cancelable' = FALSE /\ explicit' = FALSE
  /\ Release /\ UNCHANGED <<ticket, cancelAt>>

\* abandon_upload: when nobody is left who could acknowledge, the flow ends now.
AbandonUpload ==
  /\ row' = "errored" /\ cancelable' = FALSE /\ explicit' = FALSE
  /\ \/ SendCancel
     \/ conn # "up" /\ Release /\ UNCHANGED <<ticket, cancelAt>>

HandleOutboundFailed ==
  /\ FromProducer("failed")
  /\ IF flow \in Unfinished
     THEN AbandonUpload
     ELSE UNCHANGED <<flow, explicit, row, cancelable, stopped, ticket, cancelAt>>
  /\ UNCHANGED <<kind, producer, readiness, completion, told, registered, decision,
                 decisionAt, finAt, agentVars, inbox, conn>>

\* commit_edit; an edit that is not streaming any more is refused.
HandleCommit ==
  /\ FromProducer("commit")
  /\ IF flow = "streaming"
     THEN flow' = "committing" /\ cancelable' = FALSE /\ finAt' = "task"
     ELSE UNCHANGED <<flow, cancelable, finAt>>
  /\ UNCHANGED <<kind, producer, readiness, completion, told, explicit, row,
                 stopped, registered, ticket, cancelAt, decision, decisionAt,
                 agentVars, inbox, conn>>

\* The task that owns the edit's terminal frame.
TaskSendsTerminal ==
  /\ finAt = "task"
  /\ finAt' = IF stopped \/ conn # "up" THEN "dropped" ELSE "wire"
  /\ UNCHANGED <<kind, httpVars, routerVars, ticket, cancelAt, decision,
                 decisionAt, agentVars, inbox, conn>>

-----------------------------------------------------------------------------
(* Router, for the session's messages *)

FromSession(message) ==
  /\ inbox # <<>> /\ Head(inbox) = message /\ registered
  /\ inbox' = Tail(inbox)

\* accepts_agent_frame, unregister_agent: nothing of a session that is not the
\* agent's current one is looked at.
DropStale ==
  /\ inbox # <<>> /\ ~registered
  /\ inbox' = Tail(inbox)
  /\ UNCHANGED <<kind, httpVars, routerVars, laneVars, agentVars, conn>>

\* Mutant: nobody notices that the readiness has no receiver.
ReadyWithoutReceiver ==
  /\ FromSession("ready")
  /\ IF flow = "awaitingReady"
     THEN flow' = "streaming" /\ readiness' = "ready"
     ELSE UNCHANGED <<flow, readiness>>
  /\ UNCHANGED <<kind, producer, httpbox, completion, told, explicit, row,
                 cancelable, stopped, registered, laneVars, agentVars, conn>>

\* mark_transfer_ready; without a receiver for the readiness the upload has no
\* producer left.
HandleReady ==
  /\ FromSession("ready")
  /\ IF flow = "awaitingReady"
     THEN IF producer \in {"handed", "preparing"}
          THEN /\ flow' = "streaming" /\ readiness' = "ready"
               /\ UNCHANGED <<explicit, row, cancelable, stopped, ticket, cancelAt>>
          ELSE CancelForProducer /\ UNCHANGED readiness
     ELSE UNCHANGED <<flow, readiness, explicit, row, cancelable, stopped, ticket,
                      cancelAt>>
  /\ UNCHANGED <<kind, producer, httpbox, completion, told, registered, decision,
                 decisionAt, finAt, agentVars, conn>>

\* Mutant: the row stays cancelable.
AuthorizeKeepingCancelable ==
  /\ flow' = "publishing"
  /\ UNCHANGED cancelable

\* authorize_publication of an upload that is still cancelable.
Authorize ==
  /\ cancelable' = FALSE
  /\ flow' = "publishing"

Authorizable ==
  flow = "streaming" /\ kind = "replace" /\ row = "active" /\ cancelable

\* begin_upload_publication; the decision is retained until the lane has room.
HandlePublishRequest ==
  /\ FromSession("publish")
  /\ IF Authorizable
     THEN Authorize /\ decision' = "allowed"
     ELSE decision' = "denied" /\ UNCHANGED <<flow, cancelable>>
  /\ decisionAt' = "lane"
  /\ UNCHANGED <<kind, httpVars, explicit, row, stopped, registered, ticket,
                 cancelAt, finAt, agentVars, conn>>

\* finish_upload_response: the result of a canceling flow only acknowledges,
\* except that an upload published before the agent saw its cancel is complete.
Settle ==
  /\ Release
  /\ IF flow = "canceling"
     THEN /\ row' = IF ~explicit THEN row
                    ELSE IF outcome = "ok" THEN "completed" ELSE "canceled"
          /\ readiness' = IF readiness = "none" THEN "canceled" ELSE readiness
          /\ completion' = IF completion = "none" THEN "canceled" ELSE completion
     ELSE /\ row' = IF outcome = "ok" THEN "completed" ELSE "errored"
          /\ Answer(outcome)

HandleResult ==
  /\ FromSession("result")
  /\ IF flow \in Unfinished \cup {"canceling"}
     THEN Settle /\ cancelable' = FALSE
     ELSE UNCHANGED <<flow, row, cancelable, stopped, readiness, completion>>
  /\ UNCHANGED <<kind, producer, httpbox, told, explicit, registered, laneVars,
                 agentVars, conn>>

\* settle_lost_flow: an accepted cancel stays a cancel.
LoseConnection ==
  /\ registered' = FALSE
  /\ IF flow \in Unfinished \cup {"canceling"}
     THEN /\ Release /\ cancelable' = FALSE
          /\ row' = IF row = "canceling" THEN "canceled" ELSE "errored"
          /\ completion' = IF completion = "none" THEN "error" ELSE completion
          /\ readiness' = IF readiness = "none" THEN "error" ELSE readiness
     ELSE UNCHANGED <<flow, row, cancelable, stopped, readiness, completion>>
  /\ UNCHANGED <<kind, producer, httpbox, told, explicit, laneVars, agentVars>>

HandleLost ==
  /\ FromSession("lost")
  /\ LoseConnection
  /\ UNCHANGED conn

\* A newer session evicts this one; its socket still delivers for a while.
Evict ==
  /\ registered /\ flow # "none"
  /\ LoseConnection
  /\ UNCHANGED <<inbox, conn>>

-----------------------------------------------------------------------------
(* The server's connection *)

\* The writer; the command goes before anything that depends on it.
WriteCommand ==
  /\ ticket = "queued" /\ conn = "up"
  /\ ticket' = "written"
  /\ UNCHANGED <<kind, httpVars, routerVars, cancelAt, decision, decisionAt, finAt,
                 agentVars, inbox, conn>>

WriteCancel ==
  /\ cancelAt = "lane" /\ conn = "up"
  /\ cancelAt' = "wire"
  /\ UNCHANGED <<kind, httpVars, routerVars, ticket, decision, decisionAt, finAt,
                 agentVars, inbox, conn>>

WriteDecision ==
  /\ decisionAt = "lane" /\ conn = "up"
  /\ decisionAt' = "wire"
  /\ UNCHANGED <<kind, httpVars, routerVars, ticket, cancelAt, decision, finAt,
                 agentVars, inbox, conn>>

\* The reader; readiness is reported for the first grant of an open stream.
ReadFrame ==
  /\ fromAgent # <<>> /\ conn = "up"
  /\ fromAgent' = Tail(fromAgent)
  /\ inbox' = IF Head(fromAgent) = "ready" /\ flow \in {"none", "settled"}
              THEN inbox ELSE Append(inbox, Head(fromAgent))
  /\ UNCHANGED <<kind, httpVars, routerVars, laneVars, worker, token, outcome,
                 published, conn>>

Disconnect ==
  /\ conn = "up"
  /\ conn' = "broken"
  /\ UNCHANGED <<kind, httpVars, routerVars, laneVars, agentVars, inbox>>

SessionEnds ==
  /\ conn = "broken"
  /\ conn' = "gone"
  /\ inbox' = Append(inbox, "lost")
  /\ UNCHANGED <<kind, httpVars, routerVars, laneVars, agentVars>>

-----------------------------------------------------------------------------
(* Agent *)

Live == {"preparing", "staging", "asking", "publishing"}

Spawn ==
  /\ worker = "absent" /\ ticket = "written" /\ conn = "up"
  /\ worker' = "preparing"
  /\ UNCHANGED <<kind, httpVars, routerVars, laneVars, token, outcome, published,
                 fromAgent, inbox, conn>>

\* CancelRegistry::cancel_with_reason, after the command was dispatched.
ReceiveCancel ==
  /\ cancelAt = "wire" /\ conn = "up" /\ worker # "absent"
  /\ cancelAt' = "seen"
  /\ token' = IF worker \in Live THEN TRUE ELSE token
  /\ UNCHANGED <<kind, httpVars, routerVars, ticket, decision, decisionAt, finAt,
                 worker, outcome, published, fromAgent, inbox, conn>>

\* invalidate_connection cancels what the connection owned.
AgentLosesConnection ==
  /\ conn # "up" /\ worker \in Live /\ ~token
  /\ token' = TRUE
  /\ UNCHANGED <<kind, httpVars, routerVars, laneVars, worker, outcome, published,
                 fromAgent, inbox, conn>>

\* UploadRoutes::route_chunk; a frame nobody waits for is dropped.
ReceiveTerminal ==
  /\ finAt = "wire" /\ conn = "up"
  /\ finAt' = IF worker = "staging" THEN "queued" ELSE "dropped"
  /\ UNCHANGED <<kind, httpVars, routerVars, ticket, cancelAt, decision, decisionAt,
                 agentVars, inbox, conn>>

Send(message) ==
  fromAgent' = IF conn = "up" THEN Append(fromAgent, message) ELSE fromAgent

\* The one result of the request; without a connection it is never delivered.
Finish(result) ==
  /\ worker' = "finished" /\ outcome' = result
  /\ Send("result")

\* Mutant: readiness is announced before the route is open, and again after.
AnnounceAgain ==
  /\ worker = "preparing"
  /\ worker' \in {"preparing", "staging"}
  /\ Send("ready")
  /\ UNCHANGED <<kind, httpVars, routerVars, laneVars, token, outcome, published,
                 inbox, conn>>

\* The route is open and the first window granted.
AnnounceReady ==
  /\ worker = "preparing"
  /\ worker' = "staging"
  /\ Send("ready")
  /\ UNCHANGED <<kind, httpVars, routerVars, laneVars, token, outcome, published,
                 inbox, conn>>

\* Preparing or staging fails, the queue was closed under the worker, or it panics.
WorkerFails ==
  /\ worker \in {"preparing", "staging"}
  /\ Finish("error")
  /\ UNCHANGED <<kind, httpVars, routerVars, laneVars, token, published, inbox, conn>>

\* next_event: a terminal frame already queued wins only for an edit.
CancelWins ==
  /\ worker = "staging" /\ token
  /\ kind = "edit" => finAt # "queued"

WorkerCanceled ==
  /\ CancelWins
  /\ Finish("canceled")
  /\ UNCHANGED <<kind, httpVars, routerVars, laneVars, token, published, inbox, conn>>

\* Mutant: the staged content is published without asking.
PublishUnasked ==
  /\ worker = "staging" /\ finAt = "queued"
  /\ finAt' = "taken"
  /\ worker' = "publishing"
  /\ UNCHANGED fromAgent

\* The body is complete: an edit is committed, a replacement asks for permission.
TakeTerminal ==
  /\ worker = "staging" /\ finAt = "queued"
  /\ finAt' = "taken"
  /\ IF kind = "edit"
     THEN worker' = "publishing" /\ UNCHANGED fromAgent
     ELSE worker' = "asking" /\ Send("publish")

CompleteBody ==
  /\ TakeTerminal
  /\ UNCHANGED <<kind, httpVars, routerVars, ticket, cancelAt, decision, decisionAt,
                 token, outcome, published, inbox, conn>>

\* resolve_publication and PublicationGate::authorize; an allowed publication
\* is given up when the token fired meanwhile.
ReceiveDecision ==
  /\ decisionAt = "wire" /\ conn = "up"
  /\ decisionAt' = "seen"
  /\ IF worker = "asking" /\ decision = "allowed" /\ ~token
     THEN worker' = "publishing" /\ UNCHANGED <<outcome, fromAgent>>
     ELSE IF worker = "asking"
     THEN Finish("canceled")
     ELSE UNCHANGED <<worker, outcome, fromAgent>>
  /\ UNCHANGED <<kind, httpVars, routerVars, ticket, cancelAt, decision, finAt,
                 token, published, inbox, conn>>

\* The token fires, 30 s pass, or the control lane is closed.
GiveUpAsking ==
  /\ worker = "asking"
  /\ Finish("canceled")
  /\ UNCHANGED <<kind, httpVars, routerVars, laneVars, token, published, inbox, conn>>

\* The rename, merge or rewrite; the connection is not needed any more.
Publish ==
  /\ worker = "publishing"
  /\ published' = TRUE
  /\ Finish("ok")
  /\ UNCHANGED <<kind, httpVars, routerVars, laneVars, token, inbox, conn>>

\* A rewrite may fail after it changed the file; a rename or merge does not.
PublishFails ==
  /\ worker = "publishing"
  /\ published' \in IF kind = "edit" THEN BOOLEAN ELSE {FALSE}
  /\ Finish("error")
  /\ UNCHANGED <<kind, httpVars, routerVars, laneVars, token, inbox, conn>>

-----------------------------------------------------------------------------
(* HTTP producer *)

Producer(next, messages) ==
  /\ producer' = next
  /\ httpbox' = httpbox \o messages
  /\ UNCHANGED <<kind, readiness, routerVars, agentVars, inbox, conn>>

ProducerLeavesEarly ==
  /\ producer = "waiting"
  /\ Producer("gone", <<>>)
  /\ UNCHANGED <<completion, told, laneVars>>

\* The reply is taken and the guard armed, or dropped unread with the future.
TakeReply ==
  /\ producer = "handed"
  /\ \/ Producer("preparing", <<>>)
     \/ Producer("lost", <<>>)
  /\ UNCHANGED <<completion, told, laneVars>>

TakeReadiness ==
  /\ producer = "preparing" /\ readiness # "none"
  /\ IF readiness = "ready"
     THEN Producer("sending", <<>>) /\ UNCHANGED told
     ELSE Producer("ended", <<>>) /\ told' = readiness
  /\ UNCHANGED <<completion, laneVars>>

\* The armed guard is dropped: readiness timed out, the body was short or
\* unreadable, the stream was stopped, or the client left.
ProducerGivesUp ==
  /\ producer \in {"preparing", "sending", "awaiting"}
  /\ Producer("ended", <<"cancel">>)
  /\ UNCHANGED <<completion, told, laneVars>>

\* The body outgrew its declared length: the guard is disarmed before the router
\* is told, which waits for room in its mailbox.
BodyTooLong ==
  /\ producer = "sending"
  /\ Producer("disarmed", <<>>)
  /\ UNCHANGED <<completion, told, laneVars>>

\* The message is queued, or the client leaves and it is dropped with the future.
ReportBodyTooLong ==
  /\ producer = "disarmed"
  /\ \/ Producer("ended", <<"failed">>)
     \/ Producer("lost", <<>>)
  /\ UNCHANGED <<completion, told, laneVars>>

\* A frame met a closed lane; the guard is still armed.
ForwardFails ==
  /\ producer = "sending" /\ conn # "up" /\ ~stopped
  /\ Producer("ended", <<"failed", "cancel">>)
  /\ UNCHANGED <<completion, told, laneVars>>

SendTerminal ==
  /\ producer = "sending" /\ kind = "replace" /\ ~stopped /\ conn = "up"
  /\ finAt' = "wire"
  /\ Producer("awaiting", <<>>)
  /\ UNCHANGED <<completion, told, ticket, cancelAt, decision, decisionAt>>

\* The edit's terminal frame is handed to the router and the guard disarmed.
CommitEdit ==
  /\ producer = "sending" /\ kind = "edit"
  /\ Producer("committing", <<"commit">>)
  /\ UNCHANGED <<completion, told, laneVars>>

TakeCompletion ==
  /\ producer \in {"awaiting", "committing"} /\ completion # "none"
  /\ told' = completion
  /\ Producer("ended", <<>>)
  /\ UNCHANGED <<completion, laneVars>>

\* The hand-off failed or timed out, or the client left: nothing is armed.
CommitterLeaves ==
  /\ producer = "committing"
  /\ Producer("ended", <<>>)
  /\ UNCHANGED <<completion, told, laneVars>>

-----------------------------------------------------------------------------

RouterStep ==
  \/ Admit \/ AdmitUnwanted \/ UserCancel
  \/ HandleCancelTransfer \/ HandleOutboundFailed \/ HandleCommit
  \/ TaskSendsTerminal
  \/ HandleReady \/ HandlePublishRequest \/ HandleResult \/ HandleLost
  \/ DropStale \/ Evict

ConnectionStep ==
  \/ WriteCommand \/ WriteCancel \/ WriteDecision
  \/ ReadFrame \/ Disconnect \/ SessionEnds

AgentStep ==
  \/ Spawn \/ ReceiveCancel \/ AgentLosesConnection \/ ReceiveTerminal
  \/ AnnounceReady \/ WorkerFails \/ WorkerCanceled \/ CompleteBody
  \/ ReceiveDecision \/ GiveUpAsking \/ Publish \/ PublishFails

ProducerStep ==
  \/ ProducerLeavesEarly \/ TakeReply \/ TakeReadiness \/ ProducerGivesUp
  \/ BodyTooLong \/ ReportBodyTooLong \/ ForwardFails \/ SendTerminal \/ CommitEdit
  \/ TakeCompletion \/ CommitterLeaves

UploadNext == RouterStep \/ ConnectionStep \/ AgentStep \/ ProducerStep

UploadSpec == UploadInit /\ [][UploadNext]_vars

\* Tasks that can run are polled, mailboxes and lanes are drained, the client
\* ends its body or leaves, the agent's disk answers and an evicted agent closes
\* its socket.  Nobody has to cancel, fail, leave or disconnect otherwise.
UploadFairness ==
  /\ WF_vars(Admit) /\ WF_vars(AdmitUnwanted)
  /\ WF_vars(HandleCancelTransfer) /\ WF_vars(HandleOutboundFailed)
  /\ WF_vars(HandleCommit) /\ WF_vars(TaskSendsTerminal)
  /\ WF_vars(HandleReady) /\ WF_vars(HandlePublishRequest)
  /\ WF_vars(HandleResult) /\ WF_vars(HandleLost) /\ WF_vars(DropStale)
  /\ WF_vars(WriteCommand) /\ WF_vars(WriteCancel) /\ WF_vars(WriteDecision)
  /\ WF_vars(ReadFrame) /\ WF_vars(SessionEnds)
  /\ WF_vars(Disconnect /\ ~registered)
  /\ WF_vars(Spawn) /\ WF_vars(ReceiveCancel) /\ WF_vars(AgentLosesConnection)
  /\ WF_vars(ReceiveTerminal) /\ WF_vars(AnnounceReady) /\ WF_vars(WorkerCanceled)
  /\ WF_vars(CompleteBody) /\ WF_vars(ReceiveDecision) /\ WF_vars(Publish)
  /\ WF_vars(GiveUpAsking /\ token)
  /\ WF_vars(TakeReply) /\ WF_vars(TakeReadiness) /\ WF_vars(ReportBodyTooLong)
  /\ WF_vars(ProducerGivesUp /\ stopped) /\ WF_vars(ForwardFails)
  /\ WF_vars(SendTerminal) /\ WF_vars(CommitEdit) /\ WF_vars(TakeCompletion)

FairUploadSpec == UploadSpec /\ UploadFairness

-----------------------------------------------------------------------------
(* Properties *)

Ended == {"canceled", "errored", "completed"}

UploadTypeOK ==
  /\ kind \in {"replace", "edit"}
  /\ producer \in {"waiting", "gone", "handed", "lost", "preparing", "sending",
                   "disarmed", "awaiting", "committing", "ended"}
  /\ httpbox \in {<<>>, <<"cancel">>, <<"failed">>, <<"failed", "cancel">>, <<"commit">>}
  /\ readiness \in {"none", "ready", "ok", "error", "canceled"}
  /\ completion \in {"none", "ok", "error", "canceled"}
  /\ told \in {"none", "ok", "error", "canceled"}
  /\ flow \in {"none", "settled", "canceling"} \cup Unfinished
  /\ explicit \in BOOLEAN /\ cancelable \in BOOLEAN /\ stopped \in BOOLEAN
  /\ row \in {"none", "active", "canceling"} \cup Ended
  /\ registered \in BOOLEAN /\ conn \in {"up", "broken", "gone"}
  /\ ticket \in {"none", "queued", "written", "withdrawn"}
  /\ cancelAt \in {"none", "lane", "wire", "seen"}
  /\ decision \in {"none", "allowed", "denied"}
  /\ decisionAt \in {"none", "lane", "wire", "seen"}
  /\ finAt \in {"none", "task", "wire", "queued", "taken", "dropped"}
  /\ worker \in {"absent", "finished"} \cup Live
  /\ token \in BOOLEAN /\ published \in BOOLEAN
  /\ outcome \in {"none", "ok", "error", "canceled"}
  /\ fromAgent \in Seq({"ready", "publish", "result"}) /\ Len(fromAgent) <= 3
  /\ inbox \in Seq({"ready", "publish", "result", "lost"}) /\ Len(inbox) <= 4

\* The verdict on the upload: the router granted its publication, handed over
\* its terminal frame, or turned to ending it.
Verdict ==
  IF decision = "allowed" \/ (kind = "edit" /\ finAt # "none") THEN "accepted"
  ELSE IF flow \in {"canceling", "settled"} THEN "refused"
  ELSE "open"

Promise == INSTANCE Publication
  WITH verdict <- Verdict,
       destination <- IF published THEN "new" ELSE "old",
       report <- IF row \in Ended THEN row ELSE "active"

\* The router's answer is final: whatever races it, a canceled upload never
\* replaces its destination and an accepted one is never reported as canceled
\* (ARCHITECTURE.md, "Publication is a separate step decided by the router").
KeepsPromise == Promise!Spec

\* What the caller is told agrees with the destination: a success was
\* published, a cancel was not and never will be (finish_upload_response,
\* cancel_upload).
ToldTheTruth ==
  /\ told = "ok" => published
  /\ told = "canceled" => ~published /\ worker # "publishing"

\* A worker is never left waiting for bytes or for a decision that nobody will
\* send: when the flow is settled and no frame is on its way, the worker ended,
\* never starts, or lost its connection (release_upload, abandon_upload).
NoOrphanedWorker ==
  (flow = "settled" /\ worker \in Live) =>
     cancelAt \in {"lane", "wire"} \/ token \/ ~registered \/ conn # "up"

\* Every admitted upload is settled, whichever side gives up, unless its producer
\* was dropped with no guard armed; and even then when the readiness still finds
\* its receiver gone (UploadCancelGuard, mark_transfer_ready).  A worker that
\* started ends, so its staging, its route and its slot of the 32 are released.
UploadSettles ==
  /\ (flow \in Unfinished) ~> (flow = "settled" \/ producer = "lost")
  /\ (flow = "awaitingReady" /\ producer = "lost") ~> (flow = "settled")
  /\ (worker = "preparing") ~> (worker = "finished" \/ producer = "lost")

\* As ARCHITECTURE.md has it: the router cancels the worker of a producer that
\* gives up because its body is longer than its Content-Length.
OverlongBodyIsCanceled == (producer = "disarmed") ~> (flow = "settled")
=============================================================================
