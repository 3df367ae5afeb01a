-------------------------- MODULE OutputFlowProofs --------------------------
(***************************************************************************)
(* What holds of a download for every window, length of the file and       *)
(* misbehaviour of the agent.                                              *)
(***************************************************************************)
EXTENDS OutputFlow, StreamCreditProofs, SequenceTheorems

-----------------------------------------------------------------------------
(* A download is a credited stream *)

\* Every step of the flow takes one step of its stream or none.
LEMMA FlowStepIsCreditStep == FlowNext => [CreditNext]_creditVars
<1> SUFFICES ASSUME FlowNext PROVE CreditNext \/ UNCHANGED creditVars
  OBVIOUS
<1> USE DEF CreditNext, DataPath, Misbehave, Environment
<1>1. CASE RouterStep
  <2>1. CancelForClient => Stop \/ UNCHANGED creditVars
    BY DEF CancelForClient, StopLease
  <2>2. Settle \/ ReleaseConnection => Fail \/ UNCHANGED creditVars
    BY DEF Settle, ReleaseConnection, FailLease
  <2>3. QED
    BY <1>1, <2>1, <2>2
    DEF RouterStep, Admit, Refuse, ReplyToCaller, ReplyUnwanted,
        HandleClientGone, UserCancel, StopLease, FailLease, HandleResult,
        RouteLocalResult, CloseStream, HandleViolation, HandleLost, Evict
<1>2. CASE ConnectionStep
  BY <1>2
  DEF ConnectionStep, DeliverRetained, WriteCancel, WriteCommand, ReadFrame,
      ReportViolation, ReadResult, Disconnect, SessionEnds
<1>3. CASE AgentStep
  BY <1>3
  DEF AgentStep, ReceiveCommand, ReceiveCancel, WorkerSends, WorkerOverspends,
      WorkerCompletes, WorkerCanceled, WorkerFails, WorkerPanics, Answers,
      DropWriter, AgentAppliesGrant
<1>4. CASE CallerStep
  BY <1>4
  DEF CallerStep, CallerLeaves, TakeReply, LoseReply, ConsumerReads, ClientLeaves
<1>5. QED
  BY <1>1, <1>2, <1>3, <1>4 DEF FlowNext

\* The router, the session and the HTTP caller treat a download's stream only
\* as an owner of a credited stream may, so what is proved of credited streams
\* holds of every download.
THEOREM FlowImplementsCredit == FlowSpec => ImplementsCredit
<1>1. FlowInit => CreditInit
  BY DEF FlowInit
<1>2. [FlowNext]_vars => [CreditNext]_creditVars
  BY FlowStepIsCreditStep DEF vars
<1>3. QED
  BY <1>1, <1>2, PTL DEF FlowSpec, CreditSpec, ImplementsCredit

\* No download of an honest agent is ever failed for a credit violation.
THEOREM HonestDownloadNeverViolates == FlowSpec => []NoHonestViolation
  BY FlowImplementsCredit, HonestNeverViolates, PTL DEF ImplementsCredit

-----------------------------------------------------------------------------
(* The command and its cancel *)

\* The command is written at most once and before its cancel; the cancel
\* exists only for a written command whose flow is being canceled.
LaneInvariant ==
  /\ ticket # "written" =>
       toAgent = <<>> /\ worker = "absent" /\ delivery = "none"
  /\ ticket = "written" =>
       \/ toAgent \in {<<"command">>, <<"command", "cancel">>} /\ worker = "absent"
       \/ toAgent \in {<<>>, <<"cancel">>} /\ worker # "absent"
  /\ toAgent \in {<<"cancel">>, <<"command", "cancel">>} => delivery = "written"
  /\ delivery # "none" => flow \in {"canceling", "settled"}
  /\ flow = "none" => ticket = "none"
  /\ flow = "streaming" => ticket \in {"queued", "written"}
  /\ router = "starting" => flow = "none"
  /\ router = "replying" => flow = "streaming"
  /\ router = "local" => flow = "canceling"

\* What the two frames make of the socket.
LEMMA SocketFrames ==
  /\ Append(<<>>, "command") = <<"command">>
  /\ Append(<<>>, "cancel") = <<"cancel">>
  /\ Append(<<"command">>, "cancel") = <<"command", "cancel">>
  /\ Head(<<"command">>) = "command" /\ Tail(<<"command">>) = <<>>
  /\ Head(<<"cancel">>) = "cancel" /\ Tail(<<"cancel">>) = <<>>
  /\ Head(<<"command", "cancel">>) = "command"
  /\ Tail(<<"command", "cancel">>) = <<"cancel">>
  /\ <<"command">> # <<"command", "cancel">> /\ <<"cancel">> # <<"command", "cancel">>
  /\ <<"command">> # <<"cancel">> /\ <<>> # <<"command">> /\ <<>> # <<"cancel">>
  /\ <<>> # <<"command", "cancel">>
<1>1. Tail(<<"command">>) = <<>> /\ Tail(<<"cancel">>) = <<>>
  OBVIOUS
<1>2. Tail(<<"command", "cancel">>) = <<"cancel">>
  OBVIOUS
<1>3. Append(<<>>, "command") = <<"command">>
  OBVIOUS
<1>4. Append(<<>>, "cancel") = <<"cancel">>
  OBVIOUS
<1>5. Append(<<"command">>, "cancel") = <<"command", "cancel">>
  <2> DEFINE F == {"command", "cancel"}
             s == Append(<<"command">>, "cancel")
             t == <<"command", "cancel">>
  <2>1. <<"command">> \in Seq(F) /\ "cancel" \in F /\ t \in Seq(F)
    OBVIOUS
  <2>2. s \in Seq(F) /\ Len(s) = 2 /\ s[1] = "command" /\ s[2] = "cancel"
    BY <2>1, AppendProperties
  <2>3. Len(t) = 2 /\ t[1] = "command" /\ t[2] = "cancel"
    OBVIOUS
  <2> HIDE DEF s, t
  <2>4. s = t
    BY <2>1, <2>2, <2>3, SeqEqual
  <2>5. QED
    BY <2>4 DEF s, t
<1>6. QED
  BY <1>1, <1>2, <1>3, <1>4, <1>5

LEMMA RouterKeepsLanes ==
  ASSUME LaneInvariant, RouterStep
  PROVE  LaneInvariant'
<1> USE DEF LaneInvariant, laneVars, agentVars, connVars, routerVars
<1>1. CASE Admit \/ Refuse \/ ReplyToCaller
  BY <1>1 DEF Admit, Refuse, ReplyToCaller
<1>2. CASE ReplyUnwanted \/ HandleClientGone
  BY <1>2
  DEF ReplyUnwanted, HandleClientGone, CancelForClient, CancelAdmitted,
      CancelRefused, Withdraw, SendCancel
<1>3. CASE UserCancel \/ HandleViolation
  BY <1>3
  DEF UserCancel, HandleViolation, Take, CancelAdmitted, CancelRefused,
      Withdraw, SendCancel
<1>4. CASE HandleResult \/ RouteLocalResult \/ CloseStream
  BY <1>4
  DEF HandleResult, Take, RouteLocalResult, CloseStream, Settle, RemoveFlow
<1>5. CASE HandleLost \/ Evict
  BY <1>5 DEF HandleLost, Take, Evict, ReleaseConnection, RemoveFlow
<1>6. QED
  BY <1>1, <1>2, <1>3, <1>4, <1>5 DEF RouterStep

LEMMA StepKeepsLanes ==
  ASSUME LaneInvariant, [FlowNext]_vars
  PROVE  LaneInvariant'
<1> USE DEF LaneInvariant, laneVars, agentVars, connVars, routerVars, flowVars
<1>1. CASE RouterStep
  BY <1>1, RouterKeepsLanes
<1>2. CASE WriteCancel \/ WriteCommand \/ DeliverRetained
  BY <1>2, SocketFrames DEF WriteCancel, WriteCommand, DeliverRetained
<1>3. CASE ReadFrame \/ ReportViolation \/ ReadResult \/ Disconnect \/ SessionEnds
  BY <1>3 DEF ReadFrame, ReportViolation, ReadResult, Disconnect, SessionEnds
<1>4. CASE ReceiveCommand \/ ReceiveCancel
  BY <1>4, SocketFrames DEF ReceiveCommand, ReceiveCancel
<1>5. CASE WorkerCompletes \/ WorkerCanceled \/ WorkerFails \/ WorkerPanics
  BY <1>5 DEF WorkerCompletes, WorkerCanceled, WorkerFails, WorkerPanics, Answers
<1>6. CASE WorkerSends \/ WorkerOverspends \/ DropWriter \/ AgentAppliesGrant
  BY <1>6 DEF WorkerSends, WorkerOverspends, DropWriter, AgentAppliesGrant
<1>7. CASE CallerStep
  BY <1>7
  DEF CallerStep, CallerLeaves, TakeReply, LoseReply, ConsumerReads, ClientLeaves
<1>8. CASE UNCHANGED vars
  BY <1>8 DEF vars
<1>9. QED
  BY <1>1, <1>2, <1>3, <1>4, <1>5, <1>6, <1>7, <1>8
  DEF FlowNext, ConnectionStep, AgentStep

\* The agent never sees a cancel before the command it cancels, however the
\* priority lane overtakes the command lane.
THEOREM CancelAlwaysFollows == FlowSpec => []CancelFollowsCommand
<1>1. FlowInit => LaneInvariant
  BY DEF FlowInit, LaneInvariant
<1>2. LaneInvariant /\ [FlowNext]_vars => LaneInvariant'
  BY StepKeepsLanes
<1>3. LaneInvariant => CancelFollowsCommand
  BY DEF LaneInvariant, CancelFollowsCommand
<1>4. QED
  BY <1>1, <1>2, <1>3, PTL DEF FlowSpec

-----------------------------------------------------------------------------
(* Types *)

\* The messages of the session are appended and taken from the front.
LEMMA MailboxType ==
  ASSUME FlowTypeOK
  PROVE  /\ \A m \in {"violation", "result", "lost"} :
               Append(inbox, m) \in Seq({"violation", "result", "lost"})
         /\ inbox # <<>> => Tail(inbox) \in Seq({"violation", "result", "lost"})
  BY DEF FlowTypeOK

LEMMA RouterKeepsTypes ==
  ASSUME FlowTypeOK, TypeOK', LaneInvariant', RouterStep
  PROVE  FlowTypeOK'
<1>1. toAgent' \in {<<>>, <<"command">>, <<"cancel">>, <<"command", "cancel">>}
  BY DEF LaneInvariant
<1> USE <1>1 DEF laneVars, agentVars, connVars, routerVars
<1>2. CASE Admit \/ Refuse \/ ReplyToCaller
  BY <1>2 DEF FlowTypeOK, Admit, Refuse, ReplyToCaller
<1>3. CASE ReplyUnwanted \/ HandleClientGone
  BY <1>3
  DEF FlowTypeOK, ReplyUnwanted, HandleClientGone, CancelForClient,
      CancelAdmitted, CancelRefused, Withdraw, SendCancel
<1>4. CASE UserCancel
  BY <1>4 DEF FlowTypeOK, UserCancel, CancelAdmitted, Withdraw, SendCancel
<1>5. CASE HandleViolation
  BY <1>5, MailboxType
  DEF FlowTypeOK, HandleViolation, Take, CancelAdmitted, CancelRefused,
      Withdraw, SendCancel
<1>6. CASE HandleResult
  BY <1>6, MailboxType
  DEF FlowTypeOK, HandleResult, Take, Settle, RemoveFlow, Acknowledged
<1>7. CASE RouteLocalResult \/ CloseStream
  BY <1>7
  DEF FlowTypeOK, RouteLocalResult, CloseStream, Settle, RemoveFlow, Acknowledged
<1>8. CASE HandleLost
  <2>1. registered' \in BOOLEAN
    BY <1>8 DEF FlowTypeOK, HandleLost, ReleaseConnection
  <2>2. /\ row' \in {"none", "active", "canceling", "canceled", "errored", "completed"}
        /\ flow' \in {"none", "streaming", "canceling", "settled"}
        /\ delivery' \in {"none", "retained", "queued", "written"}
        /\ router' \in {"starting", "replying", "idle", "local", "closing", "clearing"}
    BY <1>8 DEF FlowTypeOK, HandleLost, ReleaseConnection, RemoveFlow
  <2>3. inbox' \in Seq({"violation", "result", "lost"})
    BY <1>8, MailboxType DEF FlowTypeOK, HandleLost, Take
  <2>4. QED
    BY <1>8, <2>1, <2>2, <2>3 DEF FlowTypeOK, HandleLost
<1>9. CASE Evict
  <2>1. registered' \in BOOLEAN
    BY <1>9 DEF FlowTypeOK, Evict, ReleaseConnection
  <2>2. /\ row' \in {"none", "active", "canceling", "canceled", "errored", "completed"}
        /\ flow' \in {"none", "streaming", "canceling", "settled"}
        /\ delivery' \in {"none", "retained", "queued", "written"}
        /\ router' \in {"starting", "replying", "idle", "local", "closing", "clearing"}
    BY <1>9 DEF FlowTypeOK, Evict, ReleaseConnection, RemoveFlow
  <2>3. QED
    BY <1>9, <2>1, <2>2 DEF FlowTypeOK, Evict
<1>10. QED
  BY <1>2, <1>3, <1>4, <1>5, <1>6, <1>7, <1>8, <1>9 DEF RouterStep

LEMMA StepKeepsTypes ==
  ASSUME FlowTypeOK, TypeOK', LaneInvariant', [FlowNext]_vars
  PROVE  FlowTypeOK'
<1>1. toAgent' \in {<<>>, <<"command">>, <<"cancel">>, <<"command", "cancel">>}
  BY DEF LaneInvariant
<1> USE <1>1 DEF laneVars, agentVars, connVars, routerVars, flowVars
<1>2. CASE RouterStep
  BY <1>2, RouterKeepsTypes
<1>3. CASE ConnectionStep
  BY <1>3, MailboxType
  DEF FlowTypeOK, ConnectionStep, DeliverRetained, WriteCancel, WriteCommand,
      ReadFrame, ReportViolation, ReadResult, Disconnect, SessionEnds
<1>4. CASE AgentStep
  BY <1>4
  DEF FlowTypeOK, AgentStep, ReceiveCommand, ReceiveCancel, WorkerSends,
      WorkerOverspends, WorkerCompletes, WorkerCanceled, WorkerFails,
      WorkerPanics, Answers, DropWriter, AgentAppliesGrant
<1>5. CASE CallerStep
  BY <1>5
  DEF FlowTypeOK, CallerStep, CallerLeaves, TakeReply, LoseReply,
      ConsumerReads, ClientLeaves
<1>6. CASE UNCHANGED vars
  BY <1>6 DEF FlowTypeOK, vars
<1>7. QED
  BY <1>2, <1>3, <1>4, <1>5, <1>6 DEF FlowNext

\* Every part of a download keeps to its states, the socket to one command and
\* one cancel behind it.
THEOREM FlowTypeCorrect == FlowSpec => []FlowTypeOK
<1>1. FlowInit => TypeOK /\ LaneInvariant /\ FlowTypeOK
  <2> SUFFICES ASSUME FlowInit PROVE TypeOK /\ LaneInvariant /\ FlowTypeOK
    OBVIOUS
  <2>1. TypeOK
    BY CreditInitType DEF FlowInit
  <2>2. LaneInvariant
    BY DEF FlowInit, LaneInvariant
  <2>3. token \in BOOLEAN /\ registered \in BOOLEAN
    BY DEF FlowInit
  <2>4. FlowTypeOK
    BY <2>1, <2>3 DEF FlowInit, FlowTypeOK
  <2>5. QED
    BY <2>1, <2>2, <2>4
<1>2. /\ TypeOK /\ LaneInvariant /\ FlowTypeOK /\ [FlowNext]_vars
      => TypeOK' /\ LaneInvariant' /\ FlowTypeOK'
  BY FlowStepIsCreditStep, StepType, StepKeepsLanes, StepKeepsTypes DEF vars
<1>3. QED
  BY <1>1, <1>2, PTL DEF FlowSpec

-----------------------------------------------------------------------------
(* A download that failed is never seen as one that was stopped *)

\* While start_output runs, nothing of the download exists on the agent.
StartingIsFresh ==
  router = "starting" =>
    /\ flow = "none" /\ slot /\ ~overflow /\ sent = 0
    /\ worker = "absent" /\ ticket = "none" /\ delivery = "none" /\ toAgent = <<>>

\* How the flow, its row and its stopped lease go together.
FlowMatchesRow ==
  /\ flow = "none" => ~cancel /\ row = "none" /\ caller \in {"waiting", "gone", "ended"}
  /\ flow = "streaming" => row \in {"active", "errored"} /\ (cancel => fault)
  /\ flow = "canceling" => cancel /\ row \in {"canceling", "errored"}
  /\ flow = "settled" => row \in {"canceled", "errored", "completed"}
  /\ flow \in {"none", "streaming", "canceling", "settled"}

\* Only a user's cancel or a caller that left stops a lease without failing it.
StopHasReason ==
  (cancel /\ ~fault) =>
    row \in {"canceling", "canceled"} \/ caller \in {"gone", "ended"}

\* Where in its handlers the router may be.
HandlersInOrder ==
  /\ router = "replying" => flow = "streaming"
  /\ router = "local" => flow = "canceling"
  /\ router = "closing" => flow = "settled"
  /\ router = "clearing" => flow \in {"none", "settled"}

\* A success result follows the whole stream.
ResultFollowsData ==
  /\ \A i \in 1 .. Len(inbox) : inbox[i] = "result" => result = "taken"
  /\ outcome = "ok" => /\ sent = Last /\ worker = "finished"
                       /\ result \in {"stream", "taken"}
                       /\ result = "taken" => arrived = Last
  /\ worker # "finished" => result = "none"

\* A flow settles with its stream failed, stopped or complete, and a route ends
\* with its frames failed, stopped or all queued.
SettledHasReason ==
  /\ overflow => fault
  /\ flow = "settled" => cancel \/ fault \/ arrived = Last
  /\ (consumer = "reading" /\ ~cancel /\ ~fault /\ (~slot \/ arrived = Last))
       => queued = Last \/ flow = "none"
  /\ drained = Last => consumer # "reading"

StopInvariant ==
  /\ StartingIsFresh /\ FlowMatchesRow /\ StopHasReason /\ HandlersInOrder
  /\ ResultFollowsData /\ SettledHasReason /\ StoppedMeansCanceled

LEMMA InitStopInvariant == FlowInit => StopInvariant
<1> SUFFICES ASSUME FlowInit PROVE StopInvariant
  OBVIOUS
<1> USE CreditAssumption, DownloadAssumption DEF FlowInit, CreditInit
<1>1. StartingIsFresh
  BY DEF StartingIsFresh
<1>2. FlowMatchesRow /\ StopHasReason /\ HandlersInOrder
  BY DEF FlowMatchesRow, StopHasReason, HandlersInOrder
<1>3. ResultFollowsData
  BY DEF ResultFollowsData
<1>4. SettledHasReason /\ StoppedMeansCanceled
  BY DEF SettledHasReason, StoppedMeansCanceled
<1>5. QED
  BY <1>1, <1>2, <1>3, <1>4 DEF StopInvariant

\* What the steps of the stream do to the state the invariant speaks of.
LEMMA StreamStep ==
  ASSUME TypeOK
  PROVE  /\ Drain \/ ObserveEnd \/ ReturnCredit =>
               UNCHANGED <<slot, overflow, sent, arrived, queued, cancel, fault>>
         /\ Acquire \/ Enqueue \/ SendWithoutCredit =>
               UNCHANGED <<slot, overflow, arrived, queued, drained, cancel, fault, consumer>>
         /\ CloseGate \/ ApplyGrant =>
               UNCHANGED <<slot, overflow, sent, arrived, queued, drained, cancel, fault, consumer>>
         /\ Stop => cancel' /\ UNCHANGED <<slot, overflow, sent, arrived, queued, drained, fault, consumer>>
         /\ Fail => cancel' /\ fault' /\ UNCHANGED <<slot, overflow, sent, arrived, queued, drained, consumer>>
         /\ CloseSlot => ~slot' /\ UNCHANGED <<overflow, sent, arrived, queued, drained, cancel, fault, consumer>>
         /\ Abandon => consumer' = "gone" /\ UNCHANGED <<slot, overflow, sent, arrived, queued, drained, cancel, fault>>
         /\ CloseOverflowing => overflow /\ ~overflow' /\ ~slot' /\ UNCHANGED <<sent, arrived, queued, drained, cancel, fault, consumer>>
         /\ UNCHANGED creditVars => UNCHANGED <<slot, overflow, sent, arrived, queued, drained, cancel, fault, consumer>>
  BY DEF Drain, ObserveEnd, ReturnCredit, Acquire, Enqueue, SendWithoutCredit,
         CloseGate, ApplyGrant, Stop, Fail, CloseSlot, Abandon,
         CloseOverflowing, creditVars, senderVars, readerVars, leaseVars,
         consumerVars, grantVars

\* The caller's steps.
LEMMA CallerKeepsStop ==
  ASSUME TypeOK, StopInvariant, CallerStep
  PROVE  StopInvariant'
<1> USE DEF StopInvariant, StartingIsFresh, FlowMatchesRow, StopHasReason,
        HandlersInOrder, ResultFollowsData, SettledHasReason,
        StoppedMeansCanceled, laneVars, agentVars, connVars, routerVars
<1>1. CASE CallerLeaves \/ TakeReply
  BY <1>1, StreamStep DEF CallerLeaves, TakeReply
<1>2. CASE LoseReply \/ ClientLeaves
  BY <1>2, StreamStep DEF LoseReply, ClientLeaves
<1>3. CASE ConsumerReads
  BY <1>3, StreamStep DEF ConsumerReads, Drain, ObserveEnd, ReturnCredit, TypeOK, QueueLength
<1>4. QED
  BY <1>1, <1>2, <1>3 DEF CallerStep

\* The agent's steps.  Data is handed to the lane only by a running worker, and
\* a success is its last act.
LEMMA AgentKeepsStop ==
  ASSUME TypeOK, LaneInvariant, StopInvariant, AgentStep
  PROVE  StopInvariant'
<1> USE DownloadAssumption
    DEF StopInvariant, StartingIsFresh, FlowMatchesRow, StopHasReason,
        HandlersInOrder, ResultFollowsData, SettledHasReason,
        StoppedMeansCanceled, laneVars, agentVars, connVars, routerVars, flowVars
<1>1. CASE ReceiveCommand
  <2>1. worker = "absent" /\ ticket = "written"
    BY <1>1, SocketFrames DEF ReceiveCommand, LaneInvariant
  <2>2. QED
    BY <1>1, <2>1, StreamStep DEF ReceiveCommand, LaneInvariant
<1>2. CASE ReceiveCancel
  BY <1>2, StreamStep DEF ReceiveCancel
<1>3. CASE WorkerSends \/ WorkerOverspends
  BY <1>3, StreamStep DEF WorkerSends, WorkerOverspends
<1>4. CASE WorkerCompletes \/ WorkerCanceled \/ WorkerFails \/ WorkerPanics
  BY <1>4, StreamStep
  DEF WorkerCompletes, WorkerCanceled, WorkerFails, WorkerPanics, Answers
<1>5. CASE DropWriter \/ AgentAppliesGrant
  BY <1>5, StreamStep DEF DropWriter, AgentAppliesGrant
<1>6. QED
  BY <1>1, <1>2, <1>3, <1>4, <1>5 DEF AgentStep

\* The connection's steps.
LEMMA ConnectionKeepsStop ==
  ASSUME TypeOK, FlowTypeOK, StopInvariant, ConnectionStep
  PROVE  StopInvariant'
<1> USE DEF StopInvariant, StartingIsFresh, FlowMatchesRow, StopHasReason,
        HandlersInOrder, ResultFollowsData, SettledHasReason,
        StoppedMeansCanceled, laneVars, agentVars, connVars, routerVars, flowVars
<1>1. CASE DeliverRetained \/ WriteCancel \/ WriteCommand
  BY <1>1, StreamStep DEF DeliverRetained, WriteCancel, WriteCommand
<1>2. CASE ReadFrame
  BY <1>2 DEF ReadFrame, Deliver, TypeOK, senderVars, consumerVars, grantVars
<1>3. CASE ReportViolation
  BY <1>3, StreamStep DEF ReportViolation, FlowTypeOK
<1>4. CASE ReadResult
  BY <1>4, StreamStep DEF ReadResult, FlowTypeOK, TypeOK
<1>5. CASE Disconnect \/ SessionEnds
  BY <1>5, StreamStep DEF Disconnect, SessionEnds, FlowTypeOK
<1>6. QED
  BY <1>1, <1>2, <1>3, <1>4, <1>5 DEF ConnectionStep

\* The router's steps.
LEMMA RouterKeepsStop ==
  ASSUME TypeOK, FlowTypeOK, StopInvariant, RouterStep
  PROVE  StopInvariant'
<1> USE DEF StopInvariant, StartingIsFresh, FlowMatchesRow, StopHasReason,
        HandlersInOrder, ResultFollowsData, SettledHasReason,
        StoppedMeansCanceled, laneVars, agentVars, connVars, routerVars, flowVars
<1>1. CASE Admit
  <2>1. arrived = 0 /\ Last # 0
    BY <1>1, CreditAssumption DEF Admit, TypeOK
  <2>2. UNCHANGED <<slot, overflow, sent, arrived, queued, drained, cancel, fault, consumer>>
    BY <1>1, StreamStep DEF Admit
  <2>3. QED
    BY <1>1, <2>1, <2>2 DEF Admit
<1>2. CASE Refuse \/ ReplyToCaller
  BY <1>2, StreamStep DEF Refuse, ReplyToCaller
<1>3. CASE ReplyUnwanted
  BY <1>3, StreamStep
  DEF ReplyUnwanted, CancelForClient, CancelAdmitted, CancelRefused, Withdraw,
      SendCancel, StopLease
<1>4. CASE HandleClientGone
  BY <1>4, StreamStep
  DEF HandleClientGone, CancelForClient, CancelAdmitted, CancelRefused, Withdraw,
      SendCancel, StopLease
<1>5. CASE UserCancel
  BY <1>5, StreamStep
  DEF UserCancel, CancelAdmitted, Withdraw, SendCancel, StopLease
<1>6. CASE HandleResult
  BY <1>6, StreamStep
  DEF HandleResult, Take, Settle, RemoveFlow, Acknowledged, FailLease, FlowTypeOK
<1>7. CASE RouteLocalResult
  BY <1>7, StreamStep
  DEF RouteLocalResult, Settle, RemoveFlow, Acknowledged, FailLease
<1>8. CASE CloseStream
  BY <1>8, StreamStep DEF CloseStream
<1>9. CASE HandleViolation
  BY <1>9, StreamStep
  DEF HandleViolation, Take, CancelAdmitted, CancelRefused, Withdraw,
      SendCancel, FailLease, FlowTypeOK
<1>10. CASE HandleLost
  BY <1>10, StreamStep
  DEF HandleLost, Take, ReleaseConnection, RemoveFlow, FailLease, FlowTypeOK
<1>11. CASE Evict
  BY <1>11, StreamStep DEF Evict, ReleaseConnection, RemoveFlow, FailLease
<1>12. QED
  BY <1>1, <1>2, <1>3, <1>4, <1>5, <1>6, <1>7, <1>8, <1>9, <1>10, <1>11
  DEF RouterStep

\* Types, lanes and the reasons of a stop hold together in every reachable state.
LEMMA FlowInvariantsHold == FlowSpec => [](TypeOK /\ LaneInvariant /\ FlowTypeOK /\ StopInvariant)
<1>1. TypeOK /\ LaneInvariant /\ FlowTypeOK /\ StopInvariant /\ [FlowNext]_vars
        => StopInvariant'
  <2> SUFFICES ASSUME TypeOK, LaneInvariant, FlowTypeOK, StopInvariant, [FlowNext]_vars
               PROVE  StopInvariant'
    OBVIOUS
  <2>1. CASE UNCHANGED vars
    BY <2>1, StreamStep
    DEF vars, flowVars, laneVars, agentVars, connVars, routerVars,
        StopInvariant, StartingIsFresh, FlowMatchesRow, StopHasReason,
        HandlersInOrder, ResultFollowsData, SettledHasReason, StoppedMeansCanceled
  <2>2. QED
    BY <2>1, RouterKeepsStop, ConnectionKeepsStop, AgentKeepsStop, CallerKeepsStop
    DEF FlowNext
<1>2. FlowSpec => [](TypeOK /\ LaneInvariant /\ FlowTypeOK)
  <2>1. FlowInit => LaneInvariant
    BY DEF FlowInit, LaneInvariant
  <2>2. LaneInvariant /\ [FlowNext]_vars => LaneInvariant'
    BY StepKeepsLanes
  <2>3. FlowTypeOK => TypeOK
    BY DEF FlowTypeOK
  <2>4. QED
    BY <2>1, <2>2, <2>3, FlowTypeCorrect, PTL DEF FlowSpec
<1>3. QED
  BY <1>1, <1>2, InitStopInvariant, PTL DEF FlowSpec

\* A consumer that is still reading ends without an error only when the user
\* canceled: every failure of the agent, of its stream or of its connection is
\* stored before the consumer can see the stream end.
THEOREM StoppedAlwaysCanceled == FlowSpec => []StoppedMeansCanceled
<1>1. StopInvariant => StoppedMeansCanceled
  BY DEF StopInvariant
<1>2. QED
  BY <1>1, FlowInvariantsHold, PTL

-----------------------------------------------------------------------------
(* What a row that ended says is true, and stays *)

\* The reader's fault is stored before the router is told, and a stream that
\* failed while its flow still streams violated its credit.
ViolationIsKnown ==
  /\ \A i \in 1 .. Len(inbox) : inbox[i] = "violation" => violated
  /\ router = "starting" => ~fault
  /\ flow = "streaming" /\ row = "errored" => violated
  /\ flow = "streaming" /\ fault => violated \/ overflow
  /\ overflow => outcome # "ok" \/ result # "taken"

\* A consumer that reads no more read everything, was told why not, or left.
ReadToItsEnd ==
  /\ consumer = "failed" => fault
  /\ consumer = "complete" => queued = Last

LocalIsWithdrawn == router = "local" => ticket = "withdrawn"

EndInvariant == ViolationIsKnown /\ ReadToItsEnd /\ LocalIsWithdrawn /\ EndedRowIsTrue

\* Only the rest of a violating delivery makes a violation known.
LEMMA ViolationStep ==
  /\ (Deliver \/ Fail) => violated' = violated
  /\ CloseOverflowing => violated'
  BY DEF Drain, ObserveEnd, ReturnCredit, Acquire, Enqueue, SendWithoutCredit,
         CloseGate, ApplyGrant, Stop, Fail, CloseSlot, Abandon, Deliver,
         CloseOverflowing, creditVars, senderVars, readerVars, leaseVars,
         consumerVars, grantVars

\* What the invariant speaks of is the reader's, the owner's and the consumer's.
Unseen == UNCHANGED <<fault, overflow, violated, queued>>

LEMMA UnseenStep ==
  /\ (Drain \/ ObserveEnd \/ ReturnCredit \/ Abandon \/ Stop \/ CloseSlot) => Unseen
  /\ (Acquire \/ Enqueue \/ SendWithoutCredit \/ CloseGate \/ ApplyGrant) =>
       Unseen /\ consumer' = consumer
  /\ (Stop \/ Fail \/ CloseSlot) => consumer' = consumer
  /\ UNCHANGED creditVars => Unseen /\ consumer' = consumer
  BY DEF Drain, ObserveEnd, ReturnCredit, Acquire, Enqueue, SendWithoutCredit,
         CloseGate, ApplyGrant, Stop, Fail, CloseSlot, Abandon, creditVars, senderVars,
         readerVars, leaseVars, consumerVars, grantVars, Unseen

\* What a step outside the router must leave alone.
LEMMA EndStays ==
  ASSUME EndInvariant, UNCHANGED <<flow, row, router, registered>>,
         ReadToItsEnd',
         violated => violated',
         fault' => fault \/ overflow' \/ violated',
         router = "starting" => ~fault',
         overflow => overflow' \/ violated',
         overflow' => outcome' # "ok" \/ result' # "taken",
         \A i \in 1 .. Len(inbox') : inbox'[i] = "violation" => violated',
         queued = Last => queued' = Last,
         consumer = "gone" => consumer' = "gone",
         worker = "finished" => worker' = "finished",
         ticket = "withdrawn" => ticket' = "withdrawn",
         conn # "up" => conn' # "up"
  PROVE  EndInvariant'
<1>1. ViolationIsKnown'
  BY Zenon DEF EndInvariant, ViolationIsKnown
<1>2. LocalIsWithdrawn'
  BY DEF EndInvariant, LocalIsWithdrawn
<1>3. EndedRowIsTrue'
  BY DEF EndInvariant, EndedRowIsTrue
<1>4. QED
  BY <1>1, <1>2, <1>3 DEF EndInvariant

\* Nor does it matter what happens to a stream of which nothing shows.
LEMMA UnseenKeepsEnd ==
  ASSUME EndInvariant, UNCHANGED <<flow, row, router, registered, inbox>>,
         UNCHANGED <<fault, overflow, violated, queued>>,
         ReadToItsEnd', consumer = "gone" => consumer' = "gone",
         \/ UNCHANGED <<outcome, result>>
         \/ result' # "taken"
         \/ ~overflow,
         worker = "finished" => worker' = "finished",
         ticket = "withdrawn" => ticket' = "withdrawn",
         conn # "up" => conn' # "up"
  PROVE  EndInvariant'
<1>1. overflow' => outcome' # "ok" \/ result' # "taken"
  BY DEF EndInvariant, ViolationIsKnown
<1>2. \A i \in 1 .. Len(inbox') : inbox'[i] = "violation" => violated'
  BY DEF EndInvariant, ViolationIsKnown
<1>3. router = "starting" => ~fault'
  BY DEF EndInvariant, ViolationIsKnown
<1>4. QED
  BY <1>1, <1>2, <1>3, EndStays

LEMMA CallerKeepsEnd ==
  ASSUME TypeOK, EndInvariant, CallerStep
  PROVE  EndInvariant'
<1>1. UNCHANGED <<laneVars, agentVars, connVars, routerVars>>
  BY DEF CallerStep, CallerLeaves, TakeReply, LoseReply, ConsumerReads, ClientLeaves
<1>2. Unseen
  BY UnseenStep
  DEF CallerStep, CallerLeaves, TakeReply, LoseReply, ConsumerReads, ClientLeaves
<1>3. ReadToItsEnd' /\ (consumer = "gone" => consumer' = "gone")
  <2>1. CASE CallerLeaves \/ TakeReply \/ LoseReply \/ ClientLeaves
    <3>1. consumer' \in {consumer, "gone"}
      BY <2>1, StreamStep DEF CallerLeaves, TakeReply, LoseReply, ClientLeaves
    <3>2. QED
      BY <1>2, <3>1 DEF EndInvariant, ReadToItsEnd, Unseen
  <2>2. CASE ConsumerReads
    BY <1>2, <2>2
    DEF ConsumerReads, Drain, ObserveEnd, ReturnCredit, TypeOK, QueueLength,
        EndInvariant, ReadToItsEnd, Unseen
  <2>3. QED
    BY <2>1, <2>2 DEF CallerStep
<1>4. QED
  BY <1>1, <1>2, <1>3, UnseenKeepsEnd DEF Unseen, laneVars, agentVars, connVars, routerVars

LEMMA AgentKeepsEnd ==
  ASSUME TypeOK, LaneInvariant, EndInvariant, AgentStep
  PROVE  EndInvariant'
<1>1. /\ UNCHANGED <<connVars, routerVars, ticket>>
      /\ worker = "finished" => worker' = "finished"
      /\ UNCHANGED <<outcome, result>> \/ result' # "taken"
  <2>1. CASE ReceiveCommand
    BY <2>1, SocketFrames DEF ReceiveCommand, LaneInvariant
  <2>2. CASE ReceiveCancel
    BY <2>2 DEF ReceiveCancel
  <2>3. CASE WorkerCompletes \/ WorkerCanceled \/ WorkerFails \/ WorkerPanics
    <3>1. PICK answer \in {"ok", "canceled", "error"}, lane \in {"stream", "control"} :
             Answers(answer, lane)
      BY <2>3 DEF WorkerCompletes, WorkerCanceled, WorkerFails, WorkerPanics
    <3>2. QED
      BY <3>1 DEF Answers, laneVars
  <2>4. CASE WorkerSends \/ WorkerOverspends \/ DropWriter \/ AgentAppliesGrant
    BY <2>4
    DEF WorkerSends, WorkerOverspends, DropWriter, AgentAppliesGrant,
        flowVars, laneVars, agentVars
  <2>5. QED
    BY <2>1, <2>2, <2>3, <2>4 DEF AgentStep
<1>2. Unseen /\ consumer' = consumer
  BY UnseenStep
  DEF AgentStep, ReceiveCommand, ReceiveCancel, WorkerSends, WorkerOverspends,
      WorkerCompletes, WorkerCanceled, WorkerFails, WorkerPanics, Answers,
      DropWriter, AgentAppliesGrant
<1>3. ReadToItsEnd'
  BY <1>2 DEF EndInvariant, ReadToItsEnd, Unseen
<1>4. QED
  BY <1>1, <1>2, <1>3, UnseenKeepsEnd DEF Unseen, connVars, routerVars

LEMMA ConnectionKeepsEnd ==
  ASSUME TypeOK, FlowTypeOK, StopInvariant, EndInvariant, ConnectionStep
  PROVE  EndInvariant'
<1>1. /\ UNCHANGED <<routerVars, worker, outcome>>
      /\ ticket = "withdrawn" => ticket' = "withdrawn"
      /\ conn # "up" => conn' # "up"
  BY DEF ConnectionStep, DeliverRetained, WriteCancel, WriteCommand, ReadFrame,
         ReportViolation, ReadResult, Disconnect, SessionEnds, routerVars,
         agentVars, laneVars, connVars, flowVars
<1>2. CASE DeliverRetained \/ WriteCancel \/ WriteCommand \/ Disconnect
  <2>1. Unseen /\ consumer' = consumer /\ UNCHANGED <<inbox, result>>
    BY <1>2, UnseenStep
    DEF DeliverRetained, WriteCancel, WriteCommand, Disconnect, agentVars, connVars
  <2>2. ReadToItsEnd'
    BY <2>1 DEF EndInvariant, ReadToItsEnd, Unseen
  <2>3. QED
    BY <1>1, <2>1, <2>2, UnseenKeepsEnd DEF Unseen, routerVars
<1>3. CASE ReadResult \/ SessionEnds
  <2>1. Unseen /\ consumer' = consumer /\ ~overflow
    BY <1>3, UnseenStep DEF ReadResult, SessionEnds
  <2>2. ReadToItsEnd'
    BY <2>1 DEF EndInvariant, ReadToItsEnd, Unseen
  <2>3. \A i \in 1 .. Len(inbox') : inbox'[i] = "violation" => violated'
    <3>1. PICK m \in {"result", "lost"} : inbox' = Append(inbox, m)
      BY <1>3 DEF ReadResult, SessionEnds
    <3>2. QED
      BY <2>1, <3>1 DEF EndInvariant, ViolationIsKnown, FlowTypeOK, Unseen
  <2>4. router = "starting" => ~fault'
    BY <2>1 DEF EndInvariant, ViolationIsKnown, Unseen
  <2>5. QED
    BY <1>1, <2>1, <2>2, <2>3, <2>4, EndStays DEF Unseen, routerVars
<1>4. CASE ReadFrame
  <2>1. /\ UNCHANGED flowVars /\ violated' = violated /\ consumer' = consumer /\ ~overflow
        /\ fault' => fault \/ overflow'
        /\ fault => fault'
    BY <1>4 DEF ReadFrame, Deliver, consumerVars
  <2>2. queued = Last => queued' = Last
    BY <1>4 DEF ReadFrame, Deliver, TypeOK
  <2>3. overflow' => outcome' # "ok" \/ result' # "taken"
    <3>1. arrived < sent
      BY <1>4 DEF ReadFrame, Deliver
    <3>2. outcome # "ok" \/ result # "taken"
      BY <3>1 DEF TypeOK, StopInvariant, ResultFollowsData
    <3>3. QED
      BY <2>1, <3>2 DEF flowVars, agentVars
  <2>4. router = "starting" => ~fault'
    <3>1. router # "starting"
      BY <1>4 DEF ReadFrame, Deliver, TypeOK, StopInvariant, StartingIsFresh
    <3>2. QED
      BY <3>1
  <2>5. ReadToItsEnd'
    BY <2>1, <2>2 DEF EndInvariant, ReadToItsEnd, Unseen
  <2>6. \A i \in 1 .. Len(inbox') : inbox'[i] = "violation" => violated'
    BY <2>1 DEF EndInvariant, ViolationIsKnown, flowVars, connVars
  <2>7. QED
    BY <1>1, <2>1, <2>2, <2>3, <2>4, <2>5, <2>6, EndStays DEF Unseen, routerVars
<1>5. CASE ReportViolation
  <2>1. violated' /\ ~overflow' /\ UNCHANGED <<fault, queued, consumer>>
    BY <1>5, StreamStep, ViolationStep DEF ReportViolation
  <2>2. ReadToItsEnd'
    BY <2>1 DEF EndInvariant, ReadToItsEnd, Unseen
  <2>3. router = "starting" => ~fault'
    BY <2>1 DEF EndInvariant, ViolationIsKnown, Unseen
  <2>4. QED
    BY <1>1, <2>1, <2>2, <2>3, EndStays DEF Unseen, routerVars
<1>6. QED
  BY <1>2, <1>3, <1>4, <1>5 DEF ConnectionStep

\* What a step of the router must show.
LEMMA RouterStays ==
  ASSUME FlowTypeOK, EndInvariant,
         UNCHANGED <<violated, overflow, queued, consumer, worker, outcome, result>>,
         fault => fault',
         inbox' = inbox \/ (inbox # <<>> /\ inbox' = Tail(inbox)),
         router' # "starting",
         flow' = "streaming" => /\ row' = "errored" => violated
                                /\ fault' => violated \/ overflow,
         LocalIsWithdrawn', EndedRowIsTrue'
  PROVE  EndInvariant'
<1>1. \A i \in 1 .. Len(inbox') : inbox'[i] = "violation" => violated'
  BY DEF EndInvariant, ViolationIsKnown, FlowTypeOK
<1>2. ViolationIsKnown'
  BY <1>1 DEF EndInvariant, ViolationIsKnown
<1>3. ReadToItsEnd'
  BY DEF EndInvariant, ReadToItsEnd
<1>4. QED
  BY <1>2, <1>3 DEF EndInvariant

\* The stream while a handler of the router runs.
LEMMA LeaseStep ==
  ASSUME TypeOK, Stop \/ Fail \/ CloseSlot \/ StopLease \/ FailLease \/ UNCHANGED creditVars
  PROVE  UNCHANGED <<violated, overflow, queued, consumer>> /\ (fault => fault')
  BY DEF StopLease, FailLease, Stop, Fail, CloseSlot, TypeOK, creditVars, senderVars,
         readerVars, leaseVars, consumerVars, grantVars

\* A success completes the row after every frame was queued or the consumer left.
LEMMA SettleTellsTrue ==
  ASSUME TypeOK, StopInvariant, EndInvariant, Settle, worker' = worker,
         flow = "streaming" => result = "taken",
         flow = "canceling" => worker = "finished" \/ ticket' = "withdrawn",
         flow \in {"streaming", "canceling"}
  PROVE  EndedRowIsTrue'
<1>1. UNCHANGED <<violated, overflow, queued, consumer>>
  <2>1. FailLease \/ UNCHANGED creditVars
    BY DEF Settle
  <2>2. QED
    BY <2>1, LeaseStep
<1>2. ASSUME row' = "completed", ~violated PROVE queued = Last \/ consumer = "gone"
  <2>1. flow = "streaming" /\ outcome = "ok"
    BY <1>2 DEF Settle, Acknowledged, StopInvariant, FlowMatchesRow
  <2>2. arrived = Last /\ ~overflow
    BY <2>1 DEF StopInvariant, ResultFollowsData, EndInvariant, ViolationIsKnown
  <2>3. ~fault /\ ~cancel
    BY <1>2, <2>1, <2>2 DEF EndInvariant, ViolationIsKnown, StopInvariant, FlowMatchesRow
  <2>4. CASE consumer = "reading"
    BY <2>1, <2>2, <2>3, <2>4 DEF StopInvariant, SettledHasReason
  <2>5. CASE consumer = "stopped"
    BY <2>1, <2>5 DEF StopInvariant, StoppedMeansCanceled, FlowMatchesRow
  <2>6. CASE consumer \in {"failed", "complete", "gone"}
    BY <2>3, <2>6 DEF EndInvariant, ReadToItsEnd
  <2>7. QED
    BY <2>4, <2>5, <2>6 DEF TypeOK
<1>3. ASSUME row' = "canceled" PROVE worker = "finished" \/ ticket' = "withdrawn"
  <2>1. flow = "canceling"
    BY <1>3 DEF Settle
  <2>2. QED
    BY <2>1
<1>4. QED
  BY <1>1, <1>2, <1>3 DEF EndedRowIsTrue

LEMMA RouterKeepsEnd ==
  ASSUME TypeOK, FlowTypeOK, StopInvariant, EndInvariant, RouterStep
  PROVE  EndInvariant'
<1> USE DEF laneVars, agentVars, connVars, routerVars
<1>1. /\ UNCHANGED <<violated, overflow, queued, consumer, worker, outcome, result, conn>>
      /\ fault => fault'
  <2>1. UNCHANGED <<worker, outcome, result, conn>>
    BY DEF RouterStep, Admit, Refuse, ReplyToCaller, ReplyUnwanted, HandleClientGone,
           UserCancel, HandleResult, RouteLocalResult, CloseStream, HandleViolation,
           HandleLost, Evict
  <2>2. Stop \/ Fail \/ CloseSlot \/ StopLease \/ FailLease \/ UNCHANGED creditVars
    BY DEF RouterStep, Admit, Refuse, ReplyToCaller, ReplyUnwanted, HandleClientGone,
           UserCancel, HandleResult, RouteLocalResult, CloseStream, HandleViolation,
           HandleLost, Evict, CancelForClient, Settle, ReleaseConnection
  <2>3. QED
    BY <2>1, <2>2, LeaseStep
<1>2. inbox' = inbox \/ (inbox # <<>> /\ inbox' = Tail(inbox))
  BY DEF RouterStep, Admit, Refuse, ReplyToCaller, ReplyUnwanted, HandleClientGone,
         UserCancel, HandleResult, RouteLocalResult, CloseStream, HandleViolation,
         HandleLost, Evict, Take
<1>3. router' # "starting"
  BY DEF RouterStep, Admit, Refuse, ReplyToCaller, ReplyUnwanted, HandleClientGone,
         UserCancel, HandleResult, RouteLocalResult, CloseStream, HandleViolation,
         HandleLost, Evict, Take, CancelForClient, CancelAdmitted, CancelRefused,
         Withdraw, SendCancel, Settle, ReleaseConnection
<1>4. CASE Admit \/ Refuse \/ ReplyToCaller \/ CloseStream
  <2>1. flow' = "streaming" =>
          (row' = "errored" => violated) /\ (fault' => violated \/ overflow)
    BY <1>4, StreamStep
    DEF Admit, Refuse, ReplyToCaller, CloseStream, EndInvariant, ViolationIsKnown
  <2>2. LocalIsWithdrawn'
    BY <1>4 DEF Admit, Refuse, ReplyToCaller, CloseStream, LocalIsWithdrawn
  <2>3. EndedRowIsTrue'
    <3>1. row' = row \/ row' = "active"
      BY <1>4 DEF Admit, Refuse, ReplyToCaller, CloseStream
    <3>2. ticket = "withdrawn" => ticket' = "withdrawn"
      BY <1>4 DEF Admit, Refuse, ReplyToCaller, CloseStream, StopInvariant, StartingIsFresh
    <3>3. registered' = registered
      BY <1>4 DEF Admit, Refuse, ReplyToCaller, CloseStream
    <3>4. QED
      BY <1>1, <3>1, <3>2, <3>3 DEF EndInvariant, EndedRowIsTrue
  <2>4. QED
    BY <1>1, <1>2, <1>3, <2>1, <2>2, <2>3, RouterStays
<1>5. CASE ReplyUnwanted \/ HandleClientGone \/ UserCancel \/ HandleViolation
  <2>1. \/ CancelAdmitted /\ row' \in {"errored", "canceling"}
        \/ row' = row /\ fault' = fault /\ flow' = flow /\ ticket' = ticket /\ router' # "local"
        \/ row' = "errored" /\ flow' = flow /\ router' # "local" /\ violated
    <3>1. Head(inbox) = "violation" /\ inbox # <<>> => violated
      BY DEF EndInvariant, ViolationIsKnown, FlowTypeOK
    <3>2. CASE ReplyUnwanted \/ HandleClientGone
      BY <3>2
      DEF ReplyUnwanted, HandleClientGone, CancelForClient, CancelRefused,
          creditVars, leaseVars
    <3>3. CASE UserCancel
      BY <3>3 DEF UserCancel
    <3>4. CASE HandleViolation
      BY <3>1, <3>4 DEF HandleViolation, Take, CancelRefused, creditVars, leaseVars
    <3>5. QED
      BY <1>5, <3>2, <3>3, <3>4
  <2>2. CancelAdmitted => flow' = "canceling" /\ (router' = "local" => ticket' = "withdrawn")
    BY DEF CancelAdmitted, Withdraw, SendCancel
  <2>3. registered' = registered
    BY <1>5 DEF ReplyUnwanted, HandleClientGone, UserCancel, HandleViolation
  <2>4. flow' = "streaming" =>
          (row' = "errored" => violated) /\ (fault' => violated \/ overflow)
    BY <2>1, <2>2 DEF EndInvariant, ViolationIsKnown
  <2>5. LocalIsWithdrawn'
    BY <2>1, <2>2 DEF LocalIsWithdrawn
  <2>6. EndedRowIsTrue'
    BY <1>1, <2>1, <2>3 DEF EndInvariant, EndedRowIsTrue
  <2>7. QED
    BY <1>1, <1>2, <1>3, <2>4, <2>5, <2>6, RouterStays
<1>6. CASE (HandleResult \/ RouteLocalResult) /\ Settle /\ flow \in {"streaming", "canceling"}
  <2>1. flow' = "settled" /\ router' = "closing"
    BY <1>6 DEF Settle, RemoveFlow
  <2>2. /\ flow = "streaming" => result = "taken"
        /\ flow = "canceling" => worker = "finished" \/ ticket' = "withdrawn"
    <3>1. CASE HandleResult
      <4>1. inbox # <<>> /\ Head(inbox) = "result"
        BY <3>1 DEF HandleResult, Take
      <4>2. 1 \in 1 .. Len(inbox) /\ inbox[1] = "result"
        BY <4>1 DEF FlowTypeOK
      <4>3. QED
        BY <4>2 DEF StopInvariant, ResultFollowsData
    <3>2. CASE RouteLocalResult
      BY <3>2
      DEF RouteLocalResult, StopInvariant, HandlersInOrder, EndInvariant, LocalIsWithdrawn
    <3>3. QED
      BY <1>6, <3>1, <3>2
  <2>3. EndedRowIsTrue'
    BY <1>1, <1>6, <2>2, SettleTellsTrue
  <2>4. QED
    BY <1>1, <1>2, <1>3, <2>1, <2>3, RouterStays DEF LocalIsWithdrawn
<1>7. CASE (HandleLost \/ Evict) /\ ReleaseConnection
  <2>1. ~registered' /\ router' = "clearing" /\ ticket' = ticket
    BY <1>7 DEF HandleLost, Evict, ReleaseConnection
  <2>2. flow' = "streaming" => FALSE
    BY <1>7 DEF ReleaseConnection, RemoveFlow
  <2>3. row' = "completed" => row = "completed"
    BY <1>7 DEF ReleaseConnection
  <2>4. EndedRowIsTrue'
    BY <1>1, <2>1, <2>3 DEF EndInvariant, EndedRowIsTrue
  <2>5. QED
    BY <1>1, <1>2, <1>3, <2>1, <2>2, <2>4, RouterStays DEF LocalIsWithdrawn
<1>8. CASE (HandleResult \/ HandleLost) /\ UNCHANGED <<creditVars, flow, row, router, registered>>
  <2>1. ticket' = ticket /\ fault' = fault
    BY <1>8 DEF HandleResult, HandleLost, creditVars, leaseVars
  <2>2. flow' = "streaming" =>
          (row' = "errored" => violated) /\ (fault' => violated \/ overflow)
    BY <1>8, <2>1 DEF EndInvariant, ViolationIsKnown
  <2>3. LocalIsWithdrawn' /\ EndedRowIsTrue'
    BY <1>1, <1>8, <2>1 DEF EndInvariant, LocalIsWithdrawn, EndedRowIsTrue
  <2>4. QED
    BY <1>1, <1>2, <1>3, <2>2, <2>3, RouterStays
<1>9. QED
  BY <1>4, <1>5, <1>6, <1>7, <1>8
  DEF RouterStep, HandleResult, RouteLocalResult, HandleLost, Evict, StopInvariant,
      HandlersInOrder

LEMMA EndInvariantHolds == FlowSpec => []EndInvariant
<1>1. FlowInit => EndInvariant
  BY DEF FlowInit, CreditInit, EndInvariant, ViolationIsKnown, ReadToItsEnd,
         LocalIsWithdrawn, EndedRowIsTrue
<1>2. /\ TypeOK /\ LaneInvariant /\ FlowTypeOK /\ StopInvariant
      /\ EndInvariant /\ [FlowNext]_vars
      => EndInvariant'
  <2> SUFFICES ASSUME TypeOK, LaneInvariant, FlowTypeOK, StopInvariant, EndInvariant,
                      [FlowNext]_vars
               PROVE  EndInvariant'
    OBVIOUS
  <2>1. CASE UNCHANGED vars
    BY <2>1
    DEF vars, flowVars, creditVars, readerVars, leaseVars, consumerVars, laneVars,
        agentVars, connVars, routerVars, EndInvariant, ViolationIsKnown, ReadToItsEnd,
        LocalIsWithdrawn, EndedRowIsTrue
  <2>2. QED
    BY <2>1, RouterKeepsEnd, ConnectionKeepsEnd, AgentKeepsEnd, CallerKeepsEnd
    DEF FlowNext
<1>3. QED
  BY <1>1, <1>2, FlowInvariantsHold, PTL DEF FlowSpec

\* A row says Completed only when every frame was queued for its consumer, and
\* Canceled only when no worker can be running for it.
THEOREM EndedRowIsAlwaysTrue == FlowSpec => []EndedRowIsTrue
<1>1. EndInvariant => EndedRowIsTrue
  BY DEF EndInvariant
<1>2. QED
  BY <1>1, EndInvariantHolds, PTL

\* Only the router writes rows, and it leaves one that ended alone: its flow is
\* settled or canceling, unless its stream violated its credit.
LEMMA RowEndsOnce ==
  ASSUME FlowTypeOK, StopInvariant, EndInvariant, [FlowNext]_vars,
         \/ row \in {"canceled", "completed"}
         \/ row = "errored" /\ ~violated
  PROVE  row' = row
<1> USE DEF laneVars, agentVars, connVars, routerVars, flowVars
<1>1. flow = "settled" \/ (flow = "canceling" /\ row = "errored")
  BY DEF StopInvariant, FlowMatchesRow, EndInvariant, ViolationIsKnown
<1>2. router \notin {"starting", "replying"}
  BY <1>1 DEF StopInvariant, StartingIsFresh, HandlersInOrder
<1>3. CASE RouterStep
  <2>1. CASE Admit \/ Refuse \/ ReplyToCaller \/ ReplyUnwanted
    BY <1>2, <2>1 DEF Admit, Refuse, ReplyToCaller, ReplyUnwanted
  <2>2. CASE HandleClientGone \/ UserCancel \/ CloseStream \/ HandleViolation
    BY <1>1, <2>2 DEF HandleClientGone, UserCancel, CloseStream, HandleViolation
  <2>3. CASE HandleResult \/ RouteLocalResult
    <3>1. CASE Settle
      BY <1>1, <2>3, <3>1
      DEF HandleResult, RouteLocalResult, Settle, Acknowledged, StopInvariant, HandlersInOrder
    <3>2. CASE ~Settle
      BY <2>3, <3>2 DEF HandleResult, RouteLocalResult
    <3>3. QED
      BY <3>1, <3>2
  <2>4. CASE HandleLost \/ Evict
    BY <1>1, <2>4 DEF HandleLost, Evict, ReleaseConnection
  <2>5. QED
    BY <1>3, <2>1, <2>2, <2>3, <2>4 DEF RouterStep
<1>4. CASE ConnectionStep
  BY <1>4
  DEF ConnectionStep, DeliverRetained, WriteCancel, WriteCommand, ReadFrame,
      ReportViolation, ReadResult, Disconnect, SessionEnds
<1>5. CASE AgentStep
  BY <1>5
  DEF AgentStep, ReceiveCommand, ReceiveCancel, WorkerSends, WorkerOverspends,
      WorkerCompletes, WorkerCanceled, WorkerFails, WorkerPanics, Answers,
      DropWriter, AgentAppliesGrant
<1>6. CASE CallerStep
  BY <1>6
  DEF CallerStep, CallerLeaves, TakeReply, LoseReply, ConsumerReads, ClientLeaves
<1>7. CASE UNCHANGED vars
  BY <1>7 DEF vars
<1>8. QED
  BY <1>3, <1>4, <1>5, <1>6, <1>7 DEF FlowNext

\* History is final whatever results, losses and cancels arrive late.
THEOREM TerminalRowAlwaysStays == FlowSpec => TerminalRowStays
<1> DEFINE Kept == \/ row \in {"canceled", "completed"}
                   \/ row = "errored" /\ ~violated
                   => row' = row
<1>1. FlowTypeOK /\ StopInvariant /\ EndInvariant /\ [FlowNext]_vars => [Kept]_row
  BY RowEndsOnce
<1>2. QED
  BY <1>1, FlowInvariantsHold, EndInvariantHolds, PTL DEF FlowSpec, TerminalRowStays
=============================================================================
