--------------------------- MODULE UploadFlowProofs ---------------------------
(***************************************************************************)
(* What holds of every upload and edit: its publication keeps the promise  *)
(* of Publication, and its caller is told the truth.                       *)
(***************************************************************************)
EXTENDS UploadFlow, SequenceTheorems, TLAPS

-----------------------------------------------------------------------------
(* The inductive invariant *)

\* The router's verdict allows the destination to change.
Accepted == decision = "allowed" \/ (kind = "edit" /\ finAt # "none")

\* The router turned to ending the transfer before any verdict.
Refused == ~Accepted /\ flow \in {"canceling", "settled"}

\* The destination was not changed and never will be.
NeverPublishes == ~published /\ (worker = "finished" \/ Refused)

\* The flow, its row and the flags that guard the boundary.
FlowAndRow ==
  /\ kind \in {"replace", "edit"}
  /\ flow \in {"none", "settled", "canceling"} \cup Unfinished
  /\ flow \in {"none", "awaitingReady", "streaming"} => ~Accepted
  /\ flow = "none" <=> row = "none"
  /\ flow \in Unfinished => row = "active"
  /\ flow = "canceling" => row = (IF explicit THEN "canceling" ELSE "errored")
  /\ flow = "settled" => row \in Ended
  /\ flow \in {"none", "committing", "publishing"} => ~cancelable
  /\ explicit => Refused

\* A worker publishes only what was accepted, and ends with what it did.
WorkerAndFile ==
  /\ worker \in {"absent", "finished"} \cup Live
  /\ published => worker = "finished" /\ Accepted
  /\ worker = "publishing" => Accepted
  /\ worker = "finished" <=> outcome # "none"
  /\ outcome \in {"none", "ok", "error", "canceled"}
  /\ outcome = "ok" => published
  /\ outcome = "canceled" => ~published

Has(sequence, message) == \E i \in DOMAIN sequence : sequence[i] = message

Once(sequence, message) ==
  \A i, j \in DOMAIN sequence : sequence[i] = message /\ sequence[j] = message => i = j

\* The worker asks for its publication once and is answered once; its result
\* is the last thing it does.
Messages ==
  /\ fromAgent \in Seq({"ready", "publish", "result"})
  /\ inbox \in Seq({"ready", "publish", "result", "lost"})
  /\ Has(fromAgent, "result") \/ Has(inbox, "result") => worker = "finished"
  /\ Has(fromAgent, "publish") \/ Has(inbox, "publish") => decision = "none"
  /\ Has(fromAgent, "publish") \/ Has(inbox, "publish") \/ decision # "none" =>
       worker \in {"asking", "publishing", "finished"}
  /\ Has(fromAgent, "publish") => ~Has(inbox, "publish")
  /\ Once(fromAgent, "publish") /\ Once(inbox, "publish")

\* What the producer still has to say.
ProducerSays ==
  /\ httpbox \in {<<>>, <<"cancel">>, <<"failed">>, <<"failed", "cancel">>, <<"commit">>}
  /\ httpbox = <<"commit">> => kind = "edit" /\ producer \in {"committing", "ended"}
  /\ httpbox \in {<<"cancel">>, <<"failed">>, <<"failed", "cancel">>} => producer = "ended"

\* What the producer was told, or is about to be.
CallerInvariant ==
  /\ readiness = "ok" \/ completion = "ok" \/ told = "ok" => published
  /\ readiness = "canceled" \/ completion = "canceled" =>
       producer = "ended" \/ NeverPublishes
  /\ told = "canceled" => NeverPublishes
  /\ flow = "canceling" /\ Accepted => producer = "ended"

UploadInvariant ==
  FlowAndRow /\ WorkerAndFile /\ Messages /\ ProducerSays /\ CallerInvariant
-----------------------------------------------------------------------------
(* Messages in a queue *)

\* What is taken from a queue was in it, and is gone when it was there once.
LEMMA Taken ==
  ASSUME NEW S, NEW s \in Seq(S), s # <<>>, NEW m
  PROVE  /\ Tail(s) \in Seq(S)
         /\ Has(s, Head(s))
         /\ Has(Tail(s), m) => Has(s, m)
         /\ Once(s, m) => Once(Tail(s), m)
         /\ Once(s, m) /\ Head(s) = m => ~Has(Tail(s), m)
<1>1. /\ Tail(s) \in Seq(S) /\ 1 \in DOMAIN s /\ Head(s) = s[1]
      /\ \A i \in DOMAIN Tail(s) :
           i \in Nat /\ i >= 1 /\ i + 1 \in DOMAIN s /\ Tail(s)[i] = s[i + 1]
  OBVIOUS
<1>2. QED
  BY <1>1 DEF Has, Once

\* What is in a queue was in it before or has just been added.
LEMMA Added ==
  ASSUME NEW S, NEW s \in Seq(S), NEW e \in S, NEW m
  PROVE  /\ Append(s, e) \in Seq(S)
         /\ Has(Append(s, e), m) => Has(s, m) \/ e = m
         /\ Once(s, m) /\ (e = m => ~Has(s, m)) => Once(Append(s, e), m)
<1>1. /\ Append(s, e) \in Seq(S)
      /\ \A i \in DOMAIN Append(s, e) :
           \/ i \in DOMAIN s /\ Append(s, e)[i] = s[i]
           \/ i = Len(s) + 1 /\ Append(s, e)[i] = e
  OBVIOUS
<1>2. QED
  BY <1>1 DEF Has, Once

-----------------------------------------------------------------------------
(* The invariant holds *)

\* An upload that has not been admitted satisfies the invariant.
LEMMA UploadStarts == UploadInit => UploadInvariant
<1> SUFFICES ASSUME UploadInit PROVE UploadInvariant
  OBVIOUS
<1>1. FlowAndRow /\ WorkerAndFile /\ ProducerSays /\ CallerInvariant
  BY DEF UploadInit, FlowAndRow, WorkerAndFile, ProducerSays, CallerInvariant,
         Accepted, Refused, NeverPublishes, Unfinished, Live
<1>2. Messages
  BY DEF UploadInit, Messages, Has, Once
<1>3. QED
  BY <1>1, <1>2 DEF UploadInvariant

LEMMA FlowAndRowKept ==
  UploadInvariant /\ [UploadNext]_vars => FlowAndRow'
<1> SUFFICES ASSUME UploadInvariant, [UploadNext]_vars PROVE FlowAndRow'
  OBVIOUS
<1> USE DEF FlowAndRow, Accepted, Refused, Unfinished, Ended, httpVars, routerVars, laneVars,
            agentVars
<1> FlowAndRow /\ WorkerAndFile /\ ProducerSays
  BY DEF UploadInvariant
<1>a. inbox # <<>> /\ Head(inbox) = "result" => outcome \in {"ok", "error", "canceled"}
  BY Taken DEF UploadInvariant, Messages, WorkerAndFile
<1>b. inbox # <<>> /\ Head(inbox) = "publish" => decision = "none"
  BY Taken DEF UploadInvariant, Messages
<1>1. CASE RouterStep
  <2>1. CASE Admit
    BY <2>1 DEF Admit
  <2>2. CASE AdmitUnwanted
    BY <2>2 DEF AdmitUnwanted
  <2>3. CASE UserCancel
    BY <2>3 DEF UserCancel, CancelUpload, WithdrawUpload, SendCancel, CancelUndelivered, Release
  <2>4. CASE HandleCancelTransfer
    BY <2>4 DEF HandleCancelTransfer, CancelTransfer, CancelForProducer, CancelUpload,
                WithdrawUpload, SendCancel, CancelUndelivered, Release
  <2>5. CASE HandleOutboundFailed
    BY <2>5 DEF HandleOutboundFailed, AbandonUpload, SendCancel, Release
  <2>6. CASE HandleCommit
    BY <2>6 DEF HandleCommit, FromProducer, ProducerSays
  <2>7. CASE TaskSendsTerminal
    BY <2>7 DEF TaskSendsTerminal
  <2>8. CASE HandleReady
    BY <2>8 DEF HandleReady, CancelForProducer, CancelUpload,
                WithdrawUpload, SendCancel, CancelUndelivered, Release
  <2>9. CASE HandlePublishRequest
    BY <2>9, <1>b DEF HandlePublishRequest, FromSession, Authorize, Authorizable
  <2>10. CASE HandleResult
    BY <2>10, <1>a DEF HandleResult, FromSession, Settle, Answer, Release
  <2>11. CASE HandleLost \/ Evict
    BY <2>11 DEF HandleLost, Evict, LoseConnection, Release
  <2>12. CASE DropStale
    BY <2>12 DEF DropStale
  <2>13. QED
    BY <1>1, <2>1, <2>2, <2>3, <2>4, <2>5, <2>6, <2>7, <2>8, <2>9, <2>10, <2>11, <2>12
    DEF RouterStep
<1>2. CASE ConnectionStep
  BY <1>2 DEF ConnectionStep, WriteCommand, WriteCancel, WriteDecision, ReadFrame,
              Disconnect, SessionEnds
<1>3. CASE AgentStep
  <2>1. /\ UNCHANGED <<kind, routerVars, decision>>
        /\ finAt' = "none" <=> finAt = "none"
    BY <1>3 DEF AgentStep, Spawn, ReceiveCancel, AgentLosesConnection, ReceiveTerminal,
                AnnounceReady, WorkerFails, WorkerCanceled, CompleteBody, TakeTerminal,
                ReceiveDecision, GiveUpAsking, Publish, PublishFails
  <2>2. QED
    BY <2>1
<1>4. CASE ProducerStep
  BY <1>4 DEF ProducerStep, ProducerLeavesEarly, TakeReply, TakeReadiness,
              ProducerGivesUp, BodyTooLong, ReportBodyTooLong, ForwardFails,
              SendTerminal, CommitEdit, TakeCompletion, CommitterLeaves, Producer
<1>5. CASE UNCHANGED vars
  BY <1>5 DEF vars
<1>6. QED
  BY <1>1, <1>2, <1>3, <1>4, <1>5 DEF UploadNext

\* A verdict is final: nothing the router or the producer does takes it back.
LEMMA VerdictStays ==
  UploadInvariant /\ [UploadNext]_vars =>
    /\ UNCHANGED kind
    /\ Accepted => Accepted'
    /\ Refused => Refused'
<1> SUFFICES ASSUME UploadInvariant, [UploadNext]_vars
             PROVE UNCHANGED kind /\ (Accepted => Accepted') /\ (Refused => Refused')
  OBVIOUS
<1> USE DEF Accepted, Refused, Unfinished, httpVars, routerVars, laneVars, agentVars
<1> FlowAndRow /\ WorkerAndFile /\ ProducerSays
  BY DEF UploadInvariant
<1>b. inbox # <<>> /\ Head(inbox) = "publish" => decision = "none"
  BY Taken DEF UploadInvariant, Messages
<1>1. CASE RouterStep
  <2>1. CASE HandlePublishRequest
    BY <2>1, <1>b DEF HandlePublishRequest, FromSession, Authorize, Authorizable
  <2>2. CASE HandleCommit \/ TaskSendsTerminal
    BY <2>2 DEF HandleCommit, TaskSendsTerminal
  <2>3. CASE HandleResult \/ HandleLost \/ Evict \/ DropStale
    BY <2>3 DEF HandleResult, Settle, Release, HandleLost, Evict, LoseConnection, DropStale
  <2>4. CASE Admit \/ AdmitUnwanted \/ UserCancel
    BY <2>4 DEF Admit, AdmitUnwanted, UserCancel, CancelUpload, WithdrawUpload,
                SendCancel, CancelUndelivered, Release
  <2>5. CASE HandleCancelTransfer \/ HandleOutboundFailed \/ HandleReady
    BY <2>5 DEF HandleCancelTransfer, CancelTransfer, CancelForProducer, CancelUpload,
                WithdrawUpload, SendCancel, CancelUndelivered, Release,
                HandleOutboundFailed, AbandonUpload, HandleReady
  <2>6. QED
    BY <1>1, <2>1, <2>2, <2>3, <2>4, <2>5 DEF RouterStep
<1>2. CASE ConnectionStep
  BY <1>2 DEF ConnectionStep, WriteCommand, WriteCancel, WriteDecision, ReadFrame,
              Disconnect, SessionEnds
<1>3. CASE AgentStep
  <2>1. /\ UNCHANGED <<kind, routerVars, decision>>
        /\ finAt' = "none" <=> finAt = "none"
    BY <1>3 DEF AgentStep, Spawn, ReceiveCancel, AgentLosesConnection, ReceiveTerminal,
                AnnounceReady, WorkerFails, WorkerCanceled, CompleteBody, TakeTerminal,
                ReceiveDecision, GiveUpAsking, Publish, PublishFails
  <2>2. QED
    BY <2>1
<1>4. CASE ProducerStep
  BY <1>4 DEF ProducerStep, ProducerLeavesEarly, TakeReply, TakeReadiness,
              ProducerGivesUp, BodyTooLong, ReportBodyTooLong, ForwardFails,
              SendTerminal, CommitEdit, TakeCompletion, CommitterLeaves, Producer
<1>5. CASE UNCHANGED vars
  BY <1>5 DEF vars
<1>6. QED
  BY <1>1, <1>2, <1>3, <1>4, <1>5 DEF UploadNext

\* Only the agent's own steps change what its worker is and did.
LEMMA OthersLeaveTheWorker ==
  RouterStep \/ ConnectionStep \/ ProducerStep \/ UNCHANGED vars =>
    UNCHANGED <<worker, outcome, published>>
<1>1. RouterStep => UNCHANGED <<worker, outcome, published>>
  BY DEF RouterStep, Admit, AdmitUnwanted, UserCancel, HandleCancelTransfer,
         HandleOutboundFailed, HandleCommit, TaskSendsTerminal, HandleReady,
         HandlePublishRequest, HandleResult, HandleLost, LoseConnection, DropStale,
         Evict, agentVars
<1>2. ConnectionStep => UNCHANGED <<worker, outcome, published>>
  BY DEF ConnectionStep, WriteCommand, WriteCancel, WriteDecision, ReadFrame,
         Disconnect, SessionEnds, agentVars
<1>3. ProducerStep => UNCHANGED <<worker, outcome, published>>
  BY DEF ProducerStep, ProducerLeavesEarly, TakeReply, TakeReadiness,
         ProducerGivesUp, BodyTooLong, ReportBodyTooLong, ForwardFails,
         SendTerminal, CommitEdit, TakeCompletion, CommitterLeaves, Producer, agentVars
<1>4. QED
  BY <1>1, <1>2, <1>3 DEF vars, agentVars

LEMMA WorkerAndFileKept ==
  UploadInvariant /\ [UploadNext]_vars => WorkerAndFile'
<1> SUFFICES ASSUME UploadInvariant, [UploadNext]_vars PROVE WorkerAndFile'
  OBVIOUS
<1> USE DEF WorkerAndFile, Live
<1>1. WorkerAndFile /\ (Accepted => Accepted')
  BY VerdictStays DEF UploadInvariant
<1>2. CASE AgentStep
  <2>1. CASE CompleteBody
    BY <1>1, <2>1 DEF CompleteBody, TakeTerminal, Accepted
  <2>2. CASE ReceiveDecision
    BY <1>1, <2>2 DEF ReceiveDecision, Finish, Accepted
  <2>3. CASE Publish \/ PublishFails
    BY <1>1, <2>3 DEF Publish, PublishFails, Finish
  <2>4. CASE Spawn
    BY <1>1, <2>4 DEF Spawn
  <2>7. CASE ReceiveCancel \/ AgentLosesConnection \/ ReceiveTerminal
    <3>1. UNCHANGED <<worker, outcome, published>>
      BY <2>7 DEF ReceiveCancel, AgentLosesConnection, ReceiveTerminal, agentVars
    <3>2. QED
      BY <1>1, <3>1
  <2>5. CASE AnnounceReady \/ WorkerFails \/ WorkerCanceled \/ GiveUpAsking
    BY <1>1, <2>5 DEF AnnounceReady, WorkerFails, WorkerCanceled, CancelWins,
                      GiveUpAsking, Finish
  <2>6. QED
    BY <1>2, <2>1, <2>2, <2>3, <2>4, <2>5, <2>7 DEF AgentStep
<1>3. CASE UNCHANGED <<worker, outcome, published>>
  BY <1>1, <1>3
<1>4. QED
  BY <1>2, <1>3, OthersLeaveTheWorker DEF UploadNext

LEMMA ProducerSaysKept ==
  UploadInvariant /\ [UploadNext]_vars => ProducerSays'
<1> SUFFICES ASSUME UploadInvariant, [UploadNext]_vars PROVE ProducerSays'
  OBVIOUS
<1> USE DEF ProducerSays, httpVars, routerVars, laneVars, agentVars
<1>0. ProducerSays
  BY DEF UploadInvariant
<1>1. CASE RouterStep
  <2>1. CASE HandleCancelTransfer \/ HandleOutboundFailed \/ HandleCommit
    <3>1. httpbox' = Tail(httpbox) /\ httpbox # <<>> /\ UNCHANGED <<kind, producer>>
      BY <2>1 DEF HandleCancelTransfer, HandleOutboundFailed, HandleCommit, FromProducer
    <3>2. /\ Tail(<<"cancel">>) = <<>> /\ Tail(<<"failed">>) = <<>>
          /\ Tail(<<"commit">>) = <<>> /\ Tail(<<"failed", "cancel">>) = <<"cancel">>
      OBVIOUS
    <3>3. CASE httpbox = <<"failed", "cancel">>
      <4>1. httpbox' = <<"cancel">> /\ producer' = "ended"
        BY <1>0, <3>1, <3>2, <3>3
      <4>2. <<"cancel">> # <<"commit">>
        OBVIOUS
      <4>3. QED
        BY <4>1, <4>2
    <3>4. CASE httpbox \in {<<"cancel">>, <<"failed">>, <<"commit">>}
      <4>1. httpbox' = <<>>
        BY <3>1, <3>2, <3>4
      <4>2. <<>> # <<"cancel">> /\ <<>> # <<"failed">> /\ <<>> # <<"commit">>
            /\ <<>> # <<"failed", "cancel">>
        OBVIOUS
      <4>3. QED
        BY <4>1, <4>2
    <3>5. QED
      BY <1>0, <3>1, <3>3, <3>4
  <2>2. CASE UNCHANGED <<kind, httpbox>> /\ (producer' = producer \/ producer = "waiting")
    BY <1>0, <2>2
  <2>3. QED
    BY <1>0, <1>1, <2>1, <2>2
    DEF RouterStep, Admit, AdmitUnwanted, UserCancel, TaskSendsTerminal, HandleReady,
        HandlePublishRequest, HandleResult, HandleLost, LoseConnection, DropStale, Evict
<1>2. CASE ConnectionStep
  BY <1>0, <1>2 DEF ConnectionStep, WriteCommand, WriteCancel, WriteDecision, ReadFrame,
                    Disconnect, SessionEnds
<1>3. CASE AgentStep
  BY <1>0, <1>3
  DEF AgentStep, Spawn, ReceiveCancel, AgentLosesConnection, ReceiveTerminal,
      AnnounceReady, WorkerFails, WorkerCanceled, CompleteBody, TakeTerminal,
      ReceiveDecision, GiveUpAsking, Publish, PublishFails
<1>4. CASE ProducerStep
  <2>1. /\ <<>> \o <<>> = <<>> /\ <<>> \o <<"cancel">> = <<"cancel">>
        /\ <<>> \o <<"failed">> = <<"failed">> /\ <<>> \o <<"commit">> = <<"commit">>
        /\ <<>> \o <<"failed", "cancel">> = <<"failed", "cancel">>
        /\ \A box \in {<<>>, <<"cancel">>, <<"failed">>, <<"failed", "cancel">>,
                        <<"commit">>} : box \o <<>> = box
    OBVIOUS
  <2>2. CASE ProducerLeavesEarly \/ TakeReply \/ TakeReadiness \/ BodyTooLong
             \/ SendTerminal \/ TakeCompletion \/ CommitterLeaves
    BY <1>0, <2>1, <2>2 DEF ProducerLeavesEarly, TakeReply, TakeReadiness, BodyTooLong,
         SendTerminal, TakeCompletion, CommitterLeaves, Producer
  <2>3. CASE ProducerGivesUp \/ ReportBodyTooLong \/ ForwardFails \/ CommitEdit
    BY <1>0, <2>1, <2>3 DEF ProducerGivesUp, ReportBodyTooLong, ForwardFails, CommitEdit,
         Producer
  <2>4. QED
    BY <1>4, <2>2, <2>3 DEF ProducerStep
<1>5. CASE UNCHANGED vars
  BY <1>0, <1>5 DEF vars
<1>6. QED
  BY <1>1, <1>2, <1>3, <1>4, <1>5 DEF UploadNext

Asked == {"asking", "publishing", "finished"}

\* A worker does not go back before its request, and ends once.
LEMMA WorkerGoesOn ==
  UploadInvariant /\ [UploadNext]_vars =>
    /\ worker \in Asked => worker' \in Asked
    /\ worker = "finished" => UNCHANGED <<worker, outcome, published>>
<1> SUFFICES ASSUME UploadInvariant, [UploadNext]_vars
             PROVE /\ worker \in Asked => worker' \in Asked
                   /\ worker = "finished" => UNCHANGED <<worker, outcome, published>>
  OBVIOUS
<1>1. CASE AgentStep
  BY <1>1
  DEF AgentStep, Spawn, ReceiveCancel, AgentLosesConnection, ReceiveTerminal,
      AnnounceReady, WorkerFails, WorkerCanceled, CancelWins, CompleteBody, TakeTerminal,
      ReceiveDecision, GiveUpAsking, Publish, PublishFails, Finish, Asked, agentVars
<1>2. QED
  BY <1>1, OthersLeaveTheWorker DEF UploadNext

LEMMA MessagesKept ==
  UploadInvariant /\ [UploadNext]_vars => Messages'
<1> SUFFICES ASSUME UploadInvariant, [UploadNext]_vars PROVE Messages'
  OBVIOUS
<1> DEFINE Frames == {"ready", "publish", "result"}
           Notes == {"ready", "publish", "result", "lost"}
<1>0. Messages /\ WorkerAndFile
  BY DEF UploadInvariant
<1>1. fromAgent # <<>> =>
        /\ Tail(fromAgent) \in Seq(Frames) /\ Head(fromAgent) \in Frames
        /\ Has(fromAgent, Head(fromAgent))
        /\ \A m \in Frames :
             /\ Has(Tail(fromAgent), m) => Has(fromAgent, m)
             /\ Once(fromAgent, m) => Once(Tail(fromAgent), m)
             /\ Once(fromAgent, m) /\ Head(fromAgent) = m => ~Has(Tail(fromAgent), m)
  BY <1>0, Taken DEF Messages
<1>2. inbox # <<>> =>
        /\ Tail(inbox) \in Seq(Notes)
        /\ Has(inbox, Head(inbox))
        /\ \A m \in Notes :
             /\ Has(Tail(inbox), m) => Has(inbox, m)
             /\ Once(inbox, m) => Once(Tail(inbox), m)
             /\ Once(inbox, m) /\ Head(inbox) = m => ~Has(Tail(inbox), m)
  BY <1>0, Taken DEF Messages
<1>3. \A e \in Frames : \A m \in Frames :
        /\ Append(fromAgent, e) \in Seq(Frames)
        /\ Has(Append(fromAgent, e), m) => Has(fromAgent, m) \/ e = m
        /\ Once(fromAgent, m) /\ (e = m => ~Has(fromAgent, m)) => Once(Append(fromAgent, e), m)
  BY <1>0, Added DEF Messages
<1>4. \A e \in Notes : \A m \in Notes :
        /\ Append(inbox, e) \in Seq(Notes)
        /\ Has(Append(inbox, e), m) => Has(inbox, m) \/ e = m
        /\ Once(inbox, m) /\ (e = m => ~Has(inbox, m)) => Once(Append(inbox, e), m)
  BY <1>0, Added DEF Messages
<1> HIDE DEF Frames, Notes
<1>5. "ready" \in Frames /\ "publish" \in Frames /\ "result" \in Frames
      /\ Frames \subseteq Notes /\ "lost" \in Notes /\ "publish" \in Notes
      /\ "result" \in Notes
  BY DEF Frames, Notes
<1>6. Messages' = ( /\ fromAgent' \in Seq(Frames) /\ inbox' \in Seq(Notes)
                    /\ Has(fromAgent', "result") \/ Has(inbox', "result") =>
                         worker' = "finished"
                    /\ Has(fromAgent', "publish") \/ Has(inbox', "publish") =>
                         decision' = "none"
                    /\ Has(fromAgent', "publish") \/ Has(inbox', "publish")
                         \/ decision' # "none" =>
                         worker' \in {"asking", "publishing", "finished"}
                    /\ Has(fromAgent', "publish") => ~Has(inbox', "publish")
                    /\ Once(fromAgent', "publish") /\ Once(inbox', "publish"))
  BY DEF Messages, Frames, Notes, Has, Once
<1>7. /\ worker \in Asked => worker' \in Asked
      /\ worker = "finished" => worker' = "finished"
  BY WorkerGoesOn
<1>8. CASE UNCHANGED <<fromAgent, inbox, decision>>
  BY <1>0, <1>6, <1>7, <1>8 DEF Messages, Asked, Frames, Notes
<1>9. CASE /\ inbox # <<>> /\ inbox' = Tail(inbox)
           /\ UNCHANGED <<fromAgent, worker>>
           /\ decision' = decision \/ (Head(inbox) = "publish" /\ decision' # "none")
  BY <1>0, <1>2, <1>5, <1>6, <1>7, <1>9 DEF Messages, Frames
<1>10. CASE ReadFrame
  BY <1>0, <1>1, <1>4, <1>5, <1>6, <1>10
  DEF Messages, ReadFrame, laneVars, agentVars, Notes, Frames
<1>11. CASE SessionEnds
  BY <1>0, <1>4, <1>5, <1>6, <1>11
  DEF Messages, SessionEnds, laneVars, agentVars, Notes, Frames
<1>12. ASSUME NEW m \in Frames, Send(m), UNCHANGED <<inbox, decision>>,
              m = "result" => worker' = "finished",
              m = "publish" => worker = "staging" /\ worker' = "asking"
       PROVE Messages'
  <2>1. CASE fromAgent' = fromAgent
    BY <1>8, <1>12, <2>1
  <2>2. CASE fromAgent' = Append(fromAgent, m)
    BY <1>0, <1>3, <1>5, <1>6, <1>7, <1>12, <2>2
    DEF Messages, Asked, Notes, Frames
  <2>3. QED
    BY <1>12, <2>1, <2>2 DEF Send
<1>13. CASE RouterStep
  <2>1. CASE Admit \/ AdmitUnwanted \/ UserCancel \/ HandleCancelTransfer
             \/ HandleOutboundFailed \/ HandleCommit \/ TaskSendsTerminal \/ Evict
    BY <1>8, <2>1 DEF Admit, AdmitUnwanted, UserCancel, HandleCancelTransfer,
         HandleOutboundFailed, HandleCommit, TaskSendsTerminal, Evict, LoseConnection,
         laneVars, agentVars
  <2>2. CASE HandleReady \/ HandlePublishRequest \/ HandleResult \/ HandleLost \/ DropStale
    BY <1>9, <2>2 DEF HandleReady, HandlePublishRequest, HandleResult, HandleLost,
         LoseConnection, DropStale, FromSession, laneVars, agentVars
  <2>3. QED
    BY <1>13, <2>1, <2>2 DEF RouterStep
<1>14. CASE ConnectionStep
  BY <1>8, <1>10, <1>11, <1>14
  DEF ConnectionStep, WriteCommand, WriteCancel, WriteDecision, Disconnect, laneVars,
      agentVars
<1>15. CASE AgentStep
  <2>1. CASE Spawn \/ ReceiveCancel \/ AgentLosesConnection \/ ReceiveTerminal
    BY <1>8, <2>1 DEF Spawn, ReceiveCancel, AgentLosesConnection, ReceiveTerminal,
         laneVars, agentVars
  <2>2. CASE AnnounceReady
    BY <1>5, <1>12, <2>2 DEF AnnounceReady, laneVars
  <2>3. CASE WorkerFails \/ WorkerCanceled \/ GiveUpAsking \/ Publish \/ PublishFails
    BY <1>5, <1>12, <2>3
    DEF WorkerFails, WorkerCanceled, GiveUpAsking, Publish, PublishFails, Finish, laneVars
  <2>4. CASE CompleteBody
    BY <1>5, <1>8, <1>12, <2>4 DEF CompleteBody, TakeTerminal
  <2>5. CASE ReceiveDecision
    BY <1>5, <1>8, <1>12, <2>5 DEF ReceiveDecision, Finish
  <2>6. QED
    BY <1>15, <2>1, <2>2, <2>3, <2>4, <2>5 DEF AgentStep
<1>16. CASE ProducerStep
  BY <1>8, <1>16
  DEF ProducerStep, ProducerLeavesEarly, TakeReply, TakeReadiness,
      ProducerGivesUp, BodyTooLong, ReportBodyTooLong, ForwardFails,
      SendTerminal, CommitEdit, TakeCompletion, CommitterLeaves, Producer, laneVars,
      agentVars
<1>17. CASE UNCHANGED vars
  BY <1>8, <1>17 DEF vars, laneVars, agentVars
<1>18. QED
  BY <1>13, <1>14, <1>15, <1>16, <1>17 DEF UploadNext

\* Once the destination will not change, it does not.
LEMMA NeverStays ==
  UploadInvariant /\ [UploadNext]_vars => (NeverPublishes => NeverPublishes')
<1> SUFFICES ASSUME UploadInvariant, [UploadNext]_vars, NeverPublishes
             PROVE NeverPublishes'
  OBVIOUS
<1>1. WorkerAndFile'
  BY WorkerAndFileKept
<1>2. CASE worker = "finished"
  BY <1>2, WorkerGoesOn DEF NeverPublishes
<1>3. CASE Refused
  BY <1>1, <1>3, VerdictStays DEF NeverPublishes, Refused, WorkerAndFile
<1>4. QED
  BY <1>2, <1>3 DEF NeverPublishes

LEMMA CallerInvariantKept ==
  UploadInvariant /\ [UploadNext]_vars => CallerInvariant'
<1> SUFFICES ASSUME UploadInvariant, [UploadNext]_vars PROVE CallerInvariant'
  OBVIOUS
<1> USE DEF CallerInvariant
<1>1. /\ FlowAndRow /\ WorkerAndFile /\ Messages /\ ProducerSays /\ CallerInvariant
      /\ WorkerAndFile'
  BY WorkerAndFileKept DEF UploadInvariant
<1>2. /\ NeverPublishes => NeverPublishes'
      /\ Accepted => Accepted'
      /\ Refused => Refused'
      /\ published => published'
  BY <1>1, NeverStays, VerdictStays, WorkerGoesOn DEF WorkerAndFile
<1>3. Refused => NeverPublishes
  BY <1>1 DEF NeverPublishes, Refused, WorkerAndFile
<1>4. Refused' => NeverPublishes'
  BY <1>1 DEF NeverPublishes, Refused, WorkerAndFile
<1>5. CASE /\ UNCHANGED <<readiness, completion, told>>
           /\ producer = "ended" => producer' = "ended"
           /\ flow' = flow \/ flow' \notin {"canceling"}
           /\ Accepted' => Accepted
  BY <1>1, <1>2, <1>5
<1>6. CASE RouterStep
  <2>0. UNCHANGED told
    BY <1>6 DEF RouterStep, Admit, AdmitUnwanted, UserCancel, HandleCancelTransfer,
         HandleOutboundFailed, HandleCommit, TaskSendsTerminal, HandleReady,
         HandlePublishRequest, HandleResult, HandleLost, LoseConnection, DropStale,
         Evict, httpVars
  <2>1. CASE Admit \/ AdmitUnwanted \/ DropStale \/ TaskSendsTerminal
    BY <1>1, <1>2, <2>0, <2>1
    DEF Admit, AdmitUnwanted, DropStale, TaskSendsTerminal, httpVars, routerVars,
        Accepted, laneVars, ProducerSays, FlowAndRow
  <2>2. CASE UserCancel
    <3>1. /\ flow \in {"awaitingReady", "streaming"} /\ ~Accepted
          /\ flow' \in {"settled", "canceling"} /\ ~Accepted'
      BY <1>1, <2>2 DEF UserCancel, FlowAndRow, Unfinished, CancelUpload, Accepted,
           WithdrawUpload, SendCancel, CancelUndelivered, Release
    <3>2. Refused'
      BY <3>1 DEF Refused
    <3>3. /\ completion' = "canceled" /\ readiness' \in {readiness, "canceled"}
          /\ UNCHANGED producer
      BY <2>2 DEF UserCancel
    <3>4. QED
      BY <1>1, <1>2, <1>4, <2>0, <3>1, <3>2, <3>3
  <2>3. CASE HandleCancelTransfer
    <3>1. /\ UNCHANGED <<readiness, completion, producer>>
          /\ Accepted' = Accepted
      BY <2>3 DEF HandleCancelTransfer, Accepted
    <3>2. flow' = flow \/ ~Accepted
      BY <1>1, <2>3 DEF HandleCancelTransfer, CancelTransfer, FlowAndRow
    <3>3. QED
      BY <1>1, <1>2, <2>0, <3>1, <3>2
  <2>4. CASE HandleOutboundFailed
    <3>1. /\ UNCHANGED <<readiness, completion, producer>>
          /\ Accepted' = Accepted
      BY <2>4 DEF HandleOutboundFailed, Accepted
    <3>2. producer = "ended"
      <4>1. /\ Head(<<"cancel">>) = "cancel" /\ Head(<<"commit">>) = "commit"
            /\ httpbox # <<>> /\ Head(httpbox) = "failed"
        BY <2>4 DEF HandleOutboundFailed, FromProducer
      <4>2. QED
        BY <1>1, <4>1 DEF ProducerSays
    <3>3. QED
      BY <1>1, <1>2, <2>0, <3>1, <3>2
  <2>5. CASE HandleCommit \/ HandlePublishRequest
    <3>1. /\ UNCHANGED <<readiness, completion, producer>>
          /\ flow' = flow \/ flow' # "canceling"
      BY <2>5 DEF HandleCommit, HandlePublishRequest, Authorize, httpVars
    <3>2. flow = "canceling" /\ Accepted' => Accepted
      BY <1>1, <2>5 DEF HandleCommit, HandlePublishRequest, Authorizable, Accepted
    <3>3. QED
      BY <1>1, <1>2, <2>0, <3>1, <3>2
  <2>6. CASE HandleReady
    <3>1. /\ readiness' \in {readiness, "ready"} /\ UNCHANGED <<completion, producer>>
          /\ Accepted' = Accepted
      BY <2>6 DEF HandleReady, Accepted, laneVars
    <3>2. flow' = flow \/ ~Accepted
      BY <1>1, <2>6 DEF HandleReady, FlowAndRow
    <3>3. QED
      BY <1>1, <1>2, <2>0, <3>1, <3>2
  <2>7. CASE HandleResult
    <3>1. /\ UNCHANGED <<producer, published, worker>> /\ Accepted' = Accepted
          /\ worker = "finished" /\ inbox # <<>> /\ Head(inbox) = "result"
      BY <1>1, <2>7, Taken
      DEF HandleResult, FromSession, Accepted, laneVars, agentVars, Messages
    <3>2. CASE flow \notin Unfinished \cup {"canceling"}
      BY <1>1, <1>2, <2>0, <2>7, <3>1, <3>2 DEF HandleResult
    <3>3. CASE flow = "canceling"
      <4>1. /\ readiness' \in {readiness, "canceled"} /\ completion' \in {completion, "canceled"}
            /\ flow' = "settled"
        BY <2>7, <3>3 DEF HandleResult, Settle, Release
      <4>2. producer = "ended" \/ Refused
        BY <1>1, <3>3 DEF Refused
      <4>3. QED
        BY <1>1, <1>2, <1>3, <2>0, <3>1, <4>1, <4>2
    <3>4. CASE flow \in Unfinished
      <4>1. /\ readiness' \in {readiness, outcome} /\ completion' \in {completion, outcome}
            /\ flow' = "settled"
        BY <2>7, <3>4 DEF HandleResult, Settle, Release, Answer, Unfinished
      <4>2. outcome = "ok" => published
        BY <1>1 DEF WorkerAndFile
      <4>3. outcome = "canceled" => NeverPublishes
        BY <1>1, <3>1 DEF WorkerAndFile, NeverPublishes
      <4>4. QED
        BY <1>1, <1>2, <2>0, <3>1, <4>1, <4>2, <4>3
    <3>5. QED
      BY <3>2, <3>3, <3>4
  <2>8. CASE HandleLost \/ Evict
    <3>1. /\ readiness' \in {readiness, "error"} /\ completion' \in {completion, "error"}
          /\ UNCHANGED producer /\ Accepted' = Accepted
          /\ flow' = flow \/ flow' = "settled"
      BY <2>8 DEF HandleLost, Evict, LoseConnection, Release, Accepted, laneVars
    <3>2. QED
      BY <1>1, <1>2, <2>0, <3>1
  <2>9. QED
    BY <1>6, <2>1, <2>2, <2>3, <2>4, <2>5, <2>6, <2>7, <2>8 DEF RouterStep
<1>7. CASE ConnectionStep
  BY <1>5, <1>7
  DEF ConnectionStep, WriteCommand, WriteCancel, WriteDecision, ReadFrame, Disconnect,
      SessionEnds, Accepted, httpVars, routerVars, laneVars
<1>8. CASE AgentStep
  <2>1. /\ UNCHANGED <<kind, httpVars, flow, decision>>
        /\ finAt' = "none" <=> finAt = "none"
    BY <1>8 DEF AgentStep, Spawn, ReceiveCancel, AgentLosesConnection, ReceiveTerminal,
                AnnounceReady, WorkerFails, WorkerCanceled, CompleteBody, TakeTerminal,
                ReceiveDecision, GiveUpAsking, Publish, PublishFails, routerVars, laneVars
  <2>2. QED
    BY <1>5, <2>1 DEF httpVars, Accepted
<1>9. CASE ProducerStep
  <2>1. CASE TakeReadiness \/ TakeCompletion
    BY <1>1, <1>2, <2>1
    DEF TakeReadiness, TakeCompletion, Producer, routerVars, laneVars, agentVars, Accepted
  <2>2. CASE ProducerLeavesEarly \/ TakeReply \/ ProducerGivesUp \/ BodyTooLong
             \/ ReportBodyTooLong \/ ForwardFails \/ SendTerminal \/ CommitEdit
             \/ CommitterLeaves
    BY <1>5, <2>2
    DEF ProducerLeavesEarly, TakeReply, ProducerGivesUp, BodyTooLong, ReportBodyTooLong,
        ForwardFails, SendTerminal, CommitEdit, CommitterLeaves, Producer, routerVars,
        laneVars, Accepted
  <2>3. QED
    BY <1>9, <2>1, <2>2 DEF ProducerStep
<1>10. CASE UNCHANGED vars
  BY <1>5, <1>10 DEF vars, httpVars, routerVars, laneVars, Accepted
<1>11. QED
  BY <1>6, <1>7, <1>8, <1>9, <1>10 DEF UploadNext

\* Flow and row agree, the worker asks once for its publication and is answered
\* once, it publishes only what was accepted, and what the caller is told
\* agrees with the file: whatever the order of cancel, decision and loss.
THEOREM UploadInvariantHolds == UploadSpec => []UploadInvariant
<1>1. UploadInvariant /\ [UploadNext]_vars => UploadInvariant'
  BY FlowAndRowKept, WorkerAndFileKept, MessagesKept, ProducerSaysKept,
     CallerInvariantKept DEF UploadInvariant
<1>2. QED
  BY <1>1, UploadStarts, PTL DEF UploadSpec

\* Whoever waits for an upload is told ok only of a changed destination, and
\* canceled only of one that is and stays as it was, in every interleaving of
\* cancel, result, loss and publication.
THEOREM ToldTheTruthAlways == UploadSpec => []ToldTheTruth
<1>1. UploadInvariant => ToldTheTruth
  BY DEF UploadInvariant, CallerInvariant, WorkerAndFile, ToldTheTruth, NeverPublishes,
         Refused
<1>2. QED
  BY <1>1, UploadInvariantHolds, PTL

-----------------------------------------------------------------------------
(* Types *)

\* What the worker may have sent so far: its readiness, its question, its result.
Sent ==
  IF worker \in {"absent", "preparing"} THEN 0
  ELSE IF worker = "staging" THEN 1
  ELSE IF worker = "finished" THEN 3
  ELSE 2

\* The queues hold no more than the worker sent, and one loss of the connection.
Underway ==
  /\ Len(fromAgent) <= Sent
  /\ Len(fromAgent) + Len(inbox) <= Sent + (IF conn = "gone" THEN 1 ELSE 0)

\* The variables that UploadInvariant leaves untyped: positions, and flags.
Positions ==
  /\ producer \in {"waiting", "gone", "handed", "lost", "preparing", "sending",
                   "disarmed", "awaiting", "committing", "ended"}
  /\ readiness \in {"none", "ready", "ok", "error", "canceled"}
  /\ completion \in {"none", "ok", "error", "canceled"}
  /\ told \in {"none", "ok", "error", "canceled"}
  /\ conn \in {"up", "broken", "gone"}
  /\ ticket \in {"none", "queued", "written", "withdrawn"}
  /\ cancelAt \in {"none", "lane", "wire", "seen"}
  /\ decision \in {"none", "allowed", "denied"}
  /\ decisionAt \in {"none", "lane", "wire", "seen"}
  /\ finAt \in {"none", "task", "wire", "queued", "taken", "dropped"}

Flags ==
  /\ explicit \in BOOLEAN /\ cancelable \in BOOLEAN /\ stopped \in BOOLEAN
  /\ registered \in BOOLEAN /\ token \in BOOLEAN /\ published \in BOOLEAN

\* Positions stay within what was received.
LEMMA PositionsKept ==
  UploadInvariant /\ Positions /\ [UploadNext]_vars => Positions'
<1> SUFFICES ASSUME UploadInvariant, Positions, [UploadNext]_vars PROVE Positions'
  OBVIOUS
<1> USE DEF Positions, httpVars, routerVars, laneVars, agentVars
<1>1. outcome \in {"none", "ok", "error", "canceled"}
  BY DEF UploadInvariant, WorkerAndFile
<1>2. inbox # <<>> /\ Head(inbox) = "result" => outcome \in {"ok", "error", "canceled"}
  BY Taken DEF UploadInvariant, Messages, WorkerAndFile
<1>3. CASE RouterStep
  <2>0. CancelUpload => ticket' \in {ticket, "withdrawn"} /\ cancelAt' \in {cancelAt, "lane"}
    BY DEF CancelUpload, WithdrawUpload, SendCancel, CancelUndelivered
  <2>1. CASE Admit \/ AdmitUnwanted
    BY <2>1 DEF Admit, AdmitUnwanted
  <2>2. CASE UserCancel \/ HandleCancelTransfer \/ HandleReady
    BY <2>0, <2>2 DEF UserCancel, HandleCancelTransfer, CancelTransfer, HandleReady,
         CancelForProducer
  <2>3. CASE HandleOutboundFailed \/ HandleCommit \/ TaskSendsTerminal
    BY <2>3 DEF HandleOutboundFailed, AbandonUpload, SendCancel, HandleCommit,
         TaskSendsTerminal
  <2>4. CASE HandlePublishRequest
    BY <2>4 DEF HandlePublishRequest
  <2>5. CASE HandleResult
    BY <1>1, <1>2, <2>5 DEF HandleResult, FromSession, Settle, Answer
  <2>6. CASE HandleLost \/ Evict \/ DropStale
    BY <2>6 DEF HandleLost, Evict, DropStale, LoseConnection
  <2>7. QED
    BY <1>3, <2>1, <2>2, <2>3, <2>4, <2>5, <2>6 DEF RouterStep
<1>4. CASE ConnectionStep
  BY <1>4 DEF ConnectionStep, WriteCommand, WriteCancel, WriteDecision, ReadFrame,
       Disconnect, SessionEnds
<1>5. CASE AgentStep
  BY <1>5 DEF AgentStep, Spawn, ReceiveCancel, AgentLosesConnection, ReceiveTerminal,
       AnnounceReady, WorkerFails, WorkerCanceled, CompleteBody, TakeTerminal,
       ReceiveDecision, GiveUpAsking, Publish, PublishFails
<1>6. CASE ProducerStep
  BY <1>6 DEF ProducerStep, ProducerLeavesEarly, TakeReply, TakeReadiness,
       ProducerGivesUp, BodyTooLong, ReportBodyTooLong, ForwardFails, SendTerminal,
       CommitEdit, TakeCompletion, CommitterLeaves, Producer
<1>7. CASE UNCHANGED vars
  BY <1>7 DEF vars
<1>8. QED
  BY <1>3, <1>4, <1>5, <1>6, <1>7 DEF UploadNext

\* Flags stay flags.
LEMMA FlagsKept == Flags /\ [UploadNext]_vars => Flags'
<1> SUFFICES ASSUME Flags, [UploadNext]_vars PROVE Flags'
  OBVIOUS
<1> USE DEF Flags, httpVars, routerVars, laneVars, agentVars
<1>1. CASE RouterStep
  <2>0. CancelUpload => stopped' = TRUE
    BY DEF CancelUpload, WithdrawUpload, SendCancel, CancelUndelivered, Release
  <2>1. CASE Admit \/ AdmitUnwanted \/ UserCancel
    BY <2>0, <2>1, Zenon DEF Admit, AdmitUnwanted, UserCancel
  <2>2. CASE HandleCancelTransfer \/ HandleReady
    BY <2>0, <2>2, Zenon DEF HandleCancelTransfer, CancelTransfer, HandleReady,
         CancelForProducer
  <2>3. CASE HandleOutboundFailed \/ HandleCommit \/ TaskSendsTerminal
    BY <2>3, Zenon DEF HandleOutboundFailed, AbandonUpload, SendCancel, Release,
         HandleCommit, TaskSendsTerminal
  <2>4. CASE HandlePublishRequest \/ HandleResult
    BY <2>4, Zenon DEF HandlePublishRequest, Authorize, HandleResult, Settle, Release
  <2>5. CASE HandleLost \/ Evict \/ DropStale
    BY <2>5, Zenon DEF HandleLost, Evict, DropStale, LoseConnection, Release
  <2>6. QED
    BY <1>1, <2>1, <2>2, <2>3, <2>4, <2>5 DEF RouterStep
<1>2. CASE ConnectionStep
  BY <1>2, Zenon DEF ConnectionStep, WriteCommand, WriteCancel, WriteDecision, ReadFrame,
       Disconnect, SessionEnds
<1>3. CASE AgentStep
  <2>1. CASE PublishFails
    <3>1. published' \in BOOLEAN
      BY <2>1 DEF PublishFails
    <3>2. QED
      BY <2>1, <3>1, Zenon DEF PublishFails
  <2>2. CASE ReceiveCancel
    BY <2>2, Zenon DEF ReceiveCancel
  <2>3. CASE Spawn \/ AgentLosesConnection \/ ReceiveTerminal \/ AnnounceReady
             \/ WorkerFails \/ WorkerCanceled \/ CompleteBody \/ ReceiveDecision
             \/ GiveUpAsking \/ Publish
    BY <2>3, Zenon DEF Spawn, AgentLosesConnection, ReceiveTerminal, AnnounceReady,
         WorkerFails, WorkerCanceled, CompleteBody, ReceiveDecision, GiveUpAsking, Publish
  <2>4. QED
    BY <1>3, <2>1, <2>2, <2>3 DEF AgentStep
<1>4. CASE ProducerStep
  BY <1>4, Zenon DEF ProducerStep, ProducerLeavesEarly, TakeReply, TakeReadiness,
       ProducerGivesUp, BodyTooLong, ReportBodyTooLong, ForwardFails, SendTerminal,
       CommitEdit, TakeCompletion, CommitterLeaves, Producer
<1>5. CASE UNCHANGED vars
  BY <1>5, Zenon DEF vars
<1>6. QED
  BY <1>1, <1>2, <1>3, <1>4, <1>5 DEF UploadNext

\* What is on its way stays within the windows and the bounds.
LEMMA UnderwayKept ==
  UploadInvariant /\ Underway /\ [UploadNext]_vars => Underway'
<1> SUFFICES ASSUME UploadInvariant, Underway, [UploadNext]_vars PROVE Underway'
  OBVIOUS
<1> USE DEF Underway
<1>1. /\ fromAgent \in Seq({"ready", "publish", "result"})
      /\ inbox \in Seq({"ready", "publish", "result", "lost"})
      /\ worker \in {"absent", "finished"} \cup Live
  BY DEF UploadInvariant, Messages, WorkerAndFile
<1>2. /\ Len(fromAgent) \in Nat /\ Len(inbox) \in Nat
      /\ inbox # <<>> => Len(Tail(inbox)) = Len(inbox) - 1
      /\ fromAgent # <<>> => Len(Tail(fromAgent)) = Len(fromAgent) - 1
      /\ \A e : Len(Append(inbox, e)) = Len(inbox) + 1
      /\ \A e : Len(Append(fromAgent, e)) = Len(fromAgent) + 1
  BY <1>1
<1> HIDE DEF Underway
<1>3. Sent \in Nat
  BY DEF Sent
<1>4. CASE UNCHANGED <<fromAgent, worker, conn>> /\ (inbox # <<>> /\ inbox' = Tail(inbox))
  BY <1>2, <1>3, <1>4 DEF Underway, Sent
<1>5. CASE UNCHANGED <<fromAgent, inbox, worker, conn>>
  BY <1>5 DEF Underway, Sent
<1>6. CASE RouterStep
  BY <1>4, <1>5, <1>6
  DEF RouterStep, Admit, AdmitUnwanted, UserCancel, HandleCancelTransfer,
      HandleOutboundFailed, HandleCommit, TaskSendsTerminal, HandleReady,
      HandlePublishRequest, HandleResult, HandleLost, LoseConnection, DropStale,
      FromSession, Evict, agentVars
<1>7. CASE ConnectionStep
  <2>1. CASE WriteCommand \/ WriteCancel \/ WriteDecision
    BY <1>5, <2>1 DEF WriteCommand, WriteCancel, WriteDecision, agentVars
  <2>2. CASE ReadFrame
    BY <1>2, <1>3, <2>2 DEF ReadFrame, Underway, Sent
  <2>3. CASE Disconnect \/ SessionEnds
    BY <1>2, <1>3, <2>3 DEF Disconnect, SessionEnds, agentVars, Underway, Sent
  <2>4. QED
    BY <1>7, <2>1, <2>2, <2>3 DEF ConnectionStep
<1>8. CASE AgentStep
  <2>1. CASE /\ UNCHANGED <<fromAgent, inbox, conn>>
             /\ worker = "absent" /\ worker' = "preparing"
    BY <1>2, <1>3, <2>1 DEF Underway, Sent
  <2>2. ASSUME UNCHANGED <<inbox, conn>>, Sent' >= Sent + 1,
               fromAgent' = fromAgent \/ \E m : fromAgent' = Append(fromAgent, m)
        PROVE  Underway'
    <3>1. Len(fromAgent') <= Len(fromAgent) + 1
      BY <1>2, <2>2
    <3>2. fromAgent' \in Seq({"ready", "publish", "result"}) /\ Sent' \in Nat
      BY MessagesKept DEF Messages, Sent
    <3>3. QED
      BY <1>2, <1>3, <2>2, <3>1, <3>2 DEF Underway
  <2>3. CASE Spawn
    BY <2>1, <2>3 DEF Spawn
  <2>4. CASE ReceiveCancel \/ AgentLosesConnection \/ ReceiveTerminal
    BY <1>5, <2>4 DEF ReceiveCancel, AgentLosesConnection, ReceiveTerminal, agentVars
  <2>5. CASE AnnounceReady
    BY <2>2, <2>5 DEF AnnounceReady, Send, Sent
  <2>6. CASE WorkerFails \/ WorkerCanceled \/ GiveUpAsking \/ Publish \/ PublishFails
    <3>1. /\ UNCHANGED <<inbox, conn>> /\ worker' = "finished"
          /\ worker \in {"preparing", "staging", "asking", "publishing"}
          /\ fromAgent' = fromAgent \/ fromAgent' = Append(fromAgent, "result")
      BY <2>6 DEF WorkerFails, WorkerCanceled, CancelWins, GiveUpAsking, Publish,
           PublishFails, Finish, Send
    <3>2. QED
      BY <2>2, <3>1 DEF Sent
  <2>7. CASE CompleteBody
    BY <2>2, <2>7 DEF CompleteBody, TakeTerminal, Send, Sent
  <2>8. CASE ReceiveDecision
    <3>1. CASE worker = "asking" /\ ~(decision = "allowed" /\ ~token)
      BY <2>2, <2>8, <3>1 DEF ReceiveDecision, Finish, Send, Sent
    <3>2. CASE ~(worker = "asking" /\ ~(decision = "allowed" /\ ~token))
      BY <2>8, <3>2 DEF ReceiveDecision, Underway, Sent
    <3>3. QED
      BY <3>1, <3>2
  <2>9. QED
    BY <1>8, <2>3, <2>4, <2>5, <2>6, <2>7, <2>8 DEF AgentStep
<1>9. CASE ProducerStep
  BY <1>5, <1>9
  DEF ProducerStep, ProducerLeavesEarly, TakeReply, TakeReadiness, ProducerGivesUp,
      BodyTooLong, ReportBodyTooLong, ForwardFails, SendTerminal, CommitEdit,
      TakeCompletion, CommitterLeaves, Producer, agentVars
<1>10. CASE UNCHANGED vars
  BY <1>5, <1>10 DEF vars, agentVars
<1>11. QED
  BY <1>6, <1>7, <1>8, <1>9, <1>10 DEF UploadNext

\* Every variable of an upload keeps its type, and no queue grows: whatever is
\* canceled, lost or repeated, at most three frames of the worker and one loss
\* of the connection are ever on their way to the router.
THEOREM UploadTypeCorrect == UploadSpec => []UploadTypeOK
<1>1. UploadInit => Positions /\ Flags /\ Underway
  <2> SUFFICES ASSUME UploadInit PROVE Positions /\ Flags /\ Underway
    OBVIOUS
  <2>1. Positions /\ Flags
    BY DEF UploadInit, Positions, Flags
  <2>2. Len(fromAgent) = 0 /\ Len(inbox) = 0 /\ worker = "absent" /\ conn = "up"
    BY DEF UploadInit
  <2>3. QED
    BY <2>1, <2>2 DEF Underway, Sent
<1>2. UploadInvariant /\ Positions /\ Flags /\ Underway => UploadTypeOK
  <2> SUFFICES ASSUME UploadInvariant, Positions, Flags, Underway PROVE UploadTypeOK
    OBVIOUS
  <2>1. FlowAndRow /\ WorkerAndFile /\ Messages /\ ProducerSays
    BY DEF UploadInvariant
  <2>2. row \in {"none", "active", "canceling"} \cup Ended
    BY <2>1 DEF FlowAndRow, Unfinished, Ended
  <2>3. Len(fromAgent) <= 3 /\ Len(inbox) <= 4
    <3>1. Len(fromAgent) \in Nat /\ Len(inbox) \in Nat
      BY <2>1 DEF Messages
    <3>2. QED
      BY <3>1 DEF Underway, Sent
  <2>4. QED
    BY <2>1, <2>2, <2>3
    DEF UploadTypeOK, Positions, Flags, FlowAndRow, WorkerAndFile, Messages, ProducerSays
<1>3. QED
  BY <1>1, <1>2, UploadInvariantHolds, PositionsKept, FlagsKept, UnderwayKept, PTL DEF UploadSpec

-----------------------------------------------------------------------------
(* No worker is left behind *)

\* Why nothing has to be done for a worker whose flow is settled.
Released ==
  /\ flow = "none" => ticket = "none"
  /\ ticket \in {"none", "queued", "withdrawn"} => worker = "absent"
  /\ cancelAt = "seen" => worker # "absent" /\ (worker \in Live => token)
  /\ flow = "settled" =>
       \/ worker = "finished" \/ ticket = "withdrawn"
       \/ ~registered \/ conn # "up"
       \/ cancelAt # "none"
  /\ cancelAt \in {"none", "lane", "wire", "seen"}
  /\ ticket \in {"none", "queued", "written", "withdrawn"}
  /\ conn \in {"up", "broken", "gone"}

LEMMA ReleasedKept ==
  UploadInvariant /\ Released /\ [UploadNext]_vars => Released'
<1> SUFFICES ASSUME UploadInvariant, Released, [UploadNext]_vars PROVE Released'
  OBVIOUS
<1> USE DEF Released
<1>1. WorkerAndFile /\ FlowAndRow /\ (worker = "finished" => worker' = "finished")
  BY WorkerGoesOn DEF UploadInvariant
<1>2. CASE RouterStep
  <2>0. UNCHANGED <<worker, token>>
    BY <1>2 DEF RouterStep, Admit, AdmitUnwanted, UserCancel, HandleCancelTransfer,
         HandleOutboundFailed, HandleCommit, TaskSendsTerminal, HandleReady,
         HandlePublishRequest, HandleResult, HandleLost, LoseConnection, DropStale,
         Evict, agentVars
  <2>1. CASE Admit
    BY <2>0, <2>1, <1>1 DEF Admit, FlowAndRow
  <2>2. CASE AdmitUnwanted
    BY <2>0, <2>2 DEF AdmitUnwanted
  <2>3. CASE UserCancel \/ HandleCancelTransfer \/ HandleReady
    <3>1. UNCHANGED <<conn, registered>>
      BY <2>3 DEF UserCancel, HandleCancelTransfer, HandleReady
    <3>2. CASE CancelUpload
      BY <2>0, <3>1, <3>2
      DEF CancelUpload, WithdrawUpload, SendCancel, CancelUndelivered, Release
    <3>3. CASE /\ UNCHANGED <<ticket, cancelAt>>
               /\ flow' = flow \/ flow' = "streaming"
      BY <2>0, <3>1, <3>3
    <3>4. QED
      BY <2>3, <3>2, <3>3
      DEF UserCancel, HandleCancelTransfer, HandleReady, CancelTransfer, CancelForProducer
  <2>4. CASE HandleOutboundFailed
    BY <2>0, <2>4 DEF HandleOutboundFailed, AbandonUpload, SendCancel, Release
  <2>5. CASE HandleResult
    <3>1. worker = "finished"
      BY <2>5, Taken DEF HandleResult, FromSession, UploadInvariant, Messages
    <3>2. /\ UNCHANGED <<ticket, cancelAt, conn, registered>>
          /\ flow' = flow \/ flow' = "settled"
      BY <2>5 DEF HandleResult, Settle, Release, laneVars
    <3>3. QED
      BY <2>0, <3>1, <3>2
  <2>6. CASE HandleLost \/ Evict
    <3>1. /\ UNCHANGED <<ticket, cancelAt, conn>> /\ ~registered'
          /\ flow' = flow \/ flow' = "settled"
      BY <2>6 DEF HandleLost, Evict, LoseConnection, Release, laneVars
    <3>2. QED
      BY <2>0, <3>1
  <2>7. CASE HandleCommit \/ TaskSendsTerminal \/ HandlePublishRequest \/ DropStale
    <3>1. /\ UNCHANGED <<ticket, cancelAt, conn, registered>>
          /\ flow' = flow \/ flow' \in {"committing", "publishing"}
      BY <2>7 DEF HandleCommit, TaskSendsTerminal, HandlePublishRequest, DropStale,
           Authorize, routerVars, laneVars
    <3>2. QED
      BY <2>0, <3>1
  <2>8. QED
    BY <1>2, <2>1, <2>2, <2>3, <2>4, <2>5, <2>6, <2>7 DEF RouterStep
<1>3. CASE ConnectionStep
  <2>1. UNCHANGED <<worker, token, flow, registered>>
    BY <1>3 DEF ConnectionStep, WriteCommand, WriteCancel, WriteDecision, ReadFrame,
         Disconnect, SessionEnds, routerVars, agentVars
  <2>2. /\ \/ UNCHANGED ticket
           \/ ticket = "queued" /\ ticket' = "written"
        /\ \/ UNCHANGED cancelAt
           \/ cancelAt = "lane" /\ cancelAt' = "wire"
        /\ \/ UNCHANGED conn
           \/ conn' \in {"broken", "gone"}
    BY <1>3 DEF ConnectionStep, WriteCommand, WriteCancel, WriteDecision, ReadFrame,
         Disconnect, SessionEnds, laneVars
  <2>3. QED
    BY <2>1, <2>2
<1>4. CASE AgentStep
  <2>0. UNCHANGED <<ticket, flow, registered, conn>>
    BY <1>4 DEF AgentStep, Spawn, ReceiveCancel, AgentLosesConnection, ReceiveTerminal,
         AnnounceReady, WorkerFails, WorkerCanceled, CompleteBody, ReceiveDecision,
         GiveUpAsking, Publish, PublishFails, routerVars, laneVars
  <2>1. CASE ReceiveCancel
    BY <1>1, <2>0, <2>1 DEF ReceiveCancel
  <2>2. /\ token => token'
        /\ worker = "absent" => worker' = "absent" \/ ticket = "written"
        /\ worker' \in Live => worker \in Live \/ worker = "absent"
        /\ worker # "absent" => worker' # "absent"
    <3>1. CASE Spawn
      BY <3>1 DEF Spawn, Live
    <3>6. CASE ReceiveCancel
      BY <3>6 DEF ReceiveCancel
    <3>7. CASE AgentLosesConnection \/ ReceiveTerminal
      BY <3>7 DEF AgentLosesConnection, ReceiveTerminal, agentVars
    <3>2. CASE AnnounceReady \/ WorkerFails \/ WorkerCanceled \/ GiveUpAsking
      BY <3>2 DEF AnnounceReady, WorkerFails, WorkerCanceled, CancelWins, GiveUpAsking,
           Finish, Live
    <3>3. CASE CompleteBody \/ Publish \/ PublishFails
      BY <3>3 DEF CompleteBody, TakeTerminal, Publish, PublishFails, Finish, Live
    <3>4. CASE ReceiveDecision
      BY <3>4 DEF ReceiveDecision, Finish, Live
    <3>5. QED
      BY <1>4, <3>1, <3>2, <3>3, <3>4, <3>6, <3>7 DEF AgentStep
  <2>3. CASE UNCHANGED cancelAt
    BY <1>1, <2>0, <2>2, <2>3
  <2>4. QED
    BY <1>4, <2>1, <2>3
    DEF AgentStep, Spawn, AgentLosesConnection, ReceiveTerminal, AnnounceReady,
        WorkerFails, WorkerCanceled, CompleteBody, ReceiveDecision, GiveUpAsking,
        Publish, PublishFails, laneVars
<1>5. CASE ProducerStep \/ UNCHANGED vars
  <2>1. UNCHANGED <<worker, token, flow, registered, ticket, cancelAt, conn>>
    BY <1>5 DEF ProducerStep, ProducerLeavesEarly, TakeReply, TakeReadiness,
         ProducerGivesUp, BodyTooLong, ReportBodyTooLong, ForwardFails, SendTerminal,
         CommitEdit, TakeCompletion, CommitterLeaves, Producer, routerVars, laneVars,
         agentVars, vars
  <2>2. QED
    BY <2>1
<1>6. QED
  BY <1>2, <1>3, <1>4, <1>5 DEF UploadNext

\* No way of settling a flow forgets its worker: it ended, never starts, lost
\* its connection, or its cancel is on the way or has arrived.
THEOREM NoWorkerIsOrphaned == UploadSpec => []NoOrphanedWorker
<1>1. UploadInit => Released
  BY DEF UploadInit, Released, Live
<1>2. UploadInvariant /\ Released /\ [UploadNext]_vars => Released'
  BY ReleasedKept
<1>3. UploadInvariant /\ Released => NoOrphanedWorker
  BY DEF UploadInvariant, WorkerAndFile, Released, NoOrphanedWorker, Live
<1>4. QED
  BY <1>1, <1>2, <1>3, UploadInvariantHolds, PTL DEF UploadSpec

-----------------------------------------------------------------------------
(* An upload keeps the promise of Publication *)

LEMMA StartIsPromised == UploadInit => Promise!Init
  BY DEF UploadInit, Promise!Init, Verdict, Ended

\* What a step may do to the verdict, the destination and the report.
LEMMA StepIsPromised ==
  UploadInvariant /\ [UploadNext]_vars => [Promise!Next]_(Promise!promise)
<1> DEFINE destination == IF published THEN "new" ELSE "old"
           report == IF row \in Ended THEN row ELSE "active"
<1> SUFFICES ASSUME UploadInvariant, [UploadNext]_vars
             PROVE Promise!Next \/ UNCHANGED <<Verdict, destination, report>>
  BY DEF Promise!promise
<1>1. FlowAndRow /\ WorkerAndFile /\ ProducerSays /\ FlowAndRow' /\ WorkerAndFile'
  BY FlowAndRowKept, WorkerAndFileKept DEF UploadInvariant
<1>2. Verdict = IF Accepted THEN "accepted"
                ELSE IF flow \in {"canceling", "settled"} THEN "refused" ELSE "open"
  BY DEF Verdict, Accepted
<1>3. Verdict' = IF Accepted' THEN "accepted"
                 ELSE IF flow' \in {"canceling", "settled"} THEN "refused" ELSE "open"
  BY DEF Verdict, Accepted
<1>4. /\ Accepted => Accepted'
      /\ Refused => Refused'
  BY VerdictStays
<1>5. CASE UNCHANGED <<Verdict, published, row>>
  BY <1>5
<1>6. CASE RouterStep
  <2>1. UNCHANGED published
    BY <1>6, OthersLeaveTheWorker
  <2>2. ASSUME ~Accepted', flow \in {"none"} \cup Unfinished, ~Accepted,
               flow' \in {"canceling", "settled"}, row' # "completed"
        PROVE Promise!Next
    <3>1. Promise!Refuse
      BY <1>2, <1>3, <2>1, <2>2 DEF Promise!Refuse, Unfinished, Ended
    <3>2. QED
      BY <3>1 DEF Promise!Next
  <2>3. ASSUME UNCHANGED Verdict, row \notin Ended,
               \/ row' = "completed" /\ published
               \/ row' = "canceled" /\ Verdict = "refused"
               \/ row' = "errored" /\ Verdict # "open"
        PROVE Promise!Next
    <3>1. Promise!Report
      BY <2>1, <2>3 DEF Promise!Report, Ended
    <3>2. QED
      BY <3>1 DEF Promise!Next
  <2>4. ASSUME Verdict = "open", Accepted', row \notin Ended, UNCHANGED row
        PROVE Promise!Next
    <3>1. Promise!Accept
      BY <1>3, <2>1, <2>4 DEF Promise!Accept
    <3>2. QED
      BY <3>1 DEF Promise!Next
  <2>5. row \in {"none", "active"} => row \notin Ended
    BY DEF Ended
  <2> USE DEF FlowAndRow, Unfinished
  <2>6. CASE Admit
    <3>1. UNCHANGED Verdict /\ row = "none" /\ row' = "active"
      BY <1>1, <1>2, <1>3, <2>6 DEF Admit, Accepted
    <3>2. QED
      BY <2>1, <3>1 DEF Ended
  <2>7. CASE AdmitUnwanted
    BY <1>1, <2>2, <2>7 DEF AdmitUnwanted, Accepted
  <2>8. CASE UserCancel
    <3>1. /\ flow \in {"awaitingReady", "streaming"} /\ Accepted' = Accepted
          /\ flow' \in {"settled", "canceling"} /\ row' \in {"canceled", "canceling"}
      BY <1>1, <2>8 DEF UserCancel, CancelUpload, WithdrawUpload, SendCancel,
           CancelUndelivered, Release, Accepted
    <3>2. QED
      BY <1>1, <2>2, <3>1
  <2>9. CASE HandleCancelTransfer \/ HandleReady
    <3>1. \/ UNCHANGED row /\ (flow' = flow \/ (flow \in Unfinished /\ flow' \in Unfinished))
          \/ /\ flow \in {"awaitingReady", "streaming"} /\ row' = "errored"
             /\ flow' \in {"settled", "canceling"}
      <4>1. CASE CancelForProducer /\ flow \in {"awaitingReady", "streaming"}
        <5>1. flow' \in {"settled", "canceling"}
          BY <4>1 DEF CancelForProducer, CancelUpload, WithdrawUpload, SendCancel,
               CancelUndelivered, Release
        <5>2. QED
          BY <4>1, <5>1 DEF CancelForProducer
      <4>2. \/ CancelForProducer /\ flow \in {"awaitingReady", "streaming"}
            \/ UNCHANGED <<row, flow>>
            \/ UNCHANGED row /\ flow = "awaitingReady" /\ flow' = "streaming"
        BY <2>9 DEF HandleCancelTransfer, HandleReady, CancelTransfer
      <4>3. CASE UNCHANGED <<row, flow>>
        BY <4>3
      <4>4. CASE UNCHANGED row /\ flow = "awaitingReady" /\ flow' = "streaming"
        BY <4>4
      <4>5. QED
        BY <4>1, <4>2, <4>3, <4>4
    <3>2. Accepted' = Accepted
      BY <2>9 DEF HandleCancelTransfer, HandleReady, laneVars, Accepted
    <3>3. QED
      BY <1>1, <1>2, <1>3, <1>5, <2>1, <2>2, <3>1, <3>2
  <2>10. CASE HandleOutboundFailed
    <3>1. \/ UNCHANGED <<row, flow>>
          \/ flow \in Unfinished /\ row' = "errored" /\ flow' \in {"settled", "canceling"}
      BY <2>10 DEF HandleOutboundFailed, AbandonUpload, SendCancel, Release
    <3>2. Accepted' = Accepted
      BY <2>10 DEF HandleOutboundFailed, Accepted
    <3>3. QED
      BY <1>1, <1>2, <1>3, <1>5, <2>1, <2>2, <2>3, <2>5, <3>1, <3>2
  <2>11. CASE HandleCommit
    <3>1. kind = "edit" \/ flow # "streaming"
      BY <1>1, <2>11 DEF HandleCommit, FromProducer, ProducerSays
    <3>2. CASE flow = "streaming"
      <4>1. Accepted' /\ UNCHANGED row
        BY <2>11, <3>1, <3>2 DEF HandleCommit, Accepted
      <4>2. QED
        BY <1>1, <1>2, <2>4, <2>5, <3>2, <4>1
    <3>3. CASE flow # "streaming"
      BY <1>2, <1>3, <1>5, <2>1, <2>11, <3>3 DEF HandleCommit, Accepted
    <3>4. QED
      BY <3>2, <3>3
  <2>12. CASE TaskSendsTerminal \/ DropStale
    BY <1>2, <1>3, <1>5, <2>1, <2>12
    DEF TaskSendsTerminal, DropStale, Accepted, routerVars, laneVars
  <2>13. CASE HandlePublishRequest
    <3>1. CASE Authorizable
      BY <1>1, <1>2, <2>4, <2>5, <2>13, <3>1
      DEF HandlePublishRequest, Authorizable, Authorize, Accepted
    <3>2. CASE ~Authorizable
      <4>1. UNCHANGED <<row, flow>> /\ (Accepted' => Accepted)
        BY <2>13, <3>2 DEF HandlePublishRequest, Accepted
      <4>2. QED
        BY <1>2, <1>3, <1>4, <1>5, <2>1, <4>1
    <3>3. QED
      BY <3>1, <3>2
  <2>14. CASE HandleResult
    <3>1. Accepted' = Accepted
      BY <2>14 DEF HandleResult, laneVars, Accepted
    <3>2. CASE flow \in Unfinished
      <4>1. /\ flow' = "settled" /\ row = "active"
            /\ row' = IF outcome = "ok" THEN "completed" ELSE "errored"
        BY <1>1, <2>14, <3>2 DEF HandleResult, Settle, Release
      <4>2. outcome = "ok" => published /\ Accepted
        BY <1>1 DEF WorkerAndFile
      <4>3. QED
        BY <1>2, <1>3, <2>2, <2>3, <2>5, <3>1, <3>2, <4>1, <4>2
    <3>3. CASE flow = "canceling"
      <4>1. flow' = "settled" /\ UNCHANGED Verdict
        BY <1>2, <1>3, <2>14, <3>1, <3>3 DEF HandleResult, Settle, Release
      <4>2. CASE ~explicit
        BY <1>5, <2>1, <2>14, <3>3, <4>1, <4>2 DEF HandleResult, Settle
      <4>3. CASE explicit
        <5>1. /\ row = "canceling" /\ Verdict = "refused"
              /\ row' = IF outcome = "ok" THEN "completed" ELSE "canceled"
          BY <1>1, <1>2, <2>14, <3>3, <4>3 DEF HandleResult, Settle, Refused
        <5>2. outcome = "ok" => published
          BY <1>1 DEF WorkerAndFile
        <5>3. QED
          BY <2>3, <4>1, <5>1, <5>2 DEF Ended
      <4>4. QED
        BY <4>2, <4>3
    <3>4. CASE flow \notin Unfinished \cup {"canceling"}
      BY <1>2, <1>3, <1>5, <2>1, <2>14, <3>1, <3>4 DEF HandleResult
    <3>5. QED
      BY <3>2, <3>3, <3>4
  <2>15. CASE HandleLost \/ Evict
    <3>1. Accepted' = Accepted
      BY <2>15 DEF HandleLost, Evict, LoseConnection, laneVars, Accepted
    <3>2. CASE flow \in Unfinished
      <4>1. flow' = "settled" /\ row = "active" /\ row' = "errored"
        BY <1>1, <2>15, <3>2 DEF HandleLost, Evict, LoseConnection, Release
      <4>2. QED
        BY <1>2, <1>3, <2>2, <2>3, <2>5, <3>1, <3>2, <4>1
    <3>3. CASE flow = "canceling"
      <4>1. flow' = "settled" /\ UNCHANGED Verdict
            /\ row' = IF row = "canceling" THEN "canceled" ELSE "errored"
        BY <1>2, <1>3, <2>15, <3>1, <3>3 DEF HandleLost, Evict, LoseConnection, Release
      <4>2. \/ row = "canceling" /\ Verdict = "refused"
            \/ row = "errored"
        BY <1>1, <1>2, <3>3 DEF Refused
      <4>3. QED
        BY <1>5, <2>1, <2>3, <4>1, <4>2 DEF Ended
    <3>4. CASE flow \notin Unfinished \cup {"canceling"}
      BY <1>2, <1>3, <1>5, <2>1, <2>15, <3>1, <3>4 DEF HandleLost, Evict, LoseConnection
    <3>5. QED
      BY <3>2, <3>3, <3>4
  <2>16. QED
    BY <1>6, <2>6, <2>7, <2>8, <2>9, <2>10, <2>11, <2>12, <2>13, <2>14, <2>15 DEF RouterStep
<1>7. CASE ConnectionStep \/ ProducerStep \/ UNCHANGED vars
  <2>1. UNCHANGED <<flow, row, published>> /\ Accepted' = Accepted
    BY <1>7
    DEF ConnectionStep, WriteCommand, WriteCancel, WriteDecision, ReadFrame, Disconnect,
        SessionEnds, ProducerStep, ProducerLeavesEarly, TakeReply, TakeReadiness,
        ProducerGivesUp, BodyTooLong, ReportBodyTooLong, ForwardFails, SendTerminal,
        CommitEdit, TakeCompletion, CommitterLeaves, Producer, Accepted, routerVars,
        laneVars, agentVars, vars
  <2>2. QED
    BY <1>2, <1>3, <1>5, <2>1
<1>8. CASE AgentStep
  <2>1. UNCHANGED <<flow, row, kind, decision>> /\ (finAt' = "none" <=> finAt = "none")
    BY <1>8 DEF AgentStep, Spawn, ReceiveCancel, AgentLosesConnection, ReceiveTerminal,
                AnnounceReady, WorkerFails, WorkerCanceled, CompleteBody, TakeTerminal,
                ReceiveDecision, GiveUpAsking, Publish, PublishFails, routerVars, laneVars
  <2>2. UNCHANGED <<Verdict, row>>
    BY <1>2, <1>3, <2>1 DEF Accepted
  <2>3. CASE Publish \/ PublishFails
    <3>1. worker = "publishing" /\ ~published /\ Verdict = "accepted" /\ published' \in BOOLEAN
      BY <1>1, <1>2, <2>3 DEF Publish, PublishFails, WorkerAndFile
    <3>2. published' = TRUE => Promise!Publish
      BY <2>2, <3>1 DEF Promise!Publish
    <3>3. QED
      BY <2>2, <3>1, <3>2, <1>5 DEF Promise!Next
  <2>4. CASE UNCHANGED published
    BY <1>5, <2>2, <2>4
  <2>5. QED
    BY <1>8, <2>3, <2>4
    DEF AgentStep, Spawn, ReceiveCancel, AgentLosesConnection, ReceiveTerminal,
        AnnounceReady, WorkerFails, WorkerCanceled, CompleteBody, ReceiveDecision,
        GiveUpAsking, agentVars
<1>9. QED
  BY <1>6, <1>7, <1>8 DEF UploadNext

\* The verdict of the router is final and comes before the destination changes,
\* and the history says of the transfer what became of it: every upload and
\* every edit implements Publication.
THEOREM UploadKeepsPromise == UploadSpec => KeepsPromise
<1>1. UploadInvariant /\ [UploadNext]_vars => [Promise!Next]_(Promise!promise)
  BY StepIsPromised
<1>2. QED
  BY <1>1, StartIsPromised, UploadInvariantHolds, PTL
  DEF UploadSpec, KeepsPromise, Promise!Spec
=============================================================================
