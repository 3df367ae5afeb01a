--------------------------- MODULE CopyFlowProofs ---------------------------
(***************************************************************************)
(* What holds of every copy and move: the destination gets a file that is  *)
(* whole and of one version, or a directory with nothing torn; a move      *)
(* removes what it published, save for a version that took the path after  *)
(* the look at its identity; and the row keeps the promise of CopyPromise. *)
(* A row that settled has no work left on an agent, one that failed has a  *)
(* cause, and a partial is kept or removed as its row says.                *)
(***************************************************************************)
EXTENDS CopyFlow, SequenceTheorems, TLAPS

-----------------------------------------------------------------------------
(* The inductive invariant *)

\* The publication is admitted by the router.
Gated == shape.file \/ ~shape.local

Final == {"errored", "canceled", "completed", "forgotten"}

Has(s, f) == \E i \in DOMAIN s : s[i] = f

Result(r, out) == Has(box[AgentOf(r)], Frame("result", r, out))

IsResultOf(f, r) == f.kind = "result" /\ f.req = r

Answered(s, r) == \E i \in DOMAIN s : IsResultOf(s[i], r)

\* Which commands there are in which phase, and that a worker needs a written one.
Tickets ==
  /\ \A r \in Requests :
       /\ worker[r] # "absent" => ticket[r] = "written"
       /\ ticket[r] # "none" => (r = "local" <=> shape.local)
  /\ flow.phase = "local" => shape.local
  /\ flow.phase \in Remote \cup {"verifying", "settling", "deleting"} => ~shape.local
  /\ flow.phase = "none" => \A r \in Requests : ticket[r] = "none"
  /\ ticket["upload"] # "none" =>
       flow.phase \in Remote \cup {"deleting", "settled"} /\ ticket["settle"] = "none"
  /\ ticket["settle"] # "none" => flow.phase \in {"settling", "settled"}
  /\ ticket["download"] # "none" =>
       flow.phase \in {"streaming", "canceling", "deleting", "settled"}
  /\ ticket["delete"] # "none" =>
       flow.phase \in {"deleting", "settled"} /\ worker["upload"] = "ended"

\* Which rows go with which phase.
RowPhases ==
  /\ flow.phase = "none" <=> row = "none"
  /\ flow.phase = "none" => flow.digest = [a \in Agents |-> "none"]
  /\ flow.phase = "settled" <=> row \in Final
  /\ flow.phase = "verifying" => row = "active"
  /\ flow.phase \in {"awaiting", "streaming"} => row \in {"active", "committed"}
  /\ flow.phase = "canceling" => row = "canceling"
  /\ flow.phase = "deleting" => row = "committed"
  /\ flow.phase = "settling" =>
       row \in {"active", "canceling"} /\ (~flow.failure => row = "canceling")
  /\ flow.phase = "local" => row \in {"active", "committed", "canceling"}
  /\ pause = "asked" => row = "canceling"
  /\ pausable \/ pause # "none" \/ row = "forgotten" => shape.file
  /\ withdrawn # {} =>
       /\ row = "canceling"
       /\ \/ flow.phase = "canceling" /\ withdrawn \subseteq {"upload", "download"}
          \/ flow.phase = "local" /\ withdrawn = {"local"}

\* A request is answered once, by a worker that ended, and truthfully.
Results ==
  /\ \A a \in Agents : \A i \in DOMAIN box[a] :
       box[a][i].kind = "result" =>
         /\ AgentOf(box[a][i].req) = a
         /\ worker[box[a][i].req] = "ended"
         /\ \A j \in DOMAIN box[a] : IsResultOf(box[a][j], box[a][i].req) => i = j
  /\ \A a \in Agents : \A i \in DOMAIN box[a] : box[a][i].kind = "verifying" => shape.file
  /\ Result("upload", "ok") => target # <<>>
  /\ Result("delete", "ok") => target # <<>> /\ source = "gone"
  /\ Result("local", "ok") => target # <<>> /\ (shape.move => source = "gone")

Granted == {"committed", "errored", "completed"}

Allowed == Frame("decision", Publisher, "allowed")

\* What the row says before the destination and the source may change, and after.
Grants ==
  /\ Gated /\ (\/ Has(urgent[AgentOf(Publisher)], Allowed)
               \/ worker[Publisher] \in {"publishing", "renaming"}
               \/ target # <<>>) => row \in Granted
  /\ target # <<>> => worker[Publisher] \in {"removing", "deleting", "ended"}
  /\ flow.phase = "deleting" \/ ticket["delete"] # "none" =>
       shape.move /\ target # <<>> /\ worker["upload"] = "ended"
  /\ row = "completed" =>
       target # <<>> /\ worker[Publisher] = "ended" /\ (shape.move => source = "gone")
  /\ source = "gone" =>
       /\ shape.move /\ target # <<>> /\ worker[Publisher] = "ended"
       /\ ~shape.local => worker["delete"] = "ended"
  /\ worker["local"] \in {"askingRename", "renaming", "removing", "deleting"} => shape.move
  /\ worker["local"] \in {"asking", "askingRename"} => shape.file
  /\ worker["upload"] \notin {"renaming", "removing", "deleting"}

\* While the prefix is verified nobody changes the partial, and every digest on
\* its way is of the segment that is compared.
Verified ==
  flow.phase = "verifying" =>
    /\ shape.resume
    /\ flow.digest["source"] \in {"none", "captured"}
    /\ flow.digest["dest"] # "none" =>
         flow.offset < Len(partial) /\ flow.digest["dest"] = partial[flow.offset + 1]
    /\ \A h \in Hashes : flow.digest[AgentOf(h)] # "none" =>
         worker[h] = "ended" /\ ~Answered(box[AgentOf(h)], h)
    /\ \A d \in Marks :
         /\ Result("hashSource", d) => d = "captured"
         /\ Result("hashDest", d) =>
              flow.offset < Len(partial) /\ d = partial[flow.offset + 1]

AllIn(s, versions) == \A i \in DOMAIN s : s[i] \in versions

\* What a reader may have read: the captured version, and of a directory whose
\* path is another one's by now, any.
Pure == IF shape.file \/ source = "captured" THEN {"captured"} ELSE Versions

\* A local worker has not touched the partial.
Early == {"absent", "checking", "askingRename", "renaming", "preparing"}

\* What is staged is the verified prefix and then what was read, which is of the
\* captured version as long as the source is.
Contents ==
  /\ shape.resume => shape.file
  /\ Len(partial) <= Segments /\ flow.offset <= Segments
  /\ ~shape.resume => flow.offset = 0
  /\ opened \in Pure
  /\ ~shape.local /\ ticket["settle"] = "none" /\ worker["upload"] \in {"absent", "preparing"} =>
       /\ flow.offset <= Len(partial)
       /\ \A i \in 1 .. flow.offset : partial[i] = "captured"
  /\ worker["download"] \in {"absent", "opening"} => sent = 0
  /\ fin => worker["download"] = "ended"
  /\ worker["upload"] \in {"staging", "asking", "publishing"} =>
       partial # Absent /\ AllIn(partial, Pure)
  /\ worker["upload"] = "staging" /\ worker["download"] \in {"absent", "opening"} =>
       Len(partial) = flow.offset
  /\ worker["upload"] \in {"asking", "publishing"} => fin /\ Len(partial) = Segments
  /\ worker["upload"] = "ended" /\ target # <<>> =>
       fin /\ Len(target) = Segments /\ AllIn(target, Pure)
  /\ shape.local /\ shape.resume /\ worker["local"] \in Early => partial # Absent
  /\ worker["local"] = "verifying" => partial # Absent
  /\ worker["local"] \in {"staging", "asking", "publishing"} =>
       partial # Absent /\ AllIn(partial, Pure)
  /\ worker["local"] \in {"asking", "publishing"} => Len(partial) = Segments
  /\ worker["local"] = "removing" => Len(target) = Segments /\ AllIn(target, Pure)
  /\ PublishedIsWhole

\* Who removes the path has found the captured version there, after it was
\* published; what takes its place from then on is late.
Removal == Removing => target = Whole("captured") /\ source # "other"

CopyInvariant ==
  /\ CopyTypeOK /\ Tickets /\ RowPhases /\ Results /\ Grants /\ Verified /\ Contents
  /\ Removal

-----------------------------------------------------------------------------
(* Messages in a queue *)

\* What is taken from a queue was in it.
LEMMA TakenFrame ==
  ASSUME NEW S, NEW s \in Seq(S), s # <<>>
  PROVE  /\ Tail(s) \in Seq(S) /\ Head(s) \in S
         /\ 1 \in DOMAIN s /\ Head(s) = s[1]
         /\ \A i \in DOMAIN Tail(s) :
              i \in Nat /\ i >= 1 /\ i + 1 \in DOMAIN s /\ Tail(s)[i] = s[i + 1]
  OBVIOUS

\* What is in a queue was in it before or has just been added.
LEMMA AddedFrame ==
  ASSUME NEW S, NEW s \in Seq(S), NEW e \in S
  PROVE  /\ Append(s, e) \in Seq(S)
         /\ \A i \in DOMAIN Append(s, e) :
              \/ i \in DOMAIN s /\ Append(s, e)[i] = s[i]
              \/ i = Len(s) + 1 /\ i \notin DOMAIN s /\ Append(s, e)[i] = e
  OBVIOUS

\* The same of an array of queues.
LEMMA QueuesTyped ==
  ASSUME NEW S, NEW qs \in [Agents -> Seq(S)], NEW a \in Agents
  PROVE  /\ qs[a] # <<>> => [qs EXCEPT ![a] = Tail(@)] \in [Agents -> Seq(S)]
         /\ \A e \in S : [qs EXCEPT ![a] = Append(@, e)] \in [Agents -> Seq(S)]
<1>1. qs[a] # <<>> => Tail(qs[a]) \in Seq(S)
  BY TakenFrame
<1>2. \A e \in S : Append(qs[a], e) \in Seq(S)
  BY AddedFrame
<1>3. QED
  BY <1>1, <1>2

\* A step of the agents sends at most one frame, which is well formed.
LEMMA SendsTyped ==
  ASSUME box \in [Agents -> Seq(Frames)], NEW a \in Agents, NEW f \in Frames, Sends(a, f)
  PROVE  /\ box' \in [Agents -> Seq(Frames)]
         /\ box' = box \/ box' = [box EXCEPT ![a] = Append(@, f)]
  BY QueuesTyped DEF Sends

\* Results are well formed, whatever the request.
LEMMA ResultTyped ==
  ASSUME NEW r \in Requests, NEW out \in Outcomes
  PROVE  /\ Frame("result", r, out) \in Frames
         /\ Frame("result", r, out).kind = "result"
         /\ Frame("result", r, out).req = r /\ Frame("result", r, out).out = out
         /\ AgentOf(r) \in Agents
  BY DEF Frame, Frames, AgentOf, Agents

\* So are the other frames.
LEMMA NoticeTyped ==
  /\ \A kind \in {"ready", "publish", "verifying"}, r \in {"upload", "local"} :
       /\ Frame(kind, r, "none") \in Frames
       /\ Frame(kind, r, "none").kind # "result"
  /\ Frame("lost", "none", "none") \in Frames
  /\ Frame("lost", "none", "none").kind # "result"
  BY DEF Frame, Frames

\* And what the router sends out of turn.
LEMMA UrgentTyped ==
  /\ \A r \in Requests, why \in Reasons : Frame("cancel", r, why) \in Urgents
  /\ \A r \in {"upload", "local"}, answer \in {"allowed", "denied"} :
       Frame("decision", r, answer) \in Urgents
  BY DEF Frame, Urgents

-----------------------------------------------------------------------------
(* The agents' steps *)

LaneSteps ==
  \/ \E r \in Requests :
       WriteCommand(r) \/ Spawn(r) \/ (\E why \in Reasons : ReceiveCancel(r, why))
  \/ \E a \in Agents : AgentNotices(a)

SourceSteps ==
  \/ \E r \in Hashes : HashSegment(r)
  \/ SettlePartial \/ VerifySource \/ DeleteSource \/ ReplaceSource
  \/ OpenSource \/ SendSegment \/ FinishSource \/ StopSource \/ FailSource

UploadSteps ==
  \/ PrepareUpload \/ StageSegment \/ StopUpload \/ FailUpload \/ AskUpload
  \/ UploadTimesOut \/ PublishUpload
  \/ \E answer \in {"allowed", "denied"} : UploadDecision(answer)

LocalSteps ==
  \/ CheckLocal \/ RenameLocal \/ PrepareLocal \/ VerifyLocal \/ StageLocal
  \/ StagedLocal \/ StopLocal \/ FailLocal \/ LocalTimesOut \/ PublishLocal
  \/ VerifyRemoval \/ RemoveLocal
  \/ \E answer \in {"allowed", "denied"} : LocalDecision(answer)

AgentSteps == LaneSteps \/ SourceSteps \/ UploadSteps \/ LocalSteps

NetSteps == \E a \in Agents : Disconnect(a) \/ Reconnect(a)

RouterSteps == RouterWorks \/ Start \/ StartRefused \/ UserCancel \/ UserPause

\* Every step is the router's, an agent's or the network's.
LEMMA StepKinds == CopyNext => RouterSteps \/ AgentSteps \/ NetSteps
  BY DEF CopyNext, AgentsWork, Surroundings, RouterSteps, AgentSteps, NetSteps, LaneSteps,
         SourceSteps, UploadSteps, LocalSteps

\* An agent decides nothing.
LEMMA AgentsDecideNothing ==
  AgentSteps => UNCHANGED <<shape, flow, row, pausable, pause, withdrawn, conn, losses>>
<1> USE DEF fileVars, rowVars, laneVars, workVars, netVars
<1>1. LaneSteps => UNCHANGED <<shape, flow, row, pausable, pause, withdrawn, conn, losses>>
  BY DEF LaneSteps, WriteCommand, Spawn, ReceiveCancel, AgentNotices
<1>2. SourceSteps => UNCHANGED <<shape, flow, row, pausable, pause, withdrawn, conn, losses>>
  BY DEF SourceSteps, HashSegment, SettlePartial, VerifySource, DeleteSource, ReplaceSource, OpenSource,
         SendSegment, FinishSource, StopSource, FailSource, SourceEnds
<1>3. UploadSteps => UNCHANGED <<shape, flow, row, pausable, pause, withdrawn, conn, losses>>
  BY DEF UploadSteps, UploadKeeps, PrepareUpload, StageSegment, StopUpload, FailUpload,
         AskUpload, UploadTimesOut, PublishUpload, UploadDecision
<1>4. LocalSteps => UNCHANGED <<shape, flow, row, pausable, pause, withdrawn, conn, losses>>
  BY DEF LocalSteps, LocalKeeps, CheckLocal, RenameLocal, PrepareLocal, VerifyLocal, StageLocal,
         StagedLocal, StopLocal, FailLocal, LocalTimesOut, PublishLocal, VerifyRemoval, RemoveLocal,
         LocalDecision
<1>5. QED
  BY <1>1, <1>2, <1>3, <1>4 DEF AgentSteps

\* The files keep their kinds.
LEMMA FilesTyped ==
  ASSUME CopyInvariant, AgentSteps
  PROVE  /\ source' \in Versions \cup {"gone"} /\ opened' \in Versions
         /\ target' \in Seq(Marks)
         /\ partial' = Absent \/ partial' \in Seq(Marks)
         /\ sent' \in 0 .. Segments
<1> USE DEF fileVars, rowVars, laneVars, workVars, netVars, Versions, Marks
<1>0. /\ source \in Versions \cup {"gone"} /\ opened \in Versions
      /\ target \in Seq(Marks) /\ <<>> \in Seq(Marks)
      /\ partial = Absent \/ partial \in Seq(Marks)
      /\ sent \in 0 .. Segments /\ flow.offset \in 0 .. Segments
      /\ Segments \in Nat \ {0}
  BY CopyAssumption DEF CopyInvariant, CopyTypeOK, Contents
<1>1. CASE LaneSteps
  <2>1. UNCHANGED <<source, target, partial, opened, sent>>
    BY <1>1 DEF LaneSteps, WriteCommand, Spawn, ReceiveCancel, AgentNotices
  <2>2. QED
    BY <1>0, <2>1
<1>2. CASE SourceSteps
  <2>1. UNCHANGED target /\ (partial' = partial \/ partial' = Absent)
    BY <1>2 DEF SourceSteps, HashSegment, SettlePartial, VerifySource, DeleteSource, ReplaceSource, OpenSource,
         SendSegment, FinishSource, StopSource, FailSource, SourceEnds, NoFileChanges
  <2>2. source' \in {source, "other", "late", "gone"}
    BY <1>2 DEF SourceSteps, HashSegment, SettlePartial, VerifySource, DeleteSource, ReplaceSource, OpenSource,
         SendSegment, FinishSource, StopSource, FailSource, SourceEnds, NoFileChanges
  <2>3. opened' = opened \/ (opened' = source /\ source # "gone")
    BY <1>2 DEF SourceSteps, HashSegment, SettlePartial, VerifySource, DeleteSource, ReplaceSource, OpenSource,
         SendSegment, FinishSource, StopSource, FailSource, SourceEnds
  <2>4. sent' = sent \/ sent' = flow.offset \/ (sent < Segments /\ sent' = sent + 1)
    BY <1>2 DEF SourceSteps, HashSegment, SettlePartial, VerifySource, DeleteSource, ReplaceSource, OpenSource,
         SendSegment, FinishSource, StopSource, FailSource, SourceEnds
  <2>5. QED
    BY <1>0, <2>1, <2>2, <2>3, <2>4
<1>3. CASE UploadSteps
  <2>1. UNCHANGED <<source, opened, sent>>
    BY <1>3 DEF UploadSteps, UploadKeeps, PrepareUpload, StageSegment, StopUpload, FailUpload,
         AskUpload, UploadTimesOut, PublishUpload, UploadDecision
  <2>2. \/ target' = target
        \/ worker["upload"] = "publishing" /\ target' = partial
    BY <1>3 DEF UploadSteps, UploadKeeps, PrepareUpload, StageSegment, StopUpload, FailUpload,
         AskUpload, UploadTimesOut, PublishUpload, UploadDecision
  <2>3. \/ partial' = partial \/ partial' = Absent \/ partial' = <<>>
        \/ partial' = Prefix(partial, flow.offset) /\ worker["upload"] = "preparing" /\ shape.resume
        \/ /\ worker["upload"] = "staging"
           /\ \E version \in Readable : partial' = Append(partial, version)
    BY <1>3 DEF UploadSteps, UploadKeeps, PrepareUpload, StageSegment, StopUpload, FailUpload,
         AskUpload, UploadTimesOut, PublishUpload, UploadDecision, Prepare, Stops, Fails, Leaves
  <2>4. worker["upload"] \in {"staging", "publishing"} => partial # Absent
    BY DEF CopyInvariant, Contents
  <2>5. worker["upload"] = "preparing" =>
          flow.offset = 0 \/ (flow.offset <= Len(partial) /\ partial # Absent)
    <3>1. ticket["upload"] # "none" => ticket["settle"] = "none" /\ ~shape.local
      BY DEF CopyInvariant, Tickets, Requests
    <3>2. worker["upload"] = "preparing" => ticket["upload"] # "none"
      BY DEF CopyInvariant, Tickets, Requests
    <3>3. QED
      BY <3>1, <3>2, <1>0 DEF CopyInvariant, Contents, Absent
  <2>6. \A n \in 0 .. Segments :
          /\ n = 0 => Prefix(partial, n) = <<>>
          /\ partial # Absent /\ n <= Len(partial) => Prefix(partial, n) \in Seq(Marks)
    BY <1>0 DEF Prefix
  <2>7. QED
    <3>1. target' \in Seq(Marks)
      BY <1>0, <2>2, <2>4
    <3>2. worker["upload"] = "preparing" => Prefix(partial, flow.offset) \in Seq(Marks)
      BY <1>0, <2>5, <2>6
    <3>4. \A version \in Readable :
            worker["upload"] = "staging" => Append(partial, version) \in Seq(Marks)
      BY <1>0, <2>4 DEF Readable
    <3>5. partial' = Absent \/ partial' \in Seq(Marks)
      BY <1>0, <2>3, <3>2, <3>4, Zenon
    <3>3. QED
      BY <1>0, <2>1, <3>1, <3>5
<1>4. CASE LocalSteps
  <2>0. Live("local") => source # "gone"
    BY DEF CopyInvariant, Tickets, Grants, Publisher, Live, Requests
  <2>1. UNCHANGED sent
    BY <1>4 DEF LocalSteps, LocalKeeps, CheckLocal, RenameLocal, PrepareLocal, VerifyLocal, StageLocal,
         StagedLocal, StopLocal, FailLocal, LocalTimesOut, PublishLocal, VerifyRemoval, RemoveLocal,
         LocalDecision
  <2>2. \/ target' = target
        \/ worker["local"] = "publishing" /\ target' = partial
        \/ worker["local"] = "renaming" /\ target' = Whole(source)
    BY <1>4 DEF LocalSteps, LocalKeeps, LocalAt, CheckLocal, RenameLocal, PrepareLocal, VerifyLocal, StageLocal,
         StagedLocal, StopLocal, FailLocal, LocalTimesOut, PublishLocal, VerifyRemoval, RemoveLocal,
         LocalDecision
  <2>3. \/ partial' = partial \/ partial' = Absent \/ partial' = <<>>
        \/ worker["local"] = "verifying" /\ \E n \in 0 .. Len(partial) : partial' = Prefix(partial, n)
        \/ /\ worker["local"] = "staging"
           /\ \E version \in Readable : partial' = Append(partial, version)
    BY <1>4 DEF LocalSteps, LocalKeeps, LocalAt, CheckLocal, RenameLocal, PrepareLocal, VerifyLocal, StageLocal,
         StagedLocal, StopLocal, FailLocal, LocalTimesOut, PublishLocal, VerifyRemoval, RemoveLocal,
         LocalDecision, Stops, Fails, Leaves
  <2>4. worker["local"] \in {"staging", "publishing", "verifying"} => partial # Absent
    BY DEF CopyInvariant, Contents
  <2>5. source' \in {source, "gone"}
    BY <1>4 DEF LocalSteps, LocalKeeps, LocalAt, CheckLocal, RenameLocal, PrepareLocal, VerifyLocal, StageLocal,
         StagedLocal, StopLocal, FailLocal, LocalTimesOut, PublishLocal, VerifyRemoval, RemoveLocal,
         LocalDecision
  <2>6. opened' = opened \/ opened' = "captured" \/ (worker["local"] = "preparing" /\ opened' = source)
    BY <1>4 DEF LocalSteps, LocalKeeps, LocalAt, CheckLocal, RenameLocal, PrepareLocal, VerifyLocal, StageLocal,
         StagedLocal, StopLocal, FailLocal, LocalTimesOut, PublishLocal, VerifyRemoval, RemoveLocal,
         LocalDecision
  <2>7. target' \in Seq(Marks)
    <3>1. worker["local"] = "renaming" => Whole(source) \in Seq(Marks)
      BY <1>0, <2>0 DEF Live, Whole
    <3>2. QED
      BY <1>0, <2>2, <2>4, <3>1
  <2>8. partial' = Absent \/ partial' \in Seq(Marks)
    <3>1. partial \in Seq(Marks) => \A n \in 0 .. Len(partial) : Prefix(partial, n) \in Seq(Marks)
      BY DEF Prefix
    <3>2. \A version \in Readable :
            worker["local"] = "staging" => Append(partial, version) \in Seq(Marks)
      BY <1>0, <2>4 DEF Readable
    <3>3. ASSUME worker["local"] = "verifying", NEW n \in 0 .. Len(partial), partial' = Prefix(partial, n)
          PROVE  partial' \in Seq(Marks)
      BY <1>0, <2>4, <3>1, <3>3
    <3>4. QED
      BY <1>0, <2>3, <3>2, <3>3, Zenon
  <2>9. QED
    BY <1>0, <2>0, <2>1, <2>5, <2>6, <2>7, <2>8 DEF Live
<1>5. QED
  BY <1>1, <1>2, <1>3, <1>4 DEF AgentSteps

\* So do the lanes.
LEMMA LanesTyped ==
  ASSUME CopyTypeOK, AgentSteps
  PROVE  /\ ticket' \in [Requests -> {"none", "queued", "written", "withdrawn"}]
         /\ urgent' \in [Agents -> Seq(Urgents)]
         /\ token' \in [Requests -> BOOLEAN] /\ reason' \in [Requests -> Reasons]
         /\ linked' \in [Agents -> BOOLEAN]
<1> DEFINE Good ==
      /\ ticket \in [Requests -> {"none", "queued", "written", "withdrawn"}]
      /\ urgent \in [Agents -> Seq(Urgents)]
      /\ token \in [Requests -> BOOLEAN] /\ reason \in [Requests -> Reasons]
      /\ linked \in [Agents -> BOOLEAN]
<1> SUFFICES Good'
  OBVIOUS
<1> USE DEF fileVars, rowVars, laneVars, workVars, netVars
<1>0. Good
  BY DEF CopyTypeOK
<1>1. ASSUME NEW r \in Requests, WriteCommand(r) \/ Spawn(r) PROVE Good'
  BY <1>0, <1>1 DEF WriteCommand, Spawn
<1>2. ASSUME NEW kind, NEW r \in Requests, NEW out, Received(kind, r, out)
      PROVE  urgent' \in [Agents -> Seq(Urgents)]
  <2>1. AgentOf(r) \in Agents
    BY DEF AgentOf, Agents
  <2>2. QED
    BY <1>0, <1>2, <2>1, QueuesTyped DEF Received
<1>3. ASSUME NEW r \in Requests, NEW why \in Reasons, ReceiveCancel(r, why) PROVE Good'
  <2>1. urgent' \in [Agents -> Seq(Urgents)]
    BY <1>2, <1>3 DEF ReceiveCancel
  <2>2. token' \in [Requests -> BOOLEAN] /\ reason' \in [Requests -> Reasons]
    BY <1>0, <1>3 DEF ReceiveCancel, Live
  <2>3. UNCHANGED <<ticket, linked>>
    BY <1>3 DEF ReceiveCancel
  <2>4. QED
    BY <1>0, <2>1, <2>2, <2>3
<1>4. ASSUME NEW a \in Agents, AgentNotices(a) PROVE Good'
  <2>1. urgent' \in [Agents -> Seq(Urgents)]
    BY <1>0, <1>4 DEF AgentNotices
  <2>2. linked' \in [Agents -> BOOLEAN]
    BY <1>0, <1>4 DEF AgentNotices
  <2>3. token' \in [Requests -> BOOLEAN]
    <3>1. \A r \in Requests : (token[r] \/ (AgentOf(r) = a /\ Live(r))) \in BOOLEAN
      OBVIOUS
    <3>2. QED
      BY <3>1, <1>4, Zenon DEF AgentNotices
  <2>4. ticket' \in [Requests -> {"none", "queued", "written", "withdrawn"}]
    BY <1>0, <1>4 DEF AgentNotices
  <2>5. UNCHANGED reason
    BY <1>4 DEF AgentNotices
  <2>6. QED
    BY <1>0, <2>1, <2>2, <2>3, <2>4, <2>5
<1>5. CASE SourceSteps
  <2>1. UNCHANGED <<ticket, urgent, token, reason, linked>>
    BY <1>5 DEF SourceSteps, HashSegment, SettlePartial, VerifySource, DeleteSource, ReplaceSource, OpenSource,
         SendSegment, FinishSource, StopSource, FailSource, SourceEnds
  <2>2. QED
    BY <1>0, <2>1
<1>6. CASE UploadSteps
  <2>1. UNCHANGED <<ticket, token, reason, linked>>
    BY <1>6 DEF UploadSteps, UploadKeeps, PrepareUpload, StageSegment, StopUpload, FailUpload,
         AskUpload, UploadTimesOut, PublishUpload, UploadDecision
  <2>2. urgent' = urgent \/ \E answer \in {"allowed", "denied"} : Received("decision", "upload", answer)
    BY <1>6 DEF UploadSteps, UploadKeeps, PrepareUpload, StageSegment, StopUpload, FailUpload,
         AskUpload, UploadTimesOut, PublishUpload, UploadDecision
  <2>3. QED
    BY <1>0, <1>2, <2>1, <2>2 DEF Requests
<1>7. CASE LocalSteps
  <2>1. UNCHANGED <<ticket, token, reason, linked>>
    BY <1>7 DEF LocalSteps, LocalKeeps, CheckLocal, RenameLocal, PrepareLocal, VerifyLocal, StageLocal,
         StagedLocal, StopLocal, FailLocal, LocalTimesOut, PublishLocal, VerifyRemoval, RemoveLocal,
         LocalDecision
  <2>2. urgent' = urgent \/ \E answer \in {"allowed", "denied"} : Received("decision", "local", answer)
    BY <1>7 DEF LocalSteps, LocalKeeps, CheckLocal, RenameLocal, PrepareLocal, VerifyLocal, StageLocal,
         StagedLocal, StopLocal, FailLocal, LocalTimesOut, PublishLocal, VerifyRemoval, RemoveLocal,
         LocalDecision
  <2>3. QED
    BY <1>0, <1>2, <2>1, <2>2 DEF Requests
<1>8. QED
  BY <1>1, <1>3, <1>4, <1>5, <1>6, <1>7 DEF AgentSteps, LaneSteps

\* So do the flags.
LEMMA FlagsTyped ==
  ASSUME CopyTypeOK, AgentSteps
  PROVE  durable' \in BOOLEAN /\ fin' \in BOOLEAN /\ trouble' \in {"none", "fallback", "real"}
<1> USE DEF fileVars, rowVars, laneVars, workVars, netVars, Hindered
<1>0. durable \in BOOLEAN /\ fin \in BOOLEAN /\ trouble \in {"none", "fallback", "real"}
  BY DEF CopyTypeOK
<1>1. CASE LaneSteps
  BY <1>0, <1>1 DEF LaneSteps, WriteCommand, Spawn, ReceiveCancel, AgentNotices
<1>2. CASE SourceSteps
  BY <1>0, <1>2 DEF SourceSteps, HashSegment, SettlePartial, VerifySource, DeleteSource, ReplaceSource, OpenSource,
         SendSegment, FinishSource, StopSource, FailSource, SourceEnds, NoFileChanges
<1>3. CASE UploadSteps
  BY <1>0, <1>3 DEF UploadSteps, UploadKeeps, PrepareUpload, StageSegment, StopUpload, FailUpload,
         AskUpload, UploadTimesOut, PublishUpload, UploadDecision, Stops, Fails, Leaves
<1>4. CASE LocalSteps
  BY <1>0, <1>4 DEF LocalSteps, LocalKeeps, CheckLocal, RenameLocal, PrepareLocal, VerifyLocal, StageLocal,
         StagedLocal, StopLocal, FailLocal, LocalTimesOut, PublishLocal, VerifyRemoval, RemoveLocal,
         LocalDecision, Stops, Fails, Leaves
<1>5. QED
  BY <1>1, <1>2, <1>3, <1>4 DEF AgentSteps

-----------------------------------------------------------------------------
(* What an agent's step does to files, workers and messages *)

\* The destination changes once, by the publisher's hand.
LEMMA TargetChanges ==
  ASSUME CopyInvariant, AgentSteps
  PROVE  \/ target' = target
         \/ /\ target = <<>> /\ target' # <<>>
            /\ worker[Publisher] \in {"publishing", "renaming"}
            /\ worker' = [worker EXCEPT ![Publisher] = "removing"]
                 \/ worker' = [worker EXCEPT ![Publisher] = "ended"]
<1> USE DEF fileVars, rowVars, laneVars, workVars, netVars
<1>0. /\ target # <<>> => worker[Publisher] \in {"removing", "deleting", "ended"}
      /\ worker["upload"] # "absent" => ~shape.local
      /\ worker["local"] # "absent" => shape.local
      /\ worker["upload"] = "publishing" => Len(partial) = Segments
      /\ worker["local"] = "publishing" => Len(partial) = Segments
      /\ partial = Absent \/ partial \in Seq(Marks)
      /\ Segments \in Nat \ {0}
  BY CopyAssumption DEF CopyInvariant, CopyTypeOK, Tickets, Grants, Contents, Requests
<1>1. partial # <<>> \/ Len(partial) = 0
  OBVIOUS
<1>2. Whole(source) # <<>>
  <2>1. 1 \in DOMAIN Whole(source)
    BY <1>0 DEF Whole
  <2>2. QED
    BY <2>1
<1>3. CASE LaneSteps
  BY <1>3 DEF LaneSteps, WriteCommand, Spawn, ReceiveCancel, AgentNotices
<1>4. CASE SourceSteps
  BY <1>4 DEF SourceSteps, HashSegment, SettlePartial, VerifySource, DeleteSource, ReplaceSource, OpenSource,
         SendSegment, FinishSource, StopSource, FailSource, SourceEnds, NoFileChanges
<1>5. CASE UploadSteps
  <2>1. target' = target \/ PublishUpload
    BY <1>5 DEF UploadSteps, PrepareUpload, StageSegment, StopUpload, FailUpload,
         AskUpload, UploadTimesOut, UploadDecision
  <2>2. ASSUME PublishUpload
        PROVE  /\ worker["upload"] = "publishing" /\ target' = partial
               /\ worker' = [worker EXCEPT !["upload"] = "ended"]
    BY <2>2 DEF PublishUpload, Answers
  <2>3. QED
    BY <1>0, <1>1, <2>1, <2>2 DEF Publisher
<1>6. CASE LocalSteps
  <2>1. target' = target \/ PublishLocal \/ RenameLocal
    BY <1>6 DEF LocalSteps, CheckLocal, PrepareLocal, VerifyLocal, StageLocal,
         StagedLocal, StopLocal, FailLocal, LocalTimesOut, VerifyRemoval, RemoveLocal, LocalDecision
  <2>2. ASSUME PublishLocal
        PROVE  /\ worker["local"] = "publishing" /\ target' = partial
               /\ \/ worker' = [worker EXCEPT !["local"] = "removing"]
                  \/ worker' = [worker EXCEPT !["local"] = "ended"]
    BY <2>2 DEF PublishLocal, Answers, LocalAt, LocalGoes
  <2>3. ASSUME RenameLocal
        PROVE  \/ target' = target
               \/ /\ worker["local"] = "renaming" /\ target' = Whole(source)
                  /\ worker' = [worker EXCEPT !["local"] = "ended"]
    BY <2>3 DEF RenameLocal, Answers, LocalAt
  <2>4. QED
    BY <1>0, <1>1, <1>2, <2>1, <2>2, <2>3 DEF Publisher
<1>7. QED
  BY <1>3, <1>4, <1>5, <1>6 DEF AgentSteps

\* The source goes at most once, after the destination was published.
LEMMA SourceChanges ==
  ASSUME CopyInvariant, AgentSteps
  PROVE  /\ source' = "gone" =>
              \/ source = "gone"
              \/ /\ shape.move /\ target' # <<>>
                 /\ target' = Whole(source) \/ source = "late"
                 /\ \E r \in {"local", "delete"} :
                      Live(r) /\ worker' = [worker EXCEPT ![r] = "ended"]
         /\ source' = "captured" => source = "captured"
         /\ source = "gone" => source' = "gone"
         /\ source' = "other" => source = "other" \/ ~Removing
<1> USE DEF fileVars, rowVars, laneVars, workVars, netVars
<1>0. /\ worker["delete"] # "absent" => shape.move
      /\ worker["local"] \in {"renaming", "deleting"} => shape.move
      /\ source \in Versions \cup {"gone"}
      /\ "deleting" \in {worker["delete"], worker["local"]} =>
           target = Whole("captured") /\ source # "other"
      /\ \A version : Whole(version) # <<>>
  <2>1. Removal /\ CopyTypeOK /\ Tickets /\ Grants
    BY DEF CopyInvariant
  <2>2. \A version : 1 \in DOMAIN Whole(version)
    BY CopyAssumption DEF Whole
  <2>3. \A version : Whole(version) # <<>>
    BY <2>2
  <2>4. QED
    BY <2>1, <2>3 DEF CopyTypeOK, Tickets, Grants, Requests, Removal, Removing
<1>1. CASE LaneSteps \/ UploadSteps
  BY <1>1 DEF LaneSteps, WriteCommand, Spawn, ReceiveCancel, AgentNotices, UploadSteps,
       UploadKeeps, PrepareUpload, StageSegment, StopUpload, FailUpload,
       AskUpload, UploadTimesOut, PublishUpload, UploadDecision
<1>2. CASE SourceSteps
  <2>1. source' = source \/ ReplaceSource \/ DeleteSource
    BY <1>2 DEF SourceSteps, HashSegment, SettlePartial, VerifySource, OpenSource,
         SendSegment, FinishSource, StopSource, FailSource, SourceEnds, NoFileChanges
  <2>2. ReplaceSource => /\ source = "captured" /\ source' \in {"late", "other"}
                         /\ source' = "other" => ~Removing
    BY DEF ReplaceSource
  <2>3. ASSUME DeleteSource
        PROVE  \/ source' = source
               \/ /\ worker["delete"] = "deleting" /\ source' = "gone"
                  /\ UNCHANGED target /\ worker' = [worker EXCEPT !["delete"] = "ended"]
    BY <2>3 DEF DeleteSource, Answers
  <2>4. QED
    BY <1>0, <2>1, <2>2, <2>3 DEF Live, Versions
<1>3. CASE LocalSteps
  <2>1. source' = source \/ RenameLocal \/ RemoveLocal
    BY <1>3 DEF LocalSteps, LocalKeeps, CheckLocal, PrepareLocal, VerifyLocal, StageLocal,
         StagedLocal, StopLocal, FailLocal, LocalTimesOut, PublishLocal, VerifyRemoval,
         LocalDecision
  <2>2. ASSUME RenameLocal
        PROVE  \/ source' = source
               \/ /\ worker["local"] = "renaming" /\ source' = "gone" /\ target' = Whole(source)
                  /\ worker' = [worker EXCEPT !["local"] = "ended"]
    BY <2>2 DEF RenameLocal, Answers, LocalAt
  <2>3. ASSUME RemoveLocal
        PROVE  \/ source' = source
               \/ /\ worker["local"] = "deleting" /\ source' = "gone"
                  /\ UNCHANGED target /\ worker' = [worker EXCEPT !["local"] = "ended"]
    BY <2>3 DEF RemoveLocal, Answers, LocalAt
  <2>4. QED
    BY <1>0, <2>1, <2>2, <2>3 DEF Live, Versions
<1>4. QED
  BY <1>1, <1>2, <1>3 DEF AgentSteps

\* So what a reader has read stays what a reader may have read.
LEMMA PureGrows ==
  ASSUME CopyInvariant, AgentSteps
  PROVE  /\ Pure \subseteq Pure' /\ Pure \subseteq Versions
         /\ source' = source => Pure' = Pure
         /\ Readable \subseteq Pure
<1>1. (source' = "captured" => source = "captured") /\ UNCHANGED shape
  BY SourceChanges, AgentsDecideNothing
<1>2. opened \in Pure
  BY DEF CopyInvariant, Contents
<1>3. QED
  BY <1>1, <1>2 DEF Pure, Versions, Readable

\* One worker goes on, and says at most one thing; its result is the last and
\* is true.
Goes(r) ==
  /\ worker[r] # "ended" /\ ticket[r] = "written"
  /\ \E step \in Steps \ {"absent"} :
       /\ worker' = [worker EXCEPT ![r] = step]
       /\ \/ UNCHANGED box
          \/ \E f \in Frames :
               /\ box' = [box EXCEPT ![AgentOf(r)] = Append(@, f)]
               /\ f.kind = "verifying" => shape.file
               /\ f.kind = "result" =>
                    /\ f.req = r /\ step = "ended"
                    /\ f.out = "ok" /\ r \in {"upload", "local", "delete"} =>
                         target' # <<>> /\ (shape.move /\ r # "upload" => source' = "gone")

\* The same of a worker that answers.
LEMMA AnswersGoes ==
  ASSUME CopyInvariant, NEW r \in Requests, NEW out \in Outcomes, Answers(r, out),
         worker[r] # "ended", ticket[r] = "written",
         out = "ok" /\ r \in {"upload", "local", "delete"} =>
           target' # <<>> /\ (shape.move /\ r # "upload" => source' = "gone")
  PROVE  Goes(r)
<1>1. box \in [Agents -> Seq(Frames)]
  BY DEF CopyInvariant, CopyTypeOK
<1>2. \/ UNCHANGED box
      \/ box' = [box EXCEPT ![AgentOf(r)] = Append(@, Frame("result", r, out))]
  BY <1>1 DEF Answers, Sends
<1>3. /\ Frame("result", r, out) \in Frames
      /\ Frame("result", r, out).req = r /\ Frame("result", r, out).out = out
      /\ Frame("result", r, out).kind # "verifying"
  BY ResultTyped
<1>4. worker' = [worker EXCEPT ![r] = "ended"] /\ "ended" \in Steps \ {"absent"}
  BY DEF Answers, Steps
<1>5. QED
  BY <1>2, <1>3, <1>4 DEF Goes

\* The same of one that goes on, silently or with a notice.
LEMMA NoticeGoes ==
  ASSUME NEW r \in Requests, NEW step \in Steps \ {"absent"},
         worker' = [worker EXCEPT ![r] = step], worker[r] # "ended", ticket[r] = "written",
         \/ UNCHANGED box
         \/ \E kind \in {"ready", "publish", "verifying"} :
              /\ r \in {"upload", "local"} /\ Sends(AgentOf(r), Frame(kind, r, "none"))
              /\ kind = "verifying" => shape.file
  PROVE  Goes(r)
<1>1. CASE UNCHANGED box
  BY <1>1 DEF Goes
<1>2. CASE \E kind \in {"ready", "publish", "verifying"} :
             /\ r \in {"upload", "local"} /\ Sends(AgentOf(r), Frame(kind, r, "none"))
             /\ kind = "verifying" => shape.file
  <2>1. PICK kind \in {"ready", "publish", "verifying"} :
             /\ r \in {"upload", "local"} /\ Sends(AgentOf(r), Frame(kind, r, "none"))
             /\ kind = "verifying" => shape.file
    BY <1>2
  <2>2. /\ Frame(kind, r, "none") \in Frames /\ Frame(kind, r, "none").kind # "result"
        /\ Frame(kind, r, "none").kind = kind
    BY <2>1, NoticeTyped DEF Frame
  <2>3. \/ UNCHANGED box
        \/ box' = [box EXCEPT ![AgentOf(r)] = Append(@, Frame(kind, r, "none"))]
    BY <2>1 DEF Sends
  <2>4. QED
    BY <2>1, <2>2, <2>3 DEF Goes
<1>3. QED
  BY <1>1, <1>2

\* Agents work one worker at a time.
LEMMA AgentsGo ==
  ASSUME CopyInvariant, AgentSteps
  PROVE  UNCHANGED <<worker, box>> \/ \E r \in Requests : Goes(r)
<1> USE DEF fileVars, rowVars, laneVars, workVars, netVars
<1>0. \A r \in Requests : worker[r] # "absent" => ticket[r] = "written"
  BY DEF CopyInvariant, Tickets
<1>1. ASSUME NEW r \in Requests, NEW out \in Outcomes \ {"ok"}, Answers(r, out), Live(r)
      PROVE  Goes(r)
  BY <1>0, <1>1, AnswersGoes DEF Live
<1>2. {"error", "changed", "captured", "other", "torn", "paused"} \subseteq Outcomes \ {"ok"}
      /\ "ok" \in Outcomes
  BY DEF Outcomes, Marks, Versions
<1>3. \A why : OutcomeOf(why) \in {"paused", "error"}
  BY DEF OutcomeOf
<1>4. ASSUME NEW r \in {"upload", "local"}, NEW why, Stops(r, why) \/ Fails(r), Live(r) PROVE Goes(r)
  BY <1>1, <1>2, <1>3, <1>4 DEF Stops, Fails, Requests
<1>5. CASE LaneSteps
  <2>1. UNCHANGED <<worker, box>> \/ \E r \in Requests : Spawn(r)
    BY <1>5 DEF LaneSteps, WriteCommand, ReceiveCancel, AgentNotices
  <2>2. ASSUME NEW r \in Requests, Spawn(r) PROVE Goes(r)
    <3>1. FirstStep(r) \in Steps \ {"absent"}
      BY DEF FirstStep, Steps
    <3>2. QED
      BY <2>2, <3>1, NoticeGoes DEF Spawn
  <2>3. QED
    BY <2>1, <2>2
<1>6. CASE SourceSteps
  <2>1. ASSUME NEW r \in Hashes, HashSegment(r) PROVE Goes(r)
    <3>1. /\ r \in Requests /\ r \notin {"upload", "local", "delete"}
          /\ worker[r] # "ended" /\ ticket[r] = "written"
      BY <2>1 DEF HashSegment, Requests, Hashes
    <3>2. \E out \in Outcomes : Answers(r, out)
      <4>1. partial # Absent /\ flow.offset + 1 <= Len(partial) =>
              partial[flow.offset + 1] \in Outcomes
        BY DEF CopyInvariant, CopyTypeOK, Outcomes
      <4>2. QED
        BY <1>2, <2>1, <4>1 DEF HashSegment
    <3>3. QED
      BY <3>1, <3>2, AnswersGoes
  <2>2. ASSUME SettlePartial PROVE Goes("settle")
    <3>1. \E out \in {"ok", "error"} : Answers("settle", out)
      BY <2>2 DEF SettlePartial
    <3>2. worker["settle"] = "running" /\ "settle" \in Requests
      BY <2>2 DEF SettlePartial, Requests
    <3>3. QED
      BY <1>0, <1>2, <3>1, <3>2, AnswersGoes
  <2>3. ASSUME DeleteSource PROVE Goes("delete")
    <3>1. /\ worker["delete"] = "deleting" /\ "delete" \in Requests
          /\ Answers("delete", "error") \/ (Answers("delete", "ok") /\ source' = "gone")
          /\ UNCHANGED target
      BY <2>3 DEF DeleteSource, Requests
    <3>2. target # <<>>
      BY <1>0, <3>1 DEF CopyInvariant, Grants
    <3>3. QED
      BY <1>0, <1>2, <3>1, <3>2, AnswersGoes
  <2>v. ASSUME VerifySource PROVE Goes("delete")
    <3>1. /\ worker["delete"] = "running" /\ "delete" \in Requests
          /\ \/ Answers("delete", "error")
             \/ worker' = [worker EXCEPT !["delete"] = "deleting"] /\ UNCHANGED box
      BY <2>v DEF VerifySource, Requests
    <3>2. "deleting" \in Steps \ {"absent"}
      BY DEF Steps
    <3>3. QED
      BY <1>0, <1>2, <3>1, <3>2, AnswersGoes, NoticeGoes
  <2>4. ASSUME OpenSource \/ FinishSource \/ StopSource \/ FailSource PROVE Goes("download")
    <3>1. /\ worker["download"] \in {"opening", "sending"} /\ "download" \in Requests
          /\ \/ \E out \in {"ok", "error", "changed"} : Answers("download", out)
             \/ worker' = [worker EXCEPT !["download"] = "sending"] /\ UNCHANGED box
      BY <2>4 DEF OpenSource, FinishSource, StopSource, FailSource, SourceEnds, Requests
    <3>2. "sending" \in Steps \ {"absent"}
      BY DEF Steps
    <3>3. QED
      BY <1>0, <1>2, <3>1, <3>2, AnswersGoes, NoticeGoes
  <2>5. SendSegment \/ ReplaceSource => UNCHANGED <<worker, box>>
    BY DEF SendSegment, ReplaceSource
  <2>6. QED
    BY <1>6, <2>1, <2>2, <2>3, <2>v, <2>4, <2>5 DEF SourceSteps, Requests
<1>7. CASE UploadSteps
  <2>0. "upload" \in Requests /\ {"staging", "asking", "publishing"} \subseteq Steps \ {"absent"}
        /\ AgentOf("upload") = "dest"
    BY DEF Requests, Steps, AgentOf
  <2>1. ASSUME PrepareUpload PROVE Goes("upload")
    <3>1. /\ worker["upload"] = "preparing"
          /\ \/ /\ worker' = [worker EXCEPT !["upload"] = "staging"]
                /\ Sends("dest", Frame("ready", "upload", "none"))
             \/ Answers("upload", "error")
      BY <2>1 DEF PrepareUpload
    <3>2. QED
      BY <1>0, <1>1, <1>2, <2>0, <3>1, NoticeGoes DEF Live
  <2>2. ASSUME AskUpload PROVE Goes("upload")
    <3>1. /\ worker["upload"] = "staging"
          /\ worker' = [worker EXCEPT !["upload"] = "asking"]
          /\ Sends("dest", Frame("publish", "upload", "none"))
      BY <2>2 DEF AskUpload
    <3>2. QED
      BY <1>0, <2>0, <3>1, NoticeGoes
  <2>3. ASSUME StopUpload \/ FailUpload PROVE Goes("upload")
    <3>1. Live("upload") /\ (Stops("upload", reason["upload"]) \/ Fails("upload"))
      BY <2>3 DEF StopUpload, FailUpload, Live
    <3>2. QED
      BY <1>4, <3>1
  <2>4. ASSUME UploadTimesOut PROVE Goes("upload")
    <3>1. Live("upload") /\ Answers("upload", OutcomeOf(reason["upload"]))
      BY <2>4 DEF UploadTimesOut, Live
    <3>2. QED
      BY <1>1, <1>2, <1>3, <2>0, <3>1
  <2>5. ASSUME PublishUpload PROVE Goes("upload")
    <3>1. worker["upload"] = "publishing" /\ Answers("upload", "ok")
      BY <2>5 DEF PublishUpload
    <3>2. target' # <<>>
      <4>1. target' = partial /\ Len(partial) = Segments /\ Segments \in Nat \ {0}
        BY <2>5, CopyAssumption DEF PublishUpload, CopyInvariant, Contents
      <4>2. QED
        BY <4>1
    <3>3. QED
      BY <1>0, <1>2, <2>0, <3>1, <3>2, AnswersGoes
  <2>6. ASSUME NEW answer \in {"allowed", "denied"}, UploadDecision(answer)
        PROVE  UNCHANGED <<worker, box>> \/ Goes("upload")
    <3>1. \/ UNCHANGED <<worker, box>>
          \/ /\ worker["upload"] = "asking"
             /\ \/ worker' = [worker EXCEPT !["upload"] = "publishing"] /\ UNCHANGED box
                \/ Stops("upload", reason["upload"])
      BY <2>6 DEF UploadDecision
    <3>2. QED
      BY <1>0, <1>4, <2>0, <3>1, NoticeGoes DEF Live
  <2>7. StageSegment => UNCHANGED <<worker, box>>
    BY DEF StageSegment
  <2>8. QED
    BY <1>7, <2>0, <2>1, <2>2, <2>3, <2>4, <2>5, <2>6, <2>7 DEF UploadSteps
<1>8. CASE LocalSteps
  <2>0. "local" \in Requests
        /\ {"preparing", "renaming", "askingRename", "verifying", "staging", "asking",
            "publishing", "removing", "deleting"} \subseteq Steps \ {"absent"}
        /\ AgentOf("local") = "source"
    BY DEF Requests, Steps, AgentOf
  <2>a. ASSUME NEW kind \in {"publish", "verifying"},
               NEW step \in {"preparing", "renaming", "askingRename", "verifying", "staging",
                             "asking", "publishing", "removing", "deleting"},
               LocalGoes(step), UNCHANGED box \/ Sends("source", Frame(kind, "local", "none")),
               kind = "verifying" => shape.file,
               Live("local")
        PROVE  Goes("local")
    BY <1>0, <2>0, <2>a, NoticeGoes DEF LocalGoes, Live
  <2>1. ASSUME CheckLocal PROVE Goes("local")
    <3>1. /\ Live("local")
          /\ \/ LocalGoes("preparing") /\ UNCHANGED box
             \/ LocalGoes("renaming") /\ UNCHANGED box
             \/ LocalGoes("askingRename") /\ Sends("source", Frame("publish", "local", "none"))
             \/ Answers("local", "error")
      BY <2>1 DEF CheckLocal, LocalAt, Live
    <3>2. QED
      BY <1>1, <1>2, <2>0, <2>a, <3>1
  <2>2. ASSUME RenameLocal PROVE Goes("local")
    <3>1. /\ Live("local")
          /\ \/ LocalGoes("preparing") /\ UNCHANGED box
             \/ Answers("local", "error")
             \/ target' = Whole(source) /\ source' = "gone" /\ Answers("local", "ok")
      BY <2>2 DEF RenameLocal, LocalAt, Live, fileVars
    <3>2. Whole(source) # <<>>
      BY CopyAssumption DEF Whole
    <3>3. QED
      BY <1>0, <1>1, <1>2, <2>0, <2>a, <3>1, <3>2, AnswersGoes DEF Live
  <2>3. ASSUME PrepareLocal PROVE Goes("local")
    <3>1. /\ Live("local")
          /\ \/ /\ LocalGoes("verifying") /\ Sends("source", Frame("verifying", "local", "none"))
                /\ shape.file
             \/ LocalGoes("staging") /\ UNCHANGED box
             \/ Answers("local", "error")
      BY <2>3 DEF PrepareLocal, LocalAt, Live
    <3>2. QED
      BY <1>1, <1>2, <2>0, <2>a, <3>1
  <2>4. ASSUME VerifyLocal PROVE Goes("local")
    BY <2>4, <2>a DEF VerifyLocal, LocalAt, Live
  <2>5. StageLocal => UNCHANGED <<worker, box>>
    BY DEF StageLocal
  <2>6. ASSUME StagedLocal PROVE Goes("local")
    <3>1. /\ Live("local")
          /\ \/ LocalGoes("asking") /\ Sends("source", Frame("publish", "local", "none"))
             \/ LocalGoes("publishing") /\ UNCHANGED box
      BY <2>6 DEF StagedLocal, LocalAt, Live
    <3>2. QED
      BY <2>a, <3>1
  <2>7. ASSUME StopLocal \/ FailLocal PROVE Goes("local")
    <3>1. /\ Live("local")
          /\ Stops("local", reason["local"]) \/ Fails("local") \/ Answers("local", "error")
      BY <2>7 DEF StopLocal, FailLocal, LocalAt, Live
    <3>2. QED
      BY <1>1, <1>2, <1>4, <2>0, <3>1
  <2>8. ASSUME NEW answer \in {"allowed", "denied"}, LocalDecision(answer)
        PROVE  UNCHANGED <<worker, box>> \/ Goes("local")
    <3>1. \/ UNCHANGED <<worker, box>>
          \/ /\ Live("local")
             /\ \/ LocalGoes("publishing") /\ UNCHANGED box
                \/ LocalGoes("renaming") /\ UNCHANGED box
                \/ Stops("local", reason["local"]) \/ Answers("local", "error")
      BY <2>8 DEF LocalDecision, LocalAt, Live
    <3>2. QED
      BY <1>1, <1>2, <1>4, <2>0, <2>a, <3>1
  <2>9. ASSUME LocalTimesOut PROVE Goes("local")
    <3>1. /\ Live("local")
          /\ Answers("local", OutcomeOf(reason["local"])) \/ Answers("local", "error")
      BY <2>9 DEF LocalTimesOut, LocalAt, Live
    <3>2. QED
      BY <1>1, <1>2, <1>3, <2>0, <3>1
  <2>10. ASSUME PublishLocal PROVE Goes("local")
    <3>1. /\ Live("local") /\ LocalAt("publishing") /\ target' = partial
          /\ \/ shape.move /\ LocalGoes("removing") /\ UNCHANGED box
             \/ ~shape.move /\ Answers("local", "ok")
      BY <2>10 DEF PublishLocal, LocalAt, Live
    <3>2. target' # <<>>
      <4>1. Len(partial) = Segments /\ Segments \in Nat \ {0}
        BY <3>1, CopyAssumption DEF LocalAt, CopyInvariant, Contents
      <4>2. QED
        BY <3>1, <4>1
    <3>3. QED
      BY <1>0, <1>2, <2>0, <2>a, <3>1, <3>2, AnswersGoes DEF Live
  <2>11. ASSUME VerifyRemoval PROVE Goes("local")
    <3>1. /\ Live("local")
          /\ \/ LocalGoes("deleting") /\ UNCHANGED box
             \/ Answers("local", "error")
      BY <2>11 DEF VerifyRemoval, LocalAt, Live
    <3>2. QED
      BY <1>1, <1>2, <2>0, <2>a, <3>1
  <2>12. ASSUME RemoveLocal PROVE Goes("local")
    <3>1. /\ LocalAt("deleting") /\ UNCHANGED target
          /\ Answers("local", "error") \/ (Answers("local", "ok") /\ source' = "gone")
      BY <2>12 DEF RemoveLocal
    <3>2. target # <<>>
      <4>1. target = Whole("captured")
        BY <3>1 DEF LocalAt, CopyInvariant, Removal, Removing
      <4>2. QED
        BY <4>1, CopyAssumption DEF Whole
    <3>3. QED
      BY <1>0, <1>1, <1>2, <2>0, <3>1, <3>2, AnswersGoes DEF LocalAt, Live
  <2>13. QED
    BY <1>8, <2>0, <2>1, <2>2, <2>3, <2>4, <2>5, <2>6, <2>7, <2>8, <2>9, <2>10, <2>11, <2>12
       DEF LocalSteps
<1>9. QED
  BY <1>5, <1>6, <1>7, <1>8 DEF AgentSteps

\* A worker that ended stays ended, one that started stays started.
LEMMA WorkersAdvance ==
  ASSUME CopyInvariant, AgentSteps, NEW r \in Requests
  PROVE  /\ worker[r] = "ended" => worker'[r] = "ended"
         /\ worker[r] # "absent" => worker'[r] # "absent"
         /\ worker'[r] # worker[r] => worker[r] # "ended" /\ ticket[r] = "written"
<1>1. worker \in [Requests -> Steps]
  BY DEF CopyInvariant, CopyTypeOK
<1>2. CASE UNCHANGED worker
  BY <1>2
<1>3. ASSUME NEW q \in Requests, Goes(q)
      PROVE  /\ worker[r] = "ended" => worker'[r] = "ended"
             /\ worker[r] # "absent" => worker'[r] # "absent"
             /\ worker'[r] # worker[r] => worker[r] # "ended" /\ ticket[r] = "written"
  BY <1>1, <1>3 DEF Goes
<1>4. QED
  BY <1>2, <1>3, AgentsGo

\* An agent's step leaves every variable well formed.
LEMMA AgentsKeepTypes ==
  ASSUME CopyInvariant, AgentSteps
  PROVE  CopyTypeOK'
<1>1. /\ shape \in [move : BOOLEAN, local : BOOLEAN, file : BOOLEAN, resume : BOOLEAN]
      /\ flow \in [phase : Phases, sourceFinished : BOOLEAN, acked : SUBSET Agents,
                   digest : [Agents -> Marks \cup {"none"}], offset : Nat, end : Nat,
                   failure : BOOLEAN, settle : {"none", "persist", "delete"}]
      /\ pause \in {"none", "asked", "ok", "refused"} /\ row \in Rows /\ pausable \in BOOLEAN
      /\ withdrawn \subseteq Requests /\ conn \in [Agents -> {"up", "broken", "gone"}]
      /\ losses \in 0 .. MaxLosses
  BY DEF CopyInvariant, CopyTypeOK
<1>2. UNCHANGED <<shape, flow, row, pausable, pause, withdrawn, conn, losses>>
  BY AgentsDecideNothing
<1>3. box' \in [Agents -> Seq(Frames)] /\ worker' \in [Requests -> Steps]
  <2>1. box \in [Agents -> Seq(Frames)] /\ worker \in [Requests -> Steps]
    BY DEF CopyInvariant, CopyTypeOK
  <2>2. ASSUME NEW r \in Requests, Goes(r)
        PROVE  box' \in [Agents -> Seq(Frames)] /\ worker' \in [Requests -> Steps]
    <3>1. AgentOf(r) \in Agents
      BY DEF AgentOf, Agents
    <3>2. worker' \in [Requests -> Steps]
      BY <2>1, <2>2 DEF Goes
    <3>3. box' = box \/ \E f \in Frames : box' = [box EXCEPT ![AgentOf(r)] = Append(@, f)]
      BY <2>2 DEF Goes
    <3>4. \A f \in Frames : [box EXCEPT ![AgentOf(r)] = Append(@, f)] \in [Agents -> Seq(Frames)]
      BY <2>1, <3>1, QueuesTyped
    <3>5. QED
      BY <2>1, <3>2, <3>3, <3>4
  <2>3. QED
    BY <2>1, <2>2, AgentsGo
<1>4. QED
  <2>1. CopyTypeOK
    BY DEF CopyInvariant
  <2>2. QED
    BY <1>1, <1>2, <1>3, <2>1, FilesTyped, LanesTyped, FlagsTyped DEF CopyTypeOK

\* A command is written when it was queued, and withdrawn when it has no worker.
LEMMA TicketChanges ==
  ASSUME CopyInvariant, AgentSteps, NEW r \in Requests
  PROVE  /\ ticket'[r] = "none" <=> ticket[r] = "none"
         /\ ticket'[r] # ticket[r] => worker[r] = "absent" /\ worker'[r] = "absent"
<1> USE DEF fileVars, rowVars, laneVars, workVars, netVars
<1>0. /\ ticket \in [Requests -> {"none", "queued", "written", "withdrawn"}]
      /\ worker[r] # "absent" => ticket[r] = "written"
  BY DEF CopyInvariant, CopyTypeOK, Tickets
<1>1. ASSUME NEW q \in Requests, WriteCommand(q)
      PROVE  UNCHANGED worker /\ ticket' = [ticket EXCEPT ![q] = "written"] /\ ticket[q] = "queued"
  BY <1>1 DEF WriteCommand
<1>2. ASSUME NEW a \in Agents, AgentNotices(a)
      PROVE  /\ UNCHANGED worker
             /\ \/ ticket'[r] = ticket[r]
                \/ ticket[r] = "written" /\ worker[r] = "absent" /\ ticket'[r] = "withdrawn"
  BY <1>2 DEF AgentNotices
<1>3. ASSUME ~\E q \in Requests : WriteCommand(q), ~\E a \in Agents : AgentNotices(a)
      PROVE  UNCHANGED ticket
  <2>1. LaneSteps => UNCHANGED ticket
    BY <1>3 DEF LaneSteps, Spawn, ReceiveCancel
  <2>2. SourceSteps => UNCHANGED ticket
    BY DEF SourceSteps, HashSegment, SettlePartial, VerifySource, DeleteSource, ReplaceSource, OpenSource,
         SendSegment, FinishSource, StopSource, FailSource, SourceEnds
  <2>3. UploadSteps => UNCHANGED ticket
    BY DEF UploadSteps, UploadKeeps, PrepareUpload, StageSegment, StopUpload, FailUpload,
         AskUpload, UploadTimesOut, PublishUpload, UploadDecision
  <2>4. LocalSteps => UNCHANGED ticket
    BY DEF LocalSteps, LocalKeeps, CheckLocal, RenameLocal, PrepareLocal, VerifyLocal, StageLocal,
         StagedLocal, StopLocal, FailLocal, LocalTimesOut, PublishLocal, VerifyRemoval, RemoveLocal,
         LocalDecision
  <2>5. QED
    BY <2>1, <2>2, <2>3, <2>4 DEF AgentSteps
<1>4. QED
  BY <1>0, <1>1, <1>2, <1>3

\* An agent's step keeps the commands in their phases.
LEMMA AgentsKeepTickets ==
  ASSUME CopyInvariant, AgentSteps
  PROVE  Tickets'
<1>1. Tickets /\ UNCHANGED <<shape, flow>>
  BY AgentsDecideNothing DEF CopyInvariant
<1>2. ASSUME NEW r \in Requests
      PROVE  /\ ticket'[r] = "none" <=> ticket[r] = "none"
             /\ worker'[r] # "absent" => ticket'[r] = "written"
             /\ worker[r] = "ended" => worker'[r] = "ended"
  BY <1>1, TicketChanges, WorkersAdvance DEF Tickets
<1>3. {"upload", "settle", "download", "delete"} \subseteq Requests
  BY DEF Requests
<1>4. QED
  BY <1>1, <1>2, <1>3 DEF Tickets

\* And the rows, which are none of its business.
LEMMA AgentsKeepRows ==
  ASSUME CopyInvariant, AgentSteps
  PROVE  RowPhases'
  BY AgentsDecideNothing DEF CopyInvariant, RowPhases

\* What is in a lane after an agent's step was there before, or is what the
\* worker that went on has just said.
LEMMA NewFrame ==
  ASSUME CopyInvariant, NEW r \in Requests, Goes(r), NEW a \in Agents, NEW i \in DOMAIN box'[a]
  PROVE  \/ i \in DOMAIN box[a] /\ box'[a][i] = box[a][i]
         \/ /\ i \notin DOMAIN box[a] /\ i = Len(box[a]) + 1 /\ a = AgentOf(r)
            /\ box'[a][i].kind = "verifying" => shape.file
            /\ box'[a][i].kind = "result" =>
                 /\ box'[a][i].req = r /\ worker'[r] = "ended"
                 /\ box'[a][i].out = "ok" /\ r \in {"upload", "local", "delete"} =>
                      target' # <<>> /\ (shape.move /\ r # "upload" => source' = "gone")
<1>1. box \in [Agents -> Seq(Frames)] /\ worker \in [Requests -> Steps] /\ AgentOf(r) \in Agents
  BY DEF CopyInvariant, CopyTypeOK, AgentOf, Agents
<1>2. CASE UNCHANGED box \/ a # AgentOf(r)
  BY <1>1, <1>2 DEF Goes
<1>3. CASE ~UNCHANGED box /\ a = AgentOf(r)
  <2>1. PICK f \in Frames :
          /\ box'[a] = Append(box[a], f)
          /\ f.kind = "verifying" => shape.file
          /\ f.kind = "result" =>
               /\ f.req = r /\ worker'[r] = "ended"
               /\ f.out = "ok" /\ r \in {"upload", "local", "delete"} =>
                    target' # <<>> /\ (shape.move /\ r # "upload" => source' = "gone")
    BY <1>1, <1>3 DEF Goes
  <2>2. \/ i \in DOMAIN box[a] /\ box'[a][i] = box[a][i]
        \/ i = Len(box[a]) + 1 /\ i \notin DOMAIN box[a] /\ box'[a][i] = f
    BY <1>1, <2>1, AddedFrame
  <2>3. QED
    BY <1>3, <2>1, <2>2
<1>4. QED
  BY <1>2, <1>3

\* The results on their way stay single and true.
LEMMA AgentsKeepResults ==
  ASSUME CopyInvariant, AgentSteps
  PROVE  Results'
<1>1. Results /\ UNCHANGED <<shape, flow>>
  BY AgentsDecideNothing DEF CopyInvariant
<1>2. (target # <<>> => target' # <<>>) /\ (source = "gone" => source' = "gone")
  BY TargetChanges, SourceChanges
<1>3. \A q \in Requests : worker[q] = "ended" => worker'[q] = "ended"
  BY WorkersAdvance
<1>4. CASE UNCHANGED <<worker, box>>
  BY <1>1, <1>2, <1>4 DEF Results, Result, Has
<1>5. ASSUME NEW r \in Requests, Goes(r) PROVE Results'
  <2>1. ASSUME NEW a \in Agents, NEW i \in DOMAIN box'[a]
        PROVE  /\ box'[a][i].kind = "verifying" => shape'.file
               /\ box'[a][i].kind = "result" =>
                    /\ AgentOf(box'[a][i].req) = a
                    /\ worker'[box'[a][i].req] = "ended"
                    /\ \A j \in DOMAIN box'[a] : IsResultOf(box'[a][j], box'[a][i].req) => i = j
    <3>1. \A j \in DOMAIN box'[a] :
            \/ j \in DOMAIN box[a] /\ box'[a][j] = box[a][j]
            \/ /\ j \notin DOMAIN box[a] /\ j = Len(box[a]) + 1 /\ a = AgentOf(r)
               /\ box'[a][j].kind = "verifying" => shape.file
               /\ box'[a][j].kind = "result" => box'[a][j].req = r /\ worker'[r] = "ended"
      BY <1>5, NewFrame
    <3>2. \A j \in DOMAIN box[a] :
            /\ box[a][j].kind = "verifying" => shape.file
            /\ box[a][j].kind = "result" =>
                 /\ AgentOf(box[a][j].req) = a /\ box[a][j].req \in Requests
                 /\ worker[box[a][j].req] = "ended"
                 /\ \A k \in DOMAIN box[a] : IsResultOf(box[a][k], box[a][j].req) => j = k
      <4>1. \A j \in DOMAIN box[a] : box[a][j] \in Frames
        BY DEF CopyInvariant, CopyTypeOK
      <4>2. \A f \in Frames : f.kind = "result" => f.req \in Requests
        BY DEF Frames
      <4>3. QED
        BY <1>1, <4>1, <4>2 DEF Results
    <3>3. worker[r] # "ended"
      BY <1>5 DEF Goes
    <3>4. CASE i \in DOMAIN box[a]
      BY <1>1, <1>3, <3>1, <3>2, <3>3, <3>4 DEF IsResultOf
    <3>5. CASE i \notin DOMAIN box[a]
      BY <1>1, <3>1, <3>2, <3>3, <3>5 DEF IsResultOf
    <3>6. QED
      BY <3>4, <3>5
  <2>2. ASSUME NEW q \in {"upload", "local", "delete"}, Result(q, "ok")'
        PROVE  target' # <<>> /\ (shape'.move /\ q # "upload" => source' = "gone")
    <3>1. AgentOf(q) \in Agents /\ q \in Requests
      BY DEF AgentOf, Agents, Requests
    <3>2. PICK i \in DOMAIN box'[AgentOf(q)] : box'[AgentOf(q)][i] = Frame("result", q, "ok")
      BY <2>2 DEF Result, Has
    <3>3. CASE i \in DOMAIN box[AgentOf(q)] /\ box'[AgentOf(q)][i] = box[AgentOf(q)][i]
      <4>1. Result(q, "ok")
        BY <3>2, <3>3 DEF Result, Has
      <4>2. QED
        BY <1>1, <1>2, <4>1 DEF Results
    <3>4. CASE ~(i \in DOMAIN box[AgentOf(q)] /\ box'[AgentOf(q)][i] = box[AgentOf(q)][i])
      <4>1. /\ box'[AgentOf(q)][i].kind = "result" =>
                 /\ box'[AgentOf(q)][i].req = r
                 /\ box'[AgentOf(q)][i].out = "ok" /\ r \in {"upload", "local", "delete"} =>
                      target' # <<>> /\ (shape.move /\ r # "upload" => source' = "gone")
        BY <1>5, <3>1, <3>4, NewFrame
      <4>2. QED
        BY <1>1, <3>2, <4>1 DEF Frame
    <3>5. QED
      BY <3>3, <3>4
  <2>3. /\ Result("upload", "ok")' => target' # <<>>
        /\ Result("delete", "ok")' => target' # <<>> /\ (shape'.move => source' = "gone")
        /\ Result("local", "ok")' => target' # <<>> /\ (shape'.move => source' = "gone")
    BY <2>2
  <2>4. ASSUME Result("delete", "ok")' PROVE shape'.move
    <3>1. PICK i \in DOMAIN box'["source"] : box'["source"][i] = Frame("result", "delete", "ok")
      BY <2>4 DEF Result, Has, AgentOf
    <3>2. worker'["delete"] = "ended"
      BY <2>1, <3>1 DEF Frame, Agents
    <3>3. ticket["delete"] # "none"
      BY <3>2, AgentsKeepTickets, TicketChanges DEF Tickets, Requests
    <3>4. QED
      BY <1>1, <3>3 DEF CopyInvariant, Grants
  <2>5. QED
    BY <2>1, <2>3, <2>4, Zenon DEF Results
<1>6. QED
  BY <1>4, <1>5, AgentsGo

\* What a worker that publishes does, and what it was told before.
LEMMA PublisherMoves ==
  ASSUME CopyInvariant, AgentSteps
  PROVE  /\ worker["local"] \in {"removing", "deleting"} =>
              worker'["local"] \in {"removing", "deleting", "ended"}
         /\ worker'["local"] \in {"renaming", "publishing"} =>
              \/ worker'["local"] = worker["local"]
              \/ ~shape.file
              \/ Received("decision", "local", "allowed")
         /\ worker'["upload"] = "publishing" =>
              worker["upload"] = "publishing" \/ Received("decision", "upload", "allowed")
         /\ worker'["upload"] \notin {"renaming", "removing", "deleting"}
         /\ worker'["local"] \in {"askingRename", "renaming", "removing", "deleting"} => shape.move
         /\ worker'["local"] \in {"asking", "askingRename"} => shape.file
<1> DEFINE Ok ==
      /\ worker["local"] \in {"removing", "deleting"} =>
              worker'["local"] \in {"removing", "deleting", "ended"}
      /\ worker'["local"] \in {"renaming", "publishing"} =>
           \/ worker'["local"] = worker["local"]
           \/ ~shape.file
           \/ Received("decision", "local", "allowed")
      /\ worker'["upload"] = "publishing" =>
           worker["upload"] = "publishing" \/ Received("decision", "upload", "allowed")
      /\ worker'["upload"] \notin {"renaming", "removing", "deleting"}
      /\ worker'["local"] \in {"askingRename", "renaming", "removing", "deleting"} => shape.move
      /\ worker'["local"] \in {"asking", "askingRename"} => shape.file
<1> SUFFICES Ok
  OBVIOUS
<1>0. /\ worker \in [Requests -> Steps] /\ {"local", "upload"} \subseteq Requests
      /\ worker["local"] \in {"askingRename", "renaming", "removing", "deleting"} => shape.move
      /\ worker["local"] \in {"asking", "askingRename"} => shape.file
      /\ worker["upload"] \notin {"renaming", "removing", "deleting"}
  BY DEF CopyInvariant, CopyTypeOK, Grants, Requests
<1>1. CASE UNCHANGED worker
  BY <1>0, <1>1
<1>2. ASSUME NEW r \in Requests \ {"local", "upload"}, NEW step, worker' = [worker EXCEPT ![r] = step]
      PROVE  Ok
  BY <1>0, <1>2
<1>3. CASE LaneSteps
  <2>1. UNCHANGED worker \/ \E r \in Requests : worker[r] = "absent" /\ worker' = [worker EXCEPT ![r] = FirstStep(r)]
    BY <1>3 DEF LaneSteps, WriteCommand, Spawn, ReceiveCancel, AgentNotices, workVars
  <2>2. QED
    BY <1>0, <1>1, <2>1 DEF FirstStep
<1>4. CASE SourceSteps
  <2>1. UNCHANGED worker \/ \E r \in Requests \ {"local", "upload"}, step \in Steps :
          worker' = [worker EXCEPT ![r] = step]
    BY <1>4 DEF SourceSteps, HashSegment, SettlePartial, VerifySource, DeleteSource, ReplaceSource, OpenSource,
         SendSegment, FinishSource, StopSource, FailSource, SourceEnds, Answers, workVars, Steps,
         Requests, Hashes
  <2>2. QED
    BY <1>1, <1>2, <2>1
<1>5. CASE UploadSteps
  <2>1. ASSUME NEW answer \in {"allowed", "denied"}, UploadDecision(answer)
        PROVE  \/ UNCHANGED worker
               \/ worker' = [worker EXCEPT !["upload"] = "ended"]
               \/ /\ worker' = [worker EXCEPT !["upload"] = "publishing"]
                  /\ Received("decision", "upload", "allowed")
    BY <2>1 DEF UploadDecision, Stops, Answers
  <2>2. ASSUME ~\E answer \in {"allowed", "denied"} : UploadDecision(answer)
        PROVE  \/ UNCHANGED worker
               \/ \E step \in {"staging", "asking", "ended"} : worker' = [worker EXCEPT !["upload"] = step]
    BY <1>5, <2>2 DEF UploadSteps, PrepareUpload, StageSegment, StopUpload, FailUpload,
         AskUpload, UploadTimesOut, PublishUpload, Stops, Fails, Answers
  <2>3. QED
    BY <1>0, <2>1, <2>2
<1>6. CASE LocalSteps
  <2>1. ASSUME NEW answer \in {"allowed", "denied"}, LocalDecision(answer)
        PROVE  \/ UNCHANGED worker
               \/ worker["local"] \in {"asking", "askingRename"} /\ worker' = [worker EXCEPT !["local"] = "ended"]
               \/ /\ \/ worker["local"] = "asking" /\ worker' = [worker EXCEPT !["local"] = "publishing"]
                     \/ worker["local"] = "askingRename" /\ worker' = [worker EXCEPT !["local"] = "renaming"]
                  /\ Received("decision", "local", "allowed")
    BY <2>1 DEF LocalDecision, Stops, Answers, LocalAt, LocalGoes
  <2>2. ASSUME ~\E answer \in {"allowed", "denied"} : LocalDecision(answer)
        PROVE  \/ UNCHANGED worker
               \/ worker' = [worker EXCEPT !["local"] = "ended"]
               \/ worker["local"] = "removing" /\ worker' = [worker EXCEPT !["local"] = "deleting"]
               \/ /\ worker["local"] \notin {"removing", "deleting"}
                  /\ \/ \E step \in {"preparing", "verifying", "staging"} :
                          worker' = [worker EXCEPT !["local"] = step]
                     \/ shape.move /\ ~shape.file /\ worker' = [worker EXCEPT !["local"] = "renaming"]
                     \/ shape.move /\ shape.file /\ worker' = [worker EXCEPT !["local"] = "askingRename"]
                     \/ shape.file /\ worker' = [worker EXCEPT !["local"] = "asking"]
                     \/ ~shape.file /\ worker' = [worker EXCEPT !["local"] = "publishing"]
                     \/ shape.move /\ worker' = [worker EXCEPT !["local"] = "removing"]
    BY <1>6, <2>2 DEF LocalSteps, CheckLocal, RenameLocal, PrepareLocal, VerifyLocal, StageLocal,
         StagedLocal, StopLocal, FailLocal, LocalTimesOut, PublishLocal, VerifyRemoval, RemoveLocal,
         Stops, Fails, Answers, LocalAt, LocalGoes
  <2>3. QED
    BY <1>0, <2>1, <2>2
<1>7. QED
  BY <1>3, <1>4, <1>5, <1>6 DEF AgentSteps

\* Decisions are only read by the agents.
LEMMA UrgentShrinks ==
  ASSUME CopyInvariant, AgentSteps, NEW a \in Agents, NEW f, Has(urgent'[a], f)
  PROVE  Has(urgent[a], f)
<1> USE DEF laneVars, workVars
<1>0. urgent \in [Agents -> Seq(Urgents)]
  BY DEF CopyInvariant, CopyTypeOK
<1>1. CASE UNCHANGED urgent
  BY <1>1
<1>2. ASSUME NEW b \in Agents, urgent[b] # <<>>, urgent' = [urgent EXCEPT ![b] = Tail(@)]
      PROVE  Has(urgent[a], f)
  <2>1. PICK i \in DOMAIN urgent'[a] : urgent'[a][i] = f
    BY DEF Has
  <2>2. CASE a = b
    <3>1. urgent'[a] = Tail(urgent[a])
      BY <1>0, <1>2, <2>2
    <3>2. i + 1 \in DOMAIN urgent[a] /\ Tail(urgent[a])[i] = urgent[a][i + 1]
      BY <1>0, <1>2, <2>1, <2>2, <3>1, TakenFrame
    <3>3. QED
      BY <2>1, <3>1, <3>2 DEF Has
  <2>3. CASE a # b
    BY <1>0, <1>2, <2>1, <2>3 DEF Has
  <2>4. QED
    BY <2>2, <2>3
<1>3. ASSUME NEW b \in Agents, urgent' = [urgent EXCEPT ![b] = <<>>]
      PROVE  Has(urgent[a], f)
  BY <1>0, <1>3 DEF Has
<1>4. ASSUME NEW kind, NEW r, NEW out, Received(kind, r, out)
      PROVE  Has(urgent[a], f)
  BY <1>2, <1>4 DEF Received, AgentOf, Agents
<1>5. CASE LaneSteps
  <2>1. \/ UNCHANGED urgent
        \/ \E r \in Requests, why \in Reasons : Received("cancel", r, why)
        \/ \E b \in Agents : urgent' = [urgent EXCEPT ![b] = <<>>]
    BY <1>5 DEF LaneSteps, WriteCommand, Spawn, ReceiveCancel, AgentNotices
  <2>2. QED
    BY <1>1, <1>3, <1>4, <2>1
<1>6. CASE SourceSteps
  <2>1. UNCHANGED urgent
    BY <1>6 DEF SourceSteps, HashSegment, SettlePartial, VerifySource, DeleteSource, ReplaceSource, OpenSource,
         SendSegment, FinishSource, StopSource, FailSource, SourceEnds
  <2>2. QED
    BY <1>1, <2>1
<1>7. CASE UploadSteps
  <2>1. UNCHANGED urgent \/ \E answer \in {"allowed", "denied"} : Received("decision", "upload", answer)
    BY <1>7 DEF UploadSteps, UploadKeeps, PrepareUpload, StageSegment, StopUpload, FailUpload,
         AskUpload, UploadTimesOut, PublishUpload, UploadDecision
  <2>2. QED
    BY <1>1, <1>4, <2>1
<1>8. CASE LocalSteps
  <2>1. UNCHANGED urgent \/ \E answer \in {"allowed", "denied"} : Received("decision", "local", answer)
    BY <1>8 DEF LocalSteps, LocalKeeps, CheckLocal, RenameLocal, PrepareLocal, VerifyLocal, StageLocal,
         StagedLocal, StopLocal, FailLocal, LocalTimesOut, PublishLocal, VerifyRemoval, RemoveLocal,
         LocalDecision
  <2>2. QED
    BY <1>1, <1>4, <2>1
<1>9. QED
  BY <1>5, <1>6, <1>7, <1>8 DEF AgentSteps

\* An agent publishes and removes only what the row admits.
LEMMA AgentsKeepGrants ==
  ASSUME CopyInvariant, AgentSteps
  PROVE  Grants'
<1>0. /\ Grants /\ UNCHANGED <<shape, flow, row>>
      /\ Publisher' = Publisher /\ Gated' = Gated /\ Allowed' = Allowed
      /\ Publisher \in {"upload", "local"} /\ Publisher \in Requests
  BY AgentsDecideNothing DEF CopyInvariant, Publisher, Gated, Allowed, Requests
<1>1. \A r \in Requests :
        /\ ticket'[r] = "none" <=> ticket[r] = "none"
        /\ worker[r] = "ended" => worker'[r] = "ended"
        /\ worker[r] # "absent" => ticket[r] = "written"
  BY TicketChanges, WorkersAdvance DEF CopyInvariant, Tickets
<1>2. \/ target' = target
      \/ /\ target = <<>> /\ target' # <<>>
         /\ worker[Publisher] \in {"publishing", "renaming"}
         /\ worker'[Publisher] \in {"removing", "ended"}
  BY <1>0, TargetChanges DEF CopyInvariant, CopyTypeOK
<1>3. Gated /\ (\/ Has(urgent'[AgentOf(Publisher)], Allowed)
                \/ worker'[Publisher] \in {"publishing", "renaming"}
                \/ target' # <<>>) => row \in Granted
  <2>1. AgentOf(Publisher) \in Agents
    BY DEF AgentOf, Agents
  <2>2. Gated /\ Has(urgent'[AgentOf(Publisher)], Allowed) => row \in Granted
    BY <1>0, <2>1, UrgentShrinks DEF Grants
  <2>3. Gated /\ target' # <<>> => row \in Granted
    BY <1>0, <1>2 DEF Grants
  <2>4. Received("decision", Publisher, "allowed") => Has(urgent[AgentOf(Publisher)], Allowed)
    <3>1. urgent[AgentOf(Publisher)] \in Seq(Urgents)
      BY <2>1 DEF CopyInvariant, CopyTypeOK
    <3>2. QED
      BY <3>1 DEF Received, Has, Allowed
  <2>5. Gated /\ worker'[Publisher] \in {"publishing", "renaming"} => row \in Granted
    <3>1. CASE worker'[Publisher] = worker[Publisher]
      BY <1>0, <3>1 DEF Grants
    <3>2. CASE worker'[Publisher] # worker[Publisher]
      <4>1. worker'[Publisher] \in {"publishing", "renaming"} =>
              (~shape.file /\ Publisher = "local") \/ Received("decision", Publisher, "allowed")
        BY <1>0, <3>2, PublisherMoves
      <4>2. ~shape.file /\ Publisher = "local" => ~Gated
        BY DEF Gated, Publisher
      <4>3. QED
        BY <1>0, <2>4, <4>1, <4>2 DEF Grants
    <3>3. QED
      BY <3>1, <3>2
  <2>6. QED
    BY <2>2, <2>3, <2>5
<1>4. target' # <<>> => worker'[Publisher] \in {"removing", "deleting", "ended"}
  <2>1. worker[Publisher] \in {"removing", "deleting"} =>
          worker'[Publisher] \in {"removing", "deleting", "ended"}
    BY <1>0, PublisherMoves DEF Grants
  <2>2. QED
    BY <1>0, <1>1, <1>2, <2>1 DEF Grants
<1>5. target # <<>> => target' # <<>>
  BY <1>2
<1>6. source' = "gone" =>
        /\ shape.move /\ target' # <<>> /\ worker'[Publisher] = "ended"
        /\ ~shape.local => worker'["delete"] = "ended"
  <2>1. CASE source = "gone"
    BY <1>0, <1>1, <1>5, <2>1 DEF Grants, Requests
  <2>2. ASSUME source # "gone", source' = "gone"
        PROVE  /\ shape.move /\ target' # <<>> /\ worker'[Publisher] = "ended"
               /\ ~shape.local => worker'["delete"] = "ended"
    <3>1. PICK r \in {"local", "delete"} :
            shape.move /\ target' # <<>> /\ Live(r) /\ worker' = [worker EXCEPT ![r] = "ended"]
      BY <2>2, SourceChanges
    <3>2. target' # <<>>
      BY <3>1
    <3>3. ticket[r] # "none" /\ r \in Requests
      BY <1>1, <3>1 DEF Live, Requests
    <3>4. r = "local" <=> shape.local
      BY <3>3 DEF CopyInvariant, Tickets
    <3>5. worker'[r] = "ended"
      BY <3>1, <3>3 DEF CopyInvariant, CopyTypeOK
    <3>6. r = "delete" => worker'["upload"] = "ended"
      BY <1>0, <1>1, <3>3 DEF Grants, Requests
    <3>7. QED
      BY <3>1, <3>2, <3>4, <3>5, <3>6 DEF Publisher
  <2>3. QED
    BY <2>1, <2>2
<1>7. flow.phase = "deleting" \/ ticket'["delete"] # "none" =>
        shape.move /\ target' # <<>> /\ worker'["upload"] = "ended"
  BY <1>0, <1>1, <1>5 DEF Grants, Requests
<1>8. row = "completed" =>
        target' # <<>> /\ worker'[Publisher] = "ended" /\ (shape.move => source' = "gone")
  BY <1>0, <1>1, <1>5, SourceChanges DEF Grants
<1>9. QED
  BY <1>0, <1>3, <1>4, <1>6, <1>7, <1>8, PublisherMoves DEF Grants

\* Nobody touches the partial or the captured identity behind the comparison.
LEMMA AgentsKeepVerified ==
  ASSUME CopyInvariant, AgentSteps
  PROVE  Verified'
<1>1. UNCHANGED <<shape, flow>>
  BY AgentsDecideNothing
<1>2. SUFFICES ASSUME flow.phase = "verifying"
               PROVE  Verified'
  BY <1>1 DEF Verified
<1>3. /\ box \in [Agents -> Seq(Frames)] /\ worker \in [Requests -> Steps]
      /\ \A r \in {"upload", "local", "settle", "download", "delete"} : worker[r] = "absent" /\ ticket[r] = "none"
      /\ ~shape.local
  BY <1>2 DEF CopyInvariant, CopyTypeOK, Tickets, Requests, Remote
<1>4. partial' = partial
  <2>1. \A r \in {"upload", "local"} : ~Live(r)
    BY <1>3 DEF Live
  <2>2. LaneSteps => UNCHANGED partial
    BY DEF LaneSteps, WriteCommand, Spawn, ReceiveCancel, AgentNotices, fileVars
  <2>3. SourceSteps => UNCHANGED partial
    BY <1>3 DEF SourceSteps, HashSegment, SettlePartial, VerifySource, DeleteSource, ReplaceSource, OpenSource,
         SendSegment, FinishSource, StopSource, FailSource, SourceEnds, NoFileChanges, fileVars
  <2>4. UploadSteps => UNCHANGED partial
    BY <1>3 DEF UploadSteps, PrepareUpload, StageSegment, StopUpload, FailUpload,
         AskUpload, UploadTimesOut, PublishUpload, UploadDecision
  <2>5. LocalSteps => UNCHANGED partial
    BY <1>3 DEF LocalSteps, LocalAt, CheckLocal, RenameLocal, PrepareLocal, VerifyLocal, StageLocal,
         StagedLocal, StopLocal, FailLocal, LocalTimesOut, PublishLocal, VerifyRemoval, RemoveLocal,
         LocalDecision
  <2>6. QED
    BY <2>2, <2>3, <2>4, <2>5 DEF AgentSteps
<1>5. \/ UNCHANGED <<worker, box>>
      \/ \E h \in Hashes : HashSegment(h)
  <2>1. LaneSteps => UNCHANGED <<worker, box>>
    BY <1>3 DEF LaneSteps, WriteCommand, Spawn, ReceiveCancel, AgentNotices, workVars, Requests, Hashes
  <2>2. SourceSteps => UNCHANGED <<worker, box>> \/ \E h \in Hashes : HashSegment(h)
    BY <1>3 DEF SourceSteps, SettlePartial, VerifySource, DeleteSource, ReplaceSource, OpenSource,
         SendSegment, FinishSource, StopSource, FailSource, SourceEnds, workVars
  <2>3. UploadSteps => UNCHANGED <<worker, box>>
    BY <1>3 DEF UploadSteps, PrepareUpload, StageSegment, StopUpload, FailUpload,
         AskUpload, UploadTimesOut, PublishUpload, UploadDecision
  <2>4. LocalSteps => UNCHANGED <<worker, box>>
    BY <1>3 DEF LocalSteps, LocalAt, CheckLocal, RenameLocal, PrepareLocal, VerifyLocal, StageLocal,
         StagedLocal, StopLocal, FailLocal, LocalTimesOut, PublishLocal, VerifyRemoval, RemoveLocal,
         LocalDecision
  <2>5. QED
    BY <2>1, <2>2, <2>3, <2>4 DEF AgentSteps
<1>6. CASE UNCHANGED <<worker, box>>
  BY <1>1, <1>4, <1>6 DEF CopyInvariant, Verified, Result, Has, Answered, IsResultOf
<1>7. ASSUME NEW h \in Hashes, HashSegment(h) PROVE Verified'
  <2>1. /\ worker[h] = "absent" /\ h \in Requests /\ AgentOf(h) \in Agents
        /\ worker' = [worker EXCEPT ![h] = "ended"]
    BY <1>7 DEF HashSegment, Answers, Requests, AgentOf, Agents
  <2>2. PICK out \in Outcomes :
          /\ \/ UNCHANGED box
             \/ box' = [box EXCEPT ![AgentOf(h)] = Append(@, Frame("result", h, out))]
          /\ h = "hashSource" /\ out \in Marks => out = "captured"
          /\ h = "hashDest" /\ out \in Marks =>
               flow.offset < Len(partial) /\ out = partial[flow.offset + 1]
    <3>1. partial # Absent /\ flow.offset + 1 <= Len(partial) =>
            partial[flow.offset + 1] \in Outcomes /\ flow.offset < Len(partial)
      BY DEF CopyInvariant, CopyTypeOK, Outcomes
    <3>2. {"captured", "changed", "error"} \subseteq Outcomes /\ "changed" \notin Marks /\ "error" \notin Marks
      BY DEF Outcomes, Marks, Versions
    <3>3. \A out : Answers(h, out) => \/ UNCHANGED box
             \/ box' = [box EXCEPT ![AgentOf(h)] = Append(@, Frame("result", h, out))]
      BY DEF Answers, Sends
    <3>4. \/ h = "hashSource" /\ (Answers(h, "captured") \/ Answers(h, "changed"))
          \/ /\ h = "hashDest" /\ partial # Absent /\ flow.offset + 1 <= Len(partial)
             /\ Answers(h, partial[flow.offset + 1])
          \/ Answers(h, "error")
      BY <1>7 DEF HashSegment
    <3>5. QED
      BY <3>1, <3>2, <3>3, <3>4
  <2>3. ASSUME NEW a \in Agents, NEW i \in DOMAIN box'[a]
        PROVE  \/ i \in DOMAIN box[a] /\ box'[a][i] = box[a][i]
               \/ a = AgentOf(h) /\ box'[a][i] = Frame("result", h, out)
    <3>1. CASE box'[a] = box[a]
      BY <3>1
    <3>2. CASE a = AgentOf(h) /\ box'[a] = Append(box[a], Frame("result", h, out))
      BY <1>3, <2>1, <2>2, <3>2, ResultTyped, AddedFrame
    <3>3. QED
      BY <1>3, <2>1, <2>2, <3>1, <3>2
  <2>4. \A g \in Hashes : AgentOf(g) \in Agents /\ g \in Requests
    BY DEF AgentOf, Agents, Requests
  <2>5. Verified
    BY DEF CopyInvariant
  <2>6. ASSUME NEW g \in Hashes, flow.digest[AgentOf(g)] # "none"
        PROVE  worker'[g] = "ended" /\ ~Answered(box'[AgentOf(g)], g)
    <3>1. worker[g] = "ended" /\ ~Answered(box[AgentOf(g)], g) /\ g # h
      BY <1>2, <2>1, <2>5, <2>6 DEF Verified
    <3>2. worker'[g] = "ended"
      BY <1>3, <2>1, <2>4, <3>1
    <3>3. ~Answered(box'[AgentOf(g)], g)
      BY <2>3, <2>4, <3>1 DEF Answered, IsResultOf, Frame
    <3>4. QED
      BY <3>2, <3>3
  <2>7. ASSUME NEW g \in Hashes, NEW d \in Marks, Result(g, d)'
        PROVE  Result(g, d) \/ (g = h /\ d = out)
    BY <2>3, <2>4, <2>7 DEF Result, Has, Frame
  <2>8. ASSUME NEW d \in Marks
        PROVE  /\ Result("hashSource", d)' => d = "captured"
               /\ Result("hashDest", d)' =>
                    flow.offset < Len(partial) /\ d = partial[flow.offset + 1]
    BY <1>2, <2>2, <2>5, <2>7 DEF Verified, Hashes
  <2>9. QED
    BY <1>1, <1>2, <1>4, <2>5, <2>6, <2>8 DEF Verified
<1>8. QED
  BY <1>5, <1>6, <1>7

\* A sequence of as many segments as the source has is whole.
LEMMA WholeIsAll ==
  ASSUME NEW s \in Seq(Marks), NEW versions, AllIn(s, versions), Len(s) = Segments
  PROVE  /\ s \in [1 .. Segments -> versions]
         /\ \A version : versions = {version} => s = Whole(version)
<1>1. DOMAIN s = 1 .. Segments /\ s = [i \in 1 .. Segments |-> s[i]]
  BY CopyAssumption
<1>2. \A i \in 1 .. Segments : s[i] \in versions
  BY <1>1 DEF AllIn
<1>3. QED
  BY <1>1, <1>2 DEF Whole

\* What staging, cutting and appending do to what was read.
LEMMA OneVersion ==
  ASSUME NEW s \in Seq(Marks), NEW versions \in SUBSET Marks
  PROVE  /\ AllIn(<<>>, versions) /\ Len(<<>>) = 0 /\ <<>> # Absent
         /\ \A version \in versions :
              /\ AllIn(s, versions) => AllIn(Append(s, version), versions)
              /\ Append(s, version) # Absent
              /\ Len(Append(s, version)) = Len(s) + 1
         /\ \A n \in 0 .. Len(s) :
              /\ Prefix(s, n) \in Seq(Marks) /\ Len(Prefix(s, n)) = n
              /\ (\A i \in 1 .. n : s[i] \in versions) => AllIn(Prefix(s, n), versions)
<1>1. AllIn(<<>>, versions) /\ Len(<<>>) = 0 /\ <<>> # Absent
  BY DEF AllIn, Absent
<1>2. ASSUME NEW version \in versions
      PROVE  /\ AllIn(s, versions) => AllIn(Append(s, version), versions)
             /\ Append(s, version) # Absent
             /\ Len(Append(s, version)) = Len(s) + 1
  <2>1. Len(Append(s, version)) = Len(s) + 1 /\ Append(s, version)[Len(s) + 1] = version
    OBVIOUS
  <2>2. AllIn(s, versions) => AllIn(Append(s, version), versions)
    BY AddedFrame DEF AllIn
  <2>3. Len(Absent) = 1 /\ Absent[1] = "absent" /\ "absent" \notin Marks
    BY DEF Absent, Marks, Versions
  <2>4. ASSUME Append(s, version) = Absent PROVE FALSE
    BY <2>1, <2>3, <2>4
  <2>5. QED
    BY <2>1, <2>2, <2>4
<1>3. \A n \in 0 .. Len(s) :
        /\ Prefix(s, n) \in Seq(Marks) /\ Len(Prefix(s, n)) = n
        /\ (\A i \in 1 .. n : s[i] \in versions) => AllIn(Prefix(s, n), versions)
  BY DEF AllIn, Prefix
<1>4. QED
  BY <1>1, <1>2, <1>3

\* What is all of what a reader may have read stays so.
LEMMA ReadStaysRead ==
  ASSUME CopyInvariant, AgentSteps, NEW s, AllIn(s, Pure)
  PROVE  AllIn(s, Pure')
  BY PureGrows DEF AllIn

\* And whole when it is as long as the source.
LEMMA ReadIsWhole ==
  ASSUME CopyInvariant, AgentSteps, target' \in Seq(Marks), AllIn(target', Pure'),
         Len(target') = Segments
  PROVE  PublishedIsWhole'
<1>1. /\ target' \in [1 .. Segments -> Pure']
      /\ Pure' = {"captured"} => target' = Whole("captured")
  BY WholeIsAll
<1>2. shape'.file => Pure' = {"captured"}
  BY DEF Pure
<1>3. Pure' \subseteq Versions /\ "captured" \in Versions
  BY DEF Pure, Versions
<1>4. QED
  BY <1>1, <1>2, <1>3 DEF PublishedIsWhole, Whole

\* What the steps on the contents need to know of the state they start in.
LEMMA ContentsFacts ==
  ASSUME CopyInvariant
  PROVE  /\ Segments \in Nat \ {0} /\ Contents /\ worker \in [Requests -> Steps]
         /\ shape.local => \A r \in Requests \ {"local"} : worker[r] = "absent" /\ ticket[r] = "none"
         /\ ~shape.local => worker["local"] = "absent" /\ ticket["local"] = "none"
         /\ Live("upload") => ticket["settle"] = "none" /\ target = <<>>
         /\ Live("settle") => worker["upload"] = "absent" /\ ticket["settle"] # "none"
         /\ Live("local") /\ worker["local"] \notin {"removing", "deleting"} => target = <<>>
         /\ {"upload", "settle", "download", "delete", "local"} \cup Hashes = Requests
         /\ source \in Versions \cup {"gone"} /\ opened \in Versions
         /\ flow.offset \in Nat /\ sent \in 0 .. Segments
         /\ partial = Absent \/ partial \in Seq(Marks)
         /\ Len(Absent) <= Segments /\ Absent # <<>>
<1>1. /\ Segments \in Nat \ {0} /\ Contents /\ worker \in [Requests -> Steps]
      /\ source \in Versions \cup {"gone"} /\ opened \in Versions
      /\ flow.offset \in Nat /\ sent \in 0 .. Segments
      /\ partial = Absent \/ partial \in Seq(Marks)
  BY CopyAssumption DEF CopyInvariant, CopyTypeOK
<1>2. Len(Absent) <= Segments /\ Absent # <<>>
  <2>1. Len(Absent) = 1
    BY DEF Absent
  <2>2. Absent # <<>>
    BY DEF Absent
  <2>3. 1 <= Segments
    BY CopyAssumption
  <2>4. QED
    BY <2>1, <2>2, <2>3
<1>3. {"upload", "settle", "download", "delete", "local"} \cup Hashes = Requests
  BY DEF Requests
<1>4. \A r \in Requests :
        /\ worker[r] # "absent" => ticket[r] = "written"
        /\ ticket[r] # "none" => (r = "local" <=> shape.local)
  BY DEF CopyInvariant, Tickets
<1>5. ticket["upload"] # "none" => ticket["settle"] = "none"
  BY DEF CopyInvariant, Tickets
<1>6. target # <<>> => worker[Publisher] \in {"removing", "deleting", "ended"}
  BY DEF CopyInvariant, Grants
<1>7. worker["upload"] \notin {"removing", "deleting"}
  BY DEF CopyInvariant, Grants
<1>8. shape.local => \A r \in Requests \ {"local"} : worker[r] = "absent" /\ ticket[r] = "none"
  BY <1>4
<1>9. ~shape.local => worker["local"] = "absent" /\ ticket["local"] = "none"
  BY <1>3, <1>4
<1>10. Live("upload") => ticket["settle"] = "none" /\ target = <<>>
  BY <1>3, <1>4, <1>5, <1>6, <1>7 DEF Live, Publisher
<1>11. Live("settle") => worker["upload"] = "absent" /\ ticket["settle"] # "none"
  BY <1>3, <1>4, <1>5 DEF Live
<1>12. Live("local") /\ worker["local"] \notin {"removing", "deleting"} => target = <<>>
  BY <1>3, <1>4, <1>6 DEF Live, Publisher
<1>13. QED
  BY <1>1, <1>2, <1>3, <1>8, <1>9, <1>10, <1>11, <1>12

\* Writing, spawning and canceling leave the contents alone.
LEMMA LanesKeepContents ==
  ASSUME CopyInvariant, LaneSteps
  PROVE  Contents'
<1> USE DEF fileVars, rowVars, laneVars, workVars, netVars
<1>1. AgentSteps
  BY DEF AgentSteps
<1>2. UNCHANGED <<shape, flow, source, target, partial, opened, sent, fin>>
  BY DEF LaneSteps, WriteCommand, Spawn, ReceiveCancel, AgentNotices
<1>3. ticket'["settle"] = "none" <=> ticket["settle"] = "none"
  BY <1>1, TicketChanges DEF Requests
<1>4. \/ UNCHANGED worker
      \/ \E r \in Requests : worker[r] = "absent" /\ worker' = [worker EXCEPT ![r] = FirstStep(r)]
  BY DEF LaneSteps, WriteCommand, Spawn, ReceiveCancel, AgentNotices
<1>5. CASE UNCHANGED worker
  BY <1>2, <1>3, <1>5, ContentsFacts DEF Contents, AllIn, Pure, PublishedIsWhole, Whole
<1>6. ASSUME NEW r \in Requests, worker[r] = "absent", worker' = [worker EXCEPT ![r] = FirstStep(r)]
      PROVE  Contents'
  <2>1. /\ worker'["upload"] = worker["upload"] \/ (worker["upload"] = "absent" /\ worker'["upload"] = "preparing")
        /\ worker'["download"] = worker["download"] \/ (worker["download"] = "absent" /\ worker'["download"] = "opening")
        /\ worker'["local"] = worker["local"] \/ (worker["local"] = "absent" /\ worker'["local"] = "checking")
    BY <1>6, ContentsFacts DEF FirstStep
  <2>2. PublishedIsWhole'
    BY <1>2, ContentsFacts DEF Contents, PublishedIsWhole, Whole
  <2>3. QED
    BY <1>2, <1>3, <2>1, <2>2, ContentsFacts DEF Contents, AllIn, Pure, Early, Whole
<1>7. QED
  BY <1>4, <1>5, <1>6

\* Nor does the source's side touch what is staged, but it opens the version
\* that will be.
LEMMA SourceKeepsContents ==
  ASSUME CopyInvariant, SourceSteps
  PROVE  Contents'
<1>1. AgentSteps /\ UNCHANGED <<shape, flow>>
  BY AgentsDecideNothing DEF AgentSteps
<1>2. ticket'["settle"] = "none" <=> ticket["settle"] = "none"
  BY <1>1, TicketChanges DEF Requests
<1>3. ASSUME NEW r \in Hashes, HashSegment(r) PROVE Contents'
  <2>1. /\ UNCHANGED <<source, target, partial, opened, sent, fin>>
        /\ worker' = [worker EXCEPT ![r] = "ended"]
    BY <1>3 DEF HashSegment, Answers, NoFileChanges
  <2>2. \A q \in {"upload", "download", "local"} : worker'[q] = worker[q]
    BY <2>1, ContentsFacts DEF Hashes
  <2>3. PublishedIsWhole'
    BY <1>1, <2>1, ContentsFacts DEF Contents, PublishedIsWhole, Whole
  <2>4. QED
    BY <1>1, <1>2, <2>1, <2>2, <2>3, ContentsFacts DEF Contents, AllIn, Pure
<1>4. ASSUME SettlePartial PROVE Contents'
  <2>1. /\ UNCHANGED <<source, target, opened, sent, fin>>
        /\ worker["settle"] = "running" /\ worker' = [worker EXCEPT !["settle"] = "ended"]
        /\ partial' = partial \/ partial' = Absent
    BY <1>4 DEF SettlePartial, Answers
  <2>2. \A q \in {"upload", "download", "local"} : worker'[q] = worker[q]
    BY <2>1, ContentsFacts
  <2>3. PublishedIsWhole'
    BY <1>1, <2>1, ContentsFacts DEF Contents, PublishedIsWhole, Whole
  <2>4. worker["upload"] = "absent" /\ ticket["settle"] # "none" /\ worker["local"] = "absent" /\ ~shape.local
    BY <2>1, ContentsFacts DEF Live
  <2>5. Len(partial') <= Segments
    <3>1. Len(partial) <= Segments
      BY ContentsFacts DEF Contents
    <3>2. QED
      BY <2>1, <3>1, ContentsFacts
  <2>6. UNCHANGED <<shape, flow>> /\ ticket'["settle"] # "none" /\ worker'["upload"] = "absent"
        /\ worker'["local"] = "absent"
    BY <1>1, <1>2, <2>2, <2>4
  <2>7. Contents
    BY ContentsFacts
  <2>8. QED
    BY <2>1, <2>2, <2>3, <2>4, <2>5, <2>6, <2>7 DEF Contents, Pure, AllIn
<1>5. ASSUME VerifySource \/ DeleteSource \/ ReplaceSource PROVE Contents'
  <2>1. /\ UNCHANGED <<target, partial, opened, sent, fin>>
        /\ worker' = worker \/ \E step \in Steps : worker' = [worker EXCEPT !["delete"] = step]
    BY <1>5 DEF VerifySource, DeleteSource, ReplaceSource, Answers, workVars, NoFileChanges, Steps
  <2>2. \A q \in {"upload", "download", "local"} : worker'[q] = worker[q]
    BY <2>1, ContentsFacts
  <2>3. PublishedIsWhole'
    BY <1>1, <2>1, ContentsFacts DEF Contents, PublishedIsWhole, Whole
  <2>4. opened' \in Pure' /\ \A s : AllIn(s, Pure) => AllIn(s, Pure')
    BY <1>1, <2>1, PureGrows, ReadStaysRead, ContentsFacts DEF Contents
  <2>5. Contents
    BY ContentsFacts
  <2>6. QED
    BY <1>1, <1>2, <2>1, <2>2, <2>3, <2>4, <2>5 DEF Contents
<1>6. ASSUME SendSegment \/ FinishSource \/ StopSource \/ FailSource PROVE Contents'
  <2>1. /\ UNCHANGED <<source, target, partial, opened>> /\ worker["download"] = "sending"
        /\ \/ worker' = worker /\ fin' = fin
           \/ worker' = [worker EXCEPT !["download"] = "ended"] /\ fin' = fin
           \/ worker' = [worker EXCEPT !["download"] = "ended"] /\ fin'
    BY <1>6 DEF SendSegment, FinishSource, StopSource, FailSource, SourceEnds, Answers, workVars, fileVars
  <2>2. \A q \in {"upload", "local"} : worker'[q] = worker[q]
    BY <2>1, ContentsFacts
  <2>3. worker'["download"] \in {"sending", "ended"} /\ (fin' => fin \/ worker'["download"] = "ended")
    BY <2>1, ContentsFacts
  <2>4. PublishedIsWhole'
    BY <1>1, <2>1, ContentsFacts DEF Contents, PublishedIsWhole, Whole
  <2>5. ~fin
    BY <2>1, ContentsFacts DEF Contents
  <2>6. QED
    BY <1>1, <1>2, <2>1, <2>2, <2>3, <2>4, <2>5, ContentsFacts DEF Contents, AllIn, Pure
<1>7. ASSUME OpenSource PROVE Contents'
  <2>1. /\ UNCHANGED <<source, target, partial, fin>> /\ worker["download"] = "opening"
        /\ \/ /\ source # "gone" /\ (shape.file => source = "captured") /\ opened' = source
              /\ worker' = [worker EXCEPT !["download"] = "sending"]
           \/ opened' = opened /\ worker' = [worker EXCEPT !["download"] = "ended"]
    BY <1>7 DEF OpenSource, NoFileChanges, Answers
  <2>2. \A q \in {"upload", "local"} : worker'[q] = worker[q]
    BY <2>1, ContentsFacts
  <2>3. worker'["download"] \in {"sending", "ended"}
    BY <2>1, ContentsFacts
  <2>4. PublishedIsWhole'
    BY <1>1, <2>1, ContentsFacts DEF Contents, PublishedIsWhole, Whole
  <2>5. ~fin /\ ~shape.local /\ worker["local"] = "absent"
    BY <2>1, ContentsFacts DEF Contents
  <2>6. opened' \in Pure' /\ Pure' = Pure
    <3>1. Pure' = Pure
      BY <1>1, <2>1, PureGrows
    <3>2. source # "gone" /\ (shape.file => source = "captured") => source \in Pure
      BY ContentsFacts DEF Pure
    <3>3. QED
      BY <2>1, <3>1, <3>2, ContentsFacts DEF Contents
  <2>7. worker["upload"] = "staging" => partial # Absent /\ AllIn(partial, Pure')
    BY <2>6, ContentsFacts DEF Contents
  <2>8. /\ worker["upload"] \notin {"asking", "publishing"}
        /\ ~(worker["upload"] = "ended" /\ target # <<>>)
    BY <2>5, ContentsFacts DEF Contents
  <2>9. QED
    BY <1>1, <1>2, <2>1, <2>2, <2>3, <2>4, <2>5, <2>6, <2>7, <2>8, ContentsFacts DEF Contents, Early
<1>8. QED
  BY <1>3, <1>4, <1>5, <1>6, <1>7 DEF SourceSteps

\* The upload stages the opened version after the verified prefix, and publishes
\* what it staged when it is whole.
LEMMA UploadKeepsContents ==
  ASSUME CopyInvariant, UploadSteps
  PROVE  Contents'
<1>1. AgentSteps /\ UNCHANGED <<shape, flow>>
  BY AgentsDecideNothing DEF AgentSteps
<1>2. UNCHANGED <<source, opened, sent, fin, ticket>>
  BY DEF UploadSteps, UploadKeeps, PrepareUpload, StageSegment, StopUpload, FailUpload,
         AskUpload, UploadTimesOut, PublishUpload, UploadDecision, laneVars
<1>0. Pure' = Pure /\ Pure \subseteq Marks /\ Readable \subseteq Pure
  BY <1>1, <1>2, PureGrows DEF Marks
<1>3. ASSUME UNCHANGED <<target, partial, worker>> PROVE Contents'
  BY <1>1, <1>2, <1>3, ContentsFacts DEF Contents, AllIn, Pure, PublishedIsWhole, Whole
<1>4. ASSUME NEW step \in {"staging", "asking", "publishing", "ended"}, Live("upload"),
             worker' = [worker EXCEPT !["upload"] = step],
             \/ target' = target
             \/ /\ step = "ended" /\ fin' /\ target' \in Seq(Marks)
                /\ Len(target') = Segments /\ AllIn(target', Pure'),
             Len(partial') <= Segments,
             step # "ended" => partial' # Absent /\ AllIn(partial', Pure'),
             step = "staging" => Len(partial') = flow.offset,
             step \in {"asking", "publishing"} => fin' /\ Len(partial') = Segments
      PROVE  Contents'
  <2>1. /\ ~shape.local /\ worker'["local"] = "absent" /\ worker["local"] = "absent"
        /\ worker'["download"] = worker["download"] /\ worker'["upload"] = step
        /\ target = <<>>
    BY <1>4, ContentsFacts DEF Live
  <2>2. PublishedIsWhole'
    <3>1. CASE target' = target
      BY <2>1, <3>1 DEF PublishedIsWhole
    <3>2. CASE target' # target
      BY <1>1, <1>4, <3>2, ReadIsWhole
    <3>3. QED
      BY <3>1, <3>2
  <2>3. step = "ended" /\ target' # <<>> =>
          fin' /\ Len(target') = Segments /\ AllIn(target', Pure')
    BY <1>4, <2>1
  <2>4. Contents
    BY ContentsFacts
  <2>5. opened' \in Pure'
    BY <1>1, <1>2, <2>4, PureGrows DEF Contents
  <2>6. QED
    BY <1>1, <1>2, <1>4, <2>1, <2>2, <2>3, <2>4, <2>5 DEF Contents
<1>5. ASSUME Live("upload"), worker' = [worker EXCEPT !["upload"] = "ended"], UNCHANGED target,
             partial' = partial \/ partial' = Absent
      PROVE  Contents'
  <2>1. Len(partial) <= Segments /\ Len(Absent) <= Segments
    BY ContentsFacts DEF Contents
  <2>2. Len(partial') <= Segments
    BY <1>5, <2>1
  <2>3. QED
    BY <1>4, <1>5, <2>2
<1>6. ASSUME PrepareUpload PROVE Contents'
  <2>1. /\ UNCHANGED target /\ worker["upload"] = "preparing"
        /\ \/ Prepare /\ worker' = [worker EXCEPT !["upload"] = "staging"]
           \/ UNCHANGED partial /\ worker' = [worker EXCEPT !["upload"] = "ended"]
    BY <1>6 DEF PrepareUpload, Answers
  <2>2. Live("upload") /\ <<>> \in Seq(Marks) /\ ~shape.local /\ ticket["settle"] = "none"
    BY <2>1, ContentsFacts DEF Live
  <2>3. ASSUME Prepare
        PROVE  Len(partial') = flow.offset /\ Len(partial') <= Segments /\ partial' # Absent
               /\ AllIn(partial', Pure')
    <3>1. flow.offset <= Len(partial) /\ (\A i \in 1 .. flow.offset : partial[i] = "captured")
          /\ flow.offset \in 0 .. Segments
      BY <2>1, <2>2, ContentsFacts DEF Contents
    <3>2. CASE ~(shape.file /\ shape.resume)
      <4>1. partial' = <<>> /\ flow.offset = 0
        BY <2>3, <3>2, ContentsFacts DEF Prepare, Contents
      <4>2. Len(<<>>) = 0 /\ <<>> # Absent /\ AllIn(<<>>, Pure')
        BY <1>0, <2>2, OneVersion
      <4>3. 0 <= Segments
        BY ContentsFacts
      <4>4. QED
        BY <4>1, <4>2, <4>3
    <3>3. CASE shape.file /\ shape.resume
      <4>1. Pure = {"captured"} /\ partial' = Prefix(partial, flow.offset)
        BY <2>3, <3>3 DEF Prepare, Pure
      <4>2. CASE partial = Absent
        <5>1. Absent[1] = "absent"
          BY DEF Absent
        <5>2. flow.offset = 0
          BY <3>1, <4>2, <5>1, ContentsFacts
        <5>3. partial' = <<>>
          BY <4>1, <5>2 DEF Prefix
        <5>4. Len(<<>>) = 0 /\ <<>> # Absent /\ AllIn(<<>>, Pure')
          BY <1>0, <2>2, OneVersion
        <5>5. 0 <= Segments
          BY ContentsFacts
        <5>6. QED
          BY <5>2, <5>3, <5>4, <5>5
      <4>3. CASE partial \in Seq(Marks)
        <5>1. Len(partial') = flow.offset /\ AllIn(partial', Pure) /\ partial' \in Seq(Marks)
          <6>1. flow.offset \in 0 .. Len(partial)
            BY <3>1, <4>3
          <6>2. /\ Prefix(partial, flow.offset) \in Seq(Marks)
                /\ Len(Prefix(partial, flow.offset)) = flow.offset
                /\ (\A i \in 1 .. flow.offset : partial[i] \in Pure) =>
                     AllIn(Prefix(partial, flow.offset), Pure)
            BY <1>0, <4>3, <6>1, OneVersion
          <6>3. QED
            BY <3>1, <4>1, <6>2
        <5>2. partial' # Absent
          <6>1. Absent[1] = "absent" /\ "absent" \notin Marks /\ 1 \in DOMAIN Absent
            BY DEF Absent, Marks, Versions
          <6>2. QED
            BY <5>1, <6>1
        <5>3. QED
          BY <1>0, <3>1, <4>1, <5>1, <5>2, ContentsFacts
      <4>4. QED
        BY <4>2, <4>3, ContentsFacts
    <3>4. QED
      BY <3>2, <3>3
  <2>4. QED
    BY <1>4, <1>5, <2>1, <2>2, <2>3
<1>7. ASSUME StageSegment PROVE Contents'
  <2>1. /\ worker["upload"] = "staging" /\ Len(partial) < sent
        /\ \E version \in Pure : partial' = Append(partial, version)
        /\ UNCHANGED <<target, worker>>
    BY <1>0, <1>7 DEF StageSegment
  <2>2. partial \in Seq(Marks) /\ AllIn(partial, Pure)
    BY <2>1, ContentsFacts DEF Contents
  <2>3. Len(partial') = Len(partial) + 1 /\ partial' # Absent /\ AllIn(partial', Pure') /\ Len(partial) \in Nat
    <3>1. PICK version \in Pure : partial' = Append(partial, version)
      BY <2>1
    <3>2. /\ Len(Append(partial, version)) = Len(partial) + 1
          /\ Append(partial, version) # Absent /\ AllIn(Append(partial, version), Pure)
      BY <1>0, <2>2, OneVersion
    <3>3. QED
      BY <1>0, <2>2, <3>1, <3>2
  <2>4. Len(partial') <= Segments
    BY <2>1, <2>3, ContentsFacts
  <2>5. worker["download"] \notin {"absent", "opening"}
    BY <2>1, <2>3, ContentsFacts DEF Contents
  <2>6. PublishedIsWhole'
    BY <1>1, <2>1, ContentsFacts DEF Contents, PublishedIsWhole, Whole
  <2>7. worker["local"] = "absent" /\ ~shape.local /\ target = <<>>
    BY <2>1, ContentsFacts DEF Live
  <2>8. Contents
    BY ContentsFacts
  <2>9. QED
    BY <1>0, <1>1, <1>2, <2>1, <2>3, <2>4, <2>5, <2>6, <2>7, <2>8 DEF Contents
<1>8. ASSUME AskUpload PROVE Contents'
  <2>1. /\ worker["upload"] = "staging" /\ fin /\ Len(partial) = Segments
        /\ UNCHANGED <<target, partial>> /\ worker' = [worker EXCEPT !["upload"] = "asking"]
    BY <1>8 DEF AskUpload
  <2>2. partial # Absent /\ AllIn(partial, Pure) /\ Live("upload")
    BY <2>1, ContentsFacts DEF Contents, Live
  <2>3. partial' # Absent /\ AllIn(partial', Pure') /\ Len(partial') = Segments /\ fin'
    BY <1>0, <1>2, <2>1, <2>2
  <2>4. QED
    BY <1>4, <2>1, <2>2, <2>3, ContentsFacts
<1>9. ASSUME PublishUpload PROVE Contents'
  <2>1. /\ worker["upload"] = "publishing" /\ target' = partial /\ partial' = Absent
        /\ worker' = [worker EXCEPT !["upload"] = "ended"]
    BY <1>9 DEF PublishUpload, Answers
  <2>2. /\ partial \in Seq(Marks) /\ AllIn(partial, Pure) /\ Live("upload") /\ fin
        /\ Len(partial) = Segments
    BY <2>1, ContentsFacts DEF Contents, Live
  <2>3. target' \in Seq(Marks) /\ Len(target') = Segments /\ AllIn(target', Pure')
    BY <1>0, <2>1, <2>2
  <2>4. fin' /\ Len(partial') <= Segments
    <3>1. Len(Absent) <= Segments
      BY ContentsFacts
    <3>2. QED
      BY <1>2, <2>1, <2>2, <3>1
  <2>5. QED
    BY <1>4, <2>1, <2>2, <2>3, <2>4
<1>10. ASSUME StopUpload \/ FailUpload \/ UploadTimesOut PROVE Contents'
  <2>1. Live("upload") /\ UNCHANGED target /\ worker' = [worker EXCEPT !["upload"] = "ended"]
        /\ (partial' = partial \/ partial' = Absent)
    BY <1>10 DEF StopUpload, FailUpload, UploadTimesOut, Stops, Fails, Leaves, Answers, Live
  <2>2. QED
    BY <1>5, <2>1
<1>11. ASSUME NEW answer \in {"allowed", "denied"}, UploadDecision(answer) PROVE Contents'
  <2>1. /\ UNCHANGED target
        /\ \/ UNCHANGED <<partial, worker>>
           \/ /\ worker["upload"] = "asking" /\ UNCHANGED partial
              /\ worker' = [worker EXCEPT !["upload"] = "publishing"]
           \/ /\ worker["upload"] = "asking" /\ (partial' = partial \/ partial' = Absent)
              /\ worker' = [worker EXCEPT !["upload"] = "ended"]
    BY <1>11 DEF UploadDecision, Stops, Leaves, Answers
  <2>2. worker["upload"] = "asking" =>
          /\ partial # Absent /\ AllIn(partial, Pure) /\ Live("upload") /\ fin
          /\ Len(partial) = Segments
    BY ContentsFacts DEF Contents, Live
  <2>3. worker["upload"] = "asking" /\ UNCHANGED partial =>
          /\ partial' # Absent /\ AllIn(partial', Pure') /\ Live("upload") /\ fin'
          /\ Len(partial') = Segments /\ Len(partial') <= Segments
    BY <1>0, <1>2, <2>2, ContentsFacts
  <2>4. QED
    BY <1>3, <1>4, <1>5, <2>1, <2>2, <2>3
<1>12. QED
  BY <1>6, <1>7, <1>8, <1>9, <1>10, <1>11 DEF UploadSteps

\* The local worker stages what it opened after what that vouches for.
LEMMA LocalKeepsContents ==
  ASSUME CopyInvariant, LocalSteps
  PROVE  Contents'
<1> USE DEF fileVars
<1>1. AgentSteps /\ UNCHANGED <<shape, flow>>
  BY AgentsDecideNothing DEF AgentSteps
<1>2. UNCHANGED <<sent, fin, ticket>>
  BY DEF LocalSteps, LocalKeeps, CheckLocal, RenameLocal, PrepareLocal, VerifyLocal, StageLocal,
         StagedLocal, StopLocal, FailLocal, LocalTimesOut, PublishLocal, VerifyRemoval, RemoveLocal,
         LocalDecision, laneVars
<1>3. ASSUME UNCHANGED <<source, opened, target, partial, worker>> PROVE Contents'
  BY <1>1, <1>2, <1>3, ContentsFacts DEF Contents, AllIn, Pure, PublishedIsWhole, Whole
<1>4. ASSUME NEW step \in Steps \ {"absent", "checking"}, Live("local"),
             worker' = [worker EXCEPT !["local"] = step],
             \/ target' = target
             \/ \E version \in Versions : target' = Whole(version)
             \/ target' \in Seq(Marks) /\ Len(target') = Segments /\ AllIn(target', Pure'),
             opened' \in Pure',
             Len(partial') <= Segments,
             step \in Early /\ shape.resume => partial' # Absent,
             step = "verifying" => partial' # Absent,
             step \in {"staging", "asking", "publishing"} => partial' # Absent /\ AllIn(partial', Pure'),
             step \in {"asking", "publishing"} => Len(partial') = Segments,
             step = "removing" => Len(target') = Segments /\ AllIn(target', Pure')
      PROVE  Contents'
  <2>1. /\ shape.local /\ worker'["local"] = step
        /\ \A q \in {"upload", "download"} : worker'[q] = "absent" /\ worker[q] = "absent"
    BY <1>4, ContentsFacts DEF Live
  <2>2. PublishedIsWhole'
    <3>1. PublishedIsWhole
      BY ContentsFacts DEF Contents
    <3>2. CASE target' = target
      BY <1>1, <3>1, <3>2 DEF PublishedIsWhole, Whole
    <3>3. CASE \E version \in Versions : target' = Whole(version)
      BY <3>3 DEF PublishedIsWhole, Whole
    <3>4. CASE target' \in Seq(Marks) /\ Len(target') = Segments /\ AllIn(target', Pure')
      BY <1>1, <3>4, ReadIsWhole
    <3>5. QED
      BY <1>4, <3>2, <3>3, <3>4
  <2>3. Contents
    BY ContentsFacts
  <2>4. sent' = 0 /\ ~fin'
    BY <1>2, <2>1, <2>3 DEF Contents
  <2>5. QED
    BY <1>1, <1>2, <1>4, <2>1, <2>2, <2>3, <2>4 DEF Contents, Whole
<1>5. ASSUME Live("local"), worker' = [worker EXCEPT !["local"] = "ended"], UNCHANGED <<target, opened>>,
             partial' = partial \/ partial' = Absent, source' \in {source, "gone"}
      PROVE  Contents'
  <2>1. Len(partial) <= Segments /\ Len(Absent) <= Segments
    BY ContentsFacts DEF Contents
  <2>2. Len(partial') <= Segments
    BY <1>5, <2>1
  <2>3. opened' \in Pure'
    BY <1>1, <1>5, PureGrows, ContentsFacts DEF Contents
  <2>4. "ended" \in Steps \ {"absent", "checking"} /\ "ended" \notin Early
    BY DEF Steps, Early
  <2>5. QED
    BY <1>4, <1>5, <2>2, <2>3, <2>4
<1>6. ASSUME NEW step \in {"preparing", "renaming", "askingRename"}, Live("local"),
             worker' = [worker EXCEPT !["local"] = step], worker["local"] \in Early,
             UNCHANGED <<source, target, partial, opened>>
      PROVE  Contents'
  <2>1. /\ Len(partial') <= Segments /\ opened' \in Pure'
        /\ shape.resume => partial' # Absent
        /\ step \in Steps \ {"absent", "checking"}
    <3>1. shape.local
      BY <1>6, ContentsFacts DEF Live
    <3>2. QED
      BY <1>1, <1>6, <3>1, PureGrows, ContentsFacts DEF Contents, Steps
  <2>2. QED
    BY <1>4, <1>6, <2>1
<1>7. ASSUME CheckLocal PROVE Contents'
  <2>1. /\ worker["local"] = "checking" /\ UNCHANGED <<source, target, partial, opened>>
        /\ \E step \in {"preparing", "renaming", "askingRename", "ended"} :
             worker' = [worker EXCEPT !["local"] = step]
    BY <1>7 DEF CheckLocal, LocalAt, LocalGoes, Answers
  <2>2. QED
    BY <1>5, <1>6, <2>1 DEF Live, Early
<1>8. ASSUME RenameLocal PROVE Contents'
  <2>1. /\ worker["local"] = "renaming" /\ UNCHANGED opened
        /\ \/ /\ target' = Whole(source) /\ source' = "gone" /\ partial' = Absent
              /\ worker' = [worker EXCEPT !["local"] = "ended"]
           \/ UNCHANGED <<source, target, partial>> /\ worker' = [worker EXCEPT !["local"] = "preparing"]
           \/ UNCHANGED <<source, target, partial>> /\ worker' = [worker EXCEPT !["local"] = "ended"]
    BY <1>8 DEF RenameLocal, LocalAt, LocalGoes, Answers
  <2>2. source \in Versions /\ Live("local")
    <3>1. source = "gone" => worker["local"] = "ended" \/ ~shape.local
      BY DEF CopyInvariant, Grants, Publisher
    <3>2. QED
      BY <2>1, <3>1, ContentsFacts DEF Live
  <2>3. ASSUME target' = Whole(source), source' = "gone", partial' = Absent,
               worker' = [worker EXCEPT !["local"] = "ended"]
        PROVE  Contents'
    <3>1. /\ Len(partial') <= Segments /\ opened' \in Pure'
          /\ "ended" \in Steps \ {"absent", "checking"} /\ "ended" \notin Early
      <4>1. Len(Absent) <= Segments
        BY ContentsFacts
      <4>2. QED
        BY <1>1, <2>1, <2>3, <4>1, PureGrows, ContentsFacts DEF Contents, Steps, Early
    <3>2. \E version \in Versions : target' = Whole(version)
      BY <2>2, <2>3
    <3>3. QED
      BY <1>4, <2>2, <2>3, <3>1, <3>2
  <2>4. QED
    BY <1>5, <1>6, <2>1, <2>2, <2>3 DEF Early
<1>9. ASSUME PrepareLocal PROVE Contents'
  <2>1. /\ worker["local"] = "preparing" /\ UNCHANGED <<source, target>>
        /\ \/ /\ partial' = partial \/ partial' = Absent
              /\ UNCHANGED opened /\ worker' = [worker EXCEPT !["local"] = "ended"]
           \/ /\ shape.file /\ source = "captured" /\ opened' = "captured"
              /\ partial' = IF shape.resume THEN partial ELSE <<>>
              /\ worker' = [worker EXCEPT !["local"] = "verifying"]
           \/ /\ ~shape.file /\ partial' = <<>> /\ opened' = source
              /\ worker' = [worker EXCEPT !["local"] = "staging"]
    BY <1>9 DEF PrepareLocal, LocalAt, LocalGoes, Answers
  <2>2. Live("local") /\ shape.local /\ {"verifying", "staging"} \subseteq Steps \ {"absent", "checking"}
        /\ "verifying" \notin Early /\ "staging" \notin Early /\ worker["local"] \in Early
        /\ <<>> \in Seq(Marks) /\ Pure' = Pure
    BY <1>1, <2>1, PureGrows, ContentsFacts DEF Live, Steps, Early
  <2>3. Len(<<>>) = 0 /\ <<>> # Absent /\ AllIn(<<>>, Pure') /\ 0 <= Segments /\ Len(partial) <= Segments
    BY <2>2, ContentsFacts DEF AllIn, Contents, Absent
  <2>4. ASSUME shape.file, opened' = "captured",
               partial' = IF shape.resume THEN partial ELSE <<>>,
               worker' = [worker EXCEPT !["local"] = "verifying"]
        PROVE  Contents'
    <3>1. partial' # Absent /\ Len(partial') <= Segments /\ opened' \in Pure'
      BY <2>2, <2>3, <2>4, ContentsFacts DEF Contents, Pure
    <3>2. QED
      BY <1>4, <2>1, <2>2, <2>4, <3>1
  <2>5. ASSUME ~shape.file, partial' = <<>>, opened' = source,
               worker' = [worker EXCEPT !["local"] = "staging"]
        PROVE  Contents'
    <3>1. partial' # Absent /\ Len(partial') <= Segments /\ AllIn(partial', Pure')
      BY <2>3, <2>5
    <3>2. opened' \in Pure'
      <4>1. source \in Versions
        BY <2>1, ContentsFacts DEF CopyInvariant, Grants, Publisher
      <4>2. QED
        BY <2>2, <2>5, <4>1 DEF Pure
    <3>3. QED
      BY <1>4, <2>1, <2>2, <2>5, <3>1, <3>2
  <2>6. QED
    BY <1>5, <2>1, <2>2, <2>4, <2>5
<1>10. ASSUME VerifyLocal PROVE Contents'
  <2>1. /\ worker["local"] = "verifying" /\ UNCHANGED <<source, target, opened>>
        /\ worker' = [worker EXCEPT !["local"] = "staging"]
        /\ \E n \in 0 .. Len(partial) :
             (\A i \in 1 .. n : partial[i] = opened) /\ partial' = Prefix(partial, n)
    BY <1>10 DEF VerifyLocal, Vouched, LocalAt, LocalGoes
  <2>2. /\ partial \in Seq(Marks) /\ Live("local") /\ Len(partial) <= Segments
        /\ opened \in Pure /\ opened' \in Pure' /\ Pure' = Pure /\ Pure \subseteq Marks
    BY <1>1, <2>1, PureGrows, ContentsFacts DEF Contents, Live, Marks
  <2>3. AllIn(partial', Pure') /\ partial' \in Seq(Marks) /\ Len(partial') <= Segments
    <3>1. PICK n \in 0 .. Len(partial) :
            (\A i \in 1 .. n : partial[i] = opened) /\ partial' = Prefix(partial, n)
      BY <2>1
    <3>2. /\ Len(Prefix(partial, n)) = n /\ Prefix(partial, n) \in Seq(Marks)
          /\ AllIn(Prefix(partial, n), Pure)
      BY <2>2, <3>1, OneVersion
    <3>3. QED
      BY <2>2, <3>1, <3>2, ContentsFacts
  <2>4. partial' # Absent
    <3>1. Absent[1] = "absent" /\ "absent" \notin Marks /\ 1 \in DOMAIN Absent
      BY DEF Absent, Marks, Versions
    <3>2. QED
      BY <2>3, <3>1
  <2>5. "staging" \in Steps \ {"absent", "checking"} /\ "staging" \notin Early
    BY DEF Steps, Early
  <2>6. QED
    BY <1>4, <2>1, <2>2, <2>3, <2>4, <2>5
<1>11. ASSUME StageLocal PROVE Contents'
  <2>1. /\ worker["local"] = "staging" /\ Len(partial) < Segments
        /\ \E version \in Readable : partial' = Append(partial, version)
        /\ UNCHANGED <<source, target, opened, worker>>
    BY <1>11 DEF StageLocal, LocalAt
  <2>2. /\ partial \in Seq(Marks) /\ AllIn(partial, Pure) /\ shape.local
        /\ Readable \subseteq Pure /\ Pure' = Pure /\ Pure \subseteq Marks /\ opened' \in Pure'
    BY <1>1, <2>1, PureGrows, ContentsFacts DEF Contents, Marks
  <2>3. Len(partial') = Len(partial) + 1 /\ partial' # Absent /\ AllIn(partial', Pure') /\ Len(partial) \in Nat
    <3>1. PICK version \in Pure : partial' = Append(partial, version)
      BY <2>1, <2>2
    <3>2. /\ Len(Append(partial, version)) = Len(partial) + 1
          /\ Append(partial, version) # Absent /\ AllIn(Append(partial, version), Pure)
      BY <2>2, OneVersion
    <3>3. QED
      BY <2>2, <3>1, <3>2
  <2>4. Len(partial') <= Segments
    BY <2>1, <2>3, ContentsFacts
  <2>5. PublishedIsWhole'
    BY <1>1, <2>1, ContentsFacts DEF Contents, PublishedIsWhole, Whole
  <2>6. worker["upload"] = "absent" /\ worker["download"] = "absent"
    BY <2>2, ContentsFacts
  <2>7. Contents
    BY ContentsFacts
  <2>8. QED
    BY <1>1, <1>2, <2>1, <2>2, <2>3, <2>4, <2>5, <2>6, <2>7 DEF Contents, Early
<1>12. ASSUME NEW step \in {"asking", "publishing"}, worker["local"] \in {"staging", "asking"},
              Len(partial) = Segments, UNCHANGED <<source, target, partial, opened>>,
              worker' = [worker EXCEPT !["local"] = step]
       PROVE  Contents'
  <2>1. /\ Live("local") /\ partial' # Absent /\ AllIn(partial', Pure') /\ Len(partial') = Segments
        /\ Len(partial') <= Segments /\ opened' \in Pure'
    BY <1>1, <1>12, PureGrows, ContentsFacts DEF Contents, Live
  <2>2. step \in Steps \ {"absent", "checking"} /\ step \notin Early
    BY DEF Steps, Early
  <2>3. QED
    BY <1>4, <1>12, <2>1, <2>2
<1>13. ASSUME StagedLocal PROVE Contents'
  <2>1. /\ worker["local"] = "staging" /\ Len(partial) = Segments
        /\ UNCHANGED <<source, target, partial, opened>>
        /\ \E step \in {"asking", "publishing"} : worker' = [worker EXCEPT !["local"] = step]
    BY <1>13 DEF StagedLocal, LocalAt, LocalGoes
  <2>2. QED
    BY <1>12, <2>1
<1>14. ASSUME StopLocal \/ FailLocal \/ LocalTimesOut PROVE Contents'
  <2>1. /\ Live("local") /\ UNCHANGED <<source, target, opened>>
        /\ worker' = [worker EXCEPT !["local"] = "ended"]
        /\ partial' = partial \/ partial' = Absent
    BY <1>14 DEF StopLocal, FailLocal, LocalTimesOut, Stops, Fails, Leaves, Answers, Live, LocalAt
  <2>2. QED
    BY <1>5, <2>1
<1>15. ASSUME NEW answer \in {"allowed", "denied"}, LocalDecision(answer) PROVE Contents'
  <2>1. /\ UNCHANGED <<source, target, opened>>
        /\ \/ UNCHANGED <<partial, worker>>
           \/ /\ worker["local"] = "asking" /\ UNCHANGED partial
              /\ worker' = [worker EXCEPT !["local"] = "publishing"]
           \/ /\ worker["local"] = "askingRename" /\ UNCHANGED partial
              /\ worker' = [worker EXCEPT !["local"] = "renaming"]
           \/ /\ worker["local"] \in {"asking", "askingRename"} /\ (partial' = partial \/ partial' = Absent)
              /\ worker' = [worker EXCEPT !["local"] = "ended"]
    BY <1>15 DEF LocalDecision, Stops, Leaves, Answers, LocalAt, LocalGoes
  <2>2. worker["local"] = "asking" => Len(partial) = Segments
    BY ContentsFacts DEF Contents
  <2>3. QED
    BY <1>3, <1>5, <1>6, <1>12, <2>1, <2>2 DEF Live, Early
<1>16. ASSUME PublishLocal PROVE Contents'
  <2>1. /\ worker["local"] = "publishing" /\ target' = partial /\ partial' = Absent
        /\ UNCHANGED <<source, opened>>
        /\ \E step \in {"removing", "ended"} : worker' = [worker EXCEPT !["local"] = step]
    BY <1>16 DEF PublishLocal, Answers, LocalAt, LocalGoes
  <2>2. /\ partial \in Seq(Marks) /\ AllIn(partial, Pure) /\ Live("local") /\ Len(partial) = Segments
        /\ opened' \in Pure' /\ Pure' = Pure
    BY <1>1, <2>1, PureGrows, ContentsFacts DEF Contents, Live
  <2>3. target' \in Seq(Marks) /\ Len(target') = Segments /\ AllIn(target', Pure')
    BY <2>1, <2>2
  <2>4. Len(partial') <= Segments
    <3>1. Len(Absent) <= Segments
      BY ContentsFacts
    <3>2. QED
      BY <2>1, <3>1
  <2>5. /\ {"removing", "ended"} \subseteq Steps \ {"absent", "checking"}
        /\ {"removing", "ended"} \cap Early = {}
    BY DEF Steps, Early
  <2>8. PICK step \in {"removing", "ended"} : worker' = [worker EXCEPT !["local"] = step]
    BY <2>1
  <2>9. step \in Steps \ {"absent", "checking"} /\ step \notin Early
        /\ step \notin {"verifying", "staging", "asking", "publishing"}
    BY <2>5
  <2>10. QED
    BY <1>4, <2>2, <2>3, <2>4, <2>8, <2>9
<1>17. ASSUME RemoveLocal PROVE Contents'
  <2>1. /\ Live("local") /\ UNCHANGED <<target, opened, partial>>
        /\ worker' = [worker EXCEPT !["local"] = "ended"] /\ source' \in {source, "gone"}
    BY <1>17 DEF RemoveLocal, Answers, Live, LocalAt
  <2>2. QED
    BY <1>5, <2>1
<1>18. ASSUME VerifyRemoval PROVE Contents'
  <2>1. /\ worker["local"] = "removing" /\ UNCHANGED <<source, target, opened, partial>>
        /\ \E step \in {"deleting", "ended"} : worker' = [worker EXCEPT !["local"] = step]
    BY <1>18 DEF VerifyRemoval, Answers, LocalAt, LocalGoes
  <2>2. Live("local") /\ Len(partial') <= Segments /\ opened' \in Pure'
    BY <1>1, <2>1, PureGrows, ContentsFacts DEF Contents, Live
  <2>3. PICK step \in {"deleting", "ended"} : worker' = [worker EXCEPT !["local"] = step]
    BY <2>1
  <2>4. step \in Steps \ {"absent", "checking"} /\ step \notin Early
        /\ step \notin {"verifying", "staging", "asking", "publishing", "removing"}
    BY DEF Steps, Early
  <2>5. QED
    BY <1>4, <2>1, <2>2, <2>3, <2>4
<1>19. QED
  BY <1>7, <1>8, <1>9, <1>10, <1>11, <1>13, <1>14, <1>15, <1>16, <1>17, <1>18 DEF LocalSteps

\* A path is removed after the version at it was published, and found there.
LEMMA AgentsKeepRemoval ==
  ASSUME CopyInvariant, AgentSteps
  PROVE  Removal'
<1> USE DEF fileVars, workVars
<1>1. Removing' => Removing \/ VerifySource \/ VerifyRemoval
  <2>1. worker \in [Requests -> Steps] /\ {"delete", "local"} \subseteq Requests
    BY DEF CopyInvariant, CopyTypeOK, Requests
  <2>2. CASE LaneSteps
    <3>1. \/ UNCHANGED worker
          \/ \E r \in Requests : worker' = [worker EXCEPT ![r] = FirstStep(r)]
      BY <2>2 DEF LaneSteps, WriteCommand, Spawn, ReceiveCancel, AgentNotices
    <3>2. QED
      BY <2>1, <3>1 DEF Removing, FirstStep
  <2>3. CASE SourceSteps /\ ~VerifySource
    <3>1. \/ UNCHANGED worker
          \/ \E r \in Requests, step \in {"ended", "sending"} : worker' = [worker EXCEPT ![r] = step]
      BY <2>3 DEF SourceSteps, HashSegment, SettlePartial, DeleteSource, ReplaceSource,
           OpenSource, SendSegment, FinishSource, StopSource, FailSource, SourceEnds, Answers,
           Requests
    <3>2. QED
      BY <2>1, <3>1 DEF Removing
  <2>4. CASE UploadSteps
    <3>1. \/ UNCHANGED worker
          \/ \E step \in Steps : worker' = [worker EXCEPT !["upload"] = step]
      BY <2>4 DEF UploadSteps, PrepareUpload, StageSegment, StopUpload, FailUpload, AskUpload,
           UploadTimesOut, PublishUpload, UploadDecision, Stops, Fails, Answers, Steps
    <3>2. QED
      BY <2>1, <3>1 DEF Removing
  <2>5. CASE LocalSteps /\ ~VerifyRemoval
    <3>1. \/ UNCHANGED worker
          \/ \E step \in Steps \ {"deleting"} : worker' = [worker EXCEPT !["local"] = step]
      BY <2>5 DEF LocalSteps, CheckLocal, RenameLocal, PrepareLocal, VerifyLocal, StageLocal,
           StagedLocal, StopLocal, FailLocal, LocalTimesOut, PublishLocal, RemoveLocal,
           LocalDecision, Stops, Fails, Answers, LocalGoes, Steps
    <3>2. QED
      BY <2>1, <3>1 DEF Removing
  <2>6. QED
    BY <2>2, <2>3, <2>4, <2>5 DEF AgentSteps
<1>2. ASSUME Removing PROVE target' = Whole("captured") /\ source' # "other"
  <2>1. target = Whole("captured") /\ source # "other"
    BY <1>2 DEF CopyInvariant, Removal
  <2>2. 1 \in DOMAIN Whole("captured")
    BY CopyAssumption DEF Whole
  <2>3. target' = target
    BY <2>1, <2>2, TargetChanges
  <2>4. QED
    BY <1>2, <2>1, <2>3, SourceChanges
<1>3. ASSUME VerifySource \/ VerifyRemoval, Removing'
      PROVE  target' = Whole("captured") /\ source' # "other"
  <2>1. UNCHANGED <<source, target>>
    BY <1>3 DEF VerifySource, VerifyRemoval, NoFileChanges
  <2>2. Removing \/ (source = "captured" /\ Len(target) = Segments /\ AllIn(target, Pure))
    <3>1. CASE VerifySource
      <4>1. worker["delete"] = "running" /\ (source = "captured" \/ Answers("delete", "error"))
        BY <3>1 DEF VerifySource
      <4>2. Answers("delete", "error") => Removing
        BY <1>3, ContentsFacts DEF Answers, Removing
      <4>3. target # <<>> /\ worker["upload"] = "ended"
        BY <4>1, ContentsFacts DEF CopyInvariant, Tickets, Grants
      <4>4. QED
        BY <4>1, <4>2, <4>3, ContentsFacts DEF Contents
    <3>2. CASE VerifyRemoval
      <4>1. worker["local"] = "removing" /\ (source = "captured" \/ Answers("local", "error"))
        BY <3>2 DEF VerifyRemoval, LocalAt
      <4>2. Answers("local", "error") => Removing
        BY <1>3, ContentsFacts DEF Answers, Removing
      <4>3. QED
        BY <4>1, <4>2, ContentsFacts DEF Contents
    <3>3. QED
      BY <1>3, <3>1, <3>2
  <2>3. CASE Removing
    BY <2>1, <2>3 DEF CopyInvariant, Removal
  <2>4. CASE source = "captured" /\ Len(target) = Segments /\ AllIn(target, Pure)
    <3>1. target \in Seq(Marks) /\ Pure = {"captured"}
      BY <2>4 DEF CopyInvariant, CopyTypeOK, Pure
    <3>2. target = Whole("captured")
      BY <2>4, <3>1, WholeIsAll
    <3>3. QED
      BY <2>1, <2>4, <3>2
  <2>5. QED
    BY <2>2, <2>3, <2>4
<1>4. Removing' => target' = Whole("captured") /\ source' # "other"
  BY <1>1, <1>2, <1>3
<1>5. QED
  BY <1>4 DEF Removal, Whole

\* No step of an agent breaks the invariant.
LEMMA AgentsKeepInvariant ==
  ASSUME CopyInvariant, AgentSteps
  PROVE  CopyInvariant'
<1>1. Contents'
  BY LanesKeepContents, SourceKeepsContents, UploadKeepsContents, LocalKeepsContents DEF AgentSteps
<1>2. QED
  BY <1>1, AgentsKeepTypes, AgentsKeepTickets, AgentsKeepRows, AgentsKeepResults, AgentsKeepGrants,
     AgentsKeepVerified, AgentsKeepRemoval DEF CopyInvariant

-----------------------------------------------------------------------------
(* What the router's steps are made of *)

\* What they need to know of the rows and phases they start in.
LEMMA RouterFacts ==
  ASSUME CopyInvariant
  PROVE  /\ flow \in [phase : Phases, sourceFinished : BOOLEAN, acked : SUBSET Agents,
                      digest : [Agents -> Marks \cup {"none"}], offset : Nat, end : Nat,
                      failure : BOOLEAN, settle : {"none", "persist", "delete"}]
         /\ pause \in {"none", "asked", "ok", "refused"} /\ row \in Rows
         /\ withdrawn \subseteq Requests
         /\ RowPhases
         /\ Remote = {"awaiting", "streaming", "canceling"}
         /\ Gated /\ target # <<>> => row \in Granted
         /\ shape.file \in BOOLEAN /\ shape.local \in BOOLEAN
  BY Zenon DEF CopyInvariant, CopyTypeOK, Remote, Grants

\* The phase and the row a step leads to; the digests and the failure stay.
Leads(phase, to) ==
  /\ flow'.phase = phase /\ row' = to
  /\ flow'.failure = flow.failure /\ flow'.digest = flow.digest

\* Where the settlement of a partial leads.
LEMMA SettleLeads ==
  ASSUME CopyInvariant, NEW failure \in BOOLEAN, NEW asked \in BOOLEAN,
         SettleVerifying(failure, asked)
  PROVE  \/ /\ flow'.phase = "settling" /\ flow'.failure = failure
            /\ row' = (IF failure THEN row ELSE "canceling")
            /\ pause' = IF asked THEN "asked" ELSE pause
         \/ /\ flow'.phase = "settled" /\ row' = "errored"
            /\ pause' = IF asked THEN "refused" ELSE pause
  BY RouterFacts DEF SettleVerifying, SettlementNotQueued

\* Where the start of the stream leads.
LEMMA StartLeads ==
  ASSUME CopyInvariant, NEW offset \in Nat, StartRemote(offset)
  PROVE  Leads("awaiting", "active") \/ Leads("settled", "errored")
  BY RouterFacts DEF StartRemote, Leads

\* Where an acknowledged cancel leads: nowhere, or to the end of a canceled row.
LEMMA AcknowledgeLeads ==
  ASSUME CopyInvariant, NEW side \in Agents, Acknowledge(side)
  PROVE  \/ Leads(flow.phase, row) /\ pause' = pause
         \/ Leads("settled", "forgotten") /\ pause = "asked" /\ pause' = "ok"
         \/ Leads("settled", "canceled") /\ pause # "asked" /\ pause' = pause
  BY RouterFacts DEF Acknowledge, Ends, Leads

\* Where the source's end leads.
LEMMA SourceLeads ==
  ASSUME CopyInvariant, NEW out, SourceFinished(out)
  PROVE  \/ Leads(flow.phase, row) /\ pause' = pause
         \/ /\ Leads("settled", "forgotten") /\ pause = "asked" /\ pause' = "ok"
            /\ flow.phase = "canceling"
         \/ /\ Leads("settled", "canceled") /\ pause # "asked" /\ pause' = pause
            /\ flow.phase = "canceling"
         \/ Leads("settled", "errored") /\ pause' = pause /\ flow.phase # "canceling"
<1>1. CASE flow.phase = "canceling"
  BY <1>1, AcknowledgeLeads DEF SourceFinished, Agents
<1>2. CASE flow.phase # "canceling"
  BY <1>2, RouterFacts DEF SourceFinished, Ends, Leads
<1>3. QED
  BY <1>1, <1>2

\* Where the destination's end leads.
LEMMA DestinationLeads ==
  ASSUME CopyInvariant, NEW out, DestinationFinished(out), flow.phase \in Remote
  PROVE  \/ Leads(flow.phase, row) /\ pause' = pause /\ flow.phase = "canceling"
         \/ /\ Leads("settled", "forgotten") /\ pause = "asked" /\ pause' = "ok"
            /\ flow.phase = "canceling"
         \/ /\ Leads("settled", "canceled") /\ pause # "asked" /\ pause' = pause
            /\ flow.phase = "canceling"
         \/ Leads("settled", "errored") /\ pause' \in {pause, "refused"} /\ (pause = "asked" => pause' = "refused")
              /\ (pause # "asked" => pause' = pause)
         \/ /\ Leads("settled", "completed") /\ out = "ok" /\ pause # "asked" /\ pause' = pause
            /\ ~shape.move
         \/ /\ Leads("deleting", "committed") /\ out = "ok" /\ pause # "asked" /\ pause' = pause
            /\ shape.move /\ flow.phase # "canceling"
<1>1. CASE pause = "asked" /\ out # "paused"
  BY <1>1, RouterFacts DEF DestinationFinished, EndFailed, Ends, Leads
<1>2. CASE ~(pause = "asked" /\ out # "paused") /\ out = "ok" /\ shape.move /\ flow.phase # "canceling"
  BY <1>2, RouterFacts DEF DestinationFinished, BeginDeletion, Leads
<1>3. CASE /\ ~(pause = "asked" /\ out # "paused") /\ ~(out = "ok" /\ shape.move /\ flow.phase # "canceling")
           /\ flow.phase = "canceling" /\ (shape.move \/ out # "ok")
  BY <1>3, AcknowledgeLeads DEF DestinationFinished, Agents
<1>4. CASE /\ ~(pause = "asked" /\ out # "paused") /\ ~(out = "ok" /\ shape.move /\ flow.phase # "canceling")
           /\ ~(flow.phase = "canceling" /\ (shape.move \/ out # "ok"))
  <2>1. UNCHANGED pause /\ IF out = "ok" THEN Ends("completed") ELSE EndFailed
    BY <1>4 DEF DestinationFinished
  <2>2. pause # "asked"
    BY <1>4, RouterFacts DEF RowPhases
  <2>3. CASE out = "ok"
    <3>1. ~shape.move
      BY <1>4, <2>3
    <3>2. QED
      BY <2>1, <2>2, <2>3, <3>1, RouterFacts DEF Ends, Leads
  <2>4. CASE out # "ok"
    BY <2>1, <2>2, <2>4, RouterFacts DEF EndFailed, Ends, Leads
  <2>5. QED
    BY <2>3, <2>4
<1>5. QED
  BY <1>1, <1>2, <1>3, <1>4

\* Where a local copy's end leads.
LEMMA LocalLeads ==
  ASSUME CopyInvariant, NEW out, LocalFinished(out)
  PROVE  \/ Leads("settled", "forgotten") /\ pause = "asked" /\ pause' = "ok" /\ out = "paused"
         \/ Leads("settled", "errored") /\ (pause' = IF pause = "asked" THEN "refused" ELSE pause)
         \/ Leads("settled", "completed") /\ pause # "asked" /\ pause' = pause /\ out = "ok"
         \/ Leads("settled", "canceled") /\ pause # "asked" /\ pause' = pause /\ row = "canceling"
  BY RouterFacts DEF LocalFinished, Ends, Leads

\* Where a settlement's end leads.
LEMMA SettlementLeads ==
  ASSUME CopyInvariant, NEW ok \in BOOLEAN, FinishSettlement(ok), flow.phase = "settling"
  PROVE  \/ Leads("settled", "forgotten") /\ pause = "asked" /\ pause' = "ok"
         \/ Leads("settled", "errored") /\ (pause' = IF pause = "asked" THEN "refused" ELSE pause)
         \/ Leads("settled", "canceled") /\ pause # "asked" /\ pause' = pause /\ row = "canceling"
  BY RouterFacts DEF FinishSettlement, Ends, Leads, RowPhases

\* Where the loss of an agent leads.
LEMMA LostLeads ==
  ASSUME CopyInvariant, SettleLost
  PROVE  \/ Leads("settled", "errored") /\ (pause' = IF pause = "asked" THEN "refused" ELSE pause)
         \/ Leads("settled", "canceled") /\ pause # "asked" /\ pause' = pause /\ row = "canceling"
  BY RouterFacts DEF SettleLost, Ends, Leads

\* Where a cancel leads.
LEMMA CancelLeads ==
  ASSUME CopyInvariant, NEW why, CancelRemote(why)
  PROVE  Leads("canceling", "canceling") /\ withdrawn' \subseteq {"upload", "download"}
  BY RouterFacts DEF CancelRemote, Leads

-----------------------------------------------------------------------------
(* What a step of the router does to the row *)

\* The row does not change; the phase may go on.
GoesOn ==
  /\ UNCHANGED <<row, pause>>
  /\ \/ flow'.phase = flow.phase /\ flow'.failure = flow.failure
        /\ (flow.phase = "verifying" \/ flow'.digest = flow.digest)
     \/ flow.phase = "verifying" /\ flow'.phase = "awaiting"
     \/ flow.phase = "verifying" /\ flow'.phase = "settling" /\ flow'.failure
     \/ flow.phase = "awaiting" /\ flow'.phase = "streaming"

Begins ==
  /\ row = "none" /\ UNCHANGED pause
  /\ flow'.phase \in {"local", "verifying", "awaiting"} /\ row' = "active"

Admits ==
  /\ row = "active" /\ row' = "committed" /\ UNCHANGED <<pause, flow>>
  /\ flow.phase \in Remote \cup {"local"}

IsCanceled ==
  /\ row = "active" /\ row' = "canceling"
  /\ pause' = pause \/ (pause' = "asked" /\ shape.file)
  /\ \/ flow.phase \in Remote /\ flow'.phase = "canceling"
     \/ flow.phase = "verifying" /\ flow'.phase = "settling"
     \/ flow.phase \in {"settling", "local"} /\ flow'.phase = flow.phase

Deletes ==
  /\ flow.phase \in {"awaiting", "streaming"} /\ flow'.phase = "deleting" /\ row' = "committed"
  /\ UNCHANGED pause /\ shape.move /\ target # <<>> /\ worker["upload"] = "ended"

Finishes ==
  /\ flow.phase # "settled" /\ flow'.phase = "settled"
  /\ \/ row' = "errored" /\ pause' \in {pause, "refused"} /\ pause' # "asked"
        /\ (pause' # pause => shape.file)
     \/ row = "canceling" /\ row' = "canceled" /\ pause # "asked" /\ UNCHANGED pause
     \/ row = "canceling" /\ row' = "forgotten" /\ pause = "asked" /\ pause' = "ok"
     \/ /\ row # "none" /\ row' = "completed" /\ pause # "asked" /\ UNCHANGED pause
        /\ target # <<>> /\ worker[Publisher] = "ended" /\ (shape.move => source = "gone")

\* All that the router does to a row.
RowStep == GoesOn \/ Begins \/ Admits \/ IsCanceled \/ Deletes \/ Finishes

\* Which results the router owes itself.
WithdrawnFollow ==
  withdrawn' # {} =>
    /\ row' = "canceling"
    /\ \/ flow'.phase = "canceling" /\ withdrawn' \subseteq {"upload", "download"}
       \/ flow'.phase = "local" /\ withdrawn' = {"local"}

\* Such a step keeps the rows in step with the phases.
LEMMA RowStepKeepsRows ==
  ASSUME CopyInvariant, RowStep, WithdrawnFollow, UNCHANGED shape, pausable' => shape.file
  PROVE  RowPhases'
<1> USE RouterFacts DEF RowPhases, Final, WithdrawnFollow
<1>1. CASE GoesOn
  BY <1>1 DEF GoesOn
<1>2. CASE Begins
  BY <1>2 DEF Begins
<1>3. CASE Admits
  BY <1>3 DEF Admits
<1>4. CASE IsCanceled
  BY <1>4 DEF IsCanceled
<1>5. CASE Deletes
  BY <1>5 DEF Deletes
<1>6. CASE Finishes
  BY <1>6 DEF Finishes
<1>7. QED
  BY <1>1, <1>2, <1>3, <1>4, <1>5, <1>6 DEF RowStep

\* A result the router takes is of a worker that ended.
LEMMA TakenResult ==
  ASSUME CopyInvariant, NEW r \in Requests, NEW out, ResultOf(r, out)
  PROVE  /\ withdrawn = {} /\ Result(r, out) /\ worker[r] = "ended"
         /\ AgentOf(r) \in Agents /\ box[AgentOf(r)] # <<>> /\ Taken(AgentOf(r))
         /\ 1 \in DOMAIN box[AgentOf(r)] /\ box[AgentOf(r)][1] = Frame("result", r, out)
<1>1. AgentOf(r) \in Agents
  BY DEF AgentOf, Agents
<1>2. withdrawn = {} /\ box[AgentOf(r)] # <<>> /\ box[AgentOf(r)] \in Seq(Frames)
      /\ Head(box[AgentOf(r)]) = Frame("result", r, out) /\ Taken(AgentOf(r))
  BY <1>1 DEF ResultOf, Next1, CopyInvariant, CopyTypeOK
<1>3. 1 \in DOMAIN box[AgentOf(r)] /\ box[AgentOf(r)][1] = Frame("result", r, out)
  BY <1>2
<1>4. Result(r, out)
  BY <1>3 DEF Result, Has
<1>5. worker[r] = "ended"
  <2>1. Frame("result", r, out).kind = "result" /\ Frame("result", r, out).req = r
    BY DEF Frame
  <2>2. Results
    BY DEF CopyInvariant
  <2>3. QED
    BY <1>1, <1>3, <2>1, <2>2 DEF Results
<1>6. QED
  BY <1>1, <1>2, <1>3, <1>4, <1>5

\* Every step of the router is one of these.
LEMMA RouterRows ==
  ASSUME CopyInvariant, RouterSteps
  PROVE  RowStep /\ WithdrawnFollow /\ UNCHANGED shape /\ (pausable' => shape.file)
<1> DEFINE Ok == RowStep /\ WithdrawnFollow /\ UNCHANGED shape /\ (pausable' => shape.file)
<1> SUFFICES Ok
  OBVIOUS
<1> USE DEF rowVars, laneVars, WithdrawnFollow
<1>0. RowPhases
  BY RouterFacts
<1>1. ASSUME Start PROVE Ok
  <2>1. Begins
    BY <1>0, <1>1, RouterFacts DEF Start, Begins, RowPhases
  <2>2. QED
    BY <1>0, <1>1, <2>1 DEF Start, RowStep, RowPhases
<1>2. ASSUME NEW x, flow.phase # "settled", Leads("settled", x), x = "errored",
             pause' \in {pause, "refused"}, pause' # "asked", pause' # pause => shape.file
      PROVE  RowStep
  BY <1>2 DEF Leads, RowStep, Finishes
<1>3. ASSUME StartRefused PROVE Ok
  <2>1. Leads("settled", "errored") /\ pause' = pause /\ pause # "asked" /\ withdrawn = {} /\ withdrawn' = {}
        /\ flow.phase # "settled"
    BY <1>0, <1>3, RouterFacts DEF StartRefused, Ends, Leads, RowPhases
  <2>2. QED
    BY <1>0, <1>2, <1>3, <2>1 DEF StartRefused, RowPhases
<1>4. ASSUME NEW failure \in BOOLEAN, NEW asked \in BOOLEAN, SettleVerifying(failure, asked),
             flow.phase = "verifying", asked => shape.file, failure => ~asked
      PROVE  RowStep
  <2>1. pause # "asked" /\ row = "active"
    BY <1>0, <1>4 DEF RowPhases
  <2>2. \/ /\ flow'.phase = "settling" /\ flow'.failure = failure
           /\ row' = (IF failure THEN row ELSE "canceling")
           /\ pause' = IF asked THEN "asked" ELSE pause
        \/ /\ flow'.phase = "settled" /\ row' = "errored"
           /\ pause' = IF asked THEN "refused" ELSE pause
    BY <1>4, SettleLeads
  <2>3. QED
    BY <1>4, <2>1, <2>2 DEF RowStep, GoesOn, IsCanceled, Finishes
<1>5. ASSUME UserCancel PROVE Ok
  <2>1. /\ withdrawn = {} /\ row = "active" /\ UNCHANGED <<shape, pausable>> /\ pause # "asked"
        /\ pausable => shape.file
    BY <1>0, <1>5 DEF UserCancel, RowPhases
  <2>2. CASE flow.phase \in Remote /\ CancelRemote("canceled") /\ UNCHANGED pause
    BY <2>1, <2>2, CancelLeads DEF Leads, RowStep, IsCanceled
  <2>3. CASE flow.phase = "local" /\ CancelLocal("canceled") /\ UNCHANGED pause
    BY <2>1, <2>3 DEF CancelLocal, RowStep, IsCanceled
  <2>4. CASE flow.phase = "verifying" /\ SettleVerifying(FALSE, FALSE) /\ UNCHANGED withdrawn
    BY <1>4, <2>1, <2>4
  <2>5. CASE flow.phase = "settling" /\ row' = "canceling" /\ UNCHANGED <<flow, pause, withdrawn>>
    BY <2>1, <2>5 DEF RowStep, IsCanceled
  <2>6. QED
    BY <1>5, <2>2, <2>3, <2>4, <2>5 DEF UserCancel
<1>6. ASSUME UserPause PROVE Ok
  <2>1. /\ withdrawn = {} /\ row = "active" /\ UNCHANGED <<shape, pausable>> /\ pause # "asked"
        /\ pausable /\ shape.file
    BY <1>0, <1>6 DEF UserPause, RowPhases
  <2>2. CASE flow.phase \in Remote /\ CancelRemote("paused") /\ pause' = "asked"
    BY <2>1, <2>2, CancelLeads DEF Leads, RowStep, IsCanceled
  <2>3. CASE flow.phase = "local" /\ CancelLocal("paused") /\ pause' = "asked"
    BY <2>1, <2>3 DEF CancelLocal, RowStep, IsCanceled
  <2>4. CASE flow.phase = "verifying" /\ SettleVerifying(FALSE, TRUE) /\ UNCHANGED withdrawn
    BY <1>4, <2>1, <2>4
  <2>5. CASE flow.phase = "settling" /\ row' = "canceling" /\ pause' = "asked" /\ UNCHANGED <<flow, withdrawn>>
    BY <2>1, <2>5 DEF RowStep, IsCanceled
  <2>6. QED
    BY <1>6, <2>2, <2>3, <2>4, <2>5 DEF UserPause
<1>7. ASSUME NEW r \in Hashes, NEW d \in Marks, HandleDigest(r, d) PROVE Ok
  <2>1. /\ withdrawn = {} /\ UNCHANGED <<shape, pausable, pause, withdrawn>> /\ flow.phase = "verifying"
        /\ r \in Requests
    BY <1>7, TakenResult DEF HandleDigest, Requests
  <2>2. row = "active" /\ pause # "asked" /\ (pausable => shape.file)
    BY <1>0, <2>1 DEF RowPhases
  <2>3. \/ flow' = [flow EXCEPT !.digest[AgentOf(r)] = d] /\ row' = row
        \/ \E offset \in Nat : StartRemote(offset) \/ (NextSegment(offset) /\ UNCHANGED row)
        \/ NextSegmentNotQueued
    <3>1. \/ flow' = [flow EXCEPT !.digest[AgentOf(r)] = d] /\ row' = row
          \/ Compared(d, flow.digest[Other(AgentOf(r))])
      BY <1>7 DEF HandleDigest
    <3>2. flow.offset \in Nat /\ flow.offset + 1 \in Nat
      BY RouterFacts
    <3>3. ASSUME Compared(d, flow.digest[Other(AgentOf(r))])
          PROVE  \/ \E offset \in Nat : StartRemote(offset) \/ (NextSegment(offset) /\ UNCHANGED row)
                 \/ NextSegmentNotQueued
      BY <3>2, <3>3 DEF Compared, NextSegment
    <3>4. QED
      BY <3>1, <3>3
  <2>4. CASE flow' = [flow EXCEPT !.digest[AgentOf(r)] = d] /\ row' = row
    BY <2>1, <2>2, <2>4, RouterFacts DEF RowStep, GoesOn
  <2>5. ASSUME NEW offset \in Nat, StartRemote(offset) PROVE Ok
    BY <2>1, <2>2, <2>5, StartLeads DEF Leads, RowStep, GoesOn, Finishes
  <2>6. ASSUME NEW offset \in Nat, NextSegment(offset), UNCHANGED row PROVE Ok
    BY <2>1, <2>2, <2>6, RouterFacts DEF NextSegment, RowStep, GoesOn
  <2>7. ASSUME NextSegmentNotQueued PROVE Ok
    BY <2>1, <2>2, <2>7, RouterFacts DEF NextSegmentNotQueued, Ends, RowStep, Finishes
  <2>8. QED
    BY <2>3, <2>4, <2>5, <2>6, <2>7
<1>8. ASSUME NEW r \in Hashes, NEW out, HandleHashFailure(r, out) PROVE Ok
  <2>1. /\ withdrawn = {} /\ UNCHANGED <<shape, pausable, withdrawn>> /\ flow.phase = "verifying"
        /\ r \in Requests
    BY <1>8, TakenResult DEF HandleHashFailure, Requests
  <2>2. row = "active" /\ pause # "asked" /\ (pausable => shape.file)
    BY <1>0, <2>1 DEF RowPhases
  <2>3. CASE SettleVerifying(TRUE, FALSE)
    BY <1>4, <2>1, <2>2, <2>3
  <2>4. CASE EndFailed /\ UNCHANGED pause
    BY <1>2, <2>1, <2>2, <2>4, RouterFacts DEF EndFailed, Ends, Leads
  <2>5. QED
    BY <1>8, <2>3, <2>4 DEF HandleHashFailure
<1>9. ASSUME NEW out, HandleSettled(out) PROVE Ok
  <2>1. /\ withdrawn = {} /\ UNCHANGED <<shape, pausable, withdrawn>> /\ flow.phase = "settling"
        /\ FinishSettlement(out = "ok")
    BY <1>9, TakenResult DEF HandleSettled, Requests
  <2>2. (pause = "asked" => shape.file) /\ (pausable => shape.file)
    BY <1>0 DEF RowPhases
  <2>3. (out = "ok") \in BOOLEAN
    OBVIOUS
  <2>4. pause = "asked" => row = "canceling"
    BY <1>0 DEF RowPhases
  <2>5. QED
    BY <2>1, <2>2, <2>3, <2>4, SettlementLeads DEF Leads, RowStep, Finishes
<1>10. ASSUME HandleReady PROVE Ok
  <2>1. /\ withdrawn = {} /\ UNCHANGED <<shape, pausable, pause, withdrawn>>
        /\ \/ flow.phase = "awaiting" /\ flow' = [flow EXCEPT !.phase = "streaming"] /\ UNCHANGED row
           \/ flow.phase = "awaiting" /\ Ends("errored")
           \/ UNCHANGED <<flow, row>>
    BY <1>10 DEF HandleReady, Next1
  <2>2. flow.phase = "awaiting" => pause # "asked"
    BY <1>0 DEF RowPhases
  <2>3. QED
    BY <1>0, <2>1, <2>2, RouterFacts DEF Ends, RowStep, GoesOn, Finishes, RowPhases
<1>11. ASSUME NEW out, SourceFinished(out), UNCHANGED withdrawn \/ withdrawn' = {}, UNCHANGED <<shape, pausable>>,
              flow.phase \in {"streaming", "canceling"}, withdrawn = {} \/ withdrawn' = {}
       PROVE  Ok
  <2>1. flow.phase = "streaming" => pause # "asked"
    BY <1>0 DEF RowPhases
  <2>2. flow.phase = "canceling" => row = "canceling"
    BY <1>0 DEF RowPhases
  <2>3. QED
    BY <1>0, <1>11, <2>1, <2>2, SourceLeads DEF Leads, RowStep, GoesOn, Finishes, RowPhases
<1>12. ASSUME NEW out, DestinationFinished(out), UNCHANGED <<shape, pausable>>,
              flow.phase \in Remote, withdrawn' = {},
              out = "ok" => target # <<>> /\ worker["upload"] = "ended"
       PROVE  Ok
  <2>1. flow.phase \in {"awaiting", "streaming"} => pause # "asked" /\ row \in {"active", "committed"}
    BY <1>0 DEF RowPhases
  <2>2. flow.phase = "canceling" => row = "canceling"
    BY <1>0 DEF RowPhases
  <2>3. ~shape.local /\ Publisher = "upload"
    BY <1>12 DEF CopyInvariant, Tickets, Publisher
  <2>4. (pause = "asked" => shape.file) /\ (pausable => shape.file)
    BY <1>0 DEF RowPhases
  <2>5. flow.phase \in {"awaiting", "streaming", "canceling"}
    BY <1>12, RouterFacts
  <2>6. QED
    BY <1>12, <2>1, <2>2, <2>3, <2>4, <2>5, DestinationLeads DEF Leads, RowStep, GoesOn, Finishes, Deletes
<1>13. ASSUME NEW out, LocalFinished(out), UNCHANGED <<shape, pausable>>,
              flow.phase = "local", withdrawn' = {},
              out = "ok" => target # <<>> /\ worker["local"] = "ended" /\ (shape.move => source = "gone")
       PROVE  Ok
  <2>1. shape.local /\ Publisher = "local"
    BY <1>13 DEF CopyInvariant, Tickets, Publisher
  <2>2. (pause = "asked" => shape.file /\ row = "canceling") /\ (pausable => shape.file) /\ row # "none"
    BY <1>0, <1>13 DEF RowPhases
  <2>3. QED
    BY <1>13, <2>1, <2>2, LocalLeads DEF Leads, RowStep, Finishes
<1>14. ASSUME NEW out, HandleSource(out) PROVE Ok
  BY <1>11, <1>14, TakenResult DEF HandleSource, Requests
<1>15. ASSUME NEW out, HandleDestination(out) PROVE Ok
  <2>1. "upload" \in Requests /\ ResultOf("upload", out)
    BY <1>15 DEF HandleDestination, Requests
  <2>2. out = "ok" => target # <<>>
    BY <2>1, TakenResult DEF CopyInvariant, Results
  <2>3. QED
    BY <1>12, <1>15, <2>1, <2>2, TakenResult DEF HandleDestination
<1>16. ASSUME NEW out, HandleLocal(out) PROVE Ok
  <2>1. "local" \in Requests /\ ResultOf("local", out)
    BY <1>16 DEF HandleLocal, Requests
  <2>2. out = "ok" => target # <<>> /\ (shape.move => source = "gone")
    BY <2>1, TakenResult DEF CopyInvariant, Results
  <2>3. QED
    BY <1>13, <1>16, <2>1, <2>2, TakenResult DEF HandleLocal
<1>17. ASSUME NEW out, HandleDeletion(out) PROVE Ok
  <2>1. "delete" \in Requests /\ ResultOf("delete", out)
    BY <1>17 DEF HandleDeletion, Requests
  <2>2. /\ withdrawn = {} /\ UNCHANGED <<shape, pausable, pause, withdrawn>> /\ flow.phase = "deleting"
        /\ flow'.phase = "settled" /\ row' = IF out = "ok" THEN "completed" ELSE "errored"
    BY <1>17, <2>1, TakenResult, RouterFacts DEF HandleDeletion, Ends
  <2>3. out = "ok" => target # <<>> /\ source = "gone"
    BY <2>1, TakenResult DEF CopyInvariant, Results
  <2>4. ~shape.local /\ worker["upload"] = "ended" /\ Publisher = "upload"
    BY <2>2 DEF CopyInvariant, Tickets, Grants, Publisher
  <2>5. row = "committed" /\ pause # "asked" /\ (pausable => shape.file)
    BY <1>0, <2>2 DEF RowPhases
  <2>6. QED
    BY <2>2, <2>3, <2>4, <2>5 DEF RowStep, Finishes
<1>18. ASSUME RouteWithdrawn PROVE Ok
  <2>1. /\ withdrawn # {} /\ withdrawn' = {} /\ UNCHANGED <<shape, pausable>>
        /\ \/ "local" \in withdrawn /\ LocalFinished("error")
           \/ "local" \notin withdrawn /\ "upload" \in withdrawn /\ DestinationFinished("error")
           \/ "local" \notin withdrawn /\ "upload" \notin withdrawn /\ SourceFinished("error")
    BY <1>18 DEF RouteWithdrawn
  <2>2. "local" \in withdrawn => flow.phase = "local"
    BY <1>0, <2>1 DEF RowPhases
  <2>3. "local" \notin withdrawn => flow.phase = "canceling"
    BY <1>0, <2>1 DEF RowPhases
  <2>4. QED
    BY <1>11, <1>12, <1>13, <2>1, <2>2, <2>3, RouterFacts
<1>19. ASSUME NEW a \in Agents, HandlePublishRequest(a) PROVE Ok
  <2>1. /\ withdrawn = {} /\ UNCHANGED <<shape, flow, pausable, pause, withdrawn>>
        /\ row' = IF Authorizes THEN "committed" ELSE row
    BY <1>19 DEF HandlePublishRequest, Next1
  <2>2. QED
    BY <1>0, <2>1 DEF Authorizes, RowStep, GoesOn, Admits, RowPhases
<1>20. ASSUME HandleVerification PROVE Ok
  <2>1. /\ withdrawn = {} /\ UNCHANGED <<shape, flow, row, pause, withdrawn>>
        /\ Head(box["source"]).kind = "verifying" /\ box["source"] # <<>>
    BY <1>20 DEF HandleVerification, Next1
  <2>2. shape.file
    <3>1. "source" \in Agents /\ box["source"] \in Seq(Frames)
      BY DEF CopyInvariant, CopyTypeOK, Agents
    <3>2. 1 \in DOMAIN box["source"] /\ box["source"][1].kind = "verifying"
      BY <2>1, <3>1
    <3>3. QED
      BY <3>1, <3>2 DEF CopyInvariant, Results
  <2>3. QED
    BY <2>1, <2>2 DEF RowStep, GoesOn
<1>21. ASSUME NEW a \in Agents, DropResult(a) PROVE Ok
  <2>1. withdrawn = {} /\ UNCHANGED <<shape, flow, row, pause, pausable, withdrawn>>
    BY <1>21 DEF DropResult, Next1
  <2>2. QED
    BY <1>0, <2>1 DEF RowStep, GoesOn, RowPhases
<1>22. ASSUME NEW a \in Agents, HandleLost(a) PROVE Ok
  <2>1. /\ withdrawn = {} /\ UNCHANGED <<shape, pausable, withdrawn>>
        /\ IF Involves(a) THEN SettleLost ELSE UNCHANGED <<flow, row, pause>>
    BY <1>22 DEF HandleLost, Next1
  <2>2. Involves(a) => flow.phase \notin {"none", "settled"}
    BY DEF Involves, Remote
  <2>3. (pause = "asked" => shape.file) /\ (pausable => shape.file)
    BY <1>0 DEF RowPhases
  <2>4. QED
    BY <2>1, <2>2, <2>3, LostLeads DEF Leads, RowStep, GoesOn, Finishes
<1>23. QED
  BY <1>1, <1>3, <1>5, <1>6, <1>7, <1>8, <1>9, <1>10, <1>14, <1>15, <1>16, <1>17, <1>18, <1>19, <1>20,
     <1>21, <1>22 DEF RouterSteps, RouterWorks

-----------------------------------------------------------------------------
(* What a step of the router does to the lanes *)

\* Only commands that wait are withdrawn, only the new ones are queued.
TicketMove(new) ==
  /\ ticket' \in [Requests -> {"none", "queued", "written", "withdrawn"}]
  /\ \A r \in Requests :
       \/ ticket'[r] = ticket[r]
       \/ ticket[r] = "queued" /\ ticket'[r] = "withdrawn"
       \/ r \in new /\ ticket'[r] = "queued"

\* Nobody is admitted but by a decision.
NoGrants ==
  /\ urgent' \in [Agents -> Seq(Urgents)]
  /\ \A a \in Agents, answer \in {"allowed", "denied"}, r \in Requests :
       Has(urgent'[a], Frame("decision", r, answer)) => Has(urgent[a], Frame("decision", r, answer))

\* Which requests may be canceled and why.
IsReason(why) == DOMAIN why \subseteq Requests /\ \A r \in DOMAIN why : why[r] \in Reasons

\* The release of a copy names a reason for each request.
LEMMA ReleaseTyped ==
  /\ IsReason(PendingHashes) /\ IsReason(Nobody)
  /\ \A why \in Reasons : IsReason(Release(why))
  /\ \A why \in Reasons : \A rs \in SUBSET Requests : IsReason([r \in rs |-> why])
<1>1. IsReason(PendingHashes)
  BY DEF IsReason, PendingHashes, Requests, Reasons
<1>2. IsReason(Nobody)
  BY DEF IsReason, Nobody, Reasons
<1>3. ASSUME NEW why \in Reasons PROVE IsReason(ReleaseRemote(why))
  <2>1. {"upload", "download"} \subseteq Requests /\ "canceled" \in Reasons
    BY DEF Requests, Reasons
  <2>2. QED
    BY <1>3, <2>1 DEF IsReason, ReleaseRemote
<1>4. \A why \in Reasons : IsReason(Release(why))
  BY <1>1, <1>2, <1>3 DEF Release
<1>5. \A why \in Reasons : \A rs \in SUBSET Requests : IsReason([r \in rs |-> why])
  BY DEF IsReason
<1>6. QED
  BY <1>1, <1>2, <1>4, <1>5

\* Cancels admit nothing.
LEMMA CancelsGrantNothing ==
  ASSUME CopyInvariant, NEW why, IsReason(why), SendCancels(why)
  PROVE  NoGrants
<1>0. urgent \in [Agents -> Seq(Urgents)]
  BY DEF CopyInvariant, CopyTypeOK
<1>1. ASSUME NEW a \in Agents
      PROVE  \/ urgent'[a] = urgent[a]
             \/ \E r \in Requests, reasonOf \in Reasons :
                  urgent'[a] = Append(urgent[a], Frame("cancel", r, reasonOf))
  <2>1. CASE Reached(a, why) = {}
    BY <2>1 DEF SendCancels
  <2>2. CASE Reached(a, why) # {}
    <3>1. PICK r : r = CHOOSE q \in Reached(a, why) : TRUE
      OBVIOUS
    <3>2. r \in Reached(a, why)
      BY <2>2, <3>1
    <3>3. r \in Requests /\ why[r] \in Reasons
      BY <3>2 DEF Reached, IsReason
    <3>4. urgent'[a] = Append(urgent[a], Frame("cancel", r, why[r]))
      BY <2>2, <3>1 DEF SendCancels
    <3>5. QED
      BY <3>3, <3>4
  <2>3. QED
    BY <2>1, <2>2
<1>2. ASSUME NEW a \in Agents
      PROVE  /\ urgent'[a] \in Seq(Urgents)
             /\ \A answer \in {"allowed", "denied"}, q \in Requests :
                  Has(urgent'[a], Frame("decision", q, answer)) =>
                    Has(urgent[a], Frame("decision", q, answer))
  <2>1. CASE urgent'[a] = urgent[a]
    BY <1>0, <2>1
  <2>2. ASSUME NEW r \in Requests, NEW reasonOf \in Reasons,
               urgent'[a] = Append(urgent[a], Frame("cancel", r, reasonOf))
        PROVE  /\ urgent'[a] \in Seq(Urgents)
               /\ \A answer \in {"allowed", "denied"}, q \in Requests :
                    Has(urgent'[a], Frame("decision", q, answer)) =>
                      Has(urgent[a], Frame("decision", q, answer))
    <3>1. Frame("cancel", r, reasonOf) \in Urgents
      BY UrgentTyped
    <3>2. \A q, answer : Frame("decision", q, answer) # Frame("cancel", r, reasonOf)
      BY DEF Frame
    <3>3. /\ urgent'[a] \in Seq(Urgents)
          /\ \A i \in DOMAIN urgent'[a] :
               \/ i \in DOMAIN urgent[a] /\ urgent'[a][i] = urgent[a][i]
               \/ urgent'[a][i] = Frame("cancel", r, reasonOf)
      BY <1>0, <2>2, <3>1, AddedFrame
    <3>4. QED
      BY <3>2, <3>3 DEF Has
  <2>3. QED
    BY <1>1, <2>1, <2>2
<1>3. urgent' = [a \in Agents |-> urgent'[a]]
  BY DEF SendCancels
<1>4. urgent' \in [Agents -> Seq(Urgents)]
  BY <1>2, <1>3
<1>5. QED
  BY <1>2, <1>4 DEF NoGrants

\* And withdraw only what waits.
LEMMA CancelsWithdraw ==
  ASSUME CopyInvariant, NEW why
  PROVE  /\ AfterCancel(why) \in [Requests -> {"none", "queued", "written", "withdrawn"}]
         /\ \A r \in Requests :
              \/ AfterCancel(why)[r] = ticket[r]
              \/ ticket[r] = "queued" /\ AfterCancel(why)[r] = "withdrawn"
  BY DEF CopyInvariant, CopyTypeOK, AfterCancel

\* Cancels do both.
LEMMA CancelsMove ==
  ASSUME CopyInvariant, NEW why, IsReason(why), Cancels(why)
  PROVE  TicketMove({}) /\ NoGrants
  BY CancelsGrantNothing, CancelsWithdraw DEF Cancels, TicketMove

\* So does nothing.
LEMMA RestMoves ==
  ASSUME CopyInvariant
  PROVE  /\ UNCHANGED ticket => TicketMove({})
         /\ UNCHANGED urgent => NoGrants
         /\ \A r \in Requests : ticket' = Queue(r) => TicketMove({r})
  BY DEF CopyInvariant, CopyTypeOK, TicketMove, NoGrants, Queue

\* When a request is made.
Made(r) ==
  CASE r = "local"    -> flow.phase = "none" /\ flow'.phase = "local" /\ shape.local
    [] r = "upload"   -> flow.phase \in {"none", "verifying"} /\ flow'.phase = "awaiting" /\ ~shape.local
    [] r = "settle"   -> flow.phase = "verifying" /\ flow'.phase = "settling"
    [] r = "download" -> flow.phase = "awaiting" /\ flow'.phase = "streaming"
    [] r = "delete"   -> flow.phase \in {"awaiting", "streaming"} /\ flow'.phase = "deleting"
    [] OTHER          -> FALSE

\* No request, one, or the two digests of a segment.
TicketStep ==
  \/ /\ TicketMove({}) /\ UNCHANGED worker
     /\ flow.phase = "none" => flow'.phase \in {"none", "settled"}
  \/ \E r \in Requests : TicketMove({r}) /\ UNCHANGED worker /\ Made(r)
  \/ /\ TicketMove(Hashes)
     /\ flow.phase \in {"none", "verifying"} /\ flow'.phase = "verifying" /\ ~shape.local
     /\ worker' = [r \in Requests |-> IF r \in Hashes THEN "absent" ELSE worker[r]]

\* Such a step keeps the commands in their phases.
LEMMA TicketStepKeepsTickets ==
  ASSUME CopyInvariant, RowStep, TicketStep, UNCHANGED shape
  PROVE  Tickets'
<1>1. /\ Tickets /\ worker \in [Requests -> Steps] /\ RowPhases
      /\ ticket \in [Requests -> {"none", "queued", "written", "withdrawn"}]
      /\ {"upload", "settle", "download", "delete", "local"} \cup Hashes = Requests
      /\ Remote = {"awaiting", "streaming", "canceling"}
      /\ Hashes = {"hashSource", "hashDest"}
  BY DEF CopyInvariant, CopyTypeOK, Requests, Remote, Hashes
<1>2. /\ flow'.phase = "local" => shape.local
      /\ flow'.phase \in Remote \cup {"verifying", "settling", "deleting"} => ~shape.local
      /\ flow'.phase = "none" => flow.phase = "none"
      /\ flow.phase = "settled" => flow'.phase = "settled"
      /\ flow.phase = "deleting" => flow'.phase \in {"deleting", "settled"}
      /\ flow.phase \in Remote => flow'.phase \in Remote \cup {"deleting", "settled"}
      /\ flow.phase = "settling" => flow'.phase \in {"settling", "settled"}
      /\ flow.phase \in {"streaming", "canceling"} =>
           flow'.phase \in {"streaming", "canceling", "deleting", "settled"}
      /\ flow'.phase = "deleting" /\ flow.phase # "deleting" => worker["upload"] = "ended"
  <2>1. flow.phase = "none" => \/ flow'.phase \in {"none", "settled"}
                               \/ flow'.phase = "local" /\ shape.local
                               \/ flow'.phase \in {"awaiting", "verifying"} /\ ~shape.local
    BY DEF TicketStep, Made
  <2>2. CASE flow.phase = "none"
    BY <1>1, <2>1, <2>2 DEF RowPhases
  <2>3. CASE flow.phase # "none"
    <3>1. row # "none"
      BY <1>1, <2>3 DEF RowPhases
    <3>2. \/ flow'.phase = flow.phase
          \/ flow'.phase = "settled"
          \/ flow.phase = "verifying" /\ flow'.phase \in {"awaiting", "settling"}
          \/ flow.phase = "awaiting" /\ flow'.phase = "streaming"
          \/ flow.phase \in Remote /\ flow'.phase = "canceling"
          \/ flow.phase \in {"awaiting", "streaming"} /\ flow'.phase = "deleting" /\ worker["upload"] = "ended"
      BY <3>1 DEF RowStep, GoesOn, Begins, Admits, IsCanceled, Deletes, Finishes
    <3>3. QED
      BY <1>1, <2>3, <3>2 DEF Tickets
  <2>4. QED
    BY <2>2, <2>3
<1>3. CASE TicketMove({}) /\ UNCHANGED worker
  <2>1. \A r \in Requests : \/ ticket'[r] = ticket[r]
                            \/ ticket[r] = "queued" /\ ticket'[r] = "withdrawn"
    BY <1>3 DEF TicketMove
  <2>2. QED
    BY <1>1, <1>2, <1>3, <2>1 DEF Tickets
<1>4. ASSUME NEW q \in Requests, TicketMove({q}), UNCHANGED worker, Made(q)
      PROVE  Tickets'
  <2>1. \A r \in Requests : \/ ticket'[r] = ticket[r]
                            \/ ticket[r] = "queued" /\ ticket'[r] = "withdrawn"
                            \/ r = q /\ ticket'[r] = "queued"
    BY <1>4 DEF TicketMove
  <2>2. ticket[q] = "none" /\ worker[q] = "absent" /\ (q = "local" <=> shape.local)
    BY <1>1, <1>2, <1>4 DEF Made, Tickets
  <2>3. q \notin Hashes
    BY <1>1, <1>4 DEF Made
  <2>4. CASE q = "local"
    BY <1>1, <1>2, <1>4, <2>1, <2>2, <2>4 DEF Tickets, Made
  <2>5. CASE q = "upload"
    BY <1>1, <1>2, <1>4, <2>1, <2>2, <2>5 DEF Tickets, Made
  <2>6. CASE q = "settle"
    BY <1>1, <1>2, <1>4, <2>1, <2>2, <2>6 DEF Tickets, Made
  <2>7. CASE q = "download"
    BY <1>1, <1>2, <1>4, <2>1, <2>2, <2>7 DEF Tickets, Made
  <2>8. CASE q = "delete"
    BY <1>1, <1>2, <1>4, <2>1, <2>2, <2>8 DEF Tickets, Made
  <2>9. QED
    BY <1>1, <2>3, <2>4, <2>5, <2>6, <2>7, <2>8
<1>5. ASSUME TicketMove(Hashes), flow.phase \in {"none", "verifying"}, flow'.phase = "verifying", ~shape.local,
             worker' = [r \in Requests |-> IF r \in Hashes THEN "absent" ELSE worker[r]]
      PROVE  Tickets'
  <2>1. \A r \in Requests : \/ ticket'[r] = ticket[r]
                            \/ ticket[r] = "queued" /\ ticket'[r] = "withdrawn"
                            \/ r \in Hashes /\ ticket'[r] = "queued"
    BY <1>5 DEF TicketMove
  <2>2. \A r \in Requests : worker'[r] = IF r \in Hashes THEN "absent" ELSE worker[r]
    BY <1>5
  <2>3. QED
    BY <1>1, <1>2, <1>5, <2>1, <2>2 DEF Tickets
<1>6. QED
  BY <1>3, <1>4, <1>5 DEF TicketStep

\* Every step of the router is one of these.
LEMMA RouterTickets ==
  ASSUME CopyInvariant, RouterSteps
  PROVE  TicketStep
<1> USE DEF laneVars, workVars
<1>0. /\ ticket \in [Requests -> {"none", "queued", "written", "withdrawn"}]
      /\ worker \in [Requests -> Steps]
      /\ flow.phase \in Remote \cup {"verifying", "settling", "deleting"} => ~shape.local
      /\ flow.phase \in {"none", "verifying", "settling", "local", "deleting"} => flow.phase \notin Remote
      /\ RowPhases /\ Tickets
      /\ {"upload", "settle", "download", "delete", "local"} \cup Hashes = Requests
      /\ Hashes = {"hashSource", "hashDest"}
  BY DEF CopyInvariant, CopyTypeOK, Tickets, Requests, Hashes, Remote
<1>1. ASSUME TicketMove({}), UNCHANGED worker, flow.phase # "none" \/ flow'.phase \in {"none", "settled"}
      PROVE  TicketStep
  BY <1>1 DEF TicketStep
<1>2. ASSUME UNCHANGED <<ticket, worker>>, flow.phase # "none" \/ flow'.phase \in {"none", "settled"}
      PROVE  TicketStep
  BY <1>1, <1>2, RestMoves
<1>3. ASSUME Start PROVE TicketStep
  <2>1. /\ flow.phase = "none" /\ UNCHANGED worker /\ \A r \in Requests : ticket[r] = "none" /\ worker[r] = "absent"
        /\ flow'.phase = IF shape.local THEN "local" ELSE IF shape.resume THEN "verifying" ELSE "awaiting"
        /\ ticket' = [r \in Requests |->
              IF r \in (IF shape.local THEN {"local"} ELSE IF shape.resume THEN Hashes ELSE {"upload"})
              THEN "queued" ELSE ticket[r]]
    BY <1>0, <1>3, RouterFacts DEF Start, Tickets
  <2>2. CASE shape.local
    <3>1. TicketMove({"local"}) /\ Made("local")
      BY <1>0, <2>1, <2>2 DEF TicketMove, Made
    <3>2. QED
      BY <1>0, <2>1, <3>1 DEF TicketStep
  <2>3. CASE ~shape.local /\ ~shape.resume
    <3>1. TicketMove({"upload"}) /\ Made("upload")
      BY <1>0, <2>1, <2>3 DEF TicketMove, Made
    <3>2. QED
      BY <1>0, <2>1, <3>1 DEF TicketStep
  <2>4. CASE ~shape.local /\ shape.resume
    <3>1. TicketMove(Hashes)
      BY <1>0, <2>1, <2>4 DEF TicketMove
    <3>2. worker' = [r \in Requests |-> IF r \in Hashes THEN "absent" ELSE worker[r]]
      BY <1>0, <2>1
    <3>3. QED
      BY <2>1, <2>4, <3>1, <3>2 DEF TicketStep
  <2>5. QED
    BY <2>2, <2>3, <2>4
<1>4. ASSUME StartRefused PROVE TicketStep
  BY <1>2, <1>4, RouterFacts DEF StartRefused, Ends
<1>5. ASSUME NEW failure \in BOOLEAN, NEW asked \in BOOLEAN, SettleVerifying(failure, asked),
             UNCHANGED worker, flow.phase = "verifying"
      PROVE  TicketStep
  <2>1. \/ flow'.phase = "settling" /\ ticket' = [AfterCancel(PendingHashes) EXCEPT !["settle"] = "queued"]
        \/ ticket' = AfterCancel(PendingHashes)
    BY <1>5, RouterFacts DEF SettleVerifying
  <2>2. CASE flow'.phase = "settling" /\ ticket' = [AfterCancel(PendingHashes) EXCEPT !["settle"] = "queued"]
    <3>1. TicketMove({"settle"})
      BY <1>0, <2>2, CancelsWithdraw DEF TicketMove
    <3>2. Made("settle")
      BY <1>5, <2>2 DEF Made
    <3>3. QED
      BY <1>0, <1>5, <3>1, <3>2 DEF TicketStep
  <2>3. CASE ticket' = AfterCancel(PendingHashes)
    <3>1. TicketMove({})
      BY <2>3, CancelsWithdraw DEF TicketMove
    <3>2. QED
      BY <1>1, <1>5, <3>1
  <2>4. QED
    BY <2>1, <2>2, <2>3
<1>6. ASSUME NEW why, Cancels(why), UNCHANGED worker, flow.phase # "none"
      PROVE  TicketStep
  <2>1. TicketMove({})
    BY <1>6, CancelsWithdraw DEF TicketMove, Cancels
  <2>2. QED
    BY <1>1, <1>6, <2>1
<1>7. ASSUME UserCancel \/ UserPause PROVE TicketStep
  <2>1. /\ UNCHANGED worker
        /\ \/ flow.phase \in Remote /\ \E why : CancelRemote(why)
           \/ flow.phase = "local" /\ \E why : CancelLocal(why)
           \/ flow.phase = "verifying" /\ \E asked \in BOOLEAN : SettleVerifying(FALSE, asked)
           \/ flow.phase = "settling" /\ UNCHANGED ticket
    BY <1>7 DEF UserCancel, UserPause
  <2>2. flow.phase \in Remote => flow.phase # "none"
    BY DEF Remote
  <2>3. QED
    BY <1>2, <1>5, <1>6, <2>1, <2>2 DEF CancelRemote, CancelLocal
<1>8. ASSUME NEW r \in Hashes, NEW d \in Marks, HandleDigest(r, d) PROVE TicketStep
  <2>1. flow.phase = "verifying" /\ ~shape.local
    BY <1>0, <1>8 DEF HandleDigest
  <2>2. \/ UNCHANGED <<ticket, worker>>
        \/ \E offset \in Nat : StartRemote(offset) /\ UNCHANGED worker
        \/ \E offset \in Nat : NextSegment(offset)
    <3>1. UNCHANGED <<ticket, worker>> \/ Compared(d, flow.digest[Other(AgentOf(r))])
      BY <1>8 DEF HandleDigest
    <3>2. flow.offset \in Nat /\ flow.offset + 1 \in Nat
      BY RouterFacts
    <3>3. QED
      BY <3>1, <3>2 DEF Compared, NextSegmentNotQueued
  <2>3. ASSUME NEW offset \in Nat, StartRemote(offset), UNCHANGED worker PROVE TicketStep
    <3>1. (flow'.phase = "awaiting" /\ ticket' = Queue("upload")) \/ UNCHANGED ticket
      BY <2>3, RouterFacts DEF StartRemote
    <3>2. flow'.phase = "awaiting" => Made("upload")
      BY <2>1 DEF Made
    <3>3. QED
      BY <1>0, <1>2, <2>1, <2>3, <3>1, <3>2, RestMoves DEF TicketStep
  <2>4. ASSUME NEW offset \in Nat, NextSegment(offset) PROVE TicketStep
    <3>1. flow'.phase = "verifying"
      BY <2>1, <2>4, RouterFacts DEF NextSegment
    <3>2. TicketMove(Hashes)
      BY <1>0, <2>4 DEF NextSegment, TicketMove
    <3>3. QED
      BY <2>1, <2>4, <3>1, <3>2 DEF NextSegment, TicketStep
  <2>5. QED
    BY <1>2, <2>1, <2>2, <2>3, <2>4
<1>9. ASSUME NEW r \in Hashes, NEW out, HandleHashFailure(r, out) PROVE TicketStep
  BY <1>5, <1>6, <1>9 DEF HandleHashFailure, EndFailed
<1>10. ASSUME NEW out, SourceFinished(out), UNCHANGED worker, flow.phase # "none" PROVE TicketStep
  <2>1. UNCHANGED ticket \/ \E why : Cancels(why)
    BY <1>10 DEF SourceFinished
  <2>2. QED
    BY <1>2, <1>6, <1>10, <2>1
<1>11. ASSUME NEW out, DestinationFinished(out), UNCHANGED worker, flow.phase \in Remote PROVE TicketStep
  <2>1. UNCHANGED ticket \/ (\E why : Cancels(why)) \/ (flow.phase # "canceling" /\ BeginDeletion)
    BY <1>11 DEF DestinationFinished, EndFailed
  <2>2. flow.phase # "none"
    BY <1>11 DEF Remote
  <2>3. ASSUME BeginDeletion, flow.phase # "canceling" PROVE TicketStep
    <3>1. UNCHANGED ticket \/ (ticket' = Queue("delete") /\ flow'.phase = "deleting")
      BY <2>3, RouterFacts DEF BeginDeletion
    <3>2. flow'.phase = "deleting" => Made("delete")
      BY <1>11, <2>3, RouterFacts DEF Made
    <3>3. QED
      BY <1>0, <1>2, <1>11, <2>2, <3>1, <3>2, RestMoves DEF TicketStep
  <2>4. QED
    BY <1>2, <1>6, <1>11, <2>1, <2>2, <2>3
<1>12. ASSUME HandleReady PROVE TicketStep
  <2>1. /\ UNCHANGED worker
        /\ \/ flow.phase = "awaiting" /\ flow'.phase = "streaming" /\ ticket' = Queue("download")
           \/ flow.phase = "awaiting" /\ \E why : Cancels(why)
           \/ UNCHANGED <<ticket, flow>>
    BY <1>12, RouterFacts DEF HandleReady
  <2>2. flow.phase = "awaiting" /\ flow'.phase = "streaming" => Made("download")
    BY DEF Made
  <2>3. QED
    BY <1>0, <1>2, <1>6, <2>1, <2>2, RestMoves DEF TicketStep
<1>13. ASSUME NEW out, HandleSettled(out) \/ HandleDeletion(out) \/ HandleLocal(out) PROVE TicketStep
  BY <1>2, <1>13 DEF HandleSettled, HandleDeletion, HandleLocal
<1>14. ASSUME NEW out, HandleSource(out) PROVE TicketStep
  BY <1>10, <1>14 DEF HandleSource
<1>15. ASSUME NEW out, HandleDestination(out) PROVE TicketStep
  BY <1>11, <1>15 DEF HandleDestination
<1>16. ASSUME RouteWithdrawn PROVE TicketStep
  <2>1. /\ withdrawn # {} /\ UNCHANGED worker
        /\ \/ UNCHANGED ticket
           \/ "local" \notin withdrawn /\ DestinationFinished("error")
           \/ SourceFinished("error")
    BY <1>16 DEF RouteWithdrawn
  <2>2. flow.phase \in {"canceling", "local"} /\ ("local" \notin withdrawn => flow.phase = "canceling")
    BY <1>0, <2>1 DEF RowPhases
  <2>3. "canceling" \in Remote
    BY DEF Remote
  <2>4. QED
    BY <1>2, <1>10, <1>11, <2>1, <2>2, <2>3
<1>17. ASSUME NEW a \in Agents, HandlePublishRequest(a) \/ DropResult(a) \/ HandleVerification PROVE TicketStep
  BY <1>2, <1>17 DEF HandlePublishRequest, DropResult, HandleVerification
<1>18. ASSUME NEW a \in Agents, HandleLost(a) PROVE TicketStep
  <2>1. PICK why : /\ ticket' = [r \in Requests |->
                                   IF AgentOf(r) = a /\ ticket[r] = "queued" THEN "withdrawn"
                                   ELSE AfterCancel(why)[r]]
                   /\ UNCHANGED worker
    BY <1>18 DEF HandleLost
  <2>2. TicketMove({})
    BY <1>0, <2>1, CancelsWithdraw DEF TicketMove
  <2>3. flow.phase = "none" => flow' = flow
    BY <1>18 DEF HandleLost, Involves, Remote
  <2>4. QED
    BY <1>1, <2>1, <2>2, <2>3
<1>19. QED
  BY <1>3, <1>4, <1>7, <1>8, <1>9, <1>12, <1>13, <1>14, <1>15, <1>16, <1>17, <1>18 DEF RouterSteps, RouterWorks, Agents

-----------------------------------------------------------------------------
(* What a step of the router leaves alone *)

\* It touches no file and no reader, and the connections only to note that one is
\* gone.
LEMMA RouterLeaves ==
  ASSUME RouterSteps
  PROVE  /\ UNCHANGED <<source, target, partial, durable, token, reason, opened, sent, fin,
                        linked, losses>>
         /\ trouble' \in {trouble, "real"}
         /\ conn' = conn \/ \E a \in Agents : conn' = [conn EXCEPT ![a] = "gone"]
<1> DEFINE Ok ==
      /\ UNCHANGED <<source, target, partial, durable, token, reason, opened, sent, fin,
                     linked, losses>>
      /\ trouble' \in {trouble, "real"}
      /\ conn' = conn \/ \E a \in Agents : conn' = [conn EXCEPT ![a] = "gone"]
<1> SUFFICES Ok
  OBVIOUS
<1> USE DEF fileVars, rowVars, workVars, netVars, Hindered
<1>0. ASSUME NEW failure, NEW asked, SettleVerifying(failure, asked) PROVE trouble' \in {trouble, "real"}
  BY <1>0 DEF SettleVerifying
<1>1. Start \/ StartRefused => Ok
  BY DEF Start, StartRefused
<1>2. UserCancel \/ UserPause => Ok
  BY <1>0 DEF UserCancel, UserPause, CancelRemote, CancelLocal
<1>3. ASSUME NEW r \in Hashes, NEW d \in Marks, HandleDigest(r, d) PROVE Ok
  <2>1. trouble' \in {trouble, "real"}
    BY <1>3 DEF HandleDigest, Compared, StartRemote, NextSegment, NextSegmentNotQueued
  <2>2. QED
    BY <1>3, <2>1 DEF HandleDigest
<1>4. \A r \in Hashes : \A out : HandleHashFailure(r, out) => Ok
  BY <1>0 DEF HandleHashFailure
<1>5. HandleReady \/ HandleVerification => Ok
  BY DEF HandleReady, HandleVerification
<1>6. ASSUME NEW out, DestinationFinished(out) PROVE trouble' \in {trouble, "real"}
  BY <1>6 DEF DestinationFinished, BeginDeletion
<1>7. RouteWithdrawn => Ok
  BY <1>6 DEF RouteWithdrawn
<1>8. \A out : HandleSettled(out) \/ HandleSource(out) \/ HandleDestination(out)
               \/ HandleDeletion(out) \/ HandleLocal(out) => Ok
  BY <1>6 DEF HandleSettled, HandleSource, HandleDestination, HandleDeletion, HandleLocal
<1>9. \A a \in Agents : HandlePublishRequest(a) \/ DropResult(a) \/ HandleLost(a) => Ok
  BY DEF HandlePublishRequest, DropResult, HandleLost
<1>10. QED
  BY <1>1, <1>2, <1>3, <1>4, <1>5, <1>7, <1>8, <1>9 DEF RouterSteps, RouterWorks

\* It takes at most one message.
LEMMA RouterTakes ==
  ASSUME RouterSteps
  PROVE  UNCHANGED box \/ \E a \in Agents : Next1(a) /\ Taken(a)
<1> USE DEF fileVars, rowVars, workVars, netVars
<1>0. \A r : AgentOf(r) \in Agents
  BY DEF AgentOf, Agents
<1>1. Start \/ StartRefused \/ UserCancel \/ UserPause \/ RouteWithdrawn => UNCHANGED box
  BY DEF Start, StartRefused, UserCancel, UserPause, RouteWithdrawn
<1>2. \A r, out : ResultOf(r, out) => \E a \in Agents : Next1(a) /\ Taken(a)
  BY <1>0 DEF ResultOf
<1>3. \A r, d : HandleDigest(r, d) \/ HandleHashFailure(r, d) => ResultOf(r, d)
  BY DEF HandleDigest, HandleHashFailure
<1>4. HandleReady \/ HandleVerification => \E a \in Agents : Next1(a) /\ Taken(a)
  BY DEF HandleReady, HandleVerification, Agents
<1>5. \A out : HandleSettled(out) \/ HandleSource(out) \/ HandleDestination(out)
               \/ HandleDeletion(out) \/ HandleLocal(out) => \E r : ResultOf(r, out)
  BY DEF HandleSettled, HandleSource, HandleDestination, HandleDeletion, HandleLocal
<1>6. \A a \in Agents : HandlePublishRequest(a) \/ DropResult(a) \/ HandleLost(a) => Next1(a) /\ Taken(a)
  BY DEF HandlePublishRequest, DropResult, HandleLost
<1>7. QED
  BY <1>1, <1>2, <1>3, <1>4, <1>5, <1>6 DEF RouterSteps, RouterWorks

\* It admits a publication only by committing its row.
LEMMA RouterGrants ==
  ASSUME CopyInvariant, RouterSteps
  PROVE  NoGrants \/ (urgent' \in [Agents -> Seq(Urgents)] /\ (row' = "committed" \/
           \A a \in Agents, r \in Requests :
             Has(urgent'[a], Frame("decision", r, "allowed")) => Has(urgent[a], Frame("decision", r, "allowed"))))
<1> USE DEF laneVars
<1>0. urgent \in [Agents -> Seq(Urgents)]
  BY DEF CopyInvariant, CopyTypeOK
<1>1. UNCHANGED urgent => NoGrants
  BY RestMoves
<1>2. \A why : IsReason(why) /\ SendCancels(why) => NoGrants
  BY CancelsGrantNothing
<1>3. /\ IsReason(PendingHashes) /\ IsReason(Nobody)
      /\ \A why \in Reasons : IsReason(Release(why))
      /\ \A why \in Reasons : \A rs \in SUBSET Requests : IsReason([r \in rs |-> why])
      /\ {"canceled", "paused", "disconnected"} = Reasons
      /\ {"local"} \in SUBSET Requests /\ {"upload"} \in SUBSET Requests
      /\ {"upload"} \cup {} \in SUBSET Requests /\ {"upload"} \cup {"download"} \in SUBSET Requests
  BY ReleaseTyped DEF Reasons, Requests
<1>4. ASSUME NEW why \in Reasons, NEW rs \in SUBSET Requests, Cancels([r \in rs |-> why]) PROVE NoGrants
  BY <1>2, <1>3, <1>4 DEF Cancels
<1>5. Start \/ StartRefused \/ HandleVerification => UNCHANGED urgent
  BY DEF Start, StartRefused, HandleVerification
<1>6. ASSUME NEW why \in Reasons, CancelRemote(why) \/ CancelLocal(why) PROVE NoGrants
  BY <1>3, <1>4, <1>6 DEF CancelRemote, CancelLocal
<1>7. ASSUME NEW failure, NEW asked, SettleVerifying(failure, asked) PROVE NoGrants
  BY <1>2, <1>3, <1>7 DEF SettleVerifying
<1>8. UserCancel \/ UserPause => NoGrants
  BY <1>1, <1>3, <1>6, <1>7 DEF UserCancel, UserPause
<1>9. EndFailed => NoGrants
  BY <1>2, <1>3 DEF EndFailed, Cancels
<1>10. \A r, out : HandleDigest(r, out) \/ HandleHashFailure(r, out) => NoGrants
  BY <1>1, <1>7, <1>9 DEF HandleDigest, HandleHashFailure
<1>11. ASSUME NEW out, SourceFinished(out) PROVE NoGrants
  <2>1. \/ UNCHANGED urgent
        \/ \E why \in {"canceled", "disconnected"} : Cancels([r \in {"upload"} |-> why])
    BY <1>11 DEF SourceFinished
  <2>2. QED
    BY <1>1, <1>3, <1>4, <2>1
<1>12. ASSUME NEW out, DestinationFinished(out) PROVE NoGrants
  BY <1>1, <1>9, <1>12 DEF DestinationFinished, BeginDeletion
<1>13. ASSUME HandleReady PROVE NoGrants
  BY <1>1, <1>3, <1>4, <1>13 DEF HandleReady
<1>14. ASSUME RouteWithdrawn PROVE NoGrants
  BY <1>1, <1>11, <1>12, <1>14 DEF RouteWithdrawn
<1>15. \A out : HandleSettled(out) \/ HandleSource(out) \/ HandleDestination(out)
               \/ HandleDeletion(out) \/ HandleLocal(out) => NoGrants
  BY <1>1, <1>11, <1>12 DEF HandleSettled, HandleSource, HandleDestination, HandleDeletion, HandleLocal
<1>16. \A a \in Agents : DropResult(a) => NoGrants
  BY <1>1 DEF DropResult
<1>17. ASSUME NEW a \in Agents, HandleLost(a) PROVE NoGrants
  BY <1>2, <1>3, <1>17 DEF HandleLost
<1>18. ASSUME NEW a \in Agents, HandlePublishRequest(a)
       PROVE  /\ urgent' \in [Agents -> Seq(Urgents)]
              /\ row' = "committed" \/ \A b \in Agents, r \in Requests :
                   Has(urgent'[b], Frame("decision", r, "allowed")) => Has(urgent[b], Frame("decision", r, "allowed"))
  <2>1. Publisher \in {"upload", "local"}
    BY DEF Publisher
  <2>2. PICK answer \in {"allowed", "denied"} :
          /\ urgent' = urgent \/ urgent' = [urgent EXCEPT ![a] = Append(@, Frame("decision", Publisher, answer))]
          /\ answer = "allowed" => row' = "committed"
    BY <1>18 DEF HandlePublishRequest
  <2>3. Frame("decision", Publisher, answer) \in Urgents
    BY <2>1, UrgentTyped
  <2>4. urgent' \in [Agents -> Seq(Urgents)]
    <3>1. [urgent EXCEPT ![a] = Append(@, Frame("decision", Publisher, answer))] \in [Agents -> Seq(Urgents)]
      BY <1>0, <2>3, QueuesTyped
    <3>2. QED
      BY <1>0, <2>2, <3>1
  <2>5. ASSUME answer = "denied", NEW b \in Agents, NEW r \in Requests,
               Has(urgent'[b], Frame("decision", r, "allowed"))
        PROVE  Has(urgent[b], Frame("decision", r, "allowed"))
    <3>1. Frame("decision", Publisher, answer) # Frame("decision", r, "allowed")
      BY <2>5 DEF Frame
    <3>2. urgent'[b] = urgent[b] \/ urgent'[b] = Append(urgent[b], Frame("decision", Publisher, answer))
      BY <1>0, <2>2
    <3>3. urgent'[b] = Append(urgent[b], Frame("decision", Publisher, answer)) =>
            \A i \in DOMAIN urgent'[b] :
              \/ i \in DOMAIN urgent[b] /\ urgent'[b][i] = urgent[b][i]
              \/ urgent'[b][i] = Frame("decision", Publisher, answer)
      BY <1>0, <2>3, AddedFrame
    <3>4. QED
      BY <2>5, <3>1, <3>2, <3>3 DEF Has
  <2>6. QED
    BY <2>2, <2>4, <2>5
<1>19. QED
  BY <1>1, <1>5, <1>8, <1>10, <1>13, <1>14, <1>15, <1>16, <1>17, <1>18 DEF RouterSteps, RouterWorks

FlowType == [phase : Phases, sourceFinished : BOOLEAN, acked : SUBSET Agents,
             digest : [Agents -> Marks \cup {"none"}], offset : Nat, end : Nat,
             failure : BOOLEAN, settle : {"none", "persist", "delete"}]

\* The verified prefix, the digests and the workers stay as they are.
Keeps == /\ flow' \in FlowType /\ flow'.offset = flow.offset /\ flow'.digest = flow.digest
         /\ UNCHANGED worker /\ (flow'.phase = "verifying" => shape.resume)

\* Only a digest moves the verified prefix.
LEMMA RouterKeeps ==
  ASSUME CopyInvariant, RouterSteps
  PROVE  Keeps \/ \E r \in Hashes, d \in Marks : HandleDigest(r, d)
<1> USE DEF workVars
<1>0. /\ flow \in FlowType /\ (flow.phase = "verifying" => shape.resume)
      /\ {"verifying", "settling", "settled", "awaiting", "streaming", "canceling", "local", "deleting"} \subseteq Phases
      /\ \A S \in {{}, {"source"}} : S \subseteq Agents
      /\ {"source", "dest"} = Agents
  BY RouterFacts DEF FlowType, Phases, Remote, Agents, CopyInvariant, Verified
<1>1. \A state : Ends(state) /\ UNCHANGED worker => Keeps
  BY <1>0 DEF Ends, Keeps, FlowType
<1>2. UNCHANGED <<flow, worker>> => Keeps
  BY <1>0 DEF Keeps
<1>3. \A side \in Agents : Acknowledge(side) /\ UNCHANGED worker => Keeps
  <2>1. ASSUME NEW S \in SUBSET Agents, NEW b \in BOOLEAN, UNCHANGED worker,
               flow' = [flow EXCEPT !.acked = S, !.sourceFinished = b]
        PROVE  Keeps
    BY <1>0, <2>1 DEF Keeps, FlowType
  <2>2. ASSUME NEW side \in Agents, Acknowledge(side)
        PROVE  \/ \E state : Ends(state)
               \/ flow' = [flow EXCEPT !.acked = flow.acked \cup {side},
                                       !.sourceFinished = flow.sourceFinished \/ side = "source"]
    BY <2>2 DEF Acknowledge
  <2>3. \A side \in Agents : flow.acked \cup {side} \in SUBSET Agents
    BY <1>0 DEF FlowType
  <2>4. \A side : (flow.sourceFinished \/ side = "source") \in BOOLEAN
    OBVIOUS
  <2>5. QED
    BY <1>1, <2>1, <2>2, <2>3, <2>4
<1>4. \A failure, asked \in BOOLEAN : SettleVerifying(failure, asked) /\ UNCHANGED worker => Keeps
  <2>1. ASSUME NEW b \in BOOLEAN, NEW s \in {"persist", "delete"}, UNCHANGED worker,
               flow' = [flow EXCEPT !.phase = "settling", !.failure = b, !.settle = s]
        PROVE  Keeps
    BY <1>0, <2>1 DEF Keeps, FlowType
  <2>2. ASSUME NEW b \in BOOLEAN, UNCHANGED worker,
               flow' = [flow EXCEPT !.phase = "settled", !.failure = b]
        PROVE  Keeps
    BY <1>0, <2>2 DEF Keeps, FlowType
  <2>3. ASSUME NEW failure, NEW asked, SettleVerifying(failure, asked)
        PROVE  \/ \E s \in {"persist", "delete"} :
                    flow' = [flow EXCEPT !.phase = "settling", !.failure = failure, !.settle = s]
               \/ flow' = [flow EXCEPT !.phase = "settled", !.failure = failure]
    BY <2>3 DEF SettleVerifying, SettlementNotQueued
  <2>4. QED
    BY <2>1, <2>2, <2>3
<1>5. \A out : SourceFinished(out) /\ UNCHANGED worker => Keeps
  <2>1. \A out : SourceFinished(out) =>
          \/ Acknowledge("source") \/ Ends("errored")
          \/ flow' = [flow EXCEPT !.sourceFinished = TRUE]
    BY DEF SourceFinished
  <2>2. flow' = [flow EXCEPT !.sourceFinished = TRUE] /\ UNCHANGED worker => Keeps
    BY <1>0 DEF Keeps, FlowType
  <2>3. QED
    BY <1>0, <1>1, <1>3, <2>1, <2>2
<1>6. \A out : DestinationFinished(out) /\ UNCHANGED worker => Keeps
  <2>1. \A out : DestinationFinished(out) =>
          \/ Acknowledge("dest") \/ Ends("errored") \/ Ends("completed")
          \/ BeginDeletion
    BY DEF DestinationFinished, EndFailed
  <2>2. BeginDeletion /\ UNCHANGED worker => Keeps
    BY <1>0 DEF BeginDeletion, Keeps, FlowType
  <2>3. QED
    BY <1>0, <1>1, <1>3, <2>1, <2>2
<1>7. \A out : LocalFinished(out) /\ UNCHANGED worker => Keeps
  BY <1>1 DEF LocalFinished
<1>8. Start => Keeps
  <2>1. partial \in Seq(Marks) \/ partial = <<"absent">>
    BY DEF CopyInvariant, CopyTypeOK, Absent
  <2>2. Len(partial) \in Nat
    BY <2>1
  <2>3. QED
    <3>1. ASSUME NEW p \in {"local", "verifying", "awaiting"}, NEW n \in Nat, UNCHANGED worker,
                 flow' = [flow EXCEPT !.phase = p, !.end = n], p = "verifying" => shape.resume
          PROVE  Keeps
      <4>1. p \in Phases
        BY <1>0
      <4>2. flow' \in FlowType /\ flow'.offset = flow.offset /\ flow'.digest = flow.digest /\ flow'.phase = p
        BY <1>0, <3>1, <4>1 DEF FlowType
      <4>3. QED
        BY <3>1, <4>2 DEF Keeps
    <3>2. ASSUME Start
          PROVE  \E p \in {"local", "verifying", "awaiting"}, n \in Nat :
                   /\ flow' = [flow EXCEPT !.phase = p, !.end = n]
                   /\ p = "verifying" => shape.resume
                   /\ UNCHANGED worker
      <4>1. \E n \in Nat : n = IF shape.resume THEN Len(partial) ELSE 0
        BY <2>2
      <4>2. \E p \in {"local", "verifying", "awaiting"} :
              p = (IF shape.local THEN "local" ELSE IF shape.resume THEN "verifying" ELSE "awaiting")
        OBVIOUS
      <4>3. QED
        BY <3>2, <4>1, <4>2 DEF Start
    <3>3. QED
      BY <3>1, <3>2
<1>9. StartRefused => Keeps
  BY <1>1 DEF StartRefused
<1>10. UserCancel \/ UserPause => Keeps
  <2>1. \A why : CancelRemote(why) /\ UNCHANGED worker => Keeps
    <3>1. ASSUME NEW S \in SUBSET Agents, UNCHANGED worker,
                 flow' = [flow EXCEPT !.phase = "canceling", !.acked = S]
          PROVE  Keeps
      BY <1>0, <3>1 DEF Keeps, FlowType
    <3>2. {} \in SUBSET Agents /\ {"source"} \in SUBSET Agents
      BY <1>0
    <3>3. \A why : CancelRemote(why) => \E S \in {{}, {"source"}} :
            flow' = [flow EXCEPT !.phase = "canceling", !.acked = S]
      BY DEF CancelRemote
    <3>4. QED
      BY <3>1, <3>2, <3>3
  <2>2. QED
    BY <1>2, <1>4, <2>1 DEF UserCancel, UserPause, CancelLocal
<1>11. \A r, out : HandleHashFailure(r, out) => Keeps
  BY <1>1, <1>4 DEF HandleHashFailure, EndFailed
<1>12. HandleReady => Keeps
  <2>1. flow' = [flow EXCEPT !.phase = "streaming"] /\ UNCHANGED worker => Keeps
    BY <1>0 DEF Keeps, FlowType
  <2>2. QED
    BY <1>1, <1>2, <2>1 DEF HandleReady
<1>13. \A out : HandleSettled(out) => Keeps
  <2>1. \A ok : FinishSettlement(ok) => \E state : Ends(state)
    BY DEF FinishSettlement
  <2>2. QED
    BY <1>1, <2>1 DEF HandleSettled
<1>14. \A out : HandleSource(out) \/ HandleDestination(out) \/ HandleDeletion(out) \/ HandleLocal(out) => Keeps
  BY <1>1, <1>5, <1>6, <1>7 DEF HandleSource, HandleDestination, HandleDeletion, HandleLocal
<1>15. RouteWithdrawn => Keeps
  BY <1>5, <1>6, <1>7 DEF RouteWithdrawn
<1>16. \A a : HandlePublishRequest(a) \/ DropResult(a) \/ HandleVerification => Keeps
  BY <1>2 DEF HandlePublishRequest, DropResult, HandleVerification
<1>17. \A a : HandleLost(a) => Keeps
  BY <1>1, <1>2 DEF HandleLost, SettleLost
<1>18. QED
  BY <1>8, <1>9, <1>10, <1>11, <1>12, <1>13, <1>14, <1>15, <1>16, <1>17 DEF RouterSteps, RouterWorks, Agents

\* Both digests say that the next segment of the partial is the captured source's.
Matched == flow.offset < Len(partial) /\ partial[flow.offset + 1] = "captured"

\* A digest waits for the other one, ends the verification, or extends the
\* verified prefix by a segment that matched.
LEMMA DigestSteps ==
  ASSUME CopyInvariant, NEW r \in Hashes, NEW d \in Marks, HandleDigest(r, d)
  PROVE  /\ flow.phase = "verifying" /\ flow' \in FlowType
         /\ r = "hashSource" => d = "captured"
         /\ r = "hashDest" => flow.offset < Len(partial) /\ d = partial[flow.offset + 1]
         /\ \/ UNCHANGED worker /\ flow' = [flow EXCEPT !.digest[AgentOf(r)] = d]
            \/ /\ UNCHANGED worker /\ flow'.phase \in {"awaiting", "settled"}
               /\ flow'.offset = flow.offset \/ (flow'.offset = flow.offset + 1 /\ Matched)
            \/ /\ flow' = [flow EXCEPT !.offset = flow.offset + 1, !.digest = [a \in Agents |-> "none"]]
               /\ worker' = [q \in Requests |-> IF q \in Hashes THEN "absent" ELSE worker[q]]
               /\ Matched /\ flow.digest[Other(AgentOf(r))] # "none"
<1>0. /\ flow \in FlowType /\ flow.offset \in Nat /\ flow.phase = "verifying"
      /\ {"awaiting", "settled"} \subseteq Phases /\ AgentOf(r) \in Agents
      /\ flow.digest \in [Agents -> Marks \cup {"none"}]
      /\ [a \in Agents |-> "none"] \in [Agents -> Marks \cup {"none"}]
      /\ "none" \notin Marks
  BY RouterFacts DEF FlowType, Phases, Remote, Agents, AgentOf, HandleDigest, Marks, Versions
<1>1. Result(r, d) /\ Verified
  BY TakenResult DEF HandleDigest, Hashes, Requests, CopyInvariant
<1>2. /\ r = "hashSource" => d = "captured"
      /\ r = "hashDest" => flow.offset < Len(partial) /\ d = partial[flow.offset + 1]
  BY <1>0, <1>1 DEF Verified
<1>3. flow.digest[Other(AgentOf(r))] = d => Matched
  <2>1. CASE r = "hashSource"
    <3>1. Other(AgentOf(r)) = "dest"
      BY <2>1 DEF Other, AgentOf
    <3>2. QED
      BY <1>0, <1>1, <1>2, <2>1, <3>1 DEF Verified, Matched
  <2>2. CASE r = "hashDest"
    <3>1. Other(AgentOf(r)) = "source"
      BY <2>2 DEF Other, AgentOf
    <3>2. QED
      BY <1>0, <1>1, <1>2, <2>2, <3>1 DEF Verified, Matched
  <2>3. QED
    BY <2>1, <2>2 DEF Hashes
<1>4. \/ UNCHANGED worker /\ flow' = [flow EXCEPT !.digest[AgentOf(r)] = d]
      \/ flow.digest[Other(AgentOf(r))] # "none" /\ Compared(d, flow.digest[Other(AgentOf(r))])
  BY DEF HandleDigest
<1>5. CASE UNCHANGED worker /\ flow' = [flow EXCEPT !.digest[AgentOf(r)] = d]
  <2>1. [flow.digest EXCEPT ![AgentOf(r)] = d] \in [Agents -> Marks \cup {"none"}]
    BY <1>0
  <2>2. flow' \in FlowType
    BY <1>0, <1>5, <2>1 DEF FlowType
  <2>3. QED
    BY <1>0, <1>2, <1>5, <2>2
<1>6. ASSUME NEW offset \in Nat, offset = flow.offset \/ (offset = flow.offset + 1 /\ Matched),
             StartRemote(offset), UNCHANGED worker
      PROVE  /\ flow' \in FlowType /\ UNCHANGED worker /\ flow'.phase \in {"awaiting", "settled"}
             /\ flow'.offset = flow.offset \/ (flow'.offset = flow.offset + 1 /\ Matched)
  <2>1. PICK p \in {"awaiting", "settled"} : flow' = [flow EXCEPT !.phase = p, !.offset = offset]
    BY <1>6 DEF StartRemote
  <2>2. flow' \in FlowType /\ flow'.phase = p /\ flow'.offset = offset
    BY <1>0, <2>1 DEF FlowType
  <2>3. QED
    BY <1>6, <2>2
<1>7. ASSUME NextSegmentNotQueued
      PROVE  flow' \in FlowType /\ UNCHANGED worker /\ flow'.phase = "settled" /\ flow'.offset = flow.offset
  BY <1>0, <1>7 DEF NextSegmentNotQueued, Ends, FlowType
<1>8. ASSUME NextSegment(flow.offset + 1)
      PROVE  /\ flow' \in FlowType
             /\ flow' = [flow EXCEPT !.offset = flow.offset + 1, !.digest = [a \in Agents |-> "none"]]
             /\ worker' = [q \in Requests |-> IF q \in Hashes THEN "absent" ELSE worker[q]]
  <2>1. /\ flow' = [flow EXCEPT !.offset = flow.offset + 1, !.digest = [a \in Agents |-> "none"]]
        /\ worker' = [q \in Requests |-> IF q \in Hashes THEN "absent" ELSE worker[q]]
    BY <1>8 DEF NextSegment
  <2>2. \A n \in Nat, ds \in [Agents -> Marks \cup {"none"}] :
          [flow EXCEPT !.offset = n, !.digest = ds] \in FlowType
    BY <1>0 DEF FlowType
  <2>3. flow.offset + 1 \in Nat
    BY <1>0
  <2>4. [flow EXCEPT !.offset = flow.offset + 1, !.digest = [a \in Agents |-> "none"]] \in FlowType
    BY <1>0, <2>2, <2>3
  <2>5. QED
    BY <2>1, <2>4
<1>9. CASE flow.digest[Other(AgentOf(r))] # "none" /\ Compared(d, flow.digest[Other(AgentOf(r))])
  <2>1. \/ \E offset \in Nat : /\ offset = flow.offset \/ (offset = flow.offset + 1 /\ Matched)
                               /\ StartRemote(offset) /\ UNCHANGED worker
        \/ NextSegmentNotQueued
        \/ NextSegment(flow.offset + 1) /\ Matched
    BY <1>0, <1>3, <1>9 DEF Compared
  <2>2. QED
    BY <1>0, <1>2, <1>6, <1>7, <1>8, <1>9, <2>1
<1>10. QED
  BY <1>4, <1>5, <1>9

\* What the router has taken is no longer on its way.
LEMMA TakenLeaves ==
  ASSUME CopyInvariant, NEW r \in Requests, NEW out, ResultOf(r, out)
  PROVE  ~Answered(box'[AgentOf(r)], r)
<1>1. /\ AgentOf(r) \in Agents /\ box \in [Agents -> Seq(Frames)] /\ box[AgentOf(r)] # <<>>
      /\ box' = [box EXCEPT ![AgentOf(r)] = Tail(@)]
      /\ box[AgentOf(r)][1] = Frame("result", r, out) /\ 1 \in DOMAIN box[AgentOf(r)]
  BY TakenResult DEF Taken, CopyInvariant, CopyTypeOK
<1>2. box'[AgentOf(r)] = Tail(box[AgentOf(r)])
  BY <1>1
<1>3. SUFFICES ASSUME NEW i \in DOMAIN Tail(box[AgentOf(r)]), IsResultOf(Tail(box[AgentOf(r)])[i], r)
               PROVE  FALSE
  BY <1>2 DEF Answered
<1>4. i \in Nat /\ i >= 1 /\ i + 1 \in DOMAIN box[AgentOf(r)] /\ IsResultOf(box[AgentOf(r)][i + 1], r)
  BY <1>1, <1>3, TakenFrame
<1>5. IsResultOf(box[AgentOf(r)][1], r)
  BY <1>1 DEF IsResultOf, Frame
<1>6. \A a \in Agents : \A j \in DOMAIN box[a] :
        box[a][j].kind = "result" => \A k \in DOMAIN box[a] : IsResultOf(box[a][k], box[a][j].req) => j = k
  BY DEF CopyInvariant, Results
<1>7. 1 = i + 1
  BY <1>1, <1>4, <1>5, <1>6 DEF IsResultOf
<1>8. QED
  BY <1>4, <1>7

\* What is on its way after a step of the router was on its way before, in the
\* same order.
LEMMA BoxShrinks ==
  ASSUME CopyInvariant, RouterSteps
  PROVE  /\ box' \in [Agents -> Seq(Frames)]
         /\ \A a \in Agents : \E k \in {0, 1} : \A i \in DOMAIN box'[a] :
              i \in Nat /\ i + k \in DOMAIN box[a] /\ box'[a][i] = box[a][i + k]
<1>0. box \in [Agents -> Seq(Frames)]
  BY DEF CopyInvariant, CopyTypeOK
<1>1. CASE UNCHANGED box
  <2>1. \A a \in Agents : \A i \in DOMAIN box'[a] :
          i \in Nat /\ i + 0 \in DOMAIN box[a] /\ box'[a][i] = box[a][i + 0]
    BY <1>0, <1>1
  <2>2. QED
    BY <1>0, <1>1, <2>1
<1>2. ASSUME NEW b \in Agents, Next1(b), Taken(b)
      PROVE  /\ box' \in [Agents -> Seq(Frames)]
             /\ \A a \in Agents : \E k \in {0, 1} : \A i \in DOMAIN box'[a] :
                  i \in Nat /\ i + k \in DOMAIN box[a] /\ box'[a][i] = box[a][i + k]
  <2>1. box[b] # <<>> /\ box' = [box EXCEPT ![b] = Tail(@)]
    BY <1>2 DEF Next1, Taken
  <2>2. box' \in [Agents -> Seq(Frames)]
    BY <1>0, <2>1, QueuesTyped
  <2>3. ASSUME NEW a \in Agents
        PROVE  \E k \in {0, 1} : \A i \in DOMAIN box'[a] :
                  i \in Nat /\ i + k \in DOMAIN box[a] /\ box'[a][i] = box[a][i + k]
    <3>1. CASE a = b
      <4>1. box'[a] = Tail(box[a]) /\ box[a] \in Seq(Frames) /\ box[a] # <<>>
        BY <1>0, <2>1, <3>1
      <4>2. \A i \in DOMAIN box'[a] :
              i \in Nat /\ i + 1 \in DOMAIN box[a] /\ box'[a][i] = box[a][i + 1]
        BY <4>1, TakenFrame
      <4>3. QED
        BY <4>2
    <3>2. CASE a # b
      <4>1. box'[a] = box[a] /\ box[a] \in Seq(Frames)
        BY <1>0, <2>1, <3>2
      <4>2. \A i \in DOMAIN box'[a] :
              i \in Nat /\ i + 0 \in DOMAIN box[a] /\ box'[a][i] = box[a][i + 0]
        BY <4>1
      <4>3. QED
        BY <4>2
    <3>3. QED
      BY <3>1, <3>2
  <2>4. QED
    BY <2>2, <2>3
<1>3. QED
  BY <1>1, <1>2, RouterTakes

\* So what is said in it was said before.
LEMMA SaysNoMore ==
  ASSUME CopyInvariant, RouterSteps, NEW r \in Requests
  PROVE  /\ \A out : Result(r, out)' => Result(r, out)
         /\ ~Answered(box[AgentOf(r)], r) => ~Answered(box'[AgentOf(r)], r)
<1>1. AgentOf(r) \in Agents
  BY DEF AgentOf, Agents
<1>2. PICK k \in {0, 1} : \A i \in DOMAIN box'[AgentOf(r)] :
        i \in Nat /\ i + k \in DOMAIN box[AgentOf(r)] /\ box'[AgentOf(r)][i] = box[AgentOf(r)][i + k]
  BY <1>1, BoxShrinks
<1>3. QED
  BY <1>2 DEF Result, Has, Answered

-----------------------------------------------------------------------------
(* What a step of the router keeps *)

\* Only the two digests of a segment are asked for twice, and only when neither is
\* on its way.
LEMMA RouterAsksAgain ==
  ASSUME CopyInvariant, RouterSteps
  PROVE  /\ worker' \in [Requests -> Steps]
         /\ \A r \in Requests \ Hashes : worker'[r] = worker[r]
         /\ \/ UNCHANGED worker
            \/ /\ worker' = [q \in Requests |-> IF q \in Hashes THEN "absent" ELSE worker[q]]
               /\ flow'.digest = [a \in Agents |-> "none"]
               /\ \A h \in Hashes : ~Answered(box'[AgentOf(h)], h)
<1>0. worker \in [Requests -> Steps] /\ "absent" \in Steps /\ flow \in FlowType
  BY RouterFacts DEF CopyInvariant, CopyTypeOK, Steps, FlowType
<1>1. CASE UNCHANGED worker
  BY <1>0, <1>1
<1>2. ASSUME NEW r \in Hashes, NEW d \in Marks, HandleDigest(r, d), worker' # worker
      PROVE  /\ worker' = [q \in Requests |-> IF q \in Hashes THEN "absent" ELSE worker[q]]
             /\ flow'.digest = [a \in Agents |-> "none"]
             /\ \A h \in Hashes : ~Answered(box'[AgentOf(h)], h)
  <2>1. /\ flow' = [flow EXCEPT !.offset = flow.offset + 1, !.digest = [a \in Agents |-> "none"]]
        /\ worker' = [q \in Requests |-> IF q \in Hashes THEN "absent" ELSE worker[q]]
        /\ flow.digest[Other(AgentOf(r))] # "none" /\ flow.phase = "verifying"
    BY <1>2, DigestSteps
  <2>2. r \in Requests /\ ResultOf(r, d)
    BY <1>2 DEF HandleDigest, Hashes, Requests
  <2>3. ~Answered(box'[AgentOf(r)], r)
    BY <2>2, TakenLeaves
  <2>4. ASSUME NEW h \in Hashes, h # r PROVE ~Answered(box'[AgentOf(h)], h)
    <3>1. AgentOf(h) = Other(AgentOf(r)) /\ h \in Requests
      BY <1>2, <2>4 DEF Hashes, AgentOf, Other, Requests
    <3>2. ~Answered(box[AgentOf(h)], h)
      BY <2>1, <2>4, <3>1 DEF CopyInvariant, Verified
    <3>3. QED
      BY <3>1, <3>2, SaysNoMore
  <2>5. flow'.digest = [a \in Agents |-> "none"]
    BY <1>0, <2>1 DEF FlowType
  <2>6. QED
    BY <2>1, <2>3, <2>4, <2>5
<1>3. CASE worker' # worker
  <2>1. \E r \in Hashes, d \in Marks : HandleDigest(r, d)
    BY <1>3, RouterKeeps DEF Keeps
  <2>2. /\ worker' = [q \in Requests |-> IF q \in Hashes THEN "absent" ELSE worker[q]]
        /\ flow'.digest = [a \in Agents |-> "none"]
        /\ \A h \in Hashes : ~Answered(box'[AgentOf(h)], h)
    BY <1>2, <1>3, <2>1
  <2>3. QED
    BY <1>0, <2>2
<1>4. QED
  BY <1>1, <1>3

\* Whether a copy can be paused is a flag.
LEMMA PausableTyped ==
  ASSUME CopyInvariant, RouterSteps
  PROVE  pausable' \in BOOLEAN
<1> USE DEF rowVars
<1>0. pausable \in BOOLEAN
  BY DEF CopyInvariant, CopyTypeOK
<1>1. UNCHANGED pausable => pausable' \in BOOLEAN
  BY <1>0
<1>2. Start => pausable' \in BOOLEAN
  BY Zenon DEF Start
<1>3. HandleVerification => pausable' \in BOOLEAN
  <2>1. HandleVerification => pausable' = pausable \/ pausable' = (row = "active")
    BY Zenon DEF HandleVerification
  <2>2. (row = "active") \in BOOLEAN
    OBVIOUS
  <2>3. QED
    BY <1>1, <2>1, <2>2, Zenon
<1>4. StartRefused \/ UserCancel \/ UserPause \/ HandleReady \/ RouteWithdrawn => UNCHANGED pausable
  BY DEF StartRefused, UserCancel, UserPause, HandleReady, RouteWithdrawn
<1>5. \A r, out : HandleDigest(r, out) \/ HandleHashFailure(r, out) => UNCHANGED pausable
  BY DEF HandleDigest, HandleHashFailure
<1>6. \A out : HandleSettled(out) \/ HandleSource(out) \/ HandleDestination(out)
               \/ HandleDeletion(out) \/ HandleLocal(out) => UNCHANGED pausable
  BY DEF HandleSettled, HandleSource, HandleDestination, HandleDeletion, HandleLocal
<1>7. \A a : HandlePublishRequest(a) \/ DropResult(a) \/ HandleLost(a) => UNCHANGED pausable
  BY DEF HandlePublishRequest, DropResult, HandleLost
<1>8. QED
  BY <1>1, <1>2, <1>3, <1>4, <1>5, <1>6, <1>7, Zenon DEF RouterSteps, RouterWorks

\* The router keeps every variable in its type.
LEMMA RouterKeepsTypes ==
  ASSUME CopyInvariant, RouterSteps
  PROVE  CopyTypeOK'
<1>0. CopyTypeOK
  BY DEF CopyInvariant
<1>1. flow' \in FlowType
  BY RouterKeeps, DigestSteps DEF Keeps
<1>2. row' \in Rows /\ pause' \in {"none", "asked", "ok", "refused"}
  <2>1. row \in Rows /\ pause \in {"none", "asked", "ok", "refused"}
    BY RouterFacts
  <2>2. RowStep
    BY RouterRows
  <2>3. QED
    BY <2>1, <2>2 DEF RowStep, GoesOn, Begins, Admits, IsCanceled, Deletes, Finishes, Rows
<1>3. withdrawn' \subseteq Requests
  BY RouterRows DEF WithdrawnFollow, Requests
<1>4. ticket' \in [Requests -> {"none", "queued", "written", "withdrawn"}]
  BY RouterTickets DEF TicketStep, TicketMove
<1>5. urgent' \in [Agents -> Seq(Urgents)]
  BY RouterGrants DEF NoGrants
<1>6. box' \in [Agents -> Seq(Frames)]
  BY BoxShrinks
<1>7. worker' \in [Requests -> Steps]
  BY RouterAsksAgain
<1>8. pausable' \in BOOLEAN
  BY PausableTyped
<1>9. /\ UNCHANGED <<source, target, partial, durable, token, reason, opened, sent, fin,
                     linked, losses>>
      /\ trouble' \in {trouble, "real"}
      /\ conn' = conn \/ \E a \in Agents : conn' = [conn EXCEPT ![a] = "gone"]
  BY RouterLeaves
<1>10. UNCHANGED shape
  BY RouterRows
<1>11. conn' \in [Agents -> {"up", "broken", "gone"}]
  BY <1>0, <1>9 DEF CopyTypeOK
<1>12. trouble' \in {"none", "fallback", "real"}
  BY <1>0, <1>9 DEF CopyTypeOK
<1>13. QED
  BY <1>0, <1>1, <1>2, <1>3, <1>4, <1>5, <1>6, <1>7, <1>8, <1>9, <1>10, <1>11, <1>12, Zenon DEF CopyTypeOK, FlowType

\* And every result true.
LEMMA RouterKeepsResults ==
  ASSUME CopyInvariant, RouterSteps
  PROVE  Results'
<1>0. UNCHANGED <<shape, source, target>> /\ Results
  BY RouterLeaves, RouterRows DEF CopyInvariant
<1>1. ASSUME NEW a \in Agents, NEW i \in DOMAIN box'[a]
      PROVE  /\ box'[a][i].kind = "result" =>
                  /\ AgentOf(box'[a][i].req) = a
                  /\ worker'[box'[a][i].req] = "ended"
                  /\ \A j \in DOMAIN box'[a] : IsResultOf(box'[a][j], box'[a][i].req) => i = j
             /\ box'[a][i].kind = "verifying" => shape'.file
  <2>1. PICK k \in {0, 1} : \A j \in DOMAIN box'[a] :
          j \in Nat /\ j + k \in DOMAIN box[a] /\ box'[a][j] = box[a][j + k]
    BY BoxShrinks
  <2>2. ASSUME box'[a][i].kind = "result"
        PROVE  AgentOf(box'[a][i].req) = a /\ worker[box'[a][i].req] = "ended"
    BY <1>0, <2>1, <2>2 DEF Results
  <2>3. ASSUME box'[a][i].kind = "result", NEW j \in DOMAIN box'[a], IsResultOf(box'[a][j], box'[a][i].req)
        PROVE  i = j
    <3>1. i + k = j + k
      BY <1>0, <2>1, <2>3 DEF Results
    <3>2. QED
      BY <2>1, <3>1
  <2>4. box'[a][i].kind = "verifying" => shape'.file
    BY <1>0, <2>1 DEF Results
  <2>5. ASSUME box'[a][i].kind = "result"
        PROVE  worker'[box'[a][i].req] = "ended"
    <3>1. CASE UNCHANGED worker
      BY <2>2, <2>5, <3>1
    <3>2. CASE /\ worker' = [q \in Requests |-> IF q \in Hashes THEN "absent" ELSE worker[q]]
               /\ \A h \in Hashes : ~Answered(box'[AgentOf(h)], h)
      <4>1. box'[a][i].req \notin Hashes
        BY <2>2, <2>5, <3>2 DEF Answered, IsResultOf
      <4>2. box'[a][i].req \in Requests
        <5>1. box'[a][i] \in Frames
          BY BoxShrinks
        <5>2. QED
          BY <5>1, <2>5 DEF Frames
      <4>3. QED
        BY <2>2, <2>5, <3>2, <4>1, <4>2
    <3>3. QED
      BY <3>1, <3>2, RouterAsksAgain
  <2>6. QED
    BY <2>2, <2>3, <2>4, <2>5
<1>2. {"upload", "delete", "local"} \subseteq Requests
  BY DEF Requests
<1>3. /\ Result("upload", "ok")' => Result("upload", "ok")
      /\ Result("delete", "ok")' => Result("delete", "ok")
      /\ Result("local", "ok")' => Result("local", "ok")
  BY <1>2, SaysNoMore
<1>4. QED
  BY <1>0, <1>1, <1>3 DEF Results

\* A row that was admitted stays so.
LEMMA GrantedStays ==
  ASSUME CopyInvariant, RowStep, row \in Granted
  PROVE  row' \in Granted
  BY DEF RowStep, GoesOn, Begins, Admits, IsCanceled, Deletes, Finishes, Granted

\* The router admits a publication only with its row.
LEMMA RouterKeepsGrants ==
  ASSUME CopyInvariant, RouterSteps
  PROVE  Grants'
<1>0. /\ UNCHANGED <<shape, source, target>> /\ Grants /\ RowStep /\ TicketStep
      /\ \A r \in Requests \ Hashes : worker'[r] = worker[r]
  BY RouterLeaves, RouterRows, RouterTickets, RouterAsksAgain DEF CopyInvariant
<1>1. /\ Publisher' = Publisher /\ Publisher \in Requests \ Hashes /\ AgentOf(Publisher) \in Agents
      /\ "upload" \in Requests \ Hashes /\ "local" \in Requests \ Hashes
      /\ "delete" \in Requests \ Hashes /\ (Gated' <=> Gated) /\ Allowed' = Allowed
  BY <1>0 DEF Publisher, Requests, Hashes, AgentOf, Agents, Gated, Allowed
<1>2. /\ worker'[Publisher] = worker[Publisher] /\ worker'["upload"] = worker["upload"]
      /\ worker'["local"] = worker["local"] /\ worker'["delete"] = worker["delete"]
  BY <1>0, <1>1
<1>3. row \in Granted => row' \in Granted
  BY <1>0, GrantedStays
<1>4. Gated /\ (\/ Has(urgent'[AgentOf(Publisher)], Allowed)
                \/ worker[Publisher] \in {"publishing", "renaming"}
                \/ target # <<>>) => row' \in Granted
  <2>1. Has(urgent'[AgentOf(Publisher)], Allowed) =>
          row' = "committed" \/ Has(urgent[AgentOf(Publisher)], Allowed)
    BY <1>1, RouterGrants DEF NoGrants, Allowed
  <2>2. "committed" \in Granted
    BY DEF Granted
  <2>3. QED
    BY <1>0, <1>3, <2>1, <2>2 DEF Grants
<1>5. flow'.phase = "deleting" \/ ticket'["delete"] # "none" =>
        shape.move /\ target # <<>> /\ worker["upload"] = "ended"
  <2>1. flow'.phase = "deleting" => flow.phase = "deleting" \/ Deletes
    BY <1>0 DEF RowStep, GoesOn, Begins, Admits, IsCanceled, Finishes, Remote
  <2>2. flow'.phase = "deleting" => shape.move /\ target # <<>> /\ worker["upload"] = "ended"
    BY <1>0, <2>1 DEF Grants, Deletes
  <2>3. ticket'["delete"] # "none" => ticket["delete"] # "none" \/ flow'.phase = "deleting"
    <3>1. ASSUME NEW new, TicketMove(new), "delete" \notin new
          PROVE  ticket'["delete"] # "none" => ticket["delete"] # "none"
      BY <1>1, <3>1 DEF TicketMove
    <3>2. \A r \in Requests : r # "delete" => "delete" \notin {r}
      OBVIOUS
    <3>3. "delete" \notin {} /\ "delete" \notin Hashes
      BY <1>1
    <3>4. Made("delete") => flow'.phase = "deleting"
      BY DEF Made
    <3>5. QED
      BY <1>0, <3>1, <3>2, <3>3, <3>4 DEF TicketStep
  <2>4. QED
    BY <1>0, <2>2, <2>3 DEF Grants
<1>6. row' = "completed" =>
        target # <<>> /\ worker[Publisher] = "ended" /\ (shape.move => source = "gone")
  BY <1>0 DEF Grants, RowStep, GoesOn, Begins, Admits, IsCanceled, Deletes, Finishes
<1>7. QED
  BY <1>0, <1>1, <1>2, <1>4, <1>5, <1>6 DEF Grants

\* The digests that count are of the segment that is compared.
LEMMA RouterKeepsVerified ==
  ASSUME CopyInvariant, RouterSteps
  PROVE  Verified'
<1>0. /\ UNCHANGED <<shape, partial>> /\ Verified /\ RowStep /\ CopyTypeOK /\ Tickets
      /\ Hashes = {"hashSource", "hashDest"} /\ Hashes \subseteq Requests
      /\ AgentOf("hashSource") = "source" /\ AgentOf("hashDest") = "dest"
      /\ "source" \in Agents /\ "dest" \in Agents
      /\ flow \in FlowType
  BY RouterLeaves, RouterRows, RouterFacts DEF CopyInvariant, Hashes, Requests, AgentOf, Agents, FlowType
<1>1. SUFFICES ASSUME flow'.phase = "verifying" PROVE Verified'
  BY DEF Verified
<1>2. /\ \A h \in Hashes, d \in Marks : Result(h, d)' => Result(h, d)
      /\ \A h \in Hashes : ~Answered(box[AgentOf(h)], h) => ~Answered(box'[AgentOf(h)], h)
  BY <1>0, SaysNoMore
<1>3. \A h \in Hashes, d \in Marks : Result(h, d) => worker[h] = "ended" /\ Answered(box[AgentOf(h)], h)
  <2>1. SUFFICES ASSUME NEW h \in Hashes, NEW d \in Marks, Result(h, d)
                 PROVE  worker[h] = "ended" /\ Answered(box[AgentOf(h)], h)
    OBVIOUS
  <2>2. PICK i \in DOMAIN box[AgentOf(h)] : box[AgentOf(h)][i] = Frame("result", h, d)
    BY <2>1 DEF Result, Has
  <2>3. Frame("result", h, d).kind = "result" /\ Frame("result", h, d).req = h
    BY DEF Frame
  <2>4. AgentOf(h) \in Agents
    BY DEF AgentOf, Agents
  <2>5. QED
    BY <2>2, <2>3, <2>4 DEF CopyInvariant, Results, Answered, IsResultOf
<1>4. CASE Keeps
  <2>1. UNCHANGED worker /\ flow'.offset = flow.offset /\ flow'.digest = flow.digest /\ shape.resume
    BY <1>1, <1>4 DEF Keeps
  <2>2. CASE flow.phase = "verifying"
    BY <1>0, <1>2, <2>1, <2>2 DEF Verified
  <2>3. CASE flow.phase # "verifying"
    <3>1. flow.phase = "none"
      BY <1>0, <1>1, <2>3 DEF RowStep, GoesOn, Begins, Admits, IsCanceled, Deletes, Finishes, RowPhases,
         CopyInvariant
    <3>2. \A h \in Hashes : worker[h] # "ended"
      BY <1>0, <3>1 DEF Tickets
    <3>3. flow.digest = [a \in Agents |-> "none"]
      BY <3>1 DEF CopyInvariant, RowPhases
    <3>4. QED
      BY <1>0, <1>2, <1>3, <2>1, <3>2, <3>3 DEF Verified
  <2>4. QED
    BY <2>2, <2>3
<1>5. ASSUME NEW r \in Hashes, NEW d \in Marks, HandleDigest(r, d) PROVE Verified'
  <2>0. /\ flow.phase = "verifying" /\ shape.resume
        /\ r = "hashSource" => d = "captured"
        /\ r = "hashDest" => flow.offset < Len(partial) /\ d = partial[flow.offset + 1]
        /\ r \in Requests /\ ResultOf(r, d) /\ worker[r] = "ended"
    BY <1>0, <1>5, DigestSteps, TakenResult DEF Verified, HandleDigest
  <2>1. CASE UNCHANGED worker /\ flow' = [flow EXCEPT !.digest[AgentOf(r)] = d]
    <3>1. /\ flow'.offset = flow.offset
          /\ \A a \in Agents : flow'.digest[a] = IF a = AgentOf(r) THEN d ELSE flow.digest[a]
      BY <1>0, <2>1 DEF FlowType
    <3>2. ~Answered(box'[AgentOf(r)], r)
      BY <2>0, TakenLeaves
    <3>3. \A h \in Hashes : h # r => AgentOf(h) # AgentOf(r) /\ AgentOf(h) \in Agents
      BY <1>0
    <3>4. \A h \in Hashes : flow'.digest[AgentOf(h)] # "none" =>
            worker'[h] = "ended" /\ ~Answered(box'[AgentOf(h)], h)
      BY <1>0, <1>2, <2>0, <2>1, <3>1, <3>2, <3>3 DEF Verified
    <3>5. flow'.digest["source"] \in {"none", "captured"}
      BY <1>0, <2>0, <3>1 DEF Verified
    <3>6. flow'.digest["dest"] # "none" =>
            flow.offset < Len(partial) /\ flow'.digest["dest"] = partial[flow.offset + 1]
      BY <1>0, <2>0, <3>1 DEF Verified
    <3>7. \A e \in Marks :
            /\ Result("hashSource", e)' => e = "captured"
            /\ Result("hashDest", e)' => flow.offset < Len(partial) /\ e = partial[flow.offset + 1]
      BY <1>0, <1>2, <2>0 DEF Verified
    <3>8. QED
      BY <1>0, <2>0, <3>1, <3>4, <3>5, <3>6, <3>7 DEF Verified
  <2>2. CASE /\ flow' = [flow EXCEPT !.offset = flow.offset + 1, !.digest = [a \in Agents |-> "none"]]
             /\ worker' = [q \in Requests |-> IF q \in Hashes THEN "absent" ELSE worker[q]]
    <3>1. flow'.digest = [a \in Agents |-> "none"]
      BY <1>0, <2>2 DEF FlowType
    <3>2. \A h \in Hashes : ~Answered(box'[AgentOf(h)], h)
      <4>1. worker' # worker
        BY <1>0, <2>0, <2>2
      <4>2. QED
        BY <4>1, RouterAsksAgain
    <3>3. \A h \in Hashes, e \in Marks : ~Result(h, e)'
      BY <3>2 DEF Result, Has, Answered, IsResultOf, Frame
    <3>4. QED
      BY <1>0, <2>0, <3>1, <3>3 DEF Verified
  <2>3. QED
    BY <1>1, <1>5, <2>1, <2>2, DigestSteps
<1>6. QED
  BY <1>4, <1>5, RouterKeeps

\* The verified prefix grows only by what was captured.
LEMMA RouterKeepsContents ==
  ASSUME CopyInvariant, RouterSteps
  PROVE  Contents'
<1>0. /\ UNCHANGED <<shape, source, target, partial, opened, sent, fin>> /\ Contents
      /\ \A r \in Requests \ Hashes : worker'[r] = worker[r]
      /\ flow \in FlowType
  BY RouterLeaves, RouterRows, RouterAsksAgain, RouterFacts DEF CopyInvariant, FlowType
<1>1. /\ worker'["upload"] = worker["upload"] /\ worker'["local"] = worker["local"]
      /\ worker'["download"] = worker["download"]
  BY <1>0 DEF Requests, Hashes
<1>2. ticket'["settle"] = "none" => ticket["settle"] = "none"
  <2>1. \A new : TicketMove(new) /\ ticket'["settle"] = "none" => ticket["settle"] = "none"
    BY DEF TicketMove, Requests
  <2>2. QED
    BY <2>1, RouterTickets DEF TicketStep
<1>3. (PublishedIsWhole' <=> PublishedIsWhole) /\ Pure' = Pure
  BY <1>0 DEF PublishedIsWhole, Whole, Pure
<1>4. CASE flow'.offset = flow.offset
  BY <1>0, <1>1, <1>2, <1>3, <1>4 DEF Contents, AllIn, Pure
<1>5. CASE flow'.offset = flow.offset + 1 /\ Matched /\ flow.phase = "verifying"
  <2>0. /\ flow.offset \in Nat /\ Len(partial) \in Nat /\ shape.resume
        /\ flow.offset < Len(partial) /\ partial[flow.offset + 1] = "captured"
        /\ worker["upload"] = "absent" /\ worker["download"] = "absent"
        /\ ~shape.local /\ ticket["settle"] = "none" /\ Segments \in Nat
    <3>1. Len(partial) \in Nat
      BY DEF CopyInvariant, CopyTypeOK, Absent
    <3>2. ticket["upload"] = "none" /\ ticket["download"] = "none" /\ ticket["settle"] = "none" /\ ~shape.local
      BY <1>5 DEF CopyInvariant, Tickets, Remote
    <3>3. worker["upload"] = "absent" /\ worker["download"] = "absent"
      BY <3>2 DEF CopyInvariant, Tickets, Requests
    <3>4. QED
      BY <1>0, <1>5, <3>1, <3>2, <3>3, CopyAssumption DEF CopyInvariant, Verified, Matched, FlowType
  <2>1. flow.offset + 1 <= Len(partial) /\ flow.offset + 1 <= Segments
    BY <1>0, <2>0 DEF Contents
  <2>2. \A i \in 1 .. flow.offset + 1 : partial[i] = "captured"
    <3>1. \A i \in 1 .. flow.offset : partial[i] = "captured"
      BY <1>0, <2>0 DEF Contents
    <3>2. \A i \in 1 .. flow.offset + 1 : i \in 1 .. flow.offset \/ i = flow.offset + 1
      BY <2>0
    <3>3. QED
      BY <2>0, <3>1, <3>2
  <2>3. QED
    BY <1>0, <1>1, <1>2, <1>3, <1>5, <2>0, <2>1, <2>2 DEF Contents, AllIn, Pure
<1>6. flow'.offset = flow.offset \/ (flow'.offset = flow.offset + 1 /\ Matched /\ flow.phase = "verifying")
  <2>1. CASE Keeps
    BY <2>1 DEF Keeps
  <2>2. ASSUME NEW r \in Hashes, NEW d \in Marks, HandleDigest(r, d)
        PROVE  flow'.offset = flow.offset \/ (flow'.offset = flow.offset + 1 /\ Matched /\ flow.phase = "verifying")
    <3>1. flow' = [flow EXCEPT !.digest[AgentOf(r)] = d] => flow'.offset = flow.offset
      BY <1>0 DEF FlowType
    <3>2. flow' = [flow EXCEPT !.offset = flow.offset + 1, !.digest = [a \in Agents |-> "none"]]
            => flow'.offset = flow.offset + 1
      BY <1>0 DEF FlowType
    <3>3. QED
      BY <2>2, <3>1, <3>2, DigestSteps
  <2>3. QED
    BY <2>1, <2>2, RouterKeeps
<1>7. QED
  BY <1>4, <1>5, <1>6

\* The router keeps the invariant.
LEMMA RouterKeepsInvariant ==
  ASSUME CopyInvariant, RouterSteps
  PROVE  CopyInvariant'
<1>1. Tickets'
  BY RouterTickets, RouterRows, TicketStepKeepsTickets
<1>2. RowPhases'
  BY RouterRows, RowStepKeepsRows
<1>3. Removal'
  <2>1. /\ UNCHANGED <<source, target>>
        /\ \A r \in Requests \ Hashes : worker'[r] = worker[r]
    BY RouterLeaves, RouterAsksAgain
  <2>2. {"delete", "local"} \subseteq Requests \ Hashes
    BY DEF Requests, Hashes
  <2>3. QED
    BY <2>1, <2>2 DEF CopyInvariant, Removal, Removing, Whole
<1>4. QED
  BY <1>1, <1>2, <1>3, RouterKeepsTypes, RouterKeepsResults, RouterKeepsGrants, RouterKeepsVerified,
     RouterKeepsContents DEF CopyInvariant

-----------------------------------------------------------------------------
(* The network and the start *)

\* A connection that breaks loses the end of a queue and leaves a notice; one that
\* returns brings nothing.
LEMMA NetLeaves ==
  ASSUME CopyInvariant, NetSteps
  PROVE  /\ UNCHANGED <<shape, source, target, partial, durable, flow, row, pausable, pause,
                        ticket, urgent, withdrawn, worker, token, reason, opened, sent, fin>>
         /\ conn' \in [Agents -> {"up", "broken", "gone"}] /\ linked' \in [Agents -> BOOLEAN]
         /\ losses' \in 0 .. MaxLosses /\ trouble' \in {"none", "fallback", "real"}
         /\ box' \in [Agents -> Seq(Frames)]
         /\ \A a \in Agents : \A i \in DOMAIN box'[a] :
              \/ i \in DOMAIN box[a] /\ box'[a][i] = box[a][i]
              \/ box'[a][i] = Frame("lost", "none", "none")
<1> USE DEF fileVars, rowVars, laneVars, workVars, netVars
<1>0. /\ box \in [Agents -> Seq(Frames)] /\ conn \in [Agents -> {"up", "broken", "gone"}]
      /\ linked \in [Agents -> BOOLEAN] /\ losses \in 0 .. MaxLosses /\ MaxLosses \in Nat
      /\ trouble \in {"none", "fallback", "real"}
  BY CopyAssumption DEF CopyInvariant, CopyTypeOK
<1>1. ASSUME NEW b \in Agents, Reconnect(b)
      PROVE  /\ UNCHANGED <<shape, source, target, partial, durable, flow, row, pausable, pause,
                            ticket, urgent, withdrawn, worker, token, reason, opened, sent, fin>>
             /\ UNCHANGED <<box, losses, trouble>>
             /\ conn' = [conn EXCEPT ![b] = "up"] /\ linked' = [linked EXCEPT ![b] = TRUE]
  BY <1>1 DEF Reconnect
<1>2. ASSUME NEW b \in Agents, Disconnect(b)
      PROVE  /\ UNCHANGED <<shape, source, target, partial, durable, flow, row, pausable, pause,
                            ticket, urgent, withdrawn, worker, token, reason, opened, sent, fin>>
             /\ UNCHANGED linked /\ losses' = losses + 1 /\ losses < MaxLosses /\ trouble' = "real"
             /\ conn' = [conn EXCEPT ![b] = "broken"]
             /\ \E n \in 0 .. Len(box[b]) :
                  box' = [box EXCEPT ![b] = Append(Prefix(@, n), Frame("lost", "none", "none"))]
  BY <1>2 DEF Disconnect, Hindered
<1>3. ASSUME NEW b \in Agents, NEW n \in 0 .. Len(box[b]),
             box' = [box EXCEPT ![b] = Append(Prefix(@, n), Frame("lost", "none", "none"))]
      PROVE  /\ box' \in [Agents -> Seq(Frames)]
             /\ \A a \in Agents : \A i \in DOMAIN box'[a] :
                  \/ i \in DOMAIN box[a] /\ box'[a][i] = box[a][i]
                  \/ box'[a][i] = Frame("lost", "none", "none")
  <2>1. Frame("lost", "none", "none") \in Frames
    BY NoticeTyped
  <2>2. /\ Prefix(box[b], n) \in Seq(Frames)
        /\ \A i \in DOMAIN Prefix(box[b], n) : i \in DOMAIN box[b] /\ Prefix(box[b], n)[i] = box[b][i]
    BY <1>0 DEF Prefix
  <2>3. /\ Append(Prefix(box[b], n), Frame("lost", "none", "none")) \in Seq(Frames)
        /\ \A i \in DOMAIN Append(Prefix(box[b], n), Frame("lost", "none", "none")) :
             \/ /\ i \in DOMAIN box[b]
                /\ Append(Prefix(box[b], n), Frame("lost", "none", "none"))[i] = box[b][i]
             \/ Append(Prefix(box[b], n), Frame("lost", "none", "none"))[i] = Frame("lost", "none", "none")
    BY <2>1, <2>2, AddedFrame
  <2>4. \A a \in Agents : box'[a] = IF a = b THEN Append(Prefix(box[b], n), Frame("lost", "none", "none"))
                                    ELSE box[a]
    BY <1>0, <1>3
  <2>5. box' \in [Agents -> Seq(Frames)]
    BY <1>0, <1>3, <2>3
  <2>6. QED
    BY <2>3, <2>4, <2>5
<1>4. CASE \E b \in Agents : Reconnect(b)
  BY <1>0, <1>1, <1>4
<1>5. CASE \E b \in Agents : Disconnect(b)
  <2>1. PICK b \in Agents : Disconnect(b)
    BY <1>5
  <2>2. losses' \in 0 .. MaxLosses
    BY <1>0, <1>2, <2>1
  <2>3. conn' \in [Agents -> {"up", "broken", "gone"}] /\ linked' \in [Agents -> BOOLEAN]
    BY <1>0, <1>2, <2>1
  <2>4. QED
    BY <1>2, <1>3, <2>1, <2>2, <2>3
<1>6. QED
  BY <1>4, <1>5 DEF NetSteps

\* So it keeps the invariant.
LEMMA NetKeepsInvariant ==
  ASSUME CopyInvariant, NetSteps
  PROVE  CopyInvariant'
<1>0. /\ Frame("lost", "none", "none").kind = "lost"
      /\ \A r, out : Frame("lost", "none", "none") # Frame("result", r, out)
  BY DEF Frame
<1>1. CopyTypeOK'
  BY NetLeaves DEF CopyInvariant, CopyTypeOK
<1>2. Tickets' /\ RowPhases'
  BY NetLeaves DEF CopyInvariant, Tickets, RowPhases
<1>3. ASSUME NEW r \in Requests
      PROVE  /\ \A out : Result(r, out)' => Result(r, out)
             /\ Answered(box'[AgentOf(r)], r) => Answered(box[AgentOf(r)], r)
  <2>1. AgentOf(r) \in Agents
    BY DEF AgentOf, Agents
  <2>2. QED
    BY <1>0, <2>1, NetLeaves DEF Result, Has, Answered, IsResultOf
<1>4. Results'
  <2>1. Results /\ UNCHANGED <<shape, source, target, worker>>
    BY NetLeaves DEF CopyInvariant
  <2>2. ASSUME NEW a \in Agents, NEW i \in DOMAIN box'[a]
        PROVE  /\ box'[a][i].kind = "result" =>
                    /\ AgentOf(box'[a][i].req) = a
                    /\ worker'[box'[a][i].req] = "ended"
                    /\ \A j \in DOMAIN box'[a] : IsResultOf(box'[a][j], box'[a][i].req) => i = j
               /\ box'[a][i].kind = "verifying" => shape'.file
    <3>1. \A j \in DOMAIN box'[a] : box'[a][j].kind = "lost" \/ (j \in DOMAIN box[a] /\ box'[a][j] = box[a][j])
      BY <1>0, NetLeaves
    <3>2. CASE box'[a][i].kind = "lost"
      BY <3>2
    <3>3. CASE i \in DOMAIN box[a] /\ box'[a][i] = box[a][i]
      <4>1. \A j \in DOMAIN box'[a] : IsResultOf(box'[a][j], box'[a][i].req) =>
              j \in DOMAIN box[a] /\ IsResultOf(box[a][j], box[a][i].req)
        BY <3>1, <3>3 DEF IsResultOf
      <4>2. QED
        BY <2>1, <3>3, <4>1 DEF Results
    <3>4. QED
      BY <3>1, <3>2, <3>3
  <2>3. {"upload", "delete", "local"} \subseteq Requests
    BY DEF Requests
  <2>4. /\ Result("upload", "ok")' => Result("upload", "ok")
        /\ Result("delete", "ok")' => Result("delete", "ok")
        /\ Result("local", "ok")' => Result("local", "ok")
    BY <1>3, <2>3
  <2>5. QED
    BY <2>1, <2>2, <2>4 DEF Results
<1>5. Grants'
  BY NetLeaves DEF CopyInvariant, Grants, Gated, Publisher, Allowed
<1>6. Verified'
  <2>1. Verified /\ UNCHANGED <<shape, flow, worker, partial>>
    BY NetLeaves DEF CopyInvariant
  <2>2. {"hashSource", "hashDest"} = Hashes /\ Hashes \subseteq Requests
    BY DEF Hashes, Requests
  <2>3. QED
    BY <1>3, <2>1, <2>2 DEF Verified
<1>7. Contents' /\ Removal'
  BY NetLeaves DEF CopyInvariant, Contents, AllIn, Pure, PublishedIsWhole, Whole, Removal,
       Removing
<1>8. QED
  BY <1>1, <1>2, <1>4, <1>5, <1>6, <1>7 DEF CopyInvariant

\* A step that changes nothing keeps it, too.
LEMMA StutterKeepsInvariant ==
  ASSUME CopyInvariant, UNCHANGED vars
  PROVE  CopyInvariant'
<1> USE DEF vars, fileVars, rowVars, laneVars, workVars, netVars
<1>1. CopyTypeOK' /\ Tickets' /\ RowPhases'
  BY DEF CopyInvariant, CopyTypeOK, Tickets, RowPhases
<1>2. Results' /\ Verified'
  BY DEF CopyInvariant, Results, Verified, Result, Has
<1>3. Grants' /\ Contents' /\ Removal'
  BY DEF CopyInvariant, Grants, Gated, Publisher, Allowed, Contents, AllIn, Pure,
       PublishedIsWhole, Whole, Removal, Removing
<1>4. QED
  BY <1>1, <1>2, <1>3 DEF CopyInvariant

\* What earlier attempts left is a sequence of at most as many segments.
LEMMA LeftoverTyped ==
  ASSUME NEW p \in Leftovers
  PROVE  p \in Seq(Marks) /\ Len(p) \in 1 .. Segments
<1>1. PICK n \in 1 .. Segments : p \in [1 .. n -> {"captured", "torn"}]
  BY DEF Leftovers
<1>2. n \in Nat /\ {"captured", "torn"} \subseteq Marks
  BY <1>1, CopyAssumption DEF Marks, Versions
<1>3. p \in Seq(Marks) /\ Len(p) = n
  BY <1>1, <1>2
<1>4. QED
  BY <1>3

\* The invariant holds before a copy starts.
LEMMA InitKeepsInvariant ==
  ASSUME CopyInit
  PROVE  CopyInvariant
<1>0. Segments \in Nat \ {0} /\ MaxLosses \in Nat
  BY CopyAssumption
<1>1. /\ partial = Absent \/ (partial \in Seq(Marks) /\ Len(partial) \in 1 .. Segments)
      /\ shape.resume => partial # Absent /\ shape.file
  BY LeftoverTyped DEF CopyInit
<1>2. Len(Absent) = 1
  BY DEF Absent
<1>3. Len(partial) \in 1 .. Segments
  <2>1. 1 \in 1 .. Segments
    BY <1>0
  <2>2. CASE partial = Absent
    BY <1>2, <2>1, <2>2
  <2>3. CASE partial # Absent
    BY <1>1, <2>3
  <2>4. QED
    BY <2>2, <2>3
<1>4. CopyTypeOK
  <2>1. flow \in FlowType
    BY DEF CopyInit, FlowType, Phases, Marks
  <2>2. /\ <<>> \in Seq(Marks) /\ <<>> \in Seq(Urgents) /\ <<>> \in Seq(Frames)
    OBVIOUS
  <2>3. /\ target \in Seq(Marks) /\ urgent \in [Agents -> Seq(Urgents)] /\ box \in [Agents -> Seq(Frames)]
    BY <2>2 DEF CopyInit
  <2>4. /\ source \in Versions \cup {"gone"} /\ opened \in Versions /\ sent \in 0 .. Segments
        /\ losses \in 0 .. MaxLosses
    BY <1>0 DEF CopyInit, Versions
  <2>5. /\ ticket \in [Requests -> {"none", "queued", "written", "withdrawn"}] /\ withdrawn \subseteq Requests
        /\ worker \in [Requests -> Steps] /\ token \in [Requests -> BOOLEAN] /\ reason \in [Requests -> Reasons]
        /\ conn \in [Agents -> {"up", "broken", "gone"}] /\ linked \in [Agents -> BOOLEAN]
    BY DEF CopyInit, Steps, Reasons
  <2>6. /\ durable \in BOOLEAN /\ pausable \in BOOLEAN /\ fin \in BOOLEAN
        /\ pause \in {"none", "asked", "ok", "refused"} /\ row \in Rows
        /\ trouble \in {"none", "fallback", "real"}
    BY DEF CopyInit, Rows
  <2>7. shape \in [move : BOOLEAN, local : BOOLEAN, file : BOOLEAN, resume : BOOLEAN]
    BY DEF CopyInit
  <2>8. QED
    BY <1>1, <2>1, <2>3, <2>4, <2>5, <2>6, <2>7 DEF CopyTypeOK, FlowType
<1>5. /\ flow.phase = "none" /\ flow.digest = [a \in Agents |-> "none"] /\ flow.offset = 0
      /\ row = "none" /\ ~pausable /\ pause = "none" /\ withdrawn = {}
      /\ target = <<>> /\ source = "captured" /\ opened = "captured" /\ sent = 0 /\ ~fin
      /\ urgent = [a \in Agents |-> <<>>] /\ box = [a \in Agents |-> <<>>]
      /\ \A r \in Requests : ticket[r] = "none" /\ worker[r] = "absent"
  BY DEF CopyInit
<1>6. \A r \in Requests : AgentOf(r) \in Agents
  BY DEF AgentOf, Agents
<1>7. {"upload", "local", "download", "delete", "settle"} \subseteq Requests
  BY DEF Requests
<1>8. Tickets
  BY <1>5, <1>7 DEF Tickets, Remote
<1>9. RowPhases
  BY <1>5 DEF RowPhases, Final
<1>10. \A a \in Agents : DOMAIN box[a] = {} /\ DOMAIN urgent[a] = {}
  BY <1>5
<1>11. Results
  BY <1>6, <1>7, <1>10 DEF Results, Result, Has
<1>12. Publisher \in {"upload", "local"}
  BY DEF Publisher
<1>13. Grants
  BY <1>5, <1>6, <1>7, <1>10, <1>12 DEF Grants, Has
<1>14. Verified
  BY <1>5 DEF Verified
<1>15. Contents
  BY <1>0, <1>1, <1>3, <1>5, <1>7 DEF Contents, PublishedIsWhole, Pure
<1>16. Removal
  BY <1>5, <1>7 DEF Removal, Removing
<1>17. QED
  BY <1>4, <1>8, <1>9, <1>11, <1>13, <1>14, <1>15, <1>16 DEF CopyInvariant

-----------------------------------------------------------------------------
(* What holds of every copy *)

\* Every step keeps the invariant.
LEMMA StepKeepsInvariant ==
  ASSUME CopyInvariant, [CopyNext]_vars
  PROVE  CopyInvariant'
  BY StepKinds, AgentsKeepInvariant, RouterKeepsInvariant, NetKeepsInvariant, StutterKeepsInvariant

\* The invariant: commands, rows, results, grants, digests and files fit each
\* other in every state.
THEOREM CopyInvariantHolds == CopySpec => []CopyInvariant
<1>1. CopyInit => CopyInvariant
  BY InitKeepsInvariant
<1>2. CopyInvariant /\ [CopyNext]_vars => CopyInvariant'
  BY StepKeepsInvariant
<1>3. QED
  BY <1>1, <1>2, PTL DEF CopySpec

\* The state of the router, the lanes and the agents keeps its shape for any
\* number of segments and any number of lost connections.
THEOREM CopyTypesHold == CopySpec => []CopyTypeOK
<1>1. CopyInvariant => CopyTypeOK
  BY DEF CopyInvariant
<1>2. QED
  BY <1>1, CopyInvariantHolds, PTL

\* Whatever an earlier attempt left in the partial, whoever replaces the source and
\* whichever connection is lost: a file is published as one version, entirely, and a
\* directory with all its entries and none of them torn.
THEOREM PublishedStaysWhole == CopySpec => []PublishedIsWhole
<1>1. CopyInvariant => PublishedIsWhole
  BY DEF CopyInvariant, Contents
<1>2. QED
  BY <1>1, CopyInvariantHolds, PTL

\* The version that a move removes is at the destination, entirely, unless it took
\* the path after the removal had looked there and found the published one.
THEOREM MovesLoseNothing == CopySpec => NothingLost
<1>1. CopyInvariant /\ [CopyNext]_vars =>
        [source # "gone" /\ source' = "gone" => target' = Whole(source) \/ source = "late"]_vars
  <2>1. SUFFICES ASSUME CopyInvariant, CopyNext
                 PROVE  source # "gone" /\ source' = "gone" =>
                          target' = Whole(source) \/ source = "late"
    OBVIOUS
  <2>2. AgentSteps => (source # "gone" /\ source' = "gone" =>
                         target' = Whole(source) \/ source = "late")
    BY <2>1, SourceChanges
  <2>3. RouterSteps \/ NetSteps => UNCHANGED source
    BY <2>1, RouterLeaves, NetLeaves
  <2>4. QED
    BY <2>1, <2>2, <2>3, StepKinds
<1>2. QED
  BY <1>1, CopyInvariantHolds, PTL DEF CopySpec, NothingLost

\* The row as the user sees it, before and after a step of the router.
LEMMA RowStepIsPromised ==
  ASSUME CopyInvariant, RowStep, UNCHANGED <<shape, source, target>>
  PROVE  [Promise!PromiseNext]_(Promise!promiseVars)
<1>0. /\ RowPhases /\ row \in Rows /\ (Gated /\ target # <<>> => row \in Granted)
      /\ flow.phase \in Remote => ~shape.local
      /\ Remote = {"awaiting", "streaming", "canceling"}
  BY RouterFacts DEF CopyInvariant, Tickets
<1> DEFINE report == IF row = "forgotten" THEN "paused" ELSE row
<1>1. /\ UNCHANGED <<shape.move, shape.file \/ ~shape.local, source # "gone", target # <<>>>>
  OBVIOUS
<1>2. ASSUME NEW from, NEW to, report \in from, report' = to
      PROVE  Promise!Reports(from, to)
  BY <1>1, <1>2 DEF Promise!Reports, Promise!paths
<1>3. CASE row' = row
  BY <1>1, <1>3 DEF Promise!promiseVars
<1>4. CASE Begins
  <2>1. Promise!Begin
    BY <1>2, <1>4 DEF Begins, Promise!Begin
  <2>2. QED
    BY <2>1 DEF Promise!PromiseNext
<1>5. CASE Admits
  <2>1. Promise!Admit
    BY <1>2, <1>5 DEF Admits, Promise!Admit
  <2>2. QED
    BY <2>1 DEF Promise!PromiseNext
<1>6. CASE IsCanceled
  <2>1. Promise!Cancel
    BY <1>2, <1>6 DEF IsCanceled, Promise!Cancel
  <2>2. QED
    BY <2>1 DEF Promise!PromiseNext
<1>7. CASE Deletes
  <2>1. Gated /\ row \in {"active", "committed"}
    BY <1>0, <1>7 DEF Deletes, RowPhases, Gated
  <2>2. row' = row
    BY <1>0, <1>7, <2>1 DEF Deletes, Granted
  <2>3. QED
    BY <1>3, <2>2
<1>8. CASE Finishes
  <2>1. row \in {"none", "active", "committed", "canceling"}
    BY <1>0, <1>8 DEF Finishes, RowPhases, Final, Rows
  <2>2. CASE row' = "errored"
    <3>1. Promise!Failed
      BY <1>2, <2>1, <2>2 DEF Promise!Failed
    <3>2. QED
      BY <3>1 DEF Promise!PromiseNext
  <2>3. CASE row = "canceling" /\ row' = "canceled"
    <3>1. Gated => target = <<>>
      BY <1>0, <2>3 DEF Granted
    <3>2. Promise!Canceled
      BY <1>2, <2>3, <3>1 DEF Promise!Canceled, Gated
    <3>3. QED
      BY <3>2 DEF Promise!PromiseNext
  <2>4. CASE row = "canceling" /\ row' = "forgotten" /\ pause = "asked"
    <3>1. Gated /\ target = <<>>
      BY <1>0, <2>4 DEF Granted, Gated, RowPhases
    <3>2. Promise!Paused
      BY <1>2, <2>4, <3>1 DEF Promise!Paused
    <3>3. QED
      BY <3>2 DEF Promise!PromiseNext
  <2>5. CASE row # "none" /\ row' = "completed" /\ target # <<>> /\ (shape.move => source = "gone")
    <3>1. Promise!Complete
      BY <1>2, <2>1, <2>5 DEF Promise!Complete
    <3>2. QED
      BY <3>1 DEF Promise!PromiseNext
  <2>6. QED
    BY <1>8, <2>2, <2>3, <2>4, <2>5 DEF Finishes
<1>9. QED
  BY <1>3, <1>4, <1>5, <1>6, <1>7, <1>8 DEF RowStep, GoesOn

\* What the agents do to the two paths.
LEMMA AgentsArePromised ==
  ASSUME CopyInvariant, AgentSteps
  PROVE  [Promise!PromiseNext]_(Promise!promiseVars)
<1>0. UNCHANGED <<shape, row>>
  BY AgentsDecideNothing
<1>1. /\ UNCHANGED <<shape.move, shape.file \/ ~shape.local, IF row = "forgotten" THEN "paused" ELSE row>>
  BY <1>0
<1>2. Grants /\ RowPhases /\ Tickets
  BY DEF CopyInvariant
<1>3. ASSUME target' # target
      PROVE  /\ target = <<>> /\ target' # <<>> /\ source # "gone"
             /\ Gated => row \in {"committed", "errored"}
             /\ row \notin {"none", "completed", "forgotten"}
  <2>1. target = <<>> /\ target' # <<>> /\ worker[Publisher] \in {"publishing", "renaming"}
    BY <1>3, TargetChanges
  <2>2. Gated => row \in Granted
    BY <1>2, <2>1 DEF Grants
  <2>3. row # "completed" /\ source # "gone"
    BY <1>2, <2>1 DEF Grants
  <2>4. row # "forgotten"
    BY <1>2, <2>2 DEF RowPhases, Granted, Gated
  <2>5. row # "none"
    BY <1>2, <2>1 DEF RowPhases, Tickets, Publisher, Requests
  <2>6. QED
    BY <2>1, <2>2, <2>3, <2>4, <2>5 DEF Granted
<1>4. CASE target' = target /\ ((source' = "gone") <=> (source = "gone"))
  BY <1>1, <1>4 DEF Promise!promiseVars
<1>5. CASE target' # target /\ ((source' = "gone") <=> (source = "gone"))
  <2>1. /\ (target # <<>>)' = TRUE /\ ~(target # <<>>)
        /\ (source # "gone")' = (source # "gone")
    BY <1>3, <1>5
  <2>3. Promise!MayPublish
    BY <1>3, <1>5 DEF Promise!MayPublish, Gated
  <2>4. (IF row = "forgotten" THEN "paused" ELSE row) \notin {"completed", "paused"}
    <3>1. row \in Rows
      BY RouterFacts
    <3>2. QED
      BY <1>3, <1>5, <3>1 DEF Rows
  <2>5. Promise!Publish
    BY <1>1, <2>1, <2>3, <2>4, Zenon DEF Promise!Publish
  <2>2. QED
    BY <2>5 DEF Promise!PromiseNext
<1>6. CASE ~((source' = "gone") <=> (source = "gone"))
  <2>1. source # "gone" /\ source' = "gone" /\ shape.move /\ target' # <<>>
    BY <1>6, SourceChanges
  <2>2. CASE target' # target
    <3>1. /\ (target # <<>>)' = TRUE /\ ~(target # <<>>)
          /\ (source # "gone")' = FALSE /\ source # "gone"
      BY <1>3, <2>1, <2>2
    <3>2. Promise!MayPublish
      BY <1>3, <2>2 DEF Promise!MayPublish, Gated
    <3>3. (IF row = "forgotten" THEN "paused" ELSE row) \notin {"completed", "paused"}
      <4>1. row \in Rows
        BY RouterFacts
      <4>2. QED
        BY <1>3, <2>2, <4>1 DEF Rows
    <3>4. Promise!Remove
      BY <1>1, <2>1, <3>1, <3>2, <3>3, Zenon DEF Promise!Remove
    <3>5. QED
      BY <3>4 DEF Promise!PromiseNext
  <2>3. CASE target' = target
    <3>1. target # <<>>
      BY <2>1, <2>3
    <3>2. row # "completed" /\ row # "forgotten"
      BY <1>2, <2>1, <3>1 DEF Grants, RowPhases, Granted, Gated
    <3>3. /\ target # <<>> /\ (target # <<>>)' = (target # <<>>)
          /\ (source # "gone")' = FALSE /\ source # "gone"
      BY <2>1, <2>3, <3>1
    <3>4. (IF row = "forgotten" THEN "paused" ELSE row) \notin {"completed", "paused"}
      <4>1. row \in Rows
        BY RouterFacts
      <4>2. QED
        BY <3>2, <4>1 DEF Rows
    <3>5. Promise!Remove
      BY <1>1, <2>1, <3>3, <3>4, Zenon DEF Promise!Remove
    <3>6. QED
      BY <3>5 DEF Promise!PromiseNext
  <2>4. QED
    BY <2>2, <2>3
<1>7. QED
  BY <1>4, <1>5, <1>6

\* Every step of a copy is promised.
LEMMA StepKeepsPromise ==
  ASSUME CopyInvariant, [CopyNext]_vars
  PROVE  [Promise!PromiseNext]_(Promise!promiseVars)
<1>1. UNCHANGED <<shape, source, target, row>> => [Promise!PromiseNext]_(Promise!promiseVars)
  BY DEF Promise!promiseVars
<1>2. RouterSteps => [Promise!PromiseNext]_(Promise!promiseVars)
  BY RouterRows, RouterLeaves, RowStepIsPromised
<1>3. NetSteps => UNCHANGED <<shape, source, target, row>>
  BY NetLeaves
<1>4. UNCHANGED vars => UNCHANGED <<shape, source, target, row>>
  BY DEF vars, fileVars, rowVars
<1>5. QED
  BY <1>1, <1>2, <1>3, <1>4, AgentsArePromised, StepKinds

\* A copy starts as promised.
LEMMA InitKeepsPromise ==
  ASSUME CopyInit
  PROVE  Promise!PromiseInit
<1>1. shape \in [move : BOOLEAN, local : BOOLEAN, file : BOOLEAN, resume : BOOLEAN]
  BY DEF CopyInit
<1>2. shape.move \in BOOLEAN /\ (shape.file \/ ~shape.local) \in BOOLEAN
  BY <1>1
<1>3. source # "gone" /\ target = <<>> /\ row = "none"
  BY DEF CopyInit
<1>4. QED
  BY <1>2, <1>3 DEF Promise!PromiseInit

\* The row of a copy tells the truth about the two paths: every copy and every
\* move, between agents or on one, implements CopyPromise.
THEOREM CopiesKeepPromise == CopySpec => KeepsPromise
<1>1. CopyInit => Promise!PromiseInit
  BY InitKeepsPromise
<1>2. CopyInvariant /\ [CopyNext]_vars => [Promise!PromiseNext]_(Promise!promiseVars)
  BY StepKeepsPromise
<1>3. QED
  BY <1>1, <1>2, CopyInvariantHolds, PTL DEF CopySpec, KeepsPromise, Promise!PromiseSpec

----------------------------------------------------------------
(* Why a copy ends *)

\* The router learns that a worker is done: it says so, or never began.
Heard(r, out) == ResultOf(r, out) \/ (r \in withdrawn /\ out = "error")

WorkerOf(side) == IF side = "source" THEN "download" ELSE "upload"

\* A side of a canceled copy is done; a pause is only acknowledged as one.
HeardOf(side) ==
  \E out : /\ Heard(WorkerOf(side), out)
           /\ side = "dest" /\ pause = "asked" => out = "paused"

AckStep ==
  \/ flow'.acked = flow.acked
  \/ flow.phase \in Remote /\ flow'.phase = "canceling" /\ flow'.acked = {}
  \/ /\ flow.phase \in Remote /\ flow'.phase = "canceling" /\ flow'.acked = {"source"}
     /\ flow.sourceFinished \/ flow.phase = "awaiting"
  \/ /\ flow.phase = "canceling" /\ flow'.phase = "canceling"
     /\ \E side \in Agents : HeardOf(side) /\ flow'.acked = flow.acked \cup {side}

SourceStep ==
  flow'.sourceFinished # flow.sourceFinished =>
    /\ flow.phase \in {"streaming", "canceling"}
    /\ \E out : Heard("download", out)

EndStep ==
  row' # row /\ row' \in {"canceled", "forgotten"} =>
    \/ \E a \in Agents : HandleLost(a) /\ row' = "canceled"
    \/ /\ flow.phase = "canceling"
       /\ \E side \in Agents : HeardOf(side) /\ flow.acked \cup {side} = Agents
    \/ /\ flow.phase = "settling" /\ ResultOf("settle", "ok")
       /\ row' = "forgotten" => pause = "asked"
    \/ /\ flow.phase = "local"
       /\ \E out : Heard("local", out) /\ (row' = "forgotten" => out = "paused")

\* What a copy is reported as failed for.
ErrorStep ==
  row' # row /\ row' = "errored" =>
    \/ trouble' = "real" \/ pause' = "refused"
    \/ \E a \in Agents : HandleLost(a)
    \/ \E h \in Hashes : \E out : Heard(h, out) /\ out \notin Marks /\ flow.phase = "verifying"
    \/ \E r \in {"upload", "download"} : \E out :
         Heard(r, out) /\ out # "ok" /\ flow.phase \in {"awaiting", "streaming"}
    \/ \E out : Heard("local", out) /\ out # "ok" /\ row # "canceling" /\ flow.phase = "local"
    \/ \E r \in {"settle", "delete"} : \E out : Heard(r, out) /\ (out # "ok" \/ flow.failure)

SettleStep ==
  \/ /\ flow'.settle = flow.settle /\ flow'.failure = flow.failure
     /\ flow'.phase = "settling" => flow.phase = "settling"
  \/ /\ flow.phase = "verifying" /\ flow'.phase = "settling"
     /\ \/ flow'.settle = "persist" /\ pause' = "asked" /\ ~flow'.failure
        \/ flow'.settle = "delete" /\ UNCHANGED pause
     /\ flow'.failure => UNCHANGED row /\ \E h \in Hashes : Heard(h, "changed")
  \/ /\ flow'.phase = "settled" /\ flow'.settle = flow.settle
     /\ row' = "errored" /\ trouble' = "real"

CommitStep ==
  row' # row /\ row' = "committed" =>
    \/ \E a \in Agents : HandlePublishRequest(a)
    \/ worker["upload"] = "ended" /\ ~shape.local

FlowStep == AckStep /\ SourceStep /\ EndStep /\ ErrorStep /\ SettleStep /\ CommitStep

\* Every step of the router has one of these causes.
LEMMA RouterFlow ==
  ASSUME CopyInvariant, RouterSteps
  PROVE  FlowStep
<1> USE DEF FlowStep, AckStep, SourceStep, EndStep, ErrorStep, SettleStep, CommitStep
<1>0. flow \in FlowType /\ RowPhases /\ "settle" \in Requests
      /\ (pause = "asked" => row = "canceling")
  BY RouterFacts DEF FlowType, RowPhases, Requests
<1>1. Start => FlowStep
  BY <1>0 DEF Start, FlowType
<1>2. StartRefused => FlowStep
  BY <1>0 DEF StartRefused, Ends, FlowType, Hindered
<1>3. ASSUME NEW failure \in BOOLEAN, NEW asked \in BOOLEAN, SettleVerifying(failure, asked),
             flow.phase = "verifying", failure => ~asked /\ \E h \in Hashes : Heard(h, "changed")
      PROVE  FlowStep
  <2>1. PICK queued \in BOOLEAN :
         IF queued
         THEN /\ flow' = [flow EXCEPT !.phase = "settling", !.failure = failure,
                                     !.settle = IF asked THEN "persist" ELSE "delete"]
              /\ pause' = IF asked THEN "asked" ELSE pause
              /\ row' = IF failure THEN row ELSE "canceling"
         ELSE /\ SettlementNotQueued(failure, asked) /\ Hindered
    BY <1>3 DEF SettleVerifying
  <2>2. CASE queued
    BY <1>0, <1>3, <2>1, <2>2 DEF FlowType
  <2>3. CASE ~queued
    BY <1>0, <2>1, <2>3 DEF FlowType, SettlementNotQueued, Hindered
  <2>4. QED
    BY <2>2, <2>3
<1>4. ASSUME NEW why, CancelRemote(why), flow.phase \in Remote PROVE FlowStep
  BY <1>0, <1>4 DEF CancelRemote, FlowType
<1>5. UserCancel => FlowStep
  <2>1. ASSUME UserCancel
        PROVE  \/ flow.phase \in Remote /\ CancelRemote("canceled")
               \/ UNCHANGED flow /\ row' = "canceling"
               \/ flow.phase = "verifying" /\ SettleVerifying(FALSE, FALSE)
    BY <2>1 DEF UserCancel, CancelLocal
  <2>2. QED
    BY <1>3, <1>4, <2>1
<1>6. UserPause => FlowStep
  <2>1. ASSUME UserPause
        PROVE  \/ flow.phase \in Remote /\ CancelRemote("paused")
               \/ UNCHANGED flow /\ row' = "canceling"
               \/ flow.phase = "verifying" /\ SettleVerifying(FALSE, TRUE)
    BY <2>1 DEF UserPause, CancelLocal
  <2>2. QED
    BY <1>3, <1>4, <2>1
<1>7. ASSUME NEW r \in Hashes, NEW d \in Marks, HandleDigest(r, d) PROVE FlowStep
  <2>0. /\ flow.phase = "verifying" /\ row = "active"
    BY <1>0, <1>7 DEF HandleDigest, RowPhases
  <2>1. \/ flow' = [flow EXCEPT !.digest[AgentOf(r)] = d] /\ row' = row
        \/ Compared(d, flow.digest[Other(AgentOf(r))])
    BY <1>7 DEF HandleDigest
  <2>2. \A offset : NextSegment(offset) => FlowStep
    BY <1>0 DEF NextSegment, FlowType
  <2>3. NextSegmentNotQueued => FlowStep
    BY <1>0 DEF NextSegmentNotQueued, Ends, FlowType, Hindered
  <2>4. \A offset : StartRemote(offset) => FlowStep
    BY <1>0, <2>0 DEF StartRemote, FlowType, Hindered
  <2>5. QED
    BY <1>0, <2>1, <2>2, <2>3, <2>4 DEF Compared, FlowType
<1>8. ASSUME NEW r \in Hashes, NEW out, HandleHashFailure(r, out) PROVE FlowStep
  <2>2. out \notin Marks /\ Heard(r, out) /\ flow.phase = "verifying"
    BY <1>8 DEF HandleHashFailure, Heard, Marks, Versions
  <2>3. CASE EndFailed
    BY <1>0, <2>2, <2>3 DEF EndFailed, Ends, FlowType
  <2>4. CASE SettleVerifying(TRUE, FALSE)
    <3>1. Heard(r, "changed") \/ EndFailed
      BY <1>8 DEF HandleHashFailure, Heard
    <3>2. flow.phase = "verifying"
      BY <1>8 DEF HandleHashFailure
    <3>3. QED
      BY <1>3, <2>4, <2>3, <3>1, <3>2
  <2>5. QED
    BY <1>8, <2>3, <2>4 DEF HandleHashFailure
<1>9. ASSUME NEW out, HandleSettled(out) PROVE FlowStep
  <2>1. Heard("settle", out) /\ ResultOf("settle", out) /\ flow.phase = "settling"
        /\ FinishSettlement(out = "ok")
    BY <1>9 DEF HandleSettled, Heard
  <2>2. QED
    BY <1>0, <2>1 DEF FinishSettlement, Ends, FlowType
<1>10. HandleReady => FlowStep
  BY <1>0 DEF HandleReady, Ends, FlowType, Hindered
<1>11. ASSUME NEW side \in Agents, Acknowledge(side), flow.phase = "canceling", HeardOf(side)
       PROVE  FlowStep
  <2>1. \E out : Heard(WorkerOf(side), out)
    BY <1>11 DEF HeardOf
  <2>2. CASE flow.acked \cup {side} = Agents
    BY <1>0, <1>11, <2>2 DEF Acknowledge, Ends, FlowType
  <2>3. CASE flow.acked \cup {side} # Agents
    <3>1. /\ flow' = [flow EXCEPT !.acked = flow.acked \cup {side},
                                 !.sourceFinished = @ \/ side = "source"]
          /\ UNCHANGED <<row, pause>>
      BY <1>11, <2>3 DEF Acknowledge
    <3>2. side = "source" \/ flow'.sourceFinished = flow.sourceFinished
      BY <1>0, <3>1 DEF FlowType
    <3>3. SourceStep
      BY <1>11, <2>1, <3>2 DEF WorkerOf
    <3>4. AckStep
      BY <1>0, <1>11, <3>1 DEF FlowType
    <3>5. QED
      BY <1>0, <3>1, <3>3, <3>4 DEF FlowType
  <2>4. QED
    BY <2>2, <2>3
<1>12. ASSUME NEW out, SourceFinished(out), Heard("download", out), flow.phase \in {"streaming", "canceling"}
       PROVE  FlowStep
  <2>1. CASE flow.phase = "canceling"
    <3>1. HeardOf("source")
      BY <1>12 DEF HeardOf, WorkerOf
    <3>2. QED
      BY <1>11, <1>12, <2>1, <3>1 DEF SourceFinished, Agents
  <2>2. CASE flow.phase = "streaming" /\ out = "ok"
    BY <1>0, <1>12, <2>2 DEF SourceFinished, FlowType
  <2>3. CASE flow.phase = "streaming" /\ out # "ok"
    BY <1>0, <1>12, <2>3 DEF SourceFinished, Ends, FlowType
  <2>4. QED
    BY <1>12, <2>1, <2>2, <2>3
<1>13. ASSUME NEW out, DestinationFinished(out), Heard("upload", out), flow.phase \in Remote
       PROVE  FlowStep
  <2>1. CASE pause = "asked" /\ out # "paused"
    BY <1>0, <1>13, <2>1 DEF DestinationFinished, EndFailed, Ends, FlowType
  <2>2. CASE BeginDeletion /\ out = "ok"
    <3>1. ResultOf("upload", out)
      BY <1>13, <2>2 DEF Heard
    <3>2. worker["upload"] = "ended" /\ ~shape.local
      BY <1>13, <3>1, TakenResult DEF Requests, CopyInvariant, Tickets
    <3>3. QED
      BY <1>0, <2>2, <3>2 DEF BeginDeletion, FlowType, Hindered
  <2>3. CASE flow.phase = "canceling" /\ Acknowledge("dest") /\ (pause = "asked" => out = "paused")
    <3>1. HeardOf("dest")
      BY <1>13, <2>3 DEF HeardOf, WorkerOf
    <3>2. QED
      BY <1>11, <2>3, <3>1 DEF Agents
  <2>4. CASE Ends("completed")
    BY <1>0, <2>4 DEF Ends, FlowType
  <2>5. CASE EndFailed /\ out # "ok" /\ flow.phase # "canceling"
    BY <1>0, <1>13, <2>5 DEF EndFailed, Ends, FlowType, Remote
  <2>6. QED
    BY <1>13, <2>1, <2>2, <2>3, <2>4, <2>5 DEF DestinationFinished
<1>14. ASSUME NEW out, LocalFinished(out), Heard("local", out), flow.phase = "local"
       PROVE  FlowStep
  BY <1>0, <1>14 DEF LocalFinished, Ends, FlowType
<1>15. \A out : HandleSource(out) => FlowStep
  BY <1>12 DEF HandleSource, Heard
<1>16. \A out : HandleDestination(out) => FlowStep
  BY <1>13 DEF HandleDestination, Heard
<1>17. \A out : HandleLocal(out) => FlowStep
  BY <1>14 DEF HandleLocal, Heard
<1>18. ASSUME NEW out, HandleDeletion(out) PROVE FlowStep
  <2>1. Heard("delete", out)
    BY <1>18 DEF HandleDeletion, Heard
  <2>2. QED
    BY <1>0, <1>18, <2>1 DEF HandleDeletion, Ends, FlowType
<1>19. ASSUME RouteWithdrawn PROVE FlowStep
  <2>0. /\ withdrawn # {} /\ row = "canceling"
        /\ \/ flow.phase = "canceling" /\ withdrawn \subseteq {"upload", "download"}
           \/ flow.phase = "local" /\ withdrawn = {"local"}
    BY <1>0, <1>19 DEF RouteWithdrawn, RowPhases
  <2>1. CASE flow.phase = "local"
    BY <1>14, <1>19, <2>0, <2>1 DEF RouteWithdrawn, Heard
  <2>2. CASE flow.phase = "canceling" /\ "upload" \in withdrawn
    BY <1>13, <1>19, <2>0, <2>2 DEF RouteWithdrawn, Heard, Remote
  <2>3. CASE flow.phase = "canceling" /\ withdrawn = {"download"}
    BY <1>12, <1>19, <2>3 DEF RouteWithdrawn, Heard
  <2>4. QED
    BY <2>0, <2>1, <2>2, <2>3
<1>20. \A a \in Agents : (HandlePublishRequest(a) \/ DropResult(a)) => FlowStep
  BY DEF HandlePublishRequest, DropResult, rowVars
<1>21. HandleVerification => FlowStep
  BY DEF HandleVerification
<1>22. ASSUME NEW a \in Agents, HandleLost(a) PROVE FlowStep
  <2>1. CASE SettleLost
    BY <1>0, <1>22, <2>1 DEF SettleLost, Ends, FlowType
  <2>2. CASE UNCHANGED <<flow, row, pause>>
    BY <2>2
  <2>3. QED
    BY <1>22, <2>1, <2>2 DEF HandleLost
<1>23. QED
  BY <1>1, <1>2, <1>5, <1>6, <1>7, <1>8, <1>9, <1>10, <1>15, <1>16, <1>17, <1>18, <1>19, <1>20,
     <1>21, <1>22 DEF RouterSteps, RouterWorks

Workers == {"upload", "download", "local", "settle"}

\* Nobody works for the request any more, or ever will under this ticket.
Over(r) == worker[r] = "ended" \/ ticket[r] \in {"none", "withdrawn"}

NoLoss == \A a \in Agents : \A i \in DOMAIN box[a] : box[a][i].kind # "lost"

\* What the router knows of the workers of a copy that ends.
Stopping ==
  /\ flow.phase = "canceling" =>
       /\ "source" \in flow.acked => Over("download")
       /\ "dest" \in flow.acked => Over("upload")
  /\ flow.sourceFinished =>
       Over("download") /\ flow.phase \in {"streaming", "canceling", "deleting", "settled"}
  /\ flow.acked # {} => flow.phase \in {"canceling", "settled"}
  /\ losses = 0 => NoLoss /\ \A a \in Agents : conn[a] = "up" /\ linked[a]
  /\ losses = 0 /\ row \in {"canceled", "forgotten"} => \A r \in Workers : Over(r)
  /\ \A r \in withdrawn : ticket[r] = "withdrawn"

\* A worker that is done is not begun again, unless the router makes a new request.
LEMMA AgentsLeaveOver ==
  ASSUME CopyInvariant, AgentSteps, NEW r \in Requests, Over(r)
  PROVE  Over(r)'
<1> USE DEF fileVars, rowVars, laneVars, workVars, netVars
<1>1. worker[r] = "ended" => Over(r)'
  BY WorkersAdvance DEF Over
<1>2. ticket[r] = "none" => Over(r)'
  BY TicketChanges DEF Over
<1>3. ASSUME ticket[r] = "withdrawn" PROVE ticket'[r] = "withdrawn"
  <2>0. ticket \in [Requests -> {"none", "queued", "written", "withdrawn"}]
    BY DEF CopyInvariant, CopyTypeOK
  <2>1. CASE LaneSteps
    BY <1>3, <2>0, <2>1 DEF LaneSteps, WriteCommand, Spawn, ReceiveCancel, AgentNotices
  <2>2. CASE SourceSteps
    BY <1>3, <2>2 DEF SourceSteps, HashSegment, SettlePartial, VerifySource, DeleteSource, ReplaceSource, OpenSource,
         SendSegment, FinishSource, StopSource, FailSource, SourceEnds
  <2>3. CASE UploadSteps
    BY <1>3, <2>3 DEF UploadSteps, UploadKeeps, PrepareUpload, StageSegment, StopUpload, FailUpload,
         AskUpload, UploadTimesOut, PublishUpload, UploadDecision
  <2>4. CASE LocalSteps
    BY <1>3, <2>4 DEF LocalSteps, LocalKeeps, CheckLocal, RenameLocal, PrepareLocal, VerifyLocal, StageLocal,
         StagedLocal, StopLocal, FailLocal, LocalTimesOut, PublishLocal, VerifyRemoval, RemoveLocal, LocalDecision
  <2>5. QED
    BY <2>1, <2>2, <2>3, <2>4 DEF AgentSteps
<1>4. QED
  BY <1>1, <1>2, <1>3 DEF Over

\* Nor by the router.
LEMMA RouterLeavesOver ==
  ASSUME CopyInvariant, RouterSteps, NEW r \in Workers, Over(r)
  PROVE  Over(r)' \/ Made(r)
<1>1. r \in Requests \ Hashes
  BY DEF Workers, Requests, Hashes
<1>2. worker'[r] = worker[r]
  BY <1>1, RouterAsksAgain
<1>3. TicketStep
  BY RouterTickets
<1>4. CASE TicketMove({}) \/ TicketMove(Hashes)
  BY <1>1, <1>2, <1>4 DEF TicketMove, Over
<1>5. ASSUME NEW q \in Requests, TicketMove({q}), Made(q) PROVE Over(r)' \/ Made(r)
  BY <1>1, <1>2, <1>5 DEF TicketMove, Over
<1>6. QED
  BY <1>3, <1>4, <1>5 DEF TicketStep

\* What the router has heard of is over.
LEMMA HeardIsOver ==
  ASSUME CopyInvariant, Stopping, NEW r \in Requests, NEW out, Heard(r, out)
  PROVE  /\ Over(r) /\ (worker[r] = "ended" \/ ticket[r] = "withdrawn")
         /\ out # "error" => Result(r, out) /\ worker[r] = "ended"
  BY TakenResult DEF Heard, Over, Stopping

\* A connection is found gone only when it was lost.
LEMMA NobodyIsLost ==
  ASSUME CopyInvariant, NoLoss, RouterSteps
  PROVE  /\ NoLoss' /\ UNCHANGED conn
         /\ \A a \in Agents : ~HandleLost(a)
<1> USE DEF fileVars, rowVars, workVars, netVars
<1>1. \A a \in Agents : ~HandleLost(a)
  <2>1. SUFFICES ASSUME NEW a \in Agents, HandleLost(a) PROVE FALSE
    OBVIOUS
  <2>2. box[a] \in Seq(Frames) /\ box[a] # <<>> /\ Head(box[a]).kind = "lost"
    BY <2>1 DEF HandleLost, Next1, CopyInvariant, CopyTypeOK
  <2>3. 1 \in DOMAIN box[a] /\ box[a][1].kind = "lost"
    BY <2>2
  <2>4. QED
    BY <2>3 DEF NoLoss
<1>2. NoLoss'
  BY BoxShrinks DEF NoLoss
<1>3. Start \/ StartRefused \/ UserCancel \/ UserPause => UNCHANGED conn
  BY DEF Start, StartRefused, UserCancel, UserPause
<1>4. RouterWorks => UNCHANGED conn \/ \E a \in Agents : HandleLost(a)
  <2>1. \A r \in Hashes : \A d : HandleDigest(r, d) \/ HandleHashFailure(r, d) => UNCHANGED conn
    BY DEF HandleDigest, HandleHashFailure
  <2>2. HandleReady \/ HandleVerification \/ RouteWithdrawn => UNCHANGED conn
    BY DEF HandleReady, HandleVerification, RouteWithdrawn
  <2>3. \A out : HandleSettled(out) \/ HandleSource(out) \/ HandleDestination(out)
               \/ HandleDeletion(out) \/ HandleLocal(out) => UNCHANGED conn
    BY DEF HandleSettled, HandleSource, HandleDestination, HandleDeletion, HandleLocal
  <2>4. \A a \in Agents : HandlePublishRequest(a) \/ DropResult(a) => UNCHANGED conn
    BY DEF HandlePublishRequest, DropResult
  <2>5. QED
    BY <2>1, <2>2, <2>3, <2>4 DEF RouterWorks
<1>5. QED
  BY <1>1, <1>2, <1>3, <1>4 DEF RouterSteps

\* Which workers a phase of a copy excludes.
LEMMA PhaseExcludes ==
  ASSUME CopyInvariant
  PROVE  /\ flow.phase \in {"none", "canceling", "awaiting", "streaming"} => Over("settle") /\ Over("local")
         /\ flow.phase = "settling" => Over("upload") /\ Over("download") /\ Over("local")
         /\ flow.phase = "local" => Over("upload") /\ Over("download") /\ Over("settle")
         /\ flow.phase \in {"none", "awaiting", "verifying"} => Over("download")
<1>1. {"upload", "download", "local", "settle"} \subseteq Requests
  BY DEF Requests
<1>2. Tickets /\ ticket \in [Requests -> {"none", "queued", "written", "withdrawn"}]
  BY DEF CopyInvariant, CopyTypeOK
<1>3. QED
  BY <1>1, <1>2 DEF Tickets, Over, Remote

\* A request withdrawn on the router's side waits for no worker.
LEMMA WithdrawnTickets ==
  ASSUME CopyInvariant, Stopping, RouterSteps, NEW r \in withdrawn'
  PROVE  ticket'[r] = "withdrawn"
<1> USE DEF laneVars
<1>0. RowPhases /\ Tickets /\ withdrawn \subseteq Requests
  BY RouterFacts DEF CopyInvariant
<1>1. ASSUME NEW why, CancelRemote(why) \/ CancelLocal(why) PROVE ticket'[r] = "withdrawn"
  <2>1. PICK targets \in SUBSET {"upload", "download", "local"} :
          /\ ticket' = AfterCancel([q \in targets |-> why])
          /\ withdrawn' = {q \in targets : ticket[q] = "queued"}
    BY <1>1 DEF CancelRemote, CancelLocal, Cancels
  <2>2. r \in Requests
    BY <2>1 DEF Requests
  <2>3. QED
    BY <2>1, <2>2 DEF AfterCancel
<1>2. CASE Start
  <2>1. r \in Requests /\ ticket[r] = "withdrawn" /\ flow.phase = "none"
    BY <1>0, <1>2 DEF Start, Stopping
  <2>2. QED
    BY <1>0, <2>1 DEF Tickets
<1>3. CASE StartRefused
  BY <1>3 DEF StartRefused, Stopping
<1>4. CASE UserCancel \/ UserPause
  <2>1. withdrawn = {} /\ (UNCHANGED withdrawn \/ \E why : CancelRemote(why) \/ CancelLocal(why))
    BY <1>4 DEF UserCancel, UserPause
  <2>2. QED
    BY <1>1, <2>1
<1>5. CASE RouterWorks
  <2>1. \A q, d : ResultOf(q, d) => withdrawn = {}
    BY DEF ResultOf, Next1
  <2>2. \A q \in Hashes : \A d : ~HandleDigest(q, d) /\ ~HandleHashFailure(q, d)
    BY <2>1 DEF HandleDigest, HandleHashFailure
  <2>3. ~HandleReady /\ ~HandleVerification /\ ~RouteWithdrawn
    BY DEF HandleReady, HandleVerification, RouteWithdrawn, Next1
  <2>4. \A out : ~HandleSettled(out) /\ ~HandleSource(out) /\ ~HandleDestination(out)
               /\ ~HandleDeletion(out) /\ ~HandleLocal(out)
    BY <2>1 DEF HandleSettled, HandleSource, HandleDestination, HandleDeletion, HandleLocal
  <2>5. \A a \in Agents : ~HandlePublishRequest(a) /\ ~DropResult(a) /\ ~HandleLost(a)
    BY DEF HandlePublishRequest, DropResult, HandleLost, Next1
  <2>6. QED
    BY <1>5, <2>2, <2>3, <2>4, <2>5 DEF RouterWorks
<1>6. QED
  BY <1>2, <1>3, <1>4, <1>5 DEF RouterSteps

-----------------------------------------------------------------------------
(* What the agents say *)

Asking == {"asking", "askingRename"}

\* Why a worker may answer as it does.
Fits(r, out) ==
  /\ out = "paused" =>
       /\ r \in {"upload", "local"} /\ durable' /\ UNCHANGED <<partial, target>>
       /\ worker[r] \in {"staging", "asking"} \/ (r = "local" /\ worker[r] = "verifying")
  /\ r = "settle" /\ out = "ok" /\ flow.settle = "persist" => durable' /\ UNCHANGED <<partial, target>>
  /\ \/ out = "ok" /\ r \notin Hashes
     \/ trouble' = "real"
     \/ r \in {"upload", "download", "local"} /\ token[r]
     \/ r = "upload" /\ Received("decision", "upload", "denied")
     \/ r = "local" /\ Received("decision", "local", "denied")
     \/ r \in {"download", "local"} /\ source # "captured"
     \/ r \in Hashes /\ (out \in Marks \/ source # "captured")

Spoken(r, f) ==
  \/ f.kind \in {"ready", "verifying"} /\ worker'[r] # "ended"
  \/ /\ f.kind = "publish" /\ r = Publisher /\ ~token[r]
     /\ worker[r] \in {"staging", "checking"} /\ worker'[r] \in Asking
  \/ \E out \in Outcomes : f = Frame("result", r, out) /\ worker'[r] = "ended" /\ Fits(r, out)

Says ==
  \/ UNCHANGED box
  \/ \E r \in Requests, f \in Frames :
       /\ box' = [box EXCEPT ![AgentOf(r)] = Append(@, f)]
       /\ worker[r] # "ended" /\ Spoken(r, f)

\* An agent says what one of its workers has come to.
LEMMA AgentsSay ==
  ASSUME CopyInvariant, AgentSteps
  PROVE  Says
<1> USE DEF fileVars, rowVars, laneVars, workVars, netVars
<1>0. /\ worker \in [Requests -> Steps] /\ box \in [Agents -> Seq(Frames)]
      /\ \A r \in Requests : AgentOf(r) \in Agents
      /\ {"upload", "download", "local", "settle", "delete"} \cup Hashes \subseteq Requests
      /\ Hashes \cap {"upload", "download", "local", "settle", "delete"} = {}
      /\ \A r \in Reasons : OutcomeOf(r) \in {"paused", "error"}
      /\ reason \in [Requests -> Reasons] /\ Marks \subseteq Outcomes
      /\ {"ok", "error", "changed", "paused"} \subseteq Outcomes
      /\ {"error", "changed", "ok", "paused"} \cap Marks = {}
  BY DEF CopyInvariant, CopyTypeOK, Requests, Hashes, OutcomeOf, AgentOf, Agents, Outcomes, Marks, Versions
<1>1. ASSUME NEW r \in Requests, NEW out \in Outcomes, Answers(r, out), worker[r] # "ended", Fits(r, out)
      PROVE  Says
  <2>1. Frame("result", r, out) \in Frames
    BY ResultTyped
  <2>2. worker'[r] = "ended"
    BY <1>0, <1>1 DEF Answers
  <2>3. Spoken(r, Frame("result", r, out))
    BY <1>1, <2>2 DEF Spoken
  <2>4. box' = box \/ box' = [box EXCEPT ![AgentOf(r)] = Append(@, Frame("result", r, out))]
    BY <1>1 DEF Answers, Sends
  <2>5. QED
    BY <1>1, <2>1, <2>3, <2>4 DEF Says
<1>2. ASSUME NEW r \in {"upload", "local"}, NEW kind \in {"ready", "publish", "verifying"}, NEW step \in Steps,
             Sends(AgentOf(r), Frame(kind, r, "none")), worker[r] # "ended", step # "ended",
             worker' = [worker EXCEPT ![r] = step],
             kind = "publish" => r = Publisher /\ ~token[r] /\ worker[r] \in {"staging", "checking"} /\ step \in Asking
      PROVE  Says
  <2>1. Frame(kind, r, "none") \in Frames /\ Frame(kind, r, "none").kind = kind
    BY NoticeTyped DEF Frame
  <2>2. worker'[r] = step
    BY <1>0, <1>2
  <2>3. Spoken(r, Frame(kind, r, "none"))
    BY <1>2, <2>1, <2>2 DEF Spoken
  <2>4. box' = box \/ box' = [box EXCEPT ![AgentOf(r)] = Append(@, Frame(kind, r, "none"))]
    BY <1>2 DEF Sends
  <2>5. QED
    BY <1>0, <1>2, <2>1, <2>3, <2>4 DEF Says
<1>3. UNCHANGED box => Says
  BY DEF Says
<1>4. CASE LaneSteps
  BY <1>3, <1>4 DEF LaneSteps, WriteCommand, Spawn, ReceiveCancel, AgentNotices
<1>5. ASSUME NEW r \in Hashes, HashSegment(r) PROVE Says
  <2>1. PICK out \in Outcomes :
          /\ Answers(r, out) /\ out \notin {"paused", "ok"}
          /\ out \in Marks \/ source # "captured" \/ trouble' = "real"
    <3>1. partial # Absent => \A i \in 1 .. Len(partial) : partial[i] \in Marks
      BY DEF CopyInvariant, CopyTypeOK
    <3>2. flow.offset + 1 \in Nat \ {0} /\ Len(Absent) = 1
      BY DEF CopyInvariant, CopyTypeOK, Absent
    <3>3. partial # Absent /\ flow.offset + 1 <= Len(partial) => partial[flow.offset + 1] \in Marks
      <4>1. partial # Absent => Len(partial) \in Nat
        BY DEF CopyInvariant, CopyTypeOK
      <4>2. QED
        BY <3>1, <3>2, <4>1
    <3>4. CASE r = "hashSource" /\ Answers(r, IF source = "captured" THEN "captured" ELSE "changed")
      BY <1>0, <3>4 DEF Marks, Versions
    <3>5. CASE partial # Absent /\ flow.offset + 1 <= Len(partial) /\ Answers(r, partial[flow.offset + 1])
      BY <1>0, <3>3, <3>5
    <3>6. CASE Answers(r, "error") /\ Hindered
      BY <1>0, <3>6 DEF Hindered
    <3>7. QED
      BY <1>5, <3>4, <3>5, <3>6 DEF HashSegment
  <2>2. Fits(r, out)
    BY <2>1 DEF Fits, Hashes
  <2>3. worker[r] # "ended" /\ r \in Requests
    BY <1>0, <1>5 DEF HashSegment
  <2>4. QED
    BY <1>1, <2>1, <2>2, <2>3
<1>6. ASSUME SettlePartial PROVE Says
  <2>1. worker["settle"] # "ended" /\ UNCHANGED target
    BY <1>6 DEF SettlePartial
  <2>2. CASE Answers("settle", "ok") /\ (flow.settle = "persist" => durable' = TRUE /\ UNCHANGED partial)
    <3>1. Fits("settle", "ok")
      BY <1>0, <2>1, <2>2 DEF Fits
    <3>2. QED
      BY <1>0, <1>1, <2>1, <2>2, <3>1
  <2>3. CASE Answers("settle", "error") /\ Hindered
    <3>1. Fits("settle", "error")
      BY <2>3 DEF Fits, Hindered
    <3>2. QED
      BY <1>0, <1>1, <2>1, <2>3, <3>1
  <2>4. QED
    BY <1>6, <2>2, <2>3 DEF SettlePartial
<1>7. ASSUME NEW r \in Requests, NEW out \in {"ok", "error", "changed"}, Answers(r, out), worker[r] # "ended",
             \/ out = "ok" /\ r \notin Hashes \cup {"settle"}
             \/ out # "ok" /\ (\/ trouble' = "real"
                               \/ r \in {"upload", "download", "local"} /\ token[r]
                               \/ r \in {"download", "local"} /\ source # "captured")
      PROVE  Says
  <2>1. Fits(r, out)
    BY <1>7 DEF Fits
  <2>2. QED
    BY <1>0, <1>1, <1>7, <2>1
<1>8. CASE VerifySource \/ DeleteSource
  BY <1>0, <1>3, <1>7, <1>8 DEF VerifySource, DeleteSource, Hindered
<1>9. CASE ReplaceSource \/ SendSegment
  BY <1>3, <1>9 DEF ReplaceSource, SendSegment
<1>10. CASE OpenSource
  <2>1. CASE UNCHANGED box
    BY <1>3, <2>1
  <2>2. CASE Answers("download", "changed") /\ source # "captured"
    BY <1>0, <1>7, <1>10, <2>2 DEF OpenSource
  <2>3. CASE Answers("download", "error") /\ Hindered
    BY <1>0, <1>7, <1>10, <2>3 DEF OpenSource, Hindered
  <2>4. QED
    BY <1>10, <2>1, <2>2, <2>3 DEF OpenSource
<1>11. CASE FinishSource
  BY <1>0, <1>7, <1>11 DEF FinishSource
<1>12. CASE StopSource \/ FailSource
  BY <1>0, <1>7, <1>12 DEF StopSource, FailSource, SourceEnds, Hindered
<1>13. CASE SourceSteps
  BY <1>5, <1>6, <1>8, <1>9, <1>10, <1>11, <1>12, <1>13 DEF SourceSteps
<1>14. ASSUME NEW r \in {"upload", "local"}, Stops(r, reason[r]), UNCHANGED target,
              worker[r] \in {"staging", "asking"} \/ (r = "local" /\ worker[r] = "verifying"),
              token[r] \/ Received("decision", r, "denied")
       PROVE  Says
  <2>0. reason[r] \in Reasons /\ r \in Requests
    BY <1>0
  <2>1. CASE Leaves(reason[r]) /\ Answers(r, OutcomeOf(reason[r]))
    <3>1. OutcomeOf(reason[r]) \in {"paused", "error"}
      BY <1>0, <2>0
    <3>2. OutcomeOf(reason[r]) = "paused" => durable' /\ UNCHANGED <<partial, target>>
      BY <1>14, <2>1 DEF Leaves, OutcomeOf
    <3>3. Fits(r, OutcomeOf(reason[r]))
      BY <1>14, <3>1, <3>2 DEF Fits
    <3>4. QED
      BY <1>0, <1>1, <1>14, <2>0, <2>1, <3>1, <3>3
  <2>2. CASE Answers(r, "error") /\ Hindered
    BY <1>7, <1>14, <2>0, <2>2 DEF Hindered
  <2>3. QED
    BY <1>14, <2>1, <2>2 DEF Stops
<1>15. ASSUME NEW r \in {"upload", "local"}, Fails(r), worker[r] # "ended" PROVE Says
  BY <1>0, <1>7, <1>15 DEF Fails, Hindered
<1>16. ASSUME NEW r \in {"upload", "local"}, Leaves(reason[r]), Answers(r, OutcomeOf(reason[r])), Hindered,
              UNCHANGED target, worker[r] = "asking"
       PROVE  Says
  <2>0. reason[r] \in Reasons /\ r \in Requests /\ OutcomeOf(reason[r]) \in {"paused", "error"}
    BY <1>0
  <2>1. OutcomeOf(reason[r]) = "paused" => durable' /\ UNCHANGED <<partial, target>>
    BY <1>16 DEF Leaves, OutcomeOf
  <2>2. Fits(r, OutcomeOf(reason[r]))
    BY <1>16, <2>0, <2>1 DEF Fits, Hindered
  <2>3. QED
    BY <1>0, <1>1, <1>16, <2>0, <2>2
<1>17. ~shape.local => Publisher = "upload"
  BY DEF Publisher
<1>18. (worker["upload"] # "absent" => ~shape.local) /\ (worker["local"] # "absent" => Publisher = "local")
  BY <1>0 DEF CopyInvariant, Tickets, Publisher
<1>19. CASE PrepareUpload
  <2>1. CASE Sends("dest", Frame("ready", "upload", "none")) /\ worker' = [worker EXCEPT !["upload"] = "staging"]
    <3>1. "staging" \in Steps /\ AgentOf("upload") = "dest"
      BY DEF Steps, AgentOf
    <3>2. worker["upload"] # "ended"
      BY <1>19 DEF PrepareUpload
    <3>3. QED
      BY <1>2, <2>1, <3>1, <3>2
  <2>2. CASE Answers("upload", "error") /\ Hindered
    BY <1>0, <1>7, <1>19, <2>2 DEF PrepareUpload, Hindered
  <2>3. QED
    BY <1>19, <2>1, <2>2 DEF PrepareUpload
<1>20. CASE StageSegment
  BY <1>3, <1>20 DEF StageSegment
<1>21. CASE StopUpload
  BY <1>14, <1>21 DEF StopUpload
<1>22. CASE FailUpload
  BY <1>15, <1>22 DEF FailUpload
<1>23. CASE AskUpload
  <2>1. "asking" \in Steps /\ AgentOf("upload") = "dest" /\ worker["upload"] = "staging" /\ ~token["upload"]
        /\ "asking" \in Asking
    BY <1>23 DEF Steps, AgentOf, AskUpload, Asking
  <2>2. QED
    BY <1>2, <1>17, <1>18, <1>23, <2>1 DEF AskUpload
<1>24. ASSUME NEW answer \in {"allowed", "denied"}, UploadDecision(answer) PROVE Says
  <2>1. CASE UNCHANGED box
    BY <1>3, <2>1
  <2>2. CASE box' # box
    <3>1. /\ worker["upload"] = "asking" /\ Stops("upload", reason["upload"]) /\ UNCHANGED target
          /\ Received("decision", "upload", answer) /\ (answer = "allowed" => token["upload"])
      BY <1>24, <2>2 DEF UploadDecision
    <3>2. QED
      BY <1>14, <1>24, <3>1
  <2>3. QED
    BY <2>1, <2>2
<1>25. CASE UploadTimesOut
  BY <1>16, <1>25 DEF UploadTimesOut
<1>26. CASE PublishUpload
  BY <1>0, <1>7, <1>26 DEF PublishUpload
<1>27. CASE UploadSteps
  BY <1>19, <1>20, <1>21, <1>22, <1>23, <1>24, <1>25, <1>26, <1>27 DEF UploadSteps
<1>28. AgentOf("local") = "source" /\ Asking \subseteq Steps /\ "verifying" \in Steps
  BY DEF AgentOf, Asking, Steps
<1>29. CASE CheckLocal
  <2>0. worker["local"] = "checking"
    BY <1>29 DEF CheckLocal, LocalAt
  <2>1. CASE UNCHANGED box
    BY <1>3, <2>1
  <2>2. CASE LocalGoes("askingRename") /\ Sends("source", Frame("publish", "local", "none")) /\ ~token["local"]
    <3>1. worker' = [worker EXCEPT !["local"] = "askingRename"] /\ "askingRename" \in Asking
      BY <2>2 DEF LocalGoes, Asking
    <3>2. QED
      BY <1>2, <1>18, <1>28, <2>0, <2>2, <3>1
  <2>3. CASE Answers("local", "error") /\ (token["local"] \/ Hindered)
    BY <1>0, <1>7, <2>0, <2>3 DEF Hindered
  <2>4. QED
    BY <1>29, <2>1, <2>2, <2>3 DEF CheckLocal
<1>30. CASE RenameLocal
  <2>0. worker["local"] = "renaming"
    BY <1>30 DEF RenameLocal, LocalAt
  <2>1. CASE UNCHANGED box
    BY <1>3, <2>1
  <2>2. CASE Answers("local", "ok") \/ (Answers("local", "error") /\ Hindered)
    BY <1>0, <1>7, <2>0, <2>2 DEF Hindered
  <2>3. QED
    BY <1>30, <2>1, <2>2 DEF RenameLocal
<1>31. CASE PrepareLocal
  <2>0. worker["local"] = "preparing"
    BY <1>31 DEF PrepareLocal, LocalAt
  <2>1. CASE UNCHANGED box
    BY <1>3, <2>1
  <2>2. CASE LocalGoes("verifying") /\ Sends("source", Frame("verifying", "local", "none"))
    BY <1>2, <1>28, <2>0, <2>2 DEF LocalGoes
  <2>3. CASE Answers("local", "error") /\ (source # "captured" \/ Hindered)
    BY <1>0, <1>7, <2>0, <2>3 DEF Hindered
  <2>4. QED
    BY <1>31, <2>1, <2>2, <2>3 DEF PrepareLocal
<1>32. CASE VerifyLocal \/ StageLocal
  BY <1>3, <1>32 DEF VerifyLocal, StageLocal
<1>33. CASE StagedLocal
  <2>0. worker["local"] = "staging" /\ ~token["local"]
    BY <1>33 DEF StagedLocal, LocalAt
  <2>1. CASE UNCHANGED box
    BY <1>3, <2>1
  <2>2. CASE LocalGoes("asking") /\ Sends("source", Frame("publish", "local", "none"))
    <3>1. worker' = [worker EXCEPT !["local"] = "asking"] /\ "asking" \in Asking
      BY <2>2 DEF LocalGoes, Asking
    <3>2. QED
      BY <1>2, <1>18, <1>28, <2>0, <2>2, <3>1
  <2>3. QED
    BY <1>33, <2>1, <2>2 DEF StagedLocal
<1>34. CASE StopLocal
  <2>1. CASE worker["local"] \in {"verifying", "staging", "asking"} /\ Stops("local", reason["local"])
    BY <1>14, <1>34, <2>1 DEF StopLocal
  <2>2. CASE LocalAt("askingRename") /\ Answers("local", "error")
    BY <1>0, <1>7, <1>34, <2>2 DEF StopLocal, LocalAt
  <2>3. QED
    BY <1>34, <2>1, <2>2 DEF StopLocal
<1>35. CASE FailLocal
  BY <1>15, <1>35 DEF FailLocal
<1>36. ASSUME NEW answer \in {"allowed", "denied"}, LocalDecision(answer) PROVE Says
  <2>1. CASE UNCHANGED box
    BY <1>3, <2>1
  <2>2. CASE box' # box
    <3>1. /\ worker["local"] \in Asking /\ UNCHANGED target
          /\ Received("decision", "local", answer) /\ (answer = "allowed" => token["local"])
          /\ \/ worker["local"] = "asking" /\ Stops("local", reason["local"])
             \/ Answers("local", "error")
      BY <1>36, <2>2 DEF LocalDecision, LocalAt, Asking
    <3>2. CASE worker["local"] = "asking" /\ Stops("local", reason["local"])
      BY <1>14, <1>36, <3>1, <3>2
    <3>3. CASE Answers("local", "error")
      <4>1. Fits("local", "error")
        BY <1>36, <3>1 DEF Fits
      <4>2. worker["local"] # "ended"
        BY <3>1 DEF Asking
      <4>3. QED
        BY <1>0, <1>1, <3>3, <4>1, <4>2
    <3>4. QED
      BY <3>1, <3>2, <3>3
  <2>3. QED
    BY <2>1, <2>2
<1>37. CASE LocalTimesOut
  <2>1. worker["local"] \in Asking /\ worker["local"] # "ended" /\ UNCHANGED target /\ Hindered
    BY <1>37 DEF LocalTimesOut, LocalAt, Asking
  <2>2. CASE LocalAt("asking") /\ Leaves(reason["local"]) /\ Answers("local", OutcomeOf(reason["local"]))
    BY <1>16, <2>1, <2>2 DEF LocalAt
  <2>3. CASE Answers("local", "error")
    BY <1>0, <1>7, <2>1, <2>3 DEF Hindered
  <2>4. QED
    BY <1>37, <2>2, <2>3 DEF LocalTimesOut
<1>38. CASE PublishLocal
  <2>1. worker["local"] # "ended" /\ (UNCHANGED box \/ Answers("local", "ok"))
    BY <1>38 DEF PublishLocal, LocalAt
  <2>2. QED
    BY <1>0, <1>3, <1>7, <2>1
<1>39. CASE VerifyRemoval \/ RemoveLocal
  <2>1. /\ worker["local"] # "ended"
        /\ \/ UNCHANGED box \/ Answers("local", "ok")
           \/ Answers("local", "error") /\ (token["local"] \/ Hindered)
    BY <1>39 DEF VerifyRemoval, RemoveLocal, LocalAt
  <2>2. QED
    BY <1>0, <1>3, <1>7, <2>1 DEF Hindered
<1>40. CASE LocalSteps
  BY <1>29, <1>30, <1>31, <1>32, <1>33, <1>34, <1>35, <1>36, <1>37, <1>38, <1>39, <1>40 DEF LocalSteps
<1>41. QED
  BY <1>4, <1>13, <1>27, <1>40 DEF AgentSteps

\* What is in a box was there before, or is what an agent has just said.
LEMMA NewSaid ==
  ASSUME CopyInvariant, NEW r \in Requests, NEW f \in Frames,
         box' = [box EXCEPT ![AgentOf(r)] = Append(@, f)], NEW a \in Agents, NEW i \in DOMAIN box'[a]
  PROVE  \/ i \in DOMAIN box[a] /\ box'[a][i] = box[a][i]
         \/ i = Len(box[a]) + 1 /\ i \notin DOMAIN box[a] /\ a = AgentOf(r) /\ box'[a][i] = f
<1>1. box \in [Agents -> Seq(Frames)]
  BY DEF CopyInvariant, CopyTypeOK
<1>2. CASE a # AgentOf(r)
  BY <1>1, <1>2
<1>3. CASE a = AgentOf(r)
  <2>1. box'[a] = Append(box[a], f) /\ box[a] \in Seq(Frames)
    BY <1>1, <1>3
  <2>2. i \in DOMAIN Append(box[a], f)
    BY <2>1
  <2>3. \/ i \in DOMAIN box[a] /\ Append(box[a], f)[i] = box[a][i]
        \/ i = Len(box[a]) + 1 /\ i \notin DOMAIN box[a] /\ Append(box[a], f)[i] = f
    BY <2>1, <2>2, AddedFrame
  <2>4. QED
    BY <1>3, <2>1, <2>3
<1>4. QED
  BY <1>2, <1>3

\* The router ends a copy only when it has heard of both sides.
LEMMA RouterStops ==
  ASSUME CopyInvariant, Stopping, RouterSteps
  PROVE  Stopping'
<1>0. /\ RowStep /\ FlowStep /\ RowPhases /\ flow \in FlowType /\ flow' \in FlowType
      /\ UNCHANGED <<losses, linked>>
  <2>1. flow' \in FlowType
    BY RouterKeepsTypes DEF CopyTypeOK, FlowType
  <2>2. QED
    BY <2>1, RouterRows, RouterFlow, RouterFacts, RouterLeaves DEF FlowType
<1>1. /\ Workers = {"upload", "download", "local", "settle"} /\ Workers \subseteq Requests
      /\ Agents = {"source", "dest"} /\ Remote = {"awaiting", "streaming", "canceling"}
  BY DEF Workers, Requests, Agents, Remote
<1>2. \A side \in Agents : HeardOf(side) => Over(WorkerOf(side))
  <2>1. \A side \in Agents : WorkerOf(side) \in Requests
    BY <1>1 DEF WorkerOf
  <2>2. QED
    BY <2>1, HeardIsOver DEF HeardOf
<1>3. \A r \in Workers : Over(r) => Over(r)' \/ Made(r)
  BY RouterLeavesOver
<1>4. /\ Made("upload") => flow.phase \in {"none", "verifying"} /\ flow'.phase = "awaiting"
      /\ Made("download") => flow.phase = "awaiting" /\ flow'.phase = "streaming"
      /\ Made("local") => flow.phase = "none" /\ flow'.phase = "local"
      /\ Made("settle") => flow.phase = "verifying" /\ flow'.phase = "settling"
  BY DEF Made
<1>5. /\ flow'.phase = "canceling" => flow.phase \in Remote
      /\ flow'.phase = "settled" /\ row' # row => flow.phase # "settled"
      /\ flow.phase = "settled" => flow'.phase = "settled" /\ row' = row
  BY <1>0 DEF RowStep, GoesOn, Begins, Admits, IsCanceled, Deletes, Finishes, RowPhases, Final, Remote
<1>6. flow'.phase = "canceling" =>
        /\ "source" \in flow'.acked => Over("download")'
        /\ "dest" \in flow'.acked => Over("upload")'
  <2>1. SUFFICES ASSUME flow'.phase = "canceling" PROVE
          /\ "source" \in flow'.acked => Over("download")
          /\ "dest" \in flow'.acked => Over("upload")
    BY <1>1, <1>3, <1>4
  <2>2. flow.phase = "awaiting" => Over("download")
    BY PhaseExcludes
  <2>3. CASE flow'.acked = flow.acked
    BY <1>1, <1>5, <2>1, <2>3 DEF Stopping
  <2>4. CASE flow.phase = "canceling" /\ \E side \in Agents : HeardOf(side) /\ flow'.acked = flow.acked \cup {side}
    BY <1>1, <1>2, <2>4 DEF Stopping, WorkerOf
  <2>5. CASE flow'.acked = {} \/ (flow'.acked = {"source"} /\ (flow.sourceFinished \/ flow.phase = "awaiting"))
    BY <2>2, <2>5 DEF Stopping
  <2>6. QED
    BY <1>0, <2>3, <2>4, <2>5 DEF FlowStep, AckStep
<1>7. flow'.sourceFinished =>
        Over("download")' /\ flow'.phase \in {"streaming", "canceling", "deleting", "settled"}
  <2>1. SUFFICES ASSUME flow'.sourceFinished
                 PROVE  Over("download") /\ flow.phase \in {"streaming", "canceling", "deleting", "settled"}
    BY <1>0, <1>1, <1>3, <1>4
       DEF RowStep, GoesOn, Begins, Admits, IsCanceled, Deletes, Finishes, RowPhases, Final
  <2>2. CASE flow.sourceFinished
    BY <2>2 DEF Stopping
  <2>3. CASE flow'.sourceFinished # flow.sourceFinished
    BY <1>0, <1>1, <2>3, HeardIsOver DEF FlowStep, SourceStep
  <2>4. QED
    BY <2>1, <2>2, <2>3
<1>8. flow'.acked # {} => flow'.phase \in {"canceling", "settled"}
  <2>1. CASE flow'.acked = flow.acked
    BY <1>0, <2>1 DEF Stopping, RowStep, GoesOn, Begins, Admits, IsCanceled, Deletes, Finishes, RowPhases, Final
  <2>2. CASE flow.phase = "canceling" /\ flow'.phase = "canceling"
    BY <2>2
  <2>3. CASE flow'.acked = {"source"} /\ flow'.phase = "canceling"
    BY <2>3
  <2>4. QED
    BY <1>0, <2>1, <2>2, <2>3 DEF FlowStep, AckStep
<1>9. losses' = 0 => NoLoss' /\ UNCHANGED conn /\ \A a \in Agents : ~HandleLost(a)
  BY <1>0, NobodyIsLost DEF Stopping
<1>10. losses' = 0 => \A a \in Agents : conn'[a] = "up" /\ linked'[a]
  BY <1>0, <1>9 DEF Stopping
<1>11. ASSUME losses' = 0, row' \in {"canceled", "forgotten"} PROVE \A r \in Workers : Over(r)'
  <2>1. CASE row' = row
    <3>1. flow.phase = "settled" /\ \A r \in Workers : Over(r)
      BY <1>0, <1>11, <2>1 DEF Stopping, RowPhases, Final
    <3>2. QED
      BY <1>1, <1>3, <1>4, <3>1
  <2>2. CASE row' # row /\ flow.phase = "canceling" /\ \E side \in Agents : HeardOf(side) /\ flow.acked \cup {side} = Agents
    <3>1. Over("download") /\ Over("upload")
      BY <1>1, <1>2, <2>2 DEF Stopping, WorkerOf
    <3>2. Over("settle") /\ Over("local")
      BY <2>2, PhaseExcludes
    <3>3. QED
      BY <1>1, <1>3, <1>4, <2>2, <3>1, <3>2
  <2>3. CASE row' # row /\ flow.phase = "settling" /\ ResultOf("settle", "ok")
    <3>1. Over("settle") /\ Over("upload") /\ Over("download") /\ Over("local")
      BY <1>1, <2>3, PhaseExcludes, HeardIsOver DEF Heard
    <3>2. QED
      BY <1>1, <1>3, <1>4, <2>3, <3>1
  <2>4. CASE row' # row /\ flow.phase = "local" /\ \E out : Heard("local", out)
    <3>1. Over("settle") /\ Over("upload") /\ Over("download") /\ Over("local")
      BY <1>1, <2>4, PhaseExcludes, HeardIsOver
    <3>2. QED
      BY <1>1, <1>3, <1>4, <2>4, <3>1
  <2>5. QED
    BY <1>0, <1>9, <1>11, <2>1, <2>2, <2>3, <2>4 DEF FlowStep, EndStep
<1>12. \A r \in withdrawn' : ticket'[r] = "withdrawn"
  BY WithdrawnTickets
<1>13. QED
  BY <1>6, <1>7, <1>8, <1>9, <1>10, <1>11, <1>12 DEF Stopping

\* The agents begin nothing for a copy that was given up.
LEMMA AgentsStop ==
  ASSUME CopyInvariant, Stopping, AgentSteps
  PROVE  Stopping'
<1>0. UNCHANGED <<flow, row, withdrawn, conn, losses>>
  BY AgentsDecideNothing
<1>1. \A r \in Requests : Over(r) => Over(r)'
  BY AgentsLeaveOver
<1>2. Workers \subseteq Requests /\ {"upload", "download"} \subseteq Requests
  BY DEF Workers, Requests
<1>3. NoLoss => NoLoss'
  <2>1. CASE UNCHANGED box
    BY <2>1 DEF NoLoss
  <2>2. ASSUME NEW r \in Requests, NEW f \in Frames, box' = [box EXCEPT ![AgentOf(r)] = Append(@, f)],
               Spoken(r, f)
        PROVE  NoLoss => NoLoss'
    <3>1. f.kind # "lost"
      BY <2>2 DEF Spoken, Frame
    <3>2. QED
      BY <2>2, <3>1, NewSaid DEF NoLoss
  <2>3. QED
    BY <2>1, <2>2, AgentsSay DEF Says
<1>4. (\A a \in Agents : conn[a] = "up" /\ linked[a]) => UNCHANGED linked
  <2>1. LaneSteps => UNCHANGED linked \/ \E a \in Agents : conn[a] # "up"
    BY DEF LaneSteps, WriteCommand, Spawn, ReceiveCancel, AgentNotices, netVars
  <2>2. SourceSteps => UNCHANGED linked
    BY DEF SourceSteps, HashSegment, SettlePartial, VerifySource, DeleteSource, ReplaceSource, OpenSource,
           SendSegment, FinishSource, StopSource, FailSource, SourceEnds, netVars
  <2>3. UploadSteps => UNCHANGED linked
    BY DEF UploadSteps, UploadKeeps, PrepareUpload, StageSegment, StopUpload, FailUpload,
           AskUpload, UploadTimesOut, PublishUpload, UploadDecision, netVars
  <2>4. LocalSteps => UNCHANGED linked
    BY DEF LocalSteps, LocalKeeps, CheckLocal, RenameLocal, PrepareLocal, VerifyLocal, StageLocal,
           StagedLocal, StopLocal, FailLocal, LocalTimesOut, PublishLocal, VerifyRemoval, RemoveLocal,
           LocalDecision, netVars
  <2>5. QED
    BY <2>1, <2>2, <2>3, <2>4 DEF AgentSteps
<1>5. \A r \in withdrawn : ticket'[r] = "withdrawn"
  <2>1. SUFFICES ASSUME NEW r \in withdrawn PROVE ticket'[r] = "withdrawn"
    OBVIOUS
  <2>2. r \in Requests /\ ticket[r] = "withdrawn"
    BY RouterFacts DEF Stopping
  <2>3. worker[r] = "absent"
    BY <2>2 DEF CopyInvariant, Tickets
  <2>4. Over(r)' /\ ticket'[r] # "none"
    BY <1>1, <2>2, TicketChanges DEF Over
  <2>5. worker'[r] # "ended"
    BY <2>2, <2>3, WorkersAdvance
  <2>6. QED
    BY <2>4, <2>5 DEF Over
<1>6. QED
  BY <1>0, <1>1, <1>2, <1>3, <1>4, <1>5 DEF Stopping

\* The network changes neither, and counts what it loses.
LEMMA NetStops ==
  ASSUME CopyInvariant, Stopping, NetSteps
  PROVE  Stopping'
<1>1. UNCHANGED <<flow, row, withdrawn, ticket, worker>>
  BY NetLeaves
<1>2. losses' # 0
  <2>1. losses \in Nat
    BY CopyAssumption DEF CopyInvariant, CopyTypeOK
  <2>2. CASE \E a \in Agents : Disconnect(a)
    BY <2>1, <2>2 DEF Disconnect
  <2>3. ASSUME NEW a \in Agents, Reconnect(a) PROVE losses' # 0
    BY <2>3 DEF Reconnect, Stopping
  <2>4. QED
    BY <2>2, <2>3 DEF NetSteps
<1>3. QED
  BY <1>1, <1>2 DEF Stopping, Over

\* Both hold from the start.
LEMMA StoppingHolds == CopySpec => []Stopping
<1>1. CopyInit => Stopping
  <2> SUFFICES ASSUME CopyInit PROVE Stopping
    OBVIOUS
  <2>2. /\ flow.phase = "none" /\ ~flow.sourceFinished /\ flow.acked = {} /\ row = "none"
        /\ withdrawn = {} /\ \A a \in Agents : box[a] = <<>> /\ conn[a] = "up" /\ linked[a]
    BY DEF CopyInit
  <2>3. NoLoss
    BY <2>2 DEF NoLoss
  <2>4. QED
    BY <2>2, <2>3 DEF Stopping
<1>2. CopyInvariant /\ Stopping /\ [CopyNext]_vars => Stopping'
  <2>1. Stopping /\ UNCHANGED vars => Stopping'
    BY DEF Stopping, NoLoss, Over, vars, laneVars, workVars, netVars, rowVars
  <2>2. QED
    BY <2>1, StepKinds, RouterStops, AgentsStop, NetStops
<1>3. QED
  BY <1>1, <1>2, CopyInvariantHolds, PTL DEF CopySpec

\* A canceled or paused row is the last of its copy: while both connections hold, no
\* worker of it is left, whichever side stopped first and however it was asked.
THEOREM SettledCopiesAreStopped == CopySpec => []SettledMeansStopped
<1>1. CopyInvariant /\ Stopping => SettledMeansStopped
  <2>1. SUFFICES ASSUME CopyInvariant, Stopping, row \in {"canceled", "forgotten"}, losses = 0,
                        NEW r \in {"upload", "download", "local", "settle"}
                 PROVE  ~Live(r)
    BY DEF SettledMeansStopped
  <2>2. Over(r) /\ r \in Requests
    BY <2>1 DEF Stopping, Workers, Requests
  <2>3. QED
    BY <2>1, <2>2 DEF CopyInvariant, Tickets, Over, Live
<1>2. QED
  BY <1>1, StoppingHolds, CopyInvariantHolds, PTL

-----------------------------------------------------------------------------
(* A confirmed pause *)

Kept == durable /\ partial # Absent /\ target = <<>>

Stagers == {"upload", "local", "settle"}

\* What the partial is while a pause is asked for, and after.
Pausing ==
  /\ pause = "refused" => row = "errored"
  /\ pause = "ok" => row = "forgotten"
  /\ row = "forgotten" => pause = "ok"
  /\ flow.phase \in {"none", "verifying"} /\ shape.resume => partial # Absent
  /\ ticket["settle"] # "none" /\ flow.settle = "persist" => partial # Absent
  /\ flow.phase = "settling" /\ pause = "asked" /\ ~flow.failure => flow.settle = "persist"
  /\ Result("settle", "ok") /\ flow.settle = "persist" => durable
  /\ \A r \in {"upload", "local"} : Result(r, "paused") => Kept
  /\ flow.phase = "canceling" /\ pause = "asked" /\ "dest" \in flow.acked =>
       worker["upload"] = "ended" /\ Kept
  /\ pause = "ok" /\ ~flow.failure =>
       Kept /\ \A r \in Stagers : worker[r] = "ended" \/ ticket[r] = "none"

\* The staging is touched by a worker that runs, and not by a persisting one.
LEMMA StagingMoves ==
  ASSUME CopyInvariant, AgentSteps
  PROVE  \/ UNCHANGED <<target, partial, durable>>
         \/ Live("upload") \/ Live("local")
         \/ /\ Live("settle") /\ UNCHANGED target
            /\ flow.settle = "persist" => UNCHANGED partial /\ (durable => durable')
<1> USE DEF fileVars, rowVars, laneVars, workVars, netVars
<1>1. CASE LaneSteps
  BY <1>1 DEF LaneSteps, WriteCommand, Spawn, ReceiveCancel, AgentNotices
<1>2. CASE SourceSteps
  <2>1. SettlePartial =>
          /\ Live("settle") /\ UNCHANGED target
          /\ flow.settle = "persist" => UNCHANGED partial /\ (durable => durable')
    BY DEF SettlePartial, Live
  <2>2. QED
    BY <1>2, <2>1 DEF SourceSteps, HashSegment, VerifySource, DeleteSource, ReplaceSource, OpenSource,
         SendSegment, FinishSource, StopSource, FailSource, SourceEnds, NoFileChanges
<1>3. CASE UploadSteps
  BY <1>3 DEF UploadSteps, UploadKeeps, PrepareUpload, StageSegment, StopUpload, FailUpload,
       AskUpload, UploadTimesOut, PublishUpload, UploadDecision, Live
<1>4. CASE LocalSteps
  BY <1>4 DEF LocalSteps, LocalKeeps, LocalAt, CheckLocal, RenameLocal, PrepareLocal, VerifyLocal, StageLocal,
       StagedLocal, StopLocal, FailLocal, LocalTimesOut, PublishLocal, VerifyRemoval, RemoveLocal, LocalDecision, Live
<1>5. QED
  BY <1>1, <1>2, <1>3, <1>4 DEF AgentSteps

\* Only one of the workers that stage is ever asked for.
LEMMA OneStager ==
  ASSUME CopyInvariant
  PROVE  /\ Stagers \subseteq Requests
         /\ \A r \in Stagers : ticket[r] # "none" => \A q \in Stagers \ {r} : ~Live(q) /\ ticket[q] = "none"
         /\ \A r \in Stagers : worker[r] # "absent" => ticket[r] = "written"
         /\ flow.phase \in {"none", "verifying"} => \A r \in Stagers : ~Live(r) /\ ticket[r] = "none"
         /\ flow.phase \in {"verifying", "settling", "canceling"} => ticket["local"] = "none" /\ ~Live("local")
         /\ flow.phase = "local" => ticket["upload"] = "none" /\ ticket["settle"] = "none"
<1>1. {"upload", "local", "settle"} \subseteq Requests
  BY DEF Requests
<1>2. Tickets /\ ticket \in [Requests -> {"none", "queued", "written", "withdrawn"}]
  BY DEF CopyInvariant, CopyTypeOK
<1>3. QED
  BY <1>1, <1>2 DEF Tickets, Stagers, Live, Remote

\* A worker that stages and says it paused leaves a partial, and nothing is published.
LEMMA PausedKeeps ==
  ASSUME CopyInvariant, NEW r \in {"upload", "local"}, Fits(r, "paused")
  PROVE  Kept'
<1>1. /\ worker[r] \in {"staging", "asking"} \/ (r = "local" /\ worker[r] = "verifying")
      /\ durable' /\ UNCHANGED <<partial, target>>
  BY DEF Fits
<1>2. partial # Absent
  BY <1>1 DEF CopyInvariant, Contents
<1>3. target = <<>>
  <2>1. r \in Requests /\ worker[r] # "absent"
    BY <1>1 DEF Requests
  <2>2. r = Publisher
    BY <2>1 DEF CopyInvariant, Tickets, Publisher
  <2>3. QED
    BY <1>1, <2>2 DEF CopyInvariant, Grants
<1>4. QED
  BY <1>1, <1>2, <1>3 DEF Kept

\* A result is on its way because it was before, or because its worker just ended.
LEMMA ResultSaid ==
  ASSUME CopyInvariant, AgentSteps, NEW r \in Requests, NEW out, Result(r, out)'
  PROVE  \/ Result(r, out) /\ worker[r] = "ended"
         \/ worker[r] # "ended" /\ worker'[r] = "ended" /\ out \in Outcomes /\ Fits(r, out)
<1>0. AgentOf(r) \in Agents
  BY DEF AgentOf, Agents
<1>1. Result(r, out) => worker[r] = "ended"
  <2>1. SUFFICES ASSUME NEW i \in DOMAIN box[AgentOf(r)], box[AgentOf(r)][i] = Frame("result", r, out)
                 PROVE  worker[r] = "ended"
    BY DEF Result, Has
  <2>2. box[AgentOf(r)][i].kind = "result" /\ box[AgentOf(r)][i].req = r
    BY <2>1 DEF Frame
  <2>3. QED
    BY <1>0, <2>2 DEF CopyInvariant, Results
<1>2. CASE UNCHANGED box
  BY <1>1, <1>2 DEF Result, Has
<1>3. ASSUME NEW q \in Requests, NEW f \in Frames, box' = [box EXCEPT ![AgentOf(q)] = Append(@, f)],
             worker[q] # "ended", Spoken(q, f), ~Result(r, out)
      PROVE  worker[r] # "ended" /\ worker'[r] = "ended" /\ out \in Outcomes /\ Fits(r, out)
  <2>1. PICK i \in DOMAIN box'[AgentOf(r)] : box'[AgentOf(r)][i] = Frame("result", r, out)
    BY DEF Result, Has
  <2>2. box'[AgentOf(r)][i] = f
    BY <1>0, <1>3, <2>1, NewSaid DEF Result, Has
  <2>3. f.kind = "result" /\ f.req = r /\ f.out = out
    BY <2>1, <2>2 DEF Frame
  <2>4. PICK o \in Outcomes : f = Frame("result", q, o) /\ worker'[q] = "ended" /\ Fits(q, o)
    BY <1>3, <2>3 DEF Spoken
  <2>5. q = r /\ o = out
    BY <2>3, <2>4 DEF Frame
  <2>6. QED
    BY <1>3, <2>4, <2>5
<1>4. QED
  BY <1>1, <1>2, <1>3, AgentsSay DEF Says

\* The agents stage nothing while a pause is settled, and tell when it is durable.
LEMMA AgentsPause ==
  ASSUME CopyInvariant, Pausing, AgentSteps
  PROVE  Pausing'
<1>0. UNCHANGED <<shape, flow, row, pause>>
  BY AgentsDecideNothing
<1>1. /\ Stagers = {"upload", "local", "settle"} /\ Stagers \subseteq Requests
      /\ \A r \in Stagers : ticket[r] # "none" => \A q \in Stagers \ {r} : ~Live(q)
      /\ \A r \in Stagers : worker[r] # "absent" => ticket[r] # "none"
  BY OneStager DEF Stagers
<1>2. (\A r \in Stagers : ~Live(r)) => UNCHANGED <<target, partial, durable>>
  BY <1>1, StagingMoves
<1>3. \A r \in Stagers : worker[r] = "ended" => UNCHANGED <<target, partial, durable>>
  BY <1>1, <1>2 DEF Live
<1>4. ticket["settle"] # "none" /\ flow.settle = "persist" =>
        UNCHANGED <<target, partial>> /\ (durable => durable')
  BY <1>1, StagingMoves
<1>5. \A r \in Stagers :
        /\ worker[r] = "ended" => worker'[r] = "ended"
        /\ ticket'[r] = "none" <=> ticket[r] = "none"
  BY <1>1, WorkersAdvance, TicketChanges
<1>6. flow.phase \in {"none", "verifying"} /\ shape.resume => partial' # Absent
  BY <1>2, OneStager DEF Pausing
<1>7. ticket'["settle"] # "none" /\ flow.settle = "persist" => partial' # Absent
  BY <1>1, <1>4, <1>5 DEF Pausing
<1>8. Result("settle", "ok")' /\ flow.settle = "persist" => durable'
  <2>1. SUFFICES ASSUME Result("settle", "ok")', flow.settle = "persist" PROVE durable'
    OBVIOUS
  <2>2. CASE Result("settle", "ok") /\ worker["settle"] = "ended"
    <3>1. durable
      BY <2>1, <2>2 DEF Pausing
    <3>2. UNCHANGED durable
      BY <1>1, <1>3, <2>2
    <3>3. QED
      BY <3>1, <3>2
  <2>3. CASE Fits("settle", "ok")
    BY <2>1, <2>3 DEF Fits
  <2>4. QED
    BY <1>1, <2>1, <2>2, <2>3, ResultSaid
<1>9. Kept /\ UNCHANGED <<target, partial, durable>> => Kept'
  BY DEF Kept
<1>10. ASSUME NEW r \in {"upload", "local"}, Result(r, "paused")' PROVE Kept'
  <2>1. r \in Requests /\ r \in Stagers
    BY <1>1
  <2>2. CASE Result(r, "paused") /\ worker[r] = "ended"
    <3>1. Kept
      BY <2>2 DEF Pausing
    <3>2. QED
      BY <1>3, <1>9, <2>1, <2>2, <3>1
  <2>3. CASE Fits(r, "paused")
    BY <2>3, PausedKeeps
  <2>4. QED
    BY <1>10, <2>1, <2>2, <2>3, ResultSaid
<1>11. flow.phase = "canceling" /\ pause = "asked" /\ "dest" \in flow.acked =>
         worker'["upload"] = "ended" /\ Kept'
  BY <1>1, <1>3, <1>5, <1>9 DEF Pausing
<1>12. pause = "ok" /\ ~flow.failure =>
         Kept' /\ \A r \in Stagers : worker'[r] = "ended" \/ ticket'[r] = "none"
  <2>1. SUFFICES ASSUME pause = "ok", ~flow.failure
                 PROVE  Kept' /\ \A r \in Stagers : worker'[r] = "ended" \/ ticket'[r] = "none"
    OBVIOUS
  <2>2. Kept /\ \A r \in Stagers : worker[r] = "ended" \/ ticket[r] = "none"
    BY <2>1 DEF Pausing
  <2>3. \A r \in Stagers : ~Live(r)
    BY <1>1, <2>2 DEF Live
  <2>4. QED
    BY <1>2, <1>5, <1>9, <2>2, <2>3
<1>13. QED
  BY <1>0, <1>6, <1>7, <1>8, <1>10, <1>11, <1>12 DEF Pausing

\* The router confirms a pause only on a result that says so.
LEMMA RouterPauses ==
  ASSUME CopyInvariant, Stopping, Pausing, RouterSteps
  PROVE  Pausing'
<1>0. /\ RowStep /\ FlowStep /\ RowPhases /\ flow \in FlowType /\ flow' \in FlowType
      /\ pause \in {"none", "asked", "ok", "refused"}
      /\ UNCHANGED <<shape, target, partial, durable>>
  <2>1. flow' \in FlowType
    BY RouterKeepsTypes DEF CopyTypeOK, FlowType
  <2>2. QED
    BY <2>1, RouterRows, RouterFlow, RouterFacts, RouterLeaves DEF FlowType
<1>1. /\ Stagers = {"upload", "local", "settle"} /\ Stagers \subseteq Requests
      /\ \A r \in Stagers : worker'[r] = worker[r]
      /\ Agents = {"source", "dest"}
  BY RouterAsksAgain DEF Stagers, Requests, Hashes, Agents
<1>2. /\ flow.phase = "settled" => flow'.phase = "settled" /\ row' = row /\ pause' = pause
      /\ flow'.phase \in {"none", "verifying"} => flow.phase \in {"none", "verifying"}
      /\ flow'.phase = "canceling" /\ flow.phase = "canceling" => pause' = pause
      /\ pause' # pause =>
           \/ pause' = "asked" /\ row' = "canceling" /\ row = "active"
           \/ pause' = "refused" /\ row' = "errored"
           \/ pause' = "ok" /\ row' = "forgotten" /\ pause = "asked"
      /\ row' # row /\ row' = "forgotten" => pause' = "ok"
  BY <1>0 DEF RowStep, GoesOn, Begins, Admits, IsCanceled, Deletes, Finishes, RowPhases, Final, Remote
<1>3. /\ pause' = "refused" => row' = "errored"
      /\ pause' = "ok" => row' = "forgotten"
      /\ row' = "forgotten" => pause' = "ok"
  BY <1>0, <1>2 DEF Pausing, RowPhases, Final
<1>4. flow'.phase \in {"none", "verifying"} /\ shape'.resume => partial' # Absent
  BY <1>0, <1>2 DEF Pausing
<1>5. /\ ticket["settle"] # "none" => flow.phase \in {"settling", "settled"}
      /\ flow.phase = "verifying" => shape.resume
  BY DEF CopyInvariant, Tickets, Verified
<1>6. \A r \in Stagers : ticket[r] = "none" => ticket'[r] = "none" \/ Made(r)
  <2>1. CASE TicketMove({}) \/ TicketMove(Hashes)
    BY <1>1, <2>1 DEF TicketMove, Stagers, Hashes
  <2>2. ASSUME NEW q \in Requests, TicketMove({q}), Made(q)
        PROVE  \A r \in Stagers : ticket[r] = "none" => ticket'[r] = "none" \/ Made(r)
    BY <1>1, <2>2 DEF TicketMove
  <2>3. QED
    BY <2>1, <2>2, RouterTickets DEF TicketStep
<1>7. ticket'["settle"] # "none" /\ flow'.settle = "persist" => partial' # Absent
  <2>1. CASE ticket["settle"] # "none"
    BY <1>0, <1>5, <2>1 DEF Pausing, FlowStep, SettleStep
  <2>2. CASE ticket["settle"] = "none"
    BY <1>0, <1>1, <1>5, <1>6, <2>2 DEF Pausing, Made
  <2>3. QED
    BY <2>1, <2>2
<1>8. flow'.phase = "settling" /\ pause' = "asked" /\ ~flow'.failure => flow'.settle = "persist"
  <2>1. SUFFICES ASSUME flow'.phase = "settling", pause' = "asked", ~flow'.failure
                 PROVE  flow'.settle = "persist"
    OBVIOUS
  <2>2. CASE flow.phase = "settling"
    <3>1. flow'.settle = flow.settle /\ flow'.failure = flow.failure
      BY <1>0, <2>1, <2>2 DEF FlowStep, SettleStep
    <3>2. row = "canceling"
      BY <1>0, <2>1, <2>2, <3>1 DEF RowPhases
    <3>3. pause = "asked"
      BY <1>2, <2>1, <3>2
    <3>4. QED
      BY <2>1, <2>2, <3>1, <3>3 DEF Pausing
  <2>3. CASE flow.phase # "settling"
    <3>1. flow.phase = "verifying" /\ (flow'.settle = "persist" \/ UNCHANGED pause)
      BY <1>0, <2>1, <2>3 DEF FlowStep, SettleStep
    <3>2. pause # "asked"
      BY <1>0, <3>1 DEF RowPhases
    <3>3. QED
      BY <2>1, <3>1, <3>2
  <2>4. QED
    BY <2>2, <2>3
<1>9. Result("settle", "ok")' /\ flow'.settle = "persist" => durable'
  <2>1. SUFFICES ASSUME Result("settle", "ok")', flow'.settle = "persist" PROVE durable
    BY <1>0
  <2>2. Result("settle", "ok")
    BY <1>1, <2>1, SaysNoMore
  <2>3. worker["settle"] = "ended"
    <3>1. PICK i \in DOMAIN box["dest"] : box["dest"][i] = Frame("result", "settle", "ok")
      BY <2>2 DEF Result, Has, AgentOf
    <3>2. box["dest"][i].kind = "result" /\ box["dest"][i].req = "settle"
      BY <3>1 DEF Frame
    <3>3. QED
      BY <1>1, <3>2 DEF CopyInvariant, Results
  <2>4. flow.phase # "verifying"
    BY <1>1, <1>5, <2>3, OneStager
  <2>5. QED
    BY <1>0, <2>1, <2>2, <2>4 DEF Pausing, FlowStep, SettleStep
<1>10. \A r \in {"upload", "local"} : Result(r, "paused")' => Kept'
  BY <1>0, <1>1, SaysNoMore DEF Pausing, Kept
<1>11. HeardOf("dest") /\ pause = "asked" => Result("upload", "paused") /\ worker["upload"] = "ended" /\ Kept
  BY <1>1, HeardIsOver DEF HeardOf, WorkerOf, Pausing
<1>12. flow'.phase = "canceling" /\ pause' = "asked" /\ "dest" \in flow'.acked =>
         worker'["upload"] = "ended" /\ Kept'
  <2>1. SUFFICES ASSUME flow'.phase = "canceling", pause' = "asked", "dest" \in flow'.acked
                 PROVE  worker["upload"] = "ended" /\ Kept
    BY <1>0, <1>1 DEF Kept
  <2>2. CASE flow'.acked = flow.acked
    <3>1. flow.phase = "canceling"
      BY <1>2, <2>1, <2>2 DEF Stopping
    <3>2. QED
      BY <1>2, <2>1, <2>2, <3>1 DEF Pausing
  <2>3. ASSUME flow.phase = "canceling", NEW side \in Agents, HeardOf(side), flow'.acked = flow.acked \cup {side}
        PROVE  worker["upload"] = "ended" /\ Kept
    BY <1>1, <1>2, <1>11, <2>1, <2>3 DEF Pausing
  <2>4. QED
    BY <1>0, <2>1, <2>2, <2>3 DEF FlowStep, AckStep
<1>13. ASSUME pause' = "ok", ~flow'.failure
       PROVE  Kept' /\ \A r \in Stagers : worker'[r] = "ended" \/ ticket'[r] = "none"
  <2>0. flow'.failure = flow.failure /\ row' = "forgotten"
    <3>1. row' = "forgotten"
      BY <1>3, <1>13
    <3>2. flow.phase = "verifying" => pause # "ok" /\ row = "active"
      BY <1>0 DEF Pausing, RowPhases
    <3>3. ~(flow.phase = "verifying" /\ pause' \in {"asked", pause})
      BY <1>13, <3>2
    <3>4. QED
      BY <1>0, <3>1, <3>3 DEF FlowStep, SettleStep
  <2>1. SUFFICES /\ Kept /\ \A r \in Stagers : worker[r] = "ended" \/ ticket[r] = "none"
                 /\ flow.phase \in {"settled", "canceling", "settling", "local"}
    BY <1>0, <1>1, <1>6 DEF Kept, Made, Stagers
  <2>2. CASE pause = "ok"
    BY <1>0, <1>13, <2>0, <2>2 DEF Pausing, RowPhases, Final
  <2>3. CASE pause # "ok"
    <3>0. pause = "asked" /\ row' # row
      BY <1>0, <1>2, <1>13, <2>0, <2>3 DEF Pausing
    <3>1. CASE flow.phase = "canceling" /\ \E side \in Agents : HeardOf(side) /\ flow.acked \cup {side} = Agents
      <4>1. worker["upload"] = "ended" /\ Kept
        BY <1>1, <1>11, <3>0, <3>1 DEF Pausing
      <4>2. ticket["settle"] = "none" /\ ticket["local"] = "none"
        BY <1>1, <3>1, <4>1, OneStager
      <4>3. QED
        BY <1>1, <3>1, <4>1, <4>2
    <3>2. CASE flow.phase = "settling" /\ ResultOf("settle", "ok")
      <4>1. Result("settle", "ok") /\ worker["settle"] = "ended"
        BY <1>1, <3>2, TakenResult
      <4>2. ticket["settle"] # "none" /\ ticket["upload"] = "none" /\ ticket["local"] = "none"
        BY <1>1, <4>1, OneStager
      <4>3. durable /\ partial # Absent
        BY <1>13, <2>0, <3>0, <3>2, <4>1, <4>2 DEF Pausing
      <4>4. ~shape.local /\ worker["upload"] = "absent"
        BY <1>1, <3>2, <4>2, OneStager DEF CopyInvariant, Tickets
      <4>5. target = <<>>
        BY <4>4 DEF CopyInvariant, Grants, Publisher
      <4>6. QED
        BY <1>1, <3>2, <4>1, <4>2, <4>3, <4>5 DEF Kept
    <3>3. CASE flow.phase = "local" /\ \E out : Heard("local", out) /\ out = "paused"
      <4>1. Result("local", "paused") /\ worker["local"] = "ended"
        BY <1>1, <3>3, HeardIsOver
      <4>2. QED
        BY <1>1, <3>3, <4>1, OneStager DEF Pausing
    <3>4. QED
      BY <1>0, <2>0, <3>0, <3>1, <3>2, <3>3 DEF FlowStep, EndStep
  <2>4. QED
    BY <2>2, <2>3
<1>14. QED
  BY <1>3, <1>4, <1>7, <1>8, <1>9, <1>10, <1>12, <1>13 DEF Pausing

\* What is lost on the way confirms nothing.
LEMMA NetPauses ==
  ASSUME CopyInvariant, Pausing, NetSteps
  PROVE  Pausing'
<1>1. UNCHANGED <<shape, flow, row, pause, ticket, worker, target, partial, durable>>
  BY NetLeaves
<1>2. ASSUME NEW r \in Requests, NEW out, Result(r, out)' PROVE Result(r, out)
  <2>1. AgentOf(r) \in Agents
    BY DEF AgentOf, Agents
  <2>2. PICK i \in DOMAIN box'[AgentOf(r)] : box'[AgentOf(r)][i] = Frame("result", r, out)
    BY <1>2 DEF Result, Has
  <2>3. Frame("result", r, out) # Frame("lost", "none", "none")
    BY DEF Frame
  <2>4. QED
    BY <2>1, <2>2, <2>3, NetLeaves DEF Result, Has
<1>3. {"settle", "upload", "local"} \subseteq Requests
  BY DEF Requests
<1>4. QED
  BY <1>1, <1>2, <1>3 DEF Pausing, Kept

\* So the pause is settled as it was asked for.
LEMMA PausingHolds == CopySpec => []Pausing
<1>1. CopyInit => Pausing
  <2> SUFFICES ASSUME CopyInit PROVE Pausing
    OBVIOUS
  <2>1. /\ flow.phase = "none" /\ pause = "none" /\ row = "none" /\ ticket["settle"] = "none"
        /\ \A a \in Agents : box[a] = <<>>
        /\ shape.resume => partial # Absent
    BY DEF CopyInit, Requests
  <2>2. \A r, out : ~Result(r, out)
    BY <2>1 DEF Result, Has, AgentOf, Agents
  <2>3. QED
    BY <2>1, <2>2 DEF Pausing
<1>2. CopyInvariant /\ Stopping /\ Pausing /\ [CopyNext]_vars => Pausing'
  <2>1. Pausing /\ UNCHANGED vars => Pausing'
    BY DEF Pausing, Kept, Result, Has, vars, laneVars, workVars, rowVars, fileVars
  <2>2. QED
    BY <2>1, StepKinds, RouterPauses, AgentsPause, NetPauses
<1>3. QED
  BY <1>1, <1>2, CopyInvariantHolds, StoppingHolds, PTL DEF CopySpec

\* What the router may send out of turn, and when.
Queued(a, f) ==
  \/ /\ HandlePublishRequest(a)
     /\ f = Frame("decision", Publisher, IF Authorizes THEN "allowed" ELSE "denied")
  \/ /\ f.kind = "cancel" /\ AgentOf(f.req) = a
     /\ \/ f.req \in Hashes
        \/ row' = "errored"
        \/ \E b \in Agents : HandleLost(b)
        \/ row' = "canceling" /\ (f.req = "upload" => f.out = "canceled" \/ pause' = "asked")

LaneStep ==
  \A a \in Agents :
    \/ urgent'[a] = urgent[a]
    \/ \E f \in Urgents : urgent'[a] = Append(urgent[a], f) /\ Queued(a, f)

\* At most one frame is added to a lane.
LEMMA RouterQueues ==
  ASSUME CopyInvariant, RouterSteps
  PROVE  LaneStep
<1> USE DEF laneVars
<1>0. urgent \in [Agents -> Seq(Urgents)]
  BY DEF CopyInvariant, CopyTypeOK
<1>1. UNCHANGED urgent => LaneStep
  BY DEF LaneStep
<1>2. ASSUME NEW why, IsReason(why), SendCancels(why),
             \/ DOMAIN why \subseteq Hashes
             \/ row' = "errored"
             \/ \E b \in Agents : HandleLost(b)
             \/ row' = "canceling" /\ ("upload" \in DOMAIN why => why["upload"] = "canceled" \/ pause' = "asked")
      PROVE  LaneStep
  <2>1. SUFFICES ASSUME NEW a \in Agents, urgent'[a] # urgent[a]
                 PROVE  \E f \in Urgents : urgent'[a] = Append(urgent[a], f) /\ Queued(a, f)
    BY DEF LaneStep
  <2>2. Reached(a, why) # {}
    BY <1>2, <2>1 DEF SendCancels
  <2>3. PICK r : r = CHOOSE q \in Reached(a, why) : TRUE
    OBVIOUS
  <2>4. r \in Reached(a, why)
    BY <2>2, <2>3
  <2>5. r \in DOMAIN why /\ AgentOf(r) = a /\ r \in Requests /\ why[r] \in Reasons
    BY <1>2, <2>4 DEF Reached, IsReason
  <2>6. urgent'[a] = Append(urgent[a], Frame("cancel", r, why[r]))
    BY <1>2, <2>2, <2>3 DEF SendCancels
  <2>7. /\ Frame("cancel", r, why[r]) \in Urgents /\ Frame("cancel", r, why[r]).kind = "cancel"
        /\ Frame("cancel", r, why[r]).req = r /\ Frame("cancel", r, why[r]).out = why[r]
    BY <2>5, UrgentTyped DEF Frame
  <2>8. Queued(a, Frame("cancel", r, why[r]))
    BY <1>2, <2>5, <2>7 DEF Queued
  <2>9. QED
    BY <2>6, <2>7, <2>8
<1>3. /\ IsReason(PendingHashes) /\ IsReason(Nobody) /\ DOMAIN PendingHashes \subseteq Hashes
      /\ \A why \in Reasons : IsReason(Release(why))
      /\ \A why \in Reasons : \A rs \in SUBSET Requests : IsReason([r \in rs |-> why])
      /\ {"canceled", "paused", "disconnected"} = Reasons
      /\ {"local"} \in SUBSET Requests /\ {"upload"} \in SUBSET Requests
      /\ {"upload"} \cup {} \in SUBSET Requests /\ {"upload"} \cup {"download"} \in SUBSET Requests
  BY ReleaseTyped DEF Reasons, Requests, PendingHashes
<1>4. Start \/ StartRefused \/ HandleVerification => UNCHANGED urgent
  BY DEF Start, StartRefused, HandleVerification
<1>5. ASSUME NEW why \in Reasons, CancelRemote(why) \/ CancelLocal(why), why = "canceled" \/ pause' = "asked"
      PROVE  LaneStep
  <2>1. row' = "canceling" /\ \E rs \in SUBSET Requests : SendCancels([r \in rs |-> why])
    BY <1>3, <1>5 DEF CancelRemote, CancelLocal, Cancels
  <2>2. QED
    BY <1>2, <1>3, <1>5, <2>1
<1>6. ASSUME NEW failure, NEW asked, SettleVerifying(failure, asked) PROVE LaneStep
  BY <1>2, <1>3, <1>6 DEF SettleVerifying
<1>7. UserCancel \/ UserPause => LaneStep
  BY <1>1, <1>3, <1>5, <1>6 DEF UserCancel, UserPause
<1>8. EndFailed => LaneStep
  BY <1>2, <1>3 DEF EndFailed, Ends, Cancels
<1>9. \A r, out : HandleDigest(r, out) \/ HandleHashFailure(r, out) => LaneStep
  BY <1>1, <1>6, <1>8 DEF HandleDigest, HandleHashFailure
<1>10. ASSUME NEW why \in Reasons, Ends("errored"), Cancels([r \in {"upload"} |-> why]) PROVE LaneStep
  BY <1>2, <1>3, <1>10 DEF Ends, Cancels
<1>11. ASSUME NEW out, SourceFinished(out) PROVE LaneStep
  <2>1. \/ UNCHANGED urgent
        \/ \E why \in {"canceled", "disconnected"} : Ends("errored") /\ Cancels([r \in {"upload"} |-> why])
    BY <1>11 DEF SourceFinished
  <2>2. QED
    BY <1>1, <1>3, <1>10, <2>1
<1>12. ASSUME NEW out, DestinationFinished(out) PROVE LaneStep
  BY <1>1, <1>8, <1>12 DEF DestinationFinished, BeginDeletion
<1>13. ASSUME HandleReady PROVE LaneStep
  BY <1>1, <1>3, <1>10, <1>13 DEF HandleReady
<1>14. ASSUME RouteWithdrawn PROVE LaneStep
  BY <1>1, <1>11, <1>12, <1>14 DEF RouteWithdrawn
<1>15. \A out : HandleSettled(out) \/ HandleSource(out) \/ HandleDestination(out)
               \/ HandleDeletion(out) \/ HandleLocal(out) => LaneStep
  BY <1>1, <1>11, <1>12 DEF HandleSettled, HandleSource, HandleDestination, HandleDeletion, HandleLocal
<1>16. \A a \in Agents : DropResult(a) => LaneStep
  BY <1>1 DEF DropResult
<1>17. ASSUME NEW a \in Agents, HandleLost(a) PROVE LaneStep
  BY <1>2, <1>3, <1>17 DEF HandleLost
<1>18. ASSUME NEW a \in Agents, HandlePublishRequest(a) PROVE LaneStep
  <2>1. Publisher \in {"upload", "local"} /\ (IF Authorizes THEN "allowed" ELSE "denied") \in {"allowed", "denied"}
    BY DEF Publisher
  <2>2. PICK f : f = Frame("decision", Publisher, IF Authorizes THEN "allowed" ELSE "denied")
    OBVIOUS
  <2>3. f \in Urgents
    BY <2>1, <2>2, UrgentTyped
  <2>4. urgent' = urgent \/ urgent' = [urgent EXCEPT ![a] = Append(@, f)]
    BY <1>18, <2>2 DEF HandlePublishRequest
  <2>5. QED
    BY <1>0, <1>18, <2>2, <2>3, <2>4 DEF LaneStep, Queued
<1>19. QED
  BY <1>1, <1>4, <1>7, <1>9, <1>13, <1>14, <1>15, <1>16, <1>17, <1>18 DEF RouterSteps, RouterWorks

\* What is in a lane was in it, or is what the router has just sent.
LEMMA NewQueued ==
  ASSUME CopyInvariant, RouterSteps, NEW a \in Agents, NEW i \in DOMAIN urgent'[a]
  PROVE  \/ i \in DOMAIN urgent[a] /\ urgent'[a][i] = urgent[a][i]
         \/ i = Len(urgent[a]) + 1 /\ i \notin DOMAIN urgent[a] /\ Queued(a, urgent'[a][i])
<1>1. urgent[a] \in Seq(Urgents)
  BY DEF CopyInvariant, CopyTypeOK
<1>2. CASE urgent'[a] = urgent[a]
  BY <1>2
<1>3. ASSUME NEW f \in Urgents, urgent'[a] = Append(urgent[a], f), Queued(a, f)
      PROVE  \/ i \in DOMAIN urgent[a] /\ urgent'[a][i] = urgent[a][i]
             \/ i = Len(urgent[a]) + 1 /\ i \notin DOMAIN urgent[a] /\ Queued(a, urgent'[a][i])
  BY <1>1, <1>3, AddedFrame
<1>4. QED
  BY <1>2, <1>3, RouterQueues DEF LaneStep

\* An agent reads the head of its lane, or leaves it.
Reads(a, f) == urgent[a] # <<>> /\ Head(urgent[a]) = f /\ urgent'[a] = Tail(urgent[a])

\* The agents' steps, by what they do to the lanes and tokens.
LEMMA AgentsRead ==
  ASSUME CopyInvariant, AgentSteps, \A a \in Agents : conn[a] = "up"
  PROVE  \/ UNCHANGED <<urgent, token, reason>>
         \/ \E r \in Requests, why \in Reasons : ReceiveCancel(r, why)
         \/ \E r \in {"upload", "local"}, answer \in {"allowed", "denied"} :
              Received("decision", r, answer) /\ UNCHANGED <<token, reason>>
<1> USE DEF fileVars, rowVars, laneVars, workVars, netVars
<1>1. CASE LaneSteps
  <2>1. ~(\E a \in Agents : AgentNotices(a))
    BY DEF AgentNotices
  <2>2. QED
    BY <1>1, <2>1 DEF LaneSteps, WriteCommand, Spawn
<1>2. CASE SourceSteps
  BY <1>2 DEF SourceSteps, HashSegment, SettlePartial, VerifySource, DeleteSource, ReplaceSource, OpenSource,
         SendSegment, FinishSource, StopSource, FailSource, SourceEnds
<1>3. CASE UploadSteps
  BY <1>3 DEF UploadSteps, UploadKeeps, PrepareUpload, StageSegment, StopUpload, FailUpload,
       AskUpload, UploadTimesOut, PublishUpload, UploadDecision
<1>4. CASE LocalSteps
  BY <1>4 DEF LocalSteps, LocalKeeps, CheckLocal, RenameLocal, PrepareLocal, VerifyLocal, StageLocal,
       StagedLocal, StopLocal, FailLocal, LocalTimesOut, PublishLocal, VerifyRemoval, RemoveLocal, LocalDecision
<1>5. QED
  BY <1>1, <1>2, <1>3, <1>4 DEF AgentSteps

\* What is read moves the rest up.
LEMMA ReadShifts ==
  ASSUME CopyInvariant, NEW r \in Requests, NEW kind, NEW out, Received(kind, r, out), NEW a \in Agents
  PROVE  /\ 1 \in DOMAIN urgent[AgentOf(r)] /\ urgent[AgentOf(r)][1] = Frame(kind, r, out)
         /\ AgentOf(r) \in Agents /\ worker[r] # "absent"
         /\ a # AgentOf(r) => urgent'[a] = urgent[a]
         /\ a = AgentOf(r) =>
              /\ Len(urgent'[a]) = Len(urgent[a]) - 1
              /\ \A i \in DOMAIN urgent'[a] :
                   i \in Nat /\ i >= 1 /\ i + 1 \in DOMAIN urgent[a] /\ urgent'[a][i] = urgent[a][i + 1]
<1>1. urgent \in [Agents -> Seq(Urgents)] /\ AgentOf(r) \in Agents
  BY DEF CopyInvariant, CopyTypeOK, AgentOf, Agents
<1>2. /\ urgent[AgentOf(r)] \in Seq(Urgents) /\ urgent[AgentOf(r)] # <<>> /\ worker[r] # "absent"
      /\ Head(urgent[AgentOf(r)]) = Frame(kind, r, out)
      /\ urgent' = [urgent EXCEPT ![AgentOf(r)] = Tail(@)]
  BY <1>1 DEF Received
<1>3. urgent'[AgentOf(r)] = Tail(urgent[AgentOf(r)]) /\ (a # AgentOf(r) => urgent'[a] = urgent[a])
  BY <1>1, <1>2
<1>4. Len(Tail(urgent[AgentOf(r)])) = Len(urgent[AgentOf(r)]) - 1
  BY <1>2
<1>5. QED
  BY <1>1, <1>2, <1>3, <1>4, TakenFrame

-----------------------------------------------------------------------------
(* A copy that meets no trouble *)

Uncanceled == row \in {"none", "active", "committed"}

Carriers == {"upload", "download", "local"}

IsPublish(f) == f.kind = "publish"

IsDecision(f) == f.kind = "decision"

Undecided == \A a \in Agents : \A i \in DOMAIN urgent[a] : ~IsDecision(urgent[a][i])

\* The publisher is answered once, and positively.
Decided ==
  \A a \in Agents : \A i \in DOMAIN urgent[a] : IsDecision(urgent[a][i]) =>
    /\ urgent[a][i].out = "allowed" /\ worker[Publisher] \in Asking /\ a = AgentOf(Publisher)
    /\ \A j \in DOMAIN urgent[a] : IsDecision(urgent[a][j]) => i = j

\* It asks once, while the row is active.
Requested ==
  \A a \in Agents : \A i \in DOMAIN box[a] : IsPublish(box[a][i]) =>
    /\ row = "active" /\ worker[Publisher] \in Asking /\ a = AgentOf(Publisher) /\ Undecided
    /\ \A j \in DOMAIN box[a] : IsPublish(box[a][j]) => i = j

PastStaging == Asking \cup {"publishing", "renaming", "removing", "deleting", "ended"}

\* Nobody was told to stop, and whoever ended has succeeded.
Unstopped ==
  /\ \A r \in Carriers : ~token[r] /\ \A out \in Outcomes : Result(r, out) => out = "ok"
  /\ \A a \in Agents : \A i \in DOMAIN urgent[a] :
       urgent[a][i].kind = "cancel" => urgent[a][i].req \notin Carriers
  /\ Decided /\ Requested
  /\ row = "committed" => worker[Publisher] \in PastStaging

Calm ==
  /\ losses = 0 /\ source \notin {"other", "late"} /\ ~flow.failure
  /\ row = "errored" => pause = "refused"
  /\ \A r \in {"settle", "delete"}, out \in Outcomes : Result(r, out) => out = "ok"
  /\ flow.phase = "verifying" => \A h \in Hashes, out \in Outcomes : Result(h, out) => out \in Marks
  /\ Uncanceled => Unstopped

\* Trouble stays, and no source is replaced without any.
LEMMA TroubleStays ==
  ASSUME AgentSteps
  PROVE  /\ trouble' = "none" => trouble = "none"
         /\ source' \in {source, "gone"} \/ trouble' = "real"
<1> USE DEF Hindered, fileVars
<1>1. LaneSteps => UNCHANGED <<trouble, source>>
  BY DEF LaneSteps, WriteCommand, Spawn, ReceiveCancel, AgentNotices
<1>2. SourceSteps => /\ trouble' = trouble \/ trouble' = "real"
                     /\ source' \in {source, "gone"} \/ trouble' = "real"
  BY DEF SourceSteps, HashSegment, SettlePartial, VerifySource, DeleteSource, ReplaceSource, OpenSource,
         SendSegment, FinishSource, StopSource, FailSource, SourceEnds, NoFileChanges
<1>3. UploadSteps => UNCHANGED source /\ (trouble' = trouble \/ trouble' = "real")
  BY DEF UploadSteps, UploadKeeps, PrepareUpload, StageSegment, StopUpload, FailUpload,
         AskUpload, UploadTimesOut, PublishUpload, UploadDecision, Stops, Fails
<1>4. LocalSteps => /\ trouble' = trouble \/ trouble' = "real" \/ trouble' = "fallback"
                    /\ source' \in {source, "gone"}
  BY DEF LocalSteps, CheckLocal, RenameLocal, PrepareLocal, VerifyLocal, StageLocal,
         StagedLocal, StopLocal, FailLocal, LocalTimesOut, PublishLocal, VerifyRemoval, RemoveLocal,
         LocalDecision, Stops, Fails
<1>5. QED
  BY <1>1, <1>2, <1>3, <1>4 DEF AgentSteps

\* A publisher that asks waits for its answer, and does not stage again.
LEMMA AskersWait ==
  ASSUME CopyInvariant, AgentSteps, trouble' = "none"
  PROVE  /\ worker[Publisher] \in Asking =>
              \/ worker'[Publisher] \in Asking
              \/ token[Publisher]
              \/ \E answer : Received("decision", Publisher, answer)
         /\ worker[Publisher] \in PastStaging => worker'[Publisher] \in PastStaging
<1>0. /\ worker \in [Requests -> Steps] /\ Publisher \in {"upload", "local"}
      /\ {"upload", "local"} \subseteq Requests
      /\ Asking = {"asking", "askingRename"}
      /\ PastStaging = Asking \cup {"publishing", "renaming", "removing", "deleting", "ended"}
  BY ContentsFacts DEF Publisher, Requests, Asking, PastStaging
<1>1. CASE UNCHANGED worker
  BY <1>1
<1>2. \A r \in Requests : \A step : worker' = [worker EXCEPT ![r] = step] =>
        IF r = Publisher THEN worker'[Publisher] = step ELSE worker'[Publisher] = worker[Publisher]
  BY <1>0
<1>3. CASE LaneSteps
  <2>1. \A r \in Requests : Spawn(r) => worker[r] = "absent" /\ \E step : worker' = [worker EXCEPT ![r] = step]
    BY DEF Spawn
  <2>2. \A r \in Requests : Spawn(r) => r # Publisher \/ worker[Publisher] \notin PastStaging
    BY <1>0, <2>1
  <2>3. UNCHANGED worker \/ \E r \in Requests : Spawn(r)
    BY <1>3 DEF LaneSteps, WriteCommand, ReceiveCancel, AgentNotices, workVars
  <2>4. QED
    BY <1>0, <1>1, <1>2, <2>1, <2>2, <2>3
<1>4. CASE SourceSteps
  <2>1. \/ UNCHANGED worker
        \/ \E r \in Requests \ {"upload", "local"} : \E step : worker' = [worker EXCEPT ![r] = step]
    BY <1>4 DEF SourceSteps, HashSegment, SettlePartial, VerifySource, DeleteSource, ReplaceSource, OpenSource,
         SendSegment, FinishSource, StopSource, FailSource, SourceEnds, Answers, Requests, Hashes, workVars
  <2>2. QED
    BY <1>0, <1>1, <1>2, <2>1
<1>5. CASE UploadSteps
  <2>0. "upload" \in Requests /\ (worker["upload"] \in {"publishing", "asking"} => "upload" = Publisher)
    BY <1>0, ContentsFacts DEF Publisher
  <2>1. CASE PrepareUpload \/ StageSegment \/ AskUpload
    <3>1. worker["upload"] \notin PastStaging /\ (UNCHANGED worker \/ \E step : worker' = [worker EXCEPT !["upload"] = step])
      BY <1>0, <2>1 DEF PrepareUpload, StageSegment, AskUpload, Answers
    <3>2. QED
      BY <1>0, <1>1, <1>2, <3>1
  <2>2. CASE PublishUpload \/ FailUpload
    <3>1. worker["upload"] \notin Asking /\ worker' = [worker EXCEPT !["upload"] = "ended"]
      BY <1>0, <2>2 DEF PublishUpload, FailUpload, Fails, Answers
    <3>2. QED
      BY <1>0, <1>2, <3>1
  <2>3. CASE StopUpload
    <3>1. token["upload"] /\ worker' = [worker EXCEPT !["upload"] = "ended"]
      BY <2>3 DEF StopUpload, Stops, Answers
    <3>2. QED
      BY <1>0, <1>2, <3>1
  <2>4. CASE UploadTimesOut
    BY <2>4 DEF UploadTimesOut, Hindered
  <2>5. ASSUME NEW answer \in {"allowed", "denied"}, UploadDecision(answer)
        PROVE  /\ Received("decision", "upload", answer)
               /\ \/ UNCHANGED worker
                  \/ \E step \in {"publishing", "ended"} : worker' = [worker EXCEPT !["upload"] = step]
    BY <2>5 DEF UploadDecision, Stops, Answers
  <2>6. CASE \E answer \in {"allowed", "denied"} : UploadDecision(answer)
    BY <1>0, <1>1, <1>2, <2>5, <2>6
  <2>7. QED
    BY <1>5, <2>1, <2>2, <2>3, <2>4, <2>6 DEF UploadSteps
<1>6. CASE LocalSteps
  <2>1. CASE CheckLocal \/ PrepareLocal \/ VerifyLocal \/ StageLocal \/ StagedLocal
    <3>1. worker["local"] \notin PastStaging /\ (UNCHANGED worker \/ \E step : worker' = [worker EXCEPT !["local"] = step])
      BY <1>0, <2>1 DEF CheckLocal, PrepareLocal, VerifyLocal, StageLocal, StagedLocal, Answers,
         LocalAt, LocalGoes
    <3>2. QED
      BY <1>0, <1>1, <1>2, <3>1
  <2>2. CASE PublishLocal \/ RenameLocal \/ VerifyRemoval \/ RemoveLocal \/ FailLocal
    <3>1. /\ worker["local"] \notin Asking
          /\ \E step \in {"removing", "deleting", "ended"} :
               worker' = [worker EXCEPT !["local"] = step]
      <4>1. trouble' # "fallback" /\ trouble' # "real"
        OBVIOUS
      <4>2. PublishLocal \/ VerifyRemoval \/ RemoveLocal \/ FailLocal =>
              /\ worker["local"] \notin Asking
              /\ \E step \in {"removing", "deleting", "ended"} :
                   worker' = [worker EXCEPT !["local"] = step]
        BY <1>0 DEF PublishLocal, VerifyRemoval, RemoveLocal, FailLocal, Fails, Answers, LocalAt, LocalGoes
      <4>3. RenameLocal =>
              /\ worker["local"] \notin Asking
              /\ \/ worker' = [worker EXCEPT !["local"] = "ended"]
                 \/ trouble' = IF trouble = "none" THEN "fallback" ELSE trouble
        BY <1>0 DEF RenameLocal, Answers, LocalAt, LocalGoes
      <4>4. trouble = "none"
        BY TroubleStays
      <4>5. QED
        BY <2>2, <4>1, <4>2, <4>3, <4>4
    <3>2. QED
      BY <1>0, <1>2, <3>1
  <2>3. CASE StopLocal
    <3>1. token["local"] /\ worker' = [worker EXCEPT !["local"] = "ended"]
      BY <2>3 DEF StopLocal, Stops, Answers
    <3>2. QED
      BY <1>0, <1>2, <3>1
  <2>4. CASE LocalTimesOut
    BY <2>4 DEF LocalTimesOut, Hindered
  <2>5. ASSUME NEW answer \in {"allowed", "denied"}, LocalDecision(answer)
        PROVE  /\ Received("decision", "local", answer)
               /\ \/ UNCHANGED worker
                  \/ \E step \in {"publishing", "renaming", "ended"} : worker' = [worker EXCEPT !["local"] = step]
    BY <2>5 DEF LocalDecision, LocalGoes, Stops, Answers
  <2>6. CASE \E answer \in {"allowed", "denied"} : LocalDecision(answer)
    BY <1>0, <1>1, <1>2, <2>5, <2>6
  <2>7. QED
    BY <1>6, <2>1, <2>2, <2>3, <2>4, <2>6 DEF LocalSteps
<1>7. QED
  BY <1>3, <1>4, <1>5, <1>6 DEF AgentSteps

\* What an agent reads out of turn is at the head of its lane.
LEMMA HeadRead ==
  ASSUME CopyInvariant, NEW r \in Requests, NEW kind, NEW out, Received(kind, r, out)
  PROVE  /\ 1 \in DOMAIN urgent[AgentOf(r)] /\ urgent[AgentOf(r)][1] = Frame(kind, r, out)
         /\ AgentOf(r) \in Agents /\ worker[r] # "absent"
         /\ Len(urgent'[AgentOf(r)]) = Len(urgent[AgentOf(r)]) - 1
<1>1. AgentOf(r) \in Agents
  BY DEF AgentOf, Agents
<1>2. QED
  BY <1>1, ReadShifts

\* While the source is the captured one or was moved away, whoever still sends or
\* copies has opened it.
LEMMA SourceIsThere ==
  ASSUME CopyInvariant, source \notin {"other", "late", "captured"}, NEW r \in Requests,
         worker[r] # "ended", ticket[r] = "written"
  PROVE  /\ r \notin {"download", "local"}
         /\ flow.phase # "verifying"
<1>1. source = "gone"
  BY DEF CopyInvariant, CopyTypeOK, Versions
<1>2. target # <<>> /\ worker[Publisher] = "ended" /\ (~shape.local => worker["delete"] = "ended")
  BY <1>1 DEF CopyInvariant, Grants
<1>3. /\ r = "local" => shape.local
      /\ r = "download" => ~shape.local
  BY DEF CopyInvariant, Tickets
<1>4. r # "local"
  BY <1>2, <1>3 DEF Publisher
<1>5. r # "download"
  <2>1. SUFFICES ASSUME r = "download" PROVE FALSE
    OBVIOUS
  <2>2. worker["upload"] = "ended"
    BY <1>2, <1>3, <2>1 DEF Publisher
  <2>3. worker["download"] = "ended"
    BY <1>2, <2>2 DEF CopyInvariant, Contents
  <2>4. QED
    BY <2>1, <2>3
<1>6. flow.phase # "verifying"
  <2>1. SUFFICES ASSUME flow.phase = "verifying" PROVE FALSE
    OBVIOUS
  <2>2. ~shape.local /\ ticket["upload"] = "none"
    BY <2>1 DEF CopyInvariant, Tickets, Remote
  <2>3. worker["upload"] = "absent"
    BY <2>2, Zenon DEF CopyInvariant, Tickets, Requests
  <2>4. QED
    BY <1>2, <2>2, <2>3 DEF Publisher
<1>7. QED
  BY <1>4, <1>5, <1>6

\* What an agent answers as long as nothing went wrong.
LEMMA AgentsSucceed ==
  ASSUME CopyInvariant, Stopping, Calm, AgentSteps, trouble' = "none",
         NEW r \in Requests, NEW out \in Outcomes, Result(r, out)'
  PROVE  /\ r \in {"settle", "delete"} => out = "ok"
         /\ r \in Hashes /\ flow.phase = "verifying" => out \in Marks
         /\ r \in Carriers /\ Uncanceled => out = "ok"
<1>1. CASE Result(r, out)
  BY <1>1 DEF Calm, Unstopped
<1>2. CASE worker[r] # "ended" /\ worker'[r] = "ended" /\ out \in Outcomes /\ Fits(r, out)
  <2>1. ticket[r] = "written"
    BY <1>2, WorkersAdvance
  <2>2. source # "captured" => r \notin {"download", "local"} /\ flow.phase # "verifying"
    BY <1>2, <2>1, SourceIsThere DEF Calm
  <2>3. \/ out = "ok" /\ r \notin Hashes
        \/ r \in {"upload", "download", "local"} /\ token[r]
        \/ r = "upload" /\ Received("decision", "upload", "denied")
        \/ r = "local" /\ Received("decision", "local", "denied")
        \/ r \in Hashes /\ (out \in Marks \/ flow.phase # "verifying")
    BY <1>2, <2>2 DEF Fits
  <2>4. "settle" \notin Hashes /\ "delete" \notin Hashes /\ Carriers = {"upload", "download", "local"}
        /\ Carriers \cap Hashes = {}
    BY DEF Hashes, Carriers
  <2>5. Uncanceled => \A q \in {"upload", "local"} : ~Received("decision", q, "denied")
    <3>1. SUFFICES ASSUME Uncanceled, NEW q \in {"upload", "local"}, Received("decision", q, "denied") PROVE FALSE
      OBVIOUS
    <3>2. q \in Requests
      BY DEF Requests
    <3>3. 1 \in DOMAIN urgent[AgentOf(q)] /\ urgent[AgentOf(q)][1] = Frame("decision", q, "denied")
          /\ AgentOf(q) \in Agents
      BY <3>1, <3>2, HeadRead
    <3>4. Decided
      BY <3>1 DEF Calm, Unstopped
    <3>5. IsDecision(urgent[AgentOf(q)][1]) /\ urgent[AgentOf(q)][1].out = "denied"
      BY <3>3 DEF IsDecision, Frame
    <3>6. QED
      BY <3>3, <3>4, <3>5 DEF Decided
  <2>6. Uncanceled => \A q \in Carriers : ~token[q]
    BY DEF Calm, Unstopped
  <2>7. QED
    BY <2>3, <2>4, <2>5, <2>6
<1>3. QED
  BY <1>1, <1>2, ResultSaid

\* Answers that are read leave the rest as it was.
LEMMA AgentsStayDecided ==
  ASSUME CopyInvariant, Stopping, Calm, Uncanceled, AgentSteps, trouble' = "none"
  PROVE  /\ \A r \in Carriers : ~token'[r]
         /\ \A a \in Agents : \A i \in DOMAIN urgent'[a] :
              urgent'[a][i].kind = "cancel" => urgent'[a][i].req \notin Carriers
         /\ Decided' /\ (Undecided => Undecided')
<1>0. /\ Unstopped /\ Decided /\ UNCHANGED <<shape, row>> /\ \A a \in Agents : conn[a] = "up"
      /\ Publisher' = Publisher /\ Publisher \in Carriers /\ Carriers \subseteq Requests
  BY AgentsDecideNothing DEF Calm, Unstopped, Stopping, Publisher, Carriers, Requests
<1>1. worker[Publisher] \in Asking =>
        worker'[Publisher] \in Asking \/ \E answer : Received("decision", Publisher, answer)
  BY <1>0, AskersWait DEF Unstopped
<1>2. CASE UNCHANGED <<urgent, token, reason>>
  <2>1. \A answer : ~Received("decision", Publisher, answer)
    <3>1. SUFFICES ASSUME NEW answer, Received("decision", Publisher, answer) PROVE FALSE
      OBVIOUS
    <3>2. Len(urgent'[AgentOf(Publisher)]) = Len(urgent[AgentOf(Publisher)]) - 1
          /\ AgentOf(Publisher) \in Agents
      BY <1>0, <3>1, HeadRead
    <3>3. urgent[AgentOf(Publisher)] \in Seq(Urgents)
      BY <3>2 DEF CopyInvariant, CopyTypeOK
    <3>4. QED
      BY <1>2, <3>2, <3>3
  <2>2. Decided'
    BY <1>0, <1>1, <1>2, <2>1 DEF Decided
  <2>3. QED
    BY <1>0, <1>2, <2>2 DEF Unstopped, Undecided
<1>3. ASSUME NEW r \in Requests, NEW kind, NEW out, Received(kind, r, out),
             kind = "decision" \/ worker'[Publisher] \in Asking \/ worker[Publisher] \notin Asking
      PROVE  /\ Decided' /\ (Undecided => Undecided')
             /\ \A a \in Agents : \A i \in DOMAIN urgent'[a] :
                  urgent'[a][i].kind = "cancel" => urgent'[a][i].req \notin Carriers
  <2>1. ASSUME NEW a \in Agents, NEW i \in DOMAIN urgent'[a]
        PROVE  \E k \in {0, 1} :
                 /\ k = 1 <=> a = AgentOf(r)
                 /\ \A j \in DOMAIN urgent'[a] : j \in Nat /\ j >= 1 /\ j + k \in DOMAIN urgent[a] /\ urgent'[a][j] = urgent[a][j + k]
    <3>1. urgent' \in [Agents -> Seq(Urgents)]
      BY LanesTyped DEF CopyInvariant
    <3>2. \A j \in DOMAIN urgent'[a] : j \in Nat /\ j >= 1
      BY <3>1
    <3>3. QED
      BY <1>3, <3>2, ReadShifts
  <2>2. /\ 1 \in DOMAIN urgent[AgentOf(r)] /\ urgent[AgentOf(r)][1] = Frame(kind, r, out)
        /\ AgentOf(r) \in Agents
    BY <1>3, HeadRead
  <2>3. ASSUME NEW a \in Agents, NEW i \in DOMAIN urgent'[a], IsDecision(urgent'[a][i])
        PROVE  /\ urgent'[a][i].out = "allowed" /\ worker'[Publisher] \in Asking /\ a = AgentOf(Publisher)
               /\ \A j \in DOMAIN urgent'[a] : IsDecision(urgent'[a][j]) => i = j
    <3>1. PICK k \in {0, 1} : /\ k = 1 <=> a = AgentOf(r)
                              /\ \A j \in DOMAIN urgent'[a] : j \in Nat /\ j >= 1 /\ j + k \in DOMAIN urgent[a]
                                                              /\ urgent'[a][j] = urgent[a][j + k]
      BY <2>1, <2>3
    <3>2. i \in Nat /\ i >= 1 /\ i + k \in DOMAIN urgent[a] /\ IsDecision(urgent[a][i + k]) /\ urgent'[a][i] = urgent[a][i + k]
      BY <2>3, <3>1
    <3>3. /\ urgent[a][i + k].out = "allowed" /\ worker[Publisher] \in Asking /\ a = AgentOf(Publisher)
          /\ \A j \in DOMAIN urgent[a] : IsDecision(urgent[a][j]) => i + k = j
      BY <1>0, <3>2 DEF Decided
    <3>4. \A j \in DOMAIN urgent'[a] : IsDecision(urgent'[a][j]) => i = j
      BY <3>1, <3>2, <3>3
    <3>5. kind # "decision"
      <4>1. SUFFICES ASSUME kind = "decision" PROVE FALSE
        OBVIOUS
      <4>2. IsDecision(urgent[AgentOf(r)][1])
        BY <2>2, <4>1 DEF IsDecision, Frame
      <4>3. a = AgentOf(r)
        BY <1>0, <2>2, <3>3, <4>2 DEF Decided
      <4>4. k = 1
        BY <3>1, <4>3
      <4>5. QED
        BY <2>2, <3>2, <3>3, <4>2, <4>3, <4>4
    <3>6. QED
      BY <1>3, <3>2, <3>3, <3>4, <3>5
  <2>4. Decided'
    BY <1>0, <2>3 DEF Decided
  <2>5. Undecided => Undecided'
    BY <2>1 DEF Undecided
  <2>6. \A a \in Agents : \A i \in DOMAIN urgent'[a] :
          urgent'[a][i].kind = "cancel" => urgent'[a][i].req \notin Carriers
    BY <1>0, <2>1 DEF Unstopped
  <2>7. QED
    BY <2>4, <2>5, <2>6
<1>4. ASSUME NEW r \in Requests, NEW why \in Reasons, ReceiveCancel(r, why)
      PROVE  /\ \A q \in Carriers : ~token'[q]
             /\ \A a \in Agents : \A i \in DOMAIN urgent'[a] :
                  urgent'[a][i].kind = "cancel" => urgent'[a][i].req \notin Carriers
             /\ Decided' /\ (Undecided => Undecided')
  <2>1. Received("cancel", r, why) /\ UNCHANGED worker
    BY <1>4 DEF ReceiveCancel
  <2>2. r \notin Carriers
    <3>1. /\ 1 \in DOMAIN urgent[AgentOf(r)] /\ urgent[AgentOf(r)][1] = Frame("cancel", r, why)
          /\ AgentOf(r) \in Agents
      BY <2>1, HeadRead
    <3>2. QED
      BY <1>0, <3>1 DEF Unstopped, Frame
  <2>3. token \in [Requests -> BOOLEAN]
    BY DEF CopyInvariant, CopyTypeOK
  <2>4. \A q \in Carriers : ~token'[q]
    BY <1>0, <1>4, <2>2, <2>3 DEF ReceiveCancel, Unstopped
  <2>5. QED
    BY <1>3, <2>1, <2>4
<1>5. ASSUME NEW r \in {"upload", "local"}, NEW answer \in {"allowed", "denied"},
             Received("decision", r, answer), UNCHANGED <<token, reason>>
      PROVE  /\ \A q \in Carriers : ~token'[q]
             /\ \A a \in Agents : \A i \in DOMAIN urgent'[a] :
                  urgent'[a][i].kind = "cancel" => urgent'[a][i].req \notin Carriers
             /\ Decided' /\ (Undecided => Undecided')
  <2>1. r \in Requests
    BY DEF Requests
  <2>2. \A q \in Carriers : ~token'[q]
    BY <1>0, <1>5 DEF Unstopped
  <2>3. QED
    BY <1>3, <1>5, <2>1, <2>2
<1>6. QED
  BY <1>0, <1>2, <1>4, <1>5, AgentsRead

\* A request to publish is the only one, and its row is active.
LEMMA AgentsStayRequested ==
  ASSUME CopyInvariant, Stopping, Calm, Uncanceled, AgentSteps, trouble' = "none"
  PROVE  Requested'
<1>0. /\ Unstopped /\ Decided /\ Requested /\ UNCHANGED <<shape, row, flow>>
      /\ Publisher' = Publisher /\ Publisher \in Carriers /\ Carriers \subseteq Requests
  BY AgentsDecideNothing DEF Calm, Unstopped, Publisher, Carriers, Requests
<1>1. ASSUME NEW a \in Agents, NEW i \in DOMAIN box[a], IsPublish(box[a][i])
      PROVE  worker'[Publisher] \in Asking /\ Undecided /\ worker[Publisher] \in Asking /\ row = "active"
             /\ a = AgentOf(Publisher)
  <2>1. worker[Publisher] \in Asking /\ Undecided /\ row = "active" /\ a = AgentOf(Publisher)
    BY <1>0, <1>1 DEF Requested
  <2>2. \A answer : ~Received("decision", Publisher, answer)
    <3>1. SUFFICES ASSUME NEW answer, Received("decision", Publisher, answer) PROVE FALSE
      OBVIOUS
    <3>2. /\ 1 \in DOMAIN urgent[AgentOf(Publisher)] /\ AgentOf(Publisher) \in Agents
          /\ urgent[AgentOf(Publisher)][1] = Frame("decision", Publisher, answer)
      BY <1>0, <3>1, HeadRead
    <3>3. QED
      BY <2>1, <3>2 DEF Undecided, IsDecision, Frame
  <2>3. QED
    BY <1>0, <2>1, <2>2, AskersWait DEF Unstopped
<1>2. CASE UNCHANGED box
  BY <1>0, <1>1, <1>2, AgentsStayDecided DEF Requested
<1>3. ASSUME NEW r \in Requests, NEW f \in Frames,
             box' = [box EXCEPT ![AgentOf(r)] = Append(@, f)], Spoken(r, f)
      PROVE  Requested'
  <2>1. IsPublish(f) => /\ r = Publisher /\ worker[r] \in {"staging", "checking"} /\ worker'[r] \in Asking
    BY <1>3 DEF Spoken, IsPublish, Frame
  <2>2. IsPublish(f) => /\ Undecided /\ row = "active"
                        /\ \A a \in Agents : \A i \in DOMAIN box[a] : ~IsPublish(box[a][i])
    <3>1. SUFFICES ASSUME IsPublish(f) PROVE
                /\ Undecided /\ row = "active"
                /\ \A a \in Agents : \A i \in DOMAIN box[a] : ~IsPublish(box[a][i])
      OBVIOUS
    <3>2. worker[Publisher] \notin PastStaging /\ worker[Publisher] \notin Asking /\ worker[Publisher] # "absent"
      BY <2>1, <3>1 DEF PastStaging, Asking
    <3>3. row # "committed"
      BY <1>0, <3>2 DEF Unstopped
    <3>4. row # "none"
      <4>1. ticket[Publisher] = "written" /\ Publisher \in Requests
        BY <1>0, <3>2 DEF CopyInvariant, Tickets
      <4>2. flow.phase # "none"
        BY <4>1 DEF CopyInvariant, Tickets
      <4>3. QED
        BY <4>2 DEF CopyInvariant, RowPhases
    <3>5. QED
      BY <1>0, <1>1, <3>2, <3>3, <3>4 DEF Uncanceled, Decided, Undecided
  <2>3. ASSUME NEW a \in Agents, NEW i \in DOMAIN box'[a], IsPublish(box'[a][i])
        PROVE  /\ row = "active" /\ worker'[Publisher] \in Asking /\ a = AgentOf(Publisher) /\ Undecided
               /\ \A j \in DOMAIN box'[a] : IsPublish(box'[a][j]) => i = j
    <3>1. \A j \in DOMAIN box'[a] :
            \/ j \in DOMAIN box[a] /\ box'[a][j] = box[a][j]
            \/ j = Len(box[a]) + 1 /\ j \notin DOMAIN box[a] /\ a = AgentOf(r) /\ box'[a][j] = f
      BY <1>3, NewSaid
    <3>2. CASE i \in DOMAIN box[a] /\ box'[a][i] = box[a][i]
      <4>1. IsPublish(box[a][i])
        BY <2>3, <3>2
      <4>2. ~IsPublish(f)
        BY <2>2, <3>2, <4>1
      <4>3. QED
        BY <1>0, <1>1, <3>1, <3>2, <4>1, <4>2 DEF Requested
    <3>3. CASE i = Len(box[a]) + 1 /\ i \notin DOMAIN box[a] /\ a = AgentOf(r) /\ box'[a][i] = f
      BY <2>1, <2>2, <2>3, <3>1, <3>3
    <3>4. QED
      BY <3>1, <3>2, <3>3
  <2>4. QED
    BY <1>0, <2>3, AgentsStayDecided DEF Requested
<1>4. QED
  BY <1>2, <1>3, AgentsSay DEF Says

\* No agent disturbs a copy that meets no trouble.
LEMMA AgentsCalm ==
  ASSUME CopyInvariant, Stopping, Calm, AgentSteps, trouble' = "none"
  PROVE  Calm'
<1>0. UNCHANGED <<shape, flow, row, pause, losses>> /\ Publisher' = Publisher
  BY AgentsDecideNothing DEF Publisher
<1>1. source' \notin {"other", "late"}
  BY TroubleStays DEF Calm
<1>2. \A r \in Requests : \A out \in Outcomes : Result(r, out)' =>
        /\ r \in {"settle", "delete"} => out = "ok"
        /\ r \in Hashes /\ flow.phase = "verifying" => out \in Marks
        /\ r \in Carriers /\ Uncanceled => out = "ok"
  BY AgentsSucceed
<1>3. Hashes \subseteq Requests /\ {"settle", "delete"} \subseteq Requests /\ Carriers \subseteq Requests
  BY DEF Requests, Carriers
<1>4. Uncanceled' => Unstopped'
  <2> SUFFICES ASSUME Uncanceled' PROVE Unstopped'
    OBVIOUS
  <2>1. Uncanceled
    BY <1>0 DEF Uncanceled
  <2>2. row' = "committed" => worker'[Publisher] \in PastStaging
    BY <1>0, <2>1, AskersWait DEF Calm, Unstopped
  <2>3. \A r \in Carriers : \A out \in Outcomes : Result(r, out)' => out = "ok"
    BY <1>2, <1>3, <2>1
  <2>4. QED
    BY <1>0, <2>1, <2>2, <2>3, AgentsStayDecided, AgentsStayRequested DEF Unstopped
<1>5. QED
  BY <1>0, <1>1, <1>2, <1>3, <1>4 DEF Calm

\* The rows that the router leads a copy through before anybody cancels it.
LEMMA UncanceledBefore ==
  ASSUME CopyInvariant, RowStep, Uncanceled'
  PROVE  /\ Uncanceled
         /\ row = "active" => row' \in {"active", "committed"}
BY DEF Uncanceled, RowStep, GoesOn, Begins, Admits, IsCanceled, Deletes, Finishes, CopyInvariant,
       RowPhases, Final

\* What the router answers to the publisher of a copy that meets no trouble.
LEMMA RouterAdmits ==
  ASSUME CopyInvariant, Calm, Uncanceled, NEW a \in Agents, HandlePublishRequest(a)
  PROVE  /\ row = "active" /\ worker[Publisher] \in Asking /\ a = AgentOf(Publisher)
         /\ Authorizes /\ Undecided
         /\ \A b \in Agents : \A i \in DOMAIN box'[b] : ~IsPublish(box'[b][i])
<1>1. /\ 1 \in DOMAIN box[a] /\ IsPublish(box[a][1]) /\ box[a] # <<>>
      /\ \A i \in DOMAIN Tail(box[a]) : i \in Nat /\ i >= 1 /\ i + 1 \in DOMAIN box[a] /\ Tail(box[a])[i] = box[a][i + 1]
  <2>1. box[a] # <<>> /\ Head(box[a]).kind = "publish" /\ box[a] \in Seq(Frames)
    BY DEF HandlePublishRequest, Next1, CopyInvariant, CopyTypeOK
  <2>2. QED
    BY <2>1, TakenFrame DEF IsPublish
<1>2. Requested
  BY DEF Calm, Unstopped
<1>3. row = "active" /\ worker[Publisher] \in Asking /\ a = AgentOf(Publisher) /\ Undecided
      /\ \A j \in DOMAIN box[a] : IsPublish(box[a][j]) => 1 = j
  BY <1>1, <1>2 DEF Requested
<1>4. box' = [box EXCEPT ![a] = Tail(@)] /\ box \in [Agents -> Seq(Frames)]
  BY DEF HandlePublishRequest, Taken, CopyInvariant, CopyTypeOK
<1>5. ASSUME NEW b \in Agents, NEW i \in DOMAIN box'[b], IsPublish(box'[b][i]) PROVE FALSE
  <2>1. CASE b # a
    <3>1. box'[b] = box[b]
      BY <1>4, <2>1
    <3>2. QED
      BY <1>2, <1>3, <1>5, <2>1, <3>1 DEF Requested
  <2>2. CASE b = a
    <3>1. box'[b] = Tail(box[a])
      BY <1>4, <2>2
    <3>2. i \in Nat /\ i >= 1 /\ i + 1 \in DOMAIN box[a] /\ IsPublish(box[a][i + 1])
      BY <1>1, <1>5, <3>1
    <3>3. QED
      BY <1>3, <3>2
  <2>3. QED
    BY <2>1, <2>2
<1>6. Authorizes
  <2>1. Publisher \in Requests /\ ticket[Publisher] = "written"
    <3>1. Publisher \in Requests
      BY DEF Publisher, Requests
    <3>2. worker[Publisher] # "absent"
      BY <1>3 DEF Asking
    <3>3. QED
      BY <3>1, <3>2 DEF CopyInvariant, Tickets
  <2>2. flow.phase \notin {"none", "settled", "deleting"}
    BY <1>3 DEF CopyInvariant, RowPhases, Final
  <2>3. CASE shape.local
    <3>1. flow.phase \notin Remote \cup {"verifying", "settling", "deleting"}
      BY <2>3 DEF CopyInvariant, Tickets
    <3>2. flow.phase \in Phases
      BY DEF CopyInvariant, CopyTypeOK
    <3>3. QED
      BY <1>3, <2>2, <3>1, <3>2 DEF Authorizes, Phases
  <2>4. CASE ~shape.local
    <3>1. flow.phase \in Remote \cup {"deleting", "settled"}
      BY <2>1, <2>4 DEF Publisher, CopyInvariant, Tickets
    <3>2. QED
      BY <1>3, <2>2, <3>1 DEF Authorizes
  <2>5. QED
    BY <2>3, <2>4
<1>7. QED
  BY <1>3, <1>5, <1>6

\* The router gives up no copy that meets no trouble.
LEMMA RouterFailsNobody ==
  ASSUME CopyInvariant, Stopping, Calm, RouterSteps, trouble' = "none"
  PROVE  /\ ~flow'.failure
         /\ row' = "errored" => pause' = "refused"
         /\ \A a \in Agents : ~HandleLost(a)
<1>0. /\ RowStep /\ FlowStep /\ RowPhases /\ ~flow.failure /\ trouble' # "real"
      /\ Hashes \subseteq Requests /\ {"upload", "download", "local", "settle", "delete"} \subseteq Requests
      /\ "error" \in Outcomes /\ "changed" \in Outcomes /\ "changed" \notin Marks
  BY RouterRows, RouterFlow, RouterFacts DEF Calm, Requests, Outcomes, Marks, Versions
<1>1. /\ \A a \in Agents : ~HandleLost(a)
  BY NobodyIsLost DEF Calm, Stopping
<1>2. /\ withdrawn # {} => flow.phase \in {"canceling", "local"} /\ row = "canceling"
      /\ withdrawn \subseteq Carriers
  BY <1>0 DEF RowPhases, Carriers
<1>3. \A r \in Requests : \A out : ResultOf(r, out) => Result(r, out) /\ out \in Outcomes
  <2>1. SUFFICES ASSUME NEW r \in Requests, NEW out, ResultOf(r, out) PROVE Result(r, out) /\ out \in Outcomes
    OBVIOUS
  <2>2. Result(r, out) /\ AgentOf(r) \in Agents /\ box[AgentOf(r)][1] = Frame("result", r, out) /\ 1 \in DOMAIN box[AgentOf(r)]
    BY <2>1, TakenResult
  <2>3. box[AgentOf(r)] \in Seq(Frames)
    BY <2>2 DEF CopyInvariant, CopyTypeOK
  <2>4. Frame("result", r, out) \in Frames
    BY <2>2, <2>3
  <2>5. QED
    BY <2>2, <2>4 DEF Frame, Frames
<1>4. Carriers = {"upload", "download", "local"} /\ Carriers \cap Hashes = {}
  BY DEF Carriers, Hashes
<1>5. \A h \in Hashes : \A out : Heard(h, out) /\ flow.phase = "verifying" => out \in Marks
  <2>1. SUFFICES ASSUME NEW h \in Hashes, NEW out, Heard(h, out), flow.phase = "verifying" PROVE out \in Marks
    OBVIOUS
  <2>2. ResultOf(h, out)
    BY <1>2, <2>1 DEF Heard
  <2>3. QED
    BY <1>0, <1>3, <2>1, <2>2 DEF Calm
<1>6. ~flow'.failure
  BY <1>0, <1>5 DEF FlowStep, SettleStep
<1>7. \A r \in Carriers : \A out : Heard(r, out) /\ flow.phase \in {"awaiting", "streaming", "local"} /\ row # "canceling"
        => out = "ok"
  <2>1. SUFFICES ASSUME NEW r \in Carriers, NEW out, Heard(r, out), flow.phase \in {"awaiting", "streaming", "local"},
                        row # "canceling"
                 PROVE  out = "ok"
    OBVIOUS
  <2>2. ResultOf(r, out)
    BY <1>2, <2>1 DEF Heard
  <2>3. Uncanceled
    BY <1>0, <2>1 DEF RowPhases, Uncanceled
  <2>4. QED
    BY <1>0, <1>3, <1>4, <2>1, <2>2, <2>3 DEF Calm, Unstopped
<1>8. \A r \in {"settle", "delete"} : \A out : Heard(r, out) => out = "ok"
  <2>1. SUFFICES ASSUME NEW r \in {"settle", "delete"}, NEW out, Heard(r, out) PROVE out = "ok"
    OBVIOUS
  <2>2. ResultOf(r, out)
    BY <1>2, <1>4, <2>1 DEF Heard
  <2>3. QED
    BY <1>0, <1>3, <2>1, <2>2 DEF Calm
<1>9. row' = "errored" => pause' = "refused"
  <2>1. CASE row' = row
    BY <1>0, <2>1 DEF Calm, RowStep, GoesOn, Begins, Admits, IsCanceled, Deletes, Finishes, RowPhases, Final
  <2>2. CASE row' # row
    <3>1. flow.phase \in {"awaiting", "streaming"} => row # "canceling"
      BY <1>0 DEF RowPhases
    <3>2. ASSUME row' = "errored"
          PROVE  \/ pause' = "refused"
                 \/ \E h \in Hashes : \E out : Heard(h, out) /\ out \notin Marks /\ flow.phase = "verifying"
                 \/ \E r \in {"upload", "download"} : \E out :
                      Heard(r, out) /\ out # "ok" /\ flow.phase \in {"awaiting", "streaming"}
                 \/ \E out : Heard("local", out) /\ out # "ok" /\ row # "canceling" /\ flow.phase = "local"
                 \/ \E r \in {"settle", "delete"} : \E out : Heard(r, out) /\ out # "ok"
      BY <1>0, <1>1, <2>2, <3>2 DEF FlowStep, ErrorStep
    <3>3. QED
      BY <1>4, <1>5, <1>7, <1>8, <3>1, <3>2
  <2>3. QED
    BY <2>1, <2>2
<1>10. QED
  BY <1>1, <1>6, <1>9

\* What it queues for the agents of one.
LEMMA RouterStaysDecided ==
  ASSUME CopyInvariant, Stopping, Calm, RouterSteps, trouble' = "none", Uncanceled'
  PROVE  /\ \A a \in Agents : \A i \in DOMAIN urgent'[a] :
              urgent'[a][i].kind = "cancel" => urgent'[a][i].req \notin Carriers
         /\ Decided'
         /\ Undecided' \/ ~Undecided \/ \E a \in Agents : HandlePublishRequest(a)
<1>0. /\ Uncanceled /\ Unstopped /\ Decided /\ Publisher' = Publisher /\ Publisher \in Carriers
      /\ row' # "errored" /\ row' # "canceling" /\ \A a \in Agents : ~HandleLost(a)
  BY RouterRows, UncanceledBefore, RouterFailsNobody DEF Calm, Unstopped, Uncanceled, Publisher, Carriers
<1>1. worker'[Publisher] = worker[Publisher]
  <2>1. Publisher \in Requests \ Hashes
    BY DEF Publisher, Requests, Hashes
  <2>2. QED
    BY <2>1, RouterAsksAgain
<1>2. ASSUME NEW a \in Agents, NEW i \in DOMAIN urgent'[a]
      PROVE  \/ i \in DOMAIN urgent[a] /\ urgent'[a][i] = urgent[a][i]
             \/ urgent'[a][i].kind = "cancel" /\ urgent'[a][i].req \in Hashes
             \/ /\ i = Len(urgent[a]) + 1 /\ i \notin DOMAIN urgent[a] /\ HandlePublishRequest(a)
                /\ urgent'[a][i] = Frame("decision", Publisher, "allowed")
  <2>1. \/ i \in DOMAIN urgent[a] /\ urgent'[a][i] = urgent[a][i]
        \/ i = Len(urgent[a]) + 1 /\ i \notin DOMAIN urgent[a] /\ Queued(a, urgent'[a][i])
    BY <1>2, NewQueued
  <2>2. HandlePublishRequest(a) => Authorizes
    BY <1>0, RouterAdmits
  <2>3. QED
    BY <1>0, <2>1, <2>2 DEF Queued
<1>3. ASSUME NEW a \in Agents, NEW i \in DOMAIN urgent'[a], urgent'[a][i].kind = "cancel"
      PROVE  urgent'[a][i].req \notin Carriers
  BY <1>0, <1>2, <1>3 DEF Unstopped, Hashes, Carriers, Frame
<1>4. ASSUME NEW a \in Agents, NEW i \in DOMAIN urgent'[a], IsDecision(urgent'[a][i])
      PROVE  \/ i \in DOMAIN urgent[a] /\ urgent'[a][i] = urgent[a][i]
             \/ /\ i = Len(urgent[a]) + 1 /\ i \notin DOMAIN urgent[a] /\ HandlePublishRequest(a)
                /\ urgent'[a][i] = Frame("decision", Publisher, "allowed")
  BY <1>2, <1>4 DEF IsDecision
<1>5. (\E a \in Agents : HandlePublishRequest(a)) => Undecided
  BY <1>0, RouterAdmits
<1>6. Decided'
  <2>1. ASSUME NEW a \in Agents, NEW i \in DOMAIN urgent'[a], IsDecision(urgent'[a][i])
        PROVE  /\ urgent'[a][i].out = "allowed" /\ worker[Publisher] \in Asking /\ a = AgentOf(Publisher)
               /\ \A j \in DOMAIN urgent'[a] : IsDecision(urgent'[a][j]) => i = j
    <3>1. CASE i \in DOMAIN urgent[a] /\ urgent'[a][i] = urgent[a][i]
      <4>1. IsDecision(urgent[a][i]) /\ ~Undecided
        BY <2>1, <3>1 DEF Undecided
      <4>2. \A j \in DOMAIN urgent'[a] : IsDecision(urgent'[a][j]) => j \in DOMAIN urgent[a] /\ urgent'[a][j] = urgent[a][j]
        BY <1>4, <1>5, <4>1
      <4>3. QED
        BY <1>0, <2>1, <3>1, <4>1, <4>2 DEF Decided
    <3>2. CASE i = Len(urgent[a]) + 1 /\ i \notin DOMAIN urgent[a] /\ HandlePublishRequest(a)
               /\ urgent'[a][i] = Frame("decision", Publisher, "allowed")
      <4>1. Undecided /\ worker[Publisher] \in Asking /\ a = AgentOf(Publisher)
        BY <1>0, <3>2, RouterAdmits
      <4>2. \A j \in DOMAIN urgent'[a] : IsDecision(urgent'[a][j]) => j = Len(urgent[a]) + 1
        BY <1>4, <4>1 DEF Undecided
      <4>3. QED
        BY <3>2, <4>1, <4>2 DEF Frame
    <3>3. QED
      BY <1>4, <2>1, <3>1, <3>2
  <2>2. QED
    BY <1>0, <1>1, <2>1 DEF Decided
<1>7. Undecided' \/ ~Undecided \/ \E a \in Agents : HandlePublishRequest(a)
  BY <1>4 DEF Undecided
<1>8. QED
  BY <1>3, <1>6, <1>7

\* The router answers the request of one, and then it has none.
LEMMA RouterStaysRequested ==
  ASSUME CopyInvariant, Stopping, Calm, RouterSteps, trouble' = "none", Uncanceled'
  PROVE  /\ Requested'
         /\ row' = "committed" => worker'[Publisher] \in PastStaging
<1>0. /\ Uncanceled /\ Unstopped /\ Requested /\ Publisher' = Publisher
      /\ row = "active" => row' \in {"active", "committed"}
      /\ FlowStep
  BY RouterRows, UncanceledBefore, RouterFlow DEF Calm, Unstopped, Publisher
<1>1. worker'[Publisher] = worker[Publisher]
  <2>1. Publisher \in Requests \ Hashes
    BY DEF Publisher, Requests, Hashes
  <2>2. QED
    BY <2>1, RouterAsksAgain
<1>2. CASE \E a \in Agents : HandlePublishRequest(a)
  <2>1. PICK a \in Agents : HandlePublishRequest(a)
    BY <1>2
  <2>2. worker[Publisher] \in Asking /\ \A b \in Agents : \A i \in DOMAIN box'[b] : ~IsPublish(box'[b][i])
    BY <1>0, <2>1, RouterAdmits
  <2>3. QED
    BY <1>1, <2>2 DEF Requested, PastStaging
<1>3. CASE \A a \in Agents : ~HandlePublishRequest(a)
  <2>1. ASSUME NEW a \in Agents, NEW i \in DOMAIN box'[a], IsPublish(box'[a][i])
        PROVE  /\ row' = "active" /\ worker'[Publisher] \in Asking /\ a = AgentOf(Publisher) /\ Undecided'
               /\ \A j \in DOMAIN box'[a] : IsPublish(box'[a][j]) => i = j
    <3>1. PICK k \in {0, 1} : \A j \in DOMAIN box'[a] : j \in Nat /\ j + k \in DOMAIN box[a] /\ box'[a][j] = box[a][j + k]
      BY <2>1, BoxShrinks
    <3>2. i \in Nat /\ i + k \in DOMAIN box[a] /\ IsPublish(box[a][i + k])
      BY <2>1, <3>1
    <3>3. /\ row = "active" /\ worker[Publisher] \in Asking /\ a = AgentOf(Publisher) /\ Undecided
          /\ \A j \in DOMAIN box[a] : IsPublish(box[a][j]) => i + k = j
      BY <1>0, <3>2 DEF Requested
    <3>4. \A j \in DOMAIN box'[a] : IsPublish(box'[a][j]) => i = j
      BY <3>1, <3>2, <3>3
    <3>5. Undecided'
      BY <1>3, <3>3, RouterStaysDecided
    <3>6. row' # "committed"
      <4>1. worker["upload"] = "ended" /\ ~shape.local => worker[Publisher] \notin Asking
        BY DEF Publisher, Asking
      <4>2. QED
        BY <1>0, <1>3, <3>3, <4>1 DEF FlowStep, CommitStep
    <3>7. QED
      BY <1>0, <1>1, <3>3, <3>4, <3>5, <3>6
  <2>2. row' = "committed" => worker'[Publisher] \in PastStaging
    <3>1. worker["upload"] = "ended" /\ ~shape.local => worker[Publisher] \in PastStaging
      BY DEF Publisher, PastStaging
    <3>2. row = "committed" => worker[Publisher] \in PastStaging
      BY <1>0 DEF Unstopped
    <3>3. QED
      BY <1>0, <1>1, <1>3, <3>1, <3>2 DEF FlowStep, CommitStep
  <2>3. QED
    BY <1>0, <2>1, <2>2 DEF Requested
<1>4. QED
  BY <1>2, <1>3

\* So the router keeps it calm.
LEMMA RouterCalm ==
  ASSUME CopyInvariant, Stopping, Calm, RouterSteps, trouble' = "none"
  PROVE  Calm'
<1>1. UNCHANGED <<source, losses, token>>
  BY RouterLeaves
<1>2. \A r \in Requests : \A out : Result(r, out)' => Result(r, out)
  BY SaysNoMore
<1>3. Hashes \subseteq Requests /\ {"settle", "delete"} \subseteq Requests /\ Carriers \subseteq Requests
  BY DEF Requests, Carriers
<1>4. ASSUME flow'.phase = "verifying", NEW h \in Hashes, NEW out \in Outcomes, Result(h, out)'
      PROVE  out \in Marks
  <2>1. Result(h, out)
    BY <1>2, <1>3, <1>4
  <2>2. flow.phase \in {"none", "verifying"}
    BY <1>4, RouterRows DEF RowStep, GoesOn, Begins, Admits, IsCanceled, Deletes, Finishes, CopyInvariant, RowPhases,
       Remote
  <2>3. flow.phase # "none"
    <3>1. worker[h] = "ended"
      <4>1. AgentOf(h) \in Agents
        BY DEF AgentOf, Agents
      <4>2. \E i \in DOMAIN box[AgentOf(h)] : box[AgentOf(h)][i].kind = "result" /\ box[AgentOf(h)][i].req = h
        BY <2>1 DEF Result, Has, Frame
      <4>3. QED
        BY <4>1, <4>2 DEF CopyInvariant, Results
    <3>2. ticket[h] # "none"
      BY <1>3, <3>1 DEF CopyInvariant, Tickets
    <3>3. QED
      BY <1>3, <3>2 DEF CopyInvariant, Tickets
  <2>4. QED
    BY <2>1, <2>2, <2>3 DEF Calm
<1>5. ASSUME Uncanceled' PROVE Unstopped'
  <2>1. Unstopped
    BY <1>5, RouterRows, UncanceledBefore DEF Calm
  <2>2. \A r \in Carriers : ~token'[r] /\ \A out \in Outcomes : Result(r, out)' => out = "ok"
    BY <1>1, <1>2, <1>3, <2>1 DEF Unstopped
  <2>3. /\ \A a \in Agents : \A i \in DOMAIN urgent'[a] :
             urgent'[a][i].kind = "cancel" => urgent'[a][i].req \notin Carriers
        /\ Decided' /\ Requested'
        /\ row' = "committed" => worker'[Publisher] \in PastStaging
    BY <1>5, RouterStaysDecided, RouterStaysRequested
  <2>4. Publisher' = Publisher
    BY RouterRows DEF Publisher
  <2>5. QED
    BY <2>2, <2>3, <2>4 DEF Unstopped
<1>6. QED
  BY <1>1, <1>2, <1>3, <1>4, <1>5, RouterFailsNobody DEF Calm

\* A connection is not lost without trouble, and none returns that was not lost.
LEMMA NetIsTrouble ==
  ASSUME CopyInvariant, Stopping, NetSteps, losses = 0
  PROVE  trouble' = "real"
<1>1. \A a \in Agents : Disconnect(a) => trouble' = "real"
  BY DEF Disconnect, Hindered
<1>2. \A a \in Agents : ~Reconnect(a)
  BY DEF Reconnect, Stopping
<1>3. QED
  BY <1>1, <1>2 DEF NetSteps

\* As long as nothing went wrong, no order of the messages makes anything fail.
CalmUntilTrouble == trouble = "none" => Calm

\* It holds from the start.
LEMMA CalmHolds == CopySpec => []CalmUntilTrouble
<1>1. CopyInit => CalmUntilTrouble
  <2> SUFFICES ASSUME CopyInit PROVE Calm
    BY DEF CalmUntilTrouble
  <2>1. /\ losses = 0 /\ source = "captured" /\ ~flow.failure /\ row = "none" /\ flow.phase = "none"
        /\ \A a \in Agents : box[a] = <<>> /\ urgent[a] = <<>>
        /\ \A r \in Requests : ~token[r]
    BY DEF CopyInit
  <2>2. \A r \in Requests : \A out : ~Result(r, out)
    <3>1. \A r \in Requests : AgentOf(r) \in Agents
      BY DEF AgentOf, Agents
    <3>2. QED
      BY <2>1, <3>1 DEF Result, Has
  <2>3. Carriers \cup {"settle", "delete"} \cup Hashes \subseteq Requests
    BY DEF Carriers, Requests
  <2>4. Decided /\ Requested
    BY <2>1 DEF Decided, Requested
  <2>5. QED
    BY <2>1, <2>2, <2>3, <2>4 DEF Calm, Unstopped
<1>2. CopyInvariant /\ Stopping /\ CalmUntilTrouble /\ [CopyNext]_vars => CalmUntilTrouble'
  <2>1. SUFFICES ASSUME CopyInvariant, Stopping, CalmUntilTrouble, [CopyNext]_vars, trouble' = "none"
                 PROVE  Calm'
    BY DEF CalmUntilTrouble
  <2>2. CASE AgentSteps
    BY <2>1, <2>2, TroubleStays, AgentsCalm DEF CalmUntilTrouble
  <2>3. CASE RouterSteps
    BY <2>1, <2>3, RouterLeaves, RouterCalm DEF CalmUntilTrouble
  <2>4. CASE NetSteps
    <3>1. losses = 0 \/ trouble # "none"
      BY <2>1 DEF CalmUntilTrouble, Calm
    <3>2. trouble # "none" => trouble' # "none"
      BY <2>4 DEF NetSteps, Disconnect, Reconnect, Hindered
    <3>3. QED
      BY <2>1, <2>4, <3>1, <3>2, NetIsTrouble
  <2>5. CASE UNCHANGED vars
    BY <2>1, <2>5 DEF CalmUntilTrouble, Calm, Uncanceled, Unstopped, Decided, Requested, Undecided, Publisher,
       Result, vars, fileVars, rowVars, laneVars, workVars, netVars
  <2>6. QED
    BY <2>1, <2>2, <2>3, <2>4, <2>5, StepKinds
<1>3. QED
  BY <1>1, <1>2, CopyInvariantHolds, StoppingHolds, PTL DEF CopySpec

\* The row of a copy that meets no trouble is not the row of a failed one, whichever
\* way its own messages, cancels and answers cross; only a pause that came too late
\* is refused with it.
THEOREM FailuresHaveACause == CopySpec => []ErroredForACause
<1>1. CalmUntilTrouble => ErroredForACause
  BY DEF CalmUntilTrouble, Calm, ErroredForACause
<1>2. QED
  BY <1>1, CalmHolds, PTL

-----------------------------------------------------------------------------
(* What a canceled upload leaves behind *)

CancelsUpload(f) == f.kind = "cancel" /\ f.req = "upload"

Told == token["upload"] \/ worker["upload"] = "ended"

CancelBefore(i) == \E j \in DOMAIN urgent["dest"] : j < i /\ CancelsUpload(urgent["dest"][j])

IsCanceledRow == row \in {"canceling", "canceled"}

Refused == Frame("decision", "upload", "denied")

\* The cancel of the user reaches the upload before a refusal does, so that what is
\* staged is discarded for either.
Discards ==
  /\ worker["upload"] = "ended" => partial = Absent
  /\ token["upload"] => reason["upload"] = "canceled"
  /\ \A i \in DOMAIN urgent["dest"] :
       CancelsUpload(urgent["dest"][i]) => urgent["dest"][i].out = "canceled"
  /\ \A i \in DOMAIN urgent["dest"] : urgent["dest"][i] = Refused => Told \/ CancelBefore(i)
  /\ \A i \in DOMAIN box["dest"] : IsPublish(box["dest"][i]) => worker["upload"] # "absent"
  /\ IsCanceledRow => ticket["upload"] # "queued"
  /\ IsCanceledRow /\ ticket["upload"] = "written" =>
       Told \/ CancelBefore(Len(urgent["dest"]) + 1)

\* An upload that ends without trouble leaves nothing, unless its reason is another
\* one than a cancel.
LEMMA UploadLeaves ==
  ASSUME CopyInvariant, AgentSteps, trouble' = "none",
         worker["upload"] # "ended", worker'["upload"] = "ended"
  PROVE  \/ partial' = Absent
         \/ reason["upload"] # "canceled" /\ (token["upload"] \/ Received("decision", "upload", "denied"))
<1>0. worker \in [Requests -> Steps] /\ {"upload", "local"} \subseteq Requests
  BY ContentsFacts DEF Requests
<1>1. UNCHANGED worker => FALSE
  OBVIOUS
<1>2. \A r \in Requests \ {"upload"} : \A step : worker' # [worker EXCEPT ![r] = step]
  BY <1>0
<1>3. \A step : worker' = [worker EXCEPT !["upload"] = step] => step = "ended"
  BY <1>0
<1>4. \A why : Leaves(why) /\ why = "canceled" => partial' = Absent
  BY DEF Leaves
<1>5. CASE LaneSteps
  <2>1. \A r \in Requests : Spawn(r) => \E step \in {"preparing", "opening", "checking", "running"} :
                                          worker' = [worker EXCEPT ![r] = step]
    BY DEF Spawn, FirstStep
  <2>2. UNCHANGED worker \/ \E r \in Requests : Spawn(r)
    BY <1>5 DEF LaneSteps, WriteCommand, ReceiveCancel, AgentNotices, workVars
  <2>3. QED
    BY <1>1, <1>2, <1>3, <2>1, <2>2
<1>6. CASE SourceSteps
  <2>1. \/ UNCHANGED worker
        \/ \E r \in Requests \ {"upload", "local"} : \E step : worker' = [worker EXCEPT ![r] = step]
    <3>1. ASSUME NEW r \in Hashes, HashSegment(r)
          PROVE  /\ r \in Requests \ {"upload", "local"}
                 /\ worker' = [worker EXCEPT ![r] = "ended"]
      BY <3>1 DEF HashSegment, Answers, Requests, Hashes
    <3>2. /\ SettlePartial => worker' = [worker EXCEPT !["settle"] = "ended"]
          /\ VerifySource \/ DeleteSource => \E step : worker' = [worker EXCEPT !["delete"] = step]
      BY DEF SettlePartial, VerifySource, DeleteSource, Answers
    <3>3. OpenSource \/ FinishSource \/ StopSource \/ FailSource =>
            \E step : worker' = [worker EXCEPT !["download"] = step]
      BY DEF OpenSource, FinishSource, StopSource, FailSource, SourceEnds, Answers
    <3>4. SendSegment \/ ReplaceSource => UNCHANGED worker
      BY DEF SendSegment, ReplaceSource, workVars
    <3>5. {"settle", "delete", "download"} \subseteq Requests \ {"upload", "local"}
      BY DEF Requests
    <3>6. QED
      BY <1>6, <3>1, <3>2, <3>3, <3>4, <3>5 DEF SourceSteps
  <2>2. QED
    BY <1>1, <1>2, <2>1
<1>7. CASE UploadSteps
  <2>1. CASE PrepareUpload \/ StageSegment \/ AskUpload
    <3>1. UNCHANGED worker \/ trouble' = "real"
          \/ \E step \in {"staging", "asking"} : worker' = [worker EXCEPT !["upload"] = step]
      BY <2>1 DEF PrepareUpload, StageSegment, AskUpload, Hindered
    <3>2. QED
      BY <1>1, <1>3, <3>1
  <2>2. CASE FailUpload \/ UploadTimesOut
    BY <2>2 DEF FailUpload, Fails, UploadTimesOut, Hindered
  <2>3. CASE PublishUpload
    BY <2>3 DEF PublishUpload
  <2>4. CASE StopUpload
    BY <1>4, <2>4 DEF StopUpload, Stops, Hindered
  <2>5. ASSUME NEW answer \in {"allowed", "denied"}, UploadDecision(answer)
        PROVE  \/ partial' = Absent
               \/ reason["upload"] # "canceled" /\ (token["upload"] \/ Received("decision", "upload", "denied"))
    <3>1. CASE worker["upload"] # "asking"
      BY <1>1, <2>5, <3>1 DEF UploadDecision
    <3>2. CASE worker["upload"] = "asking" /\ answer = "allowed" /\ ~token["upload"]
      BY <1>3, <2>5, <3>2 DEF UploadDecision
    <3>3. CASE worker["upload"] = "asking" /\ ~(answer = "allowed" /\ ~token["upload"])
      <4>1. Stops("upload", reason["upload"]) /\ Received("decision", "upload", answer)
        BY <2>5, <3>3 DEF UploadDecision
      <4>2. Leaves(reason["upload"])
        BY <4>1 DEF Stops, Hindered
      <4>3. QED
        BY <1>4, <3>3, <4>1, <4>2
    <3>4. QED
      BY <3>1, <3>2, <3>3
  <2>6. QED
    BY <1>7, <2>1, <2>2, <2>3, <2>4, <2>5 DEF UploadSteps
<1>8. CASE LocalSteps
  <2>1. UNCHANGED worker \/ \E step : worker' = [worker EXCEPT !["local"] = step]
    BY <1>8 DEF LocalSteps, CheckLocal, RenameLocal, PrepareLocal, VerifyLocal, StageLocal,
         StagedLocal, StopLocal, FailLocal, LocalTimesOut, PublishLocal, VerifyRemoval, RemoveLocal,
         LocalDecision, Stops, Fails, Answers, LocalGoes
  <2>2. QED
    BY <1>0, <1>1, <1>2, <2>1
<1>9. QED
  BY <1>5, <1>6, <1>7, <1>8 DEF AgentSteps

\* What becomes of the upload's own frames when an agent reads: a cancel tells it.
LEMMA UploadIsTold ==
  ASSUME CopyInvariant, AgentSteps, \A a \in Agents : conn[a] = "up"
  PROVE  /\ Told => Told'
         /\ Told' \/ \E k \in {0, 1} :
              /\ Len(urgent'["dest"]) = Len(urgent["dest"]) - k
              /\ \A i \in DOMAIN urgent'["dest"] :
                   i \in Nat /\ i >= 1 /\ i + k \in DOMAIN urgent["dest"] /\ urgent'["dest"][i] = urgent["dest"][i + k]
              /\ k = 1 => 1 \in DOMAIN urgent["dest"] /\ ~CancelsUpload(urgent["dest"][1])
         /\ token'["upload"] =>
              \/ token["upload"] /\ reason'["upload"] = reason["upload"]
              \/ \E i \in DOMAIN urgent["dest"] :
                   CancelsUpload(urgent["dest"][i]) /\ reason'["upload"] = urgent["dest"][i].out
<1>0. /\ "upload" \in Requests /\ "dest" \in Agents /\ AgentOf("upload") = "dest"
      /\ token \in [Requests -> BOOLEAN] /\ reason \in [Requests -> Reasons]
      /\ urgent["dest"] \in Seq(Urgents) /\ Len(urgent["dest"]) \in Nat
      /\ \A r \in {"upload", "local"} : r \in Requests
  BY DEF CopyInvariant, CopyTypeOK, Requests, Agents, AgentOf
<1>1. worker["upload"] = "ended" => worker'["upload"] = "ended"
  BY <1>0, WorkersAdvance
<1>2. CASE UNCHANGED <<urgent, token, reason>>
  BY <1>0, <1>1, <1>2 DEF Told
<1>3. ASSUME NEW r \in Requests, NEW kind, NEW out, Received(kind, r, out), ~(kind = "cancel" /\ r = "upload")
      PROVE  \E k \in {0, 1} :
              /\ Len(urgent'["dest"]) = Len(urgent["dest"]) - k
              /\ \A i \in DOMAIN urgent'["dest"] :
                   i \in Nat /\ i >= 1 /\ i + k \in DOMAIN urgent["dest"] /\ urgent'["dest"][i] = urgent["dest"][i + k]
              /\ k = 1 => 1 \in DOMAIN urgent["dest"] /\ ~CancelsUpload(urgent["dest"][1])
  <2>1. /\ 1 \in DOMAIN urgent[AgentOf(r)] /\ urgent[AgentOf(r)][1] = Frame(kind, r, out)
        /\ AgentOf(r) # "dest" => urgent'["dest"] = urgent["dest"]
        /\ AgentOf(r) = "dest" =>
              /\ Len(urgent'["dest"]) = Len(urgent["dest"]) - 1
              /\ \A i \in DOMAIN urgent'["dest"] :
                   i \in Nat /\ i >= 1 /\ i + 1 \in DOMAIN urgent["dest"] /\ urgent'["dest"][i] = urgent["dest"][i + 1]
    BY <1>0, <1>3, ReadShifts
  <2>2. CASE AgentOf(r) = "dest"
    <3>1. ~CancelsUpload(urgent["dest"][1]) /\ 1 \in DOMAIN urgent["dest"]
      BY <1>3, <2>1, <2>2 DEF CancelsUpload, Frame
    <3>2. QED
      BY <2>1, <2>2, <3>1
  <2>3. CASE AgentOf(r) # "dest"
    BY <1>0, <2>1, <2>3
  <2>4. QED
    BY <2>2, <2>3
<1>4. ASSUME NEW r \in Requests, NEW why \in Reasons, ReceiveCancel(r, why), r # "upload"
      PROVE  UNCHANGED worker /\ token'["upload"] = token["upload"] /\ reason'["upload"] = reason["upload"]
  BY <1>0, <1>4 DEF ReceiveCancel
<1>5. ASSUME NEW why \in Reasons, ReceiveCancel("upload", why)
      PROVE  /\ Told'
             /\ token'["upload"] =>
                 \/ token["upload"] /\ reason'["upload"] = reason["upload"]
                 \/ \E i \in DOMAIN urgent["dest"] :
                      CancelsUpload(urgent["dest"][i]) /\ reason'["upload"] = urgent["dest"][i].out
  <2>1. 1 \in DOMAIN urgent["dest"] /\ urgent["dest"][1] = Frame("cancel", "upload", why)
        /\ worker["upload"] # "absent"
    BY <1>0, <1>5, HeadRead DEF ReceiveCancel
  <2>2. CancelsUpload(urgent["dest"][1]) /\ urgent["dest"][1].out = why
    BY <2>1 DEF CancelsUpload, Frame
  <2>3. CASE Live("upload")
    <3>1. token'["upload"] /\ reason'["upload"] = why
      BY <1>0, <1>5, <2>3 DEF ReceiveCancel
    <3>2. QED
      BY <2>1, <2>2, <3>1 DEF Told
  <2>4. CASE ~Live("upload")
    <3>1. worker["upload"] = "ended" /\ UNCHANGED <<token, reason, worker>>
      BY <1>5, <2>1, <2>4 DEF ReceiveCancel, Live
    <3>2. QED
      BY <3>1 DEF Told
  <2>5. QED
    BY <2>3, <2>4
<1>6. CASE \E r \in Requests, why \in Reasons : ReceiveCancel(r, why)
  <2>1. PICK r \in Requests, why \in Reasons : ReceiveCancel(r, why)
    BY <1>6
  <2>2. Received("cancel", r, why)
    BY <2>1 DEF ReceiveCancel
  <2>3. CASE r = "upload"
    BY <1>5, <2>1, <2>3
  <2>4. CASE r # "upload"
    BY <1>3, <1>4, <2>1, <2>2, <2>4 DEF Told
  <2>5. QED
    BY <2>3, <2>4
<1>7. CASE \E r \in {"upload", "local"}, answer \in {"allowed", "denied"} :
             Received("decision", r, answer) /\ UNCHANGED <<token, reason>>
  BY <1>0, <1>1, <1>3, <1>7 DEF Told
<1>8. QED
  BY <1>2, <1>6, <1>7, AgentsRead

\* Agents write and withdraw what is queued.
LEMMA TicketsAreWritten ==
  ASSUME CopyInvariant, AgentSteps, NEW r \in Requests
  PROVE  /\ ticket'[r] = "queued" => ticket[r] = "queued"
         /\ ticket'[r] = "written" => ticket[r] \in {"queued", "written"}
<1>0. ticket \in [Requests -> {"none", "queued", "written", "withdrawn"}]
  BY DEF CopyInvariant, CopyTypeOK
<1>1. LaneSteps => /\ ticket'[r] = "queued" => ticket[r] = "queued"
                   /\ ticket'[r] = "written" => ticket[r] \in {"queued", "written"}
  <2>1. ASSUME NEW q \in Requests, WriteCommand(q)
        PROVE /\ ticket'[r] = "queued" => ticket[r] = "queued"
              /\ ticket'[r] = "written" => ticket[r] \in {"queued", "written"}
    BY <1>0, <2>1 DEF WriteCommand
  <2>2. ASSUME NEW a \in Agents, AgentNotices(a)
        PROVE /\ ticket'[r] = "queued" => ticket[r] = "queued"
              /\ ticket'[r] = "written" => ticket[r] \in {"queued", "written"}
    BY <1>0, <2>2 DEF AgentNotices
  <2>3. \A q \in Requests : Spawn(q) \/ (\E why \in Reasons : ReceiveCancel(q, why)) => UNCHANGED ticket
    BY DEF Spawn, ReceiveCancel, laneVars
  <2>4. QED
    BY <2>1, <2>2, <2>3 DEF LaneSteps
<1>2. SourceSteps => UNCHANGED ticket
  BY DEF SourceSteps, HashSegment, SettlePartial, VerifySource, DeleteSource, ReplaceSource, OpenSource,
         SendSegment, FinishSource, StopSource, FailSource, SourceEnds, laneVars
<1>3. UploadSteps => UNCHANGED ticket
  BY DEF UploadSteps, PrepareUpload, StageSegment, StopUpload, FailUpload,
         AskUpload, UploadTimesOut, PublishUpload, UploadDecision, laneVars
<1>4. LocalSteps => UNCHANGED ticket
  BY DEF LocalSteps, CheckLocal, RenameLocal, PrepareLocal, VerifyLocal, StageLocal,
         StagedLocal, StopLocal, FailLocal, LocalTimesOut, PublishLocal, VerifyRemoval, RemoveLocal, LocalDecision, laneVars
<1>5. QED
  BY <1>1, <1>2, <1>3, <1>4 DEF AgentSteps

\* An agent discards what a canceled upload staged.
LEMMA AgentsDiscard ==
  ASSUME CopyInvariant, Stopping, Calm, Discards, AgentSteps, trouble' = "none"
  PROVE  Discards'
<1>0. /\ "upload" \in Requests /\ "dest" \in Agents /\ AgentOf("upload") = "dest"
      /\ UNCHANGED <<shape, row, pause>> /\ \A a \in Agents : conn[a] = "up"
      /\ urgent["dest"] \in Seq(Urgents) /\ Len(urgent["dest"]) \in Nat
      /\ urgent'["dest"] \in Seq(Urgents)
  BY AgentsDecideNothing, LanesTyped DEF CopyInvariant, CopyTypeOK, Requests, Agents, AgentOf, Stopping, Calm
<1>1. worker'["upload"] = "ended" => partial' = Absent
  <2>1. CASE worker["upload"] = "ended"
    <3>1. ticket["upload"] # "none"
      BY <1>0, <2>1 DEF CopyInvariant, Tickets
    <3>2. ~Live("upload") /\ ~Live("settle") /\ ~Live("local")
      BY <2>1, <3>1, OneStager DEF Live, Stagers
    <3>3. QED
      BY <2>1, <3>2, StagingMoves DEF Discards
  <2>2. CASE worker["upload"] # "ended"
    <3>1. token["upload"] => reason["upload"] = "canceled"
      BY DEF Discards
    <3>2. Received("decision", "upload", "denied") => token["upload"]
      <4>1. SUFFICES ASSUME Received("decision", "upload", "denied") PROVE token["upload"]
        OBVIOUS
      <4>2. 1 \in DOMAIN urgent["dest"] /\ urgent["dest"][1] = Refused
        BY <1>0, <4>1, HeadRead DEF Refused
      <4>3. Told \/ CancelBefore(1)
        BY <4>2 DEF Discards
      <4>4. ~CancelBefore(1)
        BY <1>0 DEF CancelBefore
      <4>5. QED
        BY <2>2, <4>3, <4>4 DEF Told
    <3>3. QED
      BY <2>2, <3>1, <3>2, UploadLeaves
  <2>3. QED
    BY <2>1, <2>2
<1>2. token'["upload"] => reason'["upload"] = "canceled"
  BY <1>0, UploadIsTold DEF Discards
<1>3. \A i \in DOMAIN urgent'["dest"] : CancelsUpload(urgent'["dest"][i]) => urgent'["dest"][i].out = "canceled"
  <2>1. \A f : Has(urgent'["dest"], f) => Has(urgent["dest"], f)
    BY <1>0, UrgentShrinks
  <2>2. QED
    BY <2>1 DEF Has, Discards
<1>4. Told => Told'
  BY <1>0, UploadIsTold
<1>5. ASSUME ~Told'
      PROVE  \E k \in {0, 1} :
               /\ Len(urgent'["dest"]) = Len(urgent["dest"]) - k
               /\ \A i \in DOMAIN urgent'["dest"] : i + k \in DOMAIN urgent["dest"] /\ urgent'["dest"][i] = urgent["dest"][i + k]
               /\ \A n \in Nat : CancelBefore(n + k) => CancelBefore(n)'
  <2>1. PICK k \in {0, 1} :
              /\ Len(urgent'["dest"]) = Len(urgent["dest"]) - k
              /\ \A i \in DOMAIN urgent'["dest"] :
                   i \in Nat /\ i >= 1 /\ i + k \in DOMAIN urgent["dest"] /\ urgent'["dest"][i] = urgent["dest"][i + k]
              /\ k = 1 => 1 \in DOMAIN urgent["dest"] /\ ~CancelsUpload(urgent["dest"][1])
    BY <1>0, <1>5, UploadIsTold
  <2>2. ASSUME NEW n \in Nat, CancelBefore(n + k) PROVE CancelBefore(n)'
    <3>1. PICK j \in DOMAIN urgent["dest"] : j < n + k /\ CancelsUpload(urgent["dest"][j])
      BY <2>2 DEF CancelBefore
    <3>2. j \in Nat /\ j >= 1 /\ j <= Len(urgent["dest"]) /\ (k = 1 => j # 1)
      BY <1>0, <2>1, <3>1
    <3>3. j - k \in DOMAIN urgent'["dest"] /\ j - k < n
      BY <1>0, <2>1, <3>1, <3>2
    <3>4. urgent'["dest"][j - k] = urgent["dest"][j]
      BY <2>1, <3>2, <3>3
    <3>5. QED
      BY <3>1, <3>3, <3>4 DEF CancelBefore, CancelsUpload
  <2>3. QED
    BY <2>1, <2>2
<1>6. ASSUME NEW i \in DOMAIN urgent'["dest"], urgent'["dest"][i] = Refused
      PROVE  Told' \/ CancelBefore(i)'
  <2>1. SUFFICES ASSUME ~Told' PROVE CancelBefore(i)'
    OBVIOUS
  <2>2. PICK k \in {0, 1} :
               /\ \A n \in DOMAIN urgent'["dest"] : n + k \in DOMAIN urgent["dest"] /\ urgent'["dest"][n] = urgent["dest"][n + k]
               /\ \A n \in Nat : CancelBefore(n + k) => CancelBefore(n)'
    BY <1>5, <2>1
  <2>3. CancelBefore(i + k)
    BY <1>4, <1>6, <2>1, <2>2 DEF Discards
  <2>4. i \in Nat
    BY <1>0
  <2>5. QED
    BY <2>2, <2>3, <2>4
<1>7. \A i \in DOMAIN box'["dest"] : IsPublish(box'["dest"][i]) => worker'["upload"] # "absent"
  <2>0. worker["upload"] # "absent" => worker'["upload"] # "absent"
    BY <1>0, WorkersAdvance
  <2>1. CASE UNCHANGED box
    BY <2>0, <2>1 DEF Discards
  <2>2. ASSUME NEW r \in Requests, NEW f \in Frames, box' = [box EXCEPT ![AgentOf(r)] = Append(@, f)],
               Spoken(r, f), NEW i \in DOMAIN box'["dest"], IsPublish(box'["dest"][i])
        PROVE  worker'["upload"] # "absent"
    <3>1. CASE i \in DOMAIN box["dest"] /\ box'["dest"][i] = box["dest"][i]
      BY <2>0, <2>2, <3>1 DEF Discards
    <3>2. CASE "dest" = AgentOf(r) /\ box'["dest"][i] = f
      <4>1. r = Publisher /\ worker'[r] \in Asking
        BY <2>2, <3>2 DEF Spoken, IsPublish, Frame
      <4>2. r = "upload"
        BY <3>2, <4>1 DEF Publisher, AgentOf
      <4>3. QED
        BY <4>1, <4>2 DEF Asking
    <3>3. QED
      BY <1>0, <2>2, <3>1, <3>2, NewSaid
  <2>3. QED
    BY <2>1, <2>2, AgentsSay DEF Says
<1>8. IsCanceledRow' => IsCanceledRow /\ ticket["upload"] # "queued" /\ ticket'["upload"] # "queued"
  BY <1>0, TicketsAreWritten DEF Discards, IsCanceledRow
<1>9. ASSUME IsCanceledRow', ticket'["upload"] = "written"
      PROVE  Told' \/ CancelBefore(Len(urgent["dest"]) + 1)'
  <2>1. SUFFICES ASSUME ~Told' PROVE CancelBefore(Len(urgent["dest"]) + 1)'
    OBVIOUS
  <2>2. PICK k \in {0, 1} :
               /\ Len(urgent'["dest"]) = Len(urgent["dest"]) - k
               /\ \A n \in Nat : CancelBefore(n + k) => CancelBefore(n)'
    BY <1>5, <2>1
  <2>3. ticket["upload"] = "written"
    BY <1>0, <1>8, <1>9, TicketsAreWritten
  <2>4. CancelBefore(Len(urgent["dest"]) + 1)
    BY <1>4, <1>8, <1>9, <2>1, <2>3 DEF Discards
  <2>5. Len(urgent'["dest"]) \in Nat /\ Len(urgent["dest"]) + 1 = (Len(urgent'["dest"]) + 1) + k
    BY <1>0, <2>2
  <2>6. CancelBefore((Len(urgent'["dest"]) + 1) + k)
    BY <2>4, <2>5
  <2>7. QED
    BY <2>2, <2>5, <2>6
<1>10. QED
  BY <1>1, <1>2, <1>3, <1>6, <1>7, <1>8, <1>9, Zenon DEF Discards, Refused

\* Nobody but the user makes a row one of a canceled copy.
LEMMA UserCancels ==
  ASSUME CopyInvariant, RouterSteps, row = "active", row' = "canceling"
  PROVE  UserCancel \/ UserPause
<1>0. USE DEF Ends, rowVars
<1>1. ASSUME NEW r \in Hashes, NEW d \in Marks, HandleDigest(r, d) PROVE FALSE
  BY <1>1 DEF HandleDigest, Compared, StartRemote, NextSegment, NextSegmentNotQueued
<1>2. ASSUME NEW r \in Hashes, NEW out, HandleHashFailure(r, out) PROVE FALSE
  BY <1>2 DEF HandleHashFailure, SettleVerifying, SettlementNotQueued, EndFailed
<1>3. ASSUME HandleReady \/ HandleVerification PROVE FALSE
  BY <1>3 DEF HandleReady, HandleVerification
<1>4. ASSUME NEW out, SourceFinished(out) PROVE FALSE
  BY <1>4 DEF SourceFinished, Acknowledge
<1>5. ASSUME NEW out, DestinationFinished(out) PROVE FALSE
  BY <1>5 DEF DestinationFinished, EndFailed, BeginDeletion, Acknowledge
<1>6. ASSUME NEW out, LocalFinished(out) PROVE FALSE
  BY <1>6 DEF LocalFinished
<1>7. ~RouteWithdrawn
  BY <1>4, <1>5, <1>6 DEF RouteWithdrawn
<1>8. ASSUME NEW out, HandleSettled(out) \/ HandleDeletion(out) PROVE FALSE
  BY <1>8 DEF HandleSettled, FinishSettlement, HandleDeletion
<1>9. \A out : ~HandleSource(out) /\ ~HandleDestination(out) /\ ~HandleLocal(out)
  BY <1>4, <1>5, <1>6 DEF HandleSource, HandleDestination, HandleLocal
<1>10. ASSUME NEW a \in Agents, HandlePublishRequest(a) \/ DropResult(a) \/ HandleLost(a) PROVE FALSE
  BY <1>10 DEF HandlePublishRequest, DropResult, HandleLost, SettleLost
<1>11. ~Start /\ ~StartRefused
  BY DEF Start, StartRefused
<1>12. QED
  BY <1>1, <1>2, <1>3, <1>7, <1>8, <1>9, <1>10, <1>11 DEF RouterSteps, RouterWorks

\* The user's cancel withdraws the upload or is sent after it.
LEMMA CancelReaches ==
  ASSUME CopyInvariant, Stopping, losses = 0, RouterSteps, row = "active", row' = "canceling",
         pause' = "none"
  PROVE  /\ ticket'["upload"] # "queued"
         /\ ticket'["upload"] = "written" =>
              \/ worker["upload"] = "ended"
              \/ urgent'["dest"] = Append(urgent["dest"], Frame("cancel", "upload", "canceled"))
<1>0. /\ ticket \in [Requests -> {"none", "queued", "written", "withdrawn"}]
      /\ "upload" \in Requests /\ "dest" \in Agents /\ AgentOf("upload") = "dest" /\ AgentOf("download") # "dest"
      /\ conn["dest"] = "up" /\ row' # "errored"
  BY DEF CopyInvariant, CopyTypeOK, Requests, Agents, AgentOf, Stopping
<1>1. UserCancel
  <2>1. UserPause => pause' = "asked" \/ row' = "errored"
    BY DEF UserPause, SettleVerifying, SettlementNotQueued
  <2>2. QED
    BY <2>1, UserCancels
<1>2. CASE flow.phase \in Remote
  <2>1. flow.phase \notin {"local", "verifying", "settling"}
    BY <1>2 DEF Remote
  <2>2. CancelRemote("canceled")
    BY <1>1, <2>1 DEF UserCancel
  <2>3. PICK why : /\ why \in [DOMAIN why -> {"canceled"}] /\ "upload" \in DOMAIN why
                   /\ DOMAIN why \subseteq {"upload", "download"} /\ Cancels(why)
    <3>1. \A targets : [r \in targets |-> "canceled"] \in [targets -> {"canceled"}]
      OBVIOUS
    <3>2. QED
      BY <2>2, <3>1 DEF CancelRemote
  <2>4. ticket'["upload"] = IF ticket["upload"] = "queued" THEN "withdrawn" ELSE ticket["upload"]
    BY <1>0, <2>3 DEF Cancels, AfterCancel
  <2>5. ASSUME ticket'["upload"] = "written", worker["upload"] # "ended"
        PROVE  urgent'["dest"] = Append(urgent["dest"], Frame("cancel", "upload", "canceled"))
    <3>1. ticket["upload"] = "written"
      BY <2>4, <2>5
    <3>2. Reached("dest", why) = {"upload"}
      BY <1>0, <2>3, <2>5, <3>1 DEF Reached
    <3>3. (CHOOSE r \in Reached("dest", why) : TRUE) = "upload" /\ why["upload"] = "canceled"
      BY <2>3, <3>2
    <3>4. QED
      BY <1>0, <2>3, <3>2, <3>3 DEF Cancels, SendCancels
  <2>6. QED
    BY <1>0, <2>4, <2>5
<1>3. CASE flow.phase \notin Remote
  <2>1. flow.phase \in {"local", "verifying", "settling"}
    BY <1>1, <1>3 DEF UserCancel
  <2>2. ticket["upload"] = "none"
    BY <1>3, <2>1 DEF CopyInvariant, Tickets
  <2>3. ~Made("upload")
    <3>1. flow'.phase # "awaiting"
      <4>1. RowPhases'
        BY RouterKeepsInvariant DEF CopyInvariant
      <4>2. QED
        BY <4>1 DEF RowPhases
    <3>2. QED
      BY <3>1 DEF Made
  <2>4. ticket'["upload"] = "none"
    BY <1>0, <2>2, <2>3, RouterTickets DEF TicketStep, TicketMove, Hashes
  <2>5. QED
    BY <2>4
<1>4. QED
  BY <1>2, <1>3

\* What the router refuses to publish, the upload was told to discard.
LEMMA RefusalFollowsCancel ==
  ASSUME CopyInvariant, Stopping, Pausing, Calm, Discards, pause = "none", HandlePublishRequest("dest"),
         ~Authorizes, Publisher = "upload"
  PROVE  Told \/ CancelBefore(Len(urgent["dest"]) + 1)
<1>0. "upload" \in Requests /\ "dest" \in Agents /\ row \in Rows
  BY RouterFacts DEF Requests, Agents
<1>1. worker["upload"] # "absent" /\ 1 \in DOMAIN box["dest"] /\ IsPublish(box["dest"][1])
  <2>1. box["dest"] # <<>> /\ Head(box["dest"]).kind = "publish" /\ box["dest"] \in Seq(Frames)
    BY <1>0 DEF HandlePublishRequest, Next1, CopyInvariant, CopyTypeOK
  <2>2. 1 \in DOMAIN box["dest"] /\ IsPublish(box["dest"][1])
    BY <2>1, TakenFrame DEF IsPublish
  <2>3. QED
    BY <2>2 DEF Discards
<1>2. ticket["upload"] = "written"
  BY <1>0, <1>1 DEF CopyInvariant, Tickets
<1>3. flow.phase \in Remote \cup {"deleting", "settled"}
  BY <1>2 DEF CopyInvariant, Tickets
<1>4. row \notin {"none", "active"}
  BY <1>3 DEF Authorizes, CopyInvariant, RowPhases, Final, Remote
<1>5. row # "committed"
  <2>1. row = "committed" => Requested
    BY DEF Calm, Uncanceled, Unstopped
  <2>2. QED
    BY <1>0, <1>1, <2>1 DEF Requested
<1>6. row # "errored" /\ row # "forgotten"
  BY DEF Calm, Pausing
<1>7. row = "completed" => Told
  BY DEF CopyInvariant, Grants, Told
<1>8. row \in {"canceling", "canceled"} => Told \/ CancelBefore(Len(urgent["dest"]) + 1)
  BY <1>2 DEF Discards, IsCanceledRow
<1>9. QED
  BY <1>0, <1>4, <1>5, <1>6, <1>7, <1>8 DEF Rows

\* The router sends the cancel first.
LEMMA RouterDiscards ==
  ASSUME CopyInvariant, Stopping, Pausing, Calm, Discards, RouterSteps, trouble' = "none",
         pause = "none", pause' = "none"
  PROVE  Discards'
<1>0. /\ UNCHANGED <<partial, token, reason>> /\ worker'["upload"] = worker["upload"]
      /\ "upload" \in Requests /\ "dest" \in Agents /\ row' # "errored" /\ losses = 0
      /\ urgent["dest"] \in Seq(Urgents) /\ Len(urgent["dest"]) \in Nat
      /\ \A a \in Agents : ~HandleLost(a)
      /\ RowStep /\ TicketStep
  <2>1. "upload" \in Requests \ Hashes
    BY DEF Requests, Hashes
  <2>2. QED
    BY <2>1, RouterLeaves, RouterAsksAgain, RouterFailsNobody, RouterRows, RouterTickets
       DEF CopyInvariant, CopyTypeOK, Agents, Calm
<1>1. ASSUME NEW i \in DOMAIN urgent'["dest"]
      PROVE  \/ i \in DOMAIN urgent["dest"] /\ urgent'["dest"][i] = urgent["dest"][i]
             \/ i = Len(urgent["dest"]) + 1 /\ Queued("dest", urgent'["dest"][i])
  BY <1>0, NewQueued
<1>2. \/ urgent'["dest"] = urgent["dest"]
      \/ \E f \in Urgents : urgent'["dest"] = Append(urgent["dest"], f)
  BY <1>0, RouterQueues DEF LaneStep
<1>3. /\ \A j \in DOMAIN urgent["dest"] : j \in DOMAIN urgent'["dest"] /\ urgent'["dest"][j] = urgent["dest"][j]
      /\ Len(urgent'["dest"]) \in Nat /\ Len(urgent'["dest"]) >= Len(urgent["dest"])
      /\ \A j \in DOMAIN urgent["dest"] : j \in Nat /\ j <= Len(urgent["dest"])
  BY <1>0, <1>2
<1>4. /\ Told => Told'
      /\ \A i \in Nat : CancelBefore(i) => CancelBefore(i)'
      /\ CancelBefore(Len(urgent["dest"]) + 1) => CancelBefore(Len(urgent["dest"]) + 1)'
  <2>1. Told => Told'
    BY <1>0 DEF Told
  <2>2. \A i \in Nat : CancelBefore(i) => CancelBefore(i)'
    BY <1>3 DEF CancelBefore, CancelsUpload
  <2>3. CancelBefore(Len(urgent["dest"]) + 1) => CancelBefore(Len(urgent["dest"]) + 1)'
    BY <1>0, <1>3 DEF CancelBefore, CancelsUpload
  <2>4. QED
    BY <2>1, <2>2, <2>3
<1>5. ASSUME NEW i \in DOMAIN urgent'["dest"], CancelsUpload(urgent'["dest"][i])
      PROVE  urgent'["dest"][i].out = "canceled"
  <2>1. CASE i \in DOMAIN urgent["dest"] /\ urgent'["dest"][i] = urgent["dest"][i]
    BY <1>5, <2>1 DEF Discards
  <2>2. CASE Queued("dest", urgent'["dest"][i])
    BY <1>0, <1>5, <2>2 DEF Queued, CancelsUpload, Frame, Hashes
  <2>3. QED
    BY <1>1, <2>1, <2>2
<1>6. ASSUME NEW i \in DOMAIN urgent'["dest"], urgent'["dest"][i] = Refused
      PROVE  Told' \/ CancelBefore(i)'
  <2>1. CASE i \in DOMAIN urgent["dest"] /\ urgent'["dest"][i] = urgent["dest"][i]
    <3>1. Told \/ CancelBefore(i)
      BY <1>6, <2>1 DEF Discards
    <3>2. QED
      BY <1>3, <1>4, <2>1, <3>1
  <2>2. CASE i = Len(urgent["dest"]) + 1 /\ Queued("dest", urgent'["dest"][i])
    <3>1. HandlePublishRequest("dest") /\ ~Authorizes /\ Publisher = "upload"
      BY <1>6, <2>2 DEF Queued, Refused, Frame
    <3>2. Told \/ CancelBefore(Len(urgent["dest"]) + 1)
      BY <3>1, RefusalFollowsCancel
    <3>3. Len(urgent["dest"]) + 1 \in Nat
      BY <1>0
    <3>4. QED
      BY <1>4, <2>2, <3>2, <3>3
  <2>3. QED
    BY <1>1, <2>1, <2>2
<1>7. \A i \in DOMAIN box'["dest"] : IsPublish(box'["dest"][i]) => worker'["upload"] # "absent"
  <2>1. PICK k \in {0, 1} : \A i \in DOMAIN box'["dest"] : i + k \in DOMAIN box["dest"] /\ box'["dest"][i] = box["dest"][i + k]
    BY <1>0, BoxShrinks
  <2>2. QED
    BY <1>0, <2>1 DEF Discards
<1>8. ASSUME IsCanceledRow'
      PROVE  /\ ticket'["upload"] # "queued"
             /\ ticket'["upload"] = "written" => Told' \/ CancelBefore(Len(urgent["dest"]) + 1)'
  <2>1. CASE IsCanceledRow
    <3>1. ~Made("upload")
      <4>1. RowPhases'
        BY RouterKeepsInvariant DEF CopyInvariant
      <4>2. QED
        BY <1>8, <4>1 DEF Made, RowPhases, IsCanceledRow
    <3>2. /\ ticket'["upload"] = "queued" => ticket["upload"] = "queued"
          /\ ticket'["upload"] = "written" => ticket["upload"] = "written"
      <4>1. "upload" \notin Hashes
        BY DEF Hashes
      <4>2. QED
        BY <1>0, <3>1, <4>1 DEF TicketStep, TicketMove
    <3>3. QED
      BY <1>4, <2>1, <3>2 DEF Discards
  <2>2. CASE ~IsCanceledRow
    <3>1. row = "active" /\ row' = "canceling"
      BY <1>0, <1>8, <2>2 DEF IsCanceledRow, RowStep, GoesOn, Begins, Admits, IsCanceled, Deletes, Finishes
    <3>2. /\ ticket'["upload"] # "queued"
          /\ ticket'["upload"] = "written" =>
              \/ worker["upload"] = "ended"
              \/ urgent'["dest"] = Append(urgent["dest"], Frame("cancel", "upload", "canceled"))
      BY <1>0, <3>1, CancelReaches
    <3>3. urgent'["dest"] = Append(urgent["dest"], Frame("cancel", "upload", "canceled"))
            => CancelBefore(Len(urgent["dest"]) + 1)'
      <4>1. SUFFICES ASSUME urgent'["dest"] = Append(urgent["dest"], Frame("cancel", "upload", "canceled"))
                     PROVE  CancelBefore(Len(urgent["dest"]) + 1)'
        OBVIOUS
      <4>2. /\ Len(urgent["dest"]) + 1 \in DOMAIN urgent'["dest"] /\ Len(urgent'["dest"]) = Len(urgent["dest"]) + 1
            /\ urgent'["dest"][Len(urgent["dest"]) + 1] = Frame("cancel", "upload", "canceled")
        BY <1>0, <4>1
      <4>3. CancelsUpload(urgent'["dest"][Len(urgent["dest"]) + 1])
        BY <4>2 DEF CancelsUpload, Frame
      <4>4. QED
        BY <1>0, <4>2, <4>3 DEF CancelBefore, CancelsUpload
    <3>4. worker["upload"] = "ended" => Told'
      BY <1>0 DEF Told
    <3>5. QED
      BY <3>2, <3>3, <3>4
  <2>3. QED
    BY <2>1, <2>2
<1>9. worker'["upload"] = "ended" => partial' = Absent
  BY <1>0 DEF Discards
<1>10. token'["upload"] => reason'["upload"] = "canceled"
  BY <1>0 DEF Discards
<1>11. QED
  BY <1>5, <1>6, <1>7, <1>8, <1>9, <1>10, Zenon DEF Discards, Refused

\* As long as nothing went wrong and no pause was asked for.
DiscardsUntilTrouble == trouble = "none" /\ pause = "none" => Discards

\* It holds from the start.
LEMMA DiscardsHold == CopySpec => []DiscardsUntilTrouble
<1>1. CopyInit => DiscardsUntilTrouble
  <2> SUFFICES ASSUME CopyInit PROVE Discards
    BY DEF DiscardsUntilTrouble
  <2>1. /\ urgent["dest"] = <<>> /\ box["dest"] = <<>> /\ row = "none"
        /\ worker["upload"] = "absent" /\ ~token["upload"]
    BY DEF CopyInit, Agents, Requests
  <2>2. QED
    BY <2>1 DEF Discards, IsCanceledRow
<1>2. CopyInvariant /\ Stopping /\ Pausing /\ CalmUntilTrouble /\ DiscardsUntilTrouble /\ [CopyNext]_vars
        => DiscardsUntilTrouble'
  <2>1. SUFFICES ASSUME CopyInvariant, Stopping, Pausing, CalmUntilTrouble, DiscardsUntilTrouble, [CopyNext]_vars,
                        trouble' = "none", pause' = "none"
                 PROVE  Discards'
    BY DEF DiscardsUntilTrouble
  <2>2. CASE AgentSteps
    BY <2>1, <2>2, TroubleStays, AgentsDecideNothing, AgentsDiscard DEF CalmUntilTrouble, DiscardsUntilTrouble
  <2>3. CASE RouterSteps
    <3>1. pause = "none"
      BY <2>1, <2>3, RouterRows DEF RowStep, GoesOn, Begins, Admits, IsCanceled, Deletes, Finishes
    <3>2. QED
      BY <2>1, <2>3, <3>1, RouterLeaves, RouterDiscards DEF CalmUntilTrouble, DiscardsUntilTrouble
  <2>4. CASE NetSteps
    <3>1. losses = 0 \/ trouble # "none"
      BY <2>1 DEF CalmUntilTrouble, Calm
    <3>2. trouble # "none" => trouble' # "none"
      BY <2>4 DEF NetSteps, Disconnect, Reconnect, Hindered
    <3>3. QED
      BY <2>1, <2>4, <3>1, <3>2, NetIsTrouble
  <2>5. CASE UNCHANGED vars
    BY <2>1, <2>5 DEF DiscardsUntilTrouble, Discards, Told, CancelBefore, IsCanceledRow, vars, fileVars, rowVars,
       laneVars, workVars, netVars
  <2>6. QED
    BY <2>1, <2>2, <2>3, <2>4, <2>5, StepKinds
<1>3. QED
  BY <1>1, <1>2, CopyInvariantHolds, StoppingHolds, PausingHolds, CalmHolds, PTL DEF CopySpec

\* What an ended copy leaves behind: a confirmed pause its durable partial, with nobody
\* writing to it any more, a canceled upload that met no trouble nothing of what it staged.
THEOREM PartialsFollowTheirRow == CopySpec => []PartialFollowsRow
<1>1. CopyInvariant /\ Pausing => (pause = "ok" /\ ~flow.failure =>
        /\ durable /\ partial # Absent /\ target = <<>>
        /\ \A r \in {"upload", "local", "settle"} : ~Live(r))
  <2>1. SUFFICES ASSUME CopyInvariant, Pausing, pause = "ok", ~flow.failure
                 PROVE  /\ durable /\ partial # Absent /\ target = <<>>
                        /\ \A r \in {"upload", "local", "settle"} : ~Live(r)
    OBVIOUS
  <2>2. Kept /\ \A r \in Stagers : worker[r] = "ended" \/ ticket[r] = "none"
    BY <2>1 DEF Pausing
  <2>3. \A r \in Stagers : worker[r] # "absent" => ticket[r] = "written"
    BY <2>1, OneStager
  <2>4. QED
    BY <2>2, <2>3 DEF Kept, Stagers, Live
<1>2. CopyInvariant /\ Pausing /\ DiscardsUntilTrouble =>
        (row = "canceled" /\ trouble = "none" /\ worker["upload"] = "ended" => partial = Absent)
  <2>1. CopyInvariant /\ Pausing /\ row = "canceled" => pause = "none"
    BY DEF Pausing, CopyInvariant, RowPhases, CopyTypeOK
  <2>2. QED
    BY <2>1 DEF DiscardsUntilTrouble, Discards
<1>3. CopyInvariant /\ Pausing /\ DiscardsUntilTrouble => PartialFollowsRow
  BY <1>1, <1>2 DEF PartialFollowsRow
<1>4. QED
  BY <1>3, CopyInvariantHolds, PausingHolds, DiscardsHold, PTL
=============================================================================
