------------------------------ MODULE CopyFlow ------------------------------
(***************************************************************************)
(* One copy or move from start_copy to its last row: the router's CopyFlow *)
(* with its phases, the commands it gives to the source and the            *)
(* destination agent, the workers that execute them, and the files they    *)
(* touch.  The two agents are lost, and come back, independently.          *)
(*                                                                         *)
(* A file is a sequence of segments, each from the version of the source   *)
(* whose identity the copy captured, from another version, or torn; of a   *)
(* directory the segments are its entries.  A copy of a regular file       *)
(* stages into a partial that outlives its worker; a directory is staged   *)
(* in a temporary that does not.                                           *)
(*                                                                         *)
(* What an agent sends is in order per session; commands wait in their     *)
(* lane, cancels and decisions share the priority lane.  The bytes of the  *)
(* two streams are StreamCredit's; here the destination sees any amount    *)
(* the source has sent so far.                                             *)
(***************************************************************************)
EXTENDS Integers, Sequences, FiniteSets

CONSTANTS
  Segments,   \* whole segments in the source
  MaxLosses   \* connection losses in a behaviour (model bound)

ASSUME CopyAssumption == Segments \in Nat \ {0} /\ MaxLosses \in Nat

VARIABLES
  shape,      \* which copy: is it a move, on one agent, of a regular file, resuming
  source,     \* the version at the source path, or "gone"
  target,     \* content of the destination, <<>> while it is as before
  partial,    \* content of the staging at the destination, or Absent
  durable,    \* the partial was synced with its manifest
  flow,       \* the router's CopyFlow
  pause,      \* CopyFlow.pause: its reply is owed, sent, or was never asked for
  row,        \* the history row; "committed" is Active without cancelable
  pausable,   \* its pausable flag
  ticket,     \* CommandTicket of each request
  urgent,     \* per agent, the priority lane: Cancel and PublishDecision frames
  withdrawn,  \* requests whose local result waits in local_results
  box,        \* per agent, its frames on their way to the router
  worker,     \* per request, the agent's task
  token,      \* per request, its cancellation token fired
  reason,     \* per request, its CancelReasonCell
  opened,     \* the version the running source reader found when it began
  sent,       \* segments of the source that were sent so far
  fin,        \* the source's stream was ended
  conn,       \* per agent, the server's end: "up", "broken", or "gone" once handled
  linked,     \* per agent, its own end is attached
  losses,     \* how often a connection was lost
  trouble     \* what has gone wrong so far

fileVars == <<source, target, partial, durable>>
rowVars  == <<row, pausable, pause>>
laneVars == <<ticket, urgent, withdrawn>>
workVars == <<worker, token, reason, opened, sent, fin>>
netVars  == <<conn, linked, losses>>
vars == <<shape, fileVars, flow, rowVars, laneVars, box, workVars, netVars, trouble>>

Agents   == {"source", "dest"}
Hashes   == {"hashSource", "hashDest"}
Requests == Hashes \cup {"settle", "upload", "download", "delete", "local"}
AgentOf(r) ==
  IF r \in {"hashDest", "settle", "upload"} THEN "dest" ELSE "source"

\* "other" replaced the captured version before a removal looked at the source,
\* "late" after it had and before the path is removed.
Versions == {"captured", "other", "late"}
Marks    == Versions \cup {"torn"}
Absent   == <<"absent">>
Whole(version) == [i \in 1 .. Segments |-> version]
Prefix(s, n)   == SubSeq(s, 1, n)

\* What earlier attempts may have left: any prefix, any part of it torn.
Leftovers == UNION {[1 .. n -> {"captured", "torn"}] : n \in 1 .. Segments}

Remote == {"awaiting", "streaming", "canceling"}
Phases == Remote \cup {"none", "verifying", "settling", "local", "deleting", "settled"}
Reasons == {"canceled", "paused", "disconnected"}
Rows == {"none", "active", "committed", "canceling", "canceled", "errored",
         "completed", "forgotten"}
Steps == {"absent", "running", "preparing", "staging", "asking", "publishing",
          "opening", "sending", "checking", "askingRename", "renaming",
          "verifying", "removing", "deleting", "ended"}
Outcomes == Marks \cup {"ok", "error", "changed", "paused"}
Frames ==
  [kind : {"result"}, req : Requests, out : Outcomes]
  \cup [kind : {"ready", "publish", "verifying"}, req : {"upload", "local"}, out : {"none"}]
  \cup [kind : {"lost"}, req : {"none"}, out : {"none"}]
Urgents ==
  [kind : {"cancel"}, req : Requests, out : Reasons]
  \cup [kind : {"decision"}, req : {"upload", "local"}, out : {"allowed", "denied"}]

CopyInit ==
  /\ shape \in [move : BOOLEAN, local : BOOLEAN, file : BOOLEAN, resume : BOOLEAN]
  /\ partial \in {Absent} \cup (IF shape.file THEN Leftovers ELSE {})
  /\ shape.resume => partial # Absent
  /\ source = "captured" /\ target = <<>> /\ durable = FALSE
  /\ flow = [phase |-> "none", sourceFinished |-> FALSE, acked |-> {},
             digest |-> [a \in Agents |-> "none"], offset |-> 0, end |-> 0,
             failure |-> FALSE, settle |-> "none"]
  /\ row = "none" /\ pausable = FALSE /\ pause = "none"
  /\ ticket = [r \in Requests |-> "none"] /\ withdrawn = {}
  /\ urgent = [a \in Agents |-> <<>>] /\ box = [a \in Agents |-> <<>>]
  /\ worker = [r \in Requests |-> "absent"]
  /\ token = [r \in Requests |-> FALSE]
  /\ reason = [r \in Requests |-> "disconnected"]
  /\ opened = "captured" /\ sent = 0 /\ fin = FALSE
  /\ conn = [a \in Agents |-> "up"] /\ linked = [a \in Agents |-> TRUE]
  /\ losses = 0 /\ trouble = "none"

Frame(kind, r, out) == [kind |-> kind, req |-> r, out |-> out]

Live(r)  == worker[r] \notin {"absent", "ended"}
Hindered == trouble' = "real"

-----------------------------------------------------------------------------
(* Router: what its handlers are made of *)

\* Whether send_command may queue for the agent; a lane may be full or closed.
MayQueue(a, queued) == conn[a] = "gone" => ~queued

Queue(r) == [ticket EXCEPT ![r] = "queued"]

\* cancel_on_agent for several requests at once: a command that was not written
\* yet is withdrawn, the worker of any other is sent the reason.  A cancel for a
\* request that was never made, has been answered or has no connection is lost.
\* No agent has two requests canceled in one step.
AfterCancel(why) ==
  [r \in Requests |->
     IF r \in DOMAIN why /\ ticket[r] = "queued" THEN "withdrawn" ELSE ticket[r]]

Reached(a, why) ==
  {r \in DOMAIN why : /\ AgentOf(r) = a /\ ticket[r] = "written"
                      /\ conn[a] = "up" /\ worker[r] # "ended"}

SendCancels(why) ==
  urgent' = [a \in Agents |->
               IF Reached(a, why) = {} THEN urgent[a]
               ELSE LET r == CHOOSE r \in Reached(a, why) : TRUE
                    IN Append(urgent[a], Frame("cancel", r, why[r]))]

Cancels(why) == ticket' = AfterCancel(why) /\ SendCancels(why)

\* pending_segment_hashes
PendingHashes ==
  [r \in {h \in Hashes : flow.digest[AgentOf(h)] = "none"} |-> "canceled"]

Nobody == [r \in {} |-> "canceled"]

\* release_remote_copy for CopyRelease::Fail and SourceChanged: the reason says
\* what becomes of the partial.
ReleaseRemote(disposition) ==
  [r \in {"upload"} \cup
         (IF flow.phase # "awaiting" /\ ~flow.sourceFinished THEN {"download"} ELSE {})
     |-> IF r = "upload" THEN disposition ELSE "canceled"]

\* release_copy
Release(disposition) ==
  IF flow.phase \in Remote THEN ReleaseRemote(disposition)
  ELSE IF flow.phase = "verifying" THEN PendingHashes
  ELSE Nobody

Ends(state) == flow' = [flow EXCEPT !.phase = "settled"] /\ row' = state

\* end_copy with a failure
EndFailed ==
  /\ Ends("errored")
  /\ Cancels(Release("disconnected"))

\* finish_partial_settlement
FinishSettlement(ok) ==
  IF pause = "asked"
  THEN /\ Ends(IF ok THEN "forgotten" ELSE "errored")
       /\ pause' = IF ok THEN "ok" ELSE "refused"
  ELSE /\ Ends(IF flow.failure \/ ~ok THEN "errored" ELSE "canceled")
       /\ UNCHANGED pause

\* The answer to a failed settlement is known at once when it cannot be queued.
SettlementNotQueued(failure, asked) ==
  /\ flow' = [flow EXCEPT !.phase = "settled", !.failure = failure]
  /\ row' = "errored"
  /\ pause' = IF asked THEN "refused" ELSE pause

\* settle_verifying_partial
SettleVerifying(failure, asked) ==
  \E queued \in BOOLEAN :
     /\ MayQueue("dest", queued)
     /\ SendCancels(PendingHashes)
     /\ IF queued
        THEN /\ flow' = [flow EXCEPT !.phase = "settling", !.failure = failure,
                                     !.settle = IF asked THEN "persist" ELSE "delete"]
             /\ ticket' = [AfterCancel(PendingHashes) EXCEPT !["settle"] = "queued"]
             /\ pause' = IF asked THEN "asked" ELSE pause
             /\ row' = IF failure THEN row ELSE "canceling"
             /\ UNCHANGED trouble
        ELSE /\ SettlementNotQueued(failure, asked)
             /\ ticket' = AfterCancel(PendingHashes)
             /\ Hindered

\* start_remote_copy at the verified offset; a refused upload ends the copy.
StartRemote(offset) ==
  \E queued \in BOOLEAN :
     /\ MayQueue("dest", queued)
     /\ flow' = [flow EXCEPT !.phase = IF queued THEN "awaiting" ELSE "settled",
                             !.offset = offset]
     /\ ticket' = IF queued THEN Queue("upload") ELSE ticket
     /\ row' = IF queued THEN "active" ELSE "errored"
     /\ IF queued THEN UNCHANGED trouble ELSE Hindered

-----------------------------------------------------------------------------
(* Router: starting *)

\* start_copy, with a command accepted by the queue.
Start ==
  /\ flow.phase = "none"
  /\ \A a \in Agents : conn[a] # "gone"
  /\ row' = "active" /\ pausable' = (shape.file /\ ~shape.local)
  /\ flow' = [flow EXCEPT
       !.phase = IF shape.local THEN "local"
                 ELSE IF shape.resume THEN "verifying" ELSE "awaiting",
       !.end = IF shape.resume THEN Len(partial) ELSE 0]
  /\ ticket' = [r \in Requests |->
       IF r \in (IF shape.local THEN {"local"}
                 ELSE IF shape.resume THEN Hashes ELSE {"upload"})
       THEN "queued" ELSE ticket[r]]
  /\ UNCHANGED <<shape, fileVars, pause, urgent, withdrawn, box, workVars,
                 netVars, trouble>>

\* A queue is full: the copy ends where it began.
StartRefused ==
  /\ flow.phase = "none"
  /\ Ends("errored") /\ Hindered
  /\ UNCHANGED <<shape, fileVars, pausable, pause, laneVars, box, workVars, netVars>>

-----------------------------------------------------------------------------
(* Router: cancel and pause *)

\* Mutant: a source that has finished is waited for.
CancelRemoteWaiting(why) ==
  LET done    == flow.phase = "awaiting"
      targets == {"upload"} \cup (IF done THEN {} ELSE {"download"})
  IN /\ flow' = [flow EXCEPT !.phase = "canceling",
                             !.acked = IF done THEN {"source"} ELSE {}]
     /\ Cancels([r \in targets |-> why])
     /\ withdrawn' = {r \in targets : ticket[r] = "queued"}
     /\ row' = "canceling"
     /\ UNCHANGED trouble

\* cancel_copy for a remote copy: a source that never started or has finished
\* needs no acknowledgement, the destination always does.
CancelRemote(why) ==
  LET done    == flow.sourceFinished \/ flow.phase = "awaiting"
      targets == {"upload"} \cup (IF done THEN {} ELSE {"download"})
  IN /\ flow' = [flow EXCEPT !.phase = "canceling",
                             !.acked = IF done THEN {"source"} ELSE {}]
     /\ Cancels([r \in targets |-> why])
     /\ withdrawn' = {r \in targets : ticket[r] = "queued"}
     /\ row' = "canceling"
     /\ UNCHANGED trouble

CancelLocal(why) ==
  /\ Cancels([r \in {"local"} |-> why])
  /\ withdrawn' = {r \in {"local"} : ticket[r] = "queued"}
  /\ row' = "canceling"
  /\ UNCHANGED <<flow, trouble>>

\* cancel_public_transfer: only an active row that is still cancelable.
UserCancel ==
  /\ withdrawn = {} /\ row = "active"
  /\ \/ flow.phase \in Remote /\ CancelRemote("canceled") /\ UNCHANGED pause
     \/ flow.phase = "local" /\ CancelLocal("canceled") /\ UNCHANGED pause
     \/ flow.phase = "verifying" /\ SettleVerifying(FALSE, FALSE) /\ UNCHANGED withdrawn
     \/ /\ flow.phase = "settling" /\ row' = "canceling"
        /\ UNCHANGED <<flow, pause, ticket, urgent, withdrawn, trouble>>
  /\ UNCHANGED <<shape, fileVars, pausable, box, workVars, netVars>>

\* pause_transfer: a cancel whose reply waits for the destination.
UserPause ==
  /\ withdrawn = {} /\ row = "active" /\ pausable /\ pause = "none"
  /\ \/ flow.phase \in Remote /\ CancelRemote("paused") /\ pause' = "asked"
     \/ flow.phase = "local" /\ CancelLocal("paused") /\ pause' = "asked"
     \/ flow.phase = "verifying" /\ SettleVerifying(FALSE, TRUE) /\ UNCHANGED withdrawn
     \/ /\ flow.phase = "settling" /\ row' = "canceling" /\ pause' = "asked"
        /\ UNCHANGED <<flow, ticket, urgent, withdrawn, trouble>>
  /\ UNCHANGED <<shape, fileVars, pausable, box, workVars, netVars>>

\* Mutant: the first of the two workers to stop settles the cancel.
AcknowledgeAlone(side) ==
  /\ Ends(IF pause = "asked" THEN "forgotten" ELSE "canceled")
  /\ pause' = IF pause = "asked" THEN "ok" ELSE pause

\* acknowledge_copy_cancel
Acknowledge(side) ==
  LET acked == flow.acked \cup {side}
  IN IF acked = Agents
     THEN /\ Ends(IF pause = "asked" THEN "forgotten" ELSE "canceled")
          /\ pause' = IF pause = "asked" THEN "ok" ELSE pause
     ELSE /\ flow' = [flow EXCEPT !.acked = acked,
                                  !.sourceFinished = @ \/ side = "source"]
          /\ UNCHANGED <<row, pause>>

-----------------------------------------------------------------------------
(* Router: verifying the prefix *)

\* The next message of an agent; results routed inside a message come first.
Next1(a) == withdrawn = {} /\ box[a] # <<>>
Taken(a) == box' = [box EXCEPT ![a] = Tail(@)]

ResultOf(r, out) ==
  /\ Next1(AgentOf(r))
  /\ Head(box[AgentOf(r)]) = Frame("result", r, out)
  /\ Taken(AgentOf(r))

\* next_segment_hashes: fresh requests for the next segment.
NextSegment(offset) ==
  /\ flow' = [flow EXCEPT !.offset = offset, !.digest = [a \in Agents |-> "none"]]
  /\ ticket' = [r \in Requests |-> IF r \in Hashes THEN "queued" ELSE ticket[r]]
  /\ worker' = [r \in Requests |-> IF r \in Hashes THEN "absent" ELSE worker[r]]
  /\ UNCHANGED <<row, trouble>>

NextSegmentNotQueued ==
  /\ Ends("errored") /\ Hindered
  /\ UNCHANGED <<ticket, worker>>

\* finish_segment_hash once both digests are there.
Compared(mine, other) ==
  LET offset == IF mine = other THEN flow.offset + 1 ELSE flow.offset
  IN IF mine # other \/ offset >= flow.end
     THEN StartRemote(offset) /\ UNCHANGED worker
     ELSE \E queued \in BOOLEAN :
            /\ \A a \in Agents : MayQueue(a, queued)
            /\ IF queued THEN NextSegment(offset) ELSE NextSegmentNotQueued

Other(a) == IF a = "source" THEN "dest" ELSE "source"

HandleDigest(r, digest) ==
  LET a == AgentOf(r)
      b == Other(a)
  IN /\ ResultOf(r, digest) /\ digest \in Marks
     /\ flow.phase = "verifying"
     /\ IF flow.digest[b] = "none"
        THEN /\ flow' = [flow EXCEPT !.digest[a] = digest]
             /\ UNCHANGED <<ticket, worker, row, trouble>>
        ELSE Compared(digest, flow.digest[b])
     /\ UNCHANGED <<shape, fileVars, pausable, pause, urgent, withdrawn,
                    token, reason, opened, sent, fin, netVars>>

HandleHashFailure(r, out) ==
  /\ ResultOf(r, out) /\ out \in {"error", "changed"}
  /\ flow.phase = "verifying"
  /\ IF out = "changed"
     THEN SettleVerifying(TRUE, FALSE)
     ELSE EndFailed /\ UNCHANGED <<pause, trouble>>
  /\ UNCHANGED <<shape, fileVars, pausable, withdrawn, workVars, netVars>>

HandleSettled(out) ==
  /\ ResultOf("settle", out)
  /\ flow.phase = "settling"
  /\ FinishSettlement(out = "ok")
  /\ UNCHANGED <<shape, fileVars, pausable, laneVars, workVars, netVars, trouble>>

-----------------------------------------------------------------------------
(* Router: streaming *)

\* start_copy_source: the destination's first grant starts the source.
HandleReady ==
  /\ Next1("dest") /\ Head(box["dest"]).kind = "ready" /\ Taken("dest")
  /\ \/ /\ flow.phase = "awaiting" /\ conn["source"] # "gone"
        /\ flow' = [flow EXCEPT !.phase = "streaming"]
        /\ ticket' = Queue("download")
        /\ UNCHANGED <<row, urgent, trouble>>
     \/ /\ flow.phase = "awaiting"
        /\ Ends("errored")
        /\ Cancels([r \in {"upload"} |-> "disconnected"])
        /\ Hindered
     \/ flow.phase # "awaiting" /\ UNCHANGED <<flow, ticket, row, urgent, trouble>>
  /\ UNCHANGED <<shape, fileVars, pausable, pause, withdrawn, workVars,
                 netVars>>

\* Mutant: the error of a source that was canceled fails the copy.
SourceFinishedUncanceled(out) ==
  IF flow.phase = "canceling" /\ out = "ok"
  THEN Acknowledge("source") /\ UNCHANGED <<ticket, urgent>>
  ELSE /\ UNCHANGED pause
       /\ IF out = "ok"
          THEN /\ flow' = [flow EXCEPT !.sourceFinished = TRUE]
               /\ UNCHANGED <<row, ticket, urgent>>
          ELSE /\ Ends("errored")
               /\ Cancels([r \in {"upload"} |->
                             IF out = "changed" THEN "canceled" ELSE "disconnected"])

\* finish_copy_source: success only notes that the source is done, a changed
\* source has the destination discard what it staged.
SourceFinished(out) ==
  IF flow.phase = "canceling"
  THEN Acknowledge("source") /\ UNCHANGED <<ticket, urgent>>
  ELSE /\ UNCHANGED pause
       /\ IF out = "ok"
          THEN /\ flow' = [flow EXCEPT !.sourceFinished = TRUE]
               /\ UNCHANGED <<row, ticket, urgent>>
          ELSE /\ Ends("errored")
               /\ Cancels([r \in {"upload"} |->
                             IF out = "changed" THEN "canceled" ELSE "disconnected"])

HandleSource(out) ==
  /\ ResultOf("download", out)
  /\ flow.phase \in {"streaming", "canceling"}
  /\ SourceFinished(out)
  /\ UNCHANGED <<shape, fileVars, pausable, withdrawn, workVars, netVars,
                 trouble>>

\* begin_source_deletion; the boundary was crossed when the destination was
\* published.
BeginDeletion ==
  \E queued \in BOOLEAN :
     /\ MayQueue("source", queued)
     /\ flow' = [flow EXCEPT !.phase = IF queued THEN "deleting" ELSE "settled"]
     /\ row' = IF queued THEN "committed" ELSE "errored"
     /\ ticket' = IF queued THEN Queue("delete") ELSE ticket
     /\ IF queued THEN UNCHANGED trouble ELSE Hindered
     /\ UNCHANGED <<pause, urgent>>

\* finish_remote_destination.  A pause is confirmed by nothing but Paused.
DestinationFinished(out) ==
  IF pause = "asked" /\ out # "paused"
  THEN EndFailed /\ pause' = "refused" /\ UNCHANGED trouble
  ELSE IF out = "ok" /\ shape.move /\ flow.phase # "canceling"
  THEN BeginDeletion
  ELSE /\ UNCHANGED trouble
       /\ IF flow.phase = "canceling" /\ (shape.move \/ out # "ok")
          THEN Acknowledge("dest") /\ UNCHANGED <<ticket, urgent>>
          ELSE /\ UNCHANGED pause
               /\ IF out = "ok"
                  THEN Ends("completed") /\ UNCHANGED <<ticket, urgent>>
                  ELSE EndFailed

HandleDestination(out) ==
  /\ ResultOf("upload", out)
  /\ flow.phase \in Remote
  /\ DestinationFinished(out)
  /\ UNCHANGED <<shape, fileVars, pausable, withdrawn, workVars, netVars>>

\* finish_source_deletion
HandleDeletion(out) ==
  /\ ResultOf("delete", out)
  /\ flow.phase = "deleting"
  /\ Ends(IF out = "ok" THEN "completed" ELSE "errored")
  /\ UNCHANGED <<shape, fileVars, pausable, pause, laneVars, workVars, netVars,
                 trouble>>

\* finish_local_copy
LocalFinished(out) ==
  IF pause = "asked"
  THEN /\ Ends(IF out = "paused" THEN "forgotten" ELSE "errored")
       /\ pause' = IF out = "paused" THEN "ok" ELSE "refused"
  ELSE /\ UNCHANGED pause
       /\ Ends(IF out = "ok" THEN "completed"
               ELSE IF row = "canceling" THEN "canceled" ELSE "errored")

HandleLocal(out) ==
  /\ ResultOf("local", out)
  /\ flow.phase = "local"
  /\ LocalFinished(out)
  /\ UNCHANGED <<shape, fileVars, pausable, laneVars, workVars, netVars, trouble>>

\* route_local_results: the router answers a withdrawn command itself.
RouteWithdrawn ==
  /\ withdrawn # {} /\ withdrawn' = {}
  /\ IF "local" \in withdrawn
     THEN LocalFinished("error") /\ UNCHANGED <<ticket, urgent, trouble>>
     ELSE IF "upload" \in withdrawn
     THEN DestinationFinished("error")
     ELSE SourceFinished("error") /\ UNCHANGED trouble
  /\ UNCHANGED <<shape, fileVars, pausable, box, workVars, netVars>>

-----------------------------------------------------------------------------
(* Router: publication and pausability *)

Publisher == IF shape.local THEN "local" ELSE "upload"

\* Mutant: a cancel that is under way does not stop the publication.
AuthorizesCanceling ==
  /\ flow.phase \in Remote \cup {"local"}
  /\ row \in {"active", "canceling"}

\* authorize_publication looks at the row, begin_upload_publication answers.
Authorizes ==
  /\ flow.phase \in Remote \cup {"local"}
  /\ row = "active"

HandlePublishRequest(a) ==
  /\ Next1(a) /\ Head(box[a]).kind = "publish" /\ Taken(a)
  /\ urgent' = IF conn[a] = "up"
               THEN [urgent EXCEPT ![a] = Append(@, Frame("decision", Publisher,
                                     IF Authorizes THEN "allowed" ELSE "denied"))]
               ELSE urgent
  /\ row' = IF Authorizes THEN "committed" ELSE row
  /\ UNCHANGED <<shape, fileVars, flow, pausable, pause, ticket, withdrawn,
                 workVars, netVars, trouble>>

\* update_local_verification: only now is it known that a local move stages.
HandleVerification ==
  /\ Next1("source") /\ Head(box["source"]).kind = "verifying" /\ Taken("source")
  /\ pausable' = IF flow.phase = "local" THEN row = "active" ELSE pausable
  /\ UNCHANGED <<shape, fileVars, flow, row, pause, laneVars, workVars, netVars,
                 trouble>>

-----------------------------------------------------------------------------
(* Router: results nobody waits for, and a lost agent *)

AnsweredIn(r) ==
  CASE r \in Hashes  -> {"verifying"}
    [] r = "settle"  -> {"settling"}
    [] r = "upload"  -> Remote
    [] r = "download" -> {"streaming", "canceling"}
    [] r = "delete"  -> {"deleting"}
    [] r = "local"   -> {"local"}

DropResult(a) ==
  /\ Next1(a) /\ Head(box[a]).kind = "result" /\ Taken(a)
  /\ flow.phase \notin AnsweredIn(Head(box[a]).req)
  /\ UNCHANGED <<shape, fileVars, flow, rowVars, laneVars, workVars, netVars, trouble>>

\* CopyFlow.involves
Involves(a) ==
  CASE flow.phase = "verifying" -> TRUE
    [] flow.phase = "settling"  -> a = "dest"
    [] flow.phase \in Remote    -> a = "dest" \/ ~flow.sourceFinished
    [] flow.phase \in {"local", "deleting"} -> a = "source"
    [] OTHER -> FALSE

\* settle_lost_flow: a pause cannot be confirmed any more, an accepted cancel
\* stays one, everything else failed.
SettleLost ==
  /\ Ends(IF pause # "asked" /\ row = "canceling" THEN "canceled" ELSE "errored")
  /\ pause' = IF pause = "asked" THEN "refused" ELSE pause

\* unregister_agent, or release_connection when a newer session replaces it.
HandleLost(a) ==
  /\ Next1(a) /\ Head(box[a]).kind = "lost" /\ Taken(a)
  /\ conn' = [conn EXCEPT ![a] = "gone"]
  /\ LET why == IF Involves(a) THEN Release("disconnected") ELSE Nobody
     IN /\ ticket' = [r \in Requests |->
                        IF AgentOf(r) = a /\ ticket[r] = "queued" THEN "withdrawn"
                        ELSE AfterCancel(why)[r]]
        /\ SendCancels(why)
  /\ IF Involves(a) THEN SettleLost ELSE UNCHANGED <<flow, row, pause>>
  /\ UNCHANGED <<shape, fileVars, pausable, withdrawn, workVars, linked,
                 losses, trouble>>

-----------------------------------------------------------------------------
(* Connections *)

WriteCommand(r) ==
  /\ ticket[r] = "queued" /\ conn[AgentOf(r)] = "up"
  /\ ticket' = [ticket EXCEPT ![r] = "written"]
  /\ UNCHANGED <<shape, fileVars, flow, rowVars, urgent, withdrawn, box,
                 workVars, netVars, trouble>>

\* The socket breaks: of what the agent sent, any prefix still arrives.
Disconnect(a) ==
  /\ conn[a] = "up" /\ losses < MaxLosses
  /\ flow.phase \notin {"none", "settled"}
  /\ shape.local => a = "source"
  /\ conn' = [conn EXCEPT ![a] = "broken"] /\ losses' = losses + 1
  /\ \E n \in 0 .. Len(box[a]) :
       box' = [box EXCEPT ![a] = Append(Prefix(@, n), Frame("lost", "none", "none"))]
  /\ Hindered
  /\ UNCHANGED <<shape, fileVars, flow, rowVars, laneVars, workVars, linked>>

\* The agent sees its own end fail, maybe long before or after the router has:
\* invalidate_connection fires every token; an explicit reason stays.
AgentNotices(a) ==
  /\ conn[a] # "up" /\ linked[a]
  /\ linked' = [linked EXCEPT ![a] = FALSE]
  /\ token' = [r \in Requests |-> token[r] \/ (AgentOf(r) = a /\ Live(r))]
  /\ urgent' = [urgent EXCEPT ![a] = <<>>]
  /\ ticket' = [r \in Requests |->
                  IF AgentOf(r) = a /\ ticket[r] = "written" /\ worker[r] = "absent"
                  THEN "withdrawn" ELSE ticket[r]]
  /\ UNCHANGED <<shape, fileVars, flow, rowVars, withdrawn, box, worker, reason,
                 opened, sent, fin, conn, losses, trouble>>

\* A new session, once every task of the old one was joined; it matters as long as
\* the copy is not settled (model bound).
Reconnect(a) ==
  /\ conn[a] = "gone" /\ ~linked[a] /\ flow.phase # "settled"
  /\ \A r \in Requests : AgentOf(r) = a => ~Live(r)
  /\ conn' = [conn EXCEPT ![a] = "up"] /\ linked' = [linked EXCEPT ![a] = TRUE]
  /\ UNCHANGED <<shape, fileVars, flow, rowVars, laneVars, box, workVars, losses,
                 trouble>>

-----------------------------------------------------------------------------
(* Agents: commands and cancels *)

Sends(a, frame) ==
  box' = IF conn[a] = "up" /\ linked[a] THEN [box EXCEPT ![a] = Append(@, frame)] ELSE box

\* The one result of a request.
Answers(r, out) ==
  /\ worker' = [worker EXCEPT ![r] = "ended"]
  /\ Sends(AgentOf(r), Frame("result", r, out))

FirstStep(r) ==
  CASE r = "upload"   -> "preparing"
    [] r = "download" -> "opening"
    [] r = "local"    -> "checking"
    [] OTHER          -> "running"

\* A hash has no step between its command and its result that anyone could see.
Spawn(r) ==
  /\ r \notin Hashes
  /\ worker[r] = "absent" /\ ticket[r] = "written" /\ linked[AgentOf(r)]
  /\ worker' = [worker EXCEPT ![r] = FirstStep(r)]
  /\ UNCHANGED <<shape, fileVars, flow, rowVars, laneVars, box, token, reason, opened,
                 sent, fin, netVars, trouble>>

\* The head of the priority lane; it was sent after its command, and is read
\* after it.
Received(kind, r, out) ==
  /\ linked[AgentOf(r)] /\ worker[r] # "absent"
  /\ urgent[AgentOf(r)] # <<>> /\ Head(urgent[AgentOf(r)]) = Frame(kind, r, out)
  /\ urgent' = [urgent EXCEPT ![AgentOf(r)] = Tail(@)]

\* Mutant: the token fires before the reason is stored.
ReceiveCancelUnexplained(r, why) ==
  /\ Received("cancel", r, why)
  /\ token' = [token EXCEPT ![r] = token[r] \/ Live(r)]
  /\ UNCHANGED <<shape, fileVars, flow, rowVars, ticket, withdrawn, box, worker,
                 reason, opened, sent, fin, netVars, trouble>>

\* cancel_with_reason: the latest reason stays in the cell.
ReceiveCancel(r, why) ==
  /\ Received("cancel", r, why)
  /\ IF Live(r)
     THEN /\ reason' = [reason EXCEPT ![r] = why]
          /\ token' = [token EXCEPT ![r] = TRUE]
     ELSE UNCHANGED <<reason, token>>
  /\ UNCHANGED <<shape, fileVars, flow, rowVars, ticket, withdrawn, box, worker,
                 opened, sent, fin, netVars, trouble>>

\* A removal has looked at the source and is on its way to delete the path.
Removing == "deleting" \in {worker["delete"], worker["local"]}

\* Another program renames its own file over the source; readers that have the
\* captured one open keep it.  A file rewritten in place is not modelled.
ReplaceSource ==
  /\ source = "captured" /\ flow.phase # "settled"
  /\ source' = IF Removing THEN "late" ELSE "other"
  /\ Hindered
  /\ UNCHANGED <<shape, target, partial, durable, flow, rowVars, laneVars, box,
                 workVars, netVars>>

-----------------------------------------------------------------------------
(* Agents: hashing, settling and deleting *)

NoFileChanges == UNCHANGED <<source, target, partial, durable>>

\* partials.rs hash: the source vouches for itself only while it is the captured
\* version.
HashSegment(r) ==
  /\ r \in Hashes /\ worker[r] = "absent" /\ ticket[r] = "written" /\ linked[AgentOf(r)]
  /\ LET i == flow.offset + 1
     IN \/ /\ r = "hashSource"
           /\ Answers(r, IF source = "captured" THEN "captured" ELSE "changed")
           /\ UNCHANGED trouble
        \/ /\ r = "hashDest" /\ partial # Absent /\ i <= Len(partial)
           /\ Answers(r, partial[i])
           /\ UNCHANGED trouble
        \/ Answers(r, "error") /\ Hindered
  /\ NoFileChanges
  /\ UNCHANGED <<shape, flow, rowVars, laneVars, token, reason, opened, sent, fin,
                 netVars>>

\* PersistPartial, DeletePartial
SettlePartial ==
  /\ worker["settle"] = "running"
  /\ \/ /\ Answers("settle", "ok")
        /\ IF flow.settle = "persist"
           THEN durable' = TRUE /\ UNCHANGED partial
           ELSE durable' = FALSE /\ partial' = Absent
        /\ UNCHANGED trouble
     \/ Answers("settle", "error") /\ Hindered /\ UNCHANGED <<partial, durable>>
  /\ UNCHANGED <<shape, source, target, flow, rowVars, laneVars, token, reason, opened,
                 sent, fin, netVars>>

\* Mutant: the source is deleted without looking at it again.
VerifyNothing ==
  /\ worker["delete"] = "running"
  /\ worker' = [worker EXCEPT !["delete"] = "deleting"]
  /\ UNCHANGED <<shape, fileVars, flow, rowVars, laneVars, box, token, reason, opened,
                 sent, fin, netVars, trouble>>

\* DeleteMoveSource reads the metadata at the path and compares the identity ...
VerifySource ==
  /\ worker["delete"] = "running"
  /\ \/ /\ source = "captured"
        /\ worker' = [worker EXCEPT !["delete"] = "deleting"]
        /\ UNCHANGED <<box, trouble>>
     \/ Answers("delete", "error") /\ Hindered
  /\ NoFileChanges
  /\ UNCHANGED <<shape, flow, rowVars, laneVars, token, reason, opened, sent, fin,
                 netVars>>

\* ... and then removes the path, or renames a directory out of sight, whatever is
\* there by now.
DeleteSource ==
  /\ worker["delete"] = "deleting"
  /\ \/ source' = "gone" /\ Answers("delete", "ok") /\ UNCHANGED trouble
     \/ UNCHANGED source /\ Answers("delete", "error") /\ Hindered
  /\ UNCHANGED <<shape, target, partial, durable, flow, rowVars, laneVars, token,
                 reason, opened, sent, fin, netVars>>

-----------------------------------------------------------------------------
(* Agents: what a stopped worker leaves behind *)

\* UploadSink::stop and PartialOutput::stop: only a partial survives, and only
\* when the reason is not a cancel.
Leaves(why) ==
  IF shape.file /\ why # "canceled"
  THEN durable' = TRUE /\ UNCHANGED partial
  ELSE durable' = FALSE /\ partial' = Absent

OutcomeOf(why) == IF shape.file /\ why = "paused" THEN "paused" ELSE "error"

\* The worker ends for a reason; syncing or discarding may itself fail.
Stops(r, why) ==
  \/ Leaves(why) /\ Answers(r, OutcomeOf(why)) /\ UNCHANGED trouble
  \/ Answers(r, "error") /\ Hindered /\ UNCHANGED <<partial, durable>>

Fails(r) ==
  /\ Leaves(IF token[r] THEN reason[r] ELSE "disconnected")
  /\ Answers(r, "error") /\ Hindered

-----------------------------------------------------------------------------
(* The source's download *)

\* A raw download checks the captured identity when it opens the file.
OpenSource ==
  /\ worker["download"] = "opening"
  /\ \/ /\ source # "gone" /\ (shape.file => source = "captured")
        /\ opened' = source /\ sent' = flow.offset
        /\ worker' = [worker EXCEPT !["download"] = "sending"]
        /\ UNCHANGED <<box, trouble>>
     \/ /\ shape.file /\ source # "captured"
        /\ Answers("download", "changed")
        /\ UNCHANGED <<opened, sent, trouble>>
     \/ Answers("download", "error") /\ Hindered /\ UNCHANGED <<opened, sent>>
  /\ NoFileChanges
  /\ UNCHANGED <<shape, flow, rowVars, laneVars, token, reason, fin, netVars>>

\* What is read next: a file through one handle, the entries of a directory by
\* their paths, each when its turn comes.
Readable == IF shape.file THEN {opened} ELSE {opened, source} \cap Versions

SendSegment ==
  /\ worker["download"] = "sending" /\ sent < Segments
  /\ sent' = sent + 1
  /\ UNCHANGED <<shape, fileVars, flow, rowVars, laneVars, box, worker, token, reason,
                 opened, fin, netVars, trouble>>

FinishSource ==
  /\ worker["download"] = "sending" /\ sent = Segments
  /\ fin' = TRUE
  /\ Answers("download", "ok")
  /\ UNCHANGED <<shape, fileVars, flow, rowVars, laneVars, token, reason, opened, sent,
                 netVars, trouble>>

\* A source that fails, or whose token fired, sends no FIN.
SourceEnds ==
  /\ worker["download"] = "sending"
  /\ Answers("download", "error")
  /\ UNCHANGED <<shape, fileVars, flow, rowVars, laneVars, token, reason, opened, sent,
                 fin, netVars>>

StopSource == token["download"] /\ SourceEnds /\ UNCHANGED trouble
FailSource == SourceEnds /\ Hindered

-----------------------------------------------------------------------------
(* The destination's upload *)

UploadKeeps == UNCHANGED <<shape, source, flow, rowVars, token, reason, opened, sent,
                           fin, netVars>>

\* Mutant: the unverified tail stays in the partial.
PrepareWithTail ==
  partial' = IF shape.file /\ shape.resume THEN partial ELSE <<>>

\* PartialOutput::prepare cuts the partial at the verified offset.
Prepare ==
  partial' = IF shape.file /\ shape.resume THEN Prefix(partial, flow.offset) ELSE <<>>

PrepareUpload ==
  /\ worker["upload"] = "preparing"
  /\ \/ /\ Prepare /\ durable' = FALSE
        /\ worker' = [worker EXCEPT !["upload"] = "staging"]
        /\ Sends("dest", Frame("ready", "upload", "none"))
        /\ UNCHANGED trouble
     \/ Answers("upload", "error") /\ Hindered /\ UNCHANGED <<partial, durable>>
  /\ UNCHANGED <<target, laneVars>> /\ UploadKeeps

StageSegment ==
  /\ worker["upload"] = "staging" /\ Len(partial) < sent
  /\ \E version \in Readable : partial' = Append(partial, version)
  /\ durable' = FALSE
  /\ UNCHANGED <<target, laneVars, box, worker, trouble>> /\ UploadKeeps

\* next_event, or a cancel seen before the gate is asked.
StopUpload ==
  /\ worker["upload"] \in {"staging", "asking"} /\ token["upload"]
  /\ Stops("upload", reason["upload"])
  /\ UNCHANGED <<target, laneVars>> /\ UploadKeeps

FailUpload ==
  /\ worker["upload"] \in {"staging", "publishing"}
  /\ Fails("upload")
  /\ UNCHANGED <<target, laneVars>> /\ UploadKeeps

\* Everything is staged: RawFileSink::commit asks the router.
AskUpload ==
  /\ worker["upload"] = "staging" /\ fin /\ Len(partial) = Segments
  /\ ~token["upload"]
  /\ worker' = [worker EXCEPT !["upload"] = "asking"]
  /\ Sends("dest", Frame("publish", "upload", "none"))
  /\ UNCHANGED <<target, partial, durable, laneVars, trouble>> /\ UploadKeeps

\* The decision; a grant is given up when the token fired meanwhile.
UploadDecision(answer) ==
  /\ Received("decision", "upload", answer)
  /\ IF worker["upload"] # "asking"
     THEN UNCHANGED <<partial, durable, box, worker, trouble>>
     ELSE IF answer = "allowed" /\ ~token["upload"]
     THEN /\ worker' = [worker EXCEPT !["upload"] = "publishing"]
          /\ UNCHANGED <<partial, durable, box, trouble>>
     ELSE Stops("upload", reason["upload"])
  /\ UNCHANGED <<target, ticket, withdrawn>> /\ UploadKeeps

\* PUBLICATION_DECISION_TIMEOUT
UploadTimesOut ==
  /\ worker["upload"] = "asking"
  /\ Leaves(reason["upload"]) /\ Answers("upload", OutcomeOf(reason["upload"]))
  /\ Hindered
  /\ UNCHANGED <<target, laneVars>> /\ UploadKeeps

\* The rename; nothing interrupts it any more.
PublishUpload ==
  /\ worker["upload"] = "publishing"
  /\ target' = partial /\ partial' = Absent /\ durable' = FALSE
  /\ Answers("upload", "ok")
  /\ UNCHANGED <<laneVars, trouble>> /\ UploadKeeps

-----------------------------------------------------------------------------
(* The local worker: copy_command and move_entry *)

LocalKeeps == UNCHANGED <<shape, flow, rowVars, token, reason, sent, fin, netVars>>

LocalAt(step) == worker["local"] = step
LocalGoes(step) == worker' = [worker EXCEPT !["local"] = step]

\* move_entry compares the identity and may rename; a file asks the router first.
CheckLocal ==
  /\ LocalAt("checking")
  /\ \/ ~shape.move /\ LocalGoes("preparing") /\ UNCHANGED <<box, trouble>>
     \/ /\ shape.move /\ source = "captured"
        /\ LocalGoes("preparing") /\ UNCHANGED <<box, trouble>>
     \/ /\ shape.move /\ source = "captured" /\ ~shape.file
        /\ LocalGoes("renaming") /\ UNCHANGED <<box, trouble>>
     \/ /\ shape.move /\ source = "captured" /\ shape.file /\ ~token["local"]
        /\ LocalGoes("askingRename")
        /\ Sends("source", Frame("publish", "local", "none"))
        /\ UNCHANGED trouble
     \/ token["local"] /\ Answers("local", "error") /\ UNCHANGED trouble
     \/ Answers("local", "error") /\ Hindered
  /\ UNCHANGED <<fileVars, laneVars, opened>> /\ LocalKeeps

\* rename_same_filesystem; CopyRequired when the preflight was wrong.
RenameLocal ==
  /\ LocalAt("renaming")
  /\ \/ /\ target' = Whole(source) /\ source' = "gone"
        /\ partial' = Absent /\ durable' = FALSE
        /\ Answers("local", "ok") /\ UNCHANGED trouble
     \/ /\ LocalGoes("preparing") /\ UNCHANGED <<fileVars, box>>
        /\ trouble' = IF trouble = "none" THEN "fallback" ELSE trouble
     \/ Answers("local", "error") /\ Hindered /\ UNCHANGED fileVars
  /\ UNCHANGED <<laneVars, opened>> /\ LocalKeeps

\* copy_resumable opens the source and reuses the partial; a source that is not
\* the captured one costs the partial.
PrepareLocal ==
  /\ LocalAt("preparing")
  /\ \/ /\ shape.file /\ source # "captured"
        /\ partial' = Absent /\ durable' = FALSE
        /\ Answers("local", "error") /\ UNCHANGED <<opened, trouble>>
     \/ /\ shape.file /\ source = "captured"
        /\ partial' = IF shape.resume THEN partial ELSE <<>>
        /\ durable' = FALSE /\ opened' = "captured"
        /\ LocalGoes("verifying")
        /\ Sends("source", Frame("verifying", "local", "none"))
        /\ UNCHANGED trouble
     \/ /\ ~shape.file
        /\ partial' = <<>> /\ durable' = FALSE /\ opened' = source
        /\ LocalGoes("staging") /\ UNCHANGED <<box, trouble>>
     \/ Answers("local", "error") /\ Hindered /\ UNCHANGED <<partial, durable, opened>>
  /\ UNCHANGED <<source, target, laneVars>> /\ LocalKeeps

\* The longest prefix that the opened source vouches for.
Vouched(n) ==
  /\ \A i \in 1 .. n : partial[i] = opened
  /\ n < Len(partial) => partial[n + 1] # opened

\* The identity is compared again here, but on the opened file.
VerifyLocal ==
  /\ LocalAt("verifying")
  /\ \E n \in 0 .. Len(partial) : Vouched(n) /\ partial' = Prefix(partial, n)
  /\ LocalGoes("staging")
  /\ UNCHANGED <<source, target, durable, box, laneVars, opened, trouble>> /\ LocalKeeps

StageLocal ==
  /\ LocalAt("staging") /\ Len(partial) < Segments
  /\ \E version \in Readable : partial' = Append(partial, version)
  /\ durable' = FALSE
  /\ UNCHANGED <<source, target, worker, box, laneVars, opened, trouble>> /\ LocalKeeps

\* A partial is published behind the gate, a directory only ensures that it is
\* still active.
StagedLocal ==
  /\ LocalAt("staging") /\ Len(partial) = Segments /\ ~token["local"]
  /\ IF shape.file
     THEN LocalGoes("asking") /\ Sends("source", Frame("publish", "local", "none"))
     ELSE LocalGoes("publishing") /\ UNCHANGED box
  /\ UNCHANGED <<fileVars, laneVars, opened, trouble>> /\ LocalKeeps

StopLocal ==
  /\ token["local"]
  /\ \/ worker["local"] \in {"verifying", "staging", "asking"}
        /\ Stops("local", reason["local"])
     \/ LocalAt("askingRename") /\ Answers("local", "error")
        /\ UNCHANGED <<partial, durable, trouble>>
  /\ UNCHANGED <<source, target, laneVars, opened>> /\ LocalKeeps

FailLocal ==
  /\ worker["local"] \in {"verifying", "staging", "publishing"}
  /\ Fails("local")
  /\ UNCHANGED <<source, target, laneVars, opened>> /\ LocalKeeps

LocalDecision(answer) ==
  /\ Received("decision", "local", answer)
  /\ IF ~(LocalAt("asking") \/ LocalAt("askingRename"))
     THEN UNCHANGED <<partial, durable, box, worker, trouble>>
     ELSE IF answer = "allowed" /\ ~token["local"]
     THEN /\ LocalGoes(IF LocalAt("asking") THEN "publishing" ELSE "renaming")
          /\ UNCHANGED <<partial, durable, box, trouble>>
     ELSE IF LocalAt("asking")
     THEN Stops("local", reason["local"])
     ELSE Answers("local", "error") /\ UNCHANGED <<partial, durable, trouble>>
  /\ UNCHANGED <<source, target, ticket, withdrawn, opened>> /\ LocalKeeps

LocalTimesOut ==
  /\ LocalAt("asking") \/ LocalAt("askingRename")
  /\ IF LocalAt("asking")
     THEN Leaves(reason["local"]) /\ Answers("local", OutcomeOf(reason["local"]))
     ELSE Answers("local", "error") /\ UNCHANGED <<partial, durable>>
  /\ Hindered
  /\ UNCHANGED <<source, target, laneVars, opened>> /\ LocalKeeps

PublishLocal ==
  /\ LocalAt("publishing")
  /\ target' = partial /\ partial' = Absent /\ durable' = FALSE
  /\ IF shape.move
     THEN LocalGoes("removing") /\ UNCHANGED box
     ELSE Answers("local", "ok")
  /\ UNCHANGED <<source, laneVars, opened, trouble>> /\ LocalKeeps

\* A cancel after the publication still keeps the source, as does a source that
\* is not the captured one any more.
VerifyRemoval ==
  /\ LocalAt("removing")
  /\ \/ token["local"] /\ Answers("local", "error") /\ UNCHANGED trouble
     \/ /\ ~token["local"] /\ source = "captured"
        /\ LocalGoes("deleting") /\ UNCHANGED <<box, trouble>>
     \/ Answers("local", "error") /\ Hindered
  /\ UNCHANGED <<fileVars, laneVars, opened>> /\ LocalKeeps

\* remove_file or safe_rm_all of the path; no cancel stops it.
RemoveLocal ==
  /\ LocalAt("deleting")
  /\ \/ source' = "gone" /\ Answers("local", "ok") /\ UNCHANGED trouble
     \/ UNCHANGED source /\ Answers("local", "error") /\ Hindered
  /\ UNCHANGED <<target, partial, durable, laneVars, opened>> /\ LocalKeeps

-----------------------------------------------------------------------------

\* Taking a message, writing what is queued, reading what arrived, running a task
\* to its next step, a timer and the notice of a lost connection.
RouterWorks ==
  \/ \E r \in Hashes, d \in Marks : HandleDigest(r, d)
  \/ \E r \in Hashes, out \in {"error", "changed"} : HandleHashFailure(r, out)
  \/ HandleReady \/ HandleVerification \/ RouteWithdrawn
  \/ \E out \in {"ok", "error", "paused", "changed"} :
       HandleSettled(out) \/ HandleSource(out) \/ HandleDestination(out)
       \/ HandleDeletion(out) \/ HandleLocal(out)
  \/ \E a \in Agents : HandlePublishRequest(a) \/ DropResult(a) \/ HandleLost(a)

AgentsWork ==
  \/ \E r \in Requests :
       WriteCommand(r) \/ Spawn(r) \/ (\E why \in Reasons : ReceiveCancel(r, why))
  \/ \E a \in Agents : AgentNotices(a)
  \/ \E r \in Hashes : HashSegment(r)
  \/ SettlePartial \/ VerifySource \/ DeleteSource
  \/ OpenSource \/ SendSegment \/ FinishSource \/ StopSource
  \/ PrepareUpload \/ StageSegment \/ StopUpload \/ AskUpload
  \/ UploadTimesOut \/ PublishUpload
  \/ CheckLocal \/ RenameLocal \/ PrepareLocal \/ VerifyLocal \/ StageLocal
  \/ StagedLocal \/ StopLocal \/ LocalTimesOut \/ PublishLocal
  \/ VerifyRemoval \/ RemoveLocal
  \/ \E answer \in {"allowed", "denied"} : UploadDecision(answer) \/ LocalDecision(answer)

\* What nobody has to do: ask, cancel, pause, fail, lose a connection, return.
Surroundings ==
  \/ Start \/ StartRefused \/ UserCancel \/ UserPause
  \/ \E a \in Agents : Disconnect(a) \/ Reconnect(a)
  \/ ReplaceSource \/ FailSource \/ FailUpload \/ FailLocal

CopyNext == RouterWorks \/ AgentsWork \/ Surroundings

CopySpec == CopyInit /\ [][CopyNext]_vars

\* No work is put off for ever.  A copy makes finitely many steps, so it is enough
\* that some part of it works as long as any part can.
FairCopySpec == CopySpec /\ WF_vars(RouterWorks \/ AgentsWork)

-----------------------------------------------------------------------------
(* Properties *)

\* Every variable holds a value of its kind, as the router, the agents and the
\* lanes of copy.rs build them.
CopyTypeOK ==
  /\ shape \in [move : BOOLEAN, local : BOOLEAN, file : BOOLEAN, resume : BOOLEAN]
  /\ source \in Versions \cup {"gone"}
  /\ target \in Seq(Marks)
  /\ partial = Absent \/ partial \in Seq(Marks)
  /\ durable \in BOOLEAN
  /\ flow \in [phase : Phases, sourceFinished : BOOLEAN, acked : SUBSET Agents,
               digest : [Agents -> Marks \cup {"none"}], offset : Nat, end : Nat,
               failure : BOOLEAN, settle : {"none", "persist", "delete"}]
  /\ pause \in {"none", "asked", "ok", "refused"}
  /\ row \in Rows
  /\ pausable \in BOOLEAN
  /\ ticket \in [Requests -> {"none", "queued", "written", "withdrawn"}]
  /\ withdrawn \subseteq Requests
  /\ urgent \in [Agents -> Seq(Urgents)]
  /\ box \in [Agents -> Seq(Frames)]
  /\ worker \in [Requests -> Steps]
  /\ token \in [Requests -> BOOLEAN]
  /\ reason \in [Requests -> Reasons]
  /\ opened \in Versions
  /\ sent \in 0 .. Segments
  /\ fin \in BOOLEAN
  /\ conn \in [Agents -> {"up", "broken", "gone"}]
  /\ linked \in [Agents -> BOOLEAN]
  /\ losses \in 0 .. MaxLosses
  /\ trouble \in {"none", "fallback", "real"}

\* What the caller and the row are promised: see CopyPromise.  Here for every
\* order of the two workers, the user and the two connections.
Promise == INSTANCE CopyPromise WITH
  move        <- shape.move,
  gated       <- shape.file \/ ~shape.local,
  kept        <- source # "gone",
  published   <- target # <<>>,
  report      <- IF row = "forgotten" THEN "paused" ELSE row

KeepsPromise == Promise!PromiseSpec

\* What the destination is replaced by has nothing torn, and all of it, whatever an
\* earlier attempt left, the prefix verification found and whoever replaced the
\* source meanwhile.  A file is moreover all of one version; the entries of a
\* directory need not be, for each is opened by its path (copy_directory_streaming).
PublishedIsWhole ==
  target # <<>> =>
    IF shape.file THEN \E version \in Versions : target = Whole(version)
    ELSE target \in [1 .. Segments -> Versions]

\* A move removes only what the destination holds: the version that is deleted
\* was published, entirely, however its publication, its cancel and the loss of an
\* agent were ordered.  Only a version that was put there between the look at the
\* source and its removal is deleted unseen: verify_move_source_identity and
\* delete_move_source compare the object at a path and then remove the path.
NothingLost ==
  [][source # "gone" /\ source' = "gone" =>
       target' = Whole(source) \/ source = "late"]_vars

\* What an ended copy leaves behind.  A confirmed pause: the partial is on disk,
\* the destination is as before, and nobody writes to either any more (the settling
\* of a changed source is the exception, see PausedIsDurable).  A user's cancel of a
\* copy between agents: once its destination worker stopped, nothing it staged is
\* left.  Each holds whichever of the token's reasons arrived in which order.
PartialFollowsRow ==
  /\ pause = "ok" /\ ~flow.failure =>
       /\ durable /\ partial # Absent /\ target = <<>>
       /\ \A r \in {"upload", "local", "settle"} : ~Live(r)
  /\ row = "canceled" /\ trouble = "none" /\ worker["upload"] = "ended" =>
       partial = Absent

\* The row of a canceled or paused copy ends only when no worker of it is left,
\* as long as both connections hold.
SettledMeansStopped ==
  row \in {"canceled", "forgotten"} /\ losses = 0 =>
    \A r \in {"upload", "download", "local", "settle"} : ~Live(r)

\* A copy that meets no trouble is not reported as failed: no order of its own
\* messages does that.
ErroredForACause == row = "errored" => trouble # "none" \/ pause = "refused"

\* Every copy gets its last row, with two workers that finish in any order and
\* connections that are lost at any point, and then none of its workers runs on.
CopySettles ==
  flow.phase # "none" ~> flow.phase = "settled" /\ \A r \in Requests : ~Live(r)

\* ARCHITECTURE.md: the pause returns only after the partial is durable.
PausedIsDurable == pause = "ok" => durable

=============================================================================
