-------------------------- MODULE DownloadHistory --------------------------
(***************************************************************************)
(* The history rows of several downloads of one file from one agent, as    *)
(* the router keeps them.  A download that its client interrupted leaves   *)
(* an errored row; when the client asks again within the resume window,    *)
(* the new stream continues that row while the old one may still wait for  *)
(* the acknowledgement of its cancel.  So a row can have several flows.    *)
(*                                                                         *)
(* One step is one message handled by the router: handlers do not          *)
(* interleave, but the messages of clients, agent and supervisor reach the *)
(* mailbox in any order.  How a single stream gets to its result is        *)
(* OutputFlow; a result here may be of any outcome.                        *)
(***************************************************************************)
EXTENDS Integers, FiniteSets

CONSTANTS
  Requests,  \* request ids, drawn in order; a new row has the id of its request
  Size,      \* blocks of the file
  Frame      \* blocks of the largest frame, the overlap a range may have

ASSUME HistoryAssumption ==
  /\ Requests \subseteq Nat
  /\ Size \in Nat \ {0}
  /\ Frame \in Nat

VARIABLES
  state,    \* TransferProgressState of each row; "interrupted" is errored with
            \* "Download canceled by client", "none" not there or pruned
  bytes,    \* transferred_bytes of each row
  total,    \* total_bytes of each row
  fresh,    \* an interrupted row is within DOWNLOAD_RESUME_WINDOW_SECONDS
  phase,    \* OutputPhase of each flow, "none" before and "settled" after
  rowOf,    \* OutputKind::Download.progress_id of each flow
  drained,  \* StreamLease.bytes of each flow
  conn      \* "up", "closed" (its lanes refuse) or "lost" (unregistered)

vars == <<state, bytes, total, fresh, phase, rowOf, drained, conn>>

HistoryInit ==
  /\ state = [r \in Requests |-> "none"]
  /\ bytes = [r \in Requests |-> 0]
  /\ total = [r \in Requests |-> 0]
  /\ fresh = [r \in Requests |-> FALSE]
  /\ phase = [f \in Requests |-> "none"]
  /\ rowOf = [f \in Requests |-> f]
  /\ drained = [f \in Requests |-> 0]
  /\ conn = "up"

-----------------------------------------------------------------------------
(* Rows and their flows *)

FlowsOf(r) == {f \in Requests : phase[f] \in {"streaming", "canceling"} /\ rowOf[f] = r}

Drivers(r) == {f \in FlowsOf(r) : phase[f] = "streaming"}

\* Mutant: the canceled stream is taken for the owner as well.
FindAnyFlow(r) == FlowsOf(r)

\* find_by_progress: the live stream before one that waits for its acknowledgement.
FindByProgress(r) == IF Drivers(r) # {} THEN Drivers(r) ELSE FlowsOf(r)

\* Mutant: a canceled stream still counts.
LiveProgressOfAll(r) == {drained[f] : f \in FlowsOf(r)}

\* live_progress of the flows of a row.
LiveProgress(r) == {drained[f] : f \in Drivers(r)}

\* sync_progress: the rows that are active take the count of their flow.
SyncProgress(counts) ==
  /\ DOMAIN counts = Requests
  /\ \A r \in Requests :
       IF state[r] = "active" /\ LiveProgress(r) # {}
       THEN counts[r] \in LiveProgress(r)
       ELSE counts[r] = bytes[r]

\* The byte counts a row may have.
Counts == [Requests -> 0 .. Size]

\* mark_transfer_errored and its siblings do nothing to a row that was pruned.
Mark(r, new) == state' = [state EXCEPT ![r] = IF @ = "none" THEN "none" ELSE new]

-----------------------------------------------------------------------------
(* Starting *)

\* The interrupted rows a request may continue; a request for the whole file
\* continues any, a range only one it overlaps by at most a frame.
Candidates(ranged, offset) ==
  {r \in Requests :
     /\ state[r] = "interrupted" /\ fresh[r] /\ total[r] = Size
     /\ ranged => bytes[r] >= offset /\ bytes[r] - offset <= Frame}

StartNewRow(f, offset) ==
  /\ rowOf' = [rowOf EXCEPT ![f] = f]
  /\ state' = [state EXCEPT ![f] = "active"]
  /\ bytes' = [bytes EXCEPT ![f] = 0]
  /\ total' = [total EXCEPT ![f] = Size - offset]
  /\ drained' = [drained EXCEPT ![f] = 0]
  /\ UNCHANGED fresh

ResumeRow(f, r, offset) ==
  /\ rowOf' = [rowOf EXCEPT ![f] = r]
  /\ state' = [state EXCEPT ![r] = "active"]
  /\ bytes' = [bytes EXCEPT ![r] = offset]
  /\ fresh' = [fresh EXCEPT ![r] = FALSE]
  /\ drained' = [drained EXCEPT ![f] = offset]
  /\ UNCHANGED total

\* start_output and record_download_start.
Start(f) ==
  /\ phase[f] = "none" /\ conn = "up"
  /\ \A g \in Requests : g < f => phase[g] # "none"
  /\ phase' = [phase EXCEPT ![f] = "streaming"]
  /\ \E ranged \in BOOLEAN, offset \in 0 .. Size - 1 :
       /\ ~ranged => offset = 0
       /\ IF Candidates(ranged, offset) = {}
          THEN StartNewRow(f, offset)
          ELSE \E r \in Candidates(ranged, offset) :
                 /\ \A q \in Candidates(ranged, offset) : q <= r
                 /\ ResumeRow(f, r, offset)
  /\ UNCHANGED conn

-----------------------------------------------------------------------------
(* Progress *)

\* The consumer takes a frame and counts it.
Drain(f) ==
  /\ phase[f] = "streaming" /\ drained[f] < total[rowOf[f]]
  /\ drained' = [drained EXCEPT ![f] = @ + 1]
  /\ UNCHANGED <<state, bytes, total, fresh, phase, rowOf, conn>>

\* The 250 ms tick, and every listing.
Tick ==
  /\ bytes' \in Counts /\ SyncProgress(bytes')
  /\ UNCHANGED <<state, total, fresh, phase, rowOf, drained, conn>>

\* An interrupted row leaves the resume window.
WindowPasses(r) ==
  /\ fresh[r]
  /\ fresh' = [fresh EXCEPT ![r] = FALSE]
  /\ UNCHANGED <<state, bytes, total, phase, rowOf, drained, conn>>

\* prune_terminal_history, by age or count; it spares live and resumable rows.
Prune(r) ==
  /\ state[r] \notin {"none", "active", "canceling"} /\ ~fresh[r]
  /\ state' = [state EXCEPT ![r] = "none"]
  /\ bytes' = [bytes EXCEPT ![r] = 0]
  /\ UNCHANGED <<total, fresh, phase, rowOf, drained, conn>>

-----------------------------------------------------------------------------
(* Ending *)

\* cancel_transfer of a stream whose client left.  A cancel that cannot be
\* admitted changes nothing, the loss of the connection is to follow.
ClientGone(f) ==
  /\ phase[f] = "streaming"
  /\ bytes' \in Counts /\ SyncProgress(bytes')
  /\ IF conn = "up"
     THEN /\ phase' = [phase EXCEPT ![f] = "canceling"]
          /\ Mark(rowOf[f], "interrupted")
          /\ fresh' = [fresh EXCEPT ![rowOf[f]] = state[rowOf[f]] # "none"]
     ELSE UNCHANGED <<phase, state, fresh>>
  /\ UNCHANGED <<total, rowOf, drained, conn>>

\* cancel_public_transfer of a row.  Without a flow it ends at once; a flow that
\* is already canceling is left alone.
UserCancel(r) ==
  /\ state[r] = "active"
  /\ bytes' \in Counts /\ SyncProgress(bytes')
  /\ \/ FlowsOf(r) = {} /\ Mark(r, "canceled") /\ UNCHANGED phase
     \/ \E f \in FindByProgress(r) :
          /\ conn = "up" \/ phase[f] = "canceling"
          /\ phase' = [phase EXCEPT ![f] = "canceling"]
          /\ Mark(r, "canceling")
  /\ UNCHANGED <<total, fresh, rowOf, drained, conn>>

\* fail_overflowing_output; a refused cancel is ignored.
Violate(f) ==
  /\ phase[f] = "streaming"
  /\ Mark(rowOf[f], "errored")
  /\ phase' = [phase EXCEPT ![f] = IF conn = "up" THEN "canceling" ELSE @]
  /\ UNCHANGED <<bytes, total, fresh, rowOf, drained, conn>>

\* The flow leaves the table.
Settle(f) ==
  /\ phase' = [phase EXCEPT ![f] = "settled"]
  /\ rowOf' = [rowOf EXCEPT ![f] = f]
  /\ drained' = [drained EXCEPT ![f] = 0]

\* Mutant: the acknowledgement does not look at the row.
AcknowledgeAny(f) == Mark(rowOf[f], "canceled")

\* Mutant: the row of the request is acknowledged, not the one it continues.
AcknowledgeOwnRow(f) ==
  IF state[f] = "canceling" THEN Mark(f, "canceled") ELSE UNCHANGED state

\* acknowledge_download_cancel
Acknowledge(f) ==
  IF state[rowOf[f]] = "canceling" THEN Mark(rowOf[f], "canceled") ELSE UNCHANGED state

\* finish_output_response of a canceling stream only acknowledges.
HandleAcknowledgement(f) ==
  /\ phase[f] = "canceling"
  /\ Settle(f) /\ Acknowledge(f)
  /\ UNCHANGED <<bytes, total, fresh, conn>>

\* finish_output_response of a streaming download; a success counts it all.
HandleResult(f) ==
  /\ phase[f] = "streaming"
  /\ Settle(f)
  /\ \/ /\ Mark(rowOf[f], "completed")
        /\ bytes' = [bytes EXCEPT ![rowOf[f]] = total[rowOf[f]]]
     \/ Mark(rowOf[f], "errored") /\ UNCHANGED bytes
  /\ UNCHANGED <<total, fresh, conn>>

-----------------------------------------------------------------------------
(* The agent *)

CloseLanes ==
  /\ conn = "up" /\ conn' = "closed"
  /\ UNCHANGED <<state, bytes, total, fresh, phase, rowOf, drained>>

\* settle_lost_transfer, once for every flow of the row: the first keeps an
\* accepted cancel, a second one finds the row canceled and fails it.
SettleLost(r) ==
  IF FlowsOf(r) = {} \/ state[r] = "none" THEN state[r]
  ELSE IF state[r] = "canceling" /\ Cardinality(FlowsOf(r)) = 1 THEN "canceled"
  ELSE "errored"

\* fail_agent_flows
AgentLost ==
  /\ conn # "lost" /\ conn' = "lost"
  /\ bytes' \in Counts /\ SyncProgress(bytes')
  /\ state' = [r \in Requests |-> SettleLost(r)]
  /\ fresh' = [r \in Requests |-> fresh[r] /\ FlowsOf(r) = {}]
  /\ phase' = [f \in Requests |-> IF phase[f] = "none" THEN "none" ELSE "settled"]
  /\ rowOf' = [f \in Requests |-> f]
  /\ drained' = [f \in Requests |-> 0]
  /\ UNCHANGED total

Reconnect ==
  /\ conn = "lost" /\ conn' = "up"
  /\ UNCHANGED <<state, bytes, total, fresh, phase, rowOf, drained>>

HistoryNext ==
  \/ \E f \in Requests :
       \/ Start(f) \/ Drain(f) \/ ClientGone(f) \/ Violate(f)
       \/ HandleAcknowledgement(f) \/ HandleResult(f)
  \/ \E r \in Requests : WindowPasses(r) \/ Prune(r) \/ UserCancel(r)
  \/ Tick \/ CloseLanes \/ AgentLost \/ Reconnect

HistorySpec == HistoryInit /\ [][HistoryNext]_vars

\* A canceled worker answers (OutputFlow), and closed lanes are followed by the
\* end of their session.
FairHistorySpec ==
  /\ HistorySpec
  /\ \A f \in Requests : WF_vars(HandleAcknowledgement(f))
  /\ WF_vars(AgentLost /\ conn = "closed")

-----------------------------------------------------------------------------
(* Properties *)

RowStates ==
  {"none", "active", "canceling", "canceled", "interrupted", "errored", "completed"}

HistoryTypeOK ==
  /\ state \in [Requests -> RowStates]
  /\ bytes \in Counts /\ total \in Counts
  /\ fresh \in [Requests -> BOOLEAN]
  /\ phase \in [Requests -> {"none", "streaming", "canceling", "settled"}]
  /\ rowOf \in [Requests -> Requests]
  /\ drained \in Counts
  /\ conn \in {"up", "closed", "lost"}

\* However often a row was interrupted, resumed and canceled, it is active only
\* while exactly one stream drives it, and a stream that was not stopped drives
\* an active row (record_download_start, find_by_progress).
OneDriver ==
  /\ \A f, g \in Requests :
       phase[f] = "streaming" /\ phase[g] = "streaming" /\ rowOf[f] = rowOf[g] => f = g
  /\ \A r \in Requests : state[r] = "active" => Drivers(r) # {}
  /\ conn = "up" =>
       \A f \in Requests : phase[f] = "streaming" => state[rowOf[f]] = "active"

\* An active row never shows more than its own stream delivered, whatever the
\* stream it continues had counted (live_progress).
CountsItsDriver ==
  \A f \in Requests :
    (phase[f] = "streaming" /\ state[rowOf[f]] = "active") => bytes[rowOf[f]] <= drained[f]

\* A row that ended as completed or canceled does not change again, not by the
\* late acknowledgement of a stream it continued; a loss of the agent is excepted
\* (acknowledge_download_cancel).
EndedRowStays ==
  [][\A r \in Requests :
       (state[r] \in {"completed", "canceled"} /\ conn' # "lost") =>
         state'[r] \in {state[r], "none"}]_<<state, conn>>

\* Every accepted cancel of a row is still owed an acknowledgement by a stream of
\* that row, although that need not be the one the row was created for
\* (acknowledge_download_cancel, settle_lost_transfer).
CancelIsOwed ==
  \A r \in Requests : state[r] = "canceling" => FlowsOf(r) # {}

\* As ARCHITECTURE.md and settle_lost_transfer have it: rows end as Completed,
\* Errored or Canceled and stay, an accepted cancel also when the agent is lost.
EndedRowStaysOnLoss ==
  [][\A r \in Requests :
       (state[r] \in {"completed", "canceled"}) => state'[r] \in {state[r], "none"}]_state
=============================================================================
