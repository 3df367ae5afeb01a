----------------------- MODULE DownloadHistoryProofs -----------------------
(***************************************************************************)
(* What DownloadHistory keeps for every set of requests, every file size   *)
(* and every frame size: who drives a row, who still owes it an            *)
(* acknowledgement, and whose bytes it shows.                              *)
(***************************************************************************)
EXTENDS DownloadHistory, TLAPS

Streaming(f) == phase[f] = "streaming"

\* A row exists only for a request that was made, and flows refer to such rows.
RowIds ==
  \A f \in Requests :
    /\ phase[f] = "none" => state[f] = "none"
    /\ phase[f] # "none" => phase[rowOf[f]] # "none"

\* No row that a new request may continue is driven, and a lost connection has
\* no flow left.
StreamRows ==
  \A f \in Requests :
    /\ Streaming(f) => state[rowOf[f]] \in {"active", "errored", "none"}
    /\ conn = "lost" => phase[f] \notin {"streaming", "canceling"}

\* OneDriver and CancelIsOwed without set constructors.
Driven ==
  /\ \A f, g \in Requests : Streaming(f) /\ Streaming(g) /\ rowOf[f] = rowOf[g] => f = g
  /\ \A r \in Requests :
       state[r] = "active" => \E f \in Requests : Streaming(f) /\ rowOf[f] = r
  /\ conn = "up" =>
       \A f \in Requests : Streaming(f) => state[rowOf[f]] = "active"

Owed ==
  \A r \in Requests :
    state[r] = "canceling" =>
      \E f \in Requests : phase[f] \in {"streaming", "canceling"} /\ rowOf[f] = r

HistoryInvariant ==
  HistoryTypeOK /\ RowIds /\ StreamRows /\ Driven /\ Owed /\ CountsItsDriver

-----------------------------------------------------------------------------

\* The set-free forms say the same.
LEMMA DrivenIsOneDriver == Driven <=> OneDriver
  <1>1. \A r \in Requests :
          Drivers(r) # {} <=> \E f \in Requests : Streaming(f) /\ rowOf[f] = r
    BY DEF Drivers, FlowsOf, Streaming
  <1> QED
    BY <1>1 DEF Driven, OneDriver, Streaming

LEMMA OwedIsCancelIsOwed == Owed <=> CancelIsOwed
  BY DEF Owed, CancelIsOwed, FlowsOf

\* Reading the progress keeps the counts in range, and an active row takes the
\* count of the stream that drives it.
LEMMA SyncedCounts ==
  ASSUME HistoryTypeOK, Driven, bytes' \in Counts, SyncProgress(bytes'),
         NEW f \in Requests, Streaming(f), state[rowOf[f]] = "active"
  PROVE  bytes'[rowOf[f]] = drained[f]
  <1>1. rowOf[f] \in Requests
    BY DEF HistoryTypeOK
  <1>2. LiveProgress(rowOf[f]) = {drained[f]}
    BY <1>1 DEF LiveProgress, Drivers, FlowsOf, Driven, Streaming, HistoryTypeOK
  <1> QED
    BY <1>1, <1>2 DEF SyncProgress

LEMMA InitEstablishes == HistoryInit => HistoryInvariant
  BY HistoryAssumption
     DEF HistoryInit, HistoryInvariant, HistoryTypeOK, RowIds, StreamRows, Driven, Owed,
         CountsItsDriver, Counts, RowStates, Streaming

-----------------------------------------------------------------------------
(* One lemma for every step *)

LEMMA StartPreserves ==
  ASSUME HistoryInvariant, NEW f \in Requests, Start(f)
  PROVE  HistoryInvariant'
  <1> USE DEF Streaming
  <1>1. PICK ranged \in BOOLEAN, offset \in 0 .. Size - 1 :
          IF Candidates(ranged, offset) = {}
          THEN StartNewRow(f, offset)
          ELSE \E r \in Candidates(ranged, offset) : ResumeRow(f, r, offset)
    BY DEF Start
  <1>2. /\ offset \in 0 .. Size /\ Size - offset \in 0 .. Size /\ 0 \in 0 .. Size
        /\ offset <= offset
    BY HistoryAssumption
  <1>3. phase[f] = "none" /\ conn = "up" /\ conn' = conn
        /\ phase' = [phase EXCEPT ![f] = "streaming"]
    BY DEF Start
  <1>4. CASE StartNewRow(f, offset)
    <2>1. HistoryTypeOK'
      BY <1>2, <1>3, <1>4 DEF StartNewRow, HistoryInvariant, HistoryTypeOK, Counts, RowStates
    <2>2. RowIds' /\ StreamRows'
      BY <1>3, <1>4 DEF StartNewRow, HistoryInvariant, HistoryTypeOK, RowIds, StreamRows
    <2>3. Driven'
      BY <1>3, <1>4 DEF StartNewRow, HistoryInvariant, HistoryTypeOK, RowIds, Driven
    <2>4. Owed'
      BY <1>3, <1>4 DEF StartNewRow, HistoryInvariant, HistoryTypeOK, RowIds, Owed
    <2>5. CountsItsDriver'
      BY <1>2, <1>3, <1>4
         DEF StartNewRow, HistoryInvariant, HistoryTypeOK, RowIds, Counts, CountsItsDriver
    <2> QED
      BY <2>1, <2>2, <2>3, <2>4, <2>5 DEF HistoryInvariant
  <1>5. ASSUME NEW r \in Candidates(ranged, offset), ResumeRow(f, r, offset)
        PROVE  HistoryInvariant'
    <2>0. r \in Requests /\ state[r] = "interrupted" /\ phase[r] # "none" /\ r # f
      BY <1>3 DEF Candidates, HistoryInvariant, RowIds
    <2>1. HistoryTypeOK'
      BY <1>2, <1>3, <1>5, <2>0 DEF ResumeRow, HistoryInvariant, HistoryTypeOK, Counts, RowStates
    <2>2. RowIds' /\ StreamRows'
      BY <1>3, <1>5, <2>0 DEF ResumeRow, HistoryInvariant, HistoryTypeOK, RowIds, StreamRows
    <2>3. Driven'
      BY <1>3, <1>5, <2>0
         DEF ResumeRow, HistoryInvariant, HistoryTypeOK, RowIds, StreamRows, Driven
    <2>4. Owed'
      BY <1>3, <1>5, <2>0 DEF ResumeRow, HistoryInvariant, HistoryTypeOK, RowIds, Owed
    <2>5. CountsItsDriver'
      BY <1>2, <1>3, <1>5, <2>0
         DEF ResumeRow, HistoryInvariant, HistoryTypeOK, StreamRows, CountsItsDriver, Counts
    <2> QED
      BY <2>1, <2>2, <2>3, <2>4, <2>5 DEF HistoryInvariant
  <1> QED
    BY <1>1, <1>4, <1>5

LEMMA DrainPreserves ==
  ASSUME HistoryInvariant, NEW f \in Requests, Drain(f)
  PROVE  HistoryInvariant'
  <1> USE DEF Drain, HistoryInvariant, HistoryTypeOK
  <1>0. drained[f] \in 0 .. Size /\ total[rowOf[f]] \in 0 .. Size /\ drained[f] + 1 \in 0 .. Size
    <2>1. rowOf[f] \in Requests
      OBVIOUS
    <2>2. drained[f] \in 0 .. Size /\ total[rowOf[f]] \in 0 .. Size
      BY <2>1 DEF Counts
    <2>3. drained[f] < total[rowOf[f]]
      OBVIOUS
    <2> HIDE DEF Drain, HistoryInvariant, HistoryTypeOK
    <2> QED
      BY <2>2, <2>3, HistoryAssumption
  <1>1. HistoryTypeOK'
    BY <1>0 DEF Counts
  <1>2. RowIds' /\ StreamRows' /\ Driven' /\ Owed'
    BY DEF RowIds, StreamRows, Driven, Owed, Streaming
  <1>3. CountsItsDriver'
    BY <1>0 DEF CountsItsDriver, Counts
  <1> QED
    BY <1>1, <1>2, <1>3

LEMMA TickPreserves ==
  ASSUME HistoryInvariant, Tick
  PROVE  HistoryInvariant'
  <1> USE DEF Tick, HistoryInvariant
  <1>1. HistoryTypeOK' /\ RowIds' /\ StreamRows' /\ Driven' /\ Owed'
    BY DEF HistoryTypeOK, RowIds, StreamRows, Driven, Owed, Streaming
  <1>2. CountsItsDriver'
    BY SyncedCounts DEF CountsItsDriver, Streaming, HistoryTypeOK, Counts
  <1> QED
    BY <1>1, <1>2

LEMMA WindowPassesPreserves ==
  ASSUME HistoryInvariant, NEW r \in Requests, WindowPasses(r)
  PROVE  HistoryInvariant'
  BY DEF WindowPasses, HistoryInvariant, HistoryTypeOK, RowIds, StreamRows, Driven, Owed,
         CountsItsDriver, Streaming

LEMMA PrunePreserves ==
  ASSUME HistoryInvariant, NEW r \in Requests, Prune(r)
  PROVE  HistoryInvariant'
  <1> USE DEF Prune, HistoryInvariant, HistoryTypeOK
  <1>1. HistoryTypeOK'
    BY HistoryAssumption DEF Counts, RowStates
  <1>2. RowIds' /\ StreamRows'
    BY DEF RowIds, StreamRows, Streaming
  <1>3. Driven' /\ Owed'
    BY DEF Driven, Owed, Streaming
  <1>4. CountsItsDriver'
    BY DEF CountsItsDriver
  <1> QED
    BY <1>1, <1>2, <1>3, <1>4

LEMMA ClientGonePreserves ==
  ASSUME HistoryInvariant, NEW f \in Requests, ClientGone(f)
  PROVE  HistoryInvariant'
  <1> USE DEF ClientGone, HistoryInvariant, HistoryTypeOK, Streaming
  <1>1. CASE conn = "up"
    <2>0. state[rowOf[f]] = "active"
      BY <1>1 DEF Driven
    <2>1. HistoryTypeOK'
      BY <1>1 DEF Mark, RowStates
    <2>2. RowIds' /\ StreamRows'
      BY <1>1, <2>0 DEF Mark, RowIds, StreamRows, Driven
    <2>3. Driven'
      BY <1>1, <2>0 DEF Mark, Driven
    <2>4. Owed'
      BY <1>1, <2>0 DEF Mark, Owed
    <2>5. CountsItsDriver'
      <3> SUFFICES ASSUME NEW g \in Requests, phase'[g] = "streaming",
                          state'[rowOf[g]] = "active"
                   PROVE  bytes'[rowOf[g]] <= drained[g]
        BY DEF CountsItsDriver
      <3>1. phase[g] = "streaming" /\ state[rowOf[g]] = "active"
        BY <1>1, <2>0 DEF Mark
      <3> QED
        BY <3>1, SyncedCounts DEF Counts
    <2> QED
      BY <2>1, <2>2, <2>3, <2>4, <2>5
  <1>2. CASE conn # "up"
    <2>1. HistoryTypeOK' /\ RowIds' /\ StreamRows' /\ Driven' /\ Owed'
      BY <1>2 DEF RowIds, StreamRows, Driven, Owed
    <2>2. CountsItsDriver'
      BY <1>2, SyncedCounts DEF CountsItsDriver, Counts
    <2> QED
      BY <2>1, <2>2
  <1> QED
    BY <1>1, <1>2

LEMMA UserCancelPreserves ==
  ASSUME HistoryInvariant, NEW r \in Requests, UserCancel(r)
  PROVE  HistoryInvariant'
  <1> USE DEF UserCancel, HistoryInvariant, HistoryTypeOK, Streaming
  <1>1. PICK d \in Requests : phase[d] = "streaming" /\ rowOf[d] = r
    BY DEF Driven
  <1>2. FlowsOf(r) # {} /\ FindByProgress(r) = {d}
    BY <1>1 DEF FindByProgress, Drivers, FlowsOf, Driven
  <1>3. /\ phase' = [phase EXCEPT ![d] = "canceling"]
        /\ state' = [state EXCEPT ![r] = "canceling"]
    BY <1>2 DEF Mark
  <1>4. HistoryTypeOK'
    BY <1>3 DEF RowStates
  <1>5. RowIds' /\ StreamRows'
    BY <1>1, <1>3 DEF RowIds, StreamRows, Driven
  <1>6. Driven'
    BY <1>1, <1>3 DEF Driven
  <1>7. Owed'
    BY <1>1, <1>3 DEF Owed
  <1>8. CountsItsDriver'
    <2> SUFFICES ASSUME NEW g \in Requests, phase'[g] = "streaming",
                        state'[rowOf[g]] = "active"
                 PROVE  bytes'[rowOf[g]] <= drained[g]
      BY DEF CountsItsDriver
    <2>1. phase[g] = "streaming" /\ state[rowOf[g]] = "active"
      BY <1>3
    <2> QED
      BY <2>1, SyncedCounts DEF Counts
  <1> QED
    BY <1>4, <1>5, <1>6, <1>7, <1>8

LEMMA ViolatePreserves ==
  ASSUME HistoryInvariant, NEW f \in Requests, Violate(f)
  PROVE  HistoryInvariant'
  <1> USE DEF Violate, HistoryInvariant, HistoryTypeOK, Streaming
  <1>1. HistoryTypeOK'
    BY DEF Mark, RowStates
  <1>2. RowIds' /\ StreamRows'
    BY DEF Mark, RowIds, StreamRows, Driven
  <1>3. Driven'
    BY DEF Mark, Driven
  <1>4. Owed'
    BY DEF Mark, Owed
  <1>5. CountsItsDriver'
    BY DEF Mark, CountsItsDriver
  <1> QED
    BY <1>1, <1>2, <1>3, <1>4, <1>5

LEMMA AcknowledgementPreserves ==
  ASSUME HistoryInvariant, NEW f \in Requests, HandleAcknowledgement(f)
  PROVE  HistoryInvariant'
  <1> USE DEF HandleAcknowledgement, Settle, HistoryInvariant, HistoryTypeOK, Streaming
  <1>1. HistoryTypeOK'
    BY HistoryAssumption DEF Acknowledge, Mark, RowStates, Counts
  <1>2. RowIds' /\ StreamRows'
    BY DEF Acknowledge, Mark, RowIds, StreamRows
  <1>3. Driven'
    BY DEF Acknowledge, Mark, Driven
  <1>4. Owed'
    BY DEF Acknowledge, Mark, Owed
  <1>5. CountsItsDriver'
    BY DEF Acknowledge, Mark, CountsItsDriver
  <1> QED
    BY <1>1, <1>2, <1>3, <1>4, <1>5

LEMMA ResultPreserves ==
  ASSUME HistoryInvariant, NEW f \in Requests, HandleResult(f)
  PROVE  HistoryInvariant'
  <1> USE DEF HandleResult, Settle, HistoryInvariant, HistoryTypeOK, Streaming
  <1>0. PICK new \in {"completed", "errored"} : Mark(rowOf[f], new)
    OBVIOUS
  <1>1. HistoryTypeOK'
    BY <1>0, HistoryAssumption DEF Mark, RowStates, Counts
  <1>2. RowIds' /\ StreamRows'
    BY <1>0 DEF Mark, RowIds, StreamRows, Driven
  <1>3. Driven'
    BY <1>0 DEF Mark, Driven
  <1>4. Owed'
    BY <1>0 DEF Mark, Owed, StreamRows
  <1>5. CountsItsDriver'
    <2> SUFFICES ASSUME NEW g \in Requests, phase'[g] = "streaming",
                        state'[rowOf'[g]] = "active"
                 PROVE  bytes'[rowOf'[g]] <= drained'[g]
      BY DEF CountsItsDriver
    <2>1. g # f /\ phase[g] = "streaming" /\ rowOf'[g] = rowOf[g] /\ drained'[g] = drained[g]
      OBVIOUS
    <2>2. rowOf[g] # rowOf[f] /\ state[rowOf[g]] = "active"
      BY <1>0, <2>1 DEF Mark, Driven
    <2>3. bytes'[rowOf[g]] = bytes[rowOf[g]]
      <3>1. rowOf[f] \in Requests /\ rowOf[g] \in Requests /\ DOMAIN bytes = Requests
        BY DEF Counts
      <3>2. bytes' = bytes \/ bytes' = [bytes EXCEPT ![rowOf[f]] = total[rowOf[f]]]
        OBVIOUS
      <3> QED
        BY <2>2, <3>1, <3>2
    <2> QED
      BY <2>1, <2>2, <2>3 DEF CountsItsDriver
  <1> QED
    BY <1>1, <1>2, <1>3, <1>4, <1>5

LEMMA LossPreserves ==
  ASSUME HistoryInvariant, AgentLost
  PROVE  HistoryInvariant'
  <1> USE DEF AgentLost, HistoryInvariant, HistoryTypeOK, Streaming
  <1>1. \A r \in Requests :
          /\ SettleLost(r) \in RowStates \ {"active", "canceling"}
          /\ state[r] = "none" => SettleLost(r) = "none"
    BY DEF SettleLost, RowStates, FlowsOf, Driven, Owed
  <1>2. HistoryTypeOK'
    <2>1. fresh' \in [Requests -> BOOLEAN]
      OBVIOUS
    <2>2. state' \in [Requests -> RowStates]
      BY <1>1
    <2> QED
      BY <2>1, <2>2, HistoryAssumption DEF Counts
  <1>3. \A f \in Requests : phase'[f] \in {"none", "settled"}
    OBVIOUS
  <1>4. RowIds' /\ StreamRows'
    BY <1>1, <1>3 DEF RowIds, StreamRows
  <1>5. Driven' /\ Owed' /\ CountsItsDriver'
    BY <1>1, <1>3 DEF Driven, Owed, CountsItsDriver
  <1> QED
    BY <1>2, <1>4, <1>5

LEMMA ConnectionPreserves ==
  ASSUME HistoryInvariant, CloseLanes \/ Reconnect
  PROVE  HistoryInvariant'
  BY DEF CloseLanes, Reconnect, HistoryInvariant, HistoryTypeOK, RowIds, StreamRows, Driven,
         Owed, CountsItsDriver, Streaming

LEMMA StepPreserves == HistoryInvariant /\ [HistoryNext]_vars => HistoryInvariant'
  <1> SUFFICES ASSUME HistoryInvariant, [HistoryNext]_vars
               PROVE  HistoryInvariant'
    OBVIOUS
  <1>1. ASSUME NEW f \in Requests,
               \/ Start(f) \/ Drain(f) \/ ClientGone(f) \/ Violate(f)
               \/ HandleAcknowledgement(f) \/ HandleResult(f)
        PROVE  HistoryInvariant'
    BY <1>1, StartPreserves, DrainPreserves, ClientGonePreserves, ViolatePreserves,
       AcknowledgementPreserves, ResultPreserves
  <1>2. ASSUME NEW r \in Requests, WindowPasses(r) \/ Prune(r) \/ UserCancel(r)
        PROVE  HistoryInvariant'
    BY <1>2, WindowPassesPreserves, PrunePreserves, UserCancelPreserves
  <1>3. CASE Tick \/ CloseLanes \/ AgentLost \/ Reconnect
    BY <1>3, TickPreserves, ConnectionPreserves, LossPreserves
  <1>4. CASE UNCHANGED vars
    BY <1>4 DEF vars, HistoryInvariant, HistoryTypeOK, RowIds, StreamRows, Driven, Owed,
                CountsItsDriver, Streaming
  <1> QED
    BY <1>1, <1>2, <1>3, <1>4 DEF HistoryNext

-----------------------------------------------------------------------------

LEMMA HistoryInvariantHolds == HistorySpec => []HistoryInvariant
  BY InitEstablishes, StepPreserves, PTL DEF HistorySpec

\* Rows, flows and counts keep to their ranges.
THEOREM HistoryTypeCorrect == HistorySpec => []HistoryTypeOK
  <1>1. HistoryInvariant => HistoryTypeOK
    BY DEF HistoryInvariant
  <1> QED
    BY <1>1, HistoryInvariantHolds, PTL

\* However many streams shared a row, at most one drives it, and it is active
\* exactly while one does (record_download_start, find_by_progress).
THEOREM OneDriverAlways == HistorySpec => []OneDriver
  <1>1. HistoryInvariant => OneDriver
    BY DrivenIsOneDriver DEF HistoryInvariant
  <1> QED
    BY <1>1, HistoryInvariantHolds, PTL

\* A canceling row always has a stream left that will acknowledge it
\* (acknowledge_download_cancel, settle_lost_transfer).
THEOREM CancelAlwaysOwed == HistorySpec => []CancelIsOwed
  <1>1. HistoryInvariant => CancelIsOwed
    BY OwedIsCancelIsOwed DEF HistoryInvariant
  <1> QED
    BY <1>1, HistoryInvariantHolds, PTL

\* No stream a row was continued from can raise its count (live_progress).
THEOREM CountsItsDriverAlways == HistorySpec => []CountsItsDriver
  <1>1. HistoryInvariant => CountsItsDriver
    BY DEF HistoryInvariant
  <1> QED
    BY <1>1, HistoryInvariantHolds, PTL

Ended == {"completed", "canceled"}

\* What may follow an ended row.
LEMMA EndedRowStep ==
  ASSUME HistoryInvariant, [HistoryNext]_vars, NEW r \in Requests,
         state[r] \in Ended, conn' # "lost"
  PROVE  state'[r] \in {state[r], "none"}
  <1> USE DEF HistoryInvariant, HistoryTypeOK, Ended
  <1>1. ASSUME NEW f \in Requests, Start(f)
        PROVE  state'[r] \in {state[r], "none"}
    <2>1. phase[f] = "none" /\ state[f] = "none" /\ r # f
      BY <1>1 DEF Start, RowIds
    <2>2. \/ state' = [state EXCEPT ![f] = "active"]
          \/ \E q \in Requests : state[q] = "interrupted" /\ state' = [state EXCEPT ![q] = "active"]
      BY <1>1 DEF Start, StartNewRow, ResumeRow, Candidates
    <2> QED
      BY <2>1, <2>2
  <1>2. ASSUME NEW f \in Requests, ClientGone(f) \/ Violate(f) \/ HandleResult(f)
        PROVE  state'[r] \in {state[r], "none"}
    <2>1. phase[f] = "streaming" /\ rowOf[f] \in Requests /\ rowOf[f] # r
      BY <1>2 DEF ClientGone, Violate, HandleResult, StreamRows, Streaming
    <2>2. state' = state \/ \E new \in RowStates : Mark(rowOf[f], new)
      BY <1>2 DEF ClientGone, Violate, HandleResult, RowStates
    <2> QED
      BY <2>1, <2>2 DEF Mark
  <1>3. ASSUME NEW f \in Requests, HandleAcknowledgement(f)
        PROVE  state'[r] \in {state[r], "none"}
    BY <1>3 DEF HandleAcknowledgement, Acknowledge, Mark
  <1>4. ASSUME NEW q \in Requests, UserCancel(q)
        PROVE  state'[r] \in {state[r], "none"}
    BY <1>4 DEF UserCancel, Mark
  <1>5. ASSUME NEW q \in Requests, Prune(q)
        PROVE  state'[r] \in {state[r], "none"}
    BY <1>5 DEF Prune
  <1>6. CASE \/ \E f \in Requests : Drain(f)
             \/ \E q \in Requests : WindowPasses(q)
             \/ Tick \/ CloseLanes \/ Reconnect \/ UNCHANGED vars
    BY <1>6 DEF Drain, WindowPasses, Tick, CloseLanes, Reconnect, vars
  <1>7. CASE AgentLost
    BY <1>7 DEF AgentLost
  <1> QED
    BY <1>1, <1>2, <1>3, <1>4, <1>5, <1>6, <1>7 DEF HistoryNext

\* A completed or canceled row is final while the agent stays, whatever results,
\* cancels and acknowledgements of older streams of the row are still to come
\* (acknowledge_download_cancel, finish_output_response).
THEOREM EndedRowAlwaysStays == HistorySpec => EndedRowStays
  <1>1. HistoryInvariant /\ [HistoryNext]_vars =>
          [\A r \in Requests :
             (state[r] \in {"completed", "canceled"} /\ conn' # "lost") =>
               state'[r] \in {state[r], "none"}]_<<state, conn>>
    BY EndedRowStep DEF Ended
  <1> QED
    BY <1>1, HistoryInvariantHolds, PTL DEF HistorySpec, EndedRowStays
=============================================================================
