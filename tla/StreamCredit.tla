---------------------------- MODULE StreamCredit ----------------------------
(***************************************************************************)
(* Flow control of one credited stream, in either direction of an agent    *)
(* connection.                                                             *)
(*                                                                         *)
(* The sender spends one credit per frame at its CreditGate and hands the  *)
(* frame to a lane; the lane, the socket and the peer's reader keep the    *)
(* frames of one stream in order.  The reader puts each frame into the     *)
(* stream's own bounded queue with try_send and never waits.  The consumer *)
(* drains the queue and returns credit in batches.  FIN, the last frame,   *)
(* is exempt from credit and has a queue slot of its own.                  *)
(*                                                                         *)
(* Frames are numbered 1 .. Last, FIN being frame Last.  Everything        *)
(* between two counters is in order, so a queue is an interval:            *)
(*    sent    arrived   queued   drained                                   *)
(* arrived+1 .. sent are on the lane or the socket, drained+1 .. queued    *)
(* are in the receive queue.                                               *)
(*                                                                         *)
(* The router, the sender's worker and the consumer's owner appear here    *)
(* only as an environment that may cancel, fail, close or abandon the      *)
(* stream at any moment; OutputFlow says when they really do.              *)
(***************************************************************************)
EXTENDS Integers

CONSTANTS
  Window,      \* credit window in frames (4, or 16 for terminals)
  Batch,       \* frames per credit grant (STREAM_CREDIT_BATCH_FRAMES)
  Last,        \* number of frames of the stream; frame Last is FIN
  AwaitGrant,  \* TRUE: the receiver grants the first window (uploads)
  Rogue,       \* peers that may ignore the protocol, of "sender" and "receiver"
  GrantBound   \* most grants a rogue receiver keeps in flight (model bound)

ASSUME CreditAssumption ==
  /\ Window \in Nat \ {0}
  /\ Batch \in 1 .. Window
  /\ Last \in Nat \ {0}
  /\ AwaitGrant \in BOOLEAN
  /\ Rogue \subseteq {"sender", "receiver"}
  /\ GrantBound \in Nat

VARIABLES
  rogue,       \* the peers that do ignore the protocol
  permits,     \* CreditGate.permits
  closed,      \* the gate was closed (or its registration dropped)
  held,        \* credit was spent for frame sent+1, which waits for the lane
  sent,        \* frames handed to the lane
  arrived,     \* frames the reader took from the socket
  queued,      \* last frame put into the receive queue
  drained,     \* last frame the consumer took
  slot,        \* the reader's table routes this stream (InboundSlot, UploadRoute)
  cancel,      \* StreamLease.cancel fired
  fault,       \* StreamLease.fault is set
  overflow,    \* the reader found the queue full and is closing the slot
  violated,    \* a CreditViolation was reported
  consumer,    \* what the consumer has seen of the stream's end
  owed,        \* CreditLedger.owed
  owed_credit, \* OutputReceiver.owed_credit: a batch due, not yet returned
  grants,      \* Credit frames on their way back, Batch frames each
  ready        \* the first window of an AwaitGrant stream

creditVars == <<rogue, permits, closed, held, sent, arrived, queued, drained,
                slot, cancel, fault, overflow, violated, consumer, owed,
                owed_credit, grants, ready>>

senderVars   == <<permits, closed, held, sent>>
readerVars   == <<arrived, queued, slot, overflow, violated>>
leaseVars    == <<cancel, fault>>
consumerVars == <<drained, consumer, owed, owed_credit>>
grantVars    == <<grants, ready>>

-----------------------------------------------------------------------------

\* FIN never waits for credit.
ConsumesCredit(frame) == frame # Last

\* Mutant: no slot reserved for FIN.
QueueWithoutFinSlot == Window

\* The window plus the reserved slot of FIN.
ReceiveQueueFrames == Window + 1

QueueLength == queued - drained

\* CreditGate::grant: the balance never exceeds the window.
Granted(balance, frames) ==
  IF balance + frames > Window THEN Window ELSE balance + frames

\* Mutant: the batch is due one frame late.
LedgerOneLate(balance, frame) ==
  IF ~ConsumesCredit(frame) THEN [owed |-> balance, due |-> 0]
  ELSE IF balance + 1 <= Batch THEN [owed |-> balance + 1, due |-> 0]
  ELSE [owed |-> 0, due |-> balance + 1]

\* CreditLedger::drained: owes nothing for FIN, a whole batch when it is due.
Ledger(balance, frame) ==
  IF ~ConsumesCredit(frame) THEN [owed |-> balance, due |-> 0]
  ELSE IF balance + 1 < Batch THEN [owed |-> balance + 1, due |-> 0]
  ELSE [owed |-> 0, due |-> balance + 1]

CreditInit ==
  /\ rogue \in SUBSET Rogue
  /\ permits = IF AwaitGrant THEN 0 ELSE Window
  /\ closed = FALSE /\ held = FALSE
  /\ sent = 0 /\ arrived = 0 /\ queued = 0 /\ drained = 0
  /\ slot = IF AwaitGrant THEN FALSE ELSE TRUE
  /\ cancel = FALSE /\ fault = FALSE
  /\ overflow = FALSE /\ violated = FALSE
  /\ consumer = "reading"
  /\ owed = 0 /\ owed_credit = 0
  /\ grants = 0
  /\ ready = IF AwaitGrant THEN "unsent" ELSE "applied"

-----------------------------------------------------------------------------
(* Sender *)

\* CreditGate::acquire succeeding for a non-terminal frame.
Acquire ==
  /\ ~closed /\ ~held
  /\ sent < Last /\ ConsumesCredit(sent + 1)
  /\ permits > 0
  /\ permits' = permits - 1
  /\ held' = TRUE
  /\ UNCHANGED <<rogue, closed, sent, readerVars, leaseVars, consumerVars,
                 grantVars>>

\* The frame reaches the lane.  A producer starts only after readiness; a gate
\* closed between acquire and the lane does not take the frame back, and FIN
\* does not ask the gate.
Enqueue ==
  /\ ready = "applied"
  /\ sent < Last
  /\ ConsumesCredit(sent + 1) => held
  /\ sent' = sent + 1
  /\ held' = FALSE
  /\ UNCHANGED <<rogue, permits, closed, readerVars, leaseVars, consumerVars,
                 grantVars>>

\* A sender that ignores its credit.  Frames it sends before the receiver
\* routes the stream are dropped without effect and left out.
SendWithoutCredit ==
  /\ "sender" \in rogue
  /\ ready # "unsent"
  /\ ~held
  /\ sent < Last
  /\ sent' = sent + 1
  /\ UNCHANGED <<rogue, permits, closed, held, readerVars, leaseVars,
                 consumerVars,
                 grantVars>>

\* The writer is dropped, or the router closes an outbound stream's gate.
CloseGate ==
  /\ ~closed
  /\ closed' = TRUE
  /\ UNCHANGED <<rogue, permits, held, sent, readerVars, leaseVars,
                 consumerVars,
                 grantVars>>

\* A grant arrives; grants for finished streams are ignored.
ApplyGrant ==
  /\ grants > 0
  /\ grants' = grants - 1
  /\ permits' = IF closed THEN permits ELSE Granted(permits, Batch)
  /\ UNCHANGED <<rogue, closed, held, sent, readerVars, leaseVars,
                 consumerVars, ready>>

\* The first grant of an upload, which is also the readiness signal.
ApplyReady ==
  /\ ready = "inflight"
  /\ ready' = "applied"
  /\ permits' = IF closed THEN permits ELSE Granted(permits, Window)
  /\ UNCHANGED <<rogue, closed, held, sent, readerVars, leaseVars,
                 consumerVars, grants>>

-----------------------------------------------------------------------------
(* Reader of the peer's connection *)

\* Mutant: the queue of a stream that broke its credit is closed first, and the
\* fault is left to the router.
DeliverWithoutFault ==
  LET frame == arrived + 1 IN
  /\ ~overflow
  /\ arrived < sent
  /\ arrived' = frame
  /\ IF ~slot \/ cancel \/ consumer # "reading"
     THEN UNCHANGED <<queued, overflow>>
     ELSE IF QueueLength < ReceiveQueueFrames
     THEN queued' = frame /\ UNCHANGED overflow
     ELSE overflow' = TRUE /\ UNCHANGED queued
  /\ slot' = IF frame = Last THEN FALSE ELSE slot
  /\ UNCHANGED <<rogue, senderVars, leaseVars, violated, consumerVars, grantVars>>

\* One frame is routed.  It is discarded for an unknown or stopped stream and
\* for a consumer that went away; a full queue sets the fault first.
Deliver ==
  LET frame == arrived + 1 IN
  /\ ~overflow
  /\ arrived < sent
  /\ arrived' = frame
  /\ IF ~slot \/ cancel \/ consumer # "reading"
     THEN UNCHANGED <<queued, fault, overflow>>
     ELSE IF QueueLength < ReceiveQueueFrames
     THEN /\ queued' = frame
          /\ UNCHANGED <<fault, overflow>>
     ELSE /\ fault' = TRUE
          /\ overflow' = TRUE
          /\ UNCHANGED queued
  /\ slot' = IF frame = Last THEN FALSE ELSE slot
  /\ UNCHANGED <<rogue, senderVars, cancel, violated, consumerVars, grantVars>>

\* The rest of a violating delivery: the slot is closed, then the router told.
CloseOverflowing ==
  /\ overflow
  /\ overflow' = FALSE
  /\ slot' = FALSE
  /\ violated' = TRUE
  /\ UNCHANGED <<rogue, senderVars, arrived, queued, leaseVars, consumerVars,
                 grantVars>>

-----------------------------------------------------------------------------
(* Consumer *)

\* Queued frames are drained before a stop is observed, and no frame is taken
\* while a batch of credit is still owed.
Drain ==
  /\ consumer = "reading"
  /\ owed_credit = 0
  /\ QueueLength > 0
  /\ drained' = drained + 1
  /\ owed' = Ledger(owed, drained + 1).owed
  /\ owed_credit' = Ledger(owed, drained + 1).due
  /\ consumer' = IF drained + 1 = Last THEN "complete" ELSE "reading"
  /\ UNCHANGED <<rogue, senderVars, readerVars, leaseVars, grantVars>>

\* Nothing is queued and the stream was stopped or is no longer routed: the
\* consumer sees the fault if there is one.
ObserveEnd ==
  /\ consumer = "reading"
  /\ owed_credit = 0
  /\ QueueLength = 0
  /\ cancel \/ (~slot /\ ready # "unsent")
  /\ consumer' = IF fault THEN "failed" ELSE "stopped"
  /\ UNCHANGED <<rogue, senderVars, readerVars, leaseVars, drained, owed,
                 owed_credit,
                 grantVars>>

\* Mutants: the batch stays due after it was returned; the batch is forgotten
\* when the future that returns it is dropped.
ReturnCreditTwice ==
  /\ consumer = "reading"
  /\ owed_credit > 0
  /\ grants' = grants + 1
  /\ UNCHANGED <<rogue, senderVars, readerVars, leaseVars, consumerVars, ready>>

ReturnCreditLost ==
  /\ consumer = "reading"
  /\ owed_credit > 0
  /\ owed_credit' = 0
  /\ UNCHANGED <<rogue, senderVars, readerVars, leaseVars, drained, consumer,
                 owed, grantVars>>

\* The batch due is returned, before the next frame is awaited.
ReturnCredit ==
  /\ consumer = "reading"
  /\ owed_credit > 0
  /\ owed_credit' = 0
  /\ grants' = grants + 1
  /\ UNCHANGED <<rogue, senderVars, readerVars, leaseVars, drained, consumer,
                 owed, ready>>

\* The receiving worker of an upload opens its route, then grants the window.
SendReady ==
  /\ ready = "unsent"
  /\ ready' = "inflight"
  /\ slot' = TRUE
  /\ UNCHANGED <<rogue, senderVars, arrived, queued, overflow, violated,
                 leaseVars,
                 consumerVars, grants>>

\* A receiver that returns credit it never drained.
GrantWithoutDraining ==
  /\ "receiver" \in rogue
  /\ grants < GrantBound
  /\ grants' = grants + 1
  /\ UNCHANGED <<rogue, senderVars, readerVars, leaseVars, consumerVars, ready>>

\* The consumer is dropped (its HTTP client disconnected).
Abandon ==
  /\ consumer = "reading"
  /\ consumer' = "gone"
  /\ UNCHANGED <<rogue, senderVars, readerVars, leaseVars, drained, owed,
                 owed_credit,
                 grantVars>>

-----------------------------------------------------------------------------
(* What the owner of the stream may do to it *)

\* StreamLease::stop
Stop ==
  /\ ~cancel
  /\ cancel' = TRUE
  /\ UNCHANGED <<rogue, senderVars, readerVars, fault, consumerVars, grantVars>>

\* StreamLease::fail; the first reason stays.
Fail ==
  /\ ~fault \/ ~cancel
  /\ fault' = TRUE
  /\ cancel' = TRUE
  /\ UNCHANGED <<rogue, senderVars, readerVars, consumerVars, grantVars>>

\* ConnectionStreams::close_inbound, or an upload worker dropping its route.
CloseSlot ==
  /\ slot
  /\ slot' = FALSE
  /\ UNCHANGED <<rogue, senderVars, arrived, queued, overflow, violated,
                 leaseVars,
                 consumerVars, grantVars>>

Environment == Stop \/ Fail \/ CloseSlot \/ CloseGate \/ Abandon

Misbehave == SendWithoutCredit \/ GrantWithoutDraining

DataPath ==
  \/ Acquire \/ Enqueue \/ ApplyGrant \/ ApplyReady
  \/ Deliver \/ CloseOverflowing
  \/ Drain \/ ObserveEnd \/ ReturnCredit \/ SendReady

CreditNext == DataPath \/ Misbehave \/ Environment

CreditSpec == CreditInit /\ [][CreditNext]_creditVars

\* Tasks that can run are eventually polled, lanes and sockets are drained;
\* neither the environment nor a misbehaving peer has to act.
CreditFairness ==
  /\ WF_creditVars(Acquire) /\ WF_creditVars(Enqueue)
  /\ WF_creditVars(ApplyGrant) /\ WF_creditVars(ApplyReady)
  /\ WF_creditVars(Deliver) /\ WF_creditVars(CloseOverflowing)
  /\ WF_creditVars(Drain) /\ WF_creditVars(ObserveEnd)
  /\ WF_creditVars(ReturnCredit) /\ WF_creditVars(SendReady)

FairCreditSpec == CreditSpec /\ CreditFairness

-----------------------------------------------------------------------------
(* Properties *)

TypeOK ==
  /\ rogue \subseteq Rogue
  /\ permits \in 0 .. Window
  /\ closed \in BOOLEAN /\ held \in BOOLEAN
  /\ sent \in 0 .. Last /\ arrived \in 0 .. sent
  /\ queued \in 0 .. arrived /\ drained \in 0 .. queued
  /\ slot \in BOOLEAN /\ cancel \in BOOLEAN /\ fault \in BOOLEAN
  /\ overflow \in BOOLEAN /\ violated \in BOOLEAN
  /\ consumer \in {"reading", "complete", "failed", "stopped", "gone"}
  /\ owed \in 0 .. Batch - 1 /\ owed_credit \in {0, Batch}
  /\ grants \in Nat
  /\ ready \in {"unsent", "inflight", "applied"}
  /\ held => sent + 1 < Last

Honest == rogue = {}

\* Data frames the sender spent credit for and the consumer has not drained.
DataFrames(count) == IF count = Last THEN Last - 1 ELSE count
Outstanding == DataFrames(sent) - DataFrames(drained) + (IF held THEN 1 ELSE 0)

\* Credit on its way from the consumer to the gate.
GrantsInFlight == Batch * grants
Ungranted == IF ready = "applied" THEN 0 ELSE Window
Returning == owed + owed_credit + GrantsInFlight + Ungranted

\* Credit is neither lost nor invented: whatever order frames and grants are
\* handled in, the window is split between the gate, the frames outstanding and
\* the credit being returned, and only a closed gate forgets any of it.  This
\* is about CreditGate::grant and CreditLedger::drained working as a pair.
CreditConserved ==
  Honest => /\ permits + Outstanding + Returning <= Window
            /\ ~closed => permits + Outstanding + Returning = Window

\* An honest peer is never accused: no interleaving of grants, drains and
\* cancels lets a frame, FIN included, find its receive queue full, so
\* ConnectionStreams::deliver and UploadRoutes::route_chunk never fail it.
NoHonestViolation == Honest => ~overflow /\ ~violated

\* A drained receiver never withholds the sender's last credit: with nothing
\* outstanding and nothing on its way back there is credit to send with (the
\* reason STREAM_CREDIT_BATCH_FRAMES must not exceed the smallest window).
DrainedReceiverNeverStarves ==
  (Honest /\ ~closed /\ ready = "applied" /\ Outstanding = 0 /\ owed_credit = 0
     /\ grants = 0) => permits > 0

\* A failed stream is never taken for a short one: once a peer outran its credit
\* and a frame was dropped, the consumer may read what is still queued and is then
\* told of the fault, whoever else stops, closes or fails the stream meanwhile and
\* although the router hears of the violation last (ConnectionStreams::deliver sets
\* the fault before it closes the queue; OutputReceiver::recv, take_fault).
OverflowIsTold == overflow \/ violated => consumer \notin {"complete", "stopped"}

\* Something other than the data path ended the stream.
Interrupted == cancel \/ fault \/ closed \/ consumer = "gone"
                 \/ (~slot /\ arrived < Last /\ ready # "unsent")

\* Flow control alone never stalls a stream: unless somebody ends it, every
\* frame, FIN included, reaches the consumer.
StreamCompletes == <>(consumer = "complete" \/ Interrupted)
=============================================================================
