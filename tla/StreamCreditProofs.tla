------------------------- MODULE StreamCreditProofs -------------------------
(***************************************************************************)
(* What holds of a credited stream for every window, batch, stream length  *)
(* and misbehaviour of the peers.                                          *)
(***************************************************************************)
EXTENDS StreamCredit, TLAPS

\* Steps by part, so that each case of the induction expands few definitions.
LEMMA CreditInitType == CreditInit => TypeOK
<1> SUFFICES ASSUME CreditInit PROVE TypeOK
  OBVIOUS
<1>1. slot \in BOOLEAN
  BY Zenon, CreditAssumption DEF CreditInit
<1>2. permits \in 0 .. Window
  BY CreditAssumption DEF CreditInit
<1>3. ready \in {"unsent", "inflight", "applied"}
  BY CreditAssumption DEF CreditInit
<1>4. /\ sent \in 0 .. Last /\ arrived \in 0 .. sent
      /\ queued \in 0 .. arrived /\ drained \in 0 .. queued
      /\ owed \in 0 .. Batch - 1 /\ owed_credit \in {0, Batch} /\ grants \in Nat
  BY CreditAssumption DEF CreditInit
<1>5. QED
  BY <1>1, <1>2, <1>3, <1>4 DEF CreditInit, TypeOK

LEMMA LedgerType ==
  ASSUME NEW balance \in 0 .. Batch - 1, NEW frame \in 1 .. Last
  PROVE  /\ Ledger(balance, frame).owed \in 0 .. Batch - 1
         /\ Ledger(balance, frame).due \in {0, Batch}
         /\ Ledger(balance, frame).owed + Ledger(balance, frame).due
              = balance + (IF frame = Last THEN 0 ELSE 1)
  BY CreditAssumption DEF Ledger, ConsumesCredit

LEMMA SenderStepType ==
  ASSUME TypeOK,
         Acquire \/ Enqueue \/ SendWithoutCredit \/ CloseGate \/ ApplyGrant
           \/ ApplyReady
  PROVE  TypeOK'
<1> USE CreditAssumption DEF TypeOK, senderVars, readerVars, leaseVars, consumerVars, grantVars
<1>1. CASE Acquire
  BY <1>1 DEF Acquire, ConsumesCredit
<1>2. CASE Enqueue
  <2>1. sent' \in 0 .. Last
    BY <1>2 DEF Enqueue
  <2>2. arrived' \in 0 .. sent'
    BY <1>2 DEF Enqueue
  <2>3. held' = FALSE
    BY <1>2 DEF Enqueue
  <2>4. UNCHANGED <<rogue, permits, closed, readerVars, leaseVars, consumerVars, grantVars>>
    BY <1>2 DEF Enqueue
  <2>5. QED
    BY <2>1, <2>2, <2>3, <2>4
<1>3. CASE SendWithoutCredit
  BY <1>3 DEF SendWithoutCredit
<1>4. CASE CloseGate
  BY <1>4 DEF CloseGate
<1>5. CASE ApplyGrant
  BY <1>5 DEF ApplyGrant, Granted
<1>6. CASE ApplyReady
  BY <1>6 DEF ApplyReady, Granted
<1>7. QED
  BY <1>1, <1>2, <1>3, <1>4, <1>5, <1>6

LEMMA ReceiverStepType ==
  ASSUME TypeOK,
         Deliver \/ CloseOverflowing \/ Drain \/ ObserveEnd \/ ReturnCredit
           \/ SendReady \/ GrantWithoutDraining
  PROVE  TypeOK'
<1> USE CreditAssumption DEF TypeOK, senderVars, readerVars, leaseVars, consumerVars, grantVars
<1>1. CASE Deliver
  <2>1. arrived' \in 0 .. sent'
    BY <1>1 DEF Deliver
  <2>2. queued' \in 0 .. arrived'
    BY <1>1 DEF Deliver
  <2>3. drained' \in 0 .. queued'
    BY <1>1 DEF Deliver
  <2>4. slot' \in BOOLEAN /\ fault' \in BOOLEAN /\ overflow' \in BOOLEAN
    BY <1>1 DEF Deliver
  <2>5. UNCHANGED <<rogue, senderVars, cancel, violated, consumer, owed, owed_credit,
                    grantVars>>
    BY <1>1 DEF Deliver
  <2>6. QED
    BY <2>1, <2>2, <2>3, <2>4, <2>5
<1>2. CASE CloseOverflowing
  BY <1>2 DEF CloseOverflowing
<1>3. CASE Drain
  <2>1. drained + 1 \in 1 .. Last
    BY <1>3 DEF Drain, QueueLength
  <2>2. owed' \in 0 .. Batch - 1 /\ owed_credit' \in {0, Batch}
    BY <1>3, <2>1, LedgerType DEF Drain
  <2>3. drained' \in 0 .. queued'
    BY <1>3 DEF Drain, QueueLength
  <2>4. QED
    BY <1>3, <2>2, <2>3 DEF Drain
<1>4. CASE ObserveEnd
  BY <1>4 DEF ObserveEnd
<1>5. CASE ReturnCredit
  BY <1>5 DEF ReturnCredit
<1>6. CASE SendReady
  BY <1>6 DEF SendReady
<1>7. CASE GrantWithoutDraining
  BY <1>7 DEF GrantWithoutDraining
<1>8. QED
  BY <1>1, <1>2, <1>3, <1>4, <1>5, <1>6, <1>7

LEMMA EnvironmentStepType ==
  ASSUME TypeOK, Stop \/ Fail \/ CloseSlot \/ Abandon \/ UNCHANGED creditVars
  PROVE  TypeOK'
<1> USE DEF TypeOK, senderVars, readerVars, leaseVars, consumerVars, grantVars
<1>1. CASE Stop
  BY <1>1 DEF Stop
<1>2. CASE Fail
  BY <1>2 DEF Fail
<1>3. CASE CloseSlot
  BY <1>3 DEF CloseSlot
<1>4. CASE Abandon
  BY <1>4 DEF Abandon
<1>5. CASE UNCHANGED creditVars
  BY <1>5 DEF creditVars
<1>6. QED
  BY <1>1, <1>2, <1>3, <1>4, <1>5

LEMMA StepType == TypeOK /\ [CreditNext]_creditVars => TypeOK'
  BY SenderStepType, ReceiverStepType, EnvironmentStepType
  DEF CreditNext, DataPath, Misbehave, Environment

\* Every reachable state of a credited stream is well formed: the counters stay
\* in order (drained <= queued <= arrived <= sent) and every balance in range.
THEOREM CreditTypeCorrect == CreditSpec => []TypeOK
<1>1. CreditInit => TypeOK
  BY CreditInitType
<1>2. QED
  BY <1>1, StepType, PTL DEF CreditSpec

-----------------------------------------------------------------------------

\* Whether the peers keep to the protocol does not change.
LEMMA PeersStay == [CreditNext]_creditVars => rogue' = rogue
  BY DEF CreditNext, DataPath, Misbehave, Environment, creditVars, Acquire, Enqueue,
         ApplyGrant, ApplyReady, Deliver, CloseOverflowing, Drain, ObserveEnd,
         ReturnCredit, SendReady, SendWithoutCredit, GrantWithoutDraining, Stop, Fail,
         CloseSlot, CloseGate, Abandon

\* A stream that outran its credit has its fault, lost its last frame and is not
\* routed again, and its consumer has not ended otherwise than by the fault.
Outrun ==
  /\ ready = "unsent" => sent = 0
  /\ (overflow \/ violated) =>
       /\ fault /\ queued < Last /\ ready # "unsent"
       /\ overflow \/ ~slot
       /\ consumer \notin {"complete", "stopped"}

LEMMA StepOutrun ==
  ASSUME TypeOK, Outrun, [CreditNext]_creditVars
  PROVE  Outrun'
<1> USE DEF Outrun, senderVars, readerVars, leaseVars, consumerVars, grantVars
<1>1. CASE Deliver
  <2>1. /\ arrived \in Nat /\ arrived < Last /\ sent # 0
        /\ queued \in Nat /\ queued <= arrived
    BY <1>1, CreditAssumption DEF Deliver, TypeOK
  <2>2. CASE overflow' = overflow
    <3>1. ~overflow
      BY <1>1 DEF Deliver
    <3>2. CASE violated
      <4>1. ~slot /\ UNCHANGED <<queued, fault>>
        BY <1>1, <3>1, <3>2 DEF Deliver
      <4>2. QED
        BY <1>1, <2>2, <4>1 DEF Deliver
    <3>3. QED
      BY <1>1, <2>2, <3>1, <3>2 DEF Deliver
  <2>3. CASE overflow' # overflow
    <3>1. fault' = TRUE /\ queued' = queued /\ consumer = "reading"
      BY <1>1, <2>3 DEF Deliver
    <3>2. overflow'
      BY <1>1, <2>3 DEF Deliver
    <3>3. queued' < Last
      BY <2>1, <3>1, CreditAssumption
    <3>4. QED
      BY <1>1, <2>1, <3>1, <3>2, <3>3 DEF Deliver
  <2>4. QED
    BY <2>2, <2>3
<1>2. CASE CloseOverflowing
  BY <1>2 DEF CloseOverflowing
<1>3. CASE Drain
  <2>1. queued < Last => drained + 1 # Last
    BY <1>3, CreditAssumption DEF Drain, QueueLength, TypeOK
  <2>2. QED
    BY <1>3, <2>1 DEF Drain
<1>4. CASE ObserveEnd
  BY <1>4 DEF ObserveEnd
<1>5. CASE SendReady
  BY <1>5 DEF SendReady
<1>6. CASE Enqueue \/ SendWithoutCredit \/ ApplyReady
  BY <1>6 DEF Enqueue, SendWithoutCredit, ApplyReady
<1>7. CASE Abandon \/ Stop \/ Fail \/ CloseSlot
  BY <1>7 DEF Abandon, Stop, Fail, CloseSlot
<1>8. CASE Acquire \/ CloseGate \/ ApplyGrant \/ ReturnCredit
             \/ GrantWithoutDraining \/ UNCHANGED creditVars
  BY <1>8 DEF Acquire, CloseGate, ApplyGrant, ReturnCredit,
              GrantWithoutDraining, creditVars
<1>9. QED
  BY <1>1, <1>2, <1>3, <1>4, <1>5, <1>6, <1>7, <1>8
  DEF CreditNext, DataPath, Misbehave, Environment

\* A stream whose sender outran its credit never looks complete or merely stopped
\* to its consumer, for every window and length of the stream, whatever the peers
\* and the owner of the stream do.
THEOREM OverflowAlwaysTold == CreditSpec => []OverflowIsTold
<1>1. CreditInit => Outrun
  BY DEF CreditInit, Outrun
<1>2. TypeOK /\ Outrun /\ [CreditNext]_creditVars => Outrun'
  BY StepOutrun
<1>3. Outrun => OverflowIsTold
  BY DEF Outrun, OverflowIsTold
<1>4. QED
  BY <1>1, <1>2, <1>3, CreditTypeCorrect, PTL DEF CreditSpec

-----------------------------------------------------------------------------
(* Conservation of credit between honest peers *)

LEMMA ConservedInit == CreditInit => CreditConserved
  BY CreditAssumption
  DEF CreditInit, CreditConserved, Outstanding, Returning, DataFrames,
      GrantsInFlight, Ungranted

\* One frame of credit leaves the gate and becomes outstanding.
LEMMA ConservedSender ==
  ASSUME Honest, TypeOK, CreditConserved, Acquire \/ Enqueue \/ CloseGate
  PROVE  CreditConserved'
<1> USE CreditAssumption
    DEF TypeOK, CreditConserved, Outstanding, Returning, DataFrames,
        GrantsInFlight, Ungranted, readerVars, leaseVars, consumerVars, grantVars
<1>1. CASE Acquire
  BY <1>1 DEF Acquire
<1>2. CASE Enqueue
  BY <1>2 DEF Enqueue, ConsumesCredit
<1>3. CASE CloseGate
  BY <1>3 DEF CloseGate
<1>4. QED
  BY <1>1, <1>2, <1>3

\* A grant between honest peers is never clamped, so nothing of it is lost.
LEMMA ConservedGrant ==
  ASSUME Honest, TypeOK, CreditConserved, ApplyGrant \/ ApplyReady
  PROVE  CreditConserved'
<1> USE CreditAssumption
    DEF TypeOK, CreditConserved, Outstanding, Returning, DataFrames,
        GrantsInFlight, Ungranted, readerVars, leaseVars, consumerVars, grantVars
<1>0. Outstanding \in Nat
  BY DEF Outstanding
<1>1. CASE ApplyGrant
  <2>1. Batch * grants = Batch * grants' + Batch
    BY <1>1 DEF ApplyGrant
  <2>2. Batch * grants' \in Nat
    BY <1>1 DEF ApplyGrant
  <2>3. permits + Batch <= Window
    BY <1>0, <1>1, <2>1, <2>2 DEF ApplyGrant
  <2>4. permits' = IF closed THEN permits ELSE permits + Batch
    BY <1>1, <2>3 DEF ApplyGrant, Granted
  <2>5. QED
    BY <1>1, <2>1, <2>2, <2>4 DEF ApplyGrant
<1>2. CASE ApplyReady
  <2>1. Batch * grants \in Nat
    OBVIOUS
  <2>2. permits + Window <= Window
    BY <1>0, <1>2, <2>1 DEF ApplyReady
  <2>3. permits' = IF closed THEN permits ELSE permits + Window
    BY <1>2, <2>2 DEF ApplyReady, Granted
  <2>4. QED
    BY <1>2, <2>1, <2>3 DEF ApplyReady
<1>3. QED
  BY <1>1, <1>2

\* A drained data frame moves from outstanding to owed.
LEMMA ConservedDrain ==
  ASSUME Honest, TypeOK, CreditConserved, Drain
  PROVE  CreditConserved'
<1>1. /\ drained + 1 \in 1 .. Last /\ drained' = drained + 1 /\ owed_credit = 0
      /\ drained + 1 <= sent
  BY CreditAssumption DEF TypeOK, Drain, QueueLength
<1>2. /\ permits' = permits /\ closed' = closed /\ held' = held
      /\ sent' = sent /\ grants' = grants /\ ready' = ready
  BY DEF Drain, senderVars, grantVars
<1>3. GrantsInFlight' = GrantsInFlight /\ GrantsInFlight \in Int
  BY <1>2, CreditAssumption DEF TypeOK, GrantsInFlight
<1> USE CreditAssumption DEF TypeOK, CreditConserved, Honest
<1>4. CASE drained + 1 = Last
  <2>1. owed' = owed /\ owed_credit' = 0
    BY <1>1, <1>4 DEF Drain, Ledger, ConsumesCredit
  <2>2. sent = Last
    BY <1>1, <1>4
  <2>3. Outstanding' = Outstanding
    BY <1>1, <1>2, <1>4, <2>2 DEF Outstanding, DataFrames
  <2>4. Returning' = Returning
    BY <1>1, <1>2, <1>3, <2>1 DEF Returning, Ungranted
  <2>5. QED
    BY <1>2, <2>3, <2>4
<1>5. CASE drained + 1 # Last
  <2>1. \/ owed' = owed + 1 /\ owed_credit' = 0
        \/ owed' = 0 /\ owed_credit' = owed + 1
    BY <1>1, <1>5 DEF Drain, Ledger, ConsumesCredit
  <2>2. Outstanding' = Outstanding - 1 /\ Outstanding \in Int
    BY <1>1, <1>2, <1>5 DEF Outstanding, DataFrames
  <2>3. Ungranted' = Ungranted /\ Ungranted \in Int
    BY <1>2 DEF Ungranted
  <2>4. Returning' = Returning + 1 /\ Returning \in Int
    <3>1. owed \in Int
      OBVIOUS
    <3> HIDE CreditAssumption DEF TypeOK, CreditConserved, Honest
    <3>2. CASE owed' = owed + 1 /\ owed_credit' = 0
      BY <1>1, <1>3, <2>3, <3>1, <3>2 DEF Returning
    <3>3. CASE owed' = 0 /\ owed_credit' = owed + 1
      BY <1>1, <1>3, <2>3, <3>1, <3>3 DEF Returning
    <3>4. QED
      BY <2>1, <3>2, <3>3
  <2>5. permits' + Outstanding' + Returning' = permits + Outstanding + Returning
    BY <1>2, <2>2, <2>4
  <2>6. QED
    BY <1>2, <2>5
<1>6. QED
  BY <1>4, <1>5

\* A batch owed becomes a grant in flight.
LEMMA ConservedReturn ==
  ASSUME Honest, TypeOK, CreditConserved, ReturnCredit \/ SendReady
  PROVE  CreditConserved'
<1> USE CreditAssumption
    DEF TypeOK, CreditConserved, Outstanding, Returning, DataFrames,
        GrantsInFlight, Ungranted, senderVars, readerVars, leaseVars, consumerVars, grantVars
<1>1. CASE ReturnCredit
  <2>1. Batch * grants' = Batch * grants + Batch /\ Batch * grants \in Nat
    BY <1>1 DEF ReturnCredit
  <2>2. owed_credit = Batch /\ owed_credit' = 0
    BY <1>1 DEF ReturnCredit
  <2>3. QED
    BY <1>1, <2>1, <2>2 DEF ReturnCredit
<1>2. CASE SendReady
  BY <1>2 DEF SendReady
<1>3. QED
  BY <1>1, <1>2

LEMMA StepConserved ==
  ASSUME TypeOK, CreditConserved, [CreditNext]_creditVars
  PROVE  CreditConserved'
<1>1. CASE ~Honest
  BY <1>1, PeersStay DEF CreditConserved, Honest
<1>2. CASE Honest /\ (Deliver \/ CloseOverflowing \/ ObserveEnd \/ Stop \/ Fail
                        \/ CloseSlot \/ Abandon \/ UNCHANGED creditVars)
  <2>1. UNCHANGED <<permits, closed, held, sent, drained, owed, owed_credit, grants, ready>>
    BY <1>2 DEF Deliver, CloseOverflowing, ObserveEnd, Stop, Fail, CloseSlot,
                Abandon, creditVars, senderVars, readerVars, leaseVars,
                consumerVars, grantVars
  <2>2. QED
    BY <1>2, <2>1 DEF CreditConserved, Outstanding, Returning, DataFrames,
                GrantsInFlight, Ungranted
<1>3. CASE Honest /\ (SendWithoutCredit \/ GrantWithoutDraining)
  BY <1>3 DEF Honest, SendWithoutCredit, GrantWithoutDraining
<1>4. QED
  BY <1>1, <1>2, <1>3, ConservedSender, ConservedGrant, ConservedDrain,
     ConservedReturn
  DEF CreditNext, DataPath, Misbehave, Environment

\* Credit is neither lost nor invented between honest peers, for every window,
\* batch and length of the stream.
THEOREM CreditAlwaysConserved == CreditSpec => []CreditConserved
<1>1. QED
  BY ConservedInit, StepConserved, CreditTypeCorrect, PTL DEF CreditSpec

-----------------------------------------------------------------------------

\* With credit conserved a frame on its way always has room in the queue: the
\* queued frames are data frames the sender spent credit for.
LEMMA RoomForEveryFrame ==
  ASSUME Honest, TypeOK, CreditConserved, arrived < sent
  PROVE  QueueLength < ReceiveQueueFrames
<1> USE CreditAssumption DEF TypeOK
<1>1. CASE drained = queued
  BY <1>1 DEF QueueLength, ReceiveQueueFrames
<1>2. CASE drained < queued
  <2>1. DataFrames(sent) >= queued /\ DataFrames(drained) = drained
    BY <1>2 DEF DataFrames
  <2>2. Returning \in Nat /\ Batch * grants \in Nat
    BY DEF Returning, GrantsInFlight, Ungranted
  <2>3. Outstanding <= Window
    BY <2>1, <2>2 DEF CreditConserved, Outstanding, DataFrames
  <2>4. queued - drained <= Window
    BY <2>1, <2>3 DEF Outstanding, DataFrames
  <2>5. QED
    BY <2>4 DEF QueueLength, ReceiveQueueFrames
<1>3. QED
  BY <1>1, <1>2

LEMMA StepNoViolation ==
  ASSUME TypeOK, CreditConserved, NoHonestViolation, [CreditNext]_creditVars
  PROVE  NoHonestViolation'
<1> USE DEF NoHonestViolation
<1>1. CASE ~Honest
  BY <1>1, PeersStay DEF Honest
<1>2. CASE Honest /\ Deliver
  BY <1>2, RoomForEveryFrame DEF Deliver, Honest
<1>3. CASE Honest /\ CloseOverflowing
  BY <1>3 DEF CloseOverflowing
<1>4. CASE UNCHANGED <<overflow, violated>>
  BY <1>4, PeersStay DEF Honest
<1>5. Deliver \/ CloseOverflowing \/ UNCHANGED <<overflow, violated>>
  BY DEF CreditNext, DataPath, Misbehave, Environment, creditVars, readerVars,
         Acquire, Enqueue, ApplyGrant, ApplyReady, Drain, ObserveEnd,
         ReturnCredit, SendReady, SendWithoutCredit, GrantWithoutDraining,
         Stop, Fail, CloseSlot, CloseGate, Abandon
<1>6. QED
  BY <1>1, <1>2, <1>3, <1>4, <1>5

\* No interleaving makes an honest peer violate its credit: a full window plus
\* FIN always fits the receive queue.
THEOREM HonestNeverViolates == CreditSpec => []NoHonestViolation
<1>1. CreditInit => NoHonestViolation
  BY DEF CreditInit, NoHonestViolation
<1>2. QED
  BY <1>1, StepNoViolation, CreditTypeCorrect, CreditAlwaysConserved, PTL
  DEF CreditSpec

\* The ledger never holds back a whole window, so a drained receiver always
\* leaves the sender credit.
THEOREM DrainedNeverStarves == CreditSpec => []DrainedReceiverNeverStarves
<1>1. TypeOK /\ CreditConserved => DrainedReceiverNeverStarves
  <2> SUFFICES ASSUME TypeOK, CreditConserved, Honest, ~closed, ready = "applied",
                      Outstanding = 0, owed_credit = 0, grants = 0
               PROVE  permits > 0
    BY DEF DrainedReceiverNeverStarves
  <2>1. permits + owed = Window
    BY CreditAssumption DEF TypeOK, CreditConserved, Returning, GrantsInFlight, Ungranted
  <2>2. QED
    BY <2>1, CreditAssumption DEF TypeOK
<1>2. QED
  BY <1>1, CreditTypeCorrect, CreditAlwaysConserved, PTL
=============================================================================
