------------------------ MODULE ManagedDeviceProofs ------------------------
(***************************************************************************)
(* A Stop is kept, whatever requests, hellos, late reports and failures    *)
(* come after it, and the router and the supervisor agree on the device's  *)
(* connection whenever nothing is on its way between them, for any number  *)
(* of connections and events.                                              *)
(***************************************************************************)
EXTENDS ManagedDevice, SequenceTheorems, TLAPS

Commands ==
  [op : {"start", "stop", "retry", "restart"} \cup SocketCommands, arg : Nat, gen : Nat]

\* What the proof needs to know of types.
Typed ==
  /\ mailbox \in Seq(Commands)
  /\ generation \in Nat /\ calls \in Nat /\ projected \in Nat

Wakes == {"start", "retry"}

Queued(s, ops) == \E i \in DOMAIN s : s[i].op \in ops

\* Whatever would start the device is followed by a Stop.
StopIsLast(s) ==
  \A i \in DOMAIN s : s[i].op \in Wakes => \E j \in DOMAIN s : j > i /\ s[j].op = "stop"

\* The device is stopped for the snapshot, and for the router as soon as it hears.
Halted ==
  /\ ~desired /\ Ends(status) /\ socket = None
  /\ live # None => projected > 0

Resting == {"idle", "halting", "stopping"}

\* A supervisor that rests has halted the device unless it is about to be woken.
\* After the last Stop nothing is queued that wakes it, and it rests.
StopInvariant ==
  /\ phase \in Resting /\ ~Queued(mailbox, Wakes) => Halted
  /\ intent = "stop" => StopIsLast(mailbox)
  /\ intent = "stop" /\ ~Queued(mailbox, {"stop"}) =>
       phase \in Resting \/ (phase = "clear" /\ Halted)

-----------------------------------------------------------------------------
(* The mailbox *)

\* What taking the head of a mailbox does to what is queued.
LEMMA TakenCommand ==
  ASSUME NEW s \in Seq(Commands), s # <<>>
  PROVE  /\ Tail(s) \in Seq(Commands) /\ Head(s) \in Commands
         /\ \A ops : Queued(s, ops) <=> Head(s).op \in ops \/ Queued(Tail(s), ops)
         /\ StopIsLast(s) => StopIsLast(Tail(s))
         /\ StopIsLast(s) /\ Head(s).op \in Wakes => Queued(Tail(s), {"stop"})
<1>1. /\ Tail(s) \in Seq(Commands) /\ Head(s) = s[1] /\ 1 \in DOMAIN s /\ Head(s) \in Commands
      /\ \A i \in DOMAIN Tail(s) : i \in Nat /\ i + 1 \in DOMAIN s /\ Tail(s)[i] = s[i + 1]
      /\ \A i \in DOMAIN s : i \in Nat /\ i >= 1 /\
           (i > 1 => i - 1 \in DOMAIN Tail(s) /\ Tail(s)[i - 1] = s[i])
  OBVIOUS
<1>2. ASSUME NEW ops PROVE Queued(s, ops) <=> Head(s).op \in ops \/ Queued(Tail(s), ops)
  <2>1. ASSUME Queued(s, ops) PROVE Head(s).op \in ops \/ Queued(Tail(s), ops)
    <3>1. PICK i \in DOMAIN s : s[i].op \in ops
      BY <2>1 DEF Queued
    <3>2. i = 1 \/ i > 1
      BY <1>1
    <3>3. QED
      BY <1>1, <3>1, <3>2 DEF Queued
  <2>2. QED
    BY <1>1, <2>1 DEF Queued
<1>3. ASSUME StopIsLast(s), NEW i \in DOMAIN Tail(s), Tail(s)[i].op \in Wakes
      PROVE \E j \in DOMAIN Tail(s) : j > i /\ Tail(s)[j].op = "stop"
  <2>1. PICK j \in DOMAIN s : j > i + 1 /\ s[j].op = "stop"
    BY <1>1, <1>3 DEF StopIsLast
  <2>2. j - 1 \in DOMAIN Tail(s) /\ Tail(s)[j - 1] = s[j] /\ j - 1 > i
    BY <1>1, <2>1
  <2>3. QED
    BY <2>1, <2>2
<1>4. ASSUME StopIsLast(s), Head(s).op \in Wakes PROVE Queued(Tail(s), {"stop"})
  <2>1. PICK j \in DOMAIN s : j > 1 /\ s[j].op = "stop"
    BY <1>1, <1>4 DEF StopIsLast
  <2>2. QED
    BY <1>1, <2>1 DEF Queued
<1>5. QED
  BY <1>1, <1>2, <1>3, <1>4 DEF StopIsLast

\* What queueing a command does.
LEMMA QueuedCommand ==
  ASSUME NEW s \in Seq(Commands), NEW c \in Commands
  PROVE  /\ Append(s, c) \in Seq(Commands)
         /\ \A ops : Queued(Append(s, c), ops) <=> Queued(s, ops) \/ c.op \in ops
         /\ StopIsLast(s) /\ c.op \notin Wakes => StopIsLast(Append(s, c))
         /\ c.op = "stop" => StopIsLast(Append(s, c))
<1>1. /\ Append(s, c) \in Seq(Commands)
      /\ Len(s) + 1 \in DOMAIN Append(s, c) /\ Append(s, c)[Len(s) + 1] = c
      /\ \A i \in DOMAIN s : i \in DOMAIN Append(s, c) /\ Append(s, c)[i] = s[i] /\ i < Len(s) + 1
      /\ \A i \in DOMAIN Append(s, c) : i \in DOMAIN s \/ i = Len(s) + 1
  OBVIOUS
<1>2. \A ops : Queued(Append(s, c), ops) <=> Queued(s, ops) \/ c.op \in ops
  BY <1>1 DEF Queued
<1>3. ASSUME StopIsLast(s), c.op \notin Wakes PROVE StopIsLast(Append(s, c))
  BY <1>1, <1>3 DEF StopIsLast
<1>4. ASSUME c.op = "stop" PROVE StopIsLast(Append(s, c))
  BY <1>1, <1>4 DEF StopIsLast, Wakes
<1>5. QED
  BY <1>1, <1>2, <1>3, <1>4

-----------------------------------------------------------------------------
(* Types *)

\* What the mailbox may become.
Received ==
  \/ mailbox' = mailbox
  \/ mailbox # <<>> /\ mailbox' = Tail(mailbox)
  \/ \E c \in Commands : mailbox' = Append(mailbox, c)
  \/ \E c, d \in Commands : mailbox' = Append(Append(mailbox, c), d)

\* Each command is well formed.
LEMMA CommandTyped ==
  ASSUME NEW op \in {"start", "stop", "retry", "restart"} \cup SocketCommands,
         NEW arg \in Nat, NEW gen \in Nat
  PROVE  /\ Command(op, arg, gen) \in Commands
         /\ Command(op, arg, gen).op = op
  BY DEF Command, Commands

\* The mailbox stays one whatever is taken or queued.
LEMMA ReceivedTyped == Typed /\ Received => mailbox' \in Seq(Commands)
<1>1. ASSUME Typed, Received PROVE mailbox' \in Seq(Commands)
  <2>1. mailbox \in Seq(Commands)
    BY <1>1 DEF Typed
  <2>2. CASE mailbox' = mailbox
    BY <2>1, <2>2
  <2>3. CASE mailbox # <<>> /\ mailbox' = Tail(mailbox)
    BY <2>1, <2>3, TakenCommand
  <2>4. CASE \E c \in Commands : mailbox' = Append(mailbox, c)
    BY <2>1, <2>4, QueuedCommand
  <2>5. CASE \E c, d \in Commands : mailbox' = Append(Append(mailbox, c), d)
    <3>1. PICK c \in Commands, d \in Commands : mailbox' = Append(Append(mailbox, c), d)
      BY <2>5
    <3>2. Append(mailbox, c) \in Seq(Commands)
      BY <2>1, QueuedCommand
    <3>3. QED
      BY <3>1, <3>2, QueuedCommand
  <2>6. QED
    BY <1>1, <2>2, <2>3, <2>4, <2>5 DEF Received
<1>2. QED
  BY <1>1

\* A publication counts at most one more.
LEMMA PublishTyped ==
  ASSUME Typed, NEW w, NEW state, NEW s, Publish(w, state, s)
  PROVE  projected' \in Nat /\ projected' >= projected
         /\ (Ends(state) => projected' > 0)
  BY DEF Typed, Publish

-----------------------------------------------------------------------------
(* What a step may be to a Stop *)

KeepsHalted == Halted => Halted'

TakesOne == mailbox # <<>> /\ mailbox' = Tail(mailbox)

\* Nothing the invariant speaks of but the snapshot, left halted if it was.
Stays == UNCHANGED <<mailbox, phase, intent>> /\ KeepsHalted

\* A command that wakes nobody is queued.
Queues ==
  /\ \E c \in Commands : c.op \notin Wakes /\ mailbox' = Append(mailbox, c)
  /\ UNCHANGED <<phase, intent>> /\ KeepsHalted

\* The same of two commands.
QueuesBoth ==
  /\ \E c, d \in Commands : c.op \notin Wakes /\ d.op \notin Wakes
                              /\ mailbox' = Append(Append(mailbox, c), d)
  /\ UNCHANGED <<phase, intent>> /\ KeepsHalted

\* Somebody asks for a Stop.
AsksToStop ==
  /\ \E c \in Commands : c.op = "stop" /\ mailbox' = Append(mailbox, c)
  /\ UNCHANGED phase /\ KeepsHalted

\* Somebody asks for a run.
AsksToRun == intent' = "run" /\ Queued(mailbox', Wakes)

\* The supervisor works, and takes no Stop.
Works ==
  /\ phase \notin Resting \cup {"clear"} /\ phase' \notin Resting
  /\ mailbox' = mailbox \/ (TakesOne /\ Head(mailbox).op # "stop")
  /\ UNCHANGED intent

\* It comes to rest, or is about to, with the device halted.
Halts ==
  /\ Halted' /\ phase' \in Resting \cup {"clear"}
  /\ mailbox' = mailbox \/ TakesOne
  /\ UNCHANGED intent

\* It is woken.
Woken ==
  /\ phase' \notin Resting
  /\ TakesOne /\ Head(mailbox).op \in Wakes
  /\ UNCHANGED intent

\* It rests on.
RestsOn ==
  /\ phase \in Resting /\ phase' \in Resting
  /\ TakesOne /\ Head(mailbox).op \notin Wakes
  /\ UNCHANGED intent /\ KeepsHalted

Move ==
  Stays \/ Queues \/ QueuesBoth \/ AsksToStop \/ AsksToRun \/ Works \/ Halts \/ Woken \/ RestsOn

\* Every kind of step preserves the invariant.
LEMMA MoveKeepsStop ==
  ASSUME Typed, StopInvariant, Move
  PROVE  StopInvariant'
<1> USE DEF KeepsHalted
<1>0. mailbox \in Seq(Commands)
  BY DEF Typed
<1>1. CASE Stays
  BY <1>1 DEF Stays, StopInvariant, Resting, Wakes, Queued, StopIsLast
<1>2. CASE Queues
  <2>1. PICK c \in Commands : c.op \notin Wakes /\ mailbox' = Append(mailbox, c)
    BY <1>2 DEF Queues
  <2>2. /\ \A ops : Queued(mailbox, ops) => Queued(mailbox', ops)
        /\ StopIsLast(mailbox) => StopIsLast(mailbox')
    BY <1>0, <2>1, QueuedCommand
  <2>3. QED
    BY <1>2, <2>2 DEF Queues, StopInvariant
<1>3. CASE QueuesBoth
  <2>1. PICK c \in Commands, d \in Commands :
          c.op \notin Wakes /\ d.op \notin Wakes /\ mailbox' = Append(Append(mailbox, c), d)
    BY <1>3 DEF QueuesBoth
  <2>2. /\ Append(mailbox, c) \in Seq(Commands)
        /\ \A ops : Queued(mailbox, ops) => Queued(Append(mailbox, c), ops)
        /\ StopIsLast(mailbox) => StopIsLast(Append(mailbox, c))
    BY <1>0, <2>1, QueuedCommand
  <2>3. /\ \A ops : Queued(Append(mailbox, c), ops) => Queued(mailbox', ops)
        /\ StopIsLast(Append(mailbox, c)) => StopIsLast(mailbox')
    BY <2>1, <2>2, QueuedCommand
  <2>4. QED
    BY <1>3, <2>2, <2>3 DEF QueuesBoth, StopInvariant
<1>4. CASE AsksToStop
  <2>1. PICK c \in Commands : c.op = "stop" /\ mailbox' = Append(mailbox, c)
    BY <1>4 DEF AsksToStop
  <2>2. /\ \A ops : Queued(mailbox, ops) => Queued(mailbox', ops)
        /\ StopIsLast(mailbox') /\ Queued(mailbox', {"stop"})
    BY <1>0, <2>1, QueuedCommand
  <2>3. QED
    BY <1>4, <2>2 DEF AsksToStop, StopInvariant
<1>5. CASE AsksToRun
  BY <1>5 DEF AsksToRun, StopInvariant
<1>6. ASSUME TakesOne
      PROVE  /\ \A ops : Queued(mailbox, ops) <=> Head(mailbox).op \in ops \/ Queued(mailbox', ops)
             /\ StopIsLast(mailbox) => StopIsLast(mailbox')
             /\ StopIsLast(mailbox) /\ Head(mailbox).op \in Wakes => Queued(mailbox', {"stop"})
  <2>1. mailbox # <<>> /\ mailbox' = Tail(mailbox)
    BY <1>6 DEF TakesOne
  <2>2. QED
    BY <1>0, <2>1, TakenCommand
<1>7. CASE Works
  <2>1. /\ Queued(mailbox, {"stop"}) => Queued(mailbox', {"stop"})
        /\ StopIsLast(mailbox) => StopIsLast(mailbox')
    BY <1>6, <1>7 DEF Works
  <2>2. QED
    BY <1>7, <2>1 DEF Works, StopInvariant
<1>8. CASE Halts
  <2>1. StopIsLast(mailbox) => StopIsLast(mailbox')
    BY <1>6, <1>8 DEF Halts
  <2>2. QED
    BY <1>8, <2>1 DEF Halts, StopInvariant
<1>9. CASE Woken
  <2>1. /\ StopIsLast(mailbox) => StopIsLast(mailbox')
        /\ StopIsLast(mailbox) => Queued(mailbox', {"stop"})
    BY <1>6, <1>9 DEF Woken
  <2>2. QED
    BY <1>9, <2>1 DEF Woken, StopInvariant
<1>10. CASE RestsOn
  <2>1. /\ Queued(mailbox, Wakes) => Queued(mailbox', Wakes)
        /\ StopIsLast(mailbox) => StopIsLast(mailbox')
    BY <1>6, <1>10 DEF RestsOn
  <2>2. QED
    BY <1>10, <2>1 DEF RestsOn, StopInvariant
<1>11. QED
  BY <1>1, <1>2, <1>3, <1>4, <1>5, <1>7, <1>8, <1>9, <1>10 DEF Move

-----------------------------------------------------------------------------
(* Every step is one of these *)

Lawful ==
  /\ Received /\ Move
  /\ generation' \in Nat /\ calls' \in Nat /\ projected' \in Nat

\* Neither the snapshot nor a command: the router may only lose its connection.
Aside ==
  /\ UNCHANGED <<mailbox, phase, intent, generation, calls, desired, status, socket>>
  /\ projected' \in Nat
  /\ UNCHANGED <<live, projected>> \/ live' = None

\* Such a step is lawful.
LEMMA AsideIsLawful == Typed /\ Aside => Lawful
<1>1. ASSUME Typed, Aside PROVE Lawful
  <2>1. Halted => Halted'
    BY <1>1 DEF Aside, Halted
  <2>2. Stays
    BY <1>1, <2>1 DEF Aside, Stays, KeepsHalted
  <2>3. QED
    BY <1>1, <2>2 DEF Aside, Lawful, Move, Received, Typed
<1>2. QED
  BY <1>1

\* The device, the projection and the handlers' calls of the router never touch
\* the snapshot.
LEMMA OthersAreAside ==
  ASSUME Typed
  PROVE  /\ HandlerStep \/ ProjectionArrives \/ TroubleStep => Aside
         /\ DaemonStep \/ EnsureStep \/ LeftoverStep \/ JobStops \/ ChildEnds => Aside
         /\ \A s \in Sockets : RouterSupersedes(s) => Aside
         /\ UNCHANGED vars => Aside
<1> USE DEF Typed, vars, snapshotVars, handleVars, supervisorVars, deviceVars, routerVars,
            callerVars, deviceRest, ensureRest, Aside
<1>1. HandlerReads => Aside
  BY DEF HandlerReads
<1>2. HandlerProjects => Aside
  BY DEF HandlerProjects, EndConnection
<1>3. HandlerEvicts => Aside
  BY DEF HandlerEvicts, EndConnection
<1>4. ProjectionArrives => Aside
  BY DEF ProjectionArrives, EndConnection
<1>5. HandlerTimesOut => Aside
  BY DEF HandlerTimesOut, Trouble
<1>6. LinkBreaks \/ DaemonDies \/ DaemonWedges => Aside
  BY DEF LinkBreaks, DaemonDies, DaemonWedges, Trouble
<1>7. JobFails \/ EnsureFails => Aside
  BY DEF JobFails, EnsureFails, Trouble
<1>8. (\E s \in Sockets : DaemonConnects(s)) \/ DaemonHears \/ DaemonNotices => Aside
  BY DEF DaemonConnects, DaemonHears, DaemonNotices
<1>9. EnsureStep \/ LeftoverStep => Aside
  BY DEF EnsureStep, EnsureSends, EnsureDecides, EnsureStarts, LeftoverStep, LeftoverDecides,
         LeftoverStarts, LeftoverStops, leftoverRest
<1>10. JobStops \/ ChildEnds => Aside
  BY DEF JobStops, ChildEnds
<1>11. ASSUME NEW s \in Sockets, RouterSupersedes(s) PROVE Aside
  BY <1>11 DEF RouterSupersedes
<1>12. UNCHANGED vars => Aside
  OBVIOUS
<1> USE <1>1, <1>2, <1>3, <1>4, <1>5, <1>6, <1>7, <1>8, <1>9, <1>10, <1>11, <1>12
<1> HIDE DEF Typed, vars, Aside
<1>13. QED
  BY DEF HandlerStep, TroubleStep, DaemonStep

-----------------------------------------------------------------------------
(* Requests *)

\* A request queues its command, and only a Stop of a stopped device leaves it
\* as it is.
LEMMA CallsAreLawful == Typed /\ CallStep => Lawful
<1> USE DEF Typed, snapshotVars, handleVars, supervisorVars, deviceVars, routerVars
<1>0. ASSUME Typed PROVE calls \in Nat /\ calls + 1 \in Nat /\ None \in Nat /\ 0 \in Nat
                          /\ generation + 1 \in Nat
  BY <1>0 DEF None
<1>1. ASSUME Typed, CallStart PROVE Lawful
  <2> DEFINE c == Command("start", None, 0)
  <2>1. c \in Commands /\ c.op = "start"
    BY <1>0, <1>1, CommandTyped
  <2>2. mailbox' = Append(mailbox, c) /\ intent' = "run" /\ calls' \in Nat
    BY <1>0, <1>1 DEF CallStart, Queue
  <2>3. projected' \in Nat /\ generation' \in Nat
    BY <1>0, <1>1 DEF CallStart, Unpublished, quiet, NewAttempt, Publish
  <2> HIDE DEF c
  <2>4. Queued(mailbox', Wakes)
    BY <1>1, <2>1, <2>2, QueuedCommand DEF Wakes
  <2>5. QED
    BY <2>1, <2>2, <2>3, <2>4 DEF Lawful, Received, Move, AsksToRun
<1>2. ASSUME Typed, CallStop PROVE Lawful
  <2> DEFINE c == Command("stop", calls + 1, 0)
  <2>1. c \in Commands /\ c.op = "stop"
    BY <1>0, <1>2, CommandTyped
  <2>2. mailbox' = Append(mailbox, c) /\ UNCHANGED <<phase, status, socket, projected, live>>
        /\ calls' \in Nat /\ generation' \in Nat /\ projected' \in Nat /\ desired' = FALSE
    BY <1>0, <1>2 DEF CallStop, Queue, NewAttempt
  <2> HIDE DEF c
  <2>3. Halted => Halted'
    BY <2>2 DEF Halted
  <2>4. QED
    BY <2>1, <2>2, <2>3 DEF Lawful, Received, Move, AsksToStop, KeepsHalted
<1>3. ASSUME Typed, CallRetry PROVE Lawful
  <2> DEFINE c == Command("retry", calls + 1, 0)
  <2>1. c \in Commands /\ c.op = "retry"
    BY <1>0, <1>3, CommandTyped
  <2>2. mailbox' = Append(mailbox, c) /\ intent' = "run" /\ calls' \in Nat
        /\ projected' \in Nat /\ generation' \in Nat
    BY <1>0, <1>3 DEF CallRetry, Queue, NewAttempt
  <2> HIDE DEF c
  <2>4. Queued(mailbox', Wakes)
    BY <1>3, <2>1, <2>2, QueuedCommand DEF Wakes
  <2>5. QED
    BY <2>1, <2>2, <2>4 DEF Lawful, Received, Move, AsksToRun
<1>4. ASSUME Typed, CallRestart PROVE Lawful
  <2> DEFINE c == Command("restart", None, 0)
  <2>1. c \in Commands /\ c.op = "restart"
    BY <1>0, <1>4, CommandTyped
  <2>2. mailbox' = Append(mailbox, c)
        /\ UNCHANGED <<phase, intent, desired, status, socket, projected, live, generation>>
        /\ calls' \in Nat /\ generation' \in Nat /\ projected' \in Nat
    BY <1>0, <1>4 DEF CallRestart, Queue
  <2> HIDE DEF c
  <2>3. Halted => Halted'
    BY <2>2 DEF Halted
  <2>4. c.op \notin Wakes
    BY <2>1 DEF Wakes
  <2>5. QED
    BY <2>1, <2>2, <2>3, <2>4 DEF Lawful, Received, Move, Queues, KeepsHalted
<1> HIDE DEF Typed
<1>5. QED
  BY <1>1, <1>2, <1>3, <1>4 DEF CallStep

-----------------------------------------------------------------------------
(* Connections *)

\* A socket's command may be queued.
AtMostReported ==
  \/ mailbox' = mailbox
  \/ \E c \in Commands : c.op \in SocketCommands /\ mailbox' = Append(mailbox, c)

\* The same, with the snapshot as it is and no connection registered of a halted
\* device.
Reports ==
  /\ AtMostReported
  /\ UNCHANGED <<phase, intent, generation, calls, desired, status, socket, projected>>
  /\ live' = live \/ live' = None \/ desired

\* Such a step is lawful.
LEMMA ReportsAreLawful == Typed /\ Reports => Lawful
<1>1. ASSUME Typed, Reports PROVE Lawful
  <2>1. Halted => Halted'
    BY <1>1 DEF Reports, Halted
  <2>2. CASE mailbox' = mailbox
    BY <1>1, <2>1, <2>2 DEF Reports, Lawful, Received, Move, Stays, KeepsHalted, Typed
  <2>3. CASE \E c \in Commands : c.op \in SocketCommands /\ mailbox' = Append(mailbox, c)
    <3>1. PICK c \in Commands : c.op \in SocketCommands /\ mailbox' = Append(mailbox, c)
      BY <2>3
    <3>2. c.op \notin Wakes
      BY <3>1 DEF SocketCommands, Wakes
    <3>3. Received /\ Queues
      BY <1>1, <2>1, <3>1, <3>2 DEF Reports, Received, Queues, KeepsHalted
    <3>4. QED
      BY <1>1, <3>3 DEF Reports, Lawful, Move, Typed
  <2>4. QED
    BY <1>1, <2>2, <2>3 DEF Reports, AtMostReported
<1>2. QED
  BY <1>1

\* A judged hello queues at most the command that it is connected.
LEMMA JudgeReports ==
  ASSUME Typed, NEW s \in Sockets, Judge(s)
  PROVE  AtMostReported
<1>1. /\ Command("connected", s, generation) \in Commands
      /\ Command("connected", s, generation).op = "connected"
  BY DeviceAssumption, CommandTyped DEF SocketCommands, Typed
<1>2. mailbox' = mailbox \/ mailbox' = Append(mailbox, Command("connected", s, generation))
  BY DEF Judge, Refuse, Queue
<1>3. QED
  BY <1>1, <1>2 DEF SocketCommands, AtMostReported

\* A connection registers for a device that is wanted, and an adoption is a
\* request to run.
LEMMA ConnectionsAreLawful ==
  ASSUME Typed, NEW s \in Sockets
  PROVE  SessionStep(s) \/ RouterRegisters(s) => Lawful
<1> USE DEF snapshotVars, handleVars, supervisorVars, deviceVars, routerVars, callerVars
<1>1. s \in Nat /\ 0 \in Nat
  BY DeviceAssumption
<1>2. /\ Command("disconnected", s, 0) \in Commands
      /\ Command("disconnected", s, 0).op = "disconnected"
      /\ Command("stale", s, 0) \in Commands
      /\ Command("stale", s, 0).op = "stale"
  BY <1>1, CommandTyped DEF SocketCommands
<1>3. ASSUME RouterRegisters(s) PROVE Lawful
  <2>1. mailbox' = mailbox \/ mailbox' = Append(mailbox, Command("disconnected", s, 0))
    BY <1>3 DEF RouterRegisters, Queue
  <2>2. UNCHANGED <<phase, intent, generation, calls, desired, status, socket, projected>>
        /\ (live' = live \/ live' = None \/ desired)
    BY <1>3 DEF RouterRegisters
  <2>3. Reports
    BY <1>2, <2>1, <2>2 DEF Reports, AtMostReported, SocketCommands
  <2>4. QED
    BY <2>3, ReportsAreLawful
<1>4. ASSUME SessionReadsHello(s) PROVE Lawful
  <2>1. AtMostReported
    BY <1>4, JudgeReports DEF SessionReadsHello, AtMostReported
  <2>2. UNCHANGED <<phase, intent, generation, calls, desired, status, socket, projected, live>>
    BY <1>4 DEF SessionReadsHello
  <2>3. QED
    BY <2>1, <2>2, ReportsAreLawful DEF Reports
<1>5. ASSUME SessionAdopts(s), Untouched PROVE Lawful
  <2>1. PICK c \in Commands, d \in Commands :
          c = Command("start", None, 0) /\ d = Command("connected", s, generation + 1)
    BY <1>1, CommandTyped DEF Typed, None, SocketCommands
  <2>2. mailbox \in Seq(Commands)
    BY DEF Typed
  <2>3. mailbox' = mailbox \o <<c, d>>
    BY <1>5, <2>1, Zenon DEF SessionAdopts
  <2>4. intent' = "run" /\ generation' = generation + 1 /\ calls' = calls
    BY <1>5, Zenon DEF SessionAdopts, NewAttempt
  <2>5. projected' \in Nat
    <3>1. Publish(TRUE, "connected", s)
      BY <1>5, Zenon DEF SessionAdopts
    <3>2. QED
      BY <3>1, PublishTyped
  <2>6. mailbox' = mailbox \o <<c, d>> /\ intent' = "run" /\ generation' = generation + 1
        /\ calls' = calls /\ projected' \in Nat
    BY <2>3, <2>4, <2>5
  <2>7. mailbox' = Append(Append(mailbox, c), d) /\ Append(mailbox, c) \in Seq(Commands)
    BY <2>2, <2>6
  <2>8. c.op \in Wakes
    BY <2>1 DEF Command, Wakes
  <2>9. Queued(mailbox', Wakes)
    BY <2>2, <2>7, <2>8, QueuedCommand
  <2>10. QED
    BY <2>6, <2>7, <2>9 DEF Lawful, Received, Move, AsksToRun, Typed
<1>6. ASSUME SessionAdopts(s), ~Untouched PROVE Lawful
  <2>1. AtMostReported
    BY <1>6, JudgeReports DEF SessionAdopts
  <2>2. UNCHANGED <<phase, intent, generation, calls, desired, status, socket, projected, live>>
    BY <1>6 DEF SessionAdopts, Unpublished, quiet
  <2>3. QED
    BY <2>1, <2>2, ReportsAreLawful DEF Reports
<1>7. ASSUME SessionEnds(s) PROVE Lawful
  <2>1. PICK c \in Commands, d \in Commands :
          c = Command("stale", s, 0) /\ d = Command("disconnected", s, 0)
    BY <1>2
  <2>2. mailbox \in Seq(Commands)
    BY DEF Typed
  <2>3. UNCHANGED <<phase, intent, generation, calls, desired, status, socket, projected>>
        /\ (live' = live \/ live' = None)
    BY <1>7 DEF SessionEnds
  <2>4. mailbox' = mailbox \o (IF conns[s].net = "silent" THEN <<c>> ELSE <<>>) \o <<d>>
    BY <1>7, <2>1 DEF SessionEnds
  <2>5. CASE conns[s].net = "silent"
    <3>1. mailbox' = Append(Append(mailbox, c), d) /\ Append(mailbox, c) \in Seq(Commands)
      <4>1. mailbox' = (mailbox \o <<c>>) \o <<d>>
        BY <2>4, <2>5
      <4>2. mailbox \o <<c>> = Append(mailbox, c) /\ Append(mailbox, c) \in Seq(Commands)
        BY <2>2
      <4>3. Append(mailbox, c) \o <<d>> = Append(Append(mailbox, c), d)
        BY <4>2
      <4>4. QED
        BY <4>1, <4>2, <4>3
    <3>2. /\ c.op \notin Wakes /\ d.op \notin Wakes
      BY <1>2, <2>1 DEF Wakes
    <3>3. Halted => Halted'
      BY <2>3 DEF Halted
    <3>4. QED
      BY <2>2, <2>3, <3>1, <3>2, <3>3
         DEF Lawful, Received, Move, QueuesBoth, KeepsHalted, Typed
  <2>6. CASE conns[s].net # "silent"
    <3>1. mailbox' = Append(mailbox, d)
      <4>1. mailbox' = (mailbox \o <<>>) \o <<d>>
        BY <2>4, <2>6
      <4>2. mailbox \o <<>> = mailbox /\ mailbox \o <<d>> = Append(mailbox, d)
        BY <2>2
      <4>3. QED
        BY <4>1, <4>2
    <3>2. d.op \in SocketCommands
      BY <1>2, <2>1 DEF SocketCommands
    <3>3. QED
      BY <2>3, <3>1, <3>2, ReportsAreLawful DEF Reports, AtMostReported
  <2>7. QED
    BY <2>5, <2>6
<1>8. QED
  BY <1>3, <1>4, <1>5, <1>6, <1>7 DEF SessionStep

-----------------------------------------------------------------------------
(* The supervisor *)

\* Its steps leave the counters, the request and the router alone.
Supervises ==
  /\ UNCHANGED <<generation, calls, intent, live>>
  /\ projected' \in Nat /\ projected' >= projected
  /\ mailbox' = mailbox \/ TakesOne

\* Such a step is lawful if it is a move.
LEMMA SupervisesLawfully == Typed /\ Supervises /\ Move => Lawful
  BY DEF Typed, Supervises, Lawful, Received, TakesOne

\* A publication that ends the connection halts the device.
LEMMA PublishHalts ==
  ASSUME Typed, live' = live, PublishStopped \/ PublishStopping
  PROVE  Halted'
<1>1. PICK state \in {"stopped", "stopping"} : Publish(FALSE, state, None)
  BY DEF PublishStopped, PublishStopping
<1>2. Ends(state)
  BY DEF Ends
<1>3. projected' > 0
  BY <1>1, <1>2, PublishTyped
<1>4. desired' = FALSE /\ status' = state /\ socket' = None
  BY <1>1 DEF Publish
<1>5. QED
  BY <1>2, <1>3, <1>4 DEF Halted, Ends

\* Whatever is published, the router has no less to hear.
LEMMA PublishesMore ==
  ASSUME Typed,
         \/ PublishStopped \/ PublishStopping \/ PublishFreshStart
         \/ PublishFailure \/ PublishDisconnected \/ Unpublished
         \/ \E w, state, s : Publish(w, state, s)
  PROVE  projected' \in Nat /\ projected' >= projected
<1>1. CASE Unpublished
  BY <1>1 DEF Unpublished, quiet, Typed
<1>2. CASE \E w, state, s : Publish(w, state, s)
  BY <1>2, PublishTyped
<1>3. PublishStopped \/ PublishStopping \/ PublishFreshStart
        \/ PublishFailure \/ PublishDisconnected
      => Unpublished \/ \E w, state, s : Publish(w, state, s)
  BY Zenon DEF PublishStopped, PublishStopping, PublishFreshStart, PublishFailure,
               PublishDisconnected
<1>4. QED
  BY <1>1, <1>2, <1>3

\* A supervisor that rests takes commands and halts.
LEMMA RestingIsLawful ==
  ASSUME Typed, IdleTakes \/ IdleHalts \/ StoppingTakes \/ StopSettles
  PROVE  Lawful
<1> USE DEF supervisorRest
<1>1. CASE IdleTakes
  <2>1. Supervises
    <3>1. projected' \in Nat /\ projected' >= projected
      BY <1>1, PublishesMore DEF IdleTakes
    <3>2. QED
      BY <1>1, <3>1 DEF IdleTakes, Takes, TakesOne, Supervises
  <2>2. Move
    <3>1. CASE phase' = "check" /\ (Takes({"start"}) \/ Takes({"retry"}))
      BY <3>1, <2>1 DEF Takes, TakesOne, Supervises, Move, Woken, Wakes, Resting
    <3>2. CASE /\ Takes({"stop"} \cup {"restart"} \cup SocketCommands)
               /\ phase' \in {"idle", "halting"} /\ Unpublished
      <4>1. KeepsHalted
        BY <2>1, <3>2 DEF KeepsHalted, Halted, Supervises, Unpublished, quiet
      <4>2. QED
        BY <1>1, <3>2, <2>1, <4>1
           DEF IdleTakes, Takes, TakesOne, Supervises, Move, RestsOn, Wakes, Resting, SocketCommands
    <3>3. QED
      BY <1>1, <3>1, <3>2 DEF IdleTakes, Takes
  <2>3. QED
    BY <2>1, <2>2, SupervisesLawfully
<1>2. CASE IdleHalts
  <2>1. Supervises /\ mailbox' = mailbox
    <3>1. projected' \in Nat /\ projected' >= projected
      BY <1>2, PublishesMore DEF IdleHalts
    <3>2. QED
      BY <1>2, <3>1 DEF IdleHalts, Supervises
  <2>2. Halted'
    BY <1>2, <2>1, PublishHalts DEF IdleHalts, Supervises
  <2>3. Move
    BY <1>2, <2>1, <2>2 DEF IdleHalts, Supervises, Move, Halts, Resting
  <2>4. QED
    BY <2>1, <2>3, SupervisesLawfully
<1>3. CASE StoppingTakes
  <2>1. Supervises
    <3>1. projected' \in Nat /\ projected' >= projected
      BY <1>3, PublishesMore DEF StoppingTakes
    <3>2. QED
      BY <1>3, <3>1 DEF StoppingTakes, Takes, TakesOne, Supervises
  <2>2. Move
    <3>1. CASE phase' = "check" /\ (Takes({"start"}) \/ Takes({"retry"}))
      BY <3>1, <2>1 DEF Takes, TakesOne, Supervises, Move, Woken, Wakes, Resting
    <3>2. CASE /\ Takes({"stop"} \cup {"restart"} \cup SocketCommands)
               /\ phase' = phase /\ Unpublished
      <4>1. KeepsHalted
        BY <2>1, <3>2 DEF KeepsHalted, Halted, Supervises, Unpublished, quiet
      <4>2. QED
        BY <1>3, <3>2, <2>1, <4>1
           DEF StoppingTakes, Takes, TakesOne, Supervises, Move, RestsOn, Wakes, Resting,
               SocketCommands
    <3>3. QED
      BY <1>3, <3>1, <3>2 DEF StoppingTakes, Takes
  <2>3. QED
    BY <2>1, <2>2, SupervisesLawfully
<1>4. CASE StopSettles
  <2>1. Supervises /\ mailbox' = mailbox
    <3>1. projected' \in Nat /\ projected' >= projected
      BY <1>4, PublishesMore DEF StopSettles
    <3>2. QED
      BY <1>4, <3>1 DEF StopSettles, Supervises
  <2>2. CASE phase' = "idle" /\ PublishStopped
    <3>1. Halted'
      BY <2>1, <2>2, PublishHalts DEF Supervises
    <3>2. QED
      BY <2>1, <2>2, <3>1, SupervisesLawfully DEF Supervises, Move, Halts, Resting
  <2>3. CASE phase' = phase /\ Publish(desired, status, socket)
    <3>1. UNCHANGED <<desired, status, socket>>
      BY <2>3 DEF Publish
    <3>2. KeepsHalted
      BY <2>1, <3>1 DEF KeepsHalted, Halted, Supervises, Typed
    <3>3. QED
      BY <2>1, <2>3, <3>2, SupervisesLawfully DEF Supervises, Move, Stays
  <2>4. QED
    BY <1>4, <2>2, <2>3 DEF StopSettles
<1>5. QED
  BY <1>1, <1>2, <1>3, <1>4

\* A supervisor at work either goes on or takes the Stop.
Busy == phase \notin Resting \cup {"clear"}

\* What it does at work, whatever it publishes.
LEMMA WorkIsLawful ==
  ASSUME Typed, Busy, phase' \notin Resting,
         UNCHANGED <<generation, calls, intent, live>>,
         mailbox' = mailbox \/ (TakesOne /\ Head(mailbox).op # "stop"),
         \/ PublishFreshStart \/ PublishFailure \/ PublishDisconnected \/ Unpublished
         \/ \E w, state, s : Publish(w, state, s)
  PROVE  Lawful
<1>1. projected' \in Nat /\ projected' >= projected
  BY PublishesMore
<1>2. Supervises
  BY <1>1 DEF Supervises
<1>3. Move
  BY DEF Move, Works, Busy
<1>4. QED
  BY <1>2, <1>3, SupervisesLawfully

\* Coming to rest halts the device.
LEMMA HaltingIsLawful ==
  ASSUME Typed, phase' \in Resting \cup {"clear"},
         UNCHANGED <<generation, calls, intent, live>>,
         mailbox' = mailbox \/ TakesOne,
         PublishStopped \/ PublishStopping
  PROVE  Lawful
<1>1. projected' \in Nat /\ projected' >= projected
  BY PublishesMore
<1>2. Supervises
  BY <1>1 DEF Supervises
<1>3. Halted'
  BY PublishHalts
<1>4. Move
  BY <1>3 DEF Move, Halts
<1>5. QED
  BY <1>2, <1>4, SupervisesLawfully

\* The steps of a supervisor that runs a cycle or is about to.
LEMMA RunningIsLawful ==
  ASSUME Typed,
         \/ SupervisorChecks \/ SupervisorClears \/ CycleBegins \/ CycleAsks
         \/ RunningStops \/ RunningRetries \/ RunningRestarts \/ RunningStarts
         \/ RunningHearsConnected \/ RunningHearsDisconnected \/ RunningHearsStale
         \/ EnsureSucceeded \/ EnsureFailed \/ SessionFailed \/ DeadlinePasses
         \/ BackoffPasses
  PROVE  Lawful
<1> USE DEF supervisorRest, handleVars
<1>1. ASSUME Running PROVE Busy
  BY <1>1 DEF Running, Busy, Resting
<1>2. ASSUME NEW ops, Takes(ops), "stop" \notin ops PROVE TakesOne /\ Head(mailbox).op # "stop"
  BY <1>2 DEF Takes, TakesOne
<1>3. CASE SupervisorChecks \/ CycleAsks \/ BackoffPasses
  <2>1. /\ Busy /\ phase' \notin Resting /\ mailbox' = mailbox
        /\ UNCHANGED <<generation, calls, intent, live>> /\ Unpublished
    BY <1>3 DEF SupervisorChecks, CycleAsks, BackoffPasses, Busy, Resting, Unpublished
  <2>2. QED
    BY <2>1, WorkIsLawful
<1>4. CASE SupervisorClears
  <2>1. /\ phase' \in Resting /\ mailbox' = mailbox
        /\ UNCHANGED <<generation, calls, intent, live>> /\ PublishStopped
    BY <1>4 DEF SupervisorClears, Resting
  <2>2. QED
    BY <2>1, HaltingIsLawful
<1>5. CASE CycleBegins
  <2>1. /\ Busy /\ phase' \notin Resting /\ mailbox' = mailbox
        /\ UNCHANGED <<generation, calls, intent, live>>
        /\ \E w, state, s : Publish(w, state, s)
    BY <1>5 DEF CycleBegins, Busy, Resting
  <2>2. QED
    BY <2>1, WorkIsLawful
<1>6. CASE RunningStops
  <2>1. /\ phase' \in Resting \cup {"clear"} /\ TakesOne
        /\ UNCHANGED <<generation, calls, intent, live>>
        /\ PublishStopped \/ PublishStopping
    BY <1>6 DEF RunningStops, EndsCycle, Takes, TakesOne, Resting
  <2>2. QED
    BY <2>1, HaltingIsLawful
<1>7. CASE RunningRetries
  <2>1. Running /\ Takes({"retry"})
    BY <1>7 DEF RunningRetries
  <2>2. /\ phase' \notin Resting /\ PublishFreshStart
        /\ UNCHANGED <<generation, calls, intent, live>>
    BY <1>7 DEF RunningRetries, EndsCycle, Resting
  <2>3. QED
    BY <1>1, <1>2, <2>1, <2>2, WorkIsLawful
<1>8. CASE RunningRestarts
  <2>1. Running /\ Takes({"restart"})
    BY <1>8 DEF RunningRestarts
  <2>2. /\ phase' \notin Resting /\ Unpublished
        /\ UNCHANGED <<generation, calls, intent, live>>
    BY <1>8 DEF RunningRestarts, EndsCycle, Resting, Unpublished
  <2>3. QED
    BY <1>1, <1>2, <2>1, <2>2, WorkIsLawful
<1>9. CASE RunningStarts
  <2>1. Running /\ Takes({"start"})
    BY <1>9 DEF RunningStarts
  <2>2. /\ phase' \notin Resting /\ Unpublished
        /\ UNCHANGED <<generation, calls, intent, live>>
    BY <1>9 DEF RunningStarts, Running, EndsCycle, Resting, Unpublished
  <2>3. QED
    BY <1>1, <1>2, <2>1, <2>2, WorkIsLawful
<1>10. CASE RunningHearsConnected
  <2>1. Running /\ Takes({"connected"})
    BY <1>10 DEF RunningHearsConnected
  <2>2. phase' \notin Resting /\ UNCHANGED <<generation, calls, intent, live>>
    BY <1>10 DEF RunningHearsConnected, Running, Resting
  <2>3. Unpublished \/ \E w, state, s : Publish(w, state, s)
    BY <1>10, Zenon DEF RunningHearsConnected
  <2>4. QED
    BY <1>1, <1>2, <2>1, <2>2, <2>3, WorkIsLawful
<1>11. CASE RunningHearsDisconnected
  <2>1. Running /\ Takes({"disconnected"})
    BY <1>11 DEF RunningHearsDisconnected
  <2>2. /\ phase' \notin Resting
        /\ Unpublished \/ PublishDisconnected
        /\ UNCHANGED <<generation, calls, intent, live>>
    BY <1>11 DEF RunningHearsDisconnected, Running, Resting
  <2>3. QED
    BY <1>1, <1>2, <2>1, <2>2, WorkIsLawful
<1>12. CASE RunningHearsStale
  <2>1. Running /\ Takes({"stale"})
    BY <1>12 DEF RunningHearsStale
  <2>2. /\ phase' \notin Resting
        /\ Unpublished \/ PublishFailure
        /\ UNCHANGED <<generation, calls, intent, live>>
    BY <1>12 DEF RunningHearsStale, Running, EndsCycle, Resting
  <2>3. QED
    BY <1>1, <1>2, <2>1, <2>2, WorkIsLawful
<1>13. CASE EnsureSucceeded
  <2>1. /\ Busy /\ phase' \notin Resting /\ Unpublished /\ mailbox' = mailbox
        /\ UNCHANGED <<generation, calls, intent, live>>
    BY <1>13 DEF EnsureSucceeded, Busy, Resting, Unpublished
  <2>2. QED
    BY <2>1, WorkIsLawful
<1>14. CASE EnsureFailed \/ SessionFailed \/ DeadlinePasses
  <2>1. /\ Busy /\ phase' \notin Resting /\ PublishFailure /\ mailbox' = mailbox
        /\ UNCHANGED <<generation, calls, intent, live>>
    BY <1>14 DEF EnsureFailed, SessionFailed, DeadlinePasses, EndsCycle, Busy, Resting
  <2>2. QED
    BY <2>1, WorkIsLawful
<1>15. QED
  BY <1>3, <1>4, <1>5, <1>6, <1>7, <1>8, <1>9, <1>10, <1>11, <1>12, <1>13, <1>14

-----------------------------------------------------------------------------
(* The theorems *)

\* Every step of the system is lawful, unless its server goes away.
LEMMA StepIsLawful == Typed /\ [DeviceNext]_vars /\ ~ServerRestarts => Lawful
<1>1. ASSUME Typed, [DeviceNext]_vars, ~ServerRestarts PROVE Lawful
  <2>1. CASE CallStep
    BY <1>1, <2>1, CallsAreLawful
  <2>2. CASE \/ HandlerStep \/ ProjectionArrives \/ TroubleStep
             \/ DaemonStep \/ EnsureStep \/ LeftoverStep \/ JobStops \/ ChildEnds \/ UNCHANGED vars
    BY <1>1, <2>2, OthersAreAside, AsideIsLawful
  <2>3. CASE \E s \in Sockets : RouterStep(s) \/ SessionStep(s)
    <3>1. PICK s \in Sockets : RouterStep(s) \/ SessionStep(s)
      BY <2>3
    <3>2. CASE RouterSupersedes(s)
      BY <1>1, <3>2, OthersAreAside, AsideIsLawful
    <3>3. CASE RouterRegisters(s) \/ SessionStep(s)
      BY <1>1, <3>3, ConnectionsAreLawful
    <3>4. QED
      BY <3>1, <3>2, <3>3 DEF RouterStep
  <2>4. CASE SupervisorStep \/ BackoffPasses
    BY <1>1, <2>4, RestingIsLawful, RunningIsLawful DEF SupervisorStep
  <2>5. QED
    BY <1>1, <2>1, <2>2, <2>3, <2>4 DEF DeviceNext
<1>2. QED
  BY <1>1

\* The next server starts with a halted device and nothing queued.
LEMMA RestartKeepsStop == Typed /\ ServerRestarts => (Typed /\ StopInvariant)'
<1>1. ASSUME Typed, ServerRestarts PROVE (Typed /\ StopInvariant)'
  <2>1. /\ ~desired' /\ generation' = 0 /\ status' = "stopped" /\ socket' = None
        /\ mailbox' = <<>> /\ phase' = "idle" /\ projected' = 0 /\ live' = None
        /\ intent' = "none" /\ calls' = calls
    BY <1>1, Zenon DEF ServerRestarts
  <2>2. Typed'
    BY <1>1, <2>1 DEF Typed
  <2>3. Halted'
    BY <2>1 DEF Halted, Ends
  <2>4. StopInvariant'
    BY <2>1, <2>3 DEF StopInvariant
  <2>5. QED
    BY <2>2, <2>4
<1>2. QED
  BY <1>1

\* The invariant holds of every reachable state: a supervisor that rests has
\* halted the device, and after the last Stop nothing is left that wakes it.
\* This is about wait_until_running, run_desired and run_stop.
THEOREM StopInvariantHolds == DeviceSpec => [](Typed /\ StopInvariant)
<1>1. DeviceInit => Typed /\ StopInvariant
  BY DEF DeviceInit, Typed, StopInvariant, Halted, Ends, Queued, StopIsLast, Resting
<1>2. Typed /\ StopInvariant /\ [DeviceNext]_vars => (Typed /\ StopInvariant)'
  <2>1. ASSUME Typed, StopInvariant, [DeviceNext]_vars, ~ServerRestarts
        PROVE  (Typed /\ StopInvariant)'
    <3>1. Lawful
      BY <2>1, StepIsLawful
    <3>2. Typed'
      BY <2>1, <3>1, ReceivedTyped DEF Lawful, Typed
    <3>3. StopInvariant'
      BY <2>1, <3>1, MoveKeepsStop DEF Lawful
    <3>4. QED
      BY <3>2, <3>3
  <2>2. QED
    BY <2>1, RestartKeepsStop
<1>3. QED
  BY <1>1, <1>2, PTL DEF DeviceSpec

\* After the Stop that was asked for last is taken, nothing revives the device,
\* for any number of connections, requests and failures.  This is about
\* publish_attempt_update, while_current_attempt and handle_stop_command.
THEOREM StopIsAlwaysKept == DeviceSpec => []StopIsKept
<1>1. Typed /\ StopInvariant => StopIsKept
  <2>1. ASSUME Typed, StopInvariant, intent = "stop", ~Pending({"stop", "retry"})
        PROVE  Halted
    <3>1. ~Queued(mailbox, {"stop"})
      BY <2>1 DEF Pending, Queued
    <3>2. ~Queued(mailbox, Wakes)
      BY <2>1, <3>1 DEF StopInvariant, StopIsLast, Queued, Wakes
    <3>3. QED
      BY <2>1, <3>1, <3>2 DEF StopInvariant
  <2>2. ASSUME Halted, projected = 0 PROVE live = None
    BY <2>2 DEF Halted
  <2>3. QED
    BY <2>1, <2>2 DEF StopIsKept, Halted
<1>2. QED
  BY <1>1, StopInvariantHolds, PTL

-----------------------------------------------------------------------------
(* Domains *)

Connections ==
  [state : {"unused", "hello", "adopting", "admitted", "registered", "gone"},
   gen : Generations, build : Builds, told : {"nothing", "exit"},
   net : {"open", "closed", "silent"}]

\* Attempts are counted: each request makes one at most, and an adoption is the first.
Counted ==
  /\ calls \in Nat /\ troubles \in Nat /\ calls + troubles <= MaxEvents
  /\ generation \in Nat /\ generation <= calls + 1
  /\ expected \in Generations /\ cycle \in Generations

\* Commands about a connection name one.
Named == {c \in Commands : c.op \in SocketCommands => c.arg \in Sockets}

\* Whoever names a connection names one there can be.
Naming ==
  /\ socket \in Sockets \cup {None} /\ connected \in Sockets \cup {None}
  /\ link \in Sockets \cup {None} /\ live \in Sockets \cup {None}
  /\ superseded \subseteq Sockets
  /\ mailbox \in Seq(Named)

Handlers == [step : {"none", "waiting", "acked", "sent"}, call : Nat, evicts : BOOLEAN]

Connected == conns \in [Sockets -> Connections]

Labelled ==
  /\ status \in Statuses
  /\ phase \in {"idle", "halting", "check", "clear", "begin", "asking", "ensuring",
                "watching", "backoff", "parked", "stopping"}
  /\ child \in {"none", "alive", "ended"} /\ job \in {"none", "running", "done", "failed"}
  /\ daemon \in Builds \cup {"none"}
  /\ handler \in Handlers

Flagged == desired \in BOOLEAN /\ mayRun \in BOOLEAN /\ replaceNext \in BOOLEAN /\ wedged \in BOOLEAN

\* Each kind of work that was abandoned is counted.
Leaving == left \in [Leftovers -> Nat]

Shaped == Counted /\ Naming /\ Connected /\ Labelled /\ Flagged /\ Leaving

\* What a step may count.
Paces ==
  \/ UNCHANGED <<calls, troubles, generation>>
  \/ MayHappen /\ calls' = calls + 1 /\ UNCHANGED troubles /\ generation' \in {generation, generation + 1}
  \/ Trouble /\ UNCHANGED calls /\ generation' \in {0, generation}
  \/ UNCHANGED <<calls, troubles>> /\ generation = 0 /\ generation' = generation + 1

\* Every step counts at most one request or one failure, and an attempt with it.
LEMMA StepsPace == [DeviceNext]_vars => Paces
<1> USE DEF snapshotVars, supervisorVars, callerVars, supervisorRest, deviceRest, ensureRest, Paces
<1>1. CallStep => Paces
  BY DEF CallStep, CallStart, CallStop, CallRetry, CallRestart, CanCall, NewAttempt
<1>2. HandlerStep \/ ProjectionArrives => Paces
  BY DEF HandlerStep, HandlerReads, HandlerProjects, HandlerEvicts, ProjectionArrives
<1>3. ASSUME NEW s \in Sockets, RouterStep(s) \/ SessionReadsHello(s) \/ SessionEnds(s) PROVE Paces
  BY <1>3 DEF RouterStep, RouterRegisters, RouterSupersedes, SessionReadsHello, SessionEnds
<1>4. ASSUME NEW s \in Sockets, SessionAdopts(s) PROVE Paces
  BY <1>4 DEF SessionAdopts, Untouched, NewAttempt
<1>5. DaemonStep \/ EnsureStep \/ LeftoverStep \/ JobStops \/ ChildEnds => Paces
  BY DEF DaemonStep, DaemonConnects, DaemonHears, DaemonNotices, EnsureStep,
         EnsureSends, EnsureDecides, EnsureStarts, DaemonWakes,
         LeftoverStep, LeftoverDecides, LeftoverStarts, LeftoverStops, leftoverRest,
         JobStops, ChildEnds, Trouble
<1>6. ASSUME IdleTakes \/ IdleHalts \/ SupervisorChecks \/ SupervisorClears \/ CycleBegins \/ CycleAsks
             \/ StoppingTakes \/ StopSettles \/ BackoffPasses PROVE Paces
  BY <1>6 DEF IdleTakes, IdleHalts, SupervisorChecks, SupervisorClears, CycleBegins, CycleAsks,
              StoppingTakes, StopSettles, BackoffPasses
<1>7. ASSUME RunningStops \/ RunningRetries \/ RunningRestarts \/ RunningStarts \/ RunningHearsConnected
             \/ RunningHearsDisconnected \/ RunningHearsStale PROVE Paces
  BY <1>7 DEF RunningStops, RunningRetries, RunningRestarts, RunningStarts, RunningHearsConnected,
              RunningHearsDisconnected, RunningHearsStale
<1>8. ASSUME EnsureSucceeded \/ EnsureFailed \/ SessionFailed \/ DeadlinePasses PROVE Paces
  BY <1>8 DEF EnsureSucceeded, EnsureFailed, SessionFailed, DeadlinePasses, handleVars, Trouble
<1>9. TroubleStep => Paces
  BY DEF TroubleStep, HandlerTimesOut, LinkBreaks, DaemonDies, DaemonWedges, JobFails, EnsureFails, Trouble
<1>10. ServerRestarts => Paces
  BY DEF ServerRestarts, Trouble
<1>11. UNCHANGED vars => Paces
  BY DEF vars
<1> HIDE DEF Paces
<1>12. QED
  BY <1>1, <1>2, <1>3, <1>4, <1>5, <1>6, <1>7, <1>8, <1>9, <1>10, <1>11
     DEF DeviceNext, SessionStep, SupervisorStep

\* The report and the cycle are of an attempt the handle counted.
LEMMA ReportsAreCounted ==
  [DeviceNext]_vars => expected' \in {None, expected, cycle} /\ cycle' \in {0, cycle, generation}
<1> USE DEF snapshotVars, handleVars, supervisorVars, callerVars, supervisorRest, deviceRest, ensureRest,
            EndsCycle
<1> DEFINE Follows == expected' \in {None, expected, cycle} /\ cycle' \in {0, cycle, generation}
<1>1. CallStep => Follows
  BY DEF CallStep, CallStart, CallStop, CallRetry, CallRestart
<1>2. HandlerStep \/ ProjectionArrives => Follows
  BY DEF HandlerStep, HandlerReads, HandlerProjects, HandlerEvicts, ProjectionArrives
<1>3. ASSUME NEW s \in Sockets, RouterStep(s) \/ SessionStep(s) PROVE Follows
  BY <1>3 DEF RouterStep, RouterRegisters, RouterSupersedes, SessionStep, SessionReadsHello,
              SessionAdopts, SessionEnds
<1>5. DaemonStep \/ EnsureStep \/ LeftoverStep \/ JobStops \/ ChildEnds => Follows
  BY DEF DaemonStep, DaemonConnects, DaemonHears, DaemonNotices, EnsureStep,
         EnsureSends, EnsureDecides, EnsureStarts, DaemonWakes,
         LeftoverStep, LeftoverDecides, LeftoverStarts, LeftoverStops, leftoverRest,
         JobStops, ChildEnds
<1>6. ASSUME IdleTakes \/ IdleHalts \/ SupervisorChecks \/ SupervisorClears \/ CycleBegins \/ CycleAsks
             \/ StoppingTakes \/ StopSettles \/ BackoffPasses PROVE Follows
  BY <1>6 DEF IdleTakes, IdleHalts, SupervisorChecks, SupervisorClears, CycleBegins, CycleAsks,
              StoppingTakes, StopSettles, BackoffPasses
<1>7. ASSUME RunningStops \/ RunningRetries \/ RunningRestarts \/ RunningStarts \/ RunningHearsConnected
             \/ RunningHearsDisconnected \/ RunningHearsStale PROVE Follows
  BY <1>7 DEF RunningStops, RunningRetries, RunningRestarts, RunningStarts, RunningHearsConnected,
              RunningHearsDisconnected, RunningHearsStale
<1>8. ASSUME EnsureSucceeded \/ EnsureFailed \/ SessionFailed \/ DeadlinePasses PROVE Follows
  BY <1>8 DEF EnsureSucceeded, EnsureFailed, SessionFailed, DeadlinePasses
<1>9. TroubleStep => Follows
  BY DEF TroubleStep, HandlerTimesOut, LinkBreaks, DaemonDies, DaemonWedges, JobFails, EnsureFails
<1>10. ServerRestarts => Follows
  BY DEF ServerRestarts
<1>11. UNCHANGED vars => Follows
  BY DEF vars
<1> HIDE DEF Follows
<1>12. [DeviceNext]_vars => Follows
  BY <1>1, <1>2, <1>3, <1>5, <1>6, <1>7, <1>8, <1>9, <1>10, <1>11
     DEF DeviceNext, SupervisorStep
<1>13. QED
  BY <1>12 DEF Follows

\* Attempts, requests and failures stay counted.
LEMMA CountedKept == Counted /\ [DeviceNext]_vars => Counted'
<1> SUFFICES ASSUME Counted, [DeviceNext]_vars PROVE Counted'
  OBVIOUS
<1>1. Paces /\ expected' \in {None, expected, cycle} /\ cycle' \in {0, cycle, generation}
  BY StepsPace, ReportsAreCounted
<1>2. MaxEvents \in Nat /\ None \in Generations /\ 0 \in Generations
  BY DeviceAssumption DEF Generations, None
<1>3. generation \in Generations
  BY <1>2 DEF Counted, Generations
<1>4. expected' \in Generations /\ cycle' \in Generations
  BY <1>1, <1>2, <1>3 DEF Counted
<1>5. /\ calls' \in Nat /\ troubles' \in Nat /\ calls' + troubles' <= MaxEvents
      /\ generation' \in Nat /\ generation' <= calls' + 1
  BY <1>1, <1>2 DEF Counted, Paces, MayHappen, Trouble
<1>6. QED
  BY <1>4, <1>5 DEF Counted

\* What is kept of connections are connections.
LEMMA KeptConnections ==
  ASSUME NEW c \in [Sockets -> Connections], NEW used PROVE Kept(c, used) \in [Sockets -> Connections]
<1>1. Unused \in Connections
  BY DeviceAssumption DEF Unused, Connections, Generations, Builds
<1>2. QED
  BY <1>1 DEF Kept

\* The network and the router change one part of a connection each.
LEMMA ChangedConnections ==
  ASSUME Shaped
  PROVE  /\ conns \in [Sockets -> Connections]
         /\ \A net \in {"closed", "silent"} : Closed(net) \in [Sockets -> Connections]
         /\ \A s \in Sockets : [conns EXCEPT ![s].told = "exit"] \in [Sockets -> Connections]
<1>1. conns \in [Sockets -> Connections] /\ link \in Sockets \cup {None}
  BY DEF Shaped, Connected, Naming
<1>2. \A s \in Sockets : [conns EXCEPT ![s].told = "exit"] \in [Sockets -> Connections]
  BY <1>1 DEF Connections
<1>3. ASSUME NEW net \in {"closed", "silent"} PROVE Closed(net) \in [Sockets -> Connections]
  <2>1. CASE link \in Sockets
    <3>1. [conns EXCEPT ![link].net = net] \in [Sockets -> Connections]
      BY <1>1, <2>1 DEF Connections
    <3>2. QED
      BY <1>1, <3>1 DEF Closed
  <2>2. CASE link = None
    BY <1>1, <2>2 DEF Closed
  <2>3. QED
    BY <1>1, <2>1, <2>2
<1>4. QED
  BY <1>1, <1>2, <1>3

\* Whoever works on the device without the network ends the daemon's connection
\* there or leaves it alone.
LEMMA WorkEndsConnection ==
  EnsureStep \/ LeftoverStep \/ JobStops =>
    /\ conns' = conns \/ conns' = Kept(Closed("closed"), None)
    /\ link' \in {link, None}
<1>1. EnsureSends => conns' = conns /\ link' = link
  BY DEF EnsureSends
<1>2. EnsureDecides => /\ conns' = conns \/ conns' = Kept(Closed("closed"), None)
                       /\ link' = link \/ link' = None
  BY DEF EnsureDecides, DaemonWakes, DaemonGone
<1>3. EnsureStarts => conns' = conns /\ link' = link
  BY DEF EnsureStarts
<1>4. LeftoverDecides => /\ conns' = conns \/ conns' = Kept(Closed("closed"), None)
                         /\ link' = link \/ link' = None
  <2> SUFFICES ASSUME LeftoverDecides
               PROVE  /\ conns' = conns \/ conns' = Kept(Closed("closed"), None)
                      /\ link' = link \/ link' = None
    OBVIOUS
  <2>1. UNCHANGED <<link, conns>> \/ DaemonWakes \/ DaemonGone
    BY Zenon DEF LeftoverDecides
  <2>2. QED
    BY <2>1 DEF DaemonWakes, DaemonGone
<1>5. LeftoverStarts => conns' = conns /\ link' = link
  BY DEF LeftoverStarts
<1>6. LeftoverStops \/ JobStops => conns' = Kept(Closed("closed"), None) /\ link' = None
  BY DEF LeftoverStops, JobStops, DaemonGone
<1>7. QED
  BY <1>1, <1>2, <1>3, <1>4, <1>5, <1>6, Zenon DEF EnsureStep, LeftoverStep

\* The device ends its connection, loses it or opens one.
LEMMA DeviceKeepsConnections ==
  ASSUME Shaped, DaemonStep \/ EnsureStep \/ LeftoverStep \/ JobStops \/ TroubleStep
  PROVE  Connected'
<1>0. conns \in [Sockets -> Connections]
  BY DEF Shaped, Connected
<1> USE DEF Connected
<1>1. DaemonGone => Connected'
  BY ChangedConnections, KeptConnections DEF DaemonGone
<1>2. ASSUME NEW s \in Sockets, DaemonConnects(s) PROVE Connected'
  <2>1. daemon \in Builds
    BY <1>2 DEF DaemonConnects, Shaped, Labelled
  <2>2. [Unused EXCEPT !.state = "hello", !.build = daemon] \in Connections
    <3>1. Unused \in Connections
      BY DeviceAssumption DEF Unused, Connections, Generations, Builds
    <3>2. \A c \in Connections : [c EXCEPT !.state = "hello", !.build = daemon] \in Connections
      BY <2>1 DEF Connections
    <3>3. QED
      BY <3>1, <3>2
  <2>3. QED
    BY <1>0, <1>2, <2>2 DEF DaemonConnects
<1>3. DaemonHears => Connected'
  BY <1>1 DEF DaemonHears
<1>4. DaemonNotices => Connected'
  BY <1>0, KeptConnections DEF DaemonNotices
<1>5. EnsureStep \/ LeftoverStep \/ JobStops => Connected'
  BY <1>0, WorkEndsConnection, ChangedConnections, KeptConnections
<1>6. LinkBreaks \/ DaemonDies \/ DaemonWedges => Connected'
  BY <1>1, ChangedConnections, KeptConnections DEF LinkBreaks, DaemonDies, DaemonWedges
<1>7. HandlerTimesOut \/ JobFails \/ EnsureFails => Connected'
  BY <1>0 DEF HandlerTimesOut, JobFails, EnsureFails, deviceVars
<1>8. QED
  BY <1>2, <1>3, <1>4, <1>5, <1>6, <1>7 DEF DaemonStep, TroubleStep

\* Sessions and the router write the state of a connection and what it is told.
LEMMA ServerKeepsConnections ==
  ASSUME Shaped, NEW s \in Sockets, RouterStep(s) \/ SessionStep(s)
  PROVE  Connected'
<1>0. /\ conns \in [Sockets -> Connections] /\ live \in Sockets \cup {None}
      /\ 0 \in Generations /\ generation \in Generations
  BY DeviceAssumption DEF Shaped, Connected, Naming, Counted, Generations
<1> USE DEF Connected
<1>1. ASSUME RouterRegisters(s) PROVE Connected'
  <2> DEFINE evicted == IF live = None THEN conns ELSE [conns EXCEPT ![live].told = "exit"]
  <2>1. evicted \in [Sockets -> Connections]
    BY <1>0, ChangedConnections
  <2>4. \/ conns' = [evicted EXCEPT ![s].state = "registered", ![s].gen = 0]
        \/ conns' = Kept([evicted EXCEPT ![s].state = "gone", ![s].gen = 0,
                                          ![s].told = "exit"], link)
    BY <1>1 DEF RouterRegisters
  <2> HIDE DEF evicted
  <2>2. [evicted EXCEPT ![s].state = "registered", ![s].gen = 0] \in [Sockets -> Connections]
    BY <1>0, <2>1 DEF Connections
  <2>3. [evicted EXCEPT ![s].state = "gone", ![s].gen = 0, ![s].told = "exit"]
          \in [Sockets -> Connections]
    <3>1. [evicted[s] EXCEPT !.state = "gone", !.gen = 0, !.told = "exit"] \in Connections
      BY <1>0, <2>1 DEF Connections
    <3>2. [evicted EXCEPT ![s].state = "gone", ![s].gen = 0, ![s].told = "exit"] =
            [evicted EXCEPT ![s] = [evicted[s] EXCEPT !.state = "gone", !.gen = 0, !.told = "exit"]]
      OBVIOUS
    <3>3. QED
      BY <2>1, <3>1, <3>2
  <2>5. CASE conns' = [evicted EXCEPT ![s].state = "registered", ![s].gen = 0]
    BY <2>2, <2>5 DEF Connected
  <2>6. CASE conns' = Kept([evicted EXCEPT ![s].state = "gone", ![s].gen = 0,
                                           ![s].told = "exit"], link)
    BY <2>3, <2>6, KeptConnections DEF Connected
  <2>7. QED
    BY <2>4, <2>5, <2>6
<1>2. ASSUME RouterSupersedes(s) PROVE Connected'
  BY <1>0, <1>2, ChangedConnections DEF RouterSupersedes, Told
<1>3. Refuse(s) => Connected'
  <2>1. [conns EXCEPT ![s].state = "gone", ![s].told = "exit"] \in [Sockets -> Connections]
    BY <1>0 DEF Connections
  <2>2. QED
    BY <2>1, KeptConnections DEF Refuse
<1>4. ASSUME NEW g \in Generations
      PROVE [conns EXCEPT ![s].state = "admitted", ![s].gen = g] \in [Sockets -> Connections]
  BY <1>0 DEF Connections
<1>5. Judge(s) => Connected'
  BY <1>0, <1>3, <1>4 DEF Judge
<1>6. ASSUME SessionReadsHello(s) PROVE Connected'
  <2>1. [conns EXCEPT ![s].state = "adopting"] \in [Sockets -> Connections]
    BY <1>0 DEF Connections
  <2>2. QED
    BY <1>5, <1>6, <2>1 DEF SessionReadsHello
<1>7. ASSUME SessionAdopts(s) PROVE Connected'
  <2>1. Untouched => generation + 1 \in Generations
    BY DeviceAssumption DEF Untouched, Generations
  <2>2. QED
    BY <1>4, <1>5, <1>7, <2>1 DEF SessionAdopts
<1>8. ASSUME SessionEnds(s) PROVE Connected'
  <2>1. [conns EXCEPT ![s].state = "gone"] \in [Sockets -> Connections]
    BY <1>0 DEF Connections
  <2>2. QED
    BY <1>8, <2>1, KeptConnections DEF SessionEnds
<1>9. QED
  BY <1>1, <1>2, <1>6, <1>7, <1>8 DEF RouterStep, SessionStep

\* The supervisor hears of connections and changes none.
LEMMA SupervisorStaysAside ==
  SupervisorStep \/ BackoffPasses =>
    UNCHANGED <<generation, daemon, wedged, link, conns, live, intent, calls>>
<1> USE DEF supervisorRest
<1>1. ASSUME IdleTakes \/ IdleHalts \/ SupervisorChecks \/ SupervisorClears \/ CycleBegins \/ CycleAsks
             \/ StoppingTakes \/ StopSettles \/ BackoffPasses
      PROVE UNCHANGED supervisorRest
  BY <1>1 DEF IdleTakes, IdleHalts, SupervisorChecks, SupervisorClears, CycleBegins, CycleAsks,
              StoppingTakes, StopSettles, BackoffPasses
<1>2. ASSUME RunningStops \/ RunningRetries \/ RunningRestarts \/ RunningStarts \/ RunningHearsConnected
             \/ RunningHearsDisconnected \/ RunningHearsStale PROVE UNCHANGED supervisorRest
  BY <1>2 DEF RunningStops, RunningRetries, RunningRestarts, RunningStarts, RunningHearsConnected,
              RunningHearsDisconnected, RunningHearsStale
<1>3. ASSUME EnsureSucceeded \/ EnsureFailed \/ SessionFailed \/ DeadlinePasses
      PROVE UNCHANGED supervisorRest
  BY <1>3 DEF EnsureSucceeded, EnsureFailed, SessionFailed, DeadlinePasses
<1>4. QED
  BY <1>1, <1>2, <1>3 DEF SupervisorStep

\* Every connection stays in its domain.
LEMMA ConnectedKept == Shaped /\ [DeviceNext]_vars => Connected'
<1> SUFFICES ASSUME Shaped, [DeviceNext]_vars PROVE Connected'
  OBVIOUS
<1>0. conns \in [Sockets -> Connections] /\ live \in Sockets \cup {None}
  BY DEF Shaped, Connected, Naming
<1> USE DEF Connected
<1>1. CASE CallStep
  BY <1>0, <1>1 DEF CallStep, CallStart, CallStop, CallRetry, CallRestart, deviceVars
<1>2. CASE HandlerStep \/ ProjectionArrives
  BY <1>0, <1>2, ChangedConnections
     DEF HandlerStep, HandlerReads, HandlerProjects, HandlerEvicts, ProjectionArrives, EndConnection,
         Told, deviceVars
<1>3. CASE \E s \in Sockets : RouterStep(s) \/ SessionStep(s)
  BY <1>3, ServerKeepsConnections
<1>4. CASE DaemonStep \/ EnsureStep \/ LeftoverStep \/ JobStops \/ TroubleStep
  BY <1>4, DeviceKeepsConnections
<1>5. CASE ChildEnds
  BY <1>0, <1>5 DEF ChildEnds
<1>6. CASE SupervisorStep \/ BackoffPasses
  BY <1>0, <1>6, SupervisorStaysAside
<1>7. CASE ServerRestarts
  <2>0. 0 \in Generations
    BY DeviceAssumption DEF Generations
  <2>1. [s \in Sockets |-> IF conns[s].state = "unused" THEN conns[s]
           ELSE [conns[s] EXCEPT !.state = "gone", !.gen = 0, !.net = "closed"]]
          \in [Sockets -> Connections]
    BY <1>0, <2>0 DEF Connections
  <2>2. QED
    BY <1>7, <2>1, KeptConnections DEF ServerRestarts
<1>8. CASE UNCHANGED vars
  BY <1>0, <1>8 DEF vars, deviceVars
<1>9. QED
  BY <1>1, <1>2, <1>3, <1>4, <1>5, <1>6, <1>7, <1>8 DEF DeviceNext

\* What can be done to the mailbox.
LEMMA NamedMail ==
  /\ \A s \in Seq(Named) : s # <<>> => Head(s) \in Named /\ Tail(s) \in Seq(Named)
  /\ \A s \in Seq(Named), c \in Named : Append(s, c) \in Seq(Named)
  /\ \A s \in Seq(Named), t \in Seq(Named) : s \o t \in Seq(Named)
  OBVIOUS

\* The commands that are queued name a connection where they have to.
LEMMA NamedCommands ==
  /\ \A op \in {"start", "stop", "retry", "restart"}, arg \in Nat : Command(op, arg, 0) \in Named
  /\ \A op \in SocketCommands, s \in Sockets, g \in Nat : Command(op, s, g) \in Named
<1>1. \A op \in {"start", "stop", "retry", "restart"}, arg \in Nat : Command(op, arg, 0) \in Named
  BY DEF Command, Commands, Named, SocketCommands
<1>2. \A op \in SocketCommands, s \in Sockets, g \in Nat : Command(op, s, g) \in Named
  BY DeviceAssumption DEF Command, Commands, Named, SocketCommands
<1>3. QED
  BY <1>1, <1>2

\* The supervisor takes one command at most.
LEMMA SupervisorTakes == SupervisorStep \/ BackoffPasses => mailbox' = mailbox \/ TakesOne
<1> USE DEF handleVars, TakesOne, Takes
<1>1. ASSUME IdleTakes \/ IdleHalts \/ SupervisorChecks \/ SupervisorClears \/ CycleBegins \/ CycleAsks
             \/ StoppingTakes \/ StopSettles \/ BackoffPasses
      PROVE mailbox' = mailbox \/ TakesOne
  BY <1>1 DEF IdleTakes, IdleHalts, SupervisorChecks, SupervisorClears, CycleBegins, CycleAsks,
              StoppingTakes, StopSettles, BackoffPasses
<1>2. ASSUME RunningStops \/ RunningRetries \/ RunningRestarts \/ RunningStarts \/ RunningHearsConnected
             \/ RunningHearsDisconnected \/ RunningHearsStale PROVE mailbox' = mailbox \/ TakesOne
  BY <1>2 DEF RunningStops, RunningRetries, RunningRestarts, RunningStarts, RunningHearsConnected,
              RunningHearsDisconnected, RunningHearsStale
<1>3. ASSUME EnsureSucceeded \/ EnsureFailed \/ SessionFailed \/ DeadlinePasses
      PROVE mailbox' = mailbox \/ TakesOne
  BY <1>3 DEF EnsureSucceeded, EnsureFailed, SessionFailed, DeadlinePasses
<1>4. QED
  BY <1>1, <1>2, <1>3 DEF SupervisorStep

\* Everybody else leaves the mailbox alone but callers, sessions and the router.
LEMMA OthersSendNothing ==
  \/ HandlerStep \/ ProjectionArrives \/ DaemonStep \/ EnsureStep \/ LeftoverStep \/ JobStops \/ ChildEnds
  \/ TroubleStep \/ UNCHANGED vars
  \/ \E s \in Sockets : RouterSupersedes(s)
  => mailbox' = mailbox
  BY DEF HandlerStep, HandlerReads, HandlerProjects, HandlerEvicts, ProjectionArrives, DaemonStep,
         DaemonConnects, DaemonHears, DaemonNotices, EnsureStep,
         EnsureSends, EnsureDecides, EnsureStarts, DaemonWakes,
         LeftoverStep, LeftoverDecides, LeftoverStarts, LeftoverStops, leftoverRest, JobStops,
         ChildEnds, TroubleStep, HandlerTimesOut, LinkBreaks, DaemonDies, DaemonWedges, JobFails,
         EnsureFails, RouterSupersedes, vars, handleVars, deviceRest, ensureRest

\* So do all that are in the mailbox.
LEMMA MailboxKept == Shaped /\ [DeviceNext]_vars => mailbox' \in Seq(Named)
<1> SUFFICES ASSUME Shaped, [DeviceNext]_vars PROVE mailbox' \in Seq(Named)
  OBVIOUS
<1>0. /\ mailbox \in Seq(Named) /\ generation \in Nat /\ generation + 1 \in Nat
      /\ calls + 1 \in Nat /\ None \in Nat /\ 0 \in Nat
  BY DEF Shaped, Naming, Counted, None
<1>1. CASE CallStep
  <2>1. \E op \in {"start", "stop", "retry", "restart"}, arg \in Nat :
          mailbox' = Append(mailbox, Command(op, arg, 0))
    BY <1>0, <1>1, Zenon DEF CallStep, CallStart, CallStop, CallRetry, CallRestart, Queue
  <2>2. QED
    BY <1>0, <2>1, NamedMail, NamedCommands
<1>2. ASSUME NEW s \in Sockets, RouterRegisters(s) \/ SessionStep(s) PROVE mailbox' \in Seq(Named)
  <2>0. /\ Command("start", None, 0) \in Named /\ Command("disconnected", s, 0) \in Named
        /\ Command("stale", s, 0) \in Named /\ Command("connected", s, generation) \in Named
        /\ Command("connected", s, generation + 1) \in Named
    BY <1>0, NamedCommands DEF SocketCommands
  <2>1. CASE RouterRegisters(s)
    BY <1>0, <2>0, <2>1, NamedMail DEF RouterRegisters, Queue
  <2>2. Judge(s) => mailbox' \in Seq(Named)
    BY <1>0, <2>0, NamedMail DEF Judge, Refuse, Queue
  <2>3. CASE SessionReadsHello(s)
    BY <1>0, <2>2, <2>3 DEF SessionReadsHello
  <2>4. CASE SessionAdopts(s)
    <3>1. <<Command("start", None, 0), Command("connected", s, generation + 1)>> \in Seq(Named)
      BY <2>0
    <3>2. QED
      BY <1>0, <2>2, <2>4, <3>1, NamedMail DEF SessionAdopts
  <2>5. CASE SessionEnds(s)
    <3>1. <<Command("stale", s, 0)>> \in Seq(Named) /\ <<Command("disconnected", s, 0)>> \in Seq(Named)
          /\ <<>> \in Seq(Named)
      BY <2>0
    <3>2. QED
      BY <1>0, <2>5, <3>1, NamedMail DEF SessionEnds
  <2>6. QED
    BY <1>2, <2>1, <2>3, <2>4, <2>5 DEF SessionStep
<1>3. CASE SupervisorStep \/ BackoffPasses
  BY <1>0, <1>3, SupervisorTakes, NamedMail DEF TakesOne
<1>4. CASE ServerRestarts
  <2>1. mailbox' = <<>>
    BY <1>4, Zenon DEF ServerRestarts
  <2>2. QED
    BY <2>1
<1>5. CASE \/ HandlerStep \/ ProjectionArrives \/ DaemonStep \/ EnsureStep \/ LeftoverStep \/ JobStops \/ ChildEnds
           \/ TroubleStep \/ UNCHANGED vars
           \/ \E s \in Sockets : RouterSupersedes(s)
  BY <1>0, <1>5, OthersSendNothing
<1>6. QED
  BY <1>1, <1>2, <1>3, <1>4, <1>5 DEF DeviceNext, RouterStep

\* What a publication writes.
LEMMA PublicationsName ==
  ASSUME Shaped,
         \/ PublishStopped \/ PublishStopping \/ PublishFreshStart
         \/ PublishFailure \/ PublishDisconnected \/ Unpublished
         \/ Publish(TRUE, IF socket = None THEN "starting" ELSE status, socket)
         \/ Publish(desired, status, socket)
         \/ \E s \in Sockets : Publish(TRUE, "connected", s)
  PROVE  /\ socket' \in Sockets \cup {None} /\ status' \in Statuses /\ desired' \in BOOLEAN
<1>1. socket' \in Sockets \cup {None}
  BY DEF Shaped, Naming, PublishStopped, PublishStopping, PublishFreshStart, PublishFailure,
         PublishDisconnected, Unpublished, quiet, Publish
<1>2. status' \in Statuses
  BY DEF Shaped, Labelled, Statuses, PublishStopped, PublishStopping, PublishFreshStart, PublishFailure,
         PublishDisconnected, Unpublished, quiet, Publish
<1>3. desired' \in BOOLEAN
  BY Zenon DEF Shaped, Flagged, PublishStopped, PublishStopping, PublishFreshStart, PublishFailure,
         PublishDisconnected, Unpublished, quiet, Publish
<1>4. QED
  BY <1>1, <1>2, <1>3

\* The command the supervisor takes.
LEMMA HeadNamed ==
  ASSUME Shaped, NEW ops, Takes(ops)
  PROVE  /\ Head(mailbox) \in Named /\ Head(mailbox).op \in ops /\ TakesOne
         /\ Head(mailbox).op \in SocketCommands => Head(mailbox).arg \in Sockets
  BY NamedMail DEF Shaped, Naming, Takes, TakesOne, Named

\* What the supervisor may publish.
Publications ==
  \/ PublishStopped \/ PublishStopping \/ PublishFreshStart
  \/ PublishFailure \/ PublishDisconnected \/ Unpublished
  \/ Publish(TRUE, IF socket = None THEN "starting" ELSE status, socket)
  \/ Publish(desired, status, socket)
  \/ \E s \in Sockets : Publish(TRUE, "connected", s)

\* Whatever the supervisor does to the snapshot is one of its publications.
LEMMA SupervisorPublishes ==
  ASSUME Shaped, SupervisorStep \/ BackoffPasses
  PROVE  /\ Publications
         /\ connected' \in Sockets \cup {None} /\ superseded' \subseteq Sockets
<1>0. connected \in Sockets \cup {None} /\ superseded \subseteq Sockets
  BY DEF Shaped, Naming
<1> DEFINE Keeps == connected' \in Sockets \cup {None} /\ superseded' \subseteq Sockets
<1> USE DEF Publications
<1>1. ASSUME IdleTakes \/ IdleHalts \/ SupervisorChecks \/ SupervisorClears \/ CycleBegins \/ CycleAsks
             \/ StoppingTakes \/ StopSettles \/ BackoffPasses
      PROVE Publications /\ Keeps
  <2>1. Publications
    BY <1>1, Zenon DEF IdleTakes, IdleHalts, SupervisorChecks, SupervisorClears, CycleBegins, CycleAsks,
              StoppingTakes, StopSettles, BackoffPasses, Unpublished
  <2>2. Keeps
    BY <1>0, <1>1 DEF IdleTakes, IdleHalts, SupervisorChecks, SupervisorClears, CycleBegins, CycleAsks,
              StoppingTakes, StopSettles, BackoffPasses
  <2>3. QED
    BY <2>1, <2>2
<1>2. ASSUME RunningStops \/ RunningRetries \/ RunningRestarts \/ RunningStarts
             \/ RunningHearsDisconnected \/ RunningHearsStale
      PROVE Publications /\ Keeps
  <2>1. Publications
    BY <1>2, Zenon DEF RunningStops, RunningRetries, RunningRestarts, RunningStarts,
              RunningHearsDisconnected, RunningHearsStale, Unpublished
  <2>2. Keeps
    BY <1>0, <1>2 DEF RunningStops, RunningRetries, RunningRestarts, RunningStarts,
              RunningHearsDisconnected, RunningHearsStale
  <2>3. QED
    BY <2>1, <2>2
<1>3. ASSUME RunningHearsConnected PROVE Publications /\ Keeps
  <2>1. Takes({"connected"})
    BY <1>3 DEF RunningHearsConnected
  <2>2. Head(mailbox).arg \in Sockets
    BY <2>1, HeadNamed DEF SocketCommands
  <2>3. Publications
    BY <1>3, <2>2, Zenon DEF RunningHearsConnected
  <2>4. Keeps
    BY <1>0, <1>3, <2>2 DEF RunningHearsConnected, Supersede
  <2>5. QED
    BY <2>3, <2>4
<1>4. ASSUME EnsureSucceeded \/ EnsureFailed \/ SessionFailed \/ DeadlinePasses
      PROVE Publications /\ Keeps
  <2>1. Publications
    BY <1>4, Zenon DEF EnsureSucceeded, EnsureFailed, SessionFailed, DeadlinePasses, Unpublished
  <2>2. Keeps
    BY <1>0, <1>4 DEF EnsureSucceeded, EnsureFailed, SessionFailed, DeadlinePasses, Supersede, None
  <2>3. QED
    BY <2>1, <2>2
<1>5. QED
  BY <1>1, <1>2, <1>3, <1>4 DEF SupervisorStep

\* The names of connections that a step of the router, a session or the device sets.
LEMMA NamingKept == Shaped /\ [DeviceNext]_vars => Naming'
<1> SUFFICES ASSUME Shaped, [DeviceNext]_vars PROVE Naming'
  OBVIOUS
<1>0. /\ socket \in Sockets \cup {None} /\ connected \in Sockets \cup {None}
      /\ link \in Sockets \cup {None} /\ live \in Sockets \cup {None}
      /\ superseded \subseteq Sockets /\ mailbox' \in Seq(Named)
  BY MailboxKept DEF Shaped, Naming
<1> USE DEF Naming, snapshotVars, handleVars, supervisorVars, deviceVars, routerVars, callerVars
<1>1. CASE CallStep
  BY <1>0, <1>1 DEF CallStep, CallStart, CallStop, CallRetry, CallRestart, Publish, Unpublished, quiet
<1>2. CASE HandlerStep \/ ProjectionArrives
  BY <1>0, <1>2 DEF HandlerStep, HandlerReads, HandlerProjects, HandlerEvicts, ProjectionArrives,
                    EndConnection
<1>3. ASSUME NEW s \in Sockets, RouterStep(s) \/ SessionStep(s) PROVE Naming'
  <2>1. CASE RouterRegisters(s)
    BY <1>0, <2>1 DEF RouterRegisters
  <2>2. CASE RouterSupersedes(s)
    BY <1>0, <2>2 DEF RouterSupersedes
  <2>3. CASE SessionReadsHello(s) \/ SessionEnds(s)
    BY <1>0, <2>3 DEF SessionReadsHello, SessionEnds
  <2>4. CASE SessionAdopts(s)
    BY <1>0, <2>4 DEF SessionAdopts, Publish, Unpublished, quiet
  <2>5. QED
    BY <1>3, <2>1, <2>2, <2>3, <2>4 DEF RouterStep, SessionStep
<1>4. CASE DaemonStep
  BY <1>0, <1>4 DEF DaemonStep, DaemonConnects, DaemonHears, DaemonNotices, DaemonGone, deviceRest,
                    FreshSockets
<1>5. CASE EnsureStep \/ LeftoverStep \/ JobStops \/ ChildEnds
  <2>1. UNCHANGED <<socket, connected, live, superseded, mailbox>>
    BY <1>5 DEF EnsureStep, EnsureSends, EnsureDecides, EnsureStarts, LeftoverStep, LeftoverDecides,
                LeftoverStarts, LeftoverStops, leftoverRest, JobStops, ChildEnds, ensureRest
  <2>2. link' \in {link, None}
    BY <1>5, WorkEndsConnection DEF ChildEnds
  <2>3. QED
    BY <1>0, <2>1, <2>2
<1>6. CASE SupervisorStep \/ BackoffPasses
  BY <1>0, <1>6, SupervisorPublishes, SupervisorStaysAside, PublicationsName DEF Publications
<1>7. CASE TroubleStep
  BY <1>0, <1>7 DEF TroubleStep, HandlerTimesOut, LinkBreaks, DaemonDies, DaemonWedges, JobFails,
                    EnsureFails, DaemonGone, deviceRest, ensureRest
<1>8. CASE ServerRestarts
  BY <1>0, <1>8 DEF ServerRestarts
<1>9. CASE UNCHANGED vars
  BY <1>0, <1>9 DEF vars
<1>10. QED
  BY <1>1, <1>2, <1>3, <1>4, <1>5, <1>6, <1>7, <1>8, <1>9 DEF DeviceNext

\* The handlers that a request or a reply leaves are handlers.
LEMMA HandlersKnown ==
  /\ Free \in Handlers
  /\ \A step \in {"acked", "sent"} : [Free EXCEPT !.step = step] \in Handlers
  /\ \A n \in Nat : [Free EXCEPT !.step = "waiting", !.call = n] \in Handlers
  /\ \A n \in Nat : [step |-> "waiting", call |-> n, evicts |-> TRUE] \in Handlers
  /\ \A h \in Handlers : [h EXCEPT !.evicts = FALSE] \in Handlers
<1>1. Free \in Handlers
  BY DEF Free, Handlers
<1>2. \A h \in Handlers, step \in {"acked", "sent"} : [h EXCEPT !.step = step] \in Handlers
  BY DEF Handlers
<1>3. \A h \in Handlers, n \in Nat : [h EXCEPT !.step = "waiting", !.call = n] \in Handlers
  BY DEF Handlers
<1>4. \A h \in Handlers : [h EXCEPT !.evicts = FALSE] \in Handlers
  BY DEF Handlers
<1>5. \A n \in Nat : [step |-> "waiting", call |-> n, evicts |-> TRUE] \in Handlers
  BY DEF Handlers
<1>6. QED
  BY <1>1, <1>2, <1>3, <1>4, <1>5

\* A reply moves the handler that waits for it on.
LEMMA AckKeepsHandler ==
  ASSUME handler \in Handlers, Ack \/ UNCHANGED handler
  PROVE  handler' \in Handlers /\ handler'.evicts = handler.evicts
  BY DEF Handlers, Ack

\* The supervisor does no more than reply to a handler.
LEMMA SupervisorAcks == SupervisorStep \/ BackoffPasses => Ack \/ UNCHANGED handler
<1>1. ASSUME IdleTakes \/ IdleHalts \/ SupervisorChecks \/ SupervisorClears \/ CycleBegins \/ CycleAsks
             \/ StoppingTakes \/ StopSettles \/ BackoffPasses
      PROVE Ack \/ UNCHANGED handler
  BY <1>1, Zenon DEF IdleTakes, IdleHalts, SupervisorChecks, SupervisorClears, CycleBegins, CycleAsks,
              StoppingTakes, StopSettles, BackoffPasses
<1>2. ASSUME \/ RunningStops \/ RunningRetries \/ RunningRestarts \/ RunningStarts \/ RunningHearsConnected
             \/ RunningHearsDisconnected \/ RunningHearsStale
             \/ EnsureSucceeded \/ EnsureFailed \/ SessionFailed \/ DeadlinePasses
      PROVE Ack \/ UNCHANGED handler
  BY <1>2, Zenon DEF RunningStops, RunningRetries, RunningRestarts, RunningStarts, RunningHearsConnected,
              RunningHearsDisconnected, RunningHearsStale,
              EnsureSucceeded, EnsureFailed, SessionFailed, DeadlinePasses
<1>3. QED
  BY <1>1, <1>2 DEF SupervisorStep

\* What the supervisor itself goes through.
LEMMA SupervisorLabels ==
  ASSUME Shaped, SupervisorStep \/ BackoffPasses
  PROVE  /\ phase' \in {"idle", "halting", "check", "clear", "begin", "asking", "ensuring",
                        "watching", "backoff", "parked", "stopping"}
         /\ child' \in {"none", "alive", "ended"} /\ job' \in {"none", "running", "done", "failed"}
<1>0. /\ phase \in {"idle", "halting", "check", "clear", "begin", "asking", "ensuring",
                    "watching", "backoff", "parked", "stopping"}
      /\ child \in {"none", "alive", "ended"} /\ job \in {"none", "running", "done", "failed"}
  BY DEF Shaped, Labelled
<1> USE DEF EndsCycle
<1>1. ASSUME IdleTakes \/ IdleHalts \/ SupervisorChecks \/ SupervisorClears \/ CycleBegins \/ CycleAsks
             \/ StoppingTakes \/ StopSettles \/ BackoffPasses
      PROVE /\ phase' \in {"idle", "halting", "check", "clear", "begin", "asking", "ensuring",
                           "watching", "backoff", "parked", "stopping"}
            /\ child' \in {"none", "alive", "ended"} /\ job' \in {"none", "running", "done", "failed"}
  BY <1>0, <1>1 DEF IdleTakes, IdleHalts, SupervisorChecks, SupervisorClears, CycleBegins, CycleAsks,
              StoppingTakes, DropsJob, StopSettles, BackoffPasses
<1>2. ASSUME RunningStops \/ RunningRetries \/ RunningRestarts \/ RunningStarts \/ RunningHearsConnected
             \/ RunningHearsDisconnected \/ RunningHearsStale
      PROVE /\ phase' \in {"idle", "halting", "check", "clear", "begin", "asking", "ensuring",
                           "watching", "backoff", "parked", "stopping"}
            /\ child' \in {"none", "alive", "ended"} /\ job' \in {"none", "running", "done", "failed"}
  BY <1>0, <1>2 DEF RunningStops, RunningRetries, RunningRestarts, RunningStarts, RunningHearsConnected,
              RunningHearsDisconnected, RunningHearsStale
<1>3. ASSUME EnsureSucceeded \/ EnsureFailed \/ SessionFailed \/ DeadlinePasses
      PROVE /\ phase' \in {"idle", "halting", "check", "clear", "begin", "asking", "ensuring",
                           "watching", "backoff", "parked", "stopping"}
            /\ child' \in {"none", "alive", "ended"} /\ job' \in {"none", "running", "done", "failed"}
  BY <1>0, <1>3 DEF EnsureSucceeded, EnsureFailed, SessionFailed, DeadlinePasses
<1>4. QED
  BY <1>1, <1>2, <1>3 DEF SupervisorStep

\* Phases, states and steps stay among those there are.
LEMMA LabelledKept == Shaped /\ [DeviceNext]_vars => Labelled'
<1> SUFFICES ASSUME Shaped, [DeviceNext]_vars PROVE Labelled'
  OBVIOUS
<1>0. Labelled /\ calls + 1 \in Nat /\ 0 \in Nat
  BY DEF Shaped, Counted
<1> USE DEF Labelled, snapshotVars, handleVars, supervisorVars, deviceVars, routerVars, callerVars
<1>1. CASE CallStep
  <2>1. handler' \in Handlers
    BY <1>0, <1>1, HandlersKnown DEF CallStep, CallStart, CallStop, CallRetry, CallRestart
  <2>2. status' \in Statuses
    BY <1>0, <1>1 DEF CallStep, CallStart, CallStop, CallRetry, CallRestart, Publish, Unpublished, quiet,
                      Statuses
  <2>3. UNCHANGED <<phase, child, job, daemon>>
    BY <1>1 DEF CallStep, CallStart, CallStop, CallRetry, CallRestart
  <2>4. QED
    BY <1>0, <2>1, <2>2, <2>3
<1>2. CASE HandlerStep \/ ProjectionArrives
  BY <1>0, <1>2, HandlersKnown DEF HandlerStep, HandlerReads, HandlerProjects, HandlerEvicts,
                                   ProjectionArrives
<1>3. ASSUME NEW s \in Sockets, RouterStep(s) \/ SessionStep(s) PROVE Labelled'
  <2>1. CASE RouterStep(s)
    BY <1>0, <2>1 DEF RouterStep, RouterRegisters, RouterSupersedes
  <2>2. CASE SessionReadsHello(s) \/ SessionEnds(s)
    BY <1>0, <2>2 DEF SessionReadsHello, SessionEnds
  <2>3. CASE SessionAdopts(s)
    BY <1>0, <2>3 DEF SessionAdopts, Publish, Unpublished, quiet, Statuses
  <2>4. QED
    BY <1>3, <2>1, <2>2, <2>3 DEF SessionStep
<1>4. CASE DaemonStep
  BY <1>0, <1>4 DEF DaemonStep, DaemonConnects, DaemonHears, DaemonNotices, DaemonGone, deviceRest
<1>5. CASE EnsureStep \/ LeftoverStep \/ JobStops \/ ChildEnds
  BY <1>0, <1>5 DEF EnsureStep, EnsureSends, EnsureDecides, EnsureStarts, DaemonWakes,
         LeftoverStep, LeftoverDecides, LeftoverStarts, LeftoverStops, leftoverRest, JobStops, ChildEnds,
         DaemonGone, ensureRest, Builds
<1>6. CASE SupervisorStep \/ BackoffPasses
  <2>1. handler' \in Handlers
    BY <1>0, <1>6, SupervisorAcks, AckKeepsHandler
  <2>2. status' \in Statuses
    BY <1>6, SupervisorPublishes, PublicationsName DEF Publications
  <2>3. UNCHANGED daemon
    BY <1>6, SupervisorStaysAside
  <2>4. QED
    BY <1>0, <1>6, <2>1, <2>2, <2>3, SupervisorLabels
<1>7. CASE TroubleStep
  BY <1>0, <1>7, HandlersKnown DEF TroubleStep, HandlerTimesOut, LinkBreaks, DaemonDies, DaemonWedges,
                    JobFails, EnsureFails, DaemonGone, deviceRest, ensureRest
<1>8. CASE ServerRestarts
  BY <1>0, <1>8, HandlersKnown DEF ServerRestarts, Statuses
<1>9. CASE UNCHANGED vars
  BY <1>0, <1>9 DEF vars
<1>10. QED
  BY <1>1, <1>2, <1>3, <1>4, <1>5, <1>6, <1>7, <1>8, <1>9 DEF DeviceNext

\* Flags stay flags.
LEMMA FlaggedKept == Shaped /\ [DeviceNext]_vars => Flagged'
<1> SUFFICES ASSUME Shaped, [DeviceNext]_vars PROVE Flagged'
  OBVIOUS
<1>0. Flagged
  BY DEF Shaped
<1> USE DEF Flagged, snapshotVars, handleVars, supervisorVars, deviceVars, routerVars, callerVars
<1>1. CASE CallStep
  BY <1>0, <1>1, Zenon DEF CallStep, CallStart, CallStop, CallRetry, CallRestart, Publish, Unpublished,
                    quiet
<1>2. CASE HandlerStep \/ ProjectionArrives
  BY <1>0, <1>2, Zenon DEF HandlerStep, HandlerReads, HandlerProjects, HandlerEvicts, ProjectionArrives
<1>3. ASSUME NEW s \in Sockets, RouterStep(s) \/ SessionStep(s) PROVE Flagged'
  BY <1>0, <1>3, Zenon DEF RouterStep, RouterRegisters, RouterSupersedes, SessionStep, SessionReadsHello,
                    SessionEnds, SessionAdopts, Publish, Unpublished, quiet
<1>4. CASE DaemonStep
  BY <1>0, <1>4, Zenon DEF DaemonStep, DaemonConnects, DaemonHears, DaemonNotices, DaemonGone, deviceRest
<1>5. CASE EnsureStep \/ LeftoverStep \/ JobStops \/ ChildEnds
  BY <1>0, <1>5, Zenon DEF EnsureStep, EnsureSends, EnsureDecides, EnsureStarts, DaemonWakes,
         LeftoverStep, LeftoverDecides, LeftoverStarts, LeftoverStops, leftoverRest, JobStops, ChildEnds,
         DaemonGone, ensureRest
<1>6. CASE SupervisorStep \/ BackoffPasses
  <2>1. desired' \in BOOLEAN
    BY <1>6, SupervisorPublishes, PublicationsName DEF Publications
  <2>2. wedged' \in BOOLEAN
    BY <1>0, <1>6, SupervisorStaysAside
  <2>3. mayRun' \in BOOLEAN /\ replaceNext' \in BOOLEAN
    <3>1. ASSUME IdleTakes \/ IdleHalts \/ SupervisorChecks \/ SupervisorClears \/ CycleBegins
                 \/ CycleAsks \/ StoppingTakes \/ StopSettles \/ BackoffPasses
          PROVE mayRun' \in BOOLEAN /\ replaceNext' \in BOOLEAN
      BY <1>0, <3>1, Zenon DEF IdleTakes, IdleHalts, SupervisorChecks, SupervisorClears, CycleBegins,
                  CycleAsks, StoppingTakes, StopSettles, BackoffPasses
    <3>2. ASSUME RunningStops \/ RunningRetries \/ RunningRestarts \/ RunningStarts
                 \/ RunningHearsConnected \/ RunningHearsDisconnected \/ RunningHearsStale
          PROVE mayRun' \in BOOLEAN /\ replaceNext' \in BOOLEAN
      BY <1>0, <3>2, Zenon DEF RunningStops, RunningRetries, RunningRestarts, RunningStarts,
                  RunningHearsConnected, RunningHearsDisconnected, RunningHearsStale
    <3>3. ASSUME EnsureSucceeded \/ EnsureFailed \/ SessionFailed \/ DeadlinePasses
          PROVE mayRun' \in BOOLEAN /\ replaceNext' \in BOOLEAN
      BY <1>0, <3>3, Zenon DEF EnsureSucceeded, EnsureFailed, SessionFailed, DeadlinePasses
    <3>4. QED
      BY <1>6, <3>1, <3>2, <3>3 DEF SupervisorStep
  <2>4. QED
    BY <2>1, <2>2, <2>3
<1>7. CASE TroubleStep
  BY <1>0, <1>7, Zenon DEF TroubleStep, HandlerTimesOut, LinkBreaks, DaemonDies, DaemonWedges, JobFails,
                    EnsureFails, DaemonGone, deviceRest, ensureRest
<1>8. CASE ServerRestarts
  BY <1>0, <1>8, Zenon DEF ServerRestarts
<1>9. CASE UNCHANGED vars
  BY <1>0, <1>9, Zenon DEF vars
<1>10. QED
  BY <1>1, <1>2, <1>3, <1>4, <1>5, <1>6, <1>7, <1>8, <1>9 DEF DeviceNext

\* Dropping a step or a job leaves at most one piece of work behind.
LeavesOne == \E kind \in Leftovers : Leaves(kind)

LEMMA AbandonedLeavesOne == Abandoned => left' = left \/ LeavesOne
<1>1. SUFFICES ASSUME Abandoned PROVE left' = left \/ LeavesOne
  OBVIOUS
<1>2. CASE ensure.step = "sent"
  BY <1>1, <1>2 DEF Abandoned, LeavesOne, Leftovers
<1>3. CASE ensure.step = "cleared"
  BY <1>1, <1>3 DEF Abandoned, LeavesOne, Leftovers
<1>4. CASE ensure.step \notin {"sent", "cleared"}
  BY <1>1, <1>4 DEF Abandoned
<1>5. QED
  BY <1>2, <1>3, <1>4

\* ... and nobody else does.
LEMMA SupervisorLeaves == SupervisorStep \/ BackoffPasses => left' = left \/ LeavesOne
<1> USE AbandonedLeavesOne DEF EndsCycle
<1>1. ASSUME IdleTakes \/ IdleHalts \/ SupervisorChecks \/ SupervisorClears \/ CycleBegins \/ CycleAsks
             \/ StopSettles \/ BackoffPasses
      PROVE left' = left
  BY <1>1 DEF IdleTakes, IdleHalts, SupervisorChecks, SupervisorClears, CycleBegins, CycleAsks,
              StopSettles, BackoffPasses
<1>2. ASSUME RunningStops \/ RunningRetries \/ RunningRestarts \/ RunningStarts \/ RunningHearsConnected
             \/ RunningHearsDisconnected \/ RunningHearsStale PROVE left' = left \/ LeavesOne
  BY <1>2, Zenon DEF RunningStops, RunningRetries, RunningRestarts, RunningStarts, RunningHearsConnected,
              RunningHearsDisconnected, RunningHearsStale
<1>3. ASSUME EnsureSucceeded \/ EnsureFailed \/ SessionFailed \/ DeadlinePasses
      PROVE left' = left \/ LeavesOne
  BY <1>3, Zenon DEF EnsureSucceeded, EnsureFailed, SessionFailed, DeadlinePasses
<1>4. ASSUME StoppingTakes PROVE left' = left \/ LeavesOne
  <2>1. DropsJob => left' = left \/ LeavesOne
    BY DEF DropsJob, LeavesOne, Leftovers
  <2>2. QED
    BY <1>4, <2>1, Zenon DEF StoppingTakes
<1>5. QED
  BY <1>1, <1>2, <1>3, <1>4 DEF SupervisorStep

\* What was abandoned stays counted.
LEMMA LeavingKept == Shaped /\ [DeviceNext]_vars => Leaving'
<1> SUFFICES ASSUME Shaped, [DeviceNext]_vars PROVE Leaving'
  OBVIOUS
<1>0. Leaving
  BY DEF Shaped
<1> USE DEF deviceVars
<1>1. ASSUME left' = left \/ LeavesOne PROVE Leaving'
  BY <1>0, <1>1 DEF Leaving, LeavesOne, Leaves
<1>2. CASE CallStep \/ HandlerStep \/ ProjectionArrives \/ UNCHANGED vars
  BY <1>1, <1>2 DEF CallStep, CallStart, CallStop, CallRetry, CallRestart, HandlerStep, HandlerReads,
                    HandlerProjects, HandlerEvicts, ProjectionArrives, vars
<1>3. CASE \E s \in Sockets : RouterStep(s) \/ SessionStep(s)
  BY <1>1, <1>3 DEF RouterStep, RouterRegisters, RouterSupersedes, SessionStep, SessionReadsHello,
                    SessionAdopts, SessionEnds
<1>4. CASE DaemonStep \/ EnsureStep \/ JobStops \/ ChildEnds
  BY <1>1, <1>4 DEF DaemonStep, DaemonConnects, DaemonHears, DaemonNotices, deviceRest, EnsureStep,
                    EnsureSends, EnsureDecides, EnsureStarts, JobStops, ChildEnds
<1>5. CASE LeftoverStep
  BY <1>0, <1>5 DEF LeftoverStep, LeftoverDecides, LeftoverStarts, LeftoverStops, Leaving, Leftovers
<1>6. CASE SupervisorStep \/ BackoffPasses
  BY <1>1, <1>6, SupervisorLeaves
<1>7. CASE TroubleStep
  <2>1. CASE HandlerTimesOut \/ LinkBreaks \/ DaemonDies \/ DaemonWedges
    BY <1>1, <2>1 DEF HandlerTimesOut, LinkBreaks, DaemonDies, DaemonWedges, deviceRest
  <2>2. CASE JobFails
    BY <1>1, <2>2 DEF JobFails, LeavesOne, Leftovers
  <2>3. CASE EnsureFails
    BY <1>1, <2>3, AbandonedLeavesOne, Zenon DEF EnsureFails
  <2>4. QED
    BY <1>7, <2>1, <2>2, <2>3 DEF TroubleStep
<1>8. CASE ServerRestarts
  <2>1. left' = left \/ LeavesOne
    BY <1>8, AbandonedLeavesOne DEF ServerRestarts, LeavesOne, Leftovers
  <2>2. QED
    BY <1>1, <2>1
<1>9. QED
  BY <1>2, <1>3, <1>4, <1>5, <1>6, <1>7, <1>8 DEF DeviceNext

\* All of it holds in every reachable state.
LEMMA ShapedHolds == DeviceSpec => []Shaped
<1>1. DeviceInit => Shaped
  <2> SUFFICES ASSUME DeviceInit PROVE Shaped
    OBVIOUS
  <2>1. 0 \in Generations /\ Unused \in Connections
    BY DeviceAssumption DEF Unused, Connections, Generations, Builds
  <2>2. Counted
    BY <2>1, DeviceAssumption DEF DeviceInit, Counted, None
  <2>3. Naming /\ Connected
    BY <2>1 DEF DeviceInit, Naming, Connected, None
  <2>4. Labelled
    BY HandlersKnown DEF DeviceInit, Labelled, Statuses, Builds
  <2>5. Flagged
    BY Zenon DEF DeviceInit, Flagged
  <2>6. Leaving
    BY DEF DeviceInit, Leaving
  <2>7. QED
    BY <2>2, <2>3, <2>4, <2>5, <2>6 DEF Shaped
<1>2. Shaped /\ [DeviceNext]_vars => Shaped'
  <2>1. ASSUME Shaped, [DeviceNext]_vars
        PROVE  Counted' /\ Naming' /\ Connected' /\ Labelled' /\ Flagged' /\ Leaving'
    <3>1. Counted
      BY <2>1 DEF Shaped
    <3>2. QED
      BY <2>1, <3>1, CountedKept, NamingKept, ConnectedKept, LabelledKept, FlaggedKept,
         LeavingKept
  <2>2. QED
    BY <2>1 DEF Shaped
<1>3. QED
  BY <1>1, <1>2, PTL DEF DeviceSpec

\* The shared snapshot, the supervisor, the device and every connection stay in
\* their domains, and the attempts, reports and cycles of a run are numbered
\* within what was asked and adopted, for any number of connections and events.
\* This is about WatchdogSnapshot and attempt_generation.
THEOREM DeviceTypeCorrect == DeviceSpec => []DeviceTypeOK
<1>1. Shaped => DeviceTypeOK
  <2> SUFFICES ASSUME Shaped PROVE DeviceTypeOK
    OBVIOUS
  <2>1. generation \in Generations
    BY DeviceAssumption DEF Shaped, Counted, Generations
  <2>2. \A i \in DOMAIN mailbox :
          mailbox[i].op \in {"start", "stop", "retry", "restart"} \cup SocketCommands
    <3>1. \A i \in DOMAIN mailbox : mailbox[i] \in Named
      BY DEF Shaped, Naming
    <3>2. QED
      BY <3>1 DEF Named, Commands
  <2>3. \A s \in Sockets : conns[s].gen \in Generations /\ conns[s].net \in {"open", "closed", "silent"}
    BY DEF Shaped, Connected, Connections
  <2>4. desired \in BOOLEAN /\ mayRun \in BOOLEAN /\ replaceNext \in BOOLEAN /\ wedged \in BOOLEAN
    BY DEF Shaped, Flagged
  <2>5. QED
    BY <2>1, <2>2, <2>3, <2>4, Zenon DEF DeviceTypeOK, Shaped, Counted, Naming, Labelled, Leaving
<1>2. QED
  BY <1>1, ShapedHolds, PTL

-----------------------------------------------------------------------------
(* The supervisor and the router agree *)

\* A hello's command, and one the supervisor would still heed.
HelloOf(i, s) == mailbox[i].op = "connected" /\ mailbox[i].arg = s
Current(i, s) == HelloOf(i, s) /\ mailbox[i].gen = generation

HeardAfter(j, s) == \E i \in DOMAIN mailbox : i > j /\ Current(i, s)
EndsAfter(j, s) ==
  \E i \in DOMAIN mailbox : i > j /\ mailbox[i].op = "disconnected" /\ mailbox[i].arg = s

\* A connection before its hello is judged.
Waits(s) == conns[s].state \in {"hello", "adopting"}

\* The one a hello is from is new to everybody, and nobody else waits for an answer.
NewOnesAreNew ==
  /\ \A s \in Sockets : Waits(s) =>
       /\ s # socket /\ s # live
       /\ \A i \in DOMAIN mailbox : mailbox[i].op \in {"connected", "disconnected"} => mailbox[i].arg # s
  /\ \A s, t \in Sockets :
       /\ conns[s].state \in {"hello", "adopting", "admitted"}
       /\ conns[t].state \in {"hello", "adopting", "admitted"}
       => s = t

\* Only a connection that is over is reported as ended, and the router's never is.
EndedOnesAreOver ==
  /\ \A i \in DOMAIN mailbox : mailbox[i].op = "disconnected" =>
       conns[mailbox[i].arg].state \in {"unused", "gone"}
  /\ live # None => conns[live].state = "registered"

\* Attempts are numbered from 1, and a hello is admitted for one that was made.
AttemptsAreNumbered ==
  /\ \A s \in Sockets : conns[s].state = "admitted" =>
       /\ conns[s].gen \in 1 .. generation
       /\ \A i \in DOMAIN mailbox : HelloOf(i, s) => mailbox[i].gen = conns[s].gen
  /\ \A i \in DOMAIN mailbox : mailbox[i].op = "connected" => mailbox[i].gen <= generation
  /\ generation = 0 =>
       /\ phase = "idle" /\ mailbox = <<>> /\ ~desired /\ socket = None /\ live = None
       /\ \A s \in Sockets : conns[s].state \notin {"admitted", "registered"}

\* The supervisor need not be told of s: the router has it or will, or it is on its way out.
Sound(s) ==
  \/ conns[s].state = "admitted"
  \/ /\ conns[s].state = "registered"
     /\ live = s \/ conns[s].told = "exit" \/ conns[s].net # "open"

\* A connection the supervisor holds or will hear of is sound or will be heard to end.
SocketsAreCovered ==
  /\ socket # None => Sound(socket) \/ EndsAfter(0, socket)
  /\ \A i \in DOMAIN mailbox : mailbox[i].op = "connected" =>
       Sound(mailbox[i].arg) \/ EndsAfter(i, mailbox[i].arg)
  /\ phase \in Resting /\ socket # None => 1 \in DOMAIN mailbox /\ mailbox[1].op = "start"

\* A supervisor that rests while the device is wanted is woken before it hears a hello.
WokenBeforeHearing ==
  phase \in Resting /\ desired =>
    \A i \in DOMAIN mailbox : mailbox[i].op = "connected" /\ mailbox[i].gen = generation =>
      \E j \in DOMAIN mailbox : j < i /\ mailbox[j].op \in Wakes

\* After what is queued of these commands the supervisor hears of s.
HeardLast(s, ops) ==
  \A j \in DOMAIN mailbox :
    mailbox[j].op \in ops \/ (mailbox[j].op = "connected" /\ mailbox[j].arg # s) => HeardAfter(j, s)

\* A hello admitted for this attempt is known, or heard of after all else, or the
\* device is not wanted until another attempt is made.
AdmittedAreHeard ==
  \A s \in Sockets : conns[s].state = "admitted" /\ conns[s].gen = generation =>
    /\ \/ socket = s
       \/ HeardAfter(0, s)
       \/ ~desired /\ phase \in Resting \cup {"check", "clear"}
    /\ HeardLast(s, {"stop", "retry"})

\* The router is about to let go of its connection ...
Ending ==
  \/ projected > 0 \/ handler.evicts \/ phase = "halting"
  \/ \E j \in DOMAIN mailbox :
       /\ mailbox[j].op = "stop"
       /\ phase # "stopping" \/ \E k \in DOMAIN mailbox : k < j /\ mailbox[k].op \in Wakes
\* ... or to take another ...
Replaced == \E t \in Sockets : conns[t].state = "admitted"
\* ... or the supervisor has the same, or hears of it after all else.
Shared(s) ==
  /\ desired
  /\ socket = s \/ HeardAfter(0, s)
  /\ HeardLast(s, {"retry"})

LiveIsShared == live # None => Ending \/ Replaced \/ Shared(live)

Agreement ==
  /\ NewOnesAreNew /\ EndedOnesAreOver /\ AttemptsAreNumbered /\ SocketsAreCovered
  /\ WokenBeforeHearing /\ AdmittedAreHeard /\ LiveIsShared

-----------------------------------------------------------------------------
(* What each actor's step is to that *)

\* A connection that nobody registers, ends or opens: it is told or closed at most,
\* and told when the router lets go of it.
Milder(old, new) ==
  /\ new.state = old.state /\ new.gen = old.gen
  /\ old.told = "exit" => new.told = "exit"
  /\ old.net # "open" => new.net # "open"
CalmAt(t) ==
  \/ Milder(conns[t], conns'[t]) /\ (live = t /\ live' # t => conns'[t].told = "exit")
  \/ conns[t].state = "gone" /\ conns'[t].state = "unused"

\* Forgetting what is over is calm.
LEMMA KeptIsCalm ==
  ASSUME NEW c \in [Sockets -> Connections], NEW used, NEW t \in Sockets,
         Milder(conns[t], c[t])
  PROVE  \/ Milder(conns[t], Kept(c, used)[t])
         \/ conns[t].state = "gone" /\ Kept(c, used)[t].state = "unused"
  BY DEF Kept, Milder, Unused

\* So are the end of a connection and the notice to exit.
LEMMA ClosedIsCalm ==
  ASSUME Shaped, NEW net \in {"closed", "silent"}, NEW t \in Sockets
  PROVE  /\ Milder(conns[t], Closed(net)[t])
         /\ Milder(conns[t], conns[t])
         /\ \A s \in Sockets : Milder(conns[t], [conns EXCEPT ![s].told = "exit"][t])
<1>0. conns \in [Sockets -> Connections] /\ link \in Sockets \cup {None}
  BY DEF Shaped, Connected, Naming
<1>1. Milder(conns[t], conns[t])
  BY DEF Milder
<1>2. ASSUME NEW s \in Sockets PROVE Milder(conns[t], [conns EXCEPT ![s].told = "exit"][t])
  BY <1>0 DEF Milder, Connections
<1>3. Milder(conns[t], Closed(net)[t])
  <2>1. CASE link = None \/ conns[link].net # "open"
    BY <1>1, <2>1 DEF Closed
  <2>2. CASE link \in Sockets /\ conns[link].net = "open"
    <3>1. Closed(net) = [conns EXCEPT ![link].net = net]
      BY <2>2, DeviceAssumption DEF Closed, None
    <3>2. QED
      BY <1>0, <2>2, <3>1 DEF Milder, Connections
  <2>3. QED
    BY <1>0, <2>1, <2>2
<1>4. QED
  BY <1>1, <1>2, <1>3

\* What the device, the projection and the handlers' calls of the router do.
Passes ==
  /\ UNCHANGED <<mailbox, phase, generation, desired, socket>>
  /\ live' = None \/ (live' = live /\ projected' = projected /\ handler'.evicts = handler.evicts)

Opens(s) ==
  /\ conns[s].state = "unused" /\ ~Mentioned(s) /\ ~Unanswered
  /\ conns'[s].state = "hello"

\* Commands that are queued behind the others.
Grown(new) ==
  /\ \A i \in DOMAIN mailbox : i \in DOMAIN mailbox' /\ mailbox'[i] = mailbox[i]
  /\ \A i \in DOMAIN mailbox' :
       i \in DOMAIN mailbox \/ (mailbox'[i] \in new /\ \A j \in DOMAIN mailbox : i > j)
  /\ \A c \in new : \E i \in DOMAIN mailbox' : mailbox'[i] = c /\ \A j \in DOMAIN mailbox : i > j

\* The first is taken, and the others move up.
Shrunk ==
  /\ 1 \in DOMAIN mailbox
  /\ \A i \in DOMAIN mailbox' : i + 1 \in DOMAIN mailbox /\ mailbox'[i] = mailbox[i + 1]
  /\ \A i \in DOMAIN mailbox : i = 1 \/ (i - 1 \in DOMAIN mailbox' /\ mailbox'[i - 1] = mailbox[i])

\* One command queued ...
LEMMA QueueGrows ==
  ASSUME NEW c, mailbox \in Seq(Named), mailbox' = Append(mailbox, c) PROVE Grown({c})
<1>1. /\ Len(mailbox) + 1 \in DOMAIN mailbox' /\ mailbox'[Len(mailbox) + 1] = c
      /\ \A i \in DOMAIN mailbox : i \in DOMAIN mailbox' /\ mailbox'[i] = mailbox[i] /\ Len(mailbox) + 1 > i
      /\ \A i \in DOMAIN mailbox' : i \in DOMAIN mailbox \/ i = Len(mailbox) + 1
  OBVIOUS
<1>2. QED
  BY <1>1 DEF Grown

\* ... or two ...
LEMMA QueueGrowsTwice ==
  ASSUME NEW c, NEW d, mailbox \in Seq(Named), mailbox' = Append(Append(mailbox, c), d)
  PROVE  Grown({c, d})
<1>1. /\ Len(mailbox) + 1 \in DOMAIN mailbox' /\ mailbox'[Len(mailbox) + 1] = c
      /\ Len(mailbox) + 2 \in DOMAIN mailbox' /\ mailbox'[Len(mailbox) + 2] = d
      /\ \A i \in DOMAIN mailbox : /\ i \in DOMAIN mailbox' /\ mailbox'[i] = mailbox[i]
                                   /\ Len(mailbox) + 1 > i /\ Len(mailbox) + 2 > i
      /\ \A i \in DOMAIN mailbox' : i \in DOMAIN mailbox \/ i = Len(mailbox) + 1 \/ i = Len(mailbox) + 2
  OBVIOUS
<1>2. QED
  BY <1>1 DEF Grown

\* ... and one taken.
LEMMA TakingShrinks ==
  ASSUME mailbox \in Seq(Named), TakesOne
  PROVE  Shrunk /\ Head(mailbox) = mailbox[1]
  BY DEF Shrunk, TakesOne

\* The device, the projection and the handlers open, register and end nothing.
LEMMA OthersPass ==
  ASSUME Shaped,
         \/ HandlerStep \/ ProjectionArrives \/ TroubleStep \/ EnsureStep \/ LeftoverStep \/ JobStops \/ ChildEnds
         \/ DaemonHears \/ DaemonNotices \/ UNCHANGED vars
         \/ \E s \in Sockets : RouterSupersedes(s)
  PROVE  Passes /\ \A t \in Sockets : CalmAt(t)
<1>0. /\ conns \in [Sockets -> Connections] /\ live \in Sockets \cup {None} /\ handler \in Handlers
      /\ None \notin Sockets
  BY DeviceAssumption DEF Shaped, Connected, Naming, Labelled, None
<1> DEFINE Goal == Passes /\ \A t \in Sockets : CalmAt(t)
<1> USE DEF snapshotVars, handleVars, supervisorVars, deviceVars, routerVars, callerVars, deviceRest, ensureRest
<1>1. ASSUME conns' = conns, live' = live PROVE \A t \in Sockets : CalmAt(t)
  BY <1>1, ClosedIsCalm DEF CalmAt
<1>2. ASSUME EndConnection PROVE \A t \in Sockets : CalmAt(t)
  <2>1. CASE live = None
    BY <1>1, <1>2, <2>1 DEF EndConnection
  <2>2. CASE live \in Sockets
    <3>1. conns' = [conns EXCEPT ![live].told = "exit"]
      BY <1>0, <1>2, <2>2 DEF EndConnection, Told
    <3>2. ASSUME NEW t \in Sockets PROVE CalmAt(t)
      BY <1>0, <2>2, <3>1, ClosedIsCalm DEF CalmAt, Connections
    <3>3. QED
      BY <3>2
  <2>3. QED
    BY <1>0, <2>1, <2>2
<1>3. ASSUME live' = live, NEW net \in {"closed", "silent"}, NEW u,
             conns' \in {Closed(net), Kept(Closed(net), u)}
      PROVE \A t \in Sockets : CalmAt(t)
  BY <1>3, ChangedConnections, ClosedIsCalm, KeptIsCalm DEF CalmAt
<1>4. ASSUME live' = live, DaemonGone PROVE \A t \in Sockets : CalmAt(t)
  BY <1>3, <1>4 DEF DaemonGone
<1>5. CASE HandlerReads
  <2>1. handler'.evicts = handler.evicts
    BY <1>0, <1>5 DEF HandlerReads, Free, Handlers
  <2>2. QED
    BY <1>1, <1>5, <2>1 DEF HandlerReads, Passes
<1>6. CASE HandlerProjects \/ HandlerEvicts \/ ProjectionArrives
  <2>1. EndConnection /\ live' = None /\ UNCHANGED <<mailbox, phase, generation, desired, socket>>
    BY <1>6 DEF HandlerProjects, HandlerEvicts, ProjectionArrives, EndConnection
  <2>2. QED
    BY <1>2, <2>1 DEF Passes
<1>7. CASE HandlerTimesOut
  <2>1. handler'.evicts = handler.evicts
    BY <1>0, <1>7 DEF HandlerTimesOut, Free, Handlers
  <2>2. QED
    BY <1>1, <1>7, <2>1 DEF HandlerTimesOut, Passes
<1>8. CASE JobFails \/ EnsureFails \/ ChildEnds \/ EnsureSends \/ EnsureStarts \/ LeftoverStarts
  BY <1>1, <1>8 DEF JobFails, EnsureFails, ChildEnds, EnsureSends, EnsureStarts, LeftoverStarts,
                    leftoverRest, Passes
<1>9. CASE LinkBreaks
  <2>1. \E net \in {"closed", "silent"} : conns' = Closed(net)
    BY <1>9 DEF LinkBreaks
  <2>2. QED
    BY <1>3, <1>9, <2>1 DEF LinkBreaks, Passes
<1>10. CASE DaemonDies \/ DaemonHears \/ JobStops \/ LeftoverStops
  BY <1>4, <1>10 DEF DaemonDies, DaemonHears, JobStops, LeftoverStops, leftoverRest, Passes
<1>11. CASE DaemonWedges
  BY <1>3, <1>11 DEF DaemonWedges, Passes
<1>12. CASE DaemonNotices
  <2>1. conns' = Kept(conns, None) /\ live' = live
    BY <1>12 DEF DaemonNotices
  <2>2. \A t \in Sockets : CalmAt(t)
    BY <1>0, <2>1, ClosedIsCalm, KeptIsCalm DEF CalmAt
  <2>3. QED
    BY <1>12, <2>2 DEF DaemonNotices, Passes
<1>13. CASE EnsureDecides \/ LeftoverDecides
  <2>1. UNCHANGED <<mailbox, phase, generation, desired, socket, live, projected, handler>>
    BY <1>13 DEF EnsureDecides, LeftoverDecides, leftoverRest
  <2>2. conns' = conns \/ conns' = Kept(Closed("closed"), None)
    BY <1>13, WorkEndsConnection DEF EnsureStep, LeftoverStep
  <2>3. QED
    BY <1>1, <1>3, <1>4, <2>1, <2>2 DEF Passes
<1>14. ASSUME NEW s \in Sockets, RouterSupersedes(s) PROVE Goal
  <2>1. UNCHANGED <<mailbox, phase, generation, desired, socket, projected, handler>>
    BY <1>14 DEF RouterSupersedes
  <2>2. CASE live = s
    <3>1. live' = None /\ conns' = [conns EXCEPT ![s].told = "exit"]
      BY <1>14, <2>2 DEF RouterSupersedes, Told
    <3>2. ASSUME NEW t \in Sockets PROVE CalmAt(t)
      BY <1>0, <2>2, <3>1, ClosedIsCalm DEF CalmAt, Connections
    <3>3. QED
      BY <2>1, <3>1, <3>2 DEF Passes
  <2>3. CASE live # s
    BY <1>1, <1>14, <2>1, <2>3 DEF RouterSupersedes, Passes
  <2>4. QED
    BY <2>2, <2>3
<1>15. CASE UNCHANGED vars
  BY <1>1, <1>15 DEF vars, Passes
<1>16. QED
  BY <1>5, <1>6, <1>7, <1>8, <1>9, <1>10, <1>11, <1>12, <1>13, <1>14, <1>15
     DEF HandlerStep, TroubleStep, EnsureStep, LeftoverStep

\* The daemon opens the one connection nobody mentions.
LEMMA DaemonOpens ==
  ASSUME Shaped, NEW s \in Sockets, DaemonConnects(s)
  PROVE  /\ UNCHANGED <<mailbox, phase, generation, desired, socket, live, projected, handler>>
         /\ Opens(s) /\ \A t \in Sockets \ {s} : CalmAt(t)
<1>0. conns \in [Sockets -> Connections]
  BY DEF Shaped, Connected
<1>1. UNCHANGED <<mailbox, phase, generation, desired, socket, live, projected, handler>>
  BY DEF DaemonConnects, deviceRest, snapshotVars, handleVars, supervisorVars, routerVars
<1>2. conns' = [conns EXCEPT ![s] = [Unused EXCEPT !.state = "hello", !.build = daemon]]
  BY DEF DaemonConnects
<1>3. Opens(s)
  BY <1>0, <1>2 DEF DaemonConnects, FreshSockets, Opens, Unused
<1>4. \A t \in Sockets \ {s} : CalmAt(t)
  BY <1>0, <1>1, <1>2, ClosedIsCalm DEF CalmAt
<1>5. QED
  BY <1>1, <1>3, <1>4

Over(s) == conns'[s].state \in {"unused", "gone"}

\* The router takes the connection, and it is the one it has.
Registers(s) ==
  /\ conns[s].state = "admitted" /\ conns'[s].state = "registered"
  /\ live' = s /\ desired /\ generation = conns[s].gen
  /\ UNCHANGED <<mailbox, desired, socket, generation, projected, handler>>
\* It refuses it, and has none.
Rejects(s) ==
  /\ conns[s].state = "admitted" /\ Over(s) /\ live' = None
  /\ Grown({Command("disconnected", s, 0)})
  /\ UNCHANGED <<desired, socket, generation>>
\* A hello is refused, or waits for an adoption.
Declines(s) ==
  /\ Waits(s) /\ Over(s)
  /\ UNCHANGED <<mailbox, live, desired, socket, generation, projected, handler>>
Ponders(s) ==
  /\ Waits(s) /\ Waits(s)'
  /\ UNCHANGED <<mailbox, live, desired, socket, generation, projected, handler>>
\* It is admitted for the attempt there is ...
Admits(s) ==
  /\ Waits(s) /\ conns'[s].state = "admitted" /\ conns'[s].gen = generation /\ desired
  /\ Grown({Command("connected", s, generation)})
  /\ UNCHANGED <<live, desired, socket, generation, projected, handler>>
\* ... or for one that it makes.
Adopts(s) ==
  /\ Waits(s) /\ conns'[s].state = "admitted" /\ conns'[s].gen = generation'
  /\ generation = 0 /\ generation' = 1 /\ desired' /\ socket' = s
  /\ mailbox' = mailbox \o <<Command("start", None, 0), Command("connected", s, 1)>>
  /\ UNCHANGED live
\* A registered connection ends.
Closes(s) ==
  /\ conns[s].state = "registered" /\ Over(s)
  /\ live' = IF live = s THEN None ELSE live
  /\ \/ Grown({Command("disconnected", s, 0)})
     \/ Grown({Command("stale", s, 0), Command("disconnected", s, 0)})
  /\ UNCHANGED <<desired, socket, generation, projected, handler>>

\* A registration or a session does one of these to its connection.
LEMMA ConnectionsMove ==
  ASSUME Shaped, NEW s \in Sockets, RouterRegisters(s) \/ SessionStep(s)
  PROVE  /\ UNCHANGED phase
         /\ \A t \in Sockets \ {s} : CalmAt(t)
         /\ \/ Registers(s) \/ Rejects(s) \/ Declines(s) \/ Ponders(s)
            \/ Admits(s) \/ Adopts(s) \/ Closes(s)
<1>0. /\ conns \in [Sockets -> Connections] /\ live \in Sockets \cup {None} /\ None \notin Sockets
      /\ mailbox \in Seq(Named) /\ desired \in BOOLEAN /\ s # None
  BY DeviceAssumption DEF Shaped, Connected, Naming, Flagged, None
<1> DEFINE Others == \A t \in Sockets \ {s} : CalmAt(t)
<1> USE DEF snapshotVars, handleVars, supervisorVars, deviceVars, routerVars, callerVars
<1>1. ASSUME NEW c \in [Sockets -> Connections],
             live' = live \/ live = s,
             \A t \in Sockets \ {s} : c[t] = conns[t],
             NEW u, conns' = c \/ conns' = Kept(c, u)
      PROVE Others
  <2>1. ASSUME NEW t \in Sockets \ {s} PROVE CalmAt(t)
    <3>1. Milder(conns[t], c[t])
      BY <1>1, <2>1 DEF Milder
    <3>2. live = t => live' = t
      BY <1>1, <2>1
    <3>3. QED
      BY <1>1, <2>1, <3>1, <3>2, KeptIsCalm DEF CalmAt
  <2>2. QED
    BY <2>1
<1>2. ASSUME NEW c \in [Sockets -> Connections], NEW u, conns' = Kept(c, u), c[s].state = "gone"
      PROVE Over(s)
  BY <1>2 DEF Kept, Over, Unused
<1>3. ASSUME RouterRegisters(s) PROVE Others /\ UNCHANGED phase /\ (Registers(s) \/ Rejects(s))
  <2> DEFINE evicted == IF live = None THEN conns ELSE [conns EXCEPT ![live].told = "exit"]
  <2>1. /\ conns[s].state = "admitted"
        /\ UNCHANGED <<phase, desired, socket, generation, projected, handler>>
    BY <1>3 DEF RouterRegisters
  <2>2. /\ evicted \in [Sockets -> Connections]
        /\ \A t \in Sockets : Milder(conns[t], evicted[t]) /\ (live = t => evicted[t].told = "exit")
    <3>1. CASE live = None
      BY <1>0, <3>1, ClosedIsCalm
    <3>2. CASE live \in Sockets
      <4>1. evicted = [conns EXCEPT ![live].told = "exit"]
        BY <1>0, <3>2
      <4>2. QED
        BY <1>0, <3>2, <4>1, ClosedIsCalm, ChangedConnections DEF Connections
    <3>3. QED
      BY <1>0, <3>1, <3>2
  <2>3. CASE desired /\ generation = conns[s].gen
    <3>1. /\ live' = s /\ UNCHANGED mailbox
          /\ conns' = [evicted EXCEPT ![s].state = "registered", ![s].gen = 0]
      BY <1>3, <2>3 DEF RouterRegisters
    <3> HIDE DEF evicted
    <3>2. \A t \in Sockets \ {s} : conns'[t] = evicted[t]
      BY <2>2, <3>1
    <3>3. conns'[s].state = "registered"
      BY <2>2, <3>1 DEF Connections
    <3>4. Others
      BY <2>2, <3>2 DEF CalmAt
    <3>5. QED
      BY <2>1, <2>3, <3>1, <3>3, <3>4 DEF Registers
  <2>4. CASE ~(desired /\ generation = conns[s].gen)
    <3> DEFINE dropped == [evicted EXCEPT ![s].state = "gone", ![s].gen = 0, ![s].told = "exit"]
    <3>1. live' = None /\ mailbox' = Append(mailbox, Command("disconnected", s, 0))
          /\ conns' = Kept(dropped, link)
      BY <1>3, <2>4 DEF RouterRegisters, Queue
    <3> HIDE DEF evicted
    <3>2. /\ \A t \in Sockets \ {s} : dropped[t] = evicted[t]
          /\ dropped[s].state = "gone"
      BY <2>2 DEF Connections
    <3> HIDE DEF dropped
    <3>3. Over(s)
      BY <3>1, <3>2 DEF Kept, Over, Unused
    <3>4. ASSUME NEW t \in Sockets \ {s} PROVE CalmAt(t)
      <4>1. Milder(conns[t], dropped[t]) /\ (live = t => dropped[t].told = "exit")
        BY <2>2, <3>2, <3>4
      <4>2. conns'[t] = IF dropped[t].state = "gone" /\ t # link THEN Unused ELSE dropped[t]
        BY <3>1 DEF Kept
      <4>3. QED
        BY <4>1, <4>2 DEF CalmAt, Milder, Unused
    <3>5. QED
      BY <1>0, <2>1, <3>1, <3>3, <3>4, QueueGrows DEF Rejects
  <2>5. QED
    BY <2>3, <2>4
<1>4. ASSUME Waits(s), Refuse(s), UNCHANGED <<live, desired, socket, generation, projected, handler>>
      PROVE Others /\ Declines(s)
  <2> DEFINE c == [conns EXCEPT ![s].state = "gone", ![s].told = "exit"]
  <2>1. c \in [Sockets -> Connections] /\ c[s].state = "gone" /\ \A t \in Sockets \ {s} : c[t] = conns[t]
    BY <1>0 DEF Connections
  <2>2. conns' = Kept(c, link) /\ UNCHANGED mailbox
    BY <1>4 DEF Refuse
  <2> HIDE DEF c
  <2>3. QED
    BY <1>1, <1>2, <1>4, <2>1, <2>2 DEF Declines
<1>5. ASSUME Waits(s), Judge(s), UNCHANGED <<live, desired, socket, generation, projected, handler>>
      PROVE Others /\ (Declines(s) \/ Admits(s))
  <2>1. CASE Refuse(s)
    BY <1>4, <1>5, <2>1
  <2>2. CASE ~Refuse(s)
    <3>1. /\ desired /\ mailbox' = Append(mailbox, Command("connected", s, generation))
          /\ conns' = [conns EXCEPT ![s].state = "admitted", ![s].gen = generation]
      BY <1>5, <2>2 DEF Judge, Queue
    <3>2. /\ conns'[s].state = "admitted" /\ conns'[s].gen = generation
          /\ \A t \in Sockets \ {s} : conns'[t] = conns[t]
      BY <1>0, <3>1 DEF Connections
    <3>3. Others
      BY <1>5, <3>2, ClosedIsCalm DEF CalmAt
    <3>4. QED
      BY <1>0, <1>5, <3>1, <3>2, <3>3, QueueGrows DEF Admits
  <2>3. QED
    BY <2>1, <2>2
<1>6. ASSUME SessionReadsHello(s) PROVE Others /\ UNCHANGED phase /\ (Ponders(s) \/ Declines(s) \/ Admits(s))
  <2>1. /\ Waits(s) /\ UNCHANGED <<phase, live, desired, socket, generation, projected, handler>>
    BY <1>6 DEF SessionReadsHello, Waits
  <2>2. CASE Untouched
    <3>1. conns' = [conns EXCEPT ![s].state = "adopting"] /\ UNCHANGED mailbox
      BY <1>6, <2>2 DEF SessionReadsHello
    <3>2. conns'[s].state = "adopting" /\ \A t \in Sockets \ {s} : conns'[t] = conns[t]
      BY <1>0, <3>1 DEF Connections
    <3>3. QED
      BY <2>1, <3>1, <3>2, ClosedIsCalm DEF Ponders, Waits, CalmAt
  <2>3. CASE ~Untouched
    BY <1>5, <1>6, <2>1, <2>3 DEF SessionReadsHello
  <2>4. QED
    BY <2>2, <2>3
<1>7. ASSUME SessionAdopts(s) PROVE Others /\ UNCHANGED phase /\ (Adopts(s) \/ Declines(s) \/ Admits(s))
  <2>1. Waits(s) /\ UNCHANGED <<phase, live, handler>>
    BY <1>7 DEF SessionAdopts, Waits
  <2>2. CASE Untouched
    <3>1. /\ generation = 0 /\ generation' = generation + 1
          /\ desired' = TRUE /\ socket' = s
          /\ mailbox' = mailbox \o <<Command("start", None, 0), Command("connected", s, generation + 1)>>
          /\ conns' = [conns EXCEPT ![s].state = "admitted", ![s].gen = generation + 1]
      BY <1>7, <2>2 DEF SessionAdopts, Untouched, NewAttempt, Publish
    <3>2. /\ conns'[s].state = "admitted" /\ conns'[s].gen = generation + 1
          /\ \A t \in Sockets \ {s} : conns'[t] = conns[t]
      BY <1>0, <3>1 DEF Connections
    <3>3. generation + 1 = 1
      BY <3>1
    <3>4. Adopts(s)
      BY <2>1, <3>1, <3>2, <3>3 DEF Adopts
    <3>5. QED
      BY <2>1, <3>2, <3>4, ClosedIsCalm DEF CalmAt
  <2>3. CASE ~Untouched
    <3>1. Judge(s) /\ UNCHANGED <<desired, socket, generation, projected>>
      BY <1>7, <2>3 DEF SessionAdopts, Unpublished, quiet
    <3>2. QED
      BY <1>5, <2>1, <3>1
  <2>4. QED
    BY <2>2, <2>3
<1>8. ASSUME SessionEnds(s) PROVE Others /\ UNCHANGED phase /\ Closes(s)
  <2> DEFINE c == [conns EXCEPT ![s].state = "gone"]
  <2>1. c \in [Sockets -> Connections] /\ c[s].state = "gone" /\ \A t \in Sockets \ {s} : c[t] = conns[t]
    BY <1>0 DEF Connections
  <2>2. /\ conns[s].state = "registered" /\ conns' = Kept(c, link)
        /\ live' = IF live = s THEN None ELSE live
        /\ UNCHANGED <<phase, desired, socket, generation, projected, handler>>
    BY <1>8 DEF SessionEnds
  <2> HIDE DEF c
  <2>3. \/ Grown({Command("disconnected", s, 0)})
        \/ Grown({Command("stale", s, 0), Command("disconnected", s, 0)})
    <3>1. CASE conns[s].net = "silent"
      <4>1. mailbox' = mailbox \o <<Command("stale", s, 0)>> \o <<Command("disconnected", s, 0)>>
        BY <1>8, <3>1 DEF SessionEnds
      <4>2. mailbox' = Append(Append(mailbox, Command("stale", s, 0)), Command("disconnected", s, 0))
        BY <1>0, <4>1
      <4>3. QED
        BY <1>0, <4>2, QueueGrowsTwice
    <3>2. CASE conns[s].net # "silent"
      <4>1. mailbox' = mailbox \o <<>> \o <<Command("disconnected", s, 0)>>
        BY <1>8, <3>2 DEF SessionEnds
      <4>2. mailbox' = Append(mailbox, Command("disconnected", s, 0))
        BY <1>0, <4>1
      <4>3. QED
        BY <1>0, <4>2, QueueGrows
    <3>3. QED
      BY <3>1, <3>2
  <2>4. QED
    BY <1>1, <1>2, <2>1, <2>2, <2>3 DEF Closes
<1>9. QED
  BY <1>3, <1>6, <1>7, <1>8 DEF SessionStep

\* A command of this kind, which names nobody's connection, is queued.
Sends(op) == \E c \in Named : c.op = op /\ Grown({c})

\* A request of a user queues its command.  Only a start of a device that is wanted
\* and a restart make no attempt.
Requests ==
  /\ UNCHANGED <<conns, live, phase>> /\ projected' >= projected
  /\ handler.evicts => handler'.evicts
  /\ \/ Sends("start") /\ desired /\ UNCHANGED <<desired, socket, generation>>
     \/ Sends("start") /\ ~desired /\ socket' = None /\ generation' = generation + 1
     \/ Sends("stop") /\ UNCHANGED socket /\ generation' = generation + 1 /\ ~desired'
     \/ /\ Sends("retry") /\ UNCHANGED socket /\ generation' = generation + 1 /\ ~desired'
        /\ handler'.evicts
     \/ Sends("restart") /\ desired /\ UNCHANGED <<desired, socket, generation>>

\* Every call of a handler is such a request.
LEMMA CallsRequest ==
  ASSUME Shaped, Typed, CallStep
  PROVE  Requests
<1>0. /\ mailbox \in Seq(Named) /\ calls + 1 \in Nat /\ None \in Nat /\ projected \in Nat
  BY DEF Shaped, Naming, Counted, Labelled, None, Typed
<1>1. /\ Command("start", None, 0) \in Named /\ Command("restart", None, 0) \in Named
      /\ Command("stop", calls + 1, 0) \in Named /\ Command("retry", calls + 1, 0) \in Named
      /\ \A op, arg, gen : Command(op, arg, gen).op = op
  BY <1>0, NamedCommands DEF Command
<1>2. ASSUME NEW op, NEW arg, Command(op, arg, 0) \in Named, Queue(Command(op, arg, 0)) PROVE Sends(op)
  <2>1. Grown({Command(op, arg, 0)})
    BY <1>0, <1>2, QueueGrows DEF Queue
  <2>2. QED
    BY <1>1, <1>2, <2>1, Zenon DEF Sends
<1>3. handler = Free => ~handler.evicts
  BY DEF Free
<1> USE DEF snapshotVars, handleVars, supervisorVars, deviceVars, routerVars, callerVars
<1>4. CASE CallStart
  <2>1. /\ UNCHANGED <<conns, live, phase>> /\ ~handler.evicts
        /\ Sends("start")
    BY <1>0, <1>3, <1>4, <1>1, <1>2 DEF CallStart, CanCall
  <2>2. CASE desired
    <3>1. UNCHANGED <<desired, socket, generation, projected>>
      BY <1>4, <2>2 DEF CallStart, Unpublished, quiet
    <3>2. QED
      BY <1>0, <1>1, <2>1, <2>2, <3>1 DEF Requests
  <2>3. CASE ~desired
    <3>1. socket' = None /\ generation' = generation + 1 /\ projected' >= projected
      BY <1>0, <1>4, <2>3 DEF CallStart, NewAttempt, Publish
    <3>2. QED
      BY <1>0, <1>1, <2>1, <2>3, <3>1 DEF Requests
  <2>4. QED
    BY <2>2, <2>3
<1>5. CASE CallStop
  <2>1. /\ UNCHANGED <<conns, live, phase, projected, socket>> /\ ~handler.evicts
        /\ Sends("stop")
        /\ generation' = generation + 1 /\ desired' = FALSE
    BY <1>0, <1>3, <1>5, <1>1, <1>2 DEF CallStop, CanCall, NewAttempt
  <2>2. QED
    BY <1>0, <1>1, <2>1 DEF Requests
<1>6. CASE CallRetry
  <2>1. /\ UNCHANGED <<conns, live, phase, projected, socket>> /\ handler'.evicts
        /\ Sends("retry")
        /\ generation' = generation + 1 /\ desired' = FALSE
    BY <1>0, <1>3, <1>6, <1>1, <1>2 DEF CallRetry, CanCall, NewAttempt
  <2>2. QED
    BY <1>0, <1>1, <2>1 DEF Requests
<1>7. CASE CallRestart
  <2>1. /\ UNCHANGED <<conns, live, phase, projected, socket, generation, desired, handler>> /\ desired
        /\ Sends("restart")
    BY <1>0, <1>3, <1>7, <1>1, <1>2 DEF CallRestart
  <2>2. QED
    BY <1>0, <1>1, <2>1 DEF Requests
<1>8. QED
  BY <1>4, <1>5, <1>6, <1>7 DEF CallStep

\* The supervisor takes the first command, of one of these kinds.
TakesFirst(ops) == Shrunk /\ mailbox[1].op \in ops

\* It publishes the end of the connection and rests, or is about to ...
Rests ==
  /\ ~desired' /\ socket' = None /\ projected' > 0 /\ phase' \in Resting \cup {"clear"}
  /\ \/ UNCHANGED mailbox /\ phase \in {"halting", "clear", "stopping"}
     \/ TakesFirst({"stop"}) /\ phase \notin Resting \cup {"check", "clear"}
\* ... or will, after a Stop while it rests.
Halting ==
  /\ phase = "idle" /\ phase' = "halting" /\ TakesFirst({"stop"}) /\ UNCHANGED <<desired, socket>>
\* It is woken, or told to start while it is at work.
Starts ==
  /\ TakesFirst({"start"}) /\ UNCHANGED <<desired, socket>>
  /\ phase \notin {"halting", "clear", "check"} /\ phase' \notin Resting \cup {"clear"}
  /\ phase \in Resting => phase' = "check"
Retries ==
  /\ TakesFirst({"retry"}) /\ desired' /\ socket' = None
  /\ phase \notin {"halting", "clear", "check"} /\ phase' = "check"
\* It rests on.
PassesOver ==
  /\ phase \in {"idle", "stopping"} /\ UNCHANGED <<phase, desired, socket>>
  /\ TakesFirst({"restart"} \cup SocketCommands) \/ (phase = "stopping" /\ TakesFirst({"stop"}))
\* It decides whether to run ...
Decides ==
  /\ phase = "check" /\ UNCHANGED <<mailbox, desired, socket>>
  /\ phase' = IF desired THEN "begin" ELSE "clear"
\* ... runs a cycle ...
GoesOn ==
  /\ phase \notin Resting \cup {"check", "clear"} /\ phase' \notin Resting \cup {"clear"}
  /\ UNCHANGED mailbox \/ TakesFirst({"restart", "stale"})
  /\ desired => desired'
  /\ UNCHANGED socket
\* ... and hears of connections.
HearsHello ==
  /\ phase \notin Resting \cup {"check", "clear"} /\ UNCHANGED phase /\ TakesFirst({"connected"})
  /\ IF mailbox[1].gen = generation THEN desired' /\ socket' = mailbox[1].arg
                                    ELSE UNCHANGED <<desired, socket>>
HearsEnd ==
  /\ phase \notin Resting \cup {"check", "clear"} /\ UNCHANGED <<phase, desired>>
  /\ TakesFirst({"disconnected"})
  /\ socket' = IF mailbox[1].arg = socket THEN None ELSE socket
\* A stop that failed is repeated.
RunsStopAgain == UNCHANGED <<mailbox, phase, desired, socket>>

SupervisorMoves ==
  \/ Rests \/ Halting \/ Starts \/ Retries \/ PassesOver \/ Decides \/ GoesOn
  \/ HearsHello \/ HearsEnd \/ RunsStopAgain

\* So the supervisor moves while it rests or begins ...
LEMMA RestingMoves ==
  ASSUME Shaped, Typed, \/ IdleTakes \/ IdleHalts \/ SupervisorClears \/ StoppingTakes \/ StopSettles
                        \/ SupervisorChecks \/ CycleBegins \/ CycleAsks \/ BackoffPasses
  PROVE  SupervisorMoves
<1>0. mailbox \in Seq(Named) /\ projected \in Nat
  BY DEF Shaped, Naming, Typed
<1> USE DEF SupervisorMoves
<1>1. ASSUME NEW ops, Takes(ops) PROVE TakesFirst(ops)
  BY <1>0, <1>1, TakingShrinks DEF Takes, TakesOne, TakesFirst
<1>2. ASSUME PublishStopped \/ PublishStopping PROVE ~desired' /\ socket' = None /\ projected' > 0
  BY <1>0, <1>2 DEF PublishStopped, PublishStopping, Publish, Ends
<1>3. PublishFreshStart => desired' /\ socket' = None
  BY DEF PublishFreshStart, Publish
<1>4. Unpublished => UNCHANGED <<desired, socket>>
  BY DEF Unpublished, quiet
<1>5. CASE IdleTakes
  <2>1. CASE Takes({"start"}) /\ phase' = "check" /\ Unpublished
    BY <1>1, <1>4, <1>5, <2>1 DEF IdleTakes, Starts, Resting
  <2>2. CASE Takes({"retry"}) /\ phase' = "check" /\ PublishFreshStart
    BY <1>1, <1>3, <1>5, <2>2 DEF IdleTakes, Retries
  <2>3. CASE Takes({"stop"}) /\ phase' = "halting" /\ Unpublished
    BY <1>1, <1>4, <1>5, <2>3 DEF IdleTakes, Halting
  <2>4. CASE Takes({"restart"} \cup SocketCommands) /\ Unpublished /\ UNCHANGED phase
    BY <1>1, <1>4, <1>5, <2>4 DEF IdleTakes, PassesOver
  <2>5. QED
    BY <1>5, <2>1, <2>2, <2>3, <2>4 DEF IdleTakes
<1>6. CASE IdleHalts
  BY <1>2, <1>6 DEF IdleHalts, Rests, Resting
<1>7. CASE SupervisorClears
  BY <1>2, <1>7 DEF SupervisorClears, Rests, Resting, handleVars
<1>8. CASE StoppingTakes
  <2>1. CASE Takes({"start"}) /\ phase' = "check" /\ Unpublished
    BY <1>1, <1>4, <1>8, <2>1 DEF StoppingTakes, Starts, Resting
  <2>2. CASE Takes({"retry"}) /\ phase' = "check" /\ PublishFreshStart
    BY <1>1, <1>3, <1>8, <2>2 DEF StoppingTakes, Retries
  <2>3. CASE Takes({"stop"}) /\ Unpublished /\ UNCHANGED phase
    BY <1>1, <1>4, <1>8, <2>3 DEF StoppingTakes, PassesOver
  <2>4. CASE Takes({"restart"} \cup SocketCommands) /\ Unpublished /\ UNCHANGED phase
    BY <1>1, <1>4, <1>8, <2>4 DEF StoppingTakes, PassesOver
  <2>5. QED
    BY <1>8, <2>1, <2>2, <2>3, <2>4 DEF StoppingTakes
<1>9. CASE StopSettles
  <2>1. UNCHANGED mailbox /\ phase = "stopping"
    BY <1>9 DEF StopSettles
  <2>2. CASE phase' = "idle" /\ PublishStopped
    BY <1>2, <2>1, <2>2 DEF Rests, Resting
  <2>3. CASE Publish(desired, status, socket) /\ UNCHANGED phase
    BY <2>1, <2>3 DEF Publish, RunsStopAgain
  <2>4. QED
    BY <1>9, <2>2, <2>3 DEF StopSettles
<1>10. CASE SupervisorChecks
  BY <1>10 DEF SupervisorChecks, Decides, quiet, handleVars
<1>11. CASE CycleBegins
  BY <1>11 DEF CycleBegins, GoesOn, Resting, Publish
<1>12. CASE CycleAsks \/ BackoffPasses
  BY <1>12 DEF CycleAsks, BackoffPasses, GoesOn, Resting, quiet, handleVars
<1>13. QED
  BY <1>5, <1>6, <1>7, <1>8, <1>9, <1>10, <1>11, <1>12

\* ... while a cycle runs ...
LEMMA WorkingMoves ==
  ASSUME Shaped, Typed, \/ RunningStops \/ RunningRetries \/ RunningRestarts \/ RunningStarts
                        \/ RunningHearsConnected \/ RunningHearsDisconnected \/ RunningHearsStale
                        \/ EnsureSucceeded \/ EnsureFailed \/ SessionFailed \/ DeadlinePasses
  PROVE  SupervisorMoves
<1>0. mailbox \in Seq(Named) /\ projected \in Nat
  BY DEF Shaped, Naming, Typed
<1> USE DEF SupervisorMoves
<1>1. ASSUME NEW ops, Takes(ops) PROVE TakesFirst(ops) /\ Head(mailbox) = mailbox[1]
  BY <1>0, <1>1, TakingShrinks DEF Takes, TakesOne, TakesFirst
<1>2. ASSUME PublishStopped \/ PublishStopping PROVE ~desired' /\ socket' = None /\ projected' > 0
  BY <1>0, <1>2 DEF PublishStopped, PublishStopping, Publish, Ends
<1>3. PublishFreshStart => desired' /\ socket' = None
  BY DEF PublishFreshStart, Publish
<1>4. Unpublished => UNCHANGED <<desired, socket>>
  BY DEF Unpublished, quiet
<1>5. PublishFailure => (desired => desired') /\ UNCHANGED socket
  BY <1>4 DEF PublishFailure, Publish
<1>6. \A next : EndsCycle(next) => phase' = next
  BY DEF EndsCycle
<1>7. Running => phase \notin Resting \cup {"check", "clear", "halting"}
  BY DEF Running, Resting
<1>8. CASE RunningStops
  BY <1>1, <1>2, <1>6, <1>7, <1>8 DEF RunningStops, Rests, Resting
<1>9. CASE RunningRetries
  BY <1>1, <1>3, <1>6, <1>7, <1>9 DEF RunningRetries, Retries
<1>10. CASE RunningRestarts
  BY <1>1, <1>6, <1>7, <1>10 DEF RunningRestarts, GoesOn, quiet, Resting, TakesFirst
<1>11. CASE RunningStarts
  BY <1>1, <1>6, <1>7, <1>11 DEF RunningStarts, Starts, quiet, Resting
<1>12. CASE RunningHearsConnected
  <2>1. TakesFirst({"connected"}) /\ UNCHANGED phase /\ Running /\ Head(mailbox) = mailbox[1]
    BY <1>1, <1>12 DEF RunningHearsConnected
  <2>2. IF mailbox[1].gen = generation THEN desired' /\ socket' = mailbox[1].arg
                                       ELSE UNCHANGED <<desired, socket>>
    BY <1>4, <1>12, <2>1 DEF RunningHearsConnected, Publish
  <2>3. QED
    BY <1>7, <2>1, <2>2 DEF HearsHello
<1>13. CASE RunningHearsDisconnected
  <2>1. TakesFirst({"disconnected"}) /\ UNCHANGED phase /\ Running /\ Head(mailbox) = mailbox[1]
    BY <1>1, <1>13 DEF RunningHearsDisconnected
  <2>2. UNCHANGED desired /\ socket' = IF mailbox[1].arg = socket THEN None ELSE socket
    BY <1>4, <1>13, <2>1 DEF RunningHearsDisconnected, PublishDisconnected, Publish
  <2>3. QED
    BY <1>7, <2>1, <2>2 DEF HearsEnd
<1>14. CASE RunningHearsStale
  <2>1. TakesFirst({"restart", "stale"}) /\ Running
    BY <1>1, <1>14 DEF RunningHearsStale, TakesFirst
  <2>2. (desired => desired') /\ UNCHANGED socket
    BY <1>4, <1>5, <1>14 DEF RunningHearsStale
  <2>3. phase' \in {phase, "backoff"}
    BY <1>6, <1>14 DEF RunningHearsStale
  <2>4. QED
    BY <1>7, <2>1, <2>2, <2>3 DEF GoesOn, Resting
<1>15. CASE EnsureSucceeded
  BY <1>15 DEF EnsureSucceeded, GoesOn, Resting, quiet
<1>16. CASE EnsureFailed
  <2>1. phase' \in {"parked", "backoff"} /\ phase = "ensuring" /\ PublishFailure /\ UNCHANGED mailbox
    BY <1>6, <1>16 DEF EnsureFailed, handleVars
  <2>2. QED
    BY <1>5, <2>1 DEF GoesOn, Resting
<1>17. CASE SessionFailed \/ DeadlinePasses
  <2>1. phase' = "backoff" /\ phase = "watching" /\ PublishFailure /\ UNCHANGED mailbox
    BY <1>6, <1>17 DEF SessionFailed, DeadlinePasses, handleVars
  <2>2. QED
    BY <1>5, <2>1 DEF GoesOn, Resting
<1>18. QED
  BY <1>8, <1>9, <1>10, <1>11, <1>12, <1>13, <1>14, <1>15, <1>16, <1>17

\* ... and always; the rest it leaves alone.
LEMMA SupervisorsMove ==
  ASSUME Shaped, Typed, SupervisorStep \/ BackoffPasses
  PROVE  /\ UNCHANGED <<generation, conns, live>> /\ handler'.evicts = handler.evicts
         /\ projected' >= projected
         /\ SupervisorMoves
<1>1. UNCHANGED <<generation, conns, live>>
  BY SupervisorStaysAside
<1>2. handler'.evicts = handler.evicts
  BY SupervisorAcks, AckKeepsHandler DEF Shaped, Labelled
<1>3. projected' >= projected
  BY SupervisorPublishes, PublishesMore DEF Publications
<1>4. SupervisorMoves
  BY RestingMoves, WorkingMoves DEF SupervisorStep
<1>5. QED
  BY <1>1, <1>2, <1>3, <1>4

Quiet == Passes /\ \A t \in Sockets : CalmAt(t)
Opening(s) ==
  /\ UNCHANGED <<mailbox, phase, generation, desired, socket, live, projected, handler>>
  /\ Opens(s) /\ \A t \in Sockets \ {s} : CalmAt(t)
Moving(s) ==
  /\ UNCHANGED phase /\ \A t \in Sockets \ {s} : CalmAt(t)
  /\ \/ Registers(s) \/ Rejects(s) \/ Declines(s) \/ Ponders(s)
     \/ Admits(s) \/ Adopts(s) \/ Closes(s)
Supervising ==
  /\ UNCHANGED <<generation, conns, live>> /\ handler'.evicts = handler.evicts
  /\ projected' >= projected
  /\ SupervisorMoves
\* The next server begins with nothing.
Forgets ==
  /\ ~desired' /\ generation' = 0 /\ socket' = None /\ live' = None
  /\ mailbox' = <<>> /\ phase' = "idle"
  /\ \A t \in Sockets : Over(t)

\* Every step is one of these.
LEMMA EveryStep ==
  ASSUME Shaped, Typed, [DeviceNext]_vars
  PROVE  \/ Quiet \/ Requests \/ Supervising \/ Forgets
         \/ \E s \in Sockets : Opening(s) \/ Moving(s)
<1>1. CASE \/ HandlerStep \/ ProjectionArrives \/ TroubleStep \/ EnsureStep \/ LeftoverStep \/ JobStops \/ ChildEnds
           \/ DaemonHears \/ DaemonNotices \/ UNCHANGED vars
           \/ \E s \in Sockets : RouterSupersedes(s)
  BY <1>1, OthersPass DEF Quiet
<1>2. CASE \E s \in Sockets : DaemonConnects(s)
  BY <1>2, DaemonOpens DEF Opening
<1>3. CASE \E s \in Sockets : RouterRegisters(s) \/ SessionStep(s)
  BY <1>3, ConnectionsMove DEF Moving
<1>4. CASE CallStep
  BY <1>4, CallsRequest
<1>5. CASE SupervisorStep \/ BackoffPasses
  BY <1>5, SupervisorsMove DEF Supervising
<1>6. CASE ServerRestarts
  <2>1. /\ desired' = FALSE /\ generation' = 0 /\ socket' = None /\ live' = None
        /\ mailbox' = <<>> /\ phase' = "idle"
    BY <1>6, Zenon DEF ServerRestarts
  <2>2. ASSUME NEW t \in Sockets PROVE Over(t)
    <3>1. conns \in [Sockets -> Connections]
      BY DEF Shaped, Connected
    <3>2. [conns[t] EXCEPT !.state = "gone", !.gen = 0, !.net = "closed"].state = "gone"
      BY <3>1 DEF Connections
    <3>3. QED
      BY <1>6, <3>2 DEF ServerRestarts, Kept, Over, Unused
  <2>3. QED
    BY <2>1, <2>2 DEF Forgets
<1>7. QED
  BY <1>1, <1>2, <1>3, <1>4, <1>5, <1>6 DEF DeviceNext, RouterStep, DaemonStep

-----------------------------------------------------------------------------
(* Places in the mailbox *)

\* What is queued has a place and its fields.
LEMMA Places ==
  ASSUME Shaped, NEW i \in DOMAIN mailbox
  PROVE  /\ i \in Nat \ {0} /\ mailbox[i] \in Named /\ mailbox[i].gen \in Nat
         /\ mailbox[i].op \in SocketCommands => mailbox[i].arg \in Sockets
<1>1. mailbox \in Seq(Named)
  BY DEF Shaped, Naming
<1>2. i \in Nat \ {0} /\ mailbox[i] \in Named
  BY <1>1
<1>3. QED
  BY <1>2 DEF Named, Commands

\* What is queued stays in its place when more is queued.
Keeps == \A i \in DOMAIN mailbox : i \in DOMAIN mailbox' /\ mailbox'[i] = mailbox[i]

\* What is heard of is heard of when more is queued ...
LEMMA HeardGrows ==
  ASSUME Keeps, generation' = generation, NEW j, NEW s
  PROVE  HeardAfter(j, s) => HeardAfter(j, s)'
  BY DEF Keeps, HeardAfter, Current, HelloOf

\* So is an end that is queued.
LEMMA EndsGrow ==
  ASSUME Keeps, NEW j, NEW s
  PROVE  EndsAfter(j, s) => EndsAfter(j, s)'
  BY DEF Keeps, EndsAfter

\* ... and when the first command is taken, unless it is that one.
LEMMA HeardShrinks ==
  ASSUME Shaped, Shrunk, generation' = generation, NEW s
  PROVE  /\ \A j \in Nat : HeardAfter(j + 1, s) => HeardAfter(j, s)'
         /\ HeardAfter(0, s) => HeardAfter(0, s)' \/ Current(1, s)
<1>1. ASSUME NEW j \in Nat, HeardAfter(j + 1, s) PROVE HeardAfter(j, s)'
  <2>1. PICK i \in DOMAIN mailbox : i > j + 1 /\ Current(i, s)
    BY <1>1 DEF HeardAfter
  <2>2. i \in Nat
    BY Places
  <2>3. i - 1 \in DOMAIN mailbox' /\ mailbox'[i - 1] = mailbox[i] /\ i - 1 > j
    BY <1>1, <2>1, <2>2 DEF Shrunk
  <2>4. QED
    BY <2>1, <2>3 DEF HeardAfter, Current, HelloOf
<1>2. ASSUME HeardAfter(0, s) PROVE HeardAfter(0, s)' \/ Current(1, s)
  <2>1. PICK i \in DOMAIN mailbox : Current(i, s)
    BY <1>2 DEF HeardAfter
  <2>2. i \in Nat /\ (i # 1 => i > 0 + 1)
    BY <2>1, Places
  <2>3. CASE i = 1
    BY <2>1, <2>3
  <2>4. CASE i # 1
    BY <1>1, <2>1, <2>2, <2>4 DEF HeardAfter
  <2>5. QED
    BY <2>3, <2>4
<1>3. QED
  BY <1>1, <1>2

\* An end that is queued stays queued until it is taken.
LEMMA EndsShrink ==
  ASSUME Shaped, Shrunk, NEW s
  PROVE  /\ \A j \in Nat : EndsAfter(j + 1, s) => EndsAfter(j, s)'
         /\ EndsAfter(0, s) =>
              EndsAfter(0, s)' \/ (mailbox[1].op = "disconnected" /\ mailbox[1].arg = s)
<1>1. ASSUME NEW j \in Nat, EndsAfter(j + 1, s) PROVE EndsAfter(j, s)'
  <2>1. PICK i \in DOMAIN mailbox : i > j + 1 /\ mailbox[i].op = "disconnected" /\ mailbox[i].arg = s
    BY <1>1 DEF EndsAfter
  <2>2. i \in Nat
    BY Places
  <2>3. i - 1 \in DOMAIN mailbox' /\ mailbox'[i - 1] = mailbox[i] /\ i - 1 > j
    BY <1>1, <2>1, <2>2 DEF Shrunk
  <2>4. QED
    BY <2>1, <2>3 DEF EndsAfter
<1>2. ASSUME EndsAfter(0, s)
      PROVE EndsAfter(0, s)' \/ (mailbox[1].op = "disconnected" /\ mailbox[1].arg = s)
  <2>1. PICK i \in DOMAIN mailbox : mailbox[i].op = "disconnected" /\ mailbox[i].arg = s
    BY <1>2 DEF EndsAfter
  <2>2. i \in Nat /\ (i # 1 => i > 0 + 1)
    BY <2>1, Places
  <2>3. CASE i = 1
    BY <2>1, <2>3
  <2>4. CASE i # 1
    BY <1>1, <2>1, <2>2, <2>4 DEF EndsAfter
  <2>5. QED
    BY <2>3, <2>4
<1>3. QED
  BY <1>1, <1>2

\* The supervisor takes the first command or none.
LEMMA SupervisorMail ==
  Supervising => mailbox' = mailbox \/ Shrunk
  BY DEF Supervising, SupervisorMoves, Rests, Halting, Starts, Retries, PassesOver, Decides, GoesOn,
         HearsHello, HearsEnd, RunsStopAgain, TakesFirst

\* The mailbox of an adoption.
LEMMA AdoptionMail ==
  ASSUME NEW s \in Sockets, Adopts(s), mailbox = <<>>
  PROVE  /\ DOMAIN mailbox' = {1, 2} /\ mailbox'[1].op = "start" /\ mailbox'[2] = Command("connected", s, 1)
<1>1. mailbox' = <<Command("start", None, 0), Command("connected", s, 1)>>
  BY DEF Adopts
<1>2. Command("start", None, 0).op = "start"
  BY DEF Command
<1>3. QED
  BY <1>1, <1>2

-----------------------------------------------------------------------------
(* Each part of the agreement survives a step *)

Step ==
  \/ Quiet \/ Requests \/ Supervising \/ Forgets
  \/ \E s \in Sockets : Opening(s) \/ Moving(s)

Asks(s) == conns[s].state \in {"hello", "adopting", "admitted"}

\* What a step that leaves a connection calm keeps of it.
LEMMA CalmStates ==
  ASSUME NEW t, CalmAt(t)
  PROVE  /\ Over(t) \/ (conns'[t].state = conns[t].state /\ conns'[t].gen = conns[t].gen)
         /\ conns[t].state \in {"unused", "gone"} => Over(t)
         /\ conns[t].state \notin {"unused", "gone"} => conns'[t].state = conns[t].state
         /\ Waits(t)' => Waits(t)
         /\ Asks(t)' => Asks(t)
  BY DEF CalmAt, Milder, Over, Waits, Asks

\* Requests and the supervisor leave all connections calm.
LEMMA OthersAreCalm ==
  ASSUME Quiet \/ Requests \/ Supervising, NEW t \in Sockets
  PROVE  CalmAt(t)
  BY DEF Quiet, Requests, Supervising, CalmAt, Milder

\* Only what happens to a connection queues a command that names one.
Names(s, c) ==
  \/ c.op \notin SocketCommands
  \/ c.arg = s /\ (c.op = "connected" => c.gen = generation' /\ conns'[s].state = "admitted")
               /\ (c.op = "disconnected" => Over(s))

\* What such a step queues names its connection.
LEMMA QueuedByMoves ==
  ASSUME Shaped, AttemptsAreNumbered, NEW s \in Sockets, Moving(s), NEW i \in DOMAIN mailbox'
  PROVE  (i \in DOMAIN mailbox /\ mailbox'[i] = mailbox[i]) \/ Names(s, mailbox'[i])
<1>1. CASE UNCHANGED mailbox
  BY <1>1
<1>2. ASSUME NEW new, Grown(new), \A c \in new : Names(s, c) PROVE (i \in DOMAIN mailbox /\ mailbox'[i] = mailbox[i]) \/ Names(s, mailbox'[i])
  BY <1>2 DEF Grown
<1>3. CASE Rejects(s)
  <2>1. Names(s, Command("disconnected", s, 0))
    BY <1>3 DEF Rejects, Names, Command
  <2>2. QED
    BY <1>2, <1>3, <2>1 DEF Rejects
<1>4. CASE Admits(s)
  <2>1. Names(s, Command("connected", s, generation))
    BY <1>4 DEF Admits, Names, Command
  <2>2. QED
    BY <1>2, <1>4, <2>1 DEF Admits
<1>5. CASE Closes(s)
  <2>1. Names(s, Command("disconnected", s, 0)) /\ Names(s, Command("stale", s, 0))
    BY <1>5 DEF Closes, Names, Command
  <2>2. QED
    BY <1>2, <1>5, <2>1 DEF Closes
<1>6. CASE Adopts(s)
  <2>1. mailbox = <<>>
    BY <1>6 DEF Adopts, AttemptsAreNumbered
  <2>2. DOMAIN mailbox' = {1, 2} /\ mailbox'[1].op = "start" /\ mailbox'[2] = Command("connected", s, 1)
    BY <1>6, <2>1, AdoptionMail
  <2>3. Names(s, Command("connected", s, 1))
    BY <1>6 DEF Adopts, Names, Command
  <2>4. "start" \notin SocketCommands
    BY DEF SocketCommands
  <2>5. QED
    BY <2>2, <2>3, <2>4 DEF Names
<1>7. QED
  BY <1>1, <1>3, <1>4, <1>5, <1>6 DEF Moving, Registers, Declines, Ponders

\* Whatever else a step does, the commands that are left were there before.
LEMMA QueuedByOthers ==
  ASSUME Shaped, Quiet \/ Requests \/ Supervising \/ (\E s \in Sockets : Opening(s)), NEW i \in DOMAIN mailbox'
  PROVE  \/ mailbox'[i].op \notin SocketCommands
         \/ \E j \in DOMAIN mailbox : mailbox'[i] = mailbox[j]
<1>1. CASE mailbox' = mailbox
  BY <1>1
<1>2. ASSUME NEW op \in {"start", "stop", "retry", "restart"}, Sends(op)
      PROVE  mailbox'[i].op \notin SocketCommands \/ \E j \in DOMAIN mailbox : mailbox'[i] = mailbox[j]
  BY <1>2 DEF Sends, Grown, SocketCommands
<1>3. CASE Requests
  BY <1>2, <1>3 DEF Requests
<1>4. CASE Shrunk
  BY <1>4 DEF Shrunk
<1>5. QED
  BY <1>1, <1>3, <1>4, SupervisorMail DEF Quiet, Passes, Opening

\* The connection the supervisor holds after a step.
LEMMA HeldBefore ==
  ASSUME Quiet \/ Requests \/ Supervising \/ (\E s \in Sockets : Opening(s))
  PROVE  \/ socket' \in {socket, None}
         \/ 1 \in DOMAIN mailbox /\ Current(1, socket') /\ Supervising /\ HearsHello
  BY DEF Quiet, Passes, Opening, Requests, Supervising, SupervisorMoves, Rests, Halting, Starts, Retries,
         PassesOver, Decides, GoesOn, HearsHello, HearsEnd, RunsStopAgain, TakesFirst, Shrunk,
         Current, HelloOf

\* A hello is from a connection nobody mentions, and while it is unanswered there is no other.
LEMMA NewOnesStayNew ==
  ASSUME Shaped, Agreement, Step
  PROVE  NewOnesAreNew'
<1>0. /\ NewOnesAreNew /\ AttemptsAreNumbered
      /\ socket \in Sockets \cup {None} /\ live \in Sockets \cup {None} /\ None \notin Sockets
  BY DeviceAssumption DEF Agreement, Shaped, Naming, None
<1>1. ASSUME NEW s \in Sockets, NEW t \in Sockets, Asks(s)', Asks(t)' PROVE s = t
  <2>1. CASE Quiet \/ Requests \/ Supervising
    BY <1>0, <1>1, <2>1, OthersAreCalm, CalmStates DEF NewOnesAreNew, Asks
  <2>2. CASE Forgets
    BY <1>1, <2>2 DEF Forgets, Over, Asks
  <2>3. ASSUME NEW u \in Sockets, Opening(u) PROVE s = t
    <3>1. \A v \in Sockets : Asks(v)' => v = u
      BY <2>3, CalmStates DEF Opening, Opens, Unanswered, Asks
    <3>2. QED
      BY <1>1, <3>1
  <2>4. ASSUME NEW u \in Sockets, Moving(u) PROVE s = t
    <3>1. \A v \in Sockets : Asks(v)' => Asks(v)
      BY <2>4, CalmStates
         DEF Moving, Registers, Rejects, Declines, Ponders, Admits, Adopts, Closes, Waits, Over, Asks
    <3>2. QED
      BY <1>0, <1>1, <3>1 DEF NewOnesAreNew, Asks
  <2>5. QED
    BY <2>1, <2>2, <2>3, <2>4 DEF Step
<1> DEFINE New(s) == /\ s # socket /\ s # live
                     /\ \A i \in DOMAIN mailbox :
                          mailbox[i].op \in {"connected", "disconnected"} => mailbox[i].arg # s
<1>2. ASSUME NEW s \in Sockets, Waits(s)' PROVE New(s)'
  <2>0. SocketCommands = {"connected", "disconnected", "stale"}
    BY DEF SocketCommands
  <2>1. ASSUME New(s), Quiet \/ Requests \/ Supervising \/ \E u \in Sockets : Opening(u) PROVE New(s)'
    <3>1. live' \in {live, None}
      BY <2>1 DEF Quiet, Passes, Requests, Supervising, Opening
    <3>2. s # socket'
      BY <1>0, <2>1, HeldBefore DEF Current, HelloOf
    <3>3. QED
      BY <1>0, <2>0, <2>1, <3>1, <3>2, QueuedByOthers
  <2>2. CASE Quiet \/ Requests \/ Supervising
    <3>1. New(s)
      BY <1>0, <1>2, <2>2, OthersAreCalm, CalmStates DEF NewOnesAreNew
    <3>2. QED
      BY <2>1, <2>2, <3>1
  <2>3. CASE Forgets
    BY <1>2, <2>3 DEF Forgets, Over, Waits
  <2>4. ASSUME NEW u \in Sockets, Opening(u) PROVE New(s)'
    <3>1. s = u
      BY <1>2, <2>4, CalmStates DEF Opening, Opens, Unanswered, Asks, Waits
    <3>2. New(s)
      BY <2>0, <2>4, <3>1 DEF Opening, Opens, Mentioned
    <3>3. QED
      BY <2>1, <2>4, <3>2
  <2>5. ASSUME NEW u \in Sockets, Moving(u) PROVE New(s)'
    <3>1. Waits(s) /\ (s = u => Ponders(u))
      BY <1>2, <2>5, CalmStates
         DEF Moving, Registers, Rejects, Declines, Ponders, Admits, Adopts, Closes, Waits, Over
    <3>2. New(s)
      BY <1>0, <3>1 DEF NewOnesAreNew
    <3>3. CASE s = u
      BY <3>1, <3>2, <3>3 DEF Ponders
    <3>4. CASE s # u
      <4>1. /\ socket' \in {socket, u} /\ live' \in {live, u, None}
        BY <2>5 DEF Moving, Registers, Rejects, Declines, Ponders, Admits, Adopts, Closes
      <4>2. \A i \in DOMAIN mailbox' : (i \in DOMAIN mailbox /\ mailbox'[i] = mailbox[i]) \/ Names(u, mailbox'[i])
        BY <1>0, <2>5, QueuedByMoves
      <4>3. QED
        BY <1>0, <2>0, <3>2, <3>4, <4>1, <4>2 DEF Names
    <3>5. QED
      BY <3>3, <3>4
  <2>6. QED
    BY <2>2, <2>3, <2>4, <2>5 DEF Step
<1>3. QED
  BY <1>1, <1>2 DEF NewOnesAreNew, Asks

\* A connection is reported as ended once it is over, and stays over; the router
\* has only a registered one.
LEMMA EndedOnesStayOver ==
  ASSUME Shaped, Shaped', Agreement, Step
  PROVE  EndedOnesAreOver'
<1>0. /\ EndedOnesAreOver /\ NewOnesAreNew /\ AttemptsAreNumbered
      /\ live \in Sockets \cup {None} /\ None \notin Sockets
  BY DeviceAssumption DEF Agreement, Shaped, Naming, None
<1>1. ASSUME NEW t \in Sockets, CalmAt(t) PROVE conns[t].state \in {"unused", "gone"} => Over(t)
  BY <1>1, CalmStates
<1>2. ASSUME live' # None PROVE conns'[live'].state = "registered"
  <2>1. ASSUME live' = live, CalmAt(live) PROVE conns'[live'].state = "registered"
    BY <1>0, <1>2, <2>1, CalmStates DEF EndedOnesAreOver
  <2>2. CASE Quiet \/ Requests \/ Supervising
    <3>1. live' = live
      BY <1>2, <2>2 DEF Quiet, Passes, Requests, Supervising
    <3>2. QED
      BY <1>0, <1>2, <2>1, <2>2, <3>1, OthersAreCalm
  <2>3. CASE Forgets
    BY <1>2, <2>3 DEF Forgets
  <2>4. ASSUME NEW u \in Sockets, Opening(u) PROVE conns'[live'].state = "registered"
    <3>1. live' = live /\ live # u
      BY <1>0, <1>2, <2>4 DEF Opening, Opens, Mentioned
    <3>2. QED
      BY <1>0, <1>2, <2>1, <2>4, <3>1 DEF Opening
  <2>5. ASSUME NEW u \in Sockets, Moving(u) PROVE conns'[live'].state = "registered"
    <3>1. CASE Registers(u)
      BY <3>1 DEF Registers
    <3>2. CASE ~Registers(u)
      <4>1. live' = live /\ live # u
        BY <1>0, <1>2, <2>5, <3>2
           DEF Moving, Rejects, Declines, Ponders, Admits, Adopts, Closes, EndedOnesAreOver, Waits
      <4>2. QED
        BY <1>0, <1>2, <2>1, <2>5, <4>1 DEF Moving
    <3>3. QED
      BY <3>1, <3>2
  <2>6. QED
    BY <2>2, <2>3, <2>4, <2>5 DEF Step
<1>3. ASSUME NEW i \in DOMAIN mailbox', mailbox'[i].op = "disconnected" PROVE Over(mailbox'[i].arg)
  <2>0. SocketCommands = {"connected", "disconnected", "stale"}
    BY DEF SocketCommands
  <2>1. ASSUME NEW j \in DOMAIN mailbox, mailbox'[i] = mailbox[j], CalmAt(mailbox[j].arg) PROVE Over(mailbox'[i].arg)
    BY <1>0, <1>1, <1>3, <2>0, <2>1, Places DEF EndedOnesAreOver
  <2>2. CASE Quiet \/ Requests \/ Supervising
    <3>1. PICK j \in DOMAIN mailbox : mailbox'[i] = mailbox[j]
      BY <1>3, <2>0, <2>2, QueuedByOthers
    <3>2. QED
      BY <1>3, <2>0, <2>1, <2>2, <3>1, OthersAreCalm, Places
  <2>3. CASE Forgets
    BY <1>3, <2>3 DEF Forgets
  <2>4. ASSUME NEW u \in Sockets, Opening(u) PROVE Over(mailbox'[i].arg)
    <3>1. mailbox' = mailbox
      BY <2>4 DEF Opening
    <3>2. mailbox[i].arg # u
      BY <1>3, <2>0, <2>4, <3>1 DEF Opening, Opens, Mentioned
    <3>3. QED
      BY <1>3, <2>0, <2>1, <2>4, <3>1, <3>2, Places DEF Opening
  <2>5. ASSUME NEW u \in Sockets, Moving(u) PROVE Over(mailbox'[i].arg)
    <3>1. CASE Names(u, mailbox'[i])
      BY <1>3, <2>0, <3>1 DEF Names
    <3>2. CASE i \in DOMAIN mailbox /\ mailbox'[i] = mailbox[i]
      <4>1. conns[mailbox[i].arg].state \in {"unused", "gone"} /\ mailbox[i].arg \in Sockets
        BY <1>0, <1>3, <2>0, <3>2, Places DEF EndedOnesAreOver
      <4>2. mailbox[i].arg # u
        BY <2>5, <4>1 DEF Moving, Registers, Rejects, Declines, Ponders, Admits, Adopts, Closes, Waits
      <4>3. QED
        BY <2>1, <2>5, <3>2, <4>1, <4>2 DEF Moving
    <3>3. QED
      BY <1>0, <2>5, <3>1, <3>2, QueuedByMoves
  <2>6. QED
    BY <2>2, <2>3, <2>4, <2>5 DEF Step
<1>4. QED
  BY <1>2, <1>3 DEF EndedOnesAreOver, Over

\* Attempts only grow within a server's life.
LEMMA AttemptsGrow ==
  ASSUME Shaped, Quiet \/ Requests \/ Supervising \/ (\E s \in Sockets : Opening(s) \/ Moving(s))
  PROVE  generation \in Nat /\ generation' \in Nat /\ generation' \in {generation, generation + 1}
<1>1. generation \in Nat
  BY DEF Shaped, Counted
<1>2. generation' \in {generation, generation + 1}
  <2>1. CASE Quiet \/ Requests \/ Supervising \/ \E s \in Sockets : Opening(s)
    BY <1>1, <2>1 DEF Quiet, Passes, Requests, Supervising, Opening
  <2>2. ASSUME NEW s \in Sockets, Moving(s) PROVE generation' \in {generation, generation + 1}
    BY <1>1, <2>2 DEF Moving, Registers, Rejects, Declines, Ponders, Admits, Adopts, Closes
  <2>3. QED
    BY <2>1, <2>2
<1>3. QED
  BY <1>1, <1>2

\* Before the first attempt nothing happens but what the daemon does.
LEMMA NothingBeforeAnAttempt ==
  ASSUME Shaped, Agreement, Step, generation' = 0
  PROVE  /\ phase' = "idle" /\ mailbox' = <<>> /\ ~desired' /\ socket' = None /\ live' = None
         /\ \A s \in Sockets : conns'[s].state \notin {"admitted", "registered"}
<1>1. CASE Forgets
  BY <1>1 DEF Forgets, Over
<1>2. ASSUME ~Forgets
      PROVE  /\ phase = "idle" /\ mailbox = <<>> /\ ~desired /\ socket = None /\ live = None
             /\ \A s \in Sockets : conns[s].state \notin {"admitted", "registered"}
             /\ generation = 0
  BY <1>2, AttemptsGrow DEF Step, Agreement, AttemptsAreNumbered
<1>3. CASE Quiet
  BY <1>1, <1>2, <1>3, CalmStates DEF Quiet, Passes, Over
<1>4. ASSUME ~Forgets PROVE ~Requests
  BY <1>2, <1>4 DEF Requests
<1>5. CASE Supervising
  <2>1. ~Shrunk \/ Forgets
    BY <1>2 DEF Shrunk
  <2>2. QED
    BY <1>1, <1>2, <1>5, <2>1
       DEF Supervising, SupervisorMoves, Rests, Halting, Starts, Retries, PassesOver, Decides, GoesOn,
           HearsHello, HearsEnd, RunsStopAgain, TakesFirst, Resting
<1>6. ASSUME NEW s \in Sockets, Opening(s)
      PROVE  /\ phase' = "idle" /\ mailbox' = <<>> /\ ~desired' /\ socket' = None /\ live' = None
             /\ \A t \in Sockets : conns'[t].state \notin {"admitted", "registered"}
  BY <1>1, <1>2, <1>6, CalmStates DEF Opening, Opens, Over
<1>7. ASSUME NEW s \in Sockets, Moving(s)
      PROVE  /\ phase' = "idle" /\ mailbox' = <<>> /\ ~desired' /\ socket' = None /\ live' = None
             /\ \A t \in Sockets : conns'[t].state \notin {"admitted", "registered"}
  <2>1. Forgets \/ Declines(s) \/ Ponders(s)
    BY <1>2, <1>7 DEF Moving, Registers, Rejects, Admits, Adopts, Closes
  <2>2. QED
    BY <1>1, <1>2, <1>7, <2>1, CalmStates DEF Moving, Declines, Ponders, Over, Waits
<1>8. QED
  BY <1>1, <1>3, <1>4, <1>5, <1>6, <1>7 DEF Step

\* A hello is admitted for an attempt that was made.
LEMMA AttemptsStayNumbered ==
  ASSUME Shaped, Shaped', Agreement, Step
  PROVE  AttemptsAreNumbered'
<1>0. AttemptsAreNumbered /\ NewOnesAreNew /\ SocketCommands = {"connected", "disconnected", "stale"}
  BY DEF Agreement, SocketCommands
<1> DEFINE Numbered(s) == conns[s].state = "admitted" =>
              /\ conns[s].gen \in 1 .. generation
              /\ \A i \in DOMAIN mailbox : HelloOf(i, s) => mailbox[i].gen = conns[s].gen
<1>1. ASSUME NEW s \in Sockets PROVE Numbered(s)'
  <2>0. Numbered(s)
    BY <1>0 DEF AttemptsAreNumbered
  <2>1. CASE Quiet \/ Requests \/ Supervising
    <3>1. conns'[s].state = "admitted" => conns[s].state = "admitted" /\ conns'[s].gen = conns[s].gen
      BY <2>1, OthersAreCalm, CalmStates DEF Over
    <3>2. QED
      BY <1>0, <2>0, <2>1, <3>1, AttemptsGrow, QueuedByOthers DEF HelloOf
  <2>2. CASE Forgets
    BY <2>2 DEF Forgets, Over
  <2>3. ASSUME NEW u \in Sockets, Opening(u) PROVE Numbered(s)'
    BY <2>0, <2>3, CalmStates DEF Opening, Opens, Over, HelloOf
  <2>4. ASSUME NEW u \in Sockets, Moving(u) PROVE Numbered(s)'
    <3>0. \A i \in DOMAIN mailbox' : (i \in DOMAIN mailbox /\ mailbox'[i] = mailbox[i]) \/ Names(u, mailbox'[i])
      BY <1>0, <2>4, QueuedByMoves
    <3>1. CASE s # u
      <4>1. conns'[s].state = "admitted" => conns[s].state = "admitted" /\ conns'[s].gen = conns[s].gen
        BY <2>4, <3>1, CalmStates DEF Moving, Over
      <4>2. QED
        BY <1>0, <2>0, <2>4, <3>0, <3>1, <4>1, AttemptsGrow DEF HelloOf, Names
    <3>2. CASE s = u /\ conns'[u].state = "admitted"
      <4>1. Waits(u) /\ conns'[u].gen = generation' /\ generation' # 0
        BY <1>0, <2>4, <3>2
           DEF Moving, Registers, Rejects, Declines, Ponders, Admits, Adopts, Closes, Over, Waits,
               AttemptsAreNumbered
      <4>2. \A i \in DOMAIN mailbox : ~HelloOf(i, u)
        BY <1>0, <4>1 DEF NewOnesAreNew, HelloOf
      <4>3. generation' \in 1 .. generation'
        BY <2>4, <4>1, AttemptsGrow
      <4>4. QED
        BY <1>0, <3>0, <3>2, <4>1, <4>2, <4>3 DEF HelloOf, Names
    <3>3. QED
      BY <3>1, <3>2
  <2>5. QED
    BY <2>1, <2>2, <2>3, <2>4 DEF Step
<1>2. ASSUME NEW i \in DOMAIN mailbox', mailbox'[i].op = "connected" PROVE mailbox'[i].gen <= generation'
  <2>0. \A j \in DOMAIN mailbox : mailbox[j].op = "connected" => mailbox[j].gen <= generation /\ mailbox[j].gen \in Nat
    BY <1>0, Places DEF AttemptsAreNumbered
  <2>1. CASE Quiet \/ Requests \/ Supervising \/ \E u \in Sockets : Opening(u)
    <3>1. PICK j \in DOMAIN mailbox : mailbox'[i] = mailbox[j]
      BY <1>0, <1>2, <2>1, QueuedByOthers
    <3>2. QED
      BY <1>2, <2>0, <2>1, <3>1, AttemptsGrow
  <2>2. ASSUME NEW u \in Sockets, Moving(u) PROVE mailbox'[i].gen <= generation'
    BY <1>0, <1>2, <2>0, <2>2, QueuedByMoves, AttemptsGrow DEF Names
  <2>3. CASE Forgets
    BY <1>2, <2>3 DEF Forgets
  <2>4. QED
    BY <2>1, <2>2, <2>3 DEF Step
<1>3. QED
  BY <1>1, <1>2, NothingBeforeAnAttempt DEF AttemptsAreNumbered

\* All but the supervisor and a restart leave what is queued in its place.
LEMMA StepsKeep ==
  ASSUME Shaped, AttemptsAreNumbered,
         Quiet \/ Requests \/ (\E s \in Sockets : Opening(s) \/ Moving(s))
  PROVE  Keeps
<1>1. CASE mailbox' = mailbox
  BY <1>1 DEF Keeps
<1>2. ASSUME NEW new, Grown(new) PROVE Keeps
  BY <1>2 DEF Grown, Keeps
<1>3. CASE Requests
  BY <1>2, <1>3 DEF Requests, Sends
<1>4. ASSUME NEW s \in Sockets, Adopts(s) PROVE Keeps
  BY <1>4 DEF Adopts, AttemptsAreNumbered, Keeps
<1>5. ASSUME NEW s \in Sockets, Moving(s) PROVE Keeps
  BY <1>1, <1>2, <1>4, <1>5 DEF Moving, Registers, Rejects, Declines, Ponders, Admits, Closes
<1>6. QED
  BY <1>1, <1>3, <1>5 DEF Quiet, Passes, Opening

Covered(j, s) == Sound(s) \/ EndsAfter(j, s)

\* A sound connection stays sound until it is over.
LEMMA SoundStays ==
  ASSUME NEW t, CalmAt(t), Sound(t)
  PROVE  Sound(t)'
  BY DEF CalmAt, Milder, Sound

\* The end of a connection is queued behind all else.
LEMMA EndsBehind ==
  ASSUME Shaped', NEW s \in Sockets, Rejects(s) \/ Closes(s), NEW j \in DOMAIN mailbox \cup {0}
  PROVE  EndsAfter(j, s)'
<1>1. PICK i \in DOMAIN mailbox' : /\ mailbox'[i] = Command("disconnected", s, 0)
                                   /\ \A k \in DOMAIN mailbox : i > k
  BY DEF Rejects, Closes, Grown
<1>2. i \in Nat \ {0}
  BY <1>1 DEF Shaped, Naming
<1>3. QED
  BY <1>1, <1>2 DEF EndsAfter, Command

\* Whoever holds a connection or will hear of it keeps it covered.
LEMMA CoverStays ==
  ASSUME Shaped, Shaped', Agreement, NEW t \in Sockets, NEW j \in DOMAIN mailbox \cup {0}, Covered(j, t),
         ~Waits(t), Quiet \/ Requests \/ (\E s \in Sockets : Opening(s) \/ Moving(s))
  PROVE  Covered(j, t)'
<1>1. EndsAfter(j, t) => EndsAfter(j, t)'
  BY StepsKeep, EndsGrow DEF Agreement
<1>2. ASSUME CalmAt(t) PROVE Covered(j, t)'
  BY <1>1, <1>2, SoundStays DEF Covered
<1>3. CASE Quiet \/ Requests
  BY <1>2, <1>3, OthersAreCalm
<1>4. ASSUME NEW s \in Sockets, Opening(s) PROVE Covered(j, t)'
  <2>1. CASE t # s
    BY <1>2, <1>4, <2>1 DEF Opening
  <2>2. CASE t = s
    BY <1>1, <1>4, <2>2 DEF Opening, Opens, Covered, Sound
  <2>3. QED
    BY <2>1, <2>2
<1>5. ASSUME NEW s \in Sockets, Moving(s) PROVE Covered(j, t)'
  <2>1. CASE t # s
    BY <1>2, <1>5, <2>1 DEF Moving
  <2>2. CASE t = s
    <3>1. Registers(s) \/ Rejects(s) \/ Closes(s)
      BY <1>5, <2>2 DEF Moving, Declines, Ponders, Admits, Adopts
    <3>2. Registers(s) => Sound(s)'
      BY DEF Registers, Sound
    <3>3. QED
      BY <2>2, <3>1, <3>2, EndsBehind DEF Covered
  <2>3. QED
    BY <2>1, <2>2
<1>6. QED
  BY <1>3, <1>4, <1>5

\* The supervisor leaves a connection covered until it takes its end.
LEMMA CoverShrinks ==
  ASSUME Shaped, Supervising, Shrunk, NEW t \in Sockets
  PROVE  /\ \A j \in Nat : Covered(j + 1, t) => Covered(j, t)'
         /\ Covered(0, t) => \/ Covered(0, t)'
                             \/ mailbox[1].op = "disconnected" /\ mailbox[1].arg = t
  BY SoundStays, OthersAreCalm, EndsShrink DEF Covered

\* A supervisor with a connection that has to be told is told.
LEMMA SocketsStayCovered ==
  ASSUME Shaped, Shaped', Agreement, Step
  PROVE  SocketsAreCovered'
<1>0. /\ socket \in Sockets \cup {None} /\ None \notin Sockets
      /\ SocketCommands = {"connected", "disconnected", "stale"}
      /\ socket # None => Covered(0, socket) /\ ~Waits(socket)
      /\ \A i \in DOMAIN mailbox : mailbox[i].op = "connected" =>
           Covered(i, mailbox[i].arg) /\ ~Waits(mailbox[i].arg) /\ mailbox[i].arg \in Sockets
      /\ phase \in Resting /\ socket # None => 1 \in DOMAIN mailbox /\ mailbox[1].op = "start"
  BY DeviceAssumption, Places
     DEF Agreement, SocketsAreCovered, NewOnesAreNew, Shaped, Naming, None, SocketCommands, Covered
<1>1. ASSUME NEW t \in Sockets, t = socket' PROVE Covered(0, t)'
  <2>1. ASSUME t = socket, Quiet \/ Requests \/ (\E s \in Sockets : Opening(s) \/ Moving(s)) PROVE Covered(0, t)'
    BY <1>0, <2>1, CoverStays
  <2>2. CASE Quiet \/ Requests \/ \E s \in Sockets : Opening(s)
    <3>1. socket' \in {socket, None}
      BY <2>2 DEF Quiet, Passes, Requests, Opening
    <3>2. QED
      BY <1>0, <1>1, <2>1, <2>2, <3>1
  <2>3. ASSUME NEW s \in Sockets, Moving(s) PROVE Covered(0, t)'
    <3>1. CASE Adopts(s)
      BY <1>1, <3>1 DEF Adopts, Covered, Sound
    <3>2. CASE ~Adopts(s)
      <4>1. socket' = socket
        BY <2>3, <3>2 DEF Moving, Registers, Rejects, Declines, Ponders, Admits, Closes
      <4>2. QED
        BY <1>1, <2>1, <2>3, <4>1
    <3>3. QED
      BY <3>1, <3>2
  <2>4. CASE Supervising
    <3>1. CASE HearsHello /\ socket' = mailbox[1].arg
      <4>1. Covered(1, t) /\ Shrunk
        BY <1>0, <1>1, <3>1 DEF HearsHello, TakesFirst, Shrunk
      <4>2. QED
        BY <2>4, <4>1, CoverShrinks
    <3>2. CASE t = socket /\ mailbox' = mailbox
      BY <1>0, <2>4, <3>2, OthersAreCalm, SoundStays DEF Covered, EndsAfter
    <3>3. CASE t = socket /\ Shrunk /\ ~(mailbox[1].op = "disconnected" /\ mailbox[1].arg = t)
      BY <1>0, <2>4, <3>3, CoverShrinks
    <3>4. \/ HearsHello /\ socket' = mailbox[1].arg
          \/ t = socket /\ mailbox' = mailbox
          \/ t = socket /\ Shrunk /\ ~(mailbox[1].op = "disconnected" /\ mailbox[1].arg = t)
      BY <1>0, <1>1, <2>4
         DEF Supervising, SupervisorMoves, Rests, Halting, Starts, Retries, PassesOver, Decides, GoesOn,
             HearsHello, HearsEnd, RunsStopAgain, TakesFirst, Resting
    <3>5. QED
      BY <3>1, <3>2, <3>3, <3>4
  <2>5. CASE Forgets
    BY <1>0, <1>1, <2>5 DEF Forgets
  <2>6. QED
    BY <2>2, <2>3, <2>4, <2>5, <2>1 DEF Step
<1>2. ASSUME NEW i \in DOMAIN mailbox', mailbox'[i].op = "connected", NEW t \in Sockets, t = mailbox'[i].arg
      PROVE  Covered(i, t)'
  <2>1. ASSUME i \in DOMAIN mailbox, mailbox'[i] = mailbox[i],
               Quiet \/ Requests \/ (\E s \in Sockets : Opening(s) \/ Moving(s))
        PROVE  Covered(i, t)'
    BY <1>0, <1>2, <2>1, CoverStays
  <2>2. CASE Quiet \/ \E s \in Sockets : Opening(s)
    BY <2>1, <2>2 DEF Quiet, Passes, Opening
  <2>3. CASE Requests
    <3>1. ASSUME NEW op \in {"start", "stop", "retry", "restart"}, Sends(op)
          PROVE  i \in DOMAIN mailbox /\ mailbox'[i] = mailbox[i]
      BY <1>2, <3>1 DEF Sends, Grown
    <3>2. QED
      BY <2>1, <2>3, <3>1 DEF Requests
  <2>4. ASSUME NEW s \in Sockets, Moving(s) PROVE Covered(i, t)'
    <3>1. CASE Names(s, mailbox'[i])
      BY <1>0, <1>2, <3>1 DEF Names, Covered, Sound
    <3>2. QED
      BY <2>1, <2>4, <3>1, QueuedByMoves DEF Agreement
  <2>5. CASE Supervising
    <3>1. CASE mailbox' = mailbox
      BY <1>0, <1>2, <2>5, <3>1, OthersAreCalm, SoundStays DEF Covered, EndsAfter
    <3>2. CASE Shrunk
      <4>1. i \in Nat
        BY <1>2 DEF Shaped, Naming
      <4>2. i + 1 \in DOMAIN mailbox /\ mailbox[i + 1] = mailbox'[i]
        BY <1>2, <3>2 DEF Shrunk
      <4>3. Covered(i + 1, t)
        BY <1>0, <1>2, <4>2
      <4>4. QED
        BY <2>5, <3>2, <4>1, <4>3, CoverShrinks
    <3>3. QED
      BY <2>5, <3>1, <3>2, SupervisorMail
  <2>6. CASE Forgets
    BY <1>2, <2>6 DEF Forgets
  <2>7. QED
    BY <2>2, <2>3, <2>4, <2>5, <2>6 DEF Step
<1>3. ASSUME phase' \in Resting, socket' # None PROVE 1 \in DOMAIN mailbox' /\ mailbox'[1].op = "start"
  <2>1. ASSUME phase' = phase, socket' = socket, Keeps PROVE 1 \in DOMAIN mailbox' /\ mailbox'[1].op = "start"
    BY <1>0, <1>3, <2>1 DEF Keeps
  <2>2. CASE Quiet \/ Requests \/ \E s \in Sockets : Opening(s)
    <3>1. phase' = phase /\ socket' = socket
      BY <1>3, <2>2 DEF Quiet, Passes, Requests, Opening
    <3>2. QED
      BY <2>1, <2>2, <3>1, StepsKeep DEF Agreement
  <2>3. ASSUME NEW s \in Sockets, Moving(s) PROVE 1 \in DOMAIN mailbox' /\ mailbox'[1].op = "start"
    <3>1. CASE Adopts(s)
      BY <3>1, AdoptionMail DEF Agreement, AttemptsAreNumbered, Adopts
    <3>2. CASE ~Adopts(s)
      <4>1. phase' = phase /\ socket' = socket
        BY <2>3, <3>2 DEF Moving, Registers, Rejects, Declines, Ponders, Admits, Closes
      <4>2. QED
        BY <2>1, <2>3, <4>1, StepsKeep DEF Agreement
    <3>3. QED
      BY <3>1, <3>2
  <2>4. CASE Supervising
    BY <1>0, <1>3, <2>4
       DEF Supervising, SupervisorMoves, Rests, Halting, Starts, Retries, PassesOver, Decides, GoesOn,
           HearsHello, HearsEnd, RunsStopAgain, TakesFirst, Resting
  <2>5. CASE Forgets
    BY <1>3, <2>5 DEF Forgets
  <2>6. QED
    BY <2>2, <2>3, <2>4, <2>5 DEF Step
<1>4. socket' \in Sockets \cup {None}
      /\ \A i \in DOMAIN mailbox' : mailbox'[i].op = "connected" => mailbox'[i].arg \in Sockets
  <2>1. mailbox' \in Seq(Named)
    BY DEF Shaped, Naming
  <2>2. QED
    BY <1>0, <2>1 DEF Shaped, Naming, Named
<1>5. socket' # None => (Sound(socket) \/ EndsAfter(0, socket))'
  BY <1>1, <1>4 DEF Covered, Sound, EndsAfter
<1>6. \A i \in DOMAIN mailbox' : mailbox'[i].op = "connected" =>
        (Sound(mailbox[i].arg) \/ EndsAfter(i, mailbox[i].arg))'
  BY <1>2, <1>4 DEF Covered, Sound, EndsAfter
<1>7. QED
  BY <1>3, <1>5, <1>6 DEF SocketsAreCovered

\* What is taken while the supervisor rests and does not start it wakes nobody, and
\* the wake-up comes before the hello as it did.
LEMMA WokenShrinks ==
  ASSUME Shaped, Shaped', Shrunk, generation' = generation, mailbox[1].op \notin Wakes,
         \A i \in DOMAIN mailbox : mailbox[i].op = "connected" /\ mailbox[i].gen = generation =>
           \E j \in DOMAIN mailbox : j < i /\ mailbox[j].op \in Wakes,
         NEW i \in DOMAIN mailbox', mailbox'[i].op = "connected", mailbox'[i].gen = generation
  PROVE  \E j \in DOMAIN mailbox' : j < i /\ mailbox'[j].op \in Wakes
<1>1. i \in Nat
  BY DEF Shaped, Naming
<1>2. PICK j \in DOMAIN mailbox : j < i + 1 /\ mailbox[j].op \in Wakes
  BY DEF Shrunk
<1>3. j \in Nat /\ j # 1
  BY <1>2, Places
<1>4. j - 1 \in DOMAIN mailbox' /\ mailbox'[j - 1] = mailbox[j] /\ j - 1 < i
  BY <1>1, <1>2, <1>3 DEF Shrunk
<1>5. QED
  BY <1>2, <1>4

\* A supervisor that rests while the device is wanted is still woken first.
LEMMA StillWokenBeforeHearing ==
  ASSUME Shaped, Shaped', StopInvariant, Agreement, Step
  PROVE  WokenBeforeHearing'
<1>0. /\ WokenBeforeHearing /\ AttemptsAreNumbered
      /\ \A i \in DOMAIN mailbox : mailbox[i].op = "connected" => mailbox[i].gen <= generation /\ mailbox[i].gen \in Nat
  BY Places DEF Agreement, AttemptsAreNumbered
<1> SUFFICES ASSUME phase' \in Resting, desired', NEW i \in DOMAIN mailbox',
                    mailbox'[i].op = "connected", mailbox'[i].gen = generation'
             PROVE  \E j \in DOMAIN mailbox' : j < i /\ mailbox'[j].op \in Wakes
  BY DEF WokenBeforeHearing
<1>1. ASSUME UNCHANGED <<phase, desired>>, Keeps, i \in DOMAIN mailbox, mailbox[i].gen = generation
      PROVE  \E j \in DOMAIN mailbox' : j < i /\ mailbox'[j].op \in Wakes
  BY <1>0, <1>1 DEF WokenBeforeHearing, Keeps
<1>2. CASE Quiet \/ \E s \in Sockets : Opening(s)
  BY <1>1, <1>2, <1>0, StepsKeep DEF Quiet, Passes, Opening
<1>3. CASE Requests
  <2>1. i \in DOMAIN mailbox /\ mailbox'[i] = mailbox[i]
    <3>1. ASSUME NEW op \in {"start", "stop", "retry", "restart"}, Sends(op)
          PROVE  i \in DOMAIN mailbox /\ mailbox'[i] = mailbox[i]
      BY <3>1 DEF Sends, Grown
    <3>2. QED
      BY <1>3, <3>1 DEF Requests
  <2>2. generation' # generation + 1
    BY <1>0, <2>1 DEF Shaped, Counted
  <2>3. UNCHANGED <<phase, generation>> /\ desired' = desired
    BY <1>3, <2>2, Zenon DEF Requests
  <2>4. QED
    BY <1>0, <1>1, <1>3, <2>1, <2>3, StepsKeep
<1>4. ASSUME NEW s \in Sockets, Moving(s) PROVE \E j \in DOMAIN mailbox' : j < i /\ mailbox'[j].op \in Wakes
  <2>1. CASE Admits(s)
    <3>1. CASE i \in DOMAIN mailbox /\ mailbox'[i] = mailbox[i]
      BY <1>0, <1>1, <1>4, <2>1, <3>1, StepsKeep DEF Admits, Moving
    <3>2. CASE \A j \in DOMAIN mailbox : i > j
      <4>1. PICK j \in DOMAIN mailbox : mailbox[j].op \in Wakes
        BY <1>4, <2>1 DEF Admits, Moving, StopInvariant, Halted, Queued
      <4>2. j \in DOMAIN mailbox' /\ mailbox'[j] = mailbox[j]
        BY <2>1 DEF Admits, Grown
      <4>3. i \in Nat /\ j \in Nat
        BY Places DEF Shaped, Naming
      <4>4. QED
        BY <3>2, <4>1, <4>2, <4>3
    <3>3. QED
      BY <2>1, <3>1, <3>2 DEF Admits, Grown
  <2>2. CASE Adopts(s)
    <3>1. DOMAIN mailbox' = {1, 2} /\ mailbox'[1].op = "start"
      BY <1>0, <2>2, AdoptionMail DEF Adopts, AttemptsAreNumbered
    <3>2. i = 2
      BY <3>1
    <3>3. QED
      BY <3>1, <3>2 DEF Wakes
  <2>3. CASE ~Admits(s) /\ ~Adopts(s)
    <3>1. UNCHANGED <<phase, desired, generation>> /\ conns'[s].state # "admitted"
      BY <1>4, <2>3 DEF Moving, Registers, Rejects, Declines, Ponders, Closes, Over, Waits
    <3>2. i \in DOMAIN mailbox /\ mailbox'[i] = mailbox[i]
      BY <1>0, <1>4, <3>1, QueuedByMoves DEF Names, SocketCommands
    <3>3. QED
      BY <1>0, <1>1, <1>4, <3>1, <3>2, StepsKeep
  <2>4. QED
    BY <2>1, <2>2, <2>3
<1>5. CASE Supervising
  <2>1. \/ UNCHANGED mailbox /\ phase \in Resting /\ desired
        \/ Shrunk /\ mailbox[1].op \notin Wakes /\ phase \in Resting /\ desired
    BY <1>5
       DEF Supervising, SupervisorMoves, Rests, Halting, Starts, Retries, PassesOver, Decides, GoesOn,
           HearsHello, HearsEnd, RunsStopAgain, TakesFirst, Resting, Wakes, SocketCommands
  <2>2. QED
    BY <1>0, <1>5, <2>1, WokenShrinks DEF Supervising, WokenBeforeHearing
<1>6. CASE Forgets
  BY <1>6 DEF Forgets
<1>7. QED
  BY <1>2, <1>3, <1>4, <1>5, <1>6 DEF Step

Known(s) == socket = s \/ HeardAfter(0, s)

\* What is queued for a connection is still heard last when less than a hello of
\* another is queued behind it ...
LEMMA LastGrows ==
  ASSUME Keeps, generation' = generation, NEW s, NEW ops, HeardLast(s, ops),
         \A i \in DOMAIN mailbox' :
           i \in DOMAIN mailbox \/ (mailbox'[i].op \notin ops /\ mailbox'[i].op # "connected")
  PROVE  HeardLast(s, ops)'
<1> SUFFICES ASSUME NEW i \in DOMAIN mailbox',
                    mailbox'[i].op \in ops \/ (mailbox'[i].op = "connected" /\ mailbox'[i].arg # s)
             PROVE  HeardAfter(i, s)'
  BY DEF HeardLast
<1>1. i \in DOMAIN mailbox /\ mailbox'[i] = mailbox[i]
  BY DEF Keeps
<1>2. HeardAfter(i, s)
  BY <1>1 DEF HeardLast
<1>3. QED
  BY <1>2, HeardGrows

\* ... and when the first command is taken.
LEMMA LastShrinks ==
  ASSUME Shaped, Shaped', Shrunk, generation' = generation, NEW s, NEW ops, HeardLast(s, ops)
  PROVE  HeardLast(s, ops)'
<1> SUFFICES ASSUME NEW i \in DOMAIN mailbox',
                    mailbox'[i].op \in ops \/ (mailbox'[i].op = "connected" /\ mailbox'[i].arg # s)
             PROVE  HeardAfter(i, s)'
  BY DEF HeardLast
<1>1. i \in Nat
  BY DEF Shaped, Naming
<1>2. i + 1 \in DOMAIN mailbox /\ mailbox'[i] = mailbox[i + 1]
  BY DEF Shrunk
<1>3. HeardAfter(i + 1, s)
  BY <1>2 DEF HeardLast
<1>4. QED
  BY <1>1, <1>3, HeardShrinks

\* The supervisor, with what is queued for it, still knows a connection it knew,
\* unless it rests or is about to.
LEMMA SupervisorStillKnows ==
  ASSUME Shaped, Shaped', Agreement, Supervising, NEW s \in Sockets,
         conns[s].state \notin {"unused", "gone"}, Known(s), HeardLast(s, {"retry"})
  PROVE  Known(s)' \/ Rests \/ (PassesOver /\ ~desired /\ phase' = phase /\ phase \in Resting)
<1>0. /\ s # None /\ None \notin Sockets /\ UNCHANGED generation
      /\ mailbox' = mailbox \/ Shrunk
  BY SupervisorMail, DeviceAssumption DEF None, Supervising
<1>1. ASSUME mailbox' = mailbox, socket' = socket PROVE Known(s)'
  BY <1>0, <1>1 DEF Known, HeardAfter, Current, HelloOf
<1>2. ASSUME Shrunk, mailbox[1].op = "retry" \/ (mailbox[1].op = "connected" /\ mailbox[1].arg # s)
      PROVE  Known(s)'
  <2>1. HeardAfter(1, s)
    BY <1>2 DEF HeardLast, Shrunk
  <2>2. QED
    BY <1>0, <1>2, <2>1, HeardShrinks DEF Known
<1>3. ASSUME Shrunk, socket' = socket, ~Current(1, s) PROVE Known(s)'
  BY <1>0, <1>3, HeardShrinks DEF Known
<1>4. CASE Rests
  BY <1>4
<1>5. CASE Halting \/ Starts
  BY <1>3, <1>5 DEF Halting, Starts, TakesFirst, Current, HelloOf
<1>6. CASE Retries
  BY <1>2, <1>6 DEF Retries, TakesFirst
<1>7. CASE PassesOver
  <2>1. Current(1, s) => ~desired
    <3>1. ASSUME Current(1, s), desired PROVE FALSE
      <4>1. \E j \in DOMAIN mailbox : j < 1
        BY <1>7, <3>1
           DEF Agreement, WokenBeforeHearing, PassesOver, Resting, TakesFirst, Shrunk, Current, HelloOf
      <4>2. QED
        BY <4>1, Places
    <3>2. QED
      BY <3>1
  <2>2. QED
    BY <1>3, <1>7, <2>1 DEF PassesOver, TakesFirst, Resting
<1>8. CASE Decides \/ RunsStopAgain
  BY <1>1, <1>8 DEF Decides, RunsStopAgain
<1>9. CASE GoesOn
  BY <1>1, <1>3, <1>9 DEF GoesOn, TakesFirst, Current, HelloOf
<1>10. CASE HearsHello
  <2>1. CASE mailbox[1].arg = s /\ mailbox[1].gen = generation
    BY <1>10, <2>1 DEF HearsHello, Known
  <2>2. CASE mailbox[1].arg # s
    BY <1>2, <1>10, <2>2 DEF HearsHello, TakesFirst
  <2>3. CASE mailbox[1].gen # generation
    BY <1>3, <1>10, <2>3 DEF HearsHello, TakesFirst, Current
  <2>4. QED
    BY <2>1, <2>2, <2>3
<1>11. CASE HearsEnd
  <2>1. mailbox[1].arg # s
    BY <1>11 DEF HearsEnd, TakesFirst, Shrunk, Agreement, EndedOnesAreOver
  <2>2. ~Current(1, s) /\ Shrunk
    BY <1>11 DEF HearsEnd, TakesFirst, Current, HelloOf
  <2>3. CASE socket = s
    BY <1>11, <2>1, <2>3 DEF HearsEnd, Known
  <2>4. CASE socket # s
    BY <1>0, <2>2, <2>4, HeardShrinks DEF Known
  <2>5. QED
    BY <2>3, <2>4
<1>12. QED
  BY <1>4, <1>5, <1>6, <1>7, <1>8, <1>9, <1>10, <1>11 DEF Supervising, SupervisorMoves

\* A hello that was admitted reaches the supervisor.
LEMMA AdmittedAreStillHeard ==
  ASSUME Shaped, Shaped', Agreement, Step
  PROVE  AdmittedAreHeard'
<1> DEFINE Heard(s) == /\ Known(s) \/ (~desired /\ phase \in Resting \cup {"check", "clear"})
                       /\ HeardLast(s, {"stop", "retry"})
<1>0. /\ AttemptsAreNumbered /\ NewOnesAreNew
      /\ \A s \in Sockets : conns[s].state = "admitted" /\ conns[s].gen = generation => Heard(s)
  BY DEF Agreement, AdmittedAreHeard, Known
<1> HIDE DEF Heard
<1> SUFFICES ASSUME NEW s \in Sockets, conns'[s].state = "admitted", conns'[s].gen = generation'
             PROVE  Heard(s)'
  BY DEF AdmittedAreHeard, Known, Heard
<1>1. ASSUME UNCHANGED <<mailbox, phase, generation, desired, socket>>, Heard(s) PROVE Heard(s)'
  BY <1>1 DEF Heard, Known, HeardAfter, HeardLast, Current, HelloOf
<1>2. ASSUME CalmAt(s), generation' = generation PROVE Heard(s)
  BY <1>0, <1>2, CalmStates DEF Over
<1>3. ASSUME UNCHANGED <<phase, generation, desired, socket>>, Heard(s), Keeps,
             \A i \in DOMAIN mailbox' : i \in DOMAIN mailbox \/ mailbox'[i].op \notin {"stop", "retry", "connected"}
      PROVE  Heard(s)'
  <2>1. HeardLast(s, {"stop", "retry"})'
    BY <1>3, LastGrows DEF Heard
  <2>2. QED
    BY <1>3, <2>1, HeardGrows DEF Heard, Known
<1>4. CASE Quiet
  BY <1>1, <1>2, <1>4 DEF Quiet, Passes
<1>5. CASE Requests
  <2>1. conns[s].gen <= generation /\ conns[s].gen = generation' /\ generation \in Nat
    BY <1>0, <1>5 DEF Requests, AttemptsAreNumbered, Shaped, Counted
  <2>2. generation' # generation + 1
    BY <2>1
  <2>3. /\ Sends("start") \/ Sends("restart")
        /\ UNCHANGED <<phase, generation, desired, socket>>
    BY <1>5, <2>2, Zenon DEF Requests
  <2>4. \A i \in DOMAIN mailbox' : i \in DOMAIN mailbox \/ mailbox'[i].op \notin {"stop", "retry", "connected"}
    BY <2>3 DEF Sends, Grown
  <2>5. QED
    BY <1>0, <1>2, <1>3, <1>5, <2>3, <2>4, StepsKeep, OthersAreCalm
<1>6. ASSUME NEW u \in Sockets, Opening(u) PROVE Heard(s)'
  <2>1. s # u
    BY <1>6 DEF Opening, Opens
  <2>2. QED
    BY <1>1, <1>2, <1>6, <2>1 DEF Opening
<1>7. ASSUME NEW u \in Sockets, Moving(u) PROVE Heard(s)'
  <2>1. CASE s # u
    <3>1. Asks(s) /\ CalmAt(s)
      BY <1>7, <2>1, CalmStates DEF Moving, Asks
    <3>2. ~Asks(u)
      BY <1>0, <2>1, <3>1 DEF NewOnesAreNew, Asks
    <3>3. Closes(u)
      BY <1>7, <3>2 DEF Moving, Registers, Rejects, Declines, Ponders, Admits, Adopts, Asks, Waits
    <3>4. \A i \in DOMAIN mailbox' : i \in DOMAIN mailbox \/ mailbox'[i].op \notin {"stop", "retry", "connected"}
      BY <3>3 DEF Closes, Grown, Command
    <3>5. UNCHANGED <<phase, generation, desired, socket>>
      BY <1>7, <3>3 DEF Moving, Closes
    <3>6. QED
      BY <1>0, <1>2, <1>3, <1>7, <3>1, <3>4, <3>5, StepsKeep
  <2>2. CASE s = u /\ Admits(u)
    <3>1. PICK k \in DOMAIN mailbox' : mailbox'[k] = Command("connected", u, generation)
                                       /\ \A j \in DOMAIN mailbox : k > j
      BY <2>2 DEF Admits, Grown
    <3>2. k \in Nat \ {0} /\ Current(k, u)'
      BY <2>2, <3>1 DEF Shaped, Naming, Admits, Current, HelloOf, Command
    <3>3. \A i \in DOMAIN mailbox' : i \in DOMAIN mailbox \/ mailbox'[i] = Command("connected", u, generation)
      BY <2>2 DEF Admits, Grown
    <3>4. QED
      BY <2>2, <3>1, <3>2, <3>3 DEF Heard, Known, HeardAfter, HeardLast, Command
  <2>3. CASE s = u /\ Adopts(u)
    <3>1. DOMAIN mailbox' = {1, 2} /\ mailbox'[1].op = "start" /\ mailbox'[2] = Command("connected", u, 1)
      BY <1>0, <2>3, AdoptionMail DEF Adopts, AttemptsAreNumbered
    <3>2. HeardLast(s, {"stop", "retry"})'
      BY <2>3, <3>1 DEF HeardLast, Command
    <3>3. QED
      BY <2>3, <3>2 DEF Adopts, Heard, Known
  <2>4. QED
    BY <1>7, <2>1, <2>2, <2>3 DEF Moving, Registers, Rejects, Declines, Ponders, Closes, Over, Waits
<1>8. CASE Supervising
  <2>1. Heard(s) /\ generation' = generation /\ conns[s].state = "admitted"
    BY <1>2, <1>8, OthersAreCalm DEF Supervising
  <2>2. HeardLast(s, {"stop", "retry"})'
    <3>1. CASE mailbox' = mailbox
      BY <2>1, <3>1 DEF Heard, HeardLast, HeardAfter, Current, HelloOf
    <3>2. QED
      BY <1>8, <2>1, <3>1, LastShrinks, SupervisorMail DEF Heard
  <2>3. HeardLast(s, {"retry"})
    BY <2>1 DEF Heard, HeardLast
  <2>4. CASE Known(s)
    BY <1>8, <2>1, <2>2, <2>3, <2>4, SupervisorStillKnows DEF Heard, Rests, PassesOver
  <2>5. CASE ~Known(s) /\ ~desired /\ phase \in Resting \cup {"check", "clear"}
    <3>1. (~desired /\ phase \in Resting \cup {"check", "clear"})' \/ Retries
      BY <1>8, <2>5
         DEF Supervising, SupervisorMoves, Rests, Halting, Starts, PassesOver, Decides, GoesOn,
             HearsHello, HearsEnd, RunsStopAgain, Resting
    <3>2. CASE Retries
      <4>1. HeardAfter(1, s) /\ Shrunk
        BY <2>3, <3>2 DEF Retries, TakesFirst, Shrunk, HeardLast
      <4>2. QED
        BY <2>1, <2>2, <4>1, HeardShrinks DEF Heard, Known
    <3>3. QED
      BY <2>2, <3>1, <3>2 DEF Heard
  <2>6. QED
    BY <2>1, <2>4, <2>5 DEF Heard
<1>9. CASE Forgets
  BY <1>9 DEF Forgets, Over
<1>10. QED
  BY <1>4, <1>5, <1>6, <1>7, <1>8, <1>9 DEF Step

StopQueued ==
  \E j \in DOMAIN mailbox :
    /\ mailbox[j].op = "stop"
    /\ phase # "stopping" \/ \E k \in DOMAIN mailbox : k < j /\ mailbox[k].op \in Wakes

\* What ends the router's connection is not lost when more is queued ...
LEMMA StopStaysQueued ==
  ASSUME StopQueued, Keeps, phase' = phase
  PROVE  StopQueued'
  BY DEF StopQueued, Keeps

\* ... nor by the supervisor, which publishes the end when it takes the Stop.
LEMMA SupervisorStillEnds ==
  ASSUME Shaped, Shaped', Typed, Typed', Supervising, Ending
  PROVE  Ending'
<1>0. projected \in Nat /\ projected' \in Nat
  BY DEF Typed
<1>1. CASE projected > 0 \/ handler.evicts
  BY <1>0, <1>1 DEF Ending, Supervising
<1>2. Rests \/ Halting => Ending'
  BY DEF Rests, Halting, Ending
<1>3. CASE phase = "halting"
  BY <1>2, <1>3
     DEF Supervising, SupervisorMoves, Starts, Retries, PassesOver, Decides, GoesOn, HearsHello, HearsEnd,
         RunsStopAgain, Resting, Ending
<1>4. ASSUME StopQueued, ~Rests, ~Halting PROVE StopQueued'
  <2>1. phase' = "stopping" => phase = "stopping" /\ (UNCHANGED mailbox \/ PassesOver)
    BY <1>4
       DEF Supervising, SupervisorMoves, Starts, Retries, PassesOver, Decides, GoesOn, HearsHello, HearsEnd,
           RunsStopAgain, Resting
  <2>2. CASE mailbox' = mailbox
    BY <1>4, <2>1, <2>2 DEF StopQueued
  <2>3. CASE Shrunk /\ mailbox' # mailbox
    <3>1. PICK j \in DOMAIN mailbox :
            /\ mailbox[j].op = "stop"
            /\ phase # "stopping" \/ \E k \in DOMAIN mailbox : k < j /\ mailbox[k].op \in Wakes
      BY <1>4 DEF StopQueued
    <3>2. \A k \in DOMAIN mailbox : k \in Nat \ {0}
      BY Places
    <3>3. j # 1
      <4>1. ASSUME j = 1 PROVE FALSE
        <5>1. phase # "stopping"
          BY <3>1, <3>2, <4>1
        <5>2. PassesOver /\ mailbox[1].op = "stop"
          BY <1>4, <2>3, <3>1, <4>1, <3>2, <5>1
             DEF Supervising, SupervisorMoves, Starts, Retries, PassesOver, Decides, GoesOn, HearsHello,
                 HearsEnd, RunsStopAgain, TakesFirst, SocketCommands
        <5>3. QED
          BY <2>3, <5>1, <5>2 DEF PassesOver, TakesFirst, SocketCommands
      <4>2. QED
        BY <4>1
    <3>4. j - 1 \in DOMAIN mailbox' /\ mailbox'[j - 1].op = "stop"
      BY <2>3, <3>1, <3>3 DEF Shrunk
    <3>5. CASE phase' # "stopping"
      BY <3>4, <3>5 DEF StopQueued
    <3>6. CASE phase' = "stopping"
      <4>1. PICK k \in DOMAIN mailbox : k < j /\ mailbox[k].op \in Wakes
        BY <2>1, <3>1, <3>6
      <4>2. k # 1
        BY <2>1, <2>3, <3>6, <4>1 DEF PassesOver, TakesFirst, Wakes, SocketCommands
      <4>3. k - 1 \in DOMAIN mailbox' /\ mailbox'[k - 1].op \in Wakes /\ k - 1 < j - 1
        BY <2>3, <3>2, <4>1, <4>2 DEF Shrunk
      <4>4. QED
        BY <3>4, <4>3 DEF StopQueued
    <3>7. QED
      BY <3>5, <3>6
  <2>4. QED
    BY <2>2, <2>3, SupervisorMail
<1>5. QED
  BY <1>1, <1>2, <1>3, <1>4 DEF Ending, StopQueued

\* The router lets go of its connection, takes another, or the supervisor learns of it.
LEMMA LiveStaysShared ==
  ASSUME Shaped, Shaped', Typed, Typed', StopInvariant, Agreement, Step
  PROVE  LiveIsShared'
<1>0. /\ AttemptsAreNumbered /\ NewOnesAreNew /\ EndedOnesAreOver
      /\ live # None => Ending \/ Replaced \/ Shared(live)
      /\ live \in Sockets \cup {None} /\ live' \in Sockets \cup {None} /\ None \notin Sockets
      /\ projected \in Nat /\ projected' \in Nat
  BY DeviceAssumption DEF Agreement, LiveIsShared, Shaped, Naming, None, Typed
<1> SUFFICES ASSUME NEW s \in Sockets, live' = s PROVE Ending' \/ Replaced' \/ Shared(s)'
  <2>1. live' # None => live' \in Sockets
    BY <1>0
  <2>2. QED
    BY <2>1 DEF LiveIsShared, Shared
<1>1. ASSUME UNCHANGED <<mailbox, phase, generation, desired, socket>> PROVE Shared(s) => Shared(s)'
  BY <1>1 DEF Shared, HeardAfter, HeardLast, Current, HelloOf
<1>2. ASSUME projected' = projected, handler'.evicts = handler.evicts, phase' = phase, Keeps PROVE Ending => Ending'
  BY <1>2, StopStaysQueued DEF Ending, StopQueued
<1>3. ASSUME \A t \in Sockets : conns[t].state = "admitted" => CalmAt(t) PROVE Replaced => Replaced'
  BY <1>3, CalmStates DEF Replaced
<1>4. ASSUME UNCHANGED <<phase, generation, desired, socket>>, Keeps, Shared(s),
             \A i \in DOMAIN mailbox' : i \in DOMAIN mailbox \/ mailbox'[i].op \notin {"retry", "connected"}
      PROVE  Shared(s)'
  <2>1. HeardLast(s, {"retry"})'
    BY <1>4, LastGrows DEF Shared
  <2>2. QED
    BY <1>4, <2>1, HeardGrows DEF Shared
<1>5. CASE Quiet
  <2>1. /\ live = s /\ projected' = projected /\ handler'.evicts = handler.evicts
        /\ UNCHANGED <<mailbox, phase, generation, desired, socket>>
    BY <1>0, <1>5 DEF Quiet, Passes
  <2>2. QED
    BY <1>0, <1>1, <1>2, <1>3, <1>5, <2>1, StepsKeep DEF Quiet
<1>6. ASSUME NEW u \in Sockets, Opening(u) PROVE Ending' \/ Replaced' \/ Shared(s)'
  <2>1. \A t \in Sockets : conns[t].state = "admitted" => CalmAt(t)
    BY <1>6 DEF Opening, Opens
  <2>2. /\ live = s /\ projected' = projected /\ handler'.evicts = handler.evicts
        /\ UNCHANGED <<mailbox, phase, generation, desired, socket>>
    BY <1>6 DEF Opening
  <2>3. QED
    BY <1>0, <1>1, <1>2, <1>3, <1>6, <2>1, <2>2, StepsKeep
<1>7. CASE Requests
  <2>1. live = s /\ (Replaced => Replaced') /\ Keeps
    BY <1>0, <1>3, <1>7, OthersAreCalm, StepsKeep DEF Requests
  <2>2. Ending => Ending'
    BY <1>0, <1>7, <2>1, StopStaysQueued DEF Ending, StopQueued, Requests
  <2>3. CASE Sends("stop") /\ phase' = phase
    <3>1. PICK i \in DOMAIN mailbox' : mailbox'[i].op = "stop" /\ \A j \in DOMAIN mailbox : i > j
      BY <2>3 DEF Sends, Grown
    <3>2. CASE phase # "stopping"
      BY <2>3, <3>1, <3>2 DEF Ending
    <3>3. CASE phase = "stopping" /\ ~Queued(mailbox, Wakes)
      BY <1>0, <2>1, <2>2, <3>3 DEF StopInvariant, Halted, Resting, Ending
    <3>4. CASE Queued(mailbox, Wakes)
      <4>1. PICK k \in DOMAIN mailbox : mailbox[k].op \in Wakes
        BY <3>4 DEF Queued
      <4>2. k \in DOMAIN mailbox' /\ mailbox'[k].op \in Wakes /\ i > k /\ i \in Nat /\ k \in Nat
        BY <2>1, <3>1, <4>1, Places DEF Keeps, Shaped, Naming
      <4>3. k < i
        BY <4>2
      <4>4. QED
        BY <3>1, <4>2, <4>3 DEF Ending
    <3>5. QED
      BY <3>2, <3>3, <3>4
  <2>4. CASE handler'.evicts
    BY <2>4 DEF Ending
  <2>5. CASE (Sends("start") \/ Sends("restart")) /\ UNCHANGED <<phase, desired, socket, generation>>
    <3>1. \A i \in DOMAIN mailbox' : i \in DOMAIN mailbox \/ mailbox'[i].op \notin {"retry", "connected"}
      BY <2>5 DEF Sends, Grown
    <3>2. Shared(s) => Shared(s)'
      BY <1>4, <2>1, <2>5, <3>1
    <3>3. QED
      BY <1>0, <2>1, <2>2, <3>2
  <2>6. CASE ~desired
    BY <1>0, <2>1, <2>2, <2>6 DEF Shared
  <2>7. QED
    BY <1>7, <2>3, <2>4, <2>5, <2>6, Zenon DEF Requests
<1>8. ASSUME NEW u \in Sockets, Moving(u) PROVE Ending' \/ Replaced' \/ Shared(s)'
  <2>1. CASE Registers(u)
    <3>1. s = u /\ Shared(u)
      BY <1>8, <2>1 DEF Registers, Moving, Agreement, AdmittedAreHeard, Shared, HeardLast, Resting
    <3>2. QED
      BY <1>1, <1>8, <2>1, <3>1 DEF Registers, Moving
  <2>2. CASE Rejects(u)
    BY <1>0, <2>2 DEF Rejects
  <2>3. CASE Admits(u) \/ Adopts(u)
    BY <2>3 DEF Admits, Adopts, Replaced
  <2>4. CASE Declines(u) \/ Ponders(u)
    <3>1. \A t \in Sockets : conns[t].state = "admitted" => CalmAt(t)
      BY <1>8, <2>4 DEF Moving, Declines, Ponders, Waits
    <3>2. /\ live = s /\ projected' = projected /\ handler'.evicts = handler.evicts
          /\ UNCHANGED <<mailbox, phase, generation, desired, socket>>
      BY <1>8, <2>4 DEF Moving, Declines, Ponders
    <3>3. QED
      BY <1>0, <1>1, <1>2, <1>3, <1>8, <3>1, <3>2, StepsKeep
  <2>5. CASE Closes(u)
    <3>1. \A t \in Sockets : conns[t].state = "admitted" => CalmAt(t)
      BY <1>8, <2>5 DEF Moving, Closes
    <3>2. /\ live = s /\ projected' = projected /\ handler'.evicts = handler.evicts
          /\ UNCHANGED <<phase, generation, desired, socket>>
      BY <1>0, <1>8, <2>5 DEF Moving, Closes
    <3>3. \A i \in DOMAIN mailbox' : i \in DOMAIN mailbox \/ mailbox'[i].op \notin {"retry", "connected"}
      BY <2>5 DEF Closes, Grown, Command
    <3>4. QED
      BY <1>0, <1>2, <1>3, <1>4, <1>8, <3>1, <3>2, <3>3, StepsKeep
  <2>6. QED
    BY <1>8, <2>1, <2>2, <2>3, <2>4, <2>5 DEF Moving
<1>9. CASE Supervising
  <2>1. live = s /\ (Replaced => Replaced') /\ (Ending => Ending')
    BY <1>3, <1>9, OthersAreCalm, SupervisorStillEnds DEF Supervising
  <2>2. CASE Rests \/ Halting
    BY <2>2 DEF Rests, Halting, Ending
  <2>3. ASSUME Shared(s), ~Rests, ~Halting PROVE Shared(s)'
    <3>1. conns[s].state \notin {"unused", "gone"}
      BY <1>0, <2>1 DEF EndedOnesAreOver
    <3>2. Known(s)'
      BY <1>9, <2>3, <3>1, SupervisorStillKnows DEF Shared, Known
    <3>3. HeardLast(s, {"retry"})'
      <4>1. CASE mailbox' = mailbox
        BY <1>9, <2>3, <4>1 DEF Supervising, Shared, HeardLast, HeardAfter, Current, HelloOf
      <4>2. QED
        BY <1>9, <2>3, <4>1, LastShrinks, SupervisorMail DEF Shared, Supervising
    <3>4. desired'
      BY <1>9, <2>3
         DEF Supervising, SupervisorMoves, Starts, Retries, PassesOver, Decides, GoesOn, HearsHello, HearsEnd,
             RunsStopAgain, Shared
    <3>5. QED
      BY <3>2, <3>3, <3>4 DEF Shared, Known
  <2>4. QED
    BY <1>0, <2>1, <2>2, <2>3
<1>10. CASE Forgets
  BY <1>0, <1>10 DEF Forgets
<1>11. QED
  BY <1>5, <1>6, <1>7, <1>8, <1>9, <1>10 DEF Step

\* What the supervisor and the router know of connections, with what is on its
\* way to either, fits together in every reachable state.
THEOREM AgreementHolds == DeviceSpec => [](Shaped /\ Typed /\ StopInvariant /\ Agreement)
<1>1. DeviceInit => Agreement
  <2> SUFFICES ASSUME DeviceInit PROVE Agreement
    OBVIOUS
  <2>1. mailbox = <<>> /\ ~desired /\ socket = None /\ live = None /\ generation = 0 /\ phase = "idle"
        /\ \A s \in Sockets : conns[s].state = "unused"
    BY DEF DeviceInit, Unused
  <2>2. QED
    BY <2>1 DEF Agreement, NewOnesAreNew, Waits, EndedOnesAreOver, AttemptsAreNumbered, SocketsAreCovered,
                WokenBeforeHearing, AdmittedAreHeard, LiveIsShared
<1>2. Agreement /\ Shaped /\ Shaped' /\ Typed /\ Typed' /\ StopInvariant /\ [DeviceNext]_vars => Agreement'
  <2>1. ASSUME Agreement, Shaped, Shaped', Typed, Typed', StopInvariant, [DeviceNext]_vars
        PROVE  /\ NewOnesAreNew' /\ EndedOnesAreOver' /\ AttemptsAreNumbered' /\ SocketsAreCovered'
               /\ WokenBeforeHearing' /\ AdmittedAreHeard' /\ LiveIsShared'
    <3>1. Step
      BY <2>1, EveryStep DEF Step
    <3>2. QED
      BY <2>1, <3>1, NewOnesStayNew, EndedOnesStayOver, AttemptsStayNumbered, SocketsStayCovered,
         StillWokenBeforeHearing, AdmittedAreStillHeard, LiveStaysShared
  <2>2. QED
    BY <2>1 DEF Agreement
<1>3. QED
  BY <1>1, <1>2, ShapedHolds, StopInvariantHolds, PTL DEF DeviceSpec

\* When all messages are read the supervisor and the router name the same
\* connection, or the one that is left is on its way out, however connections,
\* hellos, requests and failures were interleaved before.  This is about
\* apply_socket_event, while_current_attempt and the lifecycle projection.
THEOREM AlwaysAgreesWhenQuiet == DeviceSpec => []AgreesWhenQuiet
<1>1. Shaped /\ Typed /\ StopInvariant /\ Agreement => AgreesWhenQuiet
  <2> SUFFICES ASSUME Shaped, StopInvariant, Agreement, Settled
               PROVE  /\ live # None => live = socket
                      /\ Usable(socket) => live = socket
    BY DEF AgreesWhenQuiet
  <2>1. /\ mailbox = <<>> /\ projected = 0 /\ ~handler.evicts /\ ~Replaced
        /\ \A s : ~HeardAfter(0, s) /\ ~EndsAfter(0, s)
    BY DEF Settled, Free, Replaced, HeardAfter, EndsAfter
  <2>2. socket \in Sockets \cup {None} /\ live \in Sockets \cup {None}
    BY DEF Shaped, Naming
  <2>3. phase = "halting" => live = None
    BY <2>1 DEF StopInvariant, Resting, Queued, Halted
  <2>4. ASSUME live # None PROVE live = socket
    <3>1. ~Ending
      BY <2>1, <2>3, <2>4 DEF Ending
    <3>2. QED
      BY <2>1, <2>4, <3>1 DEF Agreement, LiveIsShared, Shared
  <2>5. ASSUME Usable(socket) PROVE live = socket
    <3>1. socket # None /\ Sound(socket)
      BY <2>1, <2>5 DEF Usable, Agreement, SocketsAreCovered
    <3>2. conns[socket].state # "admitted"
      BY <2>2, <3>1 DEF Settled
    <3>3. QED
      BY <2>5, <3>1, <3>2 DEF Usable, Sound
  <2>6. QED
    BY <2>4, <2>5
<1>2. QED
  BY <1>1, AgreementHolds, PTL
=============================================================================
