---------------------------- MODULE ManagedDevice ----------------------------
(***************************************************************************)
(* One managed device: the supervisor task of its watchdog, the snapshot   *)
(* the handle shares with HTTP handlers and agent sessions, the ensure     *)
(* step and the stop job on the device, the daemon and its connections,    *)
(* and the router that is told of all of it by separate messages.          *)
(*                                                                         *)
(* The snapshot is read and written under one short lock by everybody, so  *)
(* a step here is what one actor does between two points where another     *)
(* may run: intent changes at once, the command that follows it waits in   *)
(* the mailbox, and what the router learns is later still.                 *)
(*                                                                         *)
(* A server that restarts forgets all of it, and the daemon stays.         *)
(*                                                                         *)
(* Texts (issues, provisioning lines, the user who asked) are left out, as *)
(* is a supervisor that is removed.  The mailbox never reaches its 16      *)
(* slots within the bounds.                                                *)
(***************************************************************************)
EXTENDS Naturals, Sequences, FiniteSets

CONSTANTS
  Sockets,      \* ids of connections, reused once nothing mentions them
  MaxEvents,    \* bound: requests of users, failures and losses, together
  MaxProjected  \* bound: snapshots on their way to the router

ASSUME DeviceAssumption ==
  /\ Sockets # {} /\ Sockets \subseteq Nat \ {0}
  /\ MaxEvents \in Nat /\ MaxProjected \in Nat \ {0}

None == 0
Builds == {"old", "new"}
Statuses == {"stopped", "starting", "connected", "stopping"}
Generations == 0 .. MaxEvents + 1

VARIABLES
  \* The handle, shared by all
  desired,     \* snapshot.desired_running
  generation,  \* snapshot.attempt_generation
  status,      \* snapshot.status
  socket,      \* snapshot.socket_id
  expected,    \* generation of the ensure report, if there is one
  mayRun,      \* daemon_may_run
  mailbox,     \* commands the supervisor has not taken
  \* The supervisor
  phase,       \* where its loop is
  cycle,       \* the generation its cycle runs for
  replaceNext,
  connected,   \* the socket whose hello it holds
  \* The device
  ensure,      \* the ensure step: its request and how far it is
  left,        \* what abandoned steps and jobs may still do, and how many of each
  child,       \* the session process
  job,         \* the stop job
  daemon,      \* the build of the daemon that holds the lock
  wedged,      \* it runs, and never connects again
  link,        \* the connection the daemon uses
  conns,       \* every connection, with its session on the server
  \* The router and the way there
  projected,   \* stopped and stopping snapshots the projection has not delivered
  superseded,  \* spawned supersede messages
  live,        \* the router's connection of the device
  \* The HTTP handlers
  handler,     \* the handler that holds config_edit_lock
  intent,      \* the last request that was accepted
  calls, troubles

snapshotVars == <<desired, generation, status, socket>>
handleVars == <<expected, mayRun, mailbox>>
supervisorVars == <<phase, cycle, replaceNext, connected>>
deviceVars == <<ensure, left, child, job, daemon, wedged, link, conns>>
routerVars == <<projected, superseded, live>>
callerVars == <<handler, intent, calls, troubles>>
vars == <<snapshotVars, handleVars, supervisorVars, deviceVars, routerVars, callerVars>>

Unused == [state |-> "unused", gen |-> 0, build |-> "new", told |-> "nothing",
           net |-> "open"]
NoRequest == [step |-> "none", replace |-> FALSE, connected |-> FALSE]
Leftovers == {"keeping", "replacing", "starting", "stopping"}
Free == [step |-> "none", call |-> 0, evicts |-> FALSE]

\* A server process starts with a stopped supervisor; a daemon may have outlived
\* the one before.
DeviceInit ==
  /\ desired = FALSE /\ generation = 0 /\ status = "stopped" /\ socket = None
  /\ expected = None /\ mayRun = FALSE /\ mailbox = <<>>
  /\ phase = "idle" /\ cycle = 0 /\ replaceNext = FALSE
  /\ connected = None
  /\ ensure = NoRequest /\ left = [k \in Leftovers |-> 0] /\ child = "none" /\ job = "none"
  /\ daemon \in Builds \cup {"none"} /\ wedged = FALSE /\ link = None
  /\ conns = [s \in Sockets |-> Unused]
  /\ projected = 0 /\ superseded = {} /\ live = None
  /\ handler = Free /\ intent = "none" /\ calls = 0 /\ troubles = 0

-----------------------------------------------------------------------------
(* The snapshot.  Every publication calls the projection with what it wrote; *)
(* only one that ends the device's connection is more to the router than a   *)
(* status to show.                                                           *)

Ends(state) == state \in {"stopped", "stopping"}

Publish(wanted, state, current) ==
  /\ projected' = projected + (IF Ends(state) THEN 1 ELSE 0)
  /\ projected' <= MaxProjected
  /\ desired' = wanted /\ status' = state /\ socket' = current

quiet == <<desired, status, socket, projected>>
Unpublished == UNCHANGED quiet

PublishStopped == Publish(FALSE, "stopped", None)
PublishStopping == Publish(FALSE, "stopping", None)
PublishFreshStart == Publish(TRUE, "starting", None)

\* publish_failure; an attempt that is no longer current says nothing.
PublishFailure ==
  IF generation = cycle
  THEN Publish(TRUE, IF socket = None THEN "starting" ELSE status, socket)
  ELSE Unpublished

\* The end of a connection, ignored unless it is the current one.
PublishDisconnected ==
  Publish(desired, IF desired THEN "starting" ELSE status, None)

-----------------------------------------------------------------------------
(* The handle: requests of HTTP handlers, one at a time under config_edit_lock. *)

Command(op, arg, gen) == [op |-> op, arg |-> arg, gen |-> gen]
Queue(command) == mailbox' = Append(mailbox, command)

MayHappen == calls + troubles < MaxEvents
CanCall == handler = Free /\ MayHappen
Trouble == MayHappen /\ troubles' = troubles + 1

\* Mutant: an attempt is counted by start and again by its caller.
AttemptCountedTwice == generation' = generation + 2

NewAttempt == generation' = generation + 1

\* WatchdogHandle::start; a running device only gets the command.
CallStart ==
  /\ CanCall
  /\ calls' = calls + 1 /\ intent' = "run"
  /\ handler' = [Free EXCEPT !.step = "acked"]
  /\ Queue(Command("start", None, 0))
  /\ IF desired
     THEN Unpublished /\ UNCHANGED generation
     ELSE NewAttempt /\ Publish(TRUE, "starting", None)
  /\ UNCHANGED <<expected, mayRun, supervisorVars, deviceVars, superseded, live,
                 troubles>>

\* WatchdogHandle::shutdown, with a stop job.
CallStop ==
  /\ CanCall
  /\ calls' = calls + 1 /\ intent' = "stop"
  /\ handler' = [Free EXCEPT !.step = "waiting", !.call = calls + 1]
  /\ Queue(Command("stop", calls + 1, 0))
  /\ desired' = FALSE /\ NewAttempt
  /\ UNCHANGED <<status, socket, projected, expected, mayRun, supervisorVars,
                 deviceVars, superseded, live, troubles>>

\* retry_agent_start_handler: the retry and the eviction of the old connection
\* are under way together.
CallRetry ==
  /\ CanCall
  /\ calls' = calls + 1 /\ intent' = "run"
  /\ handler' = [step |-> "waiting", call |-> calls + 1, evicts |-> TRUE]
  /\ Queue(Command("retry", calls + 1, 0))
  /\ desired' = FALSE /\ NewAttempt
  /\ UNCHANGED <<status, socket, projected, expected, mayRun, supervisorVars,
                 deviceVars, superseded, live, troubles>>

\* WatchdogHandle::restart takes no lock and refuses a device that is not wanted.
CallRestart ==
  /\ desired /\ MayHappen
  /\ calls' = calls + 1
  /\ Queue(Command("restart", None, 0))
  /\ UNCHANGED <<snapshotVars, expected, mayRun, supervisorVars, deviceVars,
                 routerVars, handler, intent, troubles>>

\* The ten seconds a handler waits for the supervisor are over.
HandlerTimesOut ==
  /\ handler.step = "waiting" /\ ~handler.evicts
  /\ Trouble
  /\ handler' = Free
  /\ UNCHANGED <<snapshotVars, handleVars, supervisorVars, deviceVars, routerVars,
                 intent, calls>>

\* The handler reads the snapshot it sends to the router itself.
HandlerReads ==
  /\ handler.step = "acked" /\ ~handler.evicts
  /\ handler' = IF Ends(status) THEN [Free EXCEPT !.step = "sent"] ELSE Free
  /\ UNCHANGED <<snapshotVars, handleVars, supervisorVars, deviceVars, routerVars,
                 intent, calls, troubles>>

-----------------------------------------------------------------------------
(* The router *)

\* A connection both ends are done with is as good as unused.
Kept(connections, used) ==
  [s \in Sockets |-> IF connections[s].state = "gone" /\ s # used
                     THEN Unused ELSE connections[s]]

\* release_connection with a notice; a daemon that reads it exits.
Told(s) == conns' = [conns EXCEPT ![s].told = "exit"]

\* apply_managed_lifecycle, for a snapshot that ends the connection or with
\* evict_existing.
EndConnection ==
  /\ live' = None
  /\ IF live # None THEN Told(live) ELSE UNCHANGED conns

\* The forwarder of lifecycle_projection delivers in order.
ProjectionArrives ==
  /\ projected > 0
  /\ EndConnection
  /\ projected' = projected - 1
  /\ UNCHANGED <<snapshotVars, handleVars, supervisorVars, ensure, left, child, job,
                 daemon, wedged, link, superseded, callerVars>>

\* A handler's own projection, which no order ties to the forwarder's.
HandlerProjects ==
  /\ handler.step = "sent"
  /\ EndConnection
  /\ handler' = Free
  /\ UNCHANGED <<snapshotVars, handleVars, supervisorVars, ensure, left, child, job,
                 daemon, wedged, link, projected, superseded, intent, calls, troubles>>

\* evict_managed_snapshot
HandlerEvicts ==
  /\ handler.evicts
  /\ EndConnection
  /\ handler' = [handler EXCEPT !.evicts = FALSE]
  /\ UNCHANGED <<snapshotVars, handleVars, supervisorVars, ensure, left, child, job,
                 daemon, wedged, link, projected, superseded, intent, calls, troubles>>

\* Mutant: the commit does not ask whether the attempt is still current.
RegistersAnyAttempt(s) ==
  /\ conns[s].state = "admitted"
  /\ live' = s
  /\ conns' = [t \in Sockets |->
                  IF t = s THEN [conns[s] EXCEPT !.state = "registered", !.gen = 0]
                  ELSE IF t = live THEN [conns[t] EXCEPT !.told = "exit"] ELSE conns[t]]
  /\ UNCHANGED <<snapshotVars, handleVars, supervisorVars, ensure, left, child, job,
                 daemon, wedged, link, projected, superseded, callerVars>>

\* register_agent of a managed hello: the old connection goes first, and the
\* commit holds the snapshot's lock (while_current_attempt).
RouterRegisters(s) ==
  LET current == desired /\ generation = conns[s].gen
      evicted == IF live = None THEN conns ELSE [conns EXCEPT ![live].told = "exit"]
  IN /\ conns[s].state = "admitted"
     /\ IF current
        THEN /\ live' = s
             /\ conns' = [evicted EXCEPT ![s].state = "registered", ![s].gen = 0]
             /\ UNCHANGED mailbox
        ELSE /\ live' = None
             /\ conns' = Kept([evicted EXCEPT ![s].state = "gone", ![s].gen = 0,
                                               ![s].told = "exit"], link)
             /\ Queue(Command("disconnected", s, 0))
     /\ UNCHANGED <<snapshotVars, expected, mayRun, supervisorVars, ensure, left, child,
                    job, daemon, wedged, link, projected, superseded, callerVars>>

\* supersede_managed_connection
RouterSupersedes(s) ==
  /\ s \in superseded
  /\ superseded' = superseded \ {s}
  /\ IF live = s
     THEN live' = None /\ Told(s)
     ELSE UNCHANGED <<live, conns>>
  /\ UNCHANGED <<snapshotVars, handleVars, supervisorVars, ensure, left, child, job,
                 daemon, wedged, link, projected, callerVars>>

-----------------------------------------------------------------------------
(* Sessions: one per connection, from its hello to its end. *)

\* Refused before the router hears of it; the session forgets the supervisor.
Refuse(s) ==
  /\ conns' = Kept([conns EXCEPT ![s].state = "gone", ![s].told = "exit"], link)
  /\ UNCHANGED mailbox

Untouched == ~desired /\ generation = 0

\* mark_connected of a device somebody started or stopped: Stopped, Superseded
\* by the report of this attempt, or Accepted for it.
Judge(s) ==
  \/ ~desired /\ Refuse(s)
  \/ desired /\ expected = generation /\ conns[s].build # "new" /\ Refuse(s)
  \/ /\ desired /\ ~(expected = generation /\ conns[s].build # "new")
     /\ Queue(Command("connected", s, generation))
     /\ conns' = [conns EXCEPT ![s].state = "admitted", ![s].gen = generation]

\* A hello of a device nobody touched goes on to adopt it.
SessionReadsHello(s) ==
  /\ conns[s].state = "hello"
  /\ IF Untouched
     THEN /\ conns' = [conns EXCEPT ![s].state = "adopting"]
          /\ mayRun' = TRUE /\ UNCHANGED mailbox
     ELSE Judge(s) /\ UNCHANGED mayRun
  /\ UNCHANGED <<snapshotVars, expected, supervisorVars, ensure, left, child, job,
                 daemon, wedged, link, routerVars, callerVars>>

\* adopt: the socket is published and Start and Connected are queued under one
\* lock, unless somebody was faster.
SessionAdopts(s) ==
  /\ conns[s].state = "adopting"
  /\ IF Untouched
     THEN /\ NewAttempt /\ Publish(TRUE, "connected", s)
          /\ mailbox' = mailbox \o <<Command("start", None, 0),
                                     Command("connected", s, generation + 1)>>
          /\ conns' = [conns EXCEPT ![s].state = "admitted", ![s].gen = generation + 1]
          /\ intent' = "run"
     ELSE Judge(s) /\ Unpublished /\ UNCHANGED <<generation, intent>>
  /\ UNCHANGED <<expected, mayRun, supervisorVars, ensure, left, child, job, daemon,
                 wedged, link, superseded, live, handler, calls, troubles>>

\* The socket closed, or stayed silent for the stale timeout: the supervisor is
\* told, then the router, which drops the connection if it is still the current
\* one (unregister_agent).  With the socket gone nothing else in the router can
\* tell the two moments apart.
SessionEnds(s) ==
  /\ conns[s].state = "registered" /\ conns[s].net # "open"
  /\ conns' = Kept([conns EXCEPT ![s].state = "gone"], link)
  /\ live' = IF live = s THEN None ELSE live
  /\ mailbox' = mailbox \o
       (IF conns[s].net = "silent" THEN <<Command("stale", s, 0)>> ELSE <<>>) \o
       <<Command("disconnected", s, 0)>>
  /\ UNCHANGED <<snapshotVars, expected, mayRun, supervisorVars, ensure, left, child,
                 job, daemon, wedged, link, projected, superseded, callerVars>>

-----------------------------------------------------------------------------
(* The device.  At most one daemon holds the lock. *)

deviceRest == <<snapshotVars, handleVars, supervisorVars, ensure, left, child, job,
                routerVars, handler, intent, calls>>

SocketCommands == {"connected", "disconnected", "stale"}
Mentioned(s) ==
  \/ s \in {link, live, socket, connected} \cup superseded
  \/ \E i \in DOMAIN mailbox : mailbox[i].op \in SocketCommands /\ mailbox[i].arg = s

\* Assumption: the server answers a hello long before the daemon, whose retries
\* are seconds apart, opens the next connection.
Unanswered == \E s \in Sockets : conns[s].state \in {"hello", "adopting", "admitted"}

FreshSockets == {s \in Sockets : conns[s].state = "unused" /\ ~Mentioned(s)}

DaemonConnects(s) ==
  /\ daemon # "none" /\ ~wedged /\ link = None /\ ~Unanswered
  /\ s \in FreshSockets /\ \A t \in FreshSockets : s <= t
  /\ conns' = [conns EXCEPT ![s] = [Unused EXCEPT !.state = "hello", !.build = daemon]]
  /\ link' = s
  /\ UNCHANGED <<deviceRest, daemon, wedged, troubles>>

Closed(net) ==
  IF link = None \/ conns[link].net # "open" THEN conns
  ELSE [conns EXCEPT ![link].net = net]

\* The daemon's process is gone, and the kernel closed its socket.
DaemonGone == daemon' = "none" /\ wedged' = FALSE /\ link' = None /\ conns' = Kept(Closed("closed"), None)

\* handle_rejection, handle_eviction of a managed daemon.
DaemonHears ==
  /\ link # None /\ conns[link].told = "exit" /\ conns[link].net = "open" /\ ~wedged
  /\ DaemonGone
  /\ UNCHANGED <<deviceRest, troubles>>

\* The daemon finds its connection lost and will open another.
DaemonNotices ==
  /\ link # None /\ ~wedged
  /\ \/ conns[link].net # "open"
     \/ conns[link].told = "nothing" /\ conns[link].state = "gone"
  /\ link' = None /\ conns' = Kept(conns, None)
  /\ UNCHANGED <<deviceRest, daemon, wedged, troubles>>

\* The network drops the connection, with or without the server noticing at once.
LinkBreaks ==
  /\ Trouble /\ link # None /\ conns[link].net = "open"
  /\ \E net \in {"closed", "silent"} : conns' = Closed(net)
  /\ UNCHANGED <<deviceRest, daemon, wedged, link>>

DaemonDies ==
  /\ Trouble /\ daemon # "none"
  /\ DaemonGone
  /\ UNCHANGED deviceRest

\* The daemon keeps its lock and never reaches the server again.
DaemonWedges ==
  /\ Trouble /\ daemon # "none" /\ ~wedged
  /\ wedged' = TRUE /\ link' = None /\ conns' = Kept(Closed("silent"), None)
  /\ UNCHANGED <<deviceRest, daemon>>

Leaves(kind) == left' = [left EXCEPT ![kind] = @ + 1]

\* The stop job: `agent managed --stop` waits until the lock is free; it does not
\* see a daemon that is still on its way to the lock.
JobStops ==
  /\ job = "running"
  /\ job' = "done" /\ DaemonGone
  /\ UNCHANGED <<snapshotVars, handleVars, supervisorVars, ensure, left, child,
                 routerVars, callerVars>>

\* It failed there, or the session was lost and it goes on alone.
JobFails ==
  /\ job = "running" /\ Trouble
  /\ job' = "failed"
  /\ Leaves("stopping")
  /\ UNCHANGED <<snapshotVars, handleVars, supervisorVars, ensure, child, daemon,
                 wedged, link, conns, routerVars, handler, intent, calls>>

ensureRest == <<snapshotVars, expected, mailbox, supervisorVars, child, job,
                routerVars, handler, intent, calls>>

At(step) == [NoRequest EXCEPT !.step = step]

\* What goes on after the payload was sent, without the server.
Abandoned ==
  CASE ensure.step = "sent" -> Leaves(IF ensure.replace THEN "replacing" ELSE "keeping")
    [] ensure.step = "cleared" -> Leaves("starting")
    [] OTHER -> UNCHANGED left

\* The payload is sent, and from then on a daemon may run (DaemonMayRun::mark).
EnsureSends ==
  /\ ensure.step = "asked"
  /\ ensure' = [ensure EXCEPT !.step = "sent"] /\ mayRun' = TRUE
  /\ UNCHANGED <<ensureRest, left, daemon, wedged, link, conns, troubles>>

\* SIGUSR1: the daemon tries again at once.
DaemonWakes == link' = None /\ conns' = Kept(Closed("closed"), None)

\* decide: keep the expected daemon and wake it unless the server has it, or
\* stop what runs.
EnsureDecides ==
  /\ ensure.step = "sent"
  /\ IF daemon = "new" /\ ~ensure.replace
     THEN /\ ensure' = At("started")
          /\ UNCHANGED <<daemon, wedged>>
          /\ IF ensure.connected \/ wedged THEN UNCHANGED <<link, conns>> ELSE DaemonWakes
     ELSE ensure' = At("cleared") /\ DaemonGone
  /\ UNCHANGED <<ensureRest, left, mayRun, troubles>>

\* The new process takes the lock, or finds it taken and exits.
EnsureStarts ==
  /\ ensure.step = "cleared"
  /\ IF daemon = "none"
     THEN ensure' = At("started") /\ daemon' = "new"
     ELSE ensure' = At("failed") /\ UNCHANGED daemon
  /\ UNCHANGED <<ensureRest, left, mayRun, wedged, link, conns, troubles>>

\* A failure that may pass, or a locked key, found before anything was sent.  A
\* session that was lost later leaves the step on the device to itself.
EnsureFails ==
  /\ Trouble
  /\ \/ ensure.step = "asked" /\ ensure' = At("locked") /\ UNCHANGED left
     \/ /\ ensure.step \in {"asked", "sent", "cleared"} /\ ensure' = At("failed")
        /\ Abandoned
  /\ UNCHANGED <<ensureRest, mayRun, daemon, wedged, link, conns>>

\* What was abandoned on the device goes on, or never does: `agent managed` reads
\* its stdin only once it holds a session, and the daemon it spawned is detached.
leftoverRest == <<snapshotVars, handleVars, supervisorVars, ensure, child, job,
                  routerVars, callerVars>>

LeftoverDecides ==
  /\ \/ /\ left["keeping"] > 0 /\ daemon = "new"
        /\ left' = [left EXCEPT !["keeping"] = @ - 1]
        /\ UNCHANGED <<daemon, wedged>>
        /\ UNCHANGED <<link, conns>> \/ (~wedged /\ DaemonWakes)
     \/ \E kind \in {"keeping", "replacing"} :
          /\ left[kind] > 0 /\ (kind = "keeping" => daemon # "new")
          /\ left' = [left EXCEPT ![kind] = @ - 1, !["starting"] = @ + 1]
          /\ DaemonGone
  /\ UNCHANGED leftoverRest

\* A daemon whose session is gone may have no tunnel to connect through.
LeftoverStarts ==
  /\ left["starting"] > 0
  /\ left' = [left EXCEPT !["starting"] = @ - 1]
  /\ IF daemon = "none"
     THEN daemon' = "new" /\ wedged' \in BOOLEAN
     ELSE UNCHANGED <<daemon, wedged>>
  /\ UNCHANGED <<leftoverRest, link, conns>>

LeftoverStops ==
  /\ left["stopping"] > 0
  /\ left' = [left EXCEPT !["stopping"] = @ - 1]
  /\ DaemonGone
  /\ UNCHANGED leftoverRest

\* The session ends when the daemon's lock is released, or its tunnel is lost.
ChildEnds ==
  /\ child = "alive"
  /\ \/ daemon = "none" /\ UNCHANGED troubles
     \/ daemon # "none" /\ Trouble
  /\ child' = "ended"
  /\ UNCHANGED <<snapshotVars, handleVars, supervisorVars, ensure, left, job, daemon,
                 wedged, link, conns, routerVars, handler, intent, calls>>

-----------------------------------------------------------------------------
(* The supervisor takes one command, or one result, at a time. *)

supervisorRest == <<generation, daemon, wedged, link, conns, live, intent, calls>>

Takes(ops) ==
  /\ mailbox # <<>> /\ Head(mailbox).op \in ops
  /\ mailbox' = Tail(mailbox)

\* The reply; nobody reads it once the handler gave up.
Ack ==
  handler' = IF handler.step = "waiting" /\ handler.call = Head(mailbox).arg
             THEN [handler EXCEPT !.step = "acked"] ELSE handler

\* wait_until_running
IdleTakes ==
  /\ phase = "idle"
  /\ \/ Takes({"start"}) /\ phase' = "check" /\ Unpublished /\ UNCHANGED handler
     \/ Takes({"retry"}) /\ phase' = "check" /\ PublishFreshStart /\ Ack
     \* The reply comes before the stop is published.
     \/ Takes({"stop"}) /\ phase' = "halting" /\ Unpublished /\ Ack
     \/ Takes({"restart"} \cup SocketCommands) /\ Unpublished
        /\ UNCHANGED <<phase, handler>>
  /\ UNCHANGED <<supervisorRest, expected, mayRun, cycle, replaceNext,
                 connected, ensure, left, child, job, superseded, troubles>>

\* A stop of a stopped device still reaches a daemon that may run.
IdleHalts ==
  /\ phase = "halting"
  /\ IF mayRun
     THEN PublishStopping /\ phase' = "stopping" /\ job' = "running"
     ELSE PublishStopped /\ phase' = "idle" /\ UNCHANGED job
  /\ UNCHANGED <<supervisorRest, expected, mayRun, mailbox, cycle,
                 replaceNext, connected, ensure, left, child, superseded, handler, troubles>>

\* run_desired looks at the intent before each cycle ...
SupervisorChecks ==
  /\ phase = "check"
  /\ phase' = IF desired THEN "begin" ELSE "clear"
  /\ UNCHANGED <<supervisorRest, quiet, handleVars, cycle, replaceNext,
                 connected, ensure, left, child, job, superseded, handler, troubles>>

SupervisorClears ==
  /\ phase = "clear"
  /\ phase' = "idle" /\ connected' = None /\ PublishStopped
  /\ UNCHANGED <<supervisorRest, handleVars, cycle, replaceNext, ensure, left,
                 child, job, superseded, handler, troubles>>

\* ... and run_cycle publishes that it runs, whatever the intent is by then.
CycleBegins ==
  /\ phase = "begin"
  /\ phase' = "asking"
  /\ Publish(TRUE, IF socket = None THEN "starting" ELSE status, socket)
  /\ expected' = None
  /\ UNCHANGED <<supervisorRest, mayRun, mailbox, cycle, replaceNext,
                 connected, ensure, left, child, job, superseded, handler, troubles>>

CycleAsks ==
  /\ phase = "asking"
  /\ phase' = "ensuring" /\ cycle' = generation
  /\ ensure' = [step |-> "asked", replace |-> replaceNext, connected |-> socket # None]
  /\ replaceNext' = FALSE
  /\ UNCHANGED <<supervisorRest, quiet, handleVars, connected, left, child, job,
                 superseded, handler, troubles>>

Running == phase \in {"ensuring", "watching", "backoff", "parked"}

\* Leaving a cycle kills the server's process of the ensure step or the session.
\* Neither ends the daemon, nor what the step has still to do on the device.
EndsCycle(next) ==
  /\ phase' = next /\ ensure' = NoRequest /\ Abandoned
  /\ child' = "none" /\ cycle' = 0

\* Mutant: a device without a connection needs no stop job.
StopsConnectedOnly ==
  /\ Running /\ Takes({"stop"})
  /\ connected' = None /\ Ack
  /\ IF mayRun /\ socket # None
     THEN PublishStopping /\ EndsCycle("stopping") /\ job' = "running"
     ELSE PublishStopped /\ EndsCycle("clear") /\ UNCHANGED job
  /\ UNCHANGED <<supervisorRest, expected, mayRun, replaceNext,
                 superseded, troubles>>

\* handle_pre_session_command, and handle_session_command which kills first.
RunningStops ==
  /\ Running /\ Takes({"stop"})
  /\ connected' = None /\ Ack
  /\ IF mayRun
     THEN PublishStopping /\ EndsCycle("stopping") /\ job' = "running"
     ELSE PublishStopped /\ EndsCycle("clear") /\ UNCHANGED job
  /\ UNCHANGED <<supervisorRest, expected, mayRun, replaceNext,
                 superseded, troubles>>

RunningRetries ==
  /\ Running /\ Takes({"retry"})
  /\ connected' = None /\ Ack
  /\ PublishFreshStart /\ EndsCycle("check")
  /\ UNCHANGED <<supervisorRest, expected, mayRun, replaceNext, job,
                 superseded, troubles>>

RunningRestarts ==
  /\ Running /\ Takes({"restart"})
  /\ replaceNext' = TRUE /\ EndsCycle("check")
  /\ UNCHANGED <<supervisorRest, quiet, expected, mayRun, connected,
                 job, superseded, handler, troubles>>

\* Only a parked supervisor waits for it.
RunningStarts ==
  /\ Running /\ Takes({"start"})
  /\ IF phase = "parked" THEN EndsCycle("check") ELSE UNCHANGED <<phase, ensure, left, child, cycle>>
  /\ UNCHANGED <<supervisorRest, quiet, expected, mayRun, replaceNext,
                 connected, job, superseded, handler, troubles>>

\* supersede_if_unexpected: a report is there and another daemon is connected.
Supersede(s) ==
  superseded' = IF s # None /\ conns[s].build # "new" THEN superseded \cup {s} ELSE superseded

\* apply_socket_event
RunningHearsConnected ==
  /\ Running /\ Takes({"connected"})
  /\ LET s == Head(mailbox).arg
     IN IF Head(mailbox).gen = generation
        THEN /\ Publish(TRUE, "connected", s) /\ connected' = s
             /\ IF expected # None THEN Supersede(s) ELSE UNCHANGED superseded
        ELSE Unpublished /\ UNCHANGED <<connected, superseded>>
  /\ UNCHANGED <<supervisorRest, expected, mayRun, phase, cycle, replaceNext,
                 ensure, left, child, job, handler, troubles>>

\* Mutant: the end of a replaced connection counts.
HearsAnyDisconnected ==
  /\ Running /\ Takes({"disconnected"})
  /\ IF socket # None
     THEN PublishDisconnected /\ connected' = None
     ELSE Unpublished /\ UNCHANGED connected
  /\ UNCHANGED <<supervisorRest, expected, mayRun, phase, cycle, replaceNext,
                 ensure, left, child, job, superseded, handler, troubles>>

RunningHearsDisconnected ==
  /\ Running /\ Takes({"disconnected"})
  /\ IF Head(mailbox).arg = socket
     THEN PublishDisconnected /\ connected' = None
     ELSE Unpublished /\ UNCHANGED connected
  /\ UNCHANGED <<supervisorRest, expected, mayRun, phase, cycle, replaceNext,
                 ensure, left, child, job, superseded, handler, troubles>>

\* Only the tunnel is rebuilt.
RunningHearsStale ==
  /\ Running /\ Takes({"stale"})
  /\ IF phase = "watching" /\ socket = Head(mailbox).arg
     THEN EndsCycle("backoff") /\ PublishFailure
     ELSE Unpublished /\ UNCHANGED <<phase, ensure, left, child, cycle>>
  /\ UNCHANGED <<supervisorRest, expected, mayRun, replaceNext,
                 connected, job, superseded, handler, troubles>>

\* accept_report: from here on only the reported daemon is accepted.  The report
\* describes the daemon that holds the lock, and is refused if it is another.
EnsureSucceeded ==
  /\ phase = "ensuring" /\ ensure.step = "started" /\ daemon = "new"
  /\ phase' = "watching" /\ ensure' = NoRequest /\ child' = "alive"
  /\ expected' = cycle /\ mayRun' = TRUE
  /\ Supersede(connected)
  /\ UNCHANGED <<supervisorRest, quiet, mailbox, cycle, replaceNext, connected, left, job,
                 handler, troubles>>

\* A failed attempt is repeated after a while; a locked key waits for a user.
EnsureFailed ==
  /\ phase = "ensuring"
  /\ \/ ensure.step \in {"failed", "locked"}
     \/ ensure.step = "started" /\ daemon # "new"
  /\ EndsCycle(IF ensure.step = "locked" THEN "parked" ELSE "backoff")
  /\ PublishFailure
  /\ UNCHANGED <<supervisorRest, handleVars, replaceNext, connected,
                 job, superseded, handler, troubles>>

SessionFailed ==
  /\ phase = "watching" /\ child = "ended"
  /\ EndsCycle("backoff") /\ PublishFailure
  /\ UNCHANGED <<supervisorRest, handleVars, replaceNext, connected,
                 job, superseded, handler, troubles>>

\* Mutant: the next cycle keeps the daemon that never connected.
DeadlineKeepsDaemon ==
  /\ phase = "watching" /\ socket = None
  /\ \/ wedged /\ UNCHANGED troubles
     \/ ~wedged /\ Trouble
  /\ EndsCycle("backoff") /\ PublishFailure
  /\ UNCHANGED <<supervisorRest, handleVars, replaceNext, connected, job,
                 superseded, handler>>

\* replace_unconnected: a daemon that still can connect was too slow.
DeadlinePasses ==
  /\ phase = "watching" /\ socket = None
  /\ \/ wedged /\ UNCHANGED troubles
     \/ ~wedged /\ Trouble
  /\ EndsCycle("backoff") /\ replaceNext' = TRUE /\ PublishFailure
  /\ UNCHANGED <<supervisorRest, handleVars, connected, job,
                 superseded, handler>>

BackoffPasses ==
  /\ phase = "backoff"
  /\ phase' = "check"
  /\ UNCHANGED <<supervisorRest, quiet, handleVars, cycle, replaceNext,
                 connected, ensure, left, child, job, superseded, handler, troubles>>

\* A job that is dropped may go on on the device.
DropsJob == job' = "none" /\ IF job = "running" THEN Leaves("stopping") ELSE UNCHANGED left

\* handle_stop_command
StoppingTakes ==
  /\ phase = "stopping"
  /\ \/ Takes({"start"}) /\ DropsJob /\ phase' = "check" /\ Unpublished /\ UNCHANGED handler
     \/ Takes({"retry"}) /\ DropsJob /\ phase' = "check" /\ PublishFreshStart /\ Ack
     \/ Takes({"stop"}) /\ Ack /\ Unpublished /\ UNCHANGED <<phase, job, left>>
     \/ /\ Takes({"restart"} \cup SocketCommands)
        /\ Unpublished /\ UNCHANGED <<phase, job, left, handler>>
  /\ UNCHANGED <<supervisorRest, expected, mayRun, cycle, replaceNext,
                 connected, ensure, child, superseded, troubles>>

\* run_stop repeats a stop that failed, however long it takes.
StopSettles ==
  /\ phase = "stopping"
  /\ \/ /\ job = "done"
        /\ phase' = "idle" /\ job' = "none" /\ mayRun' = FALSE /\ PublishStopped
     \/ /\ job = "failed"
        /\ job' = "running" /\ Publish(desired, status, socket)
        /\ UNCHANGED <<phase, mayRun>>
  /\ UNCHANGED <<supervisorRest, expected, mailbox, cycle, replaceNext,
                 connected, ensure, left, child, superseded, handler, troubles>>

-----------------------------------------------------------------------------
(* The server *)

\* detach_all and the start of the next server process, or a crash in between
\* any two steps: the server's processes and every connection end, what was asked
\* is forgotten, and the daemon runs on, as may an ensure step or a stop job.
ServerRestarts ==
  /\ Trouble
  /\ desired' = FALSE /\ generation' = 0 /\ status' = "stopped" /\ socket' = None
  /\ expected' = None /\ mayRun' = FALSE /\ mailbox' = <<>>
  /\ phase' = "idle" /\ cycle' = 0 /\ replaceNext' = FALSE /\ connected' = None
  /\ ensure' = NoRequest /\ child' = "none" /\ job' = "none"
  /\ IF job = "running" THEN Leaves("stopping") ELSE Abandoned
  /\ conns' = Kept([s \in Sockets |->
                      IF conns[s].state = "unused" THEN conns[s]
                      ELSE [conns[s] EXCEPT !.state = "gone", !.gen = 0, !.net = "closed"]],
                   link)
  /\ projected' = 0 /\ superseded' = {} /\ live' = None
  /\ handler' = Free /\ intent' = "none"
  /\ UNCHANGED <<daemon, wedged, link, calls>>

-----------------------------------------------------------------------------
CallStep == CallStart \/ CallStop \/ CallRetry \/ CallRestart

HandlerStep == HandlerReads \/ HandlerProjects \/ HandlerEvicts

RouterStep(s) == RouterRegisters(s) \/ RouterSupersedes(s)

SessionStep(s) == SessionReadsHello(s) \/ SessionAdopts(s) \/ SessionEnds(s)

DaemonStep == (\E s \in Sockets : DaemonConnects(s)) \/ DaemonHears \/ DaemonNotices

EnsureStep == EnsureSends \/ EnsureDecides \/ EnsureStarts

LeftoverStep == LeftoverDecides \/ LeftoverStarts \/ LeftoverStops

SupervisorStep ==
  \/ IdleTakes \/ IdleHalts \/ SupervisorChecks \/ SupervisorClears
  \/ CycleBegins \/ CycleAsks
  \/ RunningStops \/ RunningRetries \/ RunningRestarts \/ RunningStarts
  \/ RunningHearsConnected \/ RunningHearsDisconnected \/ RunningHearsStale
  \/ EnsureSucceeded \/ EnsureFailed \/ SessionFailed \/ DeadlinePasses
  \/ StoppingTakes \/ StopSettles

TroubleStep ==
  HandlerTimesOut \/ LinkBreaks \/ DaemonDies \/ DaemonWedges \/ JobFails \/ EnsureFails

DeviceNext ==
  \/ CallStep \/ HandlerStep \/ ProjectionArrives
  \/ \E s \in Sockets : RouterStep(s) \/ SessionStep(s)
  \/ DaemonStep \/ EnsureStep \/ LeftoverStep \/ JobStops \/ ChildEnds
  \/ SupervisorStep \/ BackoffPasses
  \/ TroubleStep \/ ServerRestarts

DeviceSpec == DeviceInit /\ [][DeviceNext]_vars

ServerWorks ==
  \/ SupervisorStep \/ BackoffPasses \/ ProjectionArrives \/ HandlerStep
  \/ \E s \in Sockets : RouterStep(s) \/ SessionStep(s)

DeviceWorks == DaemonStep \/ EnsureStep \/ JobStops \/ ChildEnds

\* The tasks of the server, a daemon that is not wedged, the ensure step and the stop
\* job go on as long as one of them can; requests and troubles come or do not come, and
\* what was abandoned on the device goes on or is dead.
DeviceFairness == WF_vars(ServerWorks \/ DeviceWorks)

FairDeviceSpec == DeviceSpec /\ DeviceFairness

-----------------------------------------------------------------------------
(* Properties *)

\* The state stays in its domains; generation counts attempts, one for each
\* request and one for an adoption.
DeviceTypeOK ==
  /\ desired \in BOOLEAN /\ generation \in Generations /\ status \in Statuses
  /\ socket \in Sockets \cup {None} /\ expected \in Generations /\ mayRun \in BOOLEAN
  /\ \A i \in DOMAIN mailbox :
       mailbox[i].op \in {"start", "stop", "retry", "restart"} \cup SocketCommands
  /\ phase \in {"idle", "halting", "check", "clear", "begin", "asking", "ensuring",
                "watching", "backoff", "parked", "stopping"}
  /\ cycle \in Generations /\ replaceNext \in BOOLEAN
  /\ connected \in Sockets \cup {None} /\ child \in {"none", "alive", "ended"}
  /\ job \in {"none", "running", "done", "failed"} /\ left \in [Leftovers -> Nat]
  /\ daemon \in Builds \cup {"none"} /\ wedged \in BOOLEAN
  /\ link \in Sockets \cup {None} /\ superseded \subseteq Sockets
  /\ live \in Sockets \cup {None}
  /\ \A s \in Sockets : conns[s].gen \in Generations /\ conns[s].net \in {"open", "closed", "silent"}

\* A request the supervisor has still to take.
Pending(ops) == \E i \in DOMAIN mailbox : mailbox[i].op \in ops

\* Once the supervisor took the Stop that was asked for last, the device stays
\* stopped until somebody starts it: no late progress report, failure, hello,
\* registration or Restart revives it, and the router, which hears of it later
\* and of connections from elsewhere, ends without one.  A restart of the server
\* forgets what was asked (ServerRestarts).  This is about
\* publish_attempt_update and while_current_attempt.
StopIsKept ==
  intent = "stop" /\ ~Pending({"stop", "retry"}) =>
    /\ ~desired /\ Ends(status) /\ socket = None
    /\ projected = 0 /\ handler = Free => live = None

\* Everything that was said has been heard.
Settled ==
  /\ mailbox = <<>> /\ projected = 0 /\ superseded = {} /\ handler = Free
  /\ \A s \in Sockets : conns[s].state \in {"unused", "gone", "registered"}

Usable(s) == s # None /\ conns[s].net = "open" /\ conns[s].told = "nothing"

\* The supervisor and the router learn of connections from different messages
\* in no common order.  When all of them are read they name the same connection,
\* unless it is on its way out.
AgreesWhenQuiet ==
  Settled => /\ live # None => live = socket
             /\ Usable(socket) => live = socket

\* A device that is wanted gets a usable connection, whatever its daemon and its
\* tunnel did before, unless it waits for a key to be unlocked.  This is about
\* the connection deadline, Stale and the wake-up in decide.
DeviceComesUp == []<>(desired => Usable(live) \/ phase = "parked")

\* A daemon no ensure report speaks for, and that cannot be told either: it came up
\* when the stop job had already found the lock free, or outlived another server
\* process, and never reaches this one.  Its orphan limit ends it.
OutOfReach == wedged /\ ~mayRun

\* A Stop that is not taken back ends the daemon for good, also when it is wedged,
\* when stopping fails at first, and when an abandoned ensure step or a daemon on its
\* way to the lock brings one up after the stop job found none.  This is about
\* daemon_may_run, run_stop, the stop job and the refusal of a hello.
StopReachesDaemon ==
  <>[](intent = "stop") => <>[](daemon = "none" \/ OutOfReach)
=============================================================================
