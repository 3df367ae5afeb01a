# redoor in TLA+

Specifications of redoor's transfer core and of what keeps its agents reachable: the
flow-controlled streams between server and agents, downloads, uploads, edits, copies and moves,
the history rows they leave, the registry of what runs on an agent and for whom, the supervision
of managed devices, and the index of terminal sessions. Every module is translated from the Rust source under `src/crates`; `PROJECT.json`
maps each definition to the lines it models. Safety and liveness are model-checked with TLC on
small instances, and the central safety results are proved with TLAPS for every value of the
constants.

## The system

One server process and any number of agents, each on one WebSocket. HTTP handlers talk to a
single router actor through a bounded mailbox; payload never passes through it.

| Part | State it keeps | Operations | Talks to |
|---|---|---|---|
| Stream credit (`redoor-core/stream_credit.rs`, `redoor-protocol/wire/stream.rs`, router `streams.rs`, agent `transfers/stream.rs`) | gate permits, ledger of owed credit, bounded receive queue, lease (cancel, fault, byte count) | acquire, send, deliver, drain, grant, stop, fail, close | sender task, connection reader, consumer, router |
| Router: flows (`actors/router/output.rs`, `transfers/upload.rs`, `transfers/copy.rs`, `flows.rs`, `cleanup.rs`) | flow table, phase of each flow | admit, ready, publish request, result, cancel, violation, loss | lanes, session, HTTP, history |
| Lanes and tickets (`actors/lanes.rs`) | command, priority, interactive, bulk queues; `CommandTicket` | queue, write, withdraw, retain a cancel | router, session writer |
| Session (`actors/session.rs`) | hello and registration, per-session stream table | read frame, report result / violation / publish / ready, shut down | router, agent |
| HTTP services (`http/services/output.rs`, `upload.rs`) | receiver or stream, cancel guard, readiness and completion channels | open, read, send, finish, drop | router, lanes |
| Agent runtime (`runtime/dispatch.rs`, `cancel.rs`, `responder.rs`, `sessions.rs`) | cancel registry, result ledger, upload routes | dispatch, cancel, answer once, invalidate on loss | drivers, socket |
| Agent drivers (`transfers/download.rs`, `upload.rs` and sinks) | staging, route, token | send or stage frames, ask to publish, publish, abort | router's publication decision |
| History (`router/progress.rs`) | one row per transfer, observers | start, resume, mark, sync, prune | flows, UI |
| Registration (`router/agents.rs`, `duplicate_ids.rs`) | agents by id, known agents, reserved names | register, evict, refuse, forget | sessions, supervisor |
| One-shot commands (`router/agents.rs`, `http/agent_client/calls.rs`) | pending calls, abandon guards, deadlines | route, answer, abandon, fail on loss | HTTP, agent |
| Copies (`router/transfers/copy.rs`, agent `transfers/copy.rs`, `move.rs`, `partials.rs`) | phase, requests, one row, durable partial | verify, start, admit publication, pause, settle, delete source | two agents |
| Watchdog (`watchdog.rs`, `http/watchdog.rs`) | desired and actual daemon, attempt generation, backoff | start, stop, retry, restart, adopt | router, sessions, remote host |
| Terminals (`terminals/registry.rs`, agent `terminals`) | sessions, owed closes, viewers, replay | create, report, close, attach | agent, browser |
| SSH provisioning, managed keys | key generations, remote state | provision, rotate | remote host |
| Agent connection (`connection.rs`, `runtime/mod.rs`) | links, backoff, control scope | connect, rebind, evict | server |
| Agent commands; auth, tokens, vault; CLI and UI | files and request state | sequential I/O | — |

### What is hard here

- The router is sequential, but its handlers share stream tables and leases with the connection
  reader and with the consumer, which run while a handler does.
- The priority lane overtakes the command lane, so a cancel races the command it cancels.
- Results, violations, readiness, publication requests and the loss of a session reach one
  mailbox in an order that depends on four tasks; HTTP messages come on top.
- A reply that carries a receiver can be dropped unread. A guard is armed only afterwards.
- Publication is irreversible: a decision, a cancel, a timeout and a loss meet at one worker.
- A resumed download shares its history row with the stream it continues.
- Evicted and replaced sessions keep delivering frames for a while.
- A copy has up to seven requests on two agents, one row, and files that outlive all of them; one
  cancellation token carries three reasons.
- Supervisor, sessions and router hear of connections through different queues; intent changes at
  once, the work that follows it later.
- Terminal sessions outlive connections; answers, reports and owed closes race each other.
- Server and agent count streams separately: the server frees a slot when it queues the cancel, the
  agent when it reads it, and workers stop later, perhaps under the next connection. Request ids are
  unique only within one life of the server.

`PROJECT.json` lists these hazards at the lines where they bite, with the properties that would
catch them going wrong; the two without a property say why.

## Modules

```
StreamCredit <--EXTENDS-- OutputFlow            Publication <--INSTANCE-- UploadFlow
                                                CopyPromise <--INSTANCE-- CopyFlow
DownloadHistory      ManagedDevice      Terminals      WorkRegistry

StreamCreditProofs, OutputFlowProofs, UploadFlowProofs, DownloadHistoryProofs,
CopyFlowProofs, ManagedDeviceProofs, TerminalsProofs, WorkRegistryProofs EXTEND the
modules they are named after
```

### StreamCredit — one credited stream

Frames are numbered `1 .. Last`; `sent`, `arrived`, `queued` and `drained` are counters, so lane,
socket and queue are intervals between them. `permits`, `closed` and `held` are `CreditGate`,
`owed` and `owed_credit` the ledger and the batch `OutputReceiver::recv` holds across its await,
`slot`, `overflow` and `violated` the reader's table, `cancel` and `fault` the `StreamLease`.
`Acquire` / `Enqueue` are the two halves of a send, `Deliver` / `CloseOverflowing` of the reader,
`Drain` / `ReturnCredit` of a receive. `AwaitGrant` selects uploads, whose receiver grants the
first window. `Rogue` names the peers that ignore the protocol. Router, worker and client are an
environment that may stop, fail or close the stream at any time. Content, lanes' capacity and
the difference between 4 and 16 frames of window are left out.

### OutputFlow — one download, whole

Composes `StreamCredit` with the router's flow and row, the command lane and its ticket, the
cancel on the priority lane (retained by a task when the lane is full), the socket, the agent's
dispatcher and worker with its one result, the session's messages to the router, and the HTTP
caller from waiting for its reply to its end. A handler that touches shared state twice (fail
the lease, then close the slot) is two steps, and `router` holds the step that is due; all else
in a handler is private to the router and is one step. The stream of a download starts with its
whole window, hence `DownloadAssumption`.

### Publication and UploadFlow — one upload or edit

`Publication` is what the architecture promises: one verdict orders the change of the
destination against everything that may end the transfer. `UploadFlow` is the code: the flow's
phases, readiness and completion channels, the guard of the HTTP producer, `commit_edit` with
its router-owned terminal frame, the publication request and its decision, the agent's route,
token, 30 s timeout and commit, eviction and loss. Raw and tar uploads are `"replace"`, file
edits `"edit"`. Cancel, decision and terminal frame use different lanes and reach the worker by
different routes, so each has a position of its own (`"lane"`, `"wire"`, `"seen"`...) with no
order among them; what the agent sends for one upload is a sequence. The body is only unfinished
or ended by FIN: its frames are `StreamCredit`. The refinement mapping is: the verdict is
accepted once the router granted the publication or handed over an edit's terminal frame, and
refused once the flow is canceling or settled otherwise; the report is the row.

### DownloadHistory — several downloads, shared rows

The router's view of several downloads of one file: rows with state, byte count, total and
resume window; flows with phase, row and counted bytes. One step is one handled message, since
handlers do not interleave; a result may come at any time with any outcome (how it comes about
is `OutputFlow`). `"interrupted"` is an errored row with the text "Download canceled by client",
which `record_download_start` matches. Directory downloads (no known size, never resumed) and
uploads (rows of their own) add nothing to sharing and are left out.

### CopyPromise and CopyFlow — one copy or move

`CopyPromise` is what user and row are promised, whoever executes the copy: cancelable until its
publication is admitted and not after, a pause leaves the destination alone, only a move removes
its source and only after publication. `CopyFlow` has the router's `CopyFlow` record with its
phases (verification of a partial by two hashes, the remote streams, settlement of a partial, the
local command, the deletion of a moved source), the command, ticket and priority lane of each of
the requests, and the workers with their tokens and `CancelReasonCell`. A regular file is a
sequence of `Segments` marks, each from the captured version, another, or torn; the bytes of the
streams are `StreamCredit`'s. The segments of a directory are its entries, which the copy opens by
their paths one after the other (`copy.rs:355-426`), so a file has one version and a directory may
mix them (`Readable`). Replacement of the source is a rename over it. The removal of a moved source
first looks at what is at the path (`VerifySource`, `VerifyRemoval`) and then removes the path
(`DeleteSource`, `RemoveLocal`); a version put there between the two steps is `"late"`. A
directory's identity is that of its top entry: a change inside it, and a recursive removal that
fails half way, are not modelled. Progress figures are left out. Either agent is lost, and returns,
at any point.

### ManagedDevice — one supervised device

The supervisor task of `watchdog.rs` as a state machine (`phase`), the snapshot its handle shares
with HTTP handlers and sessions, the ensure step and stop job on the device, daemon, tunnel and
connections, and the router with the projection and supersede messages it is sent. The snapshot
is under one short lock, so a step is what one actor does between two points where another may
run. Issue texts and provisioning lines are left out, as are `Remove` and the replacement of
a configuration. `ServerRestarts` is `detach_all`, or a crash, between any two steps, and the start of the
next process. The end of a session tells supervisor and router in one step; a daemon waits
for the answer to its hello.

Leaving a cycle kills the server's process of the ensure step, not what it began on the device:
`agent managed` reads its stdin only once it holds a session (`managed.rs:335-351`), and a daemon it
spawned is in a session of its own (`managed.rs:570-631`). `left` counts what was abandoned in this
way, by what it has still to do: ensure steps that have not decided yet (`"keeping"`, `"replacing"`),
daemons on their way to the lock (`"starting"`), and stop jobs (`"stopping"`). Each may take its
steps at any time, beside the current ensure step and stop job, or never: `LeftoverStep` has no
fairness. The lock decides who runs. Looking at the lock, deciding and stopping the daemon that
holds it is one step of an ensure step (`EnsureDecides`), and so is looking and stopping of a stop
job; the new daemon's way to the lock is another. From the moment the payload is sent (`EnsureSends`)
a daemon may run, as far as the server knows.

### Terminals — the index and its agent

The agent's list of shells and the task that reports it, `CreateTerminal` and `CloseTerminal` from
HTTP through router and agent and back, and `TerminalRegistry` with its owed closes. Connections
overlap: the session of a replaced one reads on, and reports are applied there without asking
whether it is current. `known`, `outrun`, `closed` and `left` are history variables: `outrun` says
that older news was applied after newer, `left` that a close lost its caller before the router
sent it. They only name the exceptions of the properties and guard nothing.

### WorkRegistry — what runs on an agent, and for whom

Several streams (terminal attachments, log streams) and one-shot commands of one agent: the slots
the server counts (`slots`), its flows of commands, the command lane with its tickets, the priority
lane and the tasks that wait for room in it, one wire each way, and the agent's `CancelRegistry`
(`registered`), `ResultLedger` (`results`) and workers. A registry entry is the work itself, which
stands for the serial of its registration; `idOf` is the key, and a restarted server gives the same
keys again. Losing the connection cancels and forgets everything on the agent; its workers end
later, commands before the next connection, streams perhaps under it. Whoever asked may leave at any
time. `waited` is a history variable: the works whose cancel found the priority lane full. Left
out: payload and credit, refused hellos, and the number of tasks, which are shared with commands of
others, so that any command may be refused for want of one.

## Runs

| Run | Instance | What it shows |
|---|---|---|
| `credit_upload` | window 2, batch 2, 7 frames, each peer rogue or not | Between honest peers credit is conserved under every order of frames and grants, no frame finds a full queue and a drained receiver never starves its sender; a stream whose sender outran its credit is never taken for a short or complete one; every stream completes unless ended. |
| `output_download` | window 1, 3 frames, the agent may send without credit | One download under every order of cancel, exit, failure, panic, eviction and loss: it implements `StreamCredit`, consumer and row are told the truth, history is final, every flow settles. |
| `output_handoff` | same, honest | Violation, finding 1. |
| `upload_publication` | one upload or edit | Implements `Publication`; callers are told the truth; no worker is orphaned; every upload settles and every worker ends. |
| `upload_overlong` | same | Violation, finding 2. |
| `history_resume` | 3 requests, 2 blocks, frame 1 | A row is active exactly while one stream drives it, shows only that stream's bytes, its cancel is always owed an acknowledgement, and it does not change after its end. |
| `history_loss` | 2 requests, 1 block | Violation, finding 3. |
| `copy` | 1 segment, 1 lost connection | Implements `CopyPromise`; a published file is one whole version and a directory has nothing torn; what a move removes was published, or took the path after its identity was checked; the partial agrees with a paused or canceled row; a copy without trouble is not reported as failed; every copy gets its last row, and then none of its workers runs on. |
| `copy_pause` | 1 segment, no loss | Violation, finding 4. |
| `managed_device` | 2 sockets, 2 requests or troubles | A Stop is kept and ends the daemon for good, one that comes up after the stop job too; a wanted device comes up; supervisor and router agree once they have heard everything. |
| `terminal_index` | 1 shell, 2 overlapping connections, 3 requests, 2 troubles | The index lists what the agent runs; a closed session stays closed and its shell ends. |
| `work_registry` | 2 streams for 1 slot, 1 command, lanes of 1 place, 2 connections, 1 broken socket or restart | A running worker can be found by its cancel; the agent takes every stream the server admits unless a cancel had to wait for room; no caller waits for a command that does not run; nothing runs on for somebody who left. |

Deadlock checking is off: every one of these systems ends when its transfers did or its requests
and troubles are used up.

### Bounds

- `Window`, `Batch`, `Last`: the code's 4, 2 and any length become the smallest values with
  the same relations: batch equal to the window (the limit the code's comment names);
  enough frames for two refills and for FIN behind a full window. The proofs drop all of them.
- `GrantBound` caps the frames a rogue receiver keeps in flight. Two exceed the window already.
  It is only used by `GrantWithoutDraining`.
- `OutputFlow` runs with a window of one frame because the control of a download does not depend
  on the window, and `FlowImplementsCredit` carries the stream's properties over for every size.
- `UploadFlow` has no bound: every queue is bounded by what is sent on it.
- `Requests`: with three, a row can be continued twice while both older streams are still
  canceling. `Size` 2 and `Frame` 1 make some range overlap and some not.
- `Segments`: with one, a partial is empty, torn or whole and of either version, and every mutant of
  the copy's code is found. Two, where a verified prefix and a torn tail meet in one file, are covered
  by the theorems, which hold for every number. `MaxLosses` 1 is a loss of either agent at any point
  of either one's work, and its return.
- `Sockets`, `MaxEvents`, `MaxProjected`: two connections make an old and a new one; ids are reused
  lowest first, once nothing mentions them. Two events are, for instance, a Start and a failure of
  what it began, or a Stop that meets a lost link. A restart is one of them, and is also in the
  initial states, where any daemon may be there. The run has 1.6 million states and takes some three
  minutes. Nothing bounds `left`: what is abandoned was asked for, and every request or failure is
  counted.
- `MaxLinks`, `MaxRequests`, `MaxTroubles`: one session with its create, its close and a change of
  its record, two connections at a time, and two of losses, restarts and callers that leave.
- `WorkRegistry`: two streams for one slot are an old and a new one; one command more fills a lane of one
  place, so that a cancel waits and is overtaken. Two connections with one restart between them give
  the new works the ids of those that still end. The code's capacities (8 streams, 64 and 16 places)
  only make the same cases longer, and the proof has any of them.

### Fairness

Weak fairness of what the runtime does by itself: tasks that can run are polled, the mailbox and
the lanes are drained, a live socket delivers, an evicted agent closes its socket, a canceled
worker reaches its token. The client is assumed to read, to end its body or to leave, and the
agent's disk to answer. Nothing that may go wrong is ever forced: no cancel, failure, panic,
timeout, disconnect or eviction has fairness. `GiveUpAsking` is fair only once the token fired,
`ProducerGivesUp` only once the stream stopped, `Disconnect` only after eviction.

`OutputFlow` and `UploadFlow` except a producer or caller that is `"lost"` from their liveness:
dropped at a point where no guard is armed. Those are findings 1 and 2, stated without the
exception by the runs that TLC refutes.

A copy makes finitely many steps, so `FairCopySpec` needs no more than that some part of it works
as long as any part can: `WF(RouterWorks \/ AgentsWork)`. A managed device needs no more either:
the server's tasks, a daemon that is not wedged, the ensure step, the stop job and the session process
go on as long as one of them can (`WF(ServerWorks \/ DeviceWorks)`), because none of them can keep the
others waiting for ever. What was abandoned on the device is left to go on or not. The index of
terminals its tasks, a live connection, and an agent that reconnects. `WorkRegistry` assumes that
lanes, wire and mailbox are drained, that both sides notice a dead socket, and that a worker that was
told to stop does; no command has to end by itself, no caller to leave and no agent to return. Each of
its steps uses something up, so weak fairness of all of them together is as strong as of each.
Requests, failures, losses,
replaced files and restarts have no fairness anywhere.

## Proofs

All from the named assumptions only: `CreditAssumption`, `DownloadAssumption`,
`HistoryAssumption`, `CopyAssumption`, `DeviceAssumption` and `WorkAssumption`; the others need
none.

- **StreamCreditProofs.** `CreditTypeCorrect`; `OverflowAlwaysTold`, with `Outrun`, which says that a
  stream that outran its credit has its fault stored before anybody can see its queue closed, that its
  last frame never gets into the queue, and that nothing routes frames to it again; `CreditAlwaysConserved`, from
  which `HonestNeverViolates` and `DrainedNeverStarves` follow by arithmetic: the credit spent and
  not returned bounds the queue, and a drained receiver owes less than one batch.
- **OutputFlowProofs.** `FlowImplementsCredit`: every step of a download is a step of the stream
  or none, so `HonestDownloadNeverViolates` needs no new invariant. `CancelAlwaysFollows` uses
  `LaneInvariant` (nothing reaches the agent before the ticket is written, and a cancel is
  queued only after). `FlowTypeCorrect` needs it too, to bound the socket. `StoppedAlwaysCanceled`
  uses `StopInvariant`: the flow matches its row, a fired cancel has a reason in the flow or the
  fault, and a slot is closed only after that reason was stored. The property is not inductive
  alone, because the consumer observes the closed queue long after the handler ran.
  `EndedRowIsAlwaysTrue` and `TerminalRowAlwaysStays` add `EndInvariant`: a flow that still streams
  although its row or its lease failed is known to have violated its credit, and a consumer that
  stopped reading read everything, was told why not, or left. So a success settles a stream that
  nothing stopped, and a late message finds a row that ended with its flow settled or canceling.
- **DownloadHistoryProofs.** `HistoryInvariant` adds to the properties that row ids come from
  requests that were made (so a new row is never already shared), that a driven row is never one a
  request may continue, and that a lost connection has no flows. From it `OneDriverAlways`,
  `CancelAlwaysOwed`, `CountsItsDriverAlways` and `EndedRowAlwaysStays`, for any number of
  requests and any file and frame size.
- **UploadFlowProofs.** `UploadInvariant` relates flow, row and the flag that closes the cancel
  window (`FlowAndRow`), the worker and what it did (`WorkerAndFile`), the messages on their way
  (`Messages`: the worker asks for its publication once and is answered once, and its result is
  the last it sends), what the producer may still say, and what its caller was told. The two
  stable facts it rests on are lemmas: a verdict stays (`VerdictStays`), and a destination that
  will not change does not (`NeverStays`). From it `ToldTheTruthAlways` and `UploadKeepsPromise`,
  the refinement of `Publication`. `NoWorkerIsOrphaned` adds `Released`, which says for a settled
  flow why nothing is left to be done for its worker. `UploadTypeCorrect` adds a count of what the
  worker may have sent so far (`Sent`), which bounds both queues on the way to the router.
- **CopyFlowProofs.** `CopyTypesHold`, `PublishedStaysWhole`, `MovesLoseNothing` and
  `CopiesKeepPromise`, the refinement of `CopyPromise`, for any number of segments and of lost
  connections, with the source replaced at any point, between the look at it and its removal too.
  `CopyInvariant` has a conjunct for each thing that must fit another: which commands
  there are in which phase (`Tickets`), which rows (`RowPhases`), that a request is answered once and
  truthfully (`Results`), what the row says before destination and source may change (`Grants`), that
  nobody changes the partial while it is verified and every digest on its way is of the segment that
  is compared (`Verified`), and what is staged: the verified prefix, then the opened version
  (`Contents`). `PublishedIsWhole` alone is not inductive, because what is published was staged many
  steps before, behind a prefix that two hashes vouched for. The proof separates the steps of the
  agents, which decide nothing, from those of the router, which touch no file: every router step does
  one of six things to the row (`RowStep`) and one of three to the commands (`TicketStep`), and the
  verified prefix grows only by a segment whose two digests agree. `MovesLoseNothing` rests on `Pure`,
  what may be staged while the source is still the captured version, and `Removal`: whoever is on its
  way to delete the path has seen there the version that is whole at the destination.
  What a copy leaves behind takes one more invariant for each question.
  `Stopping`: what the router counts as acknowledged has ended, so a settled row leaves no worker
  (`SettledCopiesAreStopped`). `Pausing`: what vouches for a pause, from the worker's answer to the
  row, holds only with the partial durable and the destination as it was. `Calm`: as long as nothing
  went wrong nobody was told to stop, the publisher asks once and is answered once with yes, and every
  result is a success (`FailuresHaveACause`). `Discards`: the user's cancel reaches the upload before
  a refusal of its publication does, so either way it removes what it staged
  (`PartialsFollowTheirRow`, with `Pausing`). `Calm` and `Discards` hold until the first trouble.
- **TerminalsProofs.** `TerminalTypesHold`, and `ClosedAlwaysStaysClosed`. Its invariant gives every
  shell a life: the versions of the agent's list at which it began and ended. `Lives` says that
  every report and answer on its way tells what was so at its version, `Calls` that a shell is
  created once and only one that was is closed, `Index` that a listed or closed session's
  beginning is known to the index, and the end of a closed one whose close is no longer owed. So a report
  that lists a closed session is older than what the index knows. No variable holds these lives; the
  invariant says that they exist. `ListAlwaysAgrees` rests on two more parts: the index lists what
  lived at the version it last heard of (`Listing`), and while the agent is connected a report of
  the present version is on its way or was heard (`ReportComing`).
- **ManagedDeviceProofs.** `StopIsAlwaysKept`. `StopInvariant` looks at the mailbox as a whole: after
  the last Stop no command that wakes the supervisor is queued behind it, a supervisor that rests
  with no such command in front of it has halted the device, and once the Stop is taken it rests.
  A halted device may still have a connection at the router, but then a snapshot that ends it is on
  its way. The proof sorts the steps into nine kinds of moves, shows that each kind preserves the
  invariant, and then that every action is of one kind.
  `DeviceTypeCorrect` needs to know who numbers what: a cycle, a report and a hello carry a number
  that was given out before. `AlwaysAgreesWhenQuiet` rests on `Agreement`, which says for each side what
  it has yet to hear: a connection the supervisor holds is the router's or will be heard to end
  (`SocketsAreCovered`), and one the router holds is on its way out, about to be replaced, or the last
  the supervisor hears of (`LiveIsShared`). What makes the second inductive is that at most one hello
  waits for an answer (`NewOnesAreNew`) and that a supervisor that rests is woken before it hears
  the hello of a new attempt (`WokenBeforeHearing`). With every queue empty only the agreement is left.
- **WorkRegistryProofs.** `WorkTypesHold`, and `CancelAlwaysFindsItsWorker` for any number of
  streams, commands, capacities, connections and restarts. `RegistryInv` adds why it stays so: a lost
  connection leaves no worker running (so the next may begin with an empty registry), and what
  starts work on the agent was asked for, in every queue (so no command becomes cancelable after it
  started without an entry). The proof separates the steps of the router, which reach the agent
  by frames alone, from the agent's, and those into what starts a worker and what ends one.
  `AdmittedStreamsAreTaken` counts: whatever the agent takes next from its wire, it holds no
  more streams than the server has slots (`Room`), because what it will hold once the wire is empty has
  a slot or its cancel is queued in the lane that is written first (`Owed`). `Ids` adds that streams
  which meet on the agent were numbered by one server process. All of it holds until a cancel has to
  wait for room in the priority lane; a later frame may then pass it (see Streams under Findings), and
  the property excepts such runs.

Every safety invariant and action property that a run checks has a theorem. Only model-checked is
liveness, whose proofs need fairness and `ENABLED`, out of the prover's reach here:
`StreamCompletes`, `FlowSettles`, `UploadSettles`, `CopySettles`, `DeviceComesUp`, `StopReachesDaemon`,
`ClosedShellEnds`, `CallersHear` and `LeftWorkStops`.
The type invariants of `StreamCredit`, `CopyFlow`, `DownloadHistory`, `Terminals` and `WorkRegistry`
have a theorem and no run. Induction over data and recursive operators are out of the prover's reach
as well; no module needs them.

## Findings

1. `router/output.rs:115`: a caller dropped with its reply in the channel leaves a flow that nobody
   settles. Uploads have the same window once their readiness arrived.
2. `http/services/upload.rs:133`: the guard of an overlong body is disarmed before the message that
   replaces it is queued; a client that leaves in between leaves the upload and its worker.
3. `router/cleanup.rs:354`: the loss of an agent fails a row that a resumed download had completed,
   through the older stream that still names it.
4. `router/transfers/copy.rs:492`: a pause that arrives while the partial of a changed source is being
   deleted is confirmed, although `ARCHITECTURE.md:1643` says that the partial is durable by then.

Seen while modelling, without a run of their own:

- Downloads. When the cancel of a violating stream is refused (`output.rs:138`), a success already on
  its way completes the row that was failed. The acknowledgement of an older stream also ends a
  resumed row that is canceling, so such a row may say `Canceled` a moment before the newer worker
  released its file.
- Copies. The identity of a moved source is checked and its path removed afterwards, with an await in
  between (`move.rs:329-337`, `343-351`, `356-364`, and `commands/fs.rs:452-514`). A version
  that takes the path there is deleted unpublished, although `ARCHITECTURE.md:1596-1597` says that
  the source is deleted only if its identity still matches, and the comment at `move.rs:370` that
  cleanup of another object is refused. `NothingLost` excepts exactly this version (`"late"`). A
  directory's entries are opened by path, so its copy can mix versions of entries.
  A local file move whose rename turns out to need a copy after it was admitted asks a second
  time and is denied (`move.rs:77`). A cancel leaves the partial when the command was withdrawn
  unsent after a resume, or the source agent was lost while canceling.
- Managed devices. A stop job that finds the lock free succeeds and clears `daemon_may_run` although
  a daemon is on its way (`managed.rs:748-749`): the ensure step of a cycle that was ended goes on
  on the device. So the comment at `watchdog.rs:136-138`, by which a later Stop reaches a daemon
  whose report never arrived, holds only of a daemon that has the lock by then. One that
  connects later is refused as stopped and exits, which `StopReachesDaemon` checks; one whose tunnel
  went with its session is told nothing and stays until its orphan limit, the exception `OutOfReach`.
  A Start accepted between the result of a stop job and its `publish_stopped` is
  lost although it was answered with success (`watchdog.rs:991-1003`, `1385-1389`). A lagging
  projection of a Stop can end the next connection; the daemon then reconnects. A supersede message
  can reach the router before the registration it is about, and is ignored. A Stop whose job did not
  succeed before the server restarts is forgotten (`watchdog.rs:1367`); the comment there leaves such a
  daemon to its orphan limit, but one that can connect is adopted and runs on.
- Terminals. The close of a browser that left before the router took it is not sent until the next
  report (`agents.rs:628`, against the comment at `calls.rs:197`). A close is forgotten when it is
  answered, so a snapshot taken before it and queued behind the answer lists the session again
  (`ARCHITECTURE.md:1725-1728`). Reports of a replaced session are applied without a look at
  whether it is current (`session.rs:404`). A create's answer can relist a session that was closed
  meanwhile. These are what `outrun` and `left` stand for.
- Streams. The agent can refuse a stream the server admitted, against the comments at
  `agents.rs:25-29` and `sessions.rs:57-59`: when the priority lane is full, the cancel of the old stream
  waits in a task (`lanes.rs:172`), the slot is free already, and the writer, which takes a place from
  the lane and looks at the command lane before that task has run, sends the new stream's open
  first. The browser is told that the agent has too many streams. `AdmittedStreamIsTaken` makes the
  exception.

## Not modelled, and plan

In order of importance:

1. **Duplicate ids** (`duplicate_ids.rs:148`): the refusal starts with the fourth competing hello
   within sixty seconds of real time; takeover itself is in `ManagedDevice` and `Terminals`.
2. **Watchdog**: `Remove`, configuration edits, and the daemon's orphan limit.
3. **Terminal viewers**: takeover by a second viewer and replay; slots and workers of attachments are
   in `WorkRegistry`.
4. **AgentRuntime**: upload routes with serials, and exclusive commands, which wait for each other
   (`dispatch.rs:168`).
5. **Managed keys**: rotation across several hosts with a crash between steps.

Theorems worth proving next: the safety half of the liveness properties. A flow, copy or call
that is not settled always has something on its way to it, a worker that runs or a connection whose
loss is not noticed yet, so that no state has everyone waiting for everyone.

Left out for good: agent commands other than copies (files, git, search, systemd, trash) are
sequential file-system and subprocess I/O; authentication, tokens and vault are request handling
over a store; the CLI and the TypeScript UI are clients of the API; SSH provisioning is mostly
remote shell.
