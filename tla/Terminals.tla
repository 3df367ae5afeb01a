----------------------------- MODULE Terminals -----------------------------
(***************************************************************************)
(* The server's index of terminal sessions and the agent that runs them.   *)
(*                                                                         *)
(* Shells belong to the agent's process and outlive its connections.  The  *)
(* server lists them as the agent last reported them and remembers the     *)
(* closes it still owes.  Three paths change the list and race each other: *)
(* the answer to CreateTerminal, the answer to CloseTerminal, and the      *)
(* reports, which the session's reader applies at once while answers go    *)
(* through the router to the HTTP task that waits for them.  A report is a *)
(* snapshot taken before it is queued, and the session of a connection     *)
(* that was replaced may still read reports.                               *)
(*                                                                         *)
(* One agent and its connections, whose numbers are reused once neither    *)
(* side knows them.  Every session has an id of its own, used once.  What  *)
(* a record says of its shell, the viewers and the limits (8 shells, 64    *)
(* sessions, 256 owed closes, the lanes) are left out; a refused create    *)
(* stands for the agent's limits.                                          *)
(***************************************************************************)
EXTENDS Integers, Sequences, FiniteSets

CONSTANTS
  Shells,       \* ids of terminal sessions
  MaxLinks,     \* connections that exist at a time on either side (model bound)
  MaxRequests,  \* creates, closes and other changes of a record (model bound)
  MaxTroubles   \* lost connections, restarts, callers that leave (model bound)

ASSUME TerminalAssumption ==
  /\ MaxLinks \in Nat \ {0}
  /\ MaxRequests \in Nat /\ MaxTroubles \in Nat

VARIABLES
  sessions,  \* TerminalSessions of the agent's process
  version,   \* changes of sessions so far
  changed,   \* the watch channel the reporter follows
  snapshot,  \* the report that report_terminal_sessions is about to queue, if any
  replies,   \* answers of the agent that are not on the control lane yet
  link,      \* the agent's connection, or 0
  up,        \* frames of each connection on their way to the server
  down,      \* commands of each connection on their way to the agent
  session,   \* the server's session of each connection
  registered,\* the connection the router has for the agent, or 0
  create,    \* the HTTP task that creates each session
  asking,    \* CloseTerminal calls in the router's mailbox
  answers,   \* answers the router handed to the tasks that wait for them
  left,      \* sessions whose close lost its caller before it was sent
  entry,     \* TerminalRegistry.sessions
  pending,   \* TerminalRegistry.pending_closes
  closed,    \* sessions a DELETE was accepted for since the server started
  known,     \* the latest version the index has heard of, for each session
  outrun,    \* the index took something older than what it knew
  requests, troubles

agentVars  == <<sessions, version, changed, snapshot, replies>>
callVars   == <<create, asking, answers, left>>
indexVars  == <<entry, pending, closed, known, outrun>>
connVars   == <<link, up, down, session, registered>>
boundVars  == <<requests, troubles>>
vars == <<agentVars, connVars, callVars, indexVars, boundVars>>

Links == 1 .. MaxLinks
Unused == {l \in Links : session[l] = "none"}

TermInit ==
  /\ sessions = {} /\ version = 0 /\ changed = FALSE
  /\ snapshot = {} /\ replies = {}
  /\ link = 0 /\ registered = 0
  /\ up = [l \in Links |-> <<>>] /\ down = [l \in Links |-> <<>>]
  /\ session = [l \in Links |-> "none"]
  /\ create = [x \in Shells |-> "none"]
  /\ asking = [x \in Shells |-> 0] /\ answers = {} /\ left = {}
  /\ entry = [x \in Shells |-> "none"] /\ pending = {} /\ closed = {}
  /\ known = [x \in Shells |-> 0] /\ outrun = FALSE
  /\ requests = 0 /\ troubles = 0

Request == requests < MaxRequests /\ requests' = requests + 1 /\ UNCHANGED troubles
Trouble == troubles < MaxTroubles /\ troubles' = troubles + 1 /\ UNCHANGED requests

-----------------------------------------------------------------------------
(* The agent *)

\* Every connection starts with its hello, then a report.
Connect ==
  /\ link = 0
  /\ \E l \in Unused :
       /\ \A m \in Unused : l <= m
       /\ link' = l
       /\ session' = [session EXCEPT ![l] = "hello"]
  /\ changed' = TRUE
  /\ UNCHANGED <<sessions, version, snapshot, replies, up, down, registered, callVars,
                 indexVars, boundVars>>

\* The list is read before the report is queued.
TakeSnapshot ==
  /\ link # 0 /\ changed /\ snapshot = {}
  /\ changed' = FALSE
  /\ snapshot' = {[kind |-> "report", shells |-> sessions, version |-> version]}
  /\ UNCHANGED <<sessions, version, replies, connVars, callVars, indexVars, boundVars>>

SendReport ==
  \E report \in snapshot :
    /\ up' = [up EXCEPT ![link] = Append(@, report)]
    /\ snapshot' = {}
    /\ UNCHANGED <<sessions, version, changed, replies, link, down, session,
                   registered, callVars, indexVars, boundVars>>

Answer(kind, x, at) == [kind |-> kind, shell |-> x, version |-> at]

\* The dispatcher takes a command of this kind for x from the connection.
Takes(kind, x) ==
  /\ link # 0 /\ down[link] # <<>>
  /\ Head(down[link]) = [kind |-> kind, shell |-> x]
  /\ down' = [down EXCEPT ![link] = Tail(@)]
  /\ UNCHANGED <<snapshot, link, up, session, registered, callVars, indexVars,
                 boundVars>>

\* The new list is signalled before the command is answered.
Change(after) ==
  /\ sessions' = after
  /\ version' = version + 1
  /\ changed' = TRUE

\* TerminalSessions::create
RunCreate(x) ==
  /\ Takes("create", x)
  /\ Change(sessions \cup {x})
  /\ replies' = replies \cup {Answer("created", x, version + 1)}

\* TerminalSessions::create at one of its limits, or without a shell.
RefuseCreate(x) ==
  /\ Takes("create", x)
  /\ replies' = replies \cup {Answer("refused", x, version)}
  /\ UNCHANGED <<sessions, version, changed>>

\* TerminalSessions::close of a session it has.
RunClose(x) ==
  /\ Takes("close", x)
  /\ x \in sessions
  /\ Change(sessions \ {x})
  /\ replies' = replies \cup {Answer("closed", x, version + 1)}

\* TerminalSessions::close of a session that is already gone.
RunCloseAgain(x) ==
  /\ Takes("close", x)
  /\ x \notin sessions
  /\ replies' = replies \cup {Answer("closed", x, version)}
  /\ UNCHANGED <<sessions, version, changed>>

Execute(x) == RunCreate(x) \/ RefuseCreate(x) \/ RunClose(x) \/ RunCloseAgain(x)

\* Responder and reporter share the control lane.
SendReply ==
  \E reply \in replies :
    /\ link # 0
    /\ replies' = replies \ {reply}
    /\ up' = [up EXCEPT ![link] = Append(@, reply)]
    /\ UNCHANGED <<sessions, version, changed, snapshot, link, down, session,
                   registered, callVars, indexVars, boundVars>>

\* A shell exits or its record changes otherwise: the list is reported again.
RecordChanges ==
  /\ Request
  /\ link # 0 /\ sessions # {} /\ ~changed
  /\ changed' = TRUE
  /\ UNCHANGED <<sessions, version, snapshot, replies, connVars, callVars, indexVars>>

\* What an ended connection takes with it on the agent's side.
AgentLeaves ==
  /\ link' = 0 /\ snapshot' = {} /\ changed' = FALSE /\ replies' = {}

\* The connection breaks; what it had already sent may still be read.
Disconnect ==
  /\ Trouble
  /\ link # 0
  /\ AgentLeaves
  /\ down' = [down EXCEPT ![link] = <<>>]
  /\ UNCHANGED <<sessions, version, up, session, registered, callVars, indexVars>>

\* The agent's process restarts, which ends its shells.
AgentRestarts ==
  /\ Trouble
  /\ link # 0 /\ sessions # {}
  /\ AgentLeaves
  /\ sessions' = {} /\ version' = version + 1
  /\ down' = [down EXCEPT ![link] = <<>>]
  /\ UNCHANGED <<up, session, registered, callVars, indexVars>>

AgentNext ==
  \/ Connect \/ TakeSnapshot \/ SendReport \/ SendReply
  \/ \E x \in Shells : Execute(x)
  \/ RecordChanges \/ Disconnect \/ AgentRestarts

-----------------------------------------------------------------------------
(* The router *)

\* fail_agent_flows: calls whose command went to the released connection fail.
\* For a close that means nothing: it stays pending.
FailCalls ==
  create' = [x \in Shells |-> IF create[x] = "sent" THEN "over" ELSE create[x]]

\* register_agent: the newest hello takes the agent over.  The session that
\* it replaces is told to end and keeps reading until then.
Register(l) ==
  /\ session[l] = "hello"
  /\ session' = [session EXCEPT ![l] = "open"]
  /\ registered' = l
  /\ FailCalls
  /\ UNCHANGED <<agentVars, link, up, down, asking, answers, left, indexVars,
                 boundVars>>

\* A session ends because its agent went away or because it was replaced.
\* unregister_agent ignores a session that is no longer the agent's.
SessionEnds(l) ==
  /\ session[l] \in {"hello", "open"}
  /\ session[l] = "hello" => link # l
  /\ session[l] = "open" => link # l \/ registered # l
  /\ session' = [session EXCEPT ![l] = "none"]
  /\ up' = [up EXCEPT ![l] = <<>>] /\ down' = [down EXCEPT ![l] = <<>>]
  /\ IF link = l THEN AgentLeaves ELSE UNCHANGED <<link, snapshot, changed, replies>>
  /\ IF registered = l THEN registered' = 0 /\ FailCalls
     ELSE UNCHANGED <<registered, create>>
  /\ UNCHANGED <<sessions, version, asking, answers, left, indexVars, boundVars>>

\* execute_command_rest for CreateTerminal.
RouteCreate(x) ==
  /\ create[x] = "asked"
  /\ IF registered = 0
     THEN create' = [create EXCEPT ![x] = "over"] /\ UNCHANGED down
     ELSE /\ create' = [create EXCEPT ![x] = "sent"]
          /\ down' = IF link # registered THEN down
                     ELSE [down EXCEPT ![registered] =
                             Append(@, [kind |-> "create", shell |-> x])]
  /\ UNCHANGED <<agentVars, link, up, session, registered, asking, answers,
                 left, indexVars, boundVars>>

\* execute_command_rest for CloseTerminal.
RouteClose(x) ==
  /\ asking[x] > 0
  /\ asking' = [asking EXCEPT ![x] = @ - 1]
  /\ down' = IF registered = 0 \/ link # registered THEN down
             ELSE [down EXCEPT ![registered] =
                     Append(@, [kind |-> "close", shell |-> x])]
  /\ UNCHANGED <<agentVars, link, up, session, registered, create, answers,
                 left, indexVars, boundVars>>

\* The caller of a close leaves, or its deadline passes, before the router
\* takes its command: the closed reply makes the router drop it.
CloserLeaves(x) ==
  /\ Trouble
  /\ asking[x] > 0
  /\ asking' = [asking EXCEPT ![x] = @ - 1]
  /\ left' = left \cup {x}
  /\ UNCHANGED <<agentVars, connVars, create, answers, indexVars>>

\* The caller of a create leaves or its deadline passes.  CreateTerminal cannot
\* be canceled, so a command that was sent finishes unobserved.
CreatorLeaves(x) ==
  /\ Trouble
  /\ \/ /\ create[x] \in {"asked", "sent"}
        /\ create' = [create EXCEPT ![x] = "over"]
        /\ UNCHANGED answers
     \/ \E answer \in answers :
          /\ answer.kind = "created" /\ answer.shell = x
          /\ answers' = answers \ {answer}
          /\ UNCHANGED create
  /\ UNCHANGED <<agentVars, connVars, asking, left, indexVars>>

\* The server restarts and forgets all of it.
ServerRestarts ==
  /\ Trouble
  /\ \E l \in Links : session[l] \in {"hello", "open"}
  /\ AgentLeaves
  /\ registered' = 0
  /\ session' = [l \in Links |-> "none"]
  /\ up' = [l \in Links |-> <<>>] /\ down' = [l \in Links |-> <<>>]
  /\ create' = [x \in Shells |-> IF create[x] = "none" THEN "none" ELSE "over"]
  /\ asking' = [x \in Shells |-> 0] /\ answers' = {} /\ left' = {}
  /\ entry' = [x \in Shells |-> "none"] /\ pending' = {} /\ closed' = {}
  /\ known' = [x \in Shells |-> 0] /\ outrun' = FALSE
  /\ UNCHANGED <<sessions, version>>

-----------------------------------------------------------------------------
(* The index *)

Later(a, b) == IF a > b THEN a ELSE b

\* Mutants: a session that is missing stays as it was; a closed one is listed
\* again; an owed close is not sent again.
ListedKeepingMissing(shells, owed) ==
  [x \in Shells |-> IF x \in shells \ owed THEN "live" ELSE entry[x]]
ListedWithClosed(shells, owed) ==
  [x \in Shells |-> IF x \in shells THEN "live"
                    ELSE IF entry[x] = "live" THEN "orphaned" ELSE entry[x]]
NoCalls(owed) == asking

\* Sessions the agent has are listed, those it no longer has stay as exited.
Listed(shells, owed) ==
  [x \in Shells |-> IF x \in shells \ owed THEN "live"
                    ELSE IF entry[x] = "live" THEN "orphaned" ELSE entry[x]]

\* Owed closes of sessions the agent still has are sent again.
CallsFor(owed) == [x \in Shells |-> IF x \in owed THEN asking[x] + 1 ELSE asking[x]]

\* TerminalRegistry::report.  Owed closes the agent no longer has are done.
Report(shells, at) ==
  LET owed == pending \cap shells IN
  /\ pending' = owed
  /\ entry' = Listed(shells, owed)
  /\ asking' = CallsFor(owed)
  /\ left' = left \ owed
  /\ known' = [x \in Shells |-> Later(known[x], at)]
  /\ outrun' = (outrun \/ \E x \in Shells : at < known[x])
  /\ UNCHANGED closed

\* The session's reader: reports are applied here, answers handed to the router,
\* which takes them from the registered connection for calls still waited for.
\* A close's answer may come too late for its caller.
ReadFrame(l) ==
  /\ session[l] = "open" /\ up[l] # <<>>
  /\ up' = [up EXCEPT ![l] = Tail(@)]
  /\ LET frame == Head(up[l]) IN
     \/ /\ frame.kind = "report"
        /\ Report(frame.shells, frame.version)
        /\ UNCHANGED <<create, answers>>
     \/ /\ frame.kind \in {"created", "refused"}
        /\ registered = l /\ create[frame.shell] = "sent"
        /\ create' = [create EXCEPT ![frame.shell] = "over"]
        /\ answers' = IF frame.kind = "created" THEN answers \cup {frame} ELSE answers
        /\ UNCHANGED <<asking, left, indexVars>>
     \/ /\ frame.kind = "closed" /\ registered = l
        /\ answers' = answers \cup {frame}
        /\ UNCHANGED <<create, asking, left, indexVars>>
     \/ /\ frame.kind # "report"
        /\ registered # l \/ frame.kind = "closed" \/ create[frame.shell] # "sent"
        /\ UNCHANGED <<callVars, indexVars>>
  /\ UNCHANGED <<agentVars, link, down, session, registered, boundVars>>

AskCreate(x) ==
  /\ Request
  /\ create[x] = "none"
  /\ create' = [create EXCEPT ![x] = "asked"]
  /\ UNCHANGED <<agentVars, connVars, asking, answers, left, indexVars>>

\* TerminalRegistry::create after its call: a report may have come first.
ListCreated(x) ==
  \E answer \in answers :
    /\ answer.kind = "created" /\ answer.shell = x
    /\ answers' = answers \ {answer}
    /\ IF entry[x] = "none"
       THEN /\ entry' = [entry EXCEPT ![x] = "live"]
            /\ outrun' = (outrun \/ answer.version < known[x] \/ x \in closed)
       ELSE UNCHANGED <<entry, outrun>>
    /\ known' = [known EXCEPT ![x] = Later(@, answer.version)]
    /\ UNCHANGED <<agentVars, connVars, create, asking, left, pending, closed,
                   boundVars>>

\* TerminalRegistry::close up to its call.
Close(x) ==
  /\ Request
  /\ entry[x] # "none"
  /\ entry' = [entry EXCEPT ![x] = "none"]
  /\ pending' = pending \cup {x}
  /\ asking' = [asking EXCEPT ![x] = @ + 1]
  /\ closed' = closed \cup {x}
  /\ UNCHANGED <<agentVars, connVars, create, answers, left, known, outrun>>

\* close_on_agent after a successful call: the close is no longer owed.
ForgetClose(x) ==
  \E answer \in answers :
    /\ answer.kind = "closed" /\ answer.shell = x
    /\ answers' = answers \ {answer}
    /\ pending' = pending \ {x}
    /\ known' = [known EXCEPT ![x] = Later(@, answer.version)]
    /\ UNCHANGED <<agentVars, connVars, create, asking, left, entry, closed, outrun,
                   boundVars>>

ServerNext ==
  \/ \E l \in Links : Register(l) \/ SessionEnds(l) \/ ReadFrame(l)
  \/ \E x \in Shells : \/ RouteCreate(x) \/ RouteClose(x) \/ CloserLeaves(x)
                       \/ CreatorLeaves(x) \/ AskCreate(x) \/ ListCreated(x)
                       \/ Close(x) \/ ForgetClose(x)
  \/ ServerRestarts

TermNext == AgentNext \/ ServerNext

TermSpec == TermInit /\ [][TermNext]_vars

\* Tasks that can run are polled, a live connection delivers, an agent without
\* a connection opens one, and a session notices that it is replaced or that
\* its agent is gone.  Nobody has to ask for anything, and nothing has to fail.
TermFairness ==
  /\ WF_vars(Connect) /\ WF_vars(TakeSnapshot) /\ WF_vars(SendReport)
  /\ WF_vars(SendReply)
  /\ \A l \in Links : /\ WF_vars(Register(l)) /\ WF_vars(SessionEnds(l))
                       /\ WF_vars(ReadFrame(l))
  /\ \A x \in Shells : /\ WF_vars(Execute(x))
                        /\ WF_vars(RouteCreate(x)) /\ WF_vars(RouteClose(x))
                        /\ WF_vars(ListCreated(x)) /\ WF_vars(ForgetClose(x))

FairTermSpec == TermSpec /\ TermFairness

-----------------------------------------------------------------------------
(* Properties *)

Frames ==
  [kind : {"report"}, shells : SUBSET Shells, version : Nat]
    \cup [kind : {"created", "refused", "closed"}, shell : Shells, version : Nat]

TerminalTypeOK ==
  /\ sessions \subseteq Shells /\ version \in Nat /\ changed \in BOOLEAN
  /\ snapshot \subseteq Frames
  /\ replies \subseteq Frames /\ answers \subseteq Frames
  /\ link \in {0} \cup Links /\ registered \in {0} \cup Links
  /\ session \in [Links -> {"none", "hello", "open"}]
  /\ up \in [Links -> Seq(Frames)]
  /\ down \in [Links -> Seq([kind : {"create", "close"}, shell : Shells])]
  /\ create \in [Shells -> {"none", "asked", "sent", "over"}]
  /\ asking \in [Shells -> Nat]
  /\ entry \in [Shells -> {"none", "live", "orphaned"}]
  /\ pending \subseteq Shells /\ closed \subseteq Shells /\ left \subseteq Shells
  /\ known \in [Shells -> Nat] /\ outrun \in BOOLEAN
  /\ link = 0 => snapshot = {} /\ replies = {} /\ ~changed
  /\ registered # 0 => session[registered] = "open"

\* The agent is connected and nothing is on its way in either direction.
Settled ==
  /\ link # 0 /\ registered = link
  /\ \A l \in Links \ {link} : session[l] = "none"
  /\ up[link] = <<>> /\ down[link] = <<>>
  /\ snapshot = {} /\ ~changed /\ replies = {} /\ answers = {}
  /\ \A x \in Shells : asking[x] = 0 /\ create[x] \notin {"asked", "sent"}

\* What every window lists is what the agent runs, less the closes still owed,
\* so no shell runs on unseen and no dead one looks alive.  Creates that timed
\* out, closes whose connection was lost and restarts on either side come
\* together here.  Older news that overtook newer is the exception: a report of a
\* replaced session, a snapshot older than an answer, a create's answer that
\* comes after the session's close.
ListAgrees ==
  (Settled /\ ~outrun) =>
    \A x \in Shells : entry[x] = "live" <=> x \in sessions \ pending

\* A closed session does not come back with the agent's next report
\* (TerminalRegistry::close), nor through the create that made it.
ClosedStaysClosed == ~outrun => \A x \in closed : entry[x] = "none"

\* A shell whose session was closed ends, however often its agent is away or
\* restarted, unless the browser left before the close was on its way.
ClosedShellEnds ==
  \A x \in Shells :
    x \in closed ~> (x \notin sessions \/ entry[x] # "none" \/ x \in left)
=============================================================================
