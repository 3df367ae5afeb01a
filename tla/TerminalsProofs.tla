-------------------------- MODULE TerminalsProofs --------------------------
(***************************************************************************)
(* The index of terminals, for any number of sessions and overlapping      *)
(* connections, however often either side restarts: a closed session does  *)
(* not come back, and the list agrees with the agent's when all is quiet.  *)
(***************************************************************************)
EXTENDS Terminals, SequenceTheorems, TLAPS

Commands == [kind : {"create", "close"}, shell : Shells]

-----------------------------------------------------------------------------
(* Types *)

\* The agent's own state and what it queued for the server.
AgentTyped ==
  /\ sessions \subseteq Shells /\ version \in Nat /\ changed \in BOOLEAN
  /\ snapshot \subseteq Frames /\ replies \subseteq Frames
  /\ link = 0 => snapshot = {} /\ replies = {} /\ ~changed

\* The connections and the server's sessions of them.
ConnTyped ==
  /\ link \in {0} \cup Links /\ registered \in {0} \cup Links
  /\ session \in [Links -> {"none", "hello", "open"}]
  /\ registered # 0 => session[registered] = "open"
  /\ up \in [Links -> Seq(Frames)] /\ down \in [Links -> Seq(Commands)]

\* The HTTP tasks and the index.
ServerTyped ==
  /\ create \in [Shells -> {"none", "asked", "sent", "over"}]
  /\ asking \in [Shells -> Nat]
  /\ entry \in [Shells -> {"none", "live", "orphaned"}]
  /\ pending \subseteq Shells /\ closed \subseteq Shells /\ left \subseteq Shells
  /\ known \in [Shells -> Nat] /\ outrun \in BOOLEAN
  /\ answers \subseteq Frames

LEMMA TypesTogether == TerminalTypeOK <=> AgentTyped /\ ConnTyped /\ ServerTyped
  BY DEF TerminalTypeOK, AgentTyped, ConnTyped, ServerTyped, Commands

\* What a snapshot or an answer is made of.
LEMMA FrameTypes ==
  /\ \A shells \in SUBSET Shells, v \in Nat :
       [kind |-> "report", shells |-> shells, version |-> v] \in Frames
  /\ \A k \in {"refused", "created", "closed"}, x \in Shells, v \in Nat :
       Answer(k, x, v) \in Frames
  /\ \A f \in Frames :
       /\ f.version \in Nat
       /\ f.kind \in {"report", "refused", "created", "closed"}
       /\ f.kind = "report" => f.shells \subseteq Shells
       /\ f.kind # "report" => f.shell \in Shells
  BY DEF Frames, Answer

LEMMA AgentKeepsItsTypes ==
  AgentTyped /\ ConnTyped /\ AgentNext => AgentTyped'
<1> SUFFICES ASSUME AgentTyped, ConnTyped, AgentNext PROVE AgentTyped'
  OBVIOUS
<1> USE DEF AgentTyped
<1>1. CASE Connect
  BY <1>1 DEF Connect, ConnTyped, Links, Unused
<1>2. CASE TakeSnapshot
  BY <1>2, FrameTypes DEF TakeSnapshot, connVars
<1>3. CASE SendReport \/ SendReply
  BY <1>3 DEF SendReport, SendReply
<1>4. ASSUME NEW x \in Shells, Execute(x) PROVE AgentTyped'
  <2>1. link # 0 /\ UNCHANGED <<snapshot, link>>
    BY <1>4 DEF Execute, RunCreate, RefuseCreate, RunClose, RunCloseAgain, Takes
  <2>2. CASE RunCreate(x)
    BY <2>1, <2>2, FrameTypes DEF RunCreate, Change
  <2>3. CASE RefuseCreate(x)
    BY <2>1, <2>3, FrameTypes DEF RefuseCreate
  <2>4. CASE RunClose(x)
    BY <2>1, <2>4, FrameTypes DEF RunClose, Change
  <2>5. CASE RunCloseAgain(x)
    BY <2>1, <2>5, FrameTypes DEF RunCloseAgain
  <2>6. QED
    BY <1>4, <2>2, <2>3, <2>4, <2>5 DEF Execute
<1>5. CASE RecordChanges
  BY <1>5 DEF RecordChanges, connVars
<1>6. CASE Disconnect \/ AgentRestarts
  <2>1. AgentLeaves /\ sessions' \subseteq Shells /\ version' \in Nat
    BY <1>6 DEF Disconnect, AgentRestarts
  <2>2. QED
    BY <2>1 DEF AgentLeaves
<1>7. QED
  BY <1>1, <1>2, <1>3, <1>4, <1>5, <1>6 DEF AgentNext

\* The agent queues frames and takes commands only on its live connection.
LEMMA AgentKeepsConnTypes ==
  AgentTyped /\ ConnTyped /\ AgentNext => ConnTyped'
<1> SUFFICES ASSUME AgentTyped, ConnTyped, AgentNext PROVE ConnTyped'
  OBVIOUS
<1> USE DEF ConnTyped
<1>1. CASE Connect
  <2>1. PICK l \in Unused : link' = l /\ session' = [session EXCEPT ![l] = "hello"]
    BY <1>1 DEF Connect
  <2>2. l \in Links /\ session[l] = "none" /\ UNCHANGED <<registered, up, down>>
    BY <1>1, <2>1 DEF Connect, Unused
  <2>3. QED
    BY <2>1, <2>2
<1>2. CASE TakeSnapshot \/ RecordChanges
  BY <1>2 DEF TakeSnapshot, RecordChanges, connVars
<1>3. CASE SendReport \/ SendReply
  <2>1. PICK f \in Frames : up' = [up EXCEPT ![link] = Append(@, f)] /\ link # 0
    BY <1>3 DEF SendReport, SendReply, AgentTyped
  <2>2. up' \in [Links -> Seq(Frames)]
    BY <2>1
  <2>3. UNCHANGED <<link, registered, session, down>>
    BY <1>3 DEF SendReport, SendReply
  <2>4. QED
    BY <2>2, <2>3
<1>4. ASSUME NEW x \in Shells, Execute(x) PROVE ConnTyped'
  <2>1. /\ link # 0 /\ down[link] # <<>>
        /\ down' = [down EXCEPT ![link] = Tail(@)]
        /\ UNCHANGED <<link, registered, session, up>>
    BY <1>4 DEF Execute, RunCreate, RefuseCreate, RunClose, RunCloseAgain, Takes
  <2>2. Tail(down[link]) \in Seq(Commands)
    BY <2>1
  <2>3. QED
    BY <2>1, <2>2
<1>5. CASE Disconnect \/ AgentRestarts
  <2>1. /\ link # 0 /\ link' = 0 /\ UNCHANGED <<registered, session, up>>
        /\ down' = [down EXCEPT ![link] = <<>>]
    <3>1. CASE Disconnect
      BY <3>1 DEF Disconnect, AgentLeaves
    <3>2. CASE AgentRestarts
      BY <3>2 DEF AgentRestarts, AgentLeaves
    <3>3. QED
      BY <1>5, <3>1, <3>2
  <2>2. down' \in [Links -> Seq(Commands)]
    BY <2>1
  <2>3. QED
    BY <2>1, <2>2
<1>6. QED
  BY <1>1, <1>2, <1>3, <1>4, <1>5 DEF AgentNext

\* What the server does to the agent: it may end its connection.
LEMMA ServerLeavesTheAgent ==
  ServerNext =>
    /\ UNCHANGED <<sessions, version>>
    /\ UNCHANGED <<changed, snapshot, replies, link>> \/ AgentLeaves
<1> SUFFICES ASSUME ServerNext
             PROVE /\ UNCHANGED <<sessions, version>>
                   /\ UNCHANGED <<changed, snapshot, replies, link>> \/ AgentLeaves
  OBVIOUS
<1>1. ASSUME NEW l \in Links, Register(l) \/ SessionEnds(l) \/ ReadFrame(l)
      PROVE /\ UNCHANGED <<sessions, version>>
            /\ UNCHANGED <<changed, snapshot, replies, link>> \/ AgentLeaves
  BY <1>1 DEF Register, SessionEnds, ReadFrame, agentVars
<1>2. ASSUME NEW x \in Shells,
             \/ RouteCreate(x) \/ RouteClose(x) \/ CloserLeaves(x) \/ CreatorLeaves(x)
             \/ AskCreate(x) \/ ListCreated(x) \/ Close(x) \/ ForgetClose(x)
      PROVE UNCHANGED <<sessions, version, changed, snapshot, replies, link>>
  BY <1>2 DEF RouteCreate, RouteClose, CloserLeaves, CreatorLeaves, AskCreate,
              ListCreated, Close, ForgetClose, agentVars, connVars
<1>3. CASE ServerRestarts
  BY <1>3 DEF ServerRestarts
<1>4. QED
  BY <1>1, <1>2, <1>3 DEF ServerNext

LEMMA ServerKeepsAgentTypes == AgentTyped /\ ServerNext => AgentTyped'
  BY ServerLeavesTheAgent DEF AgentTyped, AgentLeaves

\* The router sends only to the registered connection, and a session that ends
\* takes its queues with it.
LEMMA ServerKeepsConnTypes ==
  ConnTyped /\ ServerNext => ConnTyped'
<1> SUFFICES ASSUME ConnTyped, ServerNext PROVE ConnTyped'
  OBVIOUS
<1> USE DEF ConnTyped
<1>1. ASSUME NEW l \in Links, Register(l) PROVE ConnTyped'
  BY <1>1 DEF Register, agentVars
<1>2. ASSUME NEW l \in Links, SessionEnds(l) PROVE ConnTyped'
  <2>1. /\ session' = [session EXCEPT ![l] = "none"]
        /\ up' = [up EXCEPT ![l] = <<>>] /\ down' = [down EXCEPT ![l] = <<>>]
        /\ link' \in {0, link}
        /\ IF registered = l THEN registered' = 0 ELSE registered' = registered
    BY <1>2 DEF SessionEnds, AgentLeaves
  <2>2. QED
    BY <2>1
<1>3. ASSUME NEW l \in Links, ReadFrame(l) PROVE ConnTyped'
  <2>1. up[l] # <<>> /\ up' = [up EXCEPT ![l] = Tail(@)]
        /\ UNCHANGED <<link, down, session, registered>>
    BY <1>3 DEF ReadFrame
  <2>2. Tail(up[l]) \in Seq(Frames)
    BY <2>1
  <2>3. QED
    BY <2>1, <2>2
<1>4. ASSUME NEW x \in Shells, RouteCreate(x) \/ RouteClose(x) PROVE ConnTyped'
  <2>1. /\ UNCHANGED <<link, up, session, registered>>
        /\ \/ down' = down
           \/ registered # 0 /\ \E c \in Commands :
                down' = [down EXCEPT ![registered] = Append(@, c)]
    BY <1>4 DEF RouteCreate, RouteClose, Commands
  <2>2. registered # 0 => \A c \in Commands : Append(down[registered], c) \in Seq(Commands)
    OBVIOUS
  <2>3. down' \in [Links -> Seq(Commands)]
    BY <2>1, <2>2
  <2>4. QED
    BY <2>1, <2>3
<1>5. ASSUME NEW x \in Shells,
             \/ CloserLeaves(x) \/ CreatorLeaves(x)
             \/ AskCreate(x) \/ ListCreated(x) \/ Close(x) \/ ForgetClose(x)
      PROVE ConnTyped'
  <2>1. UNCHANGED connVars
    BY <1>5 DEF CloserLeaves, CreatorLeaves, AskCreate, ListCreated, Close, ForgetClose
  <2>2. QED
    BY <2>1 DEF connVars
<1>6. CASE ServerRestarts
  BY <1>6 DEF ServerRestarts, AgentLeaves
<1>7. QED
  BY <1>1, <1>2, <1>3, <1>4, <1>5, <1>6 DEF ServerNext

LEMMA AgentLeavesTheServer == AgentNext => UNCHANGED <<callVars, indexVars>>
<1>1. ASSUME NEW x \in Shells, Execute(x) PROVE UNCHANGED <<callVars, indexVars>>
  BY <1>1 DEF Execute, RunCreate, RefuseCreate, RunClose, RunCloseAgain, Takes
<1>2. QED
  BY <1>1 DEF AgentNext, Connect, TakeSnapshot, SendReport, SendReply, RecordChanges,
     Disconnect, AgentRestarts

\* Reports and answers are typed, so the index they change is.
LEMMA ServerKeepsItsTypes ==
  ConnTyped /\ ServerTyped /\ ServerNext => ServerTyped'
<1> SUFFICES ASSUME ConnTyped, ServerTyped, ServerNext PROVE ServerTyped'
  OBVIOUS
<1> USE DEF ServerTyped
<1>1. ASSUME NEW l \in Links, Register(l) \/ SessionEnds(l) PROVE ServerTyped'
  <2>1. UNCHANGED <<asking, answers, left, indexVars>>
        /\ (UNCHANGED create \/ FailCalls)
    BY <1>1 DEF Register, SessionEnds
  <2>2. create' \in [Shells -> {"none", "asked", "sent", "over"}]
    BY <2>1 DEF FailCalls
  <2>3. QED
    BY <2>1, <2>2 DEF indexVars
<1>2. ASSUME NEW l \in Links, ReadFrame(l) PROVE ServerTyped'
  <2> DEFINE f == Head(up[l])
  <2>1. f \in Frames
    BY <1>2 DEF ReadFrame, ConnTyped
  <2>2. CASE f.kind = "report" /\ Report(f.shells, f.version) /\ UNCHANGED <<create, answers>>
    <3>1. f.shells \subseteq Shells /\ f.version \in Nat
      BY <2>1, <2>2, FrameTypes
    <3>2. entry' \in [Shells -> {"none", "live", "orphaned"}]
      BY <2>2 DEF Report, Listed
    <3>3. asking' \in [Shells -> Nat]
      BY <2>2 DEF Report, CallsFor
    <3>4. known' \in [Shells -> Nat]
      BY <2>2, <3>1 DEF Report, Later
    <3>5. outrun' \in BOOLEAN
      BY <2>2 DEF Report
    <3>6. pending' \subseteq Shells /\ left' \subseteq Shells /\ closed' = closed
      BY <2>2 DEF Report
    <3>7. QED
      BY <2>2, <3>2, <3>3, <3>4, <3>5, <3>6
  <2>3. CASE /\ f.kind \in {"created", "refused"}
             /\ create' = [create EXCEPT ![f.shell] = "over"]
             /\ answers' = IF f.kind = "created" THEN answers \cup {f} ELSE answers
             /\ UNCHANGED <<asking, left, indexVars>>
    BY <2>1, <2>3 DEF indexVars
  <2>4. CASE answers' = answers \cup {f} /\ UNCHANGED <<create, asking, left, indexVars>>
    BY <2>1, <2>4 DEF indexVars
  <2>5. CASE UNCHANGED <<callVars, indexVars>>
    BY <2>5 DEF callVars, indexVars
  <2>6. QED
    BY <1>2, <2>2, <2>3, <2>4, <2>5 DEF ReadFrame
<1>3. ASSUME NEW x \in Shells,
             RouteCreate(x) \/ RouteClose(x) \/ CloserLeaves(x) \/ CreatorLeaves(x)
      PROVE ServerTyped'
  <2>1. UNCHANGED indexVars
    BY <1>3 DEF RouteCreate, RouteClose, CloserLeaves, CreatorLeaves
  <2>2. create' \in [Shells -> {"none", "asked", "sent", "over"}]
    BY <1>3 DEF RouteCreate, RouteClose, CloserLeaves, CreatorLeaves
  <2>3. asking' \in [Shells -> Nat]
    <3>1. UNCHANGED asking \/ (asking[x] > 0 /\ asking' = [asking EXCEPT ![x] = @ - 1])
      BY <1>3 DEF RouteCreate, RouteClose, CloserLeaves, CreatorLeaves
    <3>2. QED
      BY <3>1
  <2>4. answers' \subseteq Frames /\ left' \subseteq Shells
    BY <1>3 DEF RouteCreate, RouteClose, CloserLeaves, CreatorLeaves
  <2>5. QED
    BY <2>1, <2>2, <2>3, <2>4 DEF indexVars
<1>4. ASSUME NEW x \in Shells, AskCreate(x) \/ Close(x) PROVE ServerTyped'
  BY <1>4 DEF AskCreate, Close, indexVars
<1>5. ASSUME NEW x \in Shells, ListCreated(x) \/ ForgetClose(x) PROVE ServerTyped'
  <2>1. PICK answer \in answers :
          /\ answers' = answers \ {answer}
          /\ known' = [known EXCEPT ![x] = Later(@, answer.version)]
    BY <1>5 DEF ListCreated, ForgetClose
  <2>2. known' \in [Shells -> Nat]
    BY <2>1, FrameTypes DEF Later
  <2>3. outrun' \in BOOLEAN
    BY <1>5 DEF ListCreated, ForgetClose
  <2>4. entry' \in [Shells -> {"none", "live", "orphaned"}]
    BY <1>5 DEF ListCreated, ForgetClose
  <2>5. pending' \subseteq Shells /\ UNCHANGED <<create, asking, left, closed>>
    BY <1>5 DEF ListCreated, ForgetClose
  <2>6. QED
    BY <2>1, <2>2, <2>3, <2>4, <2>5
<1>6. CASE ServerRestarts
  <2>1. create' \in [Shells -> {"none", "asked", "sent", "over"}]
    BY <1>6 DEF ServerRestarts
  <2>2. QED
    BY <1>6, <2>1 DEF ServerRestarts
<1>7. QED
  BY <1>1, <1>2, <1>3, <1>4, <1>5, <1>6 DEF ServerNext

\* Every list, queue and index of the terminals keeps its type, and only an open
\* session is registered, for any number of shells and connections.
THEOREM TerminalTypesHold == TermSpec => []TerminalTypeOK
<1>1. TermInit => TerminalTypeOK
  <2>1. TermInit => up \in [Links -> Seq(Frames)] /\ down \in [Links -> Seq(Commands)]
    BY DEF TermInit
  <2>2. TermInit => AgentTyped
    <3>1. TermInit => changed \in BOOLEAN /\ ~changed
      BY DEF TermInit
    <3>2. QED
      BY <3>1 DEF TermInit, AgentTyped
  <2>3. TermInit => ConnTyped
    BY <2>1 DEF TermInit, ConnTyped
  <2>4. TermInit => ServerTyped
    <3>1. TermInit => outrun \in BOOLEAN
      BY DEF TermInit
    <3>2. QED
      BY <3>1 DEF TermInit, ServerTyped
  <2>5. QED
    BY <2>2, <2>3, <2>4, TypesTogether
<1>2. TerminalTypeOK /\ [TermNext]_vars => TerminalTypeOK'
  <2> SUFFICES ASSUME AgentTyped, ConnTyped, ServerTyped, [TermNext]_vars
               PROVE AgentTyped' /\ ConnTyped' /\ ServerTyped'
    BY TypesTogether DEF TerminalTypeOK, AgentTyped, ConnTyped, ServerTyped, Commands
  <2>1. CASE AgentNext
    <3>1. ServerTyped'
      BY <2>1, AgentLeavesTheServer DEF ServerTyped, callVars, indexVars
    <3>2. QED
      BY <2>1, <3>1, AgentKeepsItsTypes, AgentKeepsConnTypes
  <2>2. CASE ServerNext
    BY <2>2, ServerKeepsAgentTypes, ServerKeepsConnTypes, ServerKeepsItsTypes
  <2>3. CASE UNCHANGED vars
    BY <2>3 DEF vars, agentVars, connVars, callVars, indexVars, AgentTyped, ConnTyped,
                ServerTyped
  <2>4. QED
    BY <2>1, <2>2, <2>3 DEF TermNext
<1>3. QED
  BY <1>1, <1>2, PTL DEF TermSpec

-----------------------------------------------------------------------------
(* The lives of shells *)

\* The life of every shell so far: which ever ran, and the version of the list
\* that was the first with it and the first without it again.
Lifes == [made : SUBSET Shells, born : [Shells -> Nat], died : [Shells -> Nat]]

\* The list of version v has x.
Present(life, x, v) ==
  /\ x \in life.made /\ life.born[x] <= v
  /\ x \in sessions \/ v < life.died[x]

\* What the agent has said and the index has not heard yet.
OnWay ==
  snapshot \cup replies \cup answers
    \cup {f \in Frames : \E l \in Links : \E i \in DOMAIN up[l] : up[l][i] = f}

\* A frame tells what was so when it was made.
Tells(life, f) ==
  /\ f.version <= version
  /\ f.kind = "report" =>
       \A x \in Shells : x \in f.shells <=> Present(life, x, f.version)
  /\ f.kind = "created" =>
       life.born[f.shell] = f.version /\ Present(life, f.shell, f.version)
  /\ f.kind = "closed" =>
       /\ f.shell \in life.made \ sessions /\ life.died[f.shell] <= f.version
       /\ f.shell \in closed

Lives(life) ==
  /\ sessions \subseteq life.made
  /\ \A x \in Shells : life.born[x] <= version /\ life.died[x] <= version
  /\ \A x \in life.made : life.born[x] >= 1
  /\ \A f \in OnWay : Tells(life, f)

IsAt(l, i, kind, x) == i \in DOMAIN down[l] /\ down[l][i] = [kind |-> kind, shell |-> x]

\* Every shell is created once, and only one whose session was closed is closed.
Calls(life) ==
  /\ \A x \in life.made : create[x] \notin {"none", "asked"}
  /\ \A x \in Shells \ closed : asking[x] = 0
  /\ \A x \in Shells, l \in Links : \A i \in DOMAIN down[l] :
       /\ IsAt(l, i, "close", x) => x \in closed
       /\ IsAt(l, i, "create", x) => x \notin life.made /\ create[x] \notin {"none", "asked"}
       /\ \A k \in Links : \A j \in DOMAIN down[k] :
            IsAt(l, i, "create", x) /\ IsAt(k, j, "create", x) => l = k /\ i = j

\* What the index has heard of a session before it lists, closes and forgets it.
\* A close that is no longer owed belongs to a shell that is known to be gone.
Index(life) ==
  /\ pending \subseteq closed /\ closed \subseteq life.made
  /\ \A x \in Shells : entry[x] # "none" => x \in life.made
  /\ \A x \in Shells : entry[x] # "none" \/ x \in closed => life.born[x] <= known[x]
  /\ ~outrun => \A x \in closed :
       /\ entry[x] = "none"
       /\ x \notin pending => x \notin sessions /\ life.died[x] <= known[x]

\* What the index lists as alive is what the agent ran at the version the index
\* has heard of, less the closes it owes.
Listing(life) ==
  /\ \A x \in Shells : known[x] <= version
  /\ ~outrun => \A x \in Shells :
       entry[x] = "live" <=> Present(life, x, known[x]) /\ x \notin pending

Typed == AgentTyped /\ ConnTyped /\ ServerTyped

TerminalInvariant ==
  \E life \in Lifes : Lives(life) /\ Calls(life) /\ Index(life) /\ Listing(life)

LEMMA OnWayTyped == Typed => OnWay \subseteq Frames
  BY DEF Typed, AgentTyped, ServerTyped, OnWay

\* A step that says nothing new and changes no shell keeps every life.
LEMMA LivesOn ==
  ASSUME NEW life \in Lifes, Lives(life), UNCHANGED <<sessions, version>>,
         closed \subseteq closed' \/ OnWay' = {},
         OnWay' \subseteq OnWay
  PROVE  Lives(life)'
  BY DEF Lives, Tells, Present

\* One with new frames that tell the truth does too.
LEMMA LivesOnTelling ==
  ASSUME NEW life \in Lifes, Lives(life), UNCHANGED <<sessions, version, closed>>,
         NEW f, Tells(life, f), OnWay' \subseteq OnWay \cup {f}
  PROVE  Lives(life)'
  BY DEF Lives, Tells, Present

\* What is appended to a connection's frames was on its way before.
LEMMA SentOnWay ==
  ASSUME Typed, link \in Links, NEW f \in snapshot \cup replies,
         up' = [up EXCEPT ![link] = Append(@, f)],
         snapshot' \subseteq snapshot, replies' \subseteq replies, answers' = answers
  PROVE  OnWay' \subseteq OnWay
<1>1. f \in Frames
  BY DEF Typed, AgentTyped
<1>2. ASSUME NEW g \in Frames, NEW l \in Links, NEW i \in DOMAIN up'[l], up'[l][i] = g
      PROVE g \in OnWay
  <2>1. CASE l = link
    <3>1. up[l] \in Seq(Frames) /\ up'[l] = Append(up[l], f)
      BY <2>1 DEF Typed, ConnTyped
    <3>2. \/ i \in DOMAIN up[l] /\ up[l][i] = g
          \/ g = f
      BY <1>1, <1>2, <3>1
    <3>3. QED
      BY <3>2 DEF OnWay
  <2>2. CASE l # link
    BY <1>2, <2>2 DEF OnWay, Typed, ConnTyped
  <2>3. QED
    BY <2>1, <2>2
<1>3. QED
  BY <1>2 DEF OnWay

\* Where the elements of a tail were.
LEMMA TailAt ==
  ASSUME NEW S, NEW s \in Seq(S), s # <<>>, NEW i \in DOMAIN Tail(s)
  PROVE  i \in Nat /\ i >= 1 /\ i + 1 \in DOMAIN s /\ Tail(s)[i] = s[i + 1]
  OBVIOUS

\* A connection's frames are taken one by one, or dropped.
LEMMA LessOnWay ==
  ASSUME Typed, NEW l \in Links,
         \/ up' = [up EXCEPT ![l] = <<>>]
         \/ up[l] # <<>> /\ up' = [up EXCEPT ![l] = Tail(@)],
         snapshot' \subseteq snapshot, replies' \subseteq replies,
         answers' \subseteq OnWay
  PROVE  OnWay' \subseteq OnWay
<1>1. ASSUME NEW g \in Frames, NEW k \in Links, NEW i \in DOMAIN up'[k], up'[k][i] = g
      PROVE \E j \in DOMAIN up[k] : up[k][j] = g
  <2>1. CASE k = l
    <3>1. up[l] \in Seq(Frames)
      BY DEF Typed, ConnTyped
    <3>2. CASE up'[l] = <<>>
      BY <1>1, <2>1, <3>2
    <3>3. CASE up[l] # <<>> /\ up'[l] = Tail(up[l])
      <4>1. i + 1 \in DOMAIN up[l] /\ up'[l][i] = up[l][i + 1]
        BY <1>1, <2>1, <3>1, <3>3, TailAt
      <4>2. QED
        BY <1>1, <2>1, <3>1, <4>1
    <3>4. QED
      BY <3>2, <3>3 DEF Typed, ConnTyped
  <2>2. CASE k # l
    BY <1>1, <2>2 DEF Typed, ConnTyped
  <2>3. QED
    BY <2>1, <2>2
<1>2. QED
  BY <1>1 DEF OnWay

\* A frame at the head of a connection is on its way.
LEMMA HeadOnWay ==
  ASSUME Typed, NEW l \in Links, up[l] # <<>>
  PROVE  Head(up[l]) \in OnWay /\ Head(up[l]) \in Frames
<1>1. up[l] \in Seq(Frames) /\ 1 \in DOMAIN up[l] /\ Head(up[l]) = up[l][1]
  BY DEF Typed, ConnTyped
<1>2. QED
  BY <1>1 DEF OnWay

\* Commands are taken in order or dropped, and calls only go on.
LEMMA FewerCalls ==
  ASSUME Typed, NEW life \in Lifes, Calls(life), NEW taken \in [Links -> Nat],
         \A l \in Links : \A i \in DOMAIN down'[l] :
           /\ i + taken[l] \in DOMAIN down[l]
           /\ down'[l][i] = down[l][i + taken[l]]
           /\ i \in Nat,
         \A x \in Shells : create[x] \notin {"none", "asked"} =>
                             create'[x] \notin {"none", "asked"},
         closed \subseteq closed', \A x \in Shells \ closed' : asking'[x] = 0
  PROVE  Calls(life)'
<1>1. life.made \subseteq Shells
  BY DEF Lifes
<1>2. \A x \in life.made : create'[x] \notin {"none", "asked"}
  BY <1>1 DEF Calls
<1>3. ASSUME NEW x \in Shells, NEW l \in Links, NEW i \in DOMAIN down'[l],
             NEW kind, IsAt(l, i, kind, x)'
      PROVE IsAt(l, i + taken[l], kind, x) /\ i + taken[l] \in DOMAIN down[l]
  BY <1>3 DEF IsAt
<1>4. ASSUME NEW x \in Shells, NEW l \in Links, NEW i \in DOMAIN down'[l]
      PROVE /\ IsAt(l, i, "close", x)' => x \in closed'
            /\ IsAt(l, i, "create", x)' =>
                 x \notin life.made /\ create'[x] \notin {"none", "asked"}
  BY <1>3, <1>4 DEF Calls
<1>5. ASSUME NEW x \in Shells, NEW l \in Links, NEW i \in DOMAIN down'[l],
             NEW k \in Links, NEW j \in DOMAIN down'[k],
             IsAt(l, i, "create", x)', IsAt(k, j, "create", x)'
      PROVE l = k /\ i = j
  <2>1. l = k /\ i + taken[l] = j + taken[k]
    BY <1>3, <1>5 DEF Calls
  <2>2. i \in Nat /\ j \in Nat /\ taken[l] \in Nat
    BY <1>5
  <2>3. QED
    BY <2>1, <2>2
<1>6. QED
  BY <1>2, <1>4, <1>5 DEF Calls

\* The same commands, or those of a connection that ended gone.
LEMMA DroppedCalls ==
  ASSUME Typed, NEW life \in Lifes, Calls(life),
         down' = down \/ \E l \in Links : down' = [down EXCEPT ![l] = <<>>],
         \A x \in Shells : create[x] \notin {"none", "asked"} =>
                             create'[x] \notin {"none", "asked"},
         closed \subseteq closed', \A x \in Shells \ closed' : asking'[x] = 0
  PROVE  Calls(life)'
<1> DEFINE taken == [l \in Links |-> 0]
<1>1. \A l \in Links : \A i \in DOMAIN down'[l] :
        /\ i + taken[l] \in DOMAIN down[l]
        /\ down'[l][i] = down[l][i + taken[l]]
        /\ i \in Nat
  <2>1. ASSUME NEW l \in Links, NEW i \in DOMAIN down'[l]
        PROVE i \in DOMAIN down[l] /\ down'[l][i] = down[l][i] /\ i \in Nat
    <3>1. down[l] \in Seq(Commands)
      BY DEF Typed, ConnTyped
    <3>2. down'[l] = down[l] \/ down'[l] = <<>>
      BY DEF Typed, ConnTyped
    <3>3. down'[l] = down[l]
      BY <2>1, <3>2
    <3>4. QED
      BY <2>1, <3>1, <3>3
  <2>2. \A l \in Links : taken[l] = 0
    OBVIOUS
  <2> HIDE DEF taken
  <2>3. ASSUME NEW l \in Links, NEW i \in DOMAIN down'[l]
        PROVE /\ i + taken[l] \in DOMAIN down[l]
              /\ down'[l][i] = down[l][i + taken[l]]
              /\ i \in Nat
    <3>1. i + taken[l] = i
      BY <2>1, <2>2, <2>3
    <3>2. QED
      BY <2>1, <2>3, <3>1
  <2>4. QED
    BY <2>3
<1>2. taken \in [Links -> Nat]
  OBVIOUS
<1> HIDE DEF taken
<1>3. QED
  BY <1>1, <1>2, FewerCalls

\* The agent takes its next command.
LEMMA TakenCalls ==
  ASSUME Typed, NEW life \in Lifes, Calls(life), link \in Links, down[link] # <<>>,
         down' = [down EXCEPT ![link] = Tail(@)], UNCHANGED <<create, asking, closed>>
  PROVE  Calls(life)'
<1> DEFINE taken == [l \in Links |-> IF l = link THEN 1 ELSE 0]
<1>1. ASSUME NEW l \in Links, NEW i \in DOMAIN down'[l]
      PROVE /\ i + taken[l] \in DOMAIN down[l]
            /\ down'[l][i] = down[l][i + taken[l]]
            /\ i \in Nat
  <2>1. down[l] \in Seq(Commands)
    BY DEF Typed, ConnTyped
  <2>2. CASE l = link
    <3>1. down'[l] = Tail(down[l]) /\ taken[l] = 1
      BY <2>2 DEF Typed, ConnTyped
    <3> HIDE DEF taken
    <3>2. down[l] # <<>>
      BY <2>2
    <3>3. i \in Nat /\ i + 1 \in DOMAIN down[l] /\ down'[l][i] = down[l][i + 1]
      BY <1>1, <2>1, <3>1, <3>2, TailAt
    <3>4. QED
      BY <3>1, <3>3
  <2>3. CASE l # link
    <3>1. down'[l] = down[l] /\ taken[l] = 0
      BY <2>3 DEF Typed, ConnTyped
    <3> HIDE DEF taken
    <3>2. i \in DOMAIN down[l] /\ i \in Nat
      BY <1>1, <2>1, <3>1
    <3>3. i + taken[l] = i
      BY <3>1, <3>2
    <3>4. QED
      BY <3>1, <3>2, <3>3
  <2>4. QED
    BY <2>2, <2>3
<1>2. taken \in [Links -> Nat]
  OBVIOUS
<1>3. \A x \in Shells \ closed' : asking'[x] = 0
  BY DEF Calls
<1> HIDE DEF taken
<1>4. QED
  BY <1>1, <1>2, <1>3, FewerCalls

\* The index hears nothing and no shell is created: it stands as it was.
LEMMA IndexStands ==
  ASSUME NEW life \in Lifes, Index(life), UNCHANGED indexVars, sessions' \subseteq sessions
  PROVE  Index(life)'
  BY DEF Index, indexVars

\* Nor does what it lists change meaning.
LEMMA ListingStands ==
  ASSUME NEW life \in Lifes, Listing(life), UNCHANGED <<sessions, version, indexVars>>
  PROVE  Listing(life)'
  BY DEF Listing, Present, indexVars

\* Steps of the agent that change no shell.
LEMMA AgentTalks ==
  ASSUME Typed, NEW life \in Lifes, Lives(life), Calls(life), Index(life),
         Connect \/ TakeSnapshot \/ SendReport \/ SendReply \/ RecordChanges \/ Disconnect
  PROVE  Lives(life)' /\ Calls(life)' /\ Index(life)'
<1>1. UNCHANGED <<sessions, version, callVars, indexVars>>
  BY DEF Connect, TakeSnapshot, SendReport, SendReply, RecordChanges, Disconnect
<1>2. Index(life)'
  BY <1>1, IndexStands
<1>3. Calls(life)'
  <2>1. down' = down \/ \E l \in Links : down' = [down EXCEPT ![l] = <<>>]
    BY DEF Connect, TakeSnapshot, SendReport, SendReply, RecordChanges, Disconnect,
           connVars, Typed, ConnTyped
  <2>2. \A x \in Shells \ closed' : asking'[x] = 0
    BY <1>1 DEF Calls, callVars, indexVars
  <2>3. QED
    BY <1>1, <2>1, <2>2, DroppedCalls DEF callVars, indexVars
<1>4. Lives(life)'
  <2>1. CASE Connect \/ RecordChanges \/ Disconnect
    <3>1. OnWay' \subseteq OnWay
      BY <2>1 DEF OnWay, Connect, RecordChanges, Disconnect, AgentLeaves, callVars, connVars
    <3>2. QED
      BY <1>1, <3>1, LivesOn DEF indexVars
  <2>2. CASE TakeSnapshot
    <3> DEFINE f == [kind |-> "report", shells |-> sessions, version |-> version]
    <3>1. OnWay' \subseteq OnWay \cup {f}
      BY <2>2 DEF OnWay, TakeSnapshot, callVars, connVars
    <3>2. Tells(life, f)
      BY DEF Tells, Lives, Present, Lifes, Typed, AgentTyped
    <3>3. QED
      BY <1>1, <3>1, <3>2, LivesOnTelling DEF indexVars
  <2>3. CASE SendReport \/ SendReply
    <3>1. PICK f \in snapshot \cup replies : up' = [up EXCEPT ![link] = Append(@, f)]
      BY <2>3 DEF SendReport, SendReply
    <3>2. link \in Links
      BY <2>3 DEF SendReport, SendReply, Typed, AgentTyped, ConnTyped
    <3>3. snapshot' \subseteq snapshot /\ replies' \subseteq replies /\ answers' = answers
      BY <2>3 DEF SendReport, SendReply, callVars
    <3>4. QED
      BY <1>1, <3>1, <3>2, <3>3, SentOnWay, LivesOn DEF indexVars
  <2>4. QED
    BY <2>1, <2>2, <2>3
<1>5. QED
  BY <1>2, <1>3, <1>4

\* The life after a new shell, and after some have ended.
Beginning(life, x) ==
  [made |-> life.made \cup {x}, born |-> [life.born EXCEPT ![x] = version + 1],
   died |-> life.died]
Ending(life, gone) ==
  [made |-> life.made, born |-> life.born,
   died |-> [x \in Shells |-> IF x \in gone THEN version + 1 ELSE life.died[x]]]

\* The next command is the only one that creates its shell.
LEMMA TakenOnce ==
  ASSUME Typed, NEW life \in Lifes, Calls(life), NEW kind \in {"create", "close"},
         NEW x \in Shells, Takes(kind, x)
  PROVE  /\ Calls(life)' /\ link \in Links
         /\ kind = "close" => x \in closed
         /\ kind = "create" =>
              /\ x \notin life.made /\ create'[x] \notin {"none", "asked"}
              /\ \A l \in Links : \A i \in DOMAIN down'[l] : ~IsAt(l, i, "create", x)'
<1>1. link \in Links /\ down[link] # <<>> /\ down' = [down EXCEPT ![link] = Tail(@)]
  BY DEF Takes, Typed, ConnTyped
<1>2. UNCHANGED <<create, asking, closed>>
  BY DEF Takes, callVars, indexVars
<1>3. down[link] \in Seq(Commands)
  BY <1>1 DEF Typed, ConnTyped
<1>4. 1 \in DOMAIN down[link] /\ Head(down[link]) = down[link][1]
  BY <1>1, <1>3
<1>5. IsAt(link, 1, kind, x)
  BY <1>4 DEF IsAt, Takes
<1>6. ASSUME kind = "create", NEW l \in Links, NEW i \in DOMAIN down'[l],
             IsAt(l, i, "create", x)'
      PROVE FALSE
  <2>1. CASE l = link
    <3>1. down'[l] = Tail(down[link])
      BY <1>1, <2>1 DEF Typed, ConnTyped
    <3>2. i \in Nat /\ i >= 1 /\ i + 1 \in DOMAIN down[link] /\ down'[l][i] = down[link][i + 1]
      BY <1>1, <1>3, <1>6, <3>1, TailAt
    <3>3. IsAt(link, i + 1, "create", x)
      BY <1>6, <3>2 DEF IsAt
    <3>4. i + 1 = 1
      BY <1>1, <1>4, <1>5, <1>6, <3>2, <3>3 DEF Calls
    <3>5. QED
      BY <3>2, <3>4
  <2>2. CASE l # link
    <3>1. down'[l] = down[l]
      BY <1>1, <2>2 DEF Typed, ConnTyped
    <3>2. IsAt(l, i, "create", x) /\ i \in DOMAIN down[l]
      BY <1>6, <3>1 DEF IsAt
    <3>3. QED
      BY <1>1, <1>4, <1>5, <1>6, <2>2, <3>2 DEF Calls
  <2>3. QED
    BY <2>1, <2>2
<1>7. QED
  BY <1>1, <1>2, <1>4, <1>5, <1>6, TakenCalls DEF Calls

\* An answer joins what is on its way.
LEMMA AnswerOnWay ==
  ASSUME NEW kind, NEW x, Takes(kind, x), NEW f, replies' = replies \cup {f}
  PROVE  OnWay' \subseteq OnWay \cup {f}
  BY DEF Takes, OnWay, callVars

\* A command that changes no shell.
LEMMA AgentDeclines ==
  ASSUME Typed, NEW life \in Lifes, Lives(life), Calls(life), Index(life),
         NEW x \in Shells, RefuseCreate(x) \/ RunCloseAgain(x)
  PROVE  Lives(life)' /\ Calls(life)' /\ Index(life)'
<1>1. PICK kind \in {"create", "close"} :
        Takes(kind, x) /\ (kind = "close" <=> RunCloseAgain(x))
  BY DEF RefuseCreate, RunCloseAgain, Takes
<1>2. UNCHANGED <<sessions, version, indexVars>>
  BY DEF RefuseCreate, RunCloseAgain, Takes
<1>3. PICK f : /\ replies' = replies \cup {f}
               /\ \/ f = Answer("refused", x, version)
                  \/ RunCloseAgain(x) /\ f = Answer("closed", x, version)
  BY DEF RefuseCreate, RunCloseAgain
<1>4. Tells(life, f)
  <2>1. version \in Nat
    BY DEF Typed, AgentTyped
  <2>2. CASE f = Answer("refused", x, version)
    BY <2>1, <2>2 DEF Tells, Answer
  <2>3. CASE RunCloseAgain(x) /\ f = Answer("closed", x, version)
    <3>1. x \in closed /\ x \in life.made \ sessions
      BY <1>1, <2>3, TakenOnce DEF RunCloseAgain, Index
    <3>2. QED
      BY <2>1, <2>3, <3>1 DEF Tells, Answer, Lives
  <2>4. QED
    BY <1>3, <2>2, <2>3
<1>5. QED
  BY <1>1, <1>2, <1>3, <1>4, TakenOnce, AnswerOnWay, LivesOnTelling, IndexStands
     DEF indexVars

\* A new shell begins a life, once.
LEMMA AgentCreates ==
  ASSUME Typed, NEW life \in Lifes, Lives(life), Calls(life), Index(life), Listing(life),
         NEW x \in Shells, RunCreate(x)
  PROVE  \E later \in Lifes :
           Lives(later)' /\ Calls(later)' /\ Index(later)' /\ Listing(later)'
<1>0. Beginning(life, x) \in Lifes
  BY DEF Beginning, Lifes, Typed, AgentTyped
<1> PICK later \in Lifes : later = Beginning(life, x)
  BY <1>0
<1> PICK f : f = Answer("created", x, version + 1)
  OBVIOUS
<1>1. /\ Calls(life)' /\ x \notin life.made /\ create'[x] \notin {"none", "asked"}
      /\ \A l \in Links : \A i \in DOMAIN down'[l] : ~IsAt(l, i, "create", x)'
  BY TakenOnce DEF RunCreate
<1>2. version \in Nat /\ version' = version + 1 /\ sessions' = sessions \cup {x}
  BY DEF Typed, AgentTyped, RunCreate, Change
<1>3. /\ later.made = life.made \cup {x}
      /\ later.born \in [Shells -> Nat] /\ later.born[x] = version + 1
      /\ \A y \in Shells : y # x => later.born[y] = life.born[y]
      /\ later.died = life.died
      /\ later \in Lifes
  BY <1>2 DEF Beginning, Lifes
<1>4. Calls(later)'
  <2>1. \A y \in life.made \cup {x} : create'[y] \notin {"none", "asked"}
    BY <1>1 DEF Calls
  <2>2. QED
    BY <1>1, <1>3, <2>1 DEF Calls
<1>5. UNCHANGED indexVars
  BY DEF RunCreate, Takes
<1>6. Index(later)'
  <2>1. UNCHANGED indexVars
    BY <1>5
  <2>2. x \notin closed /\ entry[x] = "none"
    BY <1>1 DEF Index
  <2>3. QED
    BY <1>2, <1>3, <2>1, <2>2 DEF Index, indexVars
<1>7. \A g \in OnWay : Tells(later, g)'
  <2> SUFFICES ASSUME NEW g \in OnWay PROVE Tells(later, g)'
    OBVIOUS
  <2>1. Tells(life, g) /\ g \in Frames /\ g.version \in Nat
    BY OnWayTyped, FrameTypes DEF Lives
  <2>2. g.version < version + 1 /\ g.version <= version'
    BY <1>2, <2>1 DEF Tells
  <2>3. \A y \in Shells : Present(later, y, g.version)' <=> Present(life, y, g.version)
    BY <1>1, <1>2, <1>3, <2>1, <2>2 DEF Present
  <2>4. g.kind = "created" =>
          later.born[g.shell] = g.version /\ Present(later, g.shell, g.version)'
    BY <1>1, <1>3, <2>1, <2>3, FrameTypes DEF Tells, Present
  <2>5. g.kind = "closed" =>
          /\ g.shell \in later.made \ sessions' /\ later.died[g.shell] <= g.version
          /\ g.shell \in closed'
    BY <1>5, <1>1, <1>2, <1>3, <2>1 DEF Tells, indexVars
  <2>6. QED
    BY <2>1, <2>2, <2>3, <2>4, <2>5 DEF Tells
<1>8. Tells(later, f)'
  BY <1>2, <1>3 DEF Tells, Answer, Present
<1>9. OnWay' \subseteq OnWay \cup {f}
  BY AnswerOnWay DEF RunCreate
<1>10. Lives(later)'
  <2>1. \A y \in Shells : later.born[y] <= version' /\ later.died[y] <= version'
    BY <1>2, <1>3 DEF Lives, Lifes
  <2>2. sessions' \subseteq later.made
    BY <1>2, <1>3 DEF Lives
  <2>3. \A y \in later.made : later.born[y] >= 1
    BY <1>2, <1>3 DEF Lives, Lifes
  <2>4. QED
    BY <1>7, <1>8, <1>9, <2>1, <2>2, <2>3 DEF Lives
<1>11. Listing(later)'
  <2> SUFFICES ASSUME NEW y \in Shells
               PROVE /\ known'[y] <= version'
                     /\ ~outrun' => (entry'[y] = "live" <=>
                          Present(later, y, known[y])' /\ y \notin pending')
    BY DEF Listing
  <2>1. known[y] \in Nat /\ known[y] <= version
    BY DEF Listing, Typed, ServerTyped
  <2>2. Present(later, y, known[y])' <=> Present(life, y, known[y])
    BY <1>5, <1>1, <1>2, <1>3, <2>1 DEF Present, indexVars
  <2>3. QED
    BY <1>5, <1>2, <2>1, <2>2 DEF Listing, indexVars
<1>12. QED
  BY <1>3, <1>4, <1>6, <1>10, <1>11

\* Shells that end do so after everything that was said of them.
LEMMA ShellsEnd ==
  ASSUME Typed, NEW life \in Lifes, Lives(life), Calls(life)', Index(life), Listing(life),
         UNCHANGED indexVars,
         NEW gone \in SUBSET sessions, sessions' = sessions \ gone,
         version' = version + 1,
         OnWay' \subseteq
           OnWay \cup {Answer("closed", x, version + 1) : x \in gone \cap closed}
  PROVE  \E later \in Lifes :
           Lives(later)' /\ Calls(later)' /\ Index(later)' /\ Listing(later)'
<1>0. Ending(life, gone) \in Lifes
  BY DEF Ending, Lifes, Typed, AgentTyped
<1> PICK later \in Lifes : later = Ending(life, gone)
  BY <1>0
<1>1. version \in Nat /\ sessions \subseteq Shells /\ sessions \subseteq life.made
  BY DEF Typed, AgentTyped, Lives
<1>2. /\ later.made = life.made /\ later.born = life.born
      /\ \A x \in Shells : later.died[x] = IF x \in gone THEN version + 1 ELSE life.died[x]
      /\ later \in Lifes
  BY <1>1 DEF Ending, Lifes
<1>3. Calls(later)'
  BY <1>2 DEF Calls
<1>4. Index(later)'
  <2>1. ASSUME ~outrun, NEW x \in closed, x \notin pending
        PROVE x \notin gone
    BY <2>1 DEF Index
  <2>2. closed \subseteq Shells
    BY DEF Typed, ServerTyped
  <2>3. QED
    BY <1>2, <2>1, <2>2 DEF Index, indexVars
<1>5. \A g \in OnWay : Tells(later, g)'
  <2> SUFFICES ASSUME NEW g \in OnWay PROVE Tells(later, g)'
    OBVIOUS
  <2>1. Tells(life, g) /\ g \in Frames /\ g.version \in Nat
    BY OnWayTyped, FrameTypes DEF Lives
  <2>2. g.version < version + 1 /\ g.version <= version'
    BY <1>1, <2>1 DEF Tells
  <2>3. \A y \in Shells : Present(later, y, g.version)' <=> Present(life, y, g.version)
    BY <1>1, <1>2, <2>1, <2>2 DEF Present
  <2>4. g.kind = "created" =>
          later.born[g.shell] = g.version /\ Present(later, g.shell, g.version)'
    BY <1>2, <2>1, <2>3, FrameTypes DEF Tells
  <2>5. g.kind = "closed" =>
          /\ g.shell \in later.made \ sessions' /\ later.died[g.shell] <= g.version
          /\ g.shell \in closed'
    BY <1>2, <2>1, FrameTypes DEF Tells, indexVars
  <2>6. QED
    BY <2>1, <2>2, <2>3, <2>4, <2>5 DEF Tells
<1>6. ASSUME NEW x \in gone \cap closed, NEW f, f = Answer("closed", x, version + 1)
      PROVE Tells(later, f)'
  BY <1>1, <1>2, <1>6 DEF Tells, Answer, indexVars
<1>7. Lives(later)'
  <2>1. \A y \in Shells : later.born[y] <= version' /\ later.died[y] <= version'
    BY <1>1, <1>2 DEF Lives, Lifes
  <2>2. sessions' \subseteq later.made
    BY <1>1, <1>2
  <2>3. QED
    BY <1>2, <1>5, <1>6, <2>1, <2>2 DEF Lives
<1>8. Listing(later)'
  <2> SUFFICES ASSUME NEW y \in Shells
               PROVE /\ known'[y] <= version'
                     /\ ~outrun' => (entry'[y] = "live" <=>
                          Present(later, y, known[y])' /\ y \notin pending')
    BY DEF Listing
  <2>1. known[y] \in Nat /\ known[y] <= version
    BY DEF Listing, Typed, ServerTyped
  <2>2. Present(later, y, known[y])' <=> Present(life, y, known[y])
    BY <1>1, <1>2, <2>1 DEF Present, indexVars
  <2>3. QED
    BY <1>1, <2>1, <2>2 DEF Listing, indexVars
<1>9. QED
  BY <1>2, <1>3, <1>4, <1>7, <1>8

LEMMA AgentKeepsTheInvariant ==
  Typed /\ TerminalInvariant /\ AgentNext => TerminalInvariant'
<1> SUFFICES ASSUME Typed, TerminalInvariant, AgentNext PROVE TerminalInvariant'
  OBVIOUS
<1> PICK life \in Lifes : Lives(life) /\ Calls(life) /\ Index(life) /\ Listing(life)
  BY DEF TerminalInvariant
<1> SUFFICES \E later \in Lifes :
               Lives(later)' /\ Calls(later)' /\ Index(later)' /\ Listing(later)'
  BY DEF TerminalInvariant, Lifes
<1>1. CASE Connect \/ TakeSnapshot \/ SendReport \/ SendReply \/ RecordChanges \/ Disconnect
  <2>1. UNCHANGED <<sessions, version, indexVars>>
    BY <1>1 DEF Connect, TakeSnapshot, SendReport, SendReply, RecordChanges, Disconnect
  <2>2. QED
    BY <1>1, <2>1, AgentTalks, ListingStands
<1>2. ASSUME NEW x \in Shells, RefuseCreate(x) \/ RunCloseAgain(x)
      PROVE \E later \in Lifes :
              Lives(later)' /\ Calls(later)' /\ Index(later)' /\ Listing(later)'
  <2>1. UNCHANGED <<sessions, version, indexVars>>
    BY <1>2 DEF RefuseCreate, RunCloseAgain, Takes
  <2>2. QED
    BY <1>2, <2>1, AgentDeclines, ListingStands
<1>3. ASSUME NEW x \in Shells, RunCreate(x)
      PROVE \E later \in Lifes :
              Lives(later)' /\ Calls(later)' /\ Index(later)' /\ Listing(later)'
  BY <1>3, AgentCreates
<1>4. ASSUME NEW x \in Shells, RunClose(x)
      PROVE \E later \in Lifes :
              Lives(later)' /\ Calls(later)' /\ Index(later)' /\ Listing(later)'
  <2>1. /\ Takes("close", x) /\ x \in sessions /\ sessions' = sessions \ {x}
        /\ version' = version + 1
        /\ replies' = replies \cup {Answer("closed", x, version + 1)}
        /\ UNCHANGED indexVars
    BY <1>4 DEF RunClose, Change, Takes
  <2>2. Calls(life)' /\ x \in closed
    BY <2>1, TakenOnce
  <2>3. OnWay' \subseteq
          OnWay \cup {Answer("closed", y, version + 1) : y \in {x} \cap closed}
    BY <2>1, <2>2, AnswerOnWay
  <2>4. QED
    BY <2>1, <2>2, <2>3, ShellsEnd
<1>5. CASE AgentRestarts
  <2>1. /\ sessions' = sessions \ sessions /\ version' = version + 1
        /\ UNCHANGED <<create, asking, indexVars, up, answers>>
        /\ snapshot' = {} /\ replies' = {}
        /\ link \in Links /\ down' = [down EXCEPT ![link] = <<>>]
    BY <1>5 DEF AgentRestarts, AgentLeaves, callVars, Typed, ConnTyped
  <2>2. Calls(life)'
    BY <2>1, DroppedCalls DEF Calls, indexVars
  <2>3. OnWay' \subseteq OnWay
    BY <2>1 DEF OnWay
  <2>4. QED
    BY <2>1, <2>2, <2>3, ShellsEnd
<1>6. QED
  BY <1>1, <1>2, <1>3, <1>4, <1>5 DEF AgentNext, Execute

\* Sessions that come and go, and callers that leave, tell the index nothing.
LEMMA SessionsComeAndGo ==
  ASSUME Typed, NEW life \in Lifes, Lives(life), Calls(life), Index(life),
         \/ \E l \in Links : Register(l) \/ SessionEnds(l)
         \/ \E x \in Shells : CloserLeaves(x) \/ CreatorLeaves(x)
  PROVE  Lives(life)' /\ Calls(life)' /\ Index(life)'
<1>1. UNCHANGED <<sessions, version, indexVars>>
  BY DEF Register, SessionEnds, CloserLeaves, CreatorLeaves, agentVars
<1>2. \A x \in Shells : create[x] \notin {"none", "asked"} =>
                          create'[x] \notin {"none", "asked"}
  BY DEF Register, SessionEnds, CloserLeaves, CreatorLeaves, FailCalls, Typed, ServerTyped
<1>3. \A x \in Shells \ closed' : asking'[x] = 0
  <2>1. asking' = asking \/ \E x \in Shells : asking[x] > 0 /\
          asking' = [asking EXCEPT ![x] = @ - 1]
    BY DEF Register, SessionEnds, CloserLeaves, CreatorLeaves
  <2>2. QED
    BY <1>1, <2>1 DEF Calls, Typed, ServerTyped, indexVars
<1>4. down' = down \/ \E l \in Links : down' = [down EXCEPT ![l] = <<>>]
  BY DEF Register, SessionEnds, CloserLeaves, CreatorLeaves, connVars
<1>5. Calls(life)'
  BY <1>1, <1>2, <1>3, <1>4, DroppedCalls DEF indexVars
<1>6. OnWay' \subseteq OnWay
  <2>1. snapshot' \subseteq snapshot /\ replies' \subseteq replies /\ answers' \subseteq answers
    BY DEF Register, SessionEnds, CloserLeaves, CreatorLeaves, AgentLeaves, agentVars
  <2>2. up' = up \/ \E l \in Links : up' = [up EXCEPT ![l] = <<>>]
    BY DEF Register, SessionEnds, CloserLeaves, CreatorLeaves, connVars
  <2>3. CASE up' = up
    BY <2>1, <2>3 DEF OnWay
  <2>4. CASE \E l \in Links : up' = [up EXCEPT ![l] = <<>>]
    <3>1. answers' \subseteq OnWay
      BY <2>1 DEF OnWay
    <3>2. QED
      BY <2>1, <2>4, <3>1, LessOnWay
  <2>5. QED
    BY <2>2, <2>3, <2>4
<1>7. QED
  BY <1>1, <1>5, <1>6, LivesOn, IndexStands DEF indexVars

\* A report that is not older than what the index knows lists no closed session;
\* an older one is remembered in outrun.
LEMMA ReportHeard ==
  ASSUME Typed, NEW life \in Lifes, Lives(life), Index(life), UNCHANGED sessions,
         NEW f \in Frames, f.kind = "report", Tells(life, f), Report(f.shells, f.version)
  PROVE  Index(life)'
<1> DEFINE shells == f.shells
           at == f.version
           owed == pending \cap shells
<1>1. /\ shells \subseteq Shells /\ at \in Nat
      /\ \A x \in Shells : x \in shells <=> Present(life, x, at)
  BY FrameTypes DEF Tells
<1>2. /\ pending' = owed /\ closed' = closed
      /\ \A x \in Shells : entry'[x] = IF x \in shells \ owed THEN "live"
                                       ELSE IF entry[x] = "live" THEN "orphaned" ELSE entry[x]
      /\ \A x \in Shells : known'[x] = IF known[x] > at THEN known[x] ELSE at
      /\ outrun' = (outrun \/ \E x \in Shells : at < known[x])
  BY DEF Report, Listed, Later
<1>3. /\ \A x \in Shells : known[x] \in Nat /\ life.born[x] \in Nat /\ life.died[x] \in Nat
      /\ closed \subseteq Shells /\ pending \subseteq closed /\ closed \subseteq life.made
  BY DEF Typed, ServerTyped, Lifes, Index
<1> HIDE DEF shells, at, owed
<1>4. \A x \in Shells : entry'[x] # "none" => entry[x] # "none" \/ x \in shells
  BY <1>2
<1>5. pending' \subseteq closed' /\ closed' \subseteq life.made
  BY <1>2, <1>3 DEF owed
<1>6. \A x \in Shells : entry'[x] # "none" => x \in life.made
  BY <1>1, <1>4 DEF Index, Present
<1>7. \A x \in Shells : known[x] <= known'[x] /\ at <= known'[x]
  BY <1>1, <1>2, <1>3
<1>8. \A x \in Shells : entry'[x] # "none" \/ x \in closed' => life.born[x] <= known'[x]
  <2> SUFFICES ASSUME NEW x \in Shells, entry'[x] # "none" \/ x \in closed
               PROVE life.born[x] <= known'[x]
    BY <1>2
  <2>1. known'[x] \in Nat
    BY <1>1, <1>2, <1>3
  <2>2. CASE entry[x] # "none" \/ x \in closed
    BY <1>3, <1>7, <2>1, <2>2 DEF Index
  <2>3. CASE x \in shells
    BY <1>1, <1>3, <1>7, <2>1, <2>3 DEF Present
  <2>4. QED
    BY <1>4, <2>2, <2>3
<1>9. ASSUME ~outrun', NEW x \in closed
      PROVE /\ entry'[x] = "none"
            /\ x \notin pending' => x \notin sessions /\ life.died[x] <= known'[x]
  <2>1. ~outrun /\ known[x] <= at /\ x \in Shells
    <3>1. x \in Shells /\ known[x] \in Nat /\ at \in Nat
      BY <1>1, <1>3
    <3>2. ~outrun /\ ~(at < known[x])
      BY <1>2, <1>9, <3>1, Zenon
    <3>3. QED
      BY <3>1, <3>2
  <2>2. entry[x] = "none" /\ life.born[x] <= at
    BY <1>1, <1>3, <2>1 DEF Index
  <2>3. CASE x \in pending
    <3>1. CASE x \in shells
      BY <1>2, <2>1, <2>2, <2>3, <3>1 DEF owed
    <3>2. CASE x \notin shells
      <4>1. x \notin sessions /\ life.died[x] <= at
        BY <1>1, <1>3, <2>1, <2>2, <3>2 DEF Present
      <4>2. life.died[x] <= known'[x]
        BY <1>1, <1>2, <1>3, <1>7, <2>1, <4>1
      <4>3. QED
        BY <1>2, <2>1, <2>2, <3>2, <4>1, <4>2
    <3>3. QED
      BY <3>1, <3>2
  <2>4. CASE x \notin pending
    <3>1. x \notin sessions /\ life.died[x] <= known[x]
      BY <2>1, <2>4 DEF Index
    <3>2. x \notin shells
      BY <1>1, <1>3, <2>1, <3>1 DEF Present
    <3>3. life.died[x] <= known'[x]
      BY <1>1, <1>2, <1>3, <2>1, <3>1
    <3>4. QED
      BY <1>2, <2>1, <2>2, <3>1, <3>2, <3>3
  <2>5. QED
    BY <2>3, <2>4
<1>10. QED
  BY <1>2, <1>5, <1>6, <1>8, <1>9 DEF Index

\* After a report that is not older than what the index knows, it lists as alive
\* what was there at the report's version, less the closes it owes.
LEMMA ReportListed ==
  ASSUME Typed, NEW life \in Lifes, Listing(life), UNCHANGED <<sessions, version>>,
         NEW f \in Frames, f.kind = "report", Tells(life, f), Report(f.shells, f.version)
  PROVE  Listing(life)'
<1> DEFINE shells == f.shells
           at == f.version
           owed == pending \cap shells
<1>1. /\ shells \subseteq Shells /\ at \in Nat /\ at <= version /\ version \in Nat
      /\ \A x \in Shells : x \in shells <=> Present(life, x, at)
      /\ \A x \in Shells : known[x] \in Nat /\ known[x] <= version
  BY FrameTypes DEF Tells, Listing, Typed, AgentTyped, ServerTyped
<1>2. /\ pending' = owed
      /\ \A x \in Shells : entry'[x] = IF x \in shells \ owed THEN "live"
                                       ELSE IF entry[x] = "live" THEN "orphaned" ELSE entry[x]
      /\ \A x \in Shells : known'[x] = IF known[x] > at THEN known[x] ELSE at
      /\ outrun' = (outrun \/ \E x \in Shells : at < known[x])
  BY DEF Report, Listed, Later
<1> HIDE DEF shells, at, owed
<1>3. \A x \in Shells : known'[x] <= version'
  BY <1>1, <1>2
<1>4. ASSUME ~outrun', NEW x \in Shells
      PROVE entry'[x] = "live" <=> Present(life, x, known[x])' /\ x \notin pending'
  <2>1. ~(at < known[x])
    BY <1>2, <1>4, Zenon
  <2>2. known'[x] = at
    BY <1>1, <1>2, <2>1
  <2>3. Present(life, x, known[x])' <=> x \in shells
    BY <1>1, <2>2 DEF Present
  <2>4. entry'[x] = "live" <=> x \in shells \ owed
    BY <1>2
  <2>5. QED
    BY <1>2, <2>3, <2>4 DEF owed
<1>5. QED
  BY <1>3, <1>4 DEF Listing

LEMMA FramesAreListed ==
  ASSUME Typed, NEW life \in Lifes, Lives(life), Listing(life),
         NEW l \in Links, ReadFrame(l)
  PROVE  Listing(life)'
<1>1. UNCHANGED <<sessions, version>> /\ up[l] # <<>>
  BY DEF ReadFrame, agentVars
<1> PICK f : f = Head(up[l])
  OBVIOUS
<1>2. f \in Frames /\ Tells(life, f)
  BY <1>1, HeadOnWay DEF Lives
<1>3. \/ f.kind = "report" /\ Report(f.shells, f.version)
      \/ UNCHANGED indexVars
  BY DEF ReadFrame
<1>4. QED
  BY <1>1, <1>2, <1>3, ReportListed, ListingStands

\* A router's answer joins the answers on the way: it was on the connection.
LEMMA FramesAreRead ==
  ASSUME Typed, NEW life \in Lifes, Lives(life), Calls(life), Index(life),
         NEW l \in Links, ReadFrame(l)
  PROVE  Lives(life)' /\ Calls(life)' /\ Index(life)'
<1> PICK f : f = Head(up[l])
  OBVIOUS
<1>1. f \in Frames /\ f \in OnWay /\ Tells(life, f)
  BY HeadOnWay DEF ReadFrame, Lives
<1>2. /\ UNCHANGED <<sessions, version, snapshot, replies, down>>
      /\ up[l] # <<>> /\ up' = [up EXCEPT ![l] = Tail(@)]
  BY DEF ReadFrame, agentVars
<1>3. answers' \subseteq answers \cup {f} /\ closed' = closed
  BY DEF ReadFrame, callVars, Report, indexVars
<1>4. Lives(life)'
  <2>1. answers' \subseteq OnWay
    BY <1>1, <1>3 DEF OnWay
  <2>2. OnWay' \subseteq OnWay
    BY <1>2, <2>1, LessOnWay
  <2>3. QED
    BY <1>2, <1>3, <2>2, LivesOn
<1>5. CASE f.kind = "report" /\ Report(f.shells, f.version) /\ UNCHANGED create
  <2>1. Index(life)'
    BY <1>1, <1>2, <1>5, ReportHeard
  <2>2. pending \subseteq closed
    BY DEF Index
  <2>3. asking' = CallsFor(pending \cap f.shells)
    BY <1>5 DEF Report
  <2>4. \A x \in Shells \ closed' : asking'[x] = 0
    BY <1>3, <2>2, <2>3 DEF CallsFor, Calls
  <2>5. Calls(life)'
    BY <1>2, <1>3, <1>5, <2>4, DroppedCalls
  <2>6. QED
    BY <1>4, <2>1, <2>5
<1>6. CASE /\ UNCHANGED <<asking, left, indexVars>>
           /\ create' = create \/ create' = [create EXCEPT ![f.shell] = "over"]
  <2>1. Index(life)'
    BY <1>2, <1>6, IndexStands
  <2>2. \A x \in Shells : create[x] \notin {"none", "asked"} =>
                            create'[x] \notin {"none", "asked"}
    BY <1>6 DEF Typed, ServerTyped
  <2>3. \A x \in Shells \ closed' : asking'[x] = 0
    BY <1>3, <1>6 DEF Calls
  <2>4. Calls(life)'
    BY <1>2, <1>3, <2>2, <2>3, DroppedCalls
  <2>5. QED
    BY <1>4, <2>1, <2>4
<1>7. QED
  BY <1>5, <1>6 DEF ReadFrame, callVars

\* A command joins the queue of the registered connection, or goes nowhere.
LEMMA SentCalls ==
  ASSUME Typed, NEW life \in Lifes, Calls(life), NEW x \in Shells,
         NEW kind \in {"create", "close"},
         kind = "close" => x \in closed,
         kind = "create" =>
           /\ x \notin life.made
           /\ \A l \in Links : \A i \in DOMAIN down[l] : ~IsAt(l, i, "create", x)
           /\ create'[x] \notin {"none", "asked"},
         \/ down' = down
         \/ /\ registered \in Links
            /\ down' = [down EXCEPT ![registered] =
                          Append(@, [kind |-> kind, shell |-> x])],
         \A y \in Shells : create[y] \notin {"none", "asked"} =>
                             create'[y] \notin {"none", "asked"},
         closed' = closed, \A y \in Shells \ closed : asking'[y] = 0
  PROVE  Calls(life)'
<1>1. CASE down' = down
  BY <1>1, DroppedCalls
<1>2. CASE down' # down
  <2> PICK c : c = [kind |-> kind, shell |-> x]
    OBVIOUS
  <2>1. /\ registered \in Links /\ down[registered] \in Seq(Commands) /\ c \in Commands
        /\ down' = [down EXCEPT ![registered] = Append(@, c)]
    BY <1>2 DEF Typed, ConnTyped, Commands
  <2> DEFINE last == Len(down[registered]) + 1
  <2>2. ASSUME NEW l \in Links, NEW i \in DOMAIN down'[l]
        PROVE \/ i \in DOMAIN down[l] /\ down'[l][i] = down[l][i]
              \/ l = registered /\ i = last /\ down'[l][i] = c
    <3>1. CASE l = registered
      <4>1. down'[l] = Append(down[registered], c)
        BY <2>1, <3>1 DEF Typed, ConnTyped
      <4>2. QED
        BY <2>1, <2>2, <3>1, <4>1
    <3>2. CASE l # registered
      BY <2>1, <2>2, <3>2 DEF Typed, ConnTyped
    <3>3. QED
      BY <3>1, <3>2
  <2> HIDE DEF last
  <2>3. ASSUME NEW y \in Shells, NEW k, NEW l \in Links, NEW i \in DOMAIN down'[l],
               IsAt(l, i, k, y)'
        PROVE \/ i \in DOMAIN down[l] /\ IsAt(l, i, k, y)
              \/ l = registered /\ i = last /\ k = kind /\ y = x
    BY <2>2, <2>3 DEF IsAt
  <2>4. \A y \in life.made : create'[y] \notin {"none", "asked"}
    BY DEF Calls, Lifes
  <2>5. ASSUME NEW y \in Shells, NEW l \in Links, NEW i \in DOMAIN down'[l]
        PROVE /\ IsAt(l, i, "close", y)' => y \in closed
              /\ IsAt(l, i, "create", y)' =>
                   y \notin life.made /\ create'[y] \notin {"none", "asked"}
    BY <2>3, <2>5 DEF Calls
  <2>6. ASSUME NEW y \in Shells, NEW l \in Links, NEW i \in DOMAIN down'[l],
               NEW k \in Links, NEW j \in DOMAIN down'[k],
               IsAt(l, i, "create", y)', IsAt(k, j, "create", y)'
        PROVE l = k /\ i = j
    BY <2>3, <2>6 DEF Calls
  <2>7. QED
    BY <2>4, <2>5, <2>6 DEF Calls
<1>3. QED
  BY <1>1, <1>2

LEMMA CallsAreMade ==
  ASSUME Typed, NEW life \in Lifes, Lives(life), Calls(life), Index(life),
         NEW x \in Shells, RouteCreate(x) \/ RouteClose(x) \/ AskCreate(x)
  PROVE  Lives(life)' /\ Calls(life)' /\ Index(life)'
<1>1. UNCHANGED <<sessions, version, snapshot, replies, answers, up, indexVars>>
  BY DEF RouteCreate, RouteClose, AskCreate, agentVars, connVars
<1>2. OnWay' \subseteq OnWay
  BY <1>1 DEF OnWay
<1>3. registered # 0 => registered \in Links
  BY DEF Typed, ConnTyped
<1>4. CASE RouteCreate(x)
  <2>1. /\ create[x] = "asked" /\ create'[x] \notin {"none", "asked"} /\ asking' = asking
        /\ \A y \in Shells : create[y] \notin {"none", "asked"} =>
                               create'[y] \notin {"none", "asked"}
    BY <1>4 DEF RouteCreate, Typed, ServerTyped
  <2>2. /\ x \notin life.made
        /\ \A l \in Links : \A i \in DOMAIN down[l] : ~IsAt(l, i, "create", x)
    BY <2>1 DEF Calls
  <2>3. \/ down' = down
        \/ /\ registered \in Links
           /\ down' = [down EXCEPT ![registered] =
                         Append(@, [kind |-> "create", shell |-> x])]
    BY <1>3, <1>4 DEF RouteCreate
  <2>4. \A y \in Shells \ closed : asking'[y] = 0
    BY <2>1 DEF Calls
  <2>5. Calls(life)'
    BY <1>1, <2>1, <2>2, <2>3, <2>4, SentCalls DEF indexVars
  <2>6. QED
    BY <1>1, <1>2, <2>5, LivesOn, IndexStands DEF indexVars
<1>5. CASE RouteClose(x)
  <2>1. asking[x] > 0 /\ asking' = [asking EXCEPT ![x] = @ - 1] /\ create' = create
    BY <1>5 DEF RouteClose
  <2>2. x \in closed
    BY <2>1 DEF Calls
  <2>3. \/ down' = down
        \/ /\ registered \in Links
           /\ down' = [down EXCEPT ![registered] =
                         Append(@, [kind |-> "close", shell |-> x])]
    BY <1>3, <1>5 DEF RouteClose
  <2>4. \A y \in Shells \ closed : asking'[y] = 0
    BY <2>1, <2>2 DEF Calls, Typed, ServerTyped
  <2>5. Calls(life)'
    BY <1>1, <2>1, <2>2, <2>3, <2>4, SentCalls DEF indexVars
  <2>6. QED
    BY <1>1, <1>2, <2>5, LivesOn, IndexStands DEF indexVars
<1>6. CASE AskCreate(x)
  <2>1. /\ create[x] = "none" /\ create' = [create EXCEPT ![x] = "asked"]
        /\ down' = down /\ asking' = asking
    BY <1>6 DEF AskCreate, connVars
  <2>2. \A y \in Shells : create[y] \notin {"none", "asked"} =>
                            create'[y] \notin {"none", "asked"}
    BY <2>1 DEF Typed, ServerTyped
  <2>3. closed' = closed /\ \A y \in Shells \ closed : asking'[y] = 0
    BY <1>1, <2>1 DEF Calls, indexVars
  <2>4. QED
    BY <1>1, <1>2, <2>1, <2>2, <2>3, DroppedCalls, LivesOn, IndexStands
<1>7. QED
  BY <1>4, <1>5, <1>6

\* What the HTTP tasks make of an answer: a created session is listed unless it
\* was closed already, which outrun remembers; a close that was answered is no
\* longer owed, since the shell is gone.
LEMMA AnswersAreHeard ==
  ASSUME Typed, NEW life \in Lifes, Lives(life), Calls(life), Index(life),
         NEW x \in Shells, ListCreated(x) \/ ForgetClose(x)
  PROVE  Lives(life)' /\ Calls(life)' /\ Index(life)'
<1>1. PICK f \in answers :
        /\ f.shell = x
        /\ \/ f.kind = "created" /\ ListCreated(x)
           \/ f.kind = "closed" /\ ForgetClose(x)
        /\ answers' = answers \ {f}
        /\ known' = [known EXCEPT ![x] = Later(@, f.version)]
        /\ ListCreated(x) /\ f.kind = "created" /\ entry[x] = "none" =>
             outrun' = (outrun \/ f.version < known[x] \/ x \in closed)
  <2>1. CASE ListCreated(x)
    BY <2>1 DEF ListCreated
  <2>2. CASE ForgetClose(x)
    <3>1. PICK f \in answers :
            /\ f.shell = x /\ f.kind = "closed" /\ answers' = answers \ {f}
            /\ known' = [known EXCEPT ![x] = Later(@, f.version)]
      BY <2>2 DEF ForgetClose
    <3>2. QED
      BY <2>2, <3>1
  <2>3. QED
    BY <2>1, <2>2
<1>2. /\ UNCHANGED <<sessions, version, snapshot, replies, up, down, create, asking, closed>>
  BY DEF ListCreated, ForgetClose, agentVars, connVars
<1>3. f \in OnWay /\ Tells(life, f) /\ f \in Frames
  BY <1>1 DEF OnWay, Lives, Typed, ServerTyped
<1>4. Lives(life)'
  <2>1. OnWay' \subseteq OnWay
    BY <1>1, <1>2 DEF OnWay
  <2>2. QED
    BY <1>2, <2>1, LivesOn
<1>5. Calls(life)'
  <2>1. \A y \in Shells \ closed' : asking'[y] = 0
    BY <1>2 DEF Calls
  <2>2. QED
    BY <1>2, <2>1, DroppedCalls
<1>6. /\ f.version \in Nat
      /\ \A y \in Shells : known[y] \in Nat /\ life.born[y] \in Nat /\ life.died[y] \in Nat
      /\ closed \subseteq Shells
  BY <1>3, FrameTypes DEF Typed, ServerTyped, Lifes
<1>7. \A y \in Shells : /\ known'[y] \in Nat /\ known[y] <= known'[y]
                        /\ y = x => f.version <= known'[y]
  <2>1. \A y \in Shells : known'[y] = IF y = x THEN Later(known[x], f.version) ELSE known[y]
    BY <1>1 DEF Typed, ServerTyped
  <2>2. QED
    BY <1>6, <2>1 DEF Later
<1>8. CASE f.kind = "created" /\ ListCreated(x)
  <2>1. x \in life.made /\ life.born[x] <= f.version
    BY <1>1, <1>3, <1>6, <1>8 DEF Tells, Present
  <2>2. /\ pending' = pending
        /\ \A y \in Shells : entry'[y] = IF y = x /\ entry[y] = "none" THEN "live" ELSE entry[y]
    BY <1>8 DEF ListCreated, Typed, ServerTyped
  <2>3. \A y \in Shells : entry'[y] # "none" => y \in life.made
    BY <2>1, <2>2 DEF Index
  <2>4. ASSUME NEW y \in Shells, entry'[y] # "none" \/ y \in closed
        PROVE life.born[y] <= known'[y]
    <3>1. CASE entry[y] # "none" \/ y \in closed
      BY <1>6, <1>7, <3>1 DEF Index
    <3>2. CASE y = x
      BY <1>6, <1>7, <2>1, <3>2
    <3>3. QED
      BY <2>2, <2>4, <3>1, <3>2
  <2>5. ASSUME ~outrun', NEW y \in closed
        PROVE /\ entry'[y] = "none"
              /\ y \notin pending => y \notin sessions /\ life.died[y] <= known'[y]
    <3>1. ~outrun
      BY <1>1, <1>8, <2>5 DEF ListCreated
    <3>2. /\ entry[y] = "none"
          /\ y \notin pending => y \notin sessions /\ life.died[y] <= known[y]
      BY <2>5, <3>1 DEF Index
    <3>3. y # x
      BY <1>1, <1>8, <2>5, <3>2
    <3>4. QED
      BY <1>6, <1>7, <2>2, <3>2, <3>3
  <2>6. QED
    BY <1>2, <1>4, <1>5, <2>2, <2>3, <2>4, <2>5 DEF Index
<1>9. CASE f.kind = "closed" /\ ForgetClose(x)
  <2>1. x \notin sessions /\ life.died[x] <= f.version
    BY <1>1, <1>3, <1>9 DEF Tells
  <2>2. pending' = pending \ {x} /\ UNCHANGED <<entry, outrun>>
    BY <1>9 DEF ForgetClose
  <2>3. ASSUME NEW y \in Shells, entry[y] # "none" \/ y \in closed
        PROVE life.born[y] <= known'[y]
    BY <1>6, <1>7, <2>3 DEF Index
  <2>4. ASSUME ~outrun, NEW y \in closed
        PROVE /\ entry[y] = "none"
              /\ y \notin pending' => y \notin sessions /\ life.died[y] <= known'[y]
    <3>1. CASE y = x
      BY <1>6, <1>7, <2>1, <2>4, <3>1 DEF Index
    <3>2. CASE y # x
      BY <1>6, <1>7, <2>2, <2>4, <3>2 DEF Index
    <3>3. QED
      BY <3>1, <3>2
  <2>5. QED
    BY <1>2, <1>4, <1>5, <2>2, <2>3, <2>4 DEF Index
<1>10. QED
  BY <1>1, <1>8, <1>9

\* A create that is listed was there at its answer's version, which the index has
\* heard of from then on; a close's answer is about a session that is not listed
\* and a shell that is gone.
LEMMA AnswersAreListed ==
  ASSUME Typed, NEW life \in Lifes, Lives(life), Index(life), Listing(life),
         NEW x \in Shells, ListCreated(x) \/ ForgetClose(x)
  PROVE  Listing(life)'
<1>1. UNCHANGED <<sessions, version, closed>>
  BY DEF ListCreated, ForgetClose, agentVars
<1>2. /\ version \in Nat /\ \A y \in Shells : known[y] \in Nat /\ known[y] <= version
      /\ \A y \in Shells : life.born[y] \in Nat /\ life.died[y] \in Nat
      /\ pending \subseteq closed /\ closed \subseteq Shells
  BY DEF Typed, AgentTyped, ServerTyped, Listing, Lifes, Index
<1>3. CASE ListCreated(x)
  <2>1. PICK f \in answers :
          /\ f.kind = "created" /\ f.shell = x
          /\ known' = [known EXCEPT ![x] = Later(@, f.version)]
          /\ IF entry[x] = "none"
             THEN /\ entry' = [entry EXCEPT ![x] = "live"]
                  /\ outrun' = (outrun \/ f.version < known[x] \/ x \in closed)
             ELSE UNCHANGED <<entry, outrun>>
          /\ UNCHANGED pending
    BY <1>3 DEF ListCreated
  <2>2. /\ f.version \in Nat /\ f.version <= version
        /\ life.born[x] = f.version /\ Present(life, x, f.version)
    BY <2>1, FrameTypes DEF Lives, Tells, OnWay, Typed, ServerTyped
  <2>3. \A y \in Shells : known'[y] = IF y = x THEN Later(known[x], f.version) ELSE known[y]
    BY <2>1 DEF Typed, ServerTyped
  <2>4. CASE entry[x] = "none"
    <3>1. outrun' = (outrun \/ f.version < known[x] \/ x \in closed)
      BY <2>1, <2>4
    <3>2. \A y \in Shells : entry'[y] = IF y = x THEN "live" ELSE entry[y]
      BY <2>1, <2>4 DEF Typed, ServerTyped
    <3>3. \A y \in Shells : known'[y] <= version'
      BY <1>1, <1>2, <2>2, <2>3 DEF Later
    <3>4. ASSUME ~outrun', NEW y \in Shells
          PROVE entry'[y] = "live" <=> Present(life, y, known[y])' /\ y \notin pending'
      <4>1. ~outrun /\ ~(f.version < known[x]) /\ x \notin closed
        BY <3>1, <3>4
      <4>2. CASE y = x
        <5>1. known'[x] = f.version
          BY <1>2, <2>2, <2>3, <4>1 DEF Later
        <5>2. Present(life, x, known[x])'
          BY <1>1, <2>2, <5>1 DEF Present
        <5>3. QED
          BY <1>2, <2>1, <3>2, <4>1, <4>2, <5>2
      <4>3. CASE y # x
        BY <1>1, <2>1, <2>3, <3>2, <4>1, <4>3 DEF Listing, Present
      <4>4. QED
        BY <4>2, <4>3
    <3>5. QED
      BY <3>3, <3>4 DEF Listing
  <2>5. CASE entry[x] # "none"
    <3>1. f.version <= known[x]
      BY <2>2, <2>5 DEF Index
    <3>2. Later(known[x], f.version) = known[x]
      BY <1>2, <2>2, <3>1 DEF Later
    <3>3. \A y \in Shells : known'[y] = known[y]
      BY <2>3, <3>2
    <3>4. UNCHANGED <<entry, outrun, pending>>
      BY <2>1, <2>5
    <3>5. QED
      BY <1>1, <3>3, <3>4 DEF Listing, Present
  <2>6. QED
    BY <2>4, <2>5
<1>4. CASE ForgetClose(x)
  <2>1. PICK f \in answers :
          /\ f.kind = "closed" /\ f.shell = x
          /\ known' = [known EXCEPT ![x] = Later(@, f.version)]
    BY <1>4 DEF ForgetClose
  <2>2. UNCHANGED <<entry, outrun>> /\ pending' = pending \ {x}
    BY <1>4 DEF ForgetClose
  <2>3. /\ f.version \in Nat /\ f.version <= version
        /\ x \notin sessions /\ life.died[x] <= f.version /\ x \in closed
    BY <2>1, FrameTypes DEF Lives, Tells, OnWay, Typed, ServerTyped
  <2>4. \A y \in Shells : known'[y] = IF y = x THEN Later(known[x], f.version) ELSE known[y]
    BY <2>1 DEF Typed, ServerTyped
  <2>5. \A y \in Shells : known'[y] <= version'
    BY <1>1, <1>2, <2>3, <2>4 DEF Later
  <2>6. ASSUME ~outrun', NEW y \in Shells
        PROVE entry'[y] = "live" <=> Present(life, y, known[y])' /\ y \notin pending'
    <3>1. ~outrun
      BY <2>2, <2>6
    <3>2. CASE y = x
      <4>1. entry'[x] # "live"
        BY <2>2, <2>3, <3>1 DEF Index
      <4>2. known'[x] \in Nat /\ life.died[x] <= known'[x]
        BY <1>2, <2>3, <2>4 DEF Later
      <4>3. ~Present(life, x, known[x])'
        BY <1>1, <1>2, <2>3, <4>2 DEF Present
      <4>4. QED
        BY <3>2, <4>1, <4>3
    <3>3. CASE y # x
      BY <1>1, <2>2, <2>4, <3>1, <3>3 DEF Listing, Present
    <3>4. QED
      BY <3>2, <3>3
  <2>7. QED
    BY <2>5, <2>6 DEF Listing
<1>5. QED
  BY <1>3, <1>4

\* A session that is closed is not listed and its close is owed; a server that
\* restarts knows of no version at which there was a shell.
LEMMA ClosesAreListed ==
  ASSUME Typed, NEW life \in Lifes, Lives(life), Listing(life),
         ServerRestarts \/ \E x \in Shells : Close(x)
  PROVE  Listing(life)'
<1>1. ASSUME NEW x \in Shells, Close(x) PROVE Listing(life)'
  <2>1. /\ UNCHANGED <<sessions, version, known, outrun>>
        /\ entry' = [entry EXCEPT ![x] = "none"] /\ pending' = pending \cup {x}
    BY <1>1 DEF Close, agentVars
  <2>2. \A y \in Shells : entry'[y] = IF y = x THEN "none" ELSE entry[y]
    BY <2>1 DEF Typed, ServerTyped
  <2>3. QED
    BY <2>1, <2>2 DEF Listing, Present
<1>2. CASE ServerRestarts
  <2>1. /\ version' = version /\ version \in Nat
        /\ \A x \in Shells : known'[x] = 0 /\ entry'[x] = "none"
    BY <1>2 DEF ServerRestarts, Typed, AgentTyped
  <2>2. ASSUME NEW x \in Shells PROVE ~Present(life, x, known[x])'
    <3>1. x \in life.made => life.born[x] \in Nat /\ life.born[x] >= 1
      BY DEF Lives, Lifes
    <3>2. QED
      BY <2>1, <3>1 DEF Present
  <2>3. QED
    BY <2>1, <2>2 DEF Listing
<1>3. QED
  BY <1>1, <1>2

\* Only a listed session is closed, and its close is owed from then on.
LEMMA ClosesAreOwed ==
  ASSUME Typed, NEW life \in Lifes, Lives(life), Calls(life), Index(life),
         NEW x \in Shells, Close(x)
  PROVE  Lives(life)' /\ Calls(life)' /\ Index(life)'
<1>1. /\ UNCHANGED <<sessions, version, snapshot, replies, answers, up, down, create>>
      /\ UNCHANGED <<known, outrun>>
      /\ entry[x] # "none" /\ entry' = [entry EXCEPT ![x] = "none"]
      /\ pending' = pending \cup {x} /\ closed' = closed \cup {x}
      /\ asking' = [asking EXCEPT ![x] = @ + 1]
  BY DEF Close, agentVars, connVars
<1>2. x \in life.made
  BY <1>1 DEF Index
<1>3. Lives(life)'
  <2>1. OnWay' \subseteq OnWay
    BY <1>1 DEF OnWay
  <2>2. QED
    BY <1>1, <2>1, LivesOn
<1>4. Calls(life)'
  <2>1. closed \subseteq closed' /\ \A y \in Shells \ closed' : asking'[y] = 0
    BY <1>1 DEF Calls, Typed, ServerTyped
  <2>2. QED
    BY <1>1, <2>1, DroppedCalls
<1>5. Index(life)'
  <2>1. \A y \in Shells : entry'[y] = IF y = x THEN "none" ELSE entry[y]
    BY <1>1 DEF Typed, ServerTyped
  <2>2. closed \subseteq Shells
    BY DEF Typed, ServerTyped
  <2>3. QED
    BY <1>1, <1>2, <2>1, <2>2 DEF Index
<1>6. QED
  BY <1>3, <1>4, <1>5

LEMMA ServerForgets ==
  ASSUME Typed, NEW life \in Lifes, Lives(life), Calls(life), Index(life), ServerRestarts
  PROVE  Lives(life)' /\ Calls(life)' /\ Index(life)'
<1>1. /\ UNCHANGED <<sessions, version>> /\ snapshot' = {} /\ replies' = {} /\ answers' = {}
      /\ up' = [l \in Links |-> <<>>] /\ down' = [l \in Links |-> <<>>]
  BY DEF ServerRestarts, AgentLeaves
<1>2. OnWay' = {}
  BY <1>1 DEF OnWay
<1>3. Calls(life)'
  <2>1. \A x \in life.made : create'[x] \notin {"none", "asked"}
    BY DEF ServerRestarts, Calls, Lifes
  <2>2. \A x \in Shells : asking'[x] = 0
    BY DEF ServerRestarts
  <2>3. QED
    BY <1>1, <2>1, <2>2 DEF Calls
<1>4. Index(life)'
  BY DEF ServerRestarts, Index
<1>5. QED
  BY <1>1, <1>2, <1>3, <1>4, LivesOn

LEMMA ServerKeepsTheInvariant ==
  Typed /\ TerminalInvariant /\ ServerNext => TerminalInvariant'
<1> SUFFICES ASSUME Typed, TerminalInvariant, ServerNext PROVE TerminalInvariant'
  OBVIOUS
<1> PICK life \in Lifes : Lives(life) /\ Calls(life) /\ Index(life) /\ Listing(life)
  BY DEF TerminalInvariant
<1> DEFINE Kept == Lives(life)' /\ Calls(life)' /\ Index(life)' /\ Listing(life)'
<1> SUFFICES Kept
  BY DEF TerminalInvariant, Lifes
<1>1. CASE \/ \E l \in Links : Register(l) \/ SessionEnds(l)
           \/ \E x \in Shells : CloserLeaves(x) \/ CreatorLeaves(x)
  <2>1. UNCHANGED <<sessions, version, indexVars>>
    BY <1>1 DEF Register, SessionEnds, CloserLeaves, CreatorLeaves, agentVars
  <2>2. QED
    BY <1>1, <2>1, SessionsComeAndGo, ListingStands
<1>2. ASSUME NEW l \in Links, ReadFrame(l) PROVE Kept
  BY <1>2, FramesAreRead, FramesAreListed
<1>3. ASSUME NEW x \in Shells, RouteCreate(x) \/ RouteClose(x) \/ AskCreate(x) PROVE Kept
  <2>1. UNCHANGED <<sessions, version, indexVars>>
    BY <1>3 DEF RouteCreate, RouteClose, AskCreate, agentVars
  <2>2. QED
    BY <1>3, <2>1, CallsAreMade, ListingStands
<1>4. ASSUME NEW x \in Shells, ListCreated(x) \/ ForgetClose(x) PROVE Kept
  BY <1>4, AnswersAreHeard, AnswersAreListed
<1>5. ASSUME NEW x \in Shells, Close(x) PROVE Kept
  BY <1>5, ClosesAreOwed, ClosesAreListed
<1>6. CASE ServerRestarts
  BY <1>6, ServerForgets, ClosesAreListed
<1>7. QED
  BY <1>1, <1>2, <1>3, <1>4, <1>5, <1>6 DEF ServerNext

LEMMA TerminalsStart == TermInit => TerminalInvariant
<1> SUFFICES ASSUME TermInit PROVE TerminalInvariant
  OBVIOUS
<1> PICK life : life = [made |-> {}, born |-> [x \in Shells |-> 0], died |-> [x \in Shells |-> 0]]
  OBVIOUS
<1>1. life \in Lifes /\ life.made = {}
      /\ \A x \in Shells : life.born[x] = 0 /\ life.died[x] = 0
  BY DEF Lifes
<1>2. OnWay = {}
  BY DEF TermInit, OnWay
<1>3. Lives(life)
  BY <1>1, <1>2 DEF Lives, TermInit
<1>4. Calls(life)
  BY <1>1 DEF Calls, TermInit
<1>5. Index(life)
  BY <1>1 DEF Index, TermInit
<1>6. Listing(life)
  BY <1>1 DEF Listing, TermInit, Present
<1>7. QED
  BY <1>1, <1>3, <1>4, <1>5, <1>6 DEF TerminalInvariant

LEMMA InvariantStands == TerminalInvariant /\ UNCHANGED vars => TerminalInvariant'
<1> SUFFICES ASSUME TerminalInvariant, UNCHANGED vars PROVE TerminalInvariant'
  OBVIOUS
<1>1. /\ UNCHANGED <<sessions, version, snapshot, replies, answers, up, down, create,
                     asking, indexVars>>
      /\ closed' = closed
  BY DEF vars, agentVars, connVars, callVars, indexVars
<1>2. OnWay' = OnWay
  BY <1>1 DEF OnWay
<1>3. PICK life \in Lifes : Lives(life) /\ Calls(life) /\ Index(life) /\ Listing(life)
  BY DEF TerminalInvariant
<1>4. Lives(life)'
  BY <1>1, <1>2, <1>3, LivesOn
<1>5. Calls(life)' /\ Index(life)'
  BY <1>1, <1>3, IndexStands DEF Calls, IsAt
<1>6. Listing(life)'
  BY <1>1, <1>3, ListingStands
<1>7. QED
  BY <1>4, <1>5, <1>6 DEF TerminalInvariant, Lifes

LEMMA TerminalInvariantHolds == TermSpec => [](Typed /\ TerminalInvariant)
<1>1. Typed /\ TerminalInvariant /\ [TermNext]_vars => TerminalInvariant'
  BY InvariantStands, AgentKeepsTheInvariant, ServerKeepsTheInvariant DEF TermNext
<1>2. TerminalTypeOK <=> Typed
  BY TypesTogether DEF Typed
<1>3. QED
  BY <1>1, <1>2, TerminalsStart, TerminalTypesHold, PTL DEF TermSpec

\* No report, no answer and no connection brings a closed session back to the
\* list, unless older news overtook newer: whatever the number of sessions and of
\* connections that overlap, and however often either side restarts.
THEOREM ClosedAlwaysStaysClosed == TermSpec => []ClosedStaysClosed
<1>1. Typed /\ TerminalInvariant => ClosedStaysClosed
  BY DEF TerminalInvariant, Index, ClosedStaysClosed
<1>2. QED
  BY <1>1, TerminalInvariantHolds, PTL

-----------------------------------------------------------------------------
(* The list agrees with the agent *)

\* On its way to the index: a report that is not older than the agent's list.
Coming ==
  \/ changed
  \/ \E r \in snapshot : r.kind = "report" /\ r.version = version
  \/ \E i \in DOMAIN up[link] : up[link][i].kind = "report" /\ up[link][i].version = version

\* While the agent is connected, the index has heard of its list or will.  The
\* reporter takes one snapshot at a time.
ReportComing ==
  /\ \A r, q \in snapshot : r = q
  /\ link # 0 => Coming \/ \A x \in Shells : version <= known[x]

\* A step that takes nothing from the agent's connection and lets the index
\* forget nothing.
LEMMA StillComing ==
  ASSUME Typed, ReportComing,
         \/ link' = 0 /\ snapshot' = {}
         \/ /\ UNCHANGED <<link, version, changed, snapshot>>
            /\ link # 0 => up'[link] = up[link],
         \A x \in Shells : known[x] \in Nat /\ known'[x] \in Nat /\ known[x] <= known'[x]
  PROVE  ReportComing'
<1>1. CASE link' = 0 /\ snapshot' = {}
  BY <1>1 DEF ReportComing
<1>2. CASE UNCHANGED <<link, version, changed, snapshot>> /\ link # 0
  <2>1. up'[link] = up[link]
    BY <1>2
  <2>2. CASE Coming
    BY <1>2, <2>1, <2>2 DEF ReportComing, Coming
  <2>3. CASE \A x \in Shells : version <= known[x]
    BY <1>2, <2>3 DEF ReportComing, Typed, AgentTyped
  <2>4. QED
    BY <1>2, <2>2, <2>3 DEF ReportComing
<1>3. CASE UNCHANGED <<link, version, changed, snapshot>> /\ link = 0
  BY <1>3 DEF ReportComing
<1>4. QED
  BY <1>1, <1>2, <1>3

LEMMA AgentKeepsReporting == Typed /\ ReportComing /\ AgentNext => ReportComing'
<1> SUFFICES ASSUME Typed, ReportComing, AgentNext PROVE ReportComing'
  OBVIOUS
<1>0. /\ known' = known
      /\ \A x \in Shells : known[x] \in Nat /\ known'[x] \in Nat /\ known[x] <= known'[x]
      /\ link # 0 => link \in Links /\ up[link] \in Seq(Frames)
  BY AgentLeavesTheServer DEF indexVars, Typed, ConnTyped, ServerTyped
<1>1. CASE Connect \/ RecordChanges \/ \E x \in Shells : RunCreate(x) \/ RunClose(x)
  <2>1. changed' /\ snapshot' = snapshot
    BY <1>1 DEF Connect, RecordChanges, RunCreate, RunClose, Takes, Change
  <2>2. QED
    BY <2>1 DEF ReportComing, Coming
<1>2. CASE Disconnect \/ AgentRestarts
  BY <1>2 DEF Disconnect, AgentRestarts, AgentLeaves, ReportComing
<1>3. CASE TakeSnapshot
  <2>1. \E r \in snapshot' : r.kind = "report" /\ r.version = version'
    BY <1>3 DEF TakeSnapshot
  <2>2. \A r, q \in snapshot' : r = q
    BY <1>3 DEF TakeSnapshot
  <2>3. QED
    BY <2>1, <2>2 DEF ReportComing, Coming
<1>4. CASE \E x \in Shells : RefuseCreate(x) \/ RunCloseAgain(x)
  BY <1>0, <1>4, StillComing DEF RefuseCreate, RunCloseAgain, Takes
<1>5. CASE SendReport \/ SendReply
  <2>1. PICK f \in Frames :
          /\ up' = [up EXCEPT ![link] = Append(@, f)]
          /\ SendReport => f \in snapshot /\ snapshot' = {}
          /\ ~SendReport => snapshot' = snapshot
    BY <1>5 DEF SendReport, SendReply, Typed, AgentTyped
  <2>2. UNCHANGED <<version, changed, link>>
    BY <1>5 DEF SendReport, SendReply
  <2>3. link \in Links /\ link # 0
    BY <1>0, <1>5 DEF SendReport, SendReply, Typed, AgentTyped
  <2> DEFINE last == Len(up[link]) + 1
  <2>4. /\ \A i \in DOMAIN up[link] : i \in DOMAIN up'[link] /\ up'[link][i] = up[link][i]
        /\ last \in DOMAIN up'[link] /\ up'[link][last] = f
    <3>1. up[link] \in Seq(Frames) /\ up'[link] = Append(up[link], f)
      BY <1>0, <2>1, <2>3 DEF Typed, ConnTyped
    <3>2. QED
      BY <2>1, <3>1
  <2> HIDE DEF last
  <2>5. \A r, q \in snapshot' : r = q
    BY <2>1 DEF ReportComing
  <2>6. CASE changed \/ \A x \in Shells : version <= known[x]
    BY <1>0, <2>2, <2>5, <2>6 DEF ReportComing, Coming
  <2>7. ASSUME NEW i \in DOMAIN up[link],
               up[link][i].kind = "report" /\ up[link][i].version = version
        PROVE ReportComing'
    <3>1. Coming'
      BY <2>2, <2>4, <2>7 DEF Coming
    <3>2. QED
      BY <2>5, <3>1 DEF ReportComing
  <2>8. ASSUME NEW r \in snapshot, r.kind = "report" /\ r.version = version
        PROVE ReportComing'
    <3>1. CASE SendReport
      <4>1. f = r
        BY <2>1, <3>1 DEF ReportComing
      <4>2. Coming'
        BY <2>2, <2>4, <2>8, <4>1 DEF Coming
      <4>3. QED
        BY <2>5, <4>2 DEF ReportComing
    <3>2. CASE ~SendReport
      <4>1. Coming'
        BY <2>1, <2>2, <2>8, <3>2 DEF Coming
      <4>2. QED
        BY <2>5, <4>1 DEF ReportComing
    <3>3. QED
      BY <3>1, <3>2
  <2>9. QED
    BY <2>3, <2>6, <2>7, <2>8 DEF ReportComing, Coming
<1>6. QED
  BY <1>1, <1>2, <1>3, <1>4, <1>5 DEF AgentNext, Execute

\* The report at the head of the connection is heard of; any other stays on it.
LEMMA ReadKeepsReporting ==
  ASSUME Typed, ReportComing, NEW l \in Links, ReadFrame(l)
  PROVE  ReportComing'
<1> PICK f : f = Head(up[l])
  OBVIOUS
<1>1. /\ UNCHANGED <<link, version, changed, snapshot>>
      /\ up[l] # <<>> /\ up' = [up EXCEPT ![l] = Tail(@)]
      /\ up[l] \in Seq(Frames) /\ f \in Frames /\ f = up[l][1]
  BY HeadOnWay DEF ReadFrame, agentVars, Typed, ConnTyped
<1>2. \/ f.kind = "report" /\ Report(f.shells, f.version)
      \/ f.kind # "report" /\ known' = known
  BY DEF ReadFrame, indexVars
<1>3. /\ \A x \in Shells : known[x] \in Nat /\ known'[x] \in Nat /\ known[x] <= known'[x]
      /\ f.kind = "report" => \A x \in Shells : f.version <= known'[x]
  <2>1. f.version \in Nat /\ \A x \in Shells : known[x] \in Nat
    BY <1>1, FrameTypes DEF Typed, ServerTyped
  <2>2. CASE f.kind = "report" /\ Report(f.shells, f.version)
    <3>1. \A x \in Shells : known'[x] = IF known[x] > f.version THEN known[x] ELSE f.version
      BY <2>2 DEF Report, Later
    <3>2. QED
      BY <2>1, <3>1
  <2>3. CASE f.kind # "report" /\ known' = known
    BY <2>1, <2>3
  <2>4. QED
    BY <1>2, <2>2, <2>3
<1>4. CASE link # l
  <2>1. link # 0 => up'[link] = up[link]
    BY <1>1, <1>4 DEF Typed, ConnTyped
  <2>2. QED
    BY <1>1, <1>3, <2>1, StillComing
<1>5. CASE link = l
  <2>1. \A r, q \in snapshot' : r = q
    BY <1>1 DEF ReportComing
  <2>2. l # 0 /\ up'[l] = Tail(up[l])
    BY <1>1 DEF Links, Typed, ConnTyped
  <2>3. CASE changed \/ \E r \in snapshot : r.kind = "report" /\ r.version = version
    BY <1>1, <2>1, <2>3 DEF ReportComing, Coming
  <2>4. CASE \A x \in Shells : version <= known[x]
    <3>1. \A x \in Shells : version' <= known'[x]
      BY <1>1, <1>3, <2>4 DEF Typed, AgentTyped
    <3>2. QED
      BY <2>1, <3>1 DEF ReportComing
  <2>5. ASSUME NEW i \in DOMAIN up[l],
               up[l][i].kind = "report" /\ up[l][i].version = version
        PROVE ReportComing'
    <3>1. CASE i = 1
      <4>1. \A x \in Shells : version' <= known'[x]
        BY <1>1, <1>3, <2>5, <3>1
      <4>2. QED
        BY <2>1, <4>1 DEF ReportComing
    <3>2. CASE i # 1
      <4>1. i - 1 \in DOMAIN Tail(up[l]) /\ Tail(up[l])[i - 1] = up[l][i]
        BY <1>1, <2>5, <3>2
      <4>2. Coming'
        BY <1>1, <1>5, <2>2, <2>5, <4>1 DEF Coming
      <4>3. QED
        BY <2>1, <4>2 DEF ReportComing
    <3>3. QED
      BY <3>1, <3>2
  <2>6. QED
    BY <1>5, <2>2, <2>3, <2>4, <2>5 DEF ReportComing, Coming
<1>6. QED
  BY <1>4, <1>5

LEMMA ServerKeepsReporting == Typed /\ ReportComing /\ ServerNext => ReportComing'
<1> SUFFICES ASSUME Typed, ReportComing, ServerNext PROVE ReportComing'
  OBVIOUS
<1>0. \A x \in Shells : known[x] \in Nat
  BY DEF Typed, ServerTyped
<1>1. ASSUME NEW l \in Links, Register(l) \/ SessionEnds(l) PROVE ReportComing'
  <2>1. known' = known
    BY <1>1 DEF Register, SessionEnds, indexVars
  <2>2. \/ link' = 0 /\ snapshot' = {}
        \/ /\ UNCHANGED <<link, version, changed, snapshot>>
           /\ link # 0 => up'[link] = up[link]
    BY <1>1 DEF Register, SessionEnds, AgentLeaves, agentVars, Typed, ConnTyped
  <2>3. QED
    BY <1>0, <2>1, <2>2, StillComing
<1>2. ASSUME NEW l \in Links, ReadFrame(l) PROVE ReportComing'
  BY <1>2, ReadKeepsReporting
<1>3. ASSUME NEW x \in Shells,
             \/ RouteCreate(x) \/ RouteClose(x) \/ CloserLeaves(x) \/ CreatorLeaves(x)
             \/ AskCreate(x) \/ ListCreated(x) \/ Close(x) \/ ForgetClose(x)
      PROVE ReportComing'
  <2>1. UNCHANGED <<link, version, changed, snapshot, up>>
    BY <1>3 DEF RouteCreate, RouteClose, CloserLeaves, CreatorLeaves, AskCreate,
                ListCreated, Close, ForgetClose, agentVars, connVars
  <2>2. \A y \in Shells : known'[y] \in Nat /\ known[y] <= known'[y]
    <3>1. CASE ListCreated(x) \/ ForgetClose(x)
      <4>1. PICK f \in Frames : known' = [known EXCEPT ![x] = Later(@, f.version)]
        BY <3>1 DEF ListCreated, ForgetClose, Typed, ServerTyped
      <4>2. \A y \in Shells : known'[y] = IF y = x THEN Later(known[x], f.version) ELSE known[y]
        BY <4>1 DEF Typed, ServerTyped
      <4>3. f.version \in Nat
        BY FrameTypes
      <4>4. QED
        BY <1>0, <4>2, <4>3 DEF Later
    <3>2. CASE ~(ListCreated(x) \/ ForgetClose(x))
      <4>1. known' = known
        BY <1>3, <3>2 DEF RouteCreate, RouteClose, CloserLeaves, CreatorLeaves, AskCreate,
                          Close, indexVars
      <4>2. QED
        BY <1>0, <4>1
    <3>3. QED
      BY <3>1, <3>2
  <2>3. QED
    BY <1>0, <2>1, <2>2, StillComing
<1>4. CASE ServerRestarts
  BY <1>4 DEF ServerRestarts, AgentLeaves, ReportComing
<1>5. QED
  BY <1>1, <1>2, <1>3, <1>4 DEF ServerNext

\* Nothing is on its way any more, so the index has heard of the agent's list.
LEMMA SettledAgrees ==
  ASSUME Typed, TerminalInvariant, ReportComing, Settled, ~outrun, NEW x \in Shells
  PROVE  entry[x] = "live" <=> x \in sessions \ pending
<1> PICK life \in Lifes : Lives(life) /\ Listing(life)
  BY DEF TerminalInvariant
<1>1. known[x] = version
  <2>1. ~Coming
    <3>1. ~changed /\ snapshot = {} /\ up[link] = <<>>
      BY DEF Settled
    <3>2. QED
      BY <3>1 DEF Coming
  <2>2. version <= known[x]
    BY <2>1 DEF ReportComing, Settled
  <2>3. known[x] <= version /\ version \in Nat /\ known[x] \in Nat
    BY DEF Listing, Typed, AgentTyped, ServerTyped
  <2>4. QED
    BY <2>2, <2>3
<1>2. Present(life, x, version) <=> x \in sessions
  <2>1. /\ sessions \subseteq life.made /\ life.born[x] <= version /\ life.died[x] <= version
        /\ version \in Nat /\ life.died[x] \in Nat
    BY DEF Lives, Lifes, Typed, AgentTyped
  <2>2. QED
    BY <2>1 DEF Present
<1>3. QED
  BY <1>1, <1>2 DEF Listing

\* Once the agent is connected and nothing is on its way in either direction, the
\* windows list as alive exactly what the agent runs, less the closes still owed,
\* unless older news overtook newer: after any creates that timed out, closes
\* whose connection was lost, overlapping connections and restarts of either side.
THEOREM ListAlwaysAgrees == TermSpec => []ListAgrees
<1>1. TermInit => ReportComing
  BY DEF TermInit, ReportComing
<1>2. Typed /\ ReportComing /\ [TermNext]_vars => ReportComing'
  <2>1. ASSUME Typed, ReportComing, UNCHANGED vars PROVE ReportComing'
    <3>1. UNCHANGED <<version, changed, snapshot, link, up, known>>
      BY <2>1 DEF vars, agentVars, connVars, indexVars
    <3>2. \A x \in Shells : known[x] \in Nat
      BY <2>1 DEF Typed, ServerTyped
    <3>3. QED
      BY <2>1, <3>1, <3>2, StillComing
  <2>2. QED
    BY <2>1, AgentKeepsReporting, ServerKeepsReporting DEF TermNext
<1>3. Typed /\ TerminalInvariant /\ ReportComing => ListAgrees
  BY SettledAgrees DEF ListAgrees
<1>4. QED
  BY <1>1, <1>2, <1>3, TerminalInvariantHolds, PTL DEF TermSpec
=============================================================================
