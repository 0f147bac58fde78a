----------------------------- MODULE Workspace -----------------------------
(***************************************************************************)
(* A connected workspace and its session: the reducer of the shell         *)
(* (internal/workspace/model.go: schemas, relations, health checks, loss   *)
(* of the connection and reconnect), the root model that opens, replaces   *)
(* and closes sessions, and the registry of cancellations                  *)
(* (internal/app/model.go, internal/app/cancellation.go).                  *)
(*                                                                         *)
(* Workspaces follow one another: the user disconnects and connects again, *)
(* while operations, timers and sessions of the workspace before are still *)
(* under way.  Request numbers start again with every workspace, and the   *)
(* registry knows an operation by its kind and request only.               *)
(*                                                                         *)
(* Abstractions of data.  A session is the number of the connection it     *)
(* was opened by.  The tree has one schema.  Tabs, and whether leaving has *)
(* to be confirmed, are the subject of Tabs; the list of the launcher,     *)
(* which is loaded at once here, is that of Launcher; the end of the       *)
(* program is left out.  Bound: one CancelIntent at a time.                *)
(***************************************************************************)
EXTENDS Naturals, FiniteSets

CONSTANTS
  MaxWorkspaces, \* bound: workspaces ever opened
  MaxOps,        \* bound: operations ever started
  MaxTicks,      \* bound: timers of one generation that are running
  MaxLeaves      \* bound: DisconnectIntents on their way

ASSUME ConstantsAssumption ==
  /\ MaxWorkspaces \in Nat \ {0}
  /\ MaxOps \in Nat \ {0}
  /\ MaxTicks \in Nat \ {0}
  /\ MaxLeaves \in Nat \ {0}

OpIds == 1..MaxOps
Sessions == 1..MaxOps        \* the session operation o opened is o
Workspaces == 1..MaxWorkspaces
Generations == 1..(MaxOps + 1)
NoSession == 0

Kinds == {"connect", "schemas", "relations", "health", "reconnect"}
Opens(kind) == kind \in {"connect", "reconnect"}
Stages == {"unused", "intent", "running", "reply", "done"}
Outcomes == {"none", "ok", "failed", "cancelled"}

\* An operation: its RequestMeta (ws, kind, req), the session it captured when
\* it was dispatched, its reply.
Ops ==
  [kind : Kinds, ws : 0..MaxWorkspaces, req : 0..MaxOps, stage : Stages,
   session : Sessions \cup {NoSession}, cancelled : BOOLEAN,
   outcome : Outcomes]
NoOp ==
  [kind |-> "connect", ws |-> 0, req |-> 0, stage |-> "unused",
   session |-> NoSession, cancelled |-> FALSE, outcome |-> "none"]

\* core.OperationID.
Names == Kinds \X (0..MaxOps)
-----------------------------------------------------------------------------
VARIABLES
  surface,     \* what the root model shows
  session,     \* app.Model.session, with the catalog it offers
  connecting,  \* the connect operation the launcher awaits, or 0
  leaves,      \* DisconnectIntents on their way
  closing,     \* sessions taken by disconnect commands that have not run
  ws,          \* workspace.Model.id, numbered
  connection,
  reconnectBox, \* whether a click may ask for a reconnect (HitboxReconnect): the
               \* hitboxes of a lost connection stay until they are rebuilt
  generation,  \* healthGeneration
  schemasRequest, healthRequest, reconnectRequest,
  relationsRequest,
  tree,        \* what the tree knows of the schema
  nextRequest,
  op, nextOp,
  registry,    \* CancellationRegistry: the operations registered by name
  cancels,     \* names a CancelIntent is on its way to
  ticks,       \* running timers, per workspace and generation
  pool,        \* the connection pools of the sessions
  unwatched    \* whether a check or a load that keeps the timers going was
               \* cancelled or refused, for properties

rootVars == <<surface, session, connecting, leaves, closing>>
requestVars == <<schemasRequest, healthRequest, reconnectRequest,
                 relationsRequest>>
shellVars == <<ws, connection, reconnectBox, generation, tree, nextRequest>>
opVars == <<op, nextOp, registry, cancels>>
timerVars == <<ticks, unwatched>>
vars == <<rootVars, requestVars, shellVars, opVars, timerVars, pool>>

RootType ==
  /\ surface \in {"launcher", "workspace"}
  /\ session \in Sessions \cup {NoSession}
  /\ connecting \in OpIds \cup {0}
  /\ leaves \in 0..MaxLeaves
  /\ closing \subseteq Sessions \cup {NoSession}
ShellType ==
  /\ ws \in 0..MaxWorkspaces
  /\ connection \in {"connected", "lost", "reconnecting"}
  /\ reconnectBox \in {"shown", "hidden"}
  /\ generation \in Generations
  /\ {schemasRequest, healthRequest, reconnectRequest, relationsRequest}
       \subseteq 0..MaxOps
  /\ tree \in {"empty", "listed", "loaded"}
  /\ nextRequest \in 1..(MaxOps + 1)
OperationsType ==
  /\ op \in [OpIds -> Ops]
  /\ nextOp \in 1..(MaxOps + 1)
  /\ registry \subseteq {o \in OpIds : op[o].stage = "running"}
  /\ cancels \subseteq Names
TimersType ==
  /\ ticks \in [Workspaces -> [Generations -> 0..MaxTicks]]
  /\ unwatched \in BOOLEAN
PoolType == pool \in [Sessions -> {"none", "open", "closed", "closed twice"}]
TypeOK == RootType /\ ShellType /\ OperationsType /\ TimersType /\ PoolType

Init ==
  /\ surface = "launcher"
  /\ session = NoSession
  /\ connecting = 0
  /\ leaves = 0
  /\ closing = {}
  /\ ws = 0
  /\ connection = "connected"
  /\ reconnectBox = "hidden"
  /\ generation = 1
  /\ schemasRequest = 0
  /\ healthRequest = 0
  /\ reconnectRequest = 0
  /\ relationsRequest = 0
  /\ tree = "empty"
  /\ nextRequest = 1
  /\ op = [o \in OpIds |-> NoOp]
  /\ nextOp = 1
  /\ registry = {}
  /\ cancels = {}
  /\ ticks = [w \in Workspaces |-> [g \in Generations |-> 0]]
  /\ pool = [s \in Sessions |-> "none"]
  /\ unwatched = FALSE
-----------------------------------------------------------------------------
(***************************************************************************)
(* What the handlers share.                                                *)
(***************************************************************************)
Shell == surface = "workspace"

RebuildHitboxes ==
  reconnectBox' = IF connection = "lost" THEN "shown" ELSE "hidden"

Name(o) == <<op[o].kind, op[o].req>>

\* An intent is sent, from the operations ops.
Begin(kind, w, req, ops) ==
  /\ nextOp \in OpIds
  /\ nextOp' = nextOp + 1
  /\ op' = [ops EXCEPT ![nextOp] =
              [NoOp EXCEPT !.kind = kind, !.ws = w, !.req = req,
                           !.stage = "intent"]]

BeginRequest(kind, ops) ==
  /\ Begin(kind, ws, nextRequest, ops)
  /\ nextRequest' = nextRequest + 1

Answered(o) == [op EXCEPT ![o] = [NoOp EXCEPT !.stage = "done"]]

Schedule(w, g) ==
  /\ ticks[w][g] < MaxTicks
  /\ ticks' = [ticks EXCEPT ![w][g] = @ + 1]

Open(s) == s # NoSession /\ pool[s] = "open"
CloseAll(S) ==
  pool' = [s \in Sessions |->
             IF s \notin S THEN pool[s]
             ELSE IF Open(s) THEN "closed" ELSE "closed twice"]

\* Who is registered under a name; cancellation, over the operations ops.
Registered(n) == {o \in registry : Name(o) = n}
ForgetNobody(n) == registry
Forget(n) == registry \ Registered(n)
Cancelled(ops, S) ==
  [o \in OpIds |-> IF o \in S THEN [ops[o] EXCEPT !.cancelled = TRUE]
                             ELSE ops[o]]
CancelAll(ops) == Cancelled(ops, registry)
-----------------------------------------------------------------------------
(***************************************************************************)
(* The user.                                                               *)
(***************************************************************************)
\* The launcher connects: one command at a time.
Connect ==
  /\ surface = "launcher"
  /\ connecting = 0
  /\ ws < MaxWorkspaces
  /\ Begin("connect", 0, nextOp, op)
  /\ connecting' = nextOp
  /\ UNCHANGED <<surface, session, leaves, closing, requestVars,
                 shellVars, registry, cancels, timerVars, pool>>

CancelConnect ==
  /\ surface = "launcher"
  /\ connecting # 0
  /\ cancels = {}
  /\ cancels' = cancels \cup {<<"connect", connecting>>}
  /\ UNCHANGED <<rootVars, requestVars, shellVars, op, nextOp, registry,
                 timerVars, pool>>

\* By a click, whatever the connection is.
ToggleSchema ==
  /\ Shell
  /\ tree = "listed"
  /\ relationsRequest = 0
  /\ relationsRequest' = nextRequest
  /\ BeginRequest("relations", op)
  /\ RebuildHitboxes
  /\ UNCHANGED <<rootVars, schemasRequest, healthRequest, reconnectRequest,
                 ws, connection, generation, tree, registry, cancels,
                 timerVars, pool>>

RefreshSchemas ==
  /\ Shell /\ connection # "lost"
  /\ schemasRequest = 0
  /\ schemasRequest' = nextRequest
  /\ BeginRequest("schemas", op)
  /\ UNCHANGED <<rootVars, healthRequest, reconnectRequest, relationsRequest,
                 ws, connection, reconnectBox, generation, tree, registry,
                 cancels, timerVars, pool>>

Reconnect ==
  /\ Shell
  /\ connection = "lost" \/ reconnectBox = "shown"
  /\ reconnectRequest = 0
  /\ reconnectRequest' = nextRequest
  /\ connection' = "reconnecting"
  /\ BeginRequest("reconnect", op)
  /\ UNCHANGED <<rootVars, schemasRequest, healthRequest, relationsRequest,
                 ws, reconnectBox, generation, tree, registry, cancels,
                 timerVars, pool>>

\* Ctrl+C while the shell awaits something (cancelActive).
Awaiting ==
  {<<"schemas", schemasRequest>>, <<"health", healthRequest>>,
   <<"reconnect", reconnectRequest>>, <<"relations", relationsRequest>>}
     \ {<<k, 0>> : k \in Kinds}
CancelActive ==
  /\ Shell
  /\ Awaiting # {}
  /\ cancels = {}
  /\ cancels' = cancels \cup Awaiting
  /\ UNCHANGED <<rootVars, requestVars, shellVars, op, nextOp, registry,
                 timerVars, pool>>

RequestLeave ==
  /\ Shell
  /\ leaves < MaxLeaves
  /\ leaves' = leaves + 1
  /\ UNCHANGED <<surface, session, connecting, closing, requestVars,
                 shellVars, opVars, timerVars, pool>>
-----------------------------------------------------------------------------
(***************************************************************************)
(* Operations.                                                             *)
(***************************************************************************)
\* The session, or its catalog, is read when the intent is handled.
Dispatch(o) ==
  /\ op[o].stage = "intent"
  /\ op' = [op EXCEPT
              ![o].stage = "running",
              ![o].session = IF Opens(op[o].kind) THEN NoSession ELSE session]
  /\ registry' = Forget(Name(o)) \cup {o}
  /\ UNCHANGED <<rootVars, requestVars, shellVars, nextOp, cancels, timerVars,
                 pool>>

DeliverCancel(n) ==
  /\ n \in cancels
  /\ cancels' = cancels \ {n}
  /\ registry' = Forget(n)
  /\ op' = Cancelled(op, Registered(n))
  /\ UNCHANGED <<rootVars, requestVars, shellVars, nextOp, timerVars, pool>>

\* The work returns and forgets its name, whoever is registered under it.
Return(o, outcome) ==
  /\ op[o].stage = "running"
  /\ op' = [op EXCEPT
              ![o].stage = "reply", ![o].outcome = outcome,
              ![o].cancelled = FALSE,
              ![o].session = IF outcome = "ok" THEN @ ELSE NoSession]
  /\ registry' = Forget(Name(o))
  /\ UNCHANGED <<rootVars, requestVars, shellVars, nextOp, cancels, timerVars>>

\* A reconnect and a connect open a session; the others need an open one.
Succeed(o) ==
  /\ Return(o, "ok")
  /\ ~op[o].cancelled
  /\ \/ Opens(op[o].kind) /\ pool' = [pool EXCEPT ![o] = "open"]
     \/ ~Opens(op[o].kind) /\ Open(op[o].session) /\ UNCHANGED pool

\* A check that was cancelled has an outcome of its own, since handleFailure tells
\* it from a failure.
Fail(o) ==
  \E outcome \in {"failed", "cancelled"} :
    /\ outcome = "cancelled" => op[o].kind = "health" /\ op[o].cancelled
    /\ Return(o, outcome)
    /\ UNCHANGED pool
-----------------------------------------------------------------------------
(***************************************************************************)
(* Replies.                                                                *)
(***************************************************************************)
\* matches: the workspace, the kind and the request are those awaited.
MatchesRequest(o, kind, request) ==
  /\ op[o].kind = kind
  /\ request # 0
  /\ op[o].req = request
Matches(o, kind, request) ==
  /\ op[o].kind = kind
  /\ request # 0
  /\ op[o].ws = ws /\ op[o].req = request

Awaited(o) ==
  /\ op[o].stage = "reply"
  /\ \/ op[o].kind = "connect" /\ connecting = o
     \/ /\ Shell
        /\ \/ Matches(o, "schemas", schemasRequest)
           \/ Matches(o, "relations", relationsRequest)
           \/ Matches(o, "health", healthRequest)
           \/ Matches(o, "reconnect", reconnectRequest)
Arrives(o, kind) == Awaited(o) /\ op[o].kind = kind /\ op[o].outcome = "ok"

DeliverSchemas(o) ==
  /\ Arrives(o, "schemas")
  /\ schemasRequest' = 0
  /\ relationsRequest' = 0
  /\ tree' = "listed"
  /\ RebuildHitboxes
  /\ Schedule(ws, generation)
  /\ unwatched' = FALSE
  /\ op' = Answered(o)
  /\ UNCHANGED <<rootVars, healthRequest, reconnectRequest, ws, connection,
                 generation, nextRequest, nextOp, registry, cancels, pool>>

DeliverRelations(o) ==
  /\ Arrives(o, "relations")
  /\ relationsRequest' = 0
  /\ tree' = "loaded"
  /\ RebuildHitboxes
  /\ op' = Answered(o)
  /\ UNCHANGED <<rootVars, schemasRequest, healthRequest, reconnectRequest,
                 ws, connection, generation, nextRequest, nextOp, registry,
                 cancels, timerVars, pool>>

DeliverCheckedOnce(o) ==
  /\ Arrives(o, "health")
  /\ healthRequest' = 0
  /\ op' = Answered(o)
  /\ UNCHANGED <<rootVars, schemasRequest, reconnectRequest, relationsRequest,
                 shellVars, nextOp, registry, cancels, timerVars, pool>>
DeliverChecked(o) ==
  /\ Arrives(o, "health")
  /\ healthRequest' = 0
  /\ \/ /\ connection = "connected"
        /\ Schedule(ws, generation)
        /\ unwatched' = FALSE
     \/ /\ connection # "connected"
        /\ UNCHANGED timerVars
  /\ op' = Answered(o)
  /\ UNCHANGED <<rootVars, schemasRequest, reconnectRequest, relationsRequest,
                 shellVars, nextOp, registry, cancels, pool>>

\* The session of the workspace is replaced, its requests are forgotten and the
\* schemas are loaded again.
ForgetRequests ==
  /\ reconnectRequest' = 0
  /\ healthRequest' = 0
  /\ relationsRequest' = 0
  /\ schemasRequest' = nextRequest
  /\ nextRequest' = nextRequest + 1
DeliverReconnected(o) ==
  /\ Arrives(o, "reconnect")
  /\ session' = o
  /\ CloseAll({session} \ {NoSession})
  /\ registry' = {}
  /\ ForgetRequests
  /\ Begin("schemas", ws, nextRequest, CancelAll(Answered(o)))
  /\ connection' = "connected"
  /\ generation' = generation + 1
  /\ Schedule(ws, generation + 1)
  /\ unwatched' = FALSE
  /\ UNCHANGED <<surface, connecting, leaves, closing, ws, reconnectBox, tree,
                 cancels>>

\* A new workspace, which starts by loading its schemas (workspace.Init).
DeliverConnected(o) ==
  /\ Arrives(o, "connect")
  /\ connecting' = 0
  /\ surface' = "workspace"
  /\ session' = o
  /\ CloseAll({session} \ {NoSession})
  /\ ws' = ws + 1
  /\ connection' = "connected"
  /\ reconnectBox' = "hidden"
  /\ generation' = 1
  /\ schemasRequest' = 1
  /\ healthRequest' = 0
  /\ reconnectRequest' = 0
  /\ relationsRequest' = 0
  /\ tree' = "empty"
  /\ nextRequest' = 2
  /\ Begin("schemas", ws + 1, 1, Answered(o))
  /\ unwatched' = FALSE
  /\ UNCHANGED <<leaves, closing, registry, cancels, ticks>>

DeliverConnectFailed(o) ==
  /\ Awaited(o) /\ op[o].kind = "connect" /\ op[o].outcome # "ok"
  /\ connecting' = 0
  /\ op' = Answered(o)
  /\ UNCHANGED <<surface, session, leaves, closing, requestVars,
                 shellVars, nextOp, registry, cancels, timerVars, pool>>

\* handleFailure.  A check that fails, whatever the reason, and a network error
\* of any operation mean that the connection is lost.  Whether the error of a load
\* was one of the network is chosen here, where it begins to matter.
ClearBusyOnly(var, kind, o) ==
  IF op[o].kind = kind /\ kind # "relations" THEN 0 ELSE var
Clear(var, kind, o) == IF op[o].kind = kind THEN 0 ELSE var
Loses(o) ==
  \/ op[o].kind = "reconnect"
  \/ op[o].kind = "health" /\ op[o].outcome # "cancelled"
DeliverFailed(o) ==
  /\ Awaited(o) /\ op[o].kind # "connect" /\ op[o].outcome # "ok"
  /\ schemasRequest' = Clear(schemasRequest, "schemas", o)
  /\ healthRequest' = Clear(healthRequest, "health", o)
  /\ reconnectRequest' = Clear(reconnectRequest, "reconnect", o)
  /\ relationsRequest' = Clear(relationsRequest, "relations", o)
  /\ \E network \in BOOLEAN :
       /\ network => op[o].kind \in {"schemas", "relations"}
       /\ connection' = IF Loses(o) \/ network THEN "lost" ELSE connection
       /\ reconnectBox' = IF connection' = "lost" THEN "shown" ELSE reconnectBox
  /\ unwatched' = (unwatched \/ op[o].kind \in {"schemas", "health"})
  /\ op' = Answered(o)
  /\ UNCHANGED <<rootVars, ws, generation, tree, nextRequest, nextOp, registry,
                 cancels, ticks, pool>>

\* Nobody awaits the reply; a session that comes with it is closed.
DeliverStaleLeaking(o) ==
  /\ op[o].stage = "reply"
  /\ ~Awaited(o)
  /\ op' = Answered(o)
  /\ UNCHANGED <<rootVars, requestVars, shellVars, nextOp, registry, cancels,
                 timerVars, pool>>
DeliverStale(o) ==
  /\ op[o].stage = "reply"
  /\ ~Awaited(o)
  /\ op' = Answered(o)
  /\ CloseAll(IF Opens(op[o].kind) /\ op[o].outcome = "ok" THEN {o} ELSE {})
  /\ UNCHANGED <<rootVars, requestVars, shellVars, nextOp, registry, cancels,
                 timerVars>>
-----------------------------------------------------------------------------
(***************************************************************************)
(* Timers and leaving.                                                     *)
(***************************************************************************)
Fires(w, g) ==
  /\ ticks[w][g] > 0
  /\ ticks' = [ticks EXCEPT ![w][g] = @ - 1]

\* The timer of the workspace and the generation that are shown.
Current(w, g) ==
  /\ Shell
  /\ w = ws /\ g = generation
  /\ connection = "connected"
  /\ healthRequest = 0

HealthCheckDue(w, g) ==
  /\ Fires(w, g)
  /\ Current(w, g)
  /\ healthRequest' = nextRequest
  /\ BeginRequest("health", op)
  /\ UNCHANGED <<rootVars, schemasRequest, reconnectRequest, relationsRequest,
                 ws, connection, reconnectBox, generation, tree, registry,
                 cancels, unwatched, pool>>

HealthCheckNotDue(w, g) ==
  /\ Fires(w, g)
  /\ ~Current(w, g)
  /\ UNCHANGED <<rootVars, requestVars, shellVars, opVars, unwatched, pool>>

\* disconnectWorkspace takes the session; nothing looks whether there still is
\* a workspace.  The model of the workspace that was left is not looked at again
\* (workspaceReady), and so it is blank here but for its number.
\* Bound: one command at a time that has no session to close.
Blank ==
  /\ connection' = "connected"
  /\ reconnectBox' = "hidden"
  /\ generation' = 1
  /\ tree' = "empty"
  /\ nextRequest' = 1
  /\ schemasRequest' = 0
  /\ healthRequest' = 0
  /\ reconnectRequest' = 0
  /\ relationsRequest' = 0
  /\ unwatched' = FALSE
Disconnect ==
  /\ leaves > 0
  /\ leaves' = leaves - 1
  /\ session \notin closing
  /\ closing' = closing \cup {session}
  /\ session' = NoSession
  /\ surface' = "launcher"
  /\ connecting' = 0
  /\ Blank
  /\ UNCHANGED <<ws, opVars, ticks, pool>>

\* The command it returns.
CloseWorkspace(s) ==
  /\ s \in closing
  /\ closing' = closing \ {s}
  /\ CloseAll({s} \ {NoSession})
  /\ op' = CancelAll(op)
  /\ registry' = {}
  /\ UNCHANGED <<surface, session, connecting, leaves, requestVars,
                 shellVars, nextOp, cancels, timerVars>>
-----------------------------------------------------------------------------
Deliver(o) ==
  \/ DeliverSchemas(o) \/ DeliverRelations(o) \/ DeliverChecked(o)
  \/ DeliverReconnected(o) \/ DeliverConnected(o) \/ DeliverConnectFailed(o)
  \/ DeliverFailed(o) \/ DeliverStale(o)

Input ==
  \/ Connect \/ CancelConnect
  \/ ToggleSchema \/ RefreshSchemas \/ Reconnect \/ CancelActive
  \/ RequestLeave

Next ==
  \/ Input
  \/ \E o \in OpIds : Dispatch(o) \/ Succeed(o) \/ Fail(o) \/ Deliver(o)
  \/ \E n \in cancels : DeliverCancel(n)
  \/ \E w \in Workspaces, g \in Generations :
       HealthCheckDue(w, g) \/ HealthCheckNotDue(w, g)
  \/ Disconnect
  \/ \E s \in Sessions \cup {NoSession} : CloseWorkspace(s)

Spec == Init /\ [][Next]_vars
-----------------------------------------------------------------------------
(***************************************************************************)
(* Properties.                                                             *)
(***************************************************************************)
\* The sessions that come with a reply nobody has handled.
Carries(o) == op[o].stage = "reply" /\ op[o].outcome = "ok" /\ Opens(op[o].kind)
Carried == {o \in OpIds : Carries(o)}

\* An open session is in one place: the reply that brings it, the workspace that
\* shows it, or the command that will close it; and nothing else is.  No pool is
\* leaked, shared, closed twice or shown after it was closed, whether a connect
\* or a reconnect is cancelled, overtaken by a disconnect or answered late.
SessionHasOneOwner ==
  /\ \A s \in Sessions :
       /\ pool[s] # "closed twice"
       /\ pool[s] = "open" <=> s = session \/ s \in closing \/ s \in Carried
       /\ ~(s = session /\ s \in closing)
       /\ ~(s \in Carried /\ (s = session \/ s \in closing))
  /\ Shell => session # NoSession

\* Where a session is.  An open one that is in no place, or in two, is lost, and so
\* is one that somebody holds and that is not open.
Life(s) ==
  LET offered == Carries(s)
      current == s = session
      leaving == s \in closing
  IN CASE pool[s] # "open" /\ ~offered /\ ~current /\ ~leaving -> pool[s]
       [] pool[s] = "open" /\ offered /\ ~current /\ ~leaving -> "offered"
       [] pool[s] = "open" /\ ~offered /\ current /\ ~leaving -> "current"
       [] pool[s] = "open" /\ ~offered /\ ~current /\ leaving -> "leaving"
       [] OTHER -> "lost"

\* Every session lives as SessionLife says: what a connect or a reconnect opened is
\* adopted or closed, what was replaced or left is closed once and never comes back
\* (connectionSucceededMsg, reconnectionSucceededMsg, disconnectWorkspace).
Lives == INSTANCE SessionLife
  WITH life <- [s \in Sessions |-> Life(s)], workspace <- Shell
SessionsLiveOnce == Lives!Spec

\* What the shell waits for is under way: no reply was dropped, and no operation
\* replaced, that leaves it loading for ever.
Live(kind, request) ==
  \E o \in OpIds : op[o].stage \in {"intent", "running", "reply"}
                    /\ Matches(o, kind, request)
NothingAwaitedInVain ==
  Shell => /\ schemasRequest # 0 => Live("schemas", schemasRequest)
           /\ relationsRequest # 0 => Live("relations", relationsRequest)
           /\ healthRequest # 0 => Live("health", healthRequest)
           /\ reconnectRequest # 0 => Live("reconnect", reconnectRequest)

\* What the tree and the status show was read through the session that is open
\* now: no late reply of another workspace, or of the session before a reconnect,
\* is taken for an answer (core.RequestMeta, ReconnectedMsg).
AnswersOfThisSession ==
  [][\A o \in OpIds :
       Awaited(o) /\ op'[o].stage = "done" /\ ~Opens(op[o].kind)
         /\ op[o].outcome = "ok"
       => op[o].session = session]_vars

\* A workspace that is shown as connected is checked again and again: a timer, a
\* check or the load that starts the timers is under way (scheduleHealthCheck), as
\* long as no check and no load was cancelled or refused.
Watched ==
  Shell /\ connection = "connected" =>
    ticks[ws][generation] > 0 \/ healthRequest # 0 \/ schemasRequest # 0
WatchedUnlessRefused == Watched \/ unwatched
=============================================================================
