------------------------- MODULE Workspace_proofs --------------------------
(***************************************************************************)
(* Proofs about Workspace: types; every session has one owner and lives as *)
(* SessionLife says; an answer was read through the session that is open   *)
(* when it is handled; nothing is awaited in vain.                         *)
(***************************************************************************)
EXTENDS Workspace, TLAPS

(***************************************************************************)
(* The invariant.                                                          *)
(***************************************************************************)

\* Numbers are given out in order, and a workspace is numbered above all those
\* whose operations are still under way.
NumbersInOrder ==
  /\ nextRequest <= nextOp
  /\ generation <= nextOp
  /\ connecting # 0 => ws < MaxWorkspaces
  /\ Shell => ws # 0
  /\ \A o \in OpIds :
       /\ op[o].ws <= ws
       /\ Shell /\ op[o].kind # "connect" /\ op[o].ws = ws
            => op[o].req < nextRequest
       /\ o >= nextOp => op[o].stage = "unused"

\* An operation opens its session when it returns, and not before.
OpenedOnReturn ==
  \A o \in OpIds :
    op[o].stage \in {"unused", "intent", "running"} => pool[o] = "none"

\* What the shell awaits from a session it awaits from the one it shows.
AwaitedRead(o) ==
  \/ Matches(o, "schemas", schemasRequest)
  \/ Matches(o, "relations", relationsRequest)
  \/ Matches(o, "health", healthRequest)
ReadHere ==
  Shell =>
    \A o \in OpIds :
      /\ AwaitedRead(o)
      /\ \/ op[o].stage = "running"
         \/ op[o].stage = "reply" /\ op[o].outcome = "ok"
      => op[o].session = session

Inv ==
  /\ TypeOK
  /\ NumbersInOrder
  /\ OpenedOnReturn
  /\ SessionHasOneOwner
  /\ ReadHere

(***************************************************************************)
(* What the handlers share.                                                *)
(***************************************************************************)

\* Numbers in reach of the bounds.
LEMMA Numbers ==
  /\ MaxOps \in Nat /\ MaxWorkspaces \in Nat /\ MaxTicks \in Nat
  /\ MaxLeaves \in Nat
  /\ MaxOps >= 1 /\ MaxWorkspaces >= 1
  /\ 0 \in 0..MaxOps /\ 1 \in 1..(MaxOps + 1)
  /\ \A n \in 1..MaxOps : n \in 0..MaxOps
  /\ NoOp \in Ops
  BY ConstantsAssumption DEF NoOp, Ops, Kinds, Stages, Outcomes, NoSession

\* What the proofs use of the types.
LEMMA Typed ==
  ASSUME TypeOK
  PROVE  /\ op \in [OpIds -> Ops] /\ ws \in 0..MaxWorkspaces /\ ws >= 0
         /\ nextRequest \in 1..(MaxOps + 1) /\ nextOp \in 1..(MaxOps + 1)
         /\ generation \in Nat
         /\ registry \subseteq {o \in OpIds : op[o].stage = "running"}
         /\ ticks \in [Workspaces -> [Generations -> 0..MaxTicks]]
         /\ pool \in [Sessions -> {"none", "open", "closed", "closed twice"}]
  <1>1. /\ ws \in 0..MaxWorkspaces /\ ws >= 0
        /\ nextRequest \in 1..(MaxOps + 1)
    BY Numbers DEF TypeOK, ShellType
  <1>2. generation \in Nat
    BY Numbers DEF TypeOK, ShellType, Generations
  <1>3. /\ op \in [OpIds -> Ops] /\ nextOp \in 1..(MaxOps + 1)
        /\ registry \subseteq {o \in OpIds : op[o].stage = "running"}
    BY DEF TypeOK, OperationsType
  <1>4. QED
    BY <1>1, <1>2, <1>3 DEF TypeOK, TimersType, PoolType

\* Begin adds one operation, an intent, where there was none.
LEMMA BeginAdds ==
  ASSUME TypeOK, NumbersInOrder,
         NEW kind \in Kinds, NEW w \in 0..MaxWorkspaces, NEW req \in 0..MaxOps,
         NEW ops \in [OpIds -> Ops], Begin(kind, w, req, ops)
  PROVE  /\ op' \in [OpIds -> Ops]
         /\ nextOp \in OpIds /\ nextOp' = nextOp + 1
         /\ nextOp' \in 1..(MaxOps + 1)
         /\ op[nextOp].stage = "unused"
         /\ op'[nextOp].kind = kind /\ op'[nextOp].ws = w
         /\ op'[nextOp].req = req /\ op'[nextOp].stage = "intent"
         /\ \A o \in OpIds : o # nextOp => op'[o] = ops[o]
  <1> DEFINE new == [NoOp EXCEPT !.kind = kind, !.ws = w, !.req = req,
                                 !.stage = "intent"]
  <1>1. /\ new \in Ops /\ new.kind = kind /\ new.ws = w /\ new.req = req
        /\ new.stage = "intent"
    BY Numbers DEF NoOp, Ops, Stages
  <1> HIDE DEF new
  <1>2. nextOp \in OpIds /\ nextOp' = nextOp + 1
        /\ op' = [ops EXCEPT ![nextOp] = new]
    BY DEF Begin, new
  <1>3. nextOp' \in 1..(MaxOps + 1)
    BY <1>2, Numbers DEF OpIds
  <1>4. op[nextOp].stage = "unused"
    BY <1>2 DEF NumbersInOrder, OpIds
  <1>5. QED
    BY <1>1, <1>2, <1>3, <1>4

\* An answered operation is nobody's any more.
LEMMA AnsweredDone ==
  ASSUME TypeOK, NEW o \in OpIds
  PROVE  /\ Answered(o) \in [OpIds -> Ops]
         /\ Answered(o)[o].stage = "done" /\ Answered(o)[o].kind = "connect"
         /\ Answered(o)[o].ws = 0
         /\ \A p \in OpIds : p # o => Answered(o)[p] = op[p]
  <1> DEFINE old == [NoOp EXCEPT !.stage = "done"]
  <1>1. /\ old \in Ops /\ old.stage = "done" /\ old.kind = "connect"
        /\ old.ws = 0
    BY Numbers DEF NoOp, Ops, Stages
  <1>2. Answered(o) = [op EXCEPT ![o] = old]
    BY DEF Answered
  <1> HIDE DEF old
  <1>3. QED
    BY <1>1, <1>2, Typed

\* What a cancellation leaves as it is.
SameButCancelled(a, b) ==
  /\ a.kind = b.kind /\ a.ws = b.ws /\ a.req = b.req /\ a.stage = b.stage
  /\ a.session = b.session /\ a.outcome = b.outcome
LEMMA CancelledSame ==
  ASSUME NEW ops \in [OpIds -> Ops], NEW S
  PROVE  /\ Cancelled(ops, S) \in [OpIds -> Ops]
         /\ \A o \in OpIds : SameButCancelled(Cancelled(ops, S)[o], ops[o])
         /\ \A o \in OpIds : o \notin S => Cancelled(ops, S)[o] = ops[o]
  <1> SUFFICES ASSUME NEW o \in OpIds
               PROVE  /\ Cancelled(ops, S)[o] \in Ops
                      /\ SameButCancelled(Cancelled(ops, S)[o], ops[o])
                      /\ o \notin S => Cancelled(ops, S)[o] = ops[o]
    BY DEF Cancelled
  <1>1. ops[o] \in Ops
    OBVIOUS
  <1>2. Cancelled(ops, S)[o] =
          IF o \in S THEN [ops[o] EXCEPT !.cancelled = TRUE] ELSE ops[o]
    BY DEF Cancelled
  <1>3. QED
    BY <1>1, <1>2 DEF Ops, SameButCancelled

\* Whoever is registered is running, also after somebody is forgotten.
LEMMA ForgetFewer ==
  ASSUME NEW n PROVE Forget(n) \subseteq registry
  BY DEF Forget

\* The timers that run are counted.
LEMMA ScheduleType ==
  ASSUME TypeOK, NEW w \in Workspaces, NEW g \in Generations, Schedule(w, g)
  PROVE  ticks' \in [Workspaces -> [Generations -> 0..MaxTicks]]
  <1>1. ticks \in [Workspaces -> [Generations -> 0..MaxTicks]]
    BY Typed
  <1>2. ticks[w][g] + 1 \in 0..MaxTicks
    BY <1>1, Numbers DEF Schedule
  <1>3. [ticks[w] EXCEPT ![g] = @ + 1] \in [Generations -> 0..MaxTicks]
    BY <1>1, <1>2
  <1>4. QED
    BY <1>1, <1>3 DEF Schedule
LEMMA FiresType ==
  ASSUME TypeOK, NEW w \in Workspaces, NEW g \in Generations, Fires(w, g)
  PROVE  ticks' \in [Workspaces -> [Generations -> 0..MaxTicks]]
  <1>1. ticks \in [Workspaces -> [Generations -> 0..MaxTicks]]
    BY Typed
  <1>2. ticks[w][g] - 1 \in 0..MaxTicks
    BY <1>1, Numbers DEF Fires
  <1>3. [ticks[w] EXCEPT ![g] = @ - 1] \in [Generations -> 0..MaxTicks]
    BY <1>1, <1>2
  <1>4. QED
    BY <1>1, <1>3 DEF Fires

(***************************************************************************)
(* The initial states.                                                     *)
(***************************************************************************)

LEMMA InitInv == Init => Inv
  <1> SUFFICES ASSUME Init PROVE Inv
    OBVIOUS
  <1>1. /\ op = [o \in OpIds |-> NoOp] /\ op \in [OpIds -> Ops]
        /\ \A o \in OpIds : op[o] = NoOp
    BY Numbers DEF Init
  <1>2. TypeOK
    <2>1. RootType /\ ShellType
      BY Numbers DEF Init, RootType, ShellType, Generations
    <2>2. OperationsType
      BY <1>1, Numbers DEF Init, OperationsType
    <2>3. [g \in Generations |-> 0] \in [Generations -> 0..MaxTicks]
      BY Numbers
    <2>4. TimersType /\ PoolType
      BY <2>3 DEF Init, TimersType, PoolType
    <2>5. QED
      BY <2>1, <2>2, <2>4 DEF TypeOK
  <1>3. NumbersInOrder
    BY <1>1, Numbers DEF NumbersInOrder, Init, NoOp, Shell
  <1>4. OpenedOnReturn /\ SessionHasOneOwner
    BY <1>1 DEF OpenedOnReturn, SessionHasOneOwner, Carried, Carries, Init, NoOp,
                Opens, OpIds, Sessions, Shell, NoSession
  <1>5. QED
    BY <1>2, <1>3, <1>4 DEF Inv, ReadHere, Shell, Init

(***************************************************************************)
(* What begins.                                                            *)
(***************************************************************************)

\* A request of the shell that begins is an operation of its own, with a number
\* nobody awaits, and nothing else changes.
LEMMA RequestBegins ==
  ASSUME Inv, Shell,
         NEW kind \in Kinds \ {"connect"}, BeginRequest(kind, op),
         UNCHANGED <<surface, session, connecting, closing, ws, generation,
                     registry, pool>>
  PROVE  /\ op' \in [OpIds -> Ops]
         /\ nextOp' \in 1..(MaxOps + 1)
         /\ nextRequest \in 1..MaxOps /\ nextRequest' \in 1..(MaxOps + 1)
         /\ registry' \subseteq {o \in OpIds : op'[o].stage = "running"}
         /\ NumbersInOrder' /\ OpenedOnReturn' /\ SessionHasOneOwner'
         /\ \A o \in OpIds :
              op'[o].stage \in {"running", "reply"}
              => /\ op'[o] = op[o]
                 /\ op[o].kind # "connect" /\ op[o].ws = ws
                      => op[o].req # nextRequest
  <1>1. /\ TypeOK /\ NumbersInOrder /\ OpenedOnReturn /\ SessionHasOneOwner
        /\ op \in [OpIds -> Ops] /\ ws \in 0..MaxWorkspaces
        /\ nextRequest \in 1..(MaxOps + 1) /\ nextOp \in 1..(MaxOps + 1)
        /\ generation \in Nat
    BY Typed DEF Inv
  <1>2. Begin(kind, ws, nextRequest, op) /\ nextRequest' = nextRequest + 1
    BY DEF BeginRequest
  <1>3. nextRequest \in 1..MaxOps
    BY <1>1, <1>2, Numbers DEF NumbersInOrder, Begin, OpIds
  <1>4. /\ op' \in [OpIds -> Ops]
        /\ nextOp \in OpIds /\ nextOp' = nextOp + 1
        /\ nextOp' \in 1..(MaxOps + 1)
        /\ op[nextOp].stage = "unused"
        /\ op'[nextOp].kind = kind /\ op'[nextOp].ws = ws
        /\ op'[nextOp].req = nextRequest /\ op'[nextOp].stage = "intent"
        /\ \A o \in OpIds : o # nextOp => op'[o] = op[o]
    BY <1>1, <1>2, <1>3, BeginAdds
  <1>5. NumbersInOrder'
    <2>1. ASSUME NEW o \in OpIds
          PROVE  /\ op'[o].ws <= ws'
                 /\ Shell' /\ op'[o].kind # "connect" /\ op'[o].ws = ws'
                      => op'[o].req < nextRequest'
                 /\ o >= nextOp' => op'[o].stage = "unused"
      <3>1. CASE o = nextOp
        BY <1>1, <1>2, <1>4, <3>1
      <3>2. CASE o # nextOp
        <4>1. op'[o] = op[o] /\ op[o].req \in Nat
          BY <1>1, <1>4, <3>2 DEF Ops
        <4>2. QED
          BY <1>1, <1>2, <1>4, <3>2, <4>1 DEF NumbersInOrder, OpIds, Shell
      <3>3. QED
        BY <3>1, <3>2
    <2>2. QED
      BY <1>1, <1>2, <1>4, <2>1 DEF NumbersInOrder
  <1>6. pool[nextOp] = "none"
    BY <1>1, <1>4 DEF OpenedOnReturn
  <1>7. OpenedOnReturn'
    BY <1>1, <1>4, <1>6 DEF OpenedOnReturn
  <1>8. Carried' = Carried
    BY <1>4, <1>6 DEF Carried, Carries
  <1>9. SessionHasOneOwner'
    BY <1>1, <1>8 DEF SessionHasOneOwner, Shell
  <1>10. registry' \subseteq {o \in OpIds : op'[o].stage = "running"}
    <2>1. registry \subseteq {o \in OpIds : op[o].stage = "running"}
      BY <1>1, Typed
    <2>2. QED
      BY <1>4, <1>6, <2>1
  <1>11. ASSUME NEW o \in OpIds, op'[o].stage \in {"running", "reply"}
         PROVE  /\ op'[o] = op[o]
                /\ op[o].kind # "connect" /\ op[o].ws = ws
                     => op[o].req # nextRequest
    <2>1. op'[o] = op[o]
      BY <1>4, <1>11
    <2>2. op[o].req \in Nat
      BY <1>1 DEF Ops
    <2>3. QED
      BY <1>1, <2>1, <2>2 DEF NumbersInOrder
  <1>12. QED
    <2>1. nextRequest' \in 1..(MaxOps + 1)
      BY <1>2, <1>3, Numbers
    <2>2. QED
      BY <1>3, <1>4, <1>5, <1>7, <1>9, <1>10, <1>11, <2>1

LEMMA ConnectInv == Inv /\ Connect => Inv'
  <1> SUFFICES ASSUME Inv, Connect PROVE Inv'
    OBVIOUS
  <1>1. /\ TypeOK /\ NumbersInOrder /\ OpenedOnReturn /\ SessionHasOneOwner
        /\ op \in [OpIds -> Ops] /\ ws \in 0..MaxWorkspaces
        /\ nextRequest \in 1..(MaxOps + 1) /\ nextOp \in 1..(MaxOps + 1)
        /\ generation \in Nat
    BY Typed DEF Inv
  <1>2. Begin("connect", 0, nextOp, op) /\ nextOp \in OpIds
    BY DEF Connect, Begin
  <1>3. /\ op' \in [OpIds -> Ops]
        /\ nextOp' = nextOp + 1 /\ nextOp' \in 1..(MaxOps + 1)
        /\ op[nextOp].stage = "unused"
        /\ op'[nextOp].kind = "connect" /\ op'[nextOp].ws = 0
        /\ op'[nextOp].stage = "intent"
        /\ \A o \in OpIds : o # nextOp => op'[o] = op[o]
    BY <1>1, <1>2, BeginAdds, Numbers DEF OpIds, Kinds
  <1>4. pool[nextOp] = "none"
    BY <1>1, <1>2, <1>3 DEF OpenedOnReturn
  <1>5. NumbersInOrder'
    BY <1>1, <1>2, <1>3 DEF NumbersInOrder, Connect, OpIds, Shell, shellVars
  <1>6. OpenedOnReturn'
    BY <1>1, <1>3, <1>4 DEF OpenedOnReturn, Connect
  <1>7. Carried' = Carried
    BY <1>3, <1>4 DEF Carried, Carries
  <1>8. SessionHasOneOwner'
    BY <1>1, <1>7 DEF SessionHasOneOwner, Shell, Connect
  <1>9. TypeOK'
    <2>1. registry' \subseteq {o \in OpIds : op'[o].stage = "running"}
      BY <1>1, <1>3, <1>4, Typed DEF Connect
    <2>2. RootType'
      BY <1>1, <1>2 DEF TypeOK, RootType, Connect
    <2>3. ShellType' /\ TimersType' /\ PoolType'
      BY <1>1 DEF TypeOK, ShellType, TimersType, PoolType, Connect, requestVars,
                  shellVars, timerVars
    <2>4. OperationsType'
      BY <1>1, <1>3, <2>1 DEF TypeOK, OperationsType, Connect
    <2>5. QED
      BY <2>2, <2>3, <2>4 DEF TypeOK
  <1>10. QED
    BY <1>5, <1>6, <1>8, <1>9 DEF Inv, ReadHere, Shell, Connect

\* ... whichever request it is.
LEMMA RequestInv ==
  ASSUME Inv, Shell,
         NEW kind \in Kinds \ {"connect"}, BeginRequest(kind, op),
         UNCHANGED <<rootVars, ws, generation, tree, registry, cancels,
                     unwatched, pool>>,
         connection' \in {connection, "reconnecting"},
         reconnectBox' \in {reconnectBox, "shown", "hidden"},
         schemasRequest' \in {schemasRequest, nextRequest},
         healthRequest' \in {healthRequest, nextRequest},
         reconnectRequest' \in {reconnectRequest, nextRequest},
         relationsRequest' \in {relationsRequest, nextRequest},
         ticks' \in [Workspaces -> [Generations -> 0..MaxTicks]]
  PROVE  Inv'
  <1>1. UNCHANGED <<surface, session, connecting, leaves, closing>>
    BY DEF rootVars
  <1>2. /\ op' \in [OpIds -> Ops]
        /\ nextOp' \in 1..(MaxOps + 1)
        /\ nextRequest \in 1..MaxOps /\ nextRequest' \in 1..(MaxOps + 1)
        /\ registry' \subseteq {o \in OpIds : op'[o].stage = "running"}
        /\ NumbersInOrder' /\ OpenedOnReturn' /\ SessionHasOneOwner'
        /\ \A o \in OpIds :
             op'[o].stage \in {"running", "reply"}
             => /\ op'[o] = op[o]
                /\ op[o].kind # "connect" /\ op[o].ws = ws
                     => op[o].req # nextRequest
    BY <1>1, RequestBegins
  <1>3. TypeOK'
    <2>1. ShellType'
      BY <1>2 DEF Inv, TypeOK, ShellType
    <2>2. RootType' /\ OperationsType' /\ TimersType' /\ PoolType'
      BY <1>1, <1>2
         DEF Inv, TypeOK, RootType, OperationsType, TimersType, PoolType
    <2>3. QED
      BY <2>1, <2>2 DEF TypeOK
  <1>4. ReadHere'
    BY <1>1, <1>2 DEF Inv, ReadHere, AwaitedRead, Matches, Shell
  <1>5. QED
    BY <1>2, <1>3, <1>4 DEF Inv

LEMMA RequestsInv ==
  ASSUME Inv
  PROVE  /\ ToggleSchema => Inv'
         /\ RefreshSchemas => Inv'
         /\ Reconnect => Inv'
         /\ \A w \in Workspaces, g \in Generations : HealthCheckDue(w, g) => Inv'
  <1>1. {"schemas", "relations", "health", "reconnect"}
          \subseteq Kinds \ {"connect"}
    BY DEF Kinds
  <1>2. ASSUME UNCHANGED ticks
        PROVE  ticks' \in [Workspaces -> [Generations -> 0..MaxTicks]]
    BY <1>2, Typed DEF Inv
  <1>3. ASSUME ToggleSchema PROVE Inv'
    BY <1>1, <1>2, <1>3, RequestInv DEF ToggleSchema, RebuildHitboxes, timerVars
  <1>4. ASSUME RefreshSchemas PROVE Inv'
    BY <1>1, <1>2, <1>4, RequestInv DEF RefreshSchemas, timerVars
  <1>5. ASSUME Reconnect PROVE Inv'
    BY <1>1, <1>2, <1>5, RequestInv DEF Reconnect, timerVars
  <1>6. ASSUME NEW w \in Workspaces, NEW g \in Generations, HealthCheckDue(w, g)
        PROVE  Inv'
    <2>1. Fires(w, g) /\ Shell
      BY <1>6 DEF HealthCheckDue, Current
    <2>2. ticks' \in [Workspaces -> [Generations -> 0..MaxTicks]]
      BY <2>1, FiresType DEF Inv
    <2>3. QED
      BY <1>1, <1>6, <2>1, <2>2, RequestInv DEF HealthCheckDue
  <1>7. QED
    BY <1>3, <1>4, <1>5, <1>6

(***************************************************************************)
(* What touches no operation.                                              *)
(***************************************************************************)

LEMMA QuietInv ==
  ASSUME Inv,
         UNCHANGED <<surface, session, connecting, closing, requestVars,
                     shellVars, op, nextOp, registry, unwatched, pool>>,
         leaves' \in 0..MaxLeaves, cancels' \subseteq Names,
         ticks' \in [Workspaces -> [Generations -> 0..MaxTicks]]
  PROVE  Inv'
  <1>1. TypeOK'
    BY DEF Inv, TypeOK, RootType, ShellType, OperationsType, TimersType,
           PoolType, requestVars, shellVars
  <1>2. NumbersInOrder' /\ OpenedOnReturn'
    BY DEF Inv, NumbersInOrder, OpenedOnReturn, Shell, shellVars
  <1>3. SessionHasOneOwner'
    BY DEF Inv, SessionHasOneOwner, Carried, Carries, Shell
  <1>4. ReadHere'
    BY DEF Inv, ReadHere, AwaitedRead, Matches, Shell, requestVars, shellVars
  <1>5. QED
    BY <1>1, <1>2, <1>3, <1>4 DEF Inv

LEMMA QuietActionsInv ==
  ASSUME Inv
  PROVE  /\ CancelConnect => Inv'
         /\ CancelActive => Inv'
         /\ RequestLeave => Inv'
         /\ \A w \in Workspaces, g \in Generations :
              HealthCheckNotDue(w, g) => Inv'
         /\ UNCHANGED vars => Inv'
  <1>1. /\ leaves \in 0..MaxLeaves /\ cancels \subseteq Names
        /\ ticks \in [Workspaces -> [Generations -> 0..MaxTicks]]
    BY DEF Inv, TypeOK, RootType, OperationsType, TimersType
  <1>2. ASSUME CancelConnect PROVE Inv'
    <2>1. cancels' \subseteq Names
      BY <1>1, <1>2, Numbers
         DEF CancelConnect, Names, Kinds, Inv, TypeOK, RootType, OpIds
    <2>2. QED
      BY <1>1, <1>2, <2>1, QuietInv DEF CancelConnect, rootVars, timerVars
  <1>3. ASSUME CancelActive PROVE Inv'
    <2>1. cancels' \subseteq Names
      BY <1>1, <1>3 DEF CancelActive, Awaiting, Names, Kinds, Inv, TypeOK, ShellType
    <2>2. QED
      BY <1>1, <1>3, <2>1, QuietInv DEF CancelActive, rootVars, timerVars
  <1>4. ASSUME RequestLeave PROVE Inv'
    BY <1>1, <1>4, QuietInv, Numbers DEF RequestLeave, opVars, timerVars
  <1>5. ASSUME NEW w \in Workspaces, NEW g \in Generations,
               HealthCheckNotDue(w, g)
        PROVE  Inv'
    <2>1. ticks' \in [Workspaces -> [Generations -> 0..MaxTicks]]
      BY <1>5, FiresType DEF Inv, HealthCheckNotDue
    <2>2. QED
      BY <1>1, <1>5, <2>1, QuietInv DEF HealthCheckNotDue, rootVars, opVars
  <1>6. ASSUME UNCHANGED vars PROVE Inv'
    BY <1>1, <1>6, QuietInv DEF vars, rootVars, opVars, timerVars
  <1>7. QED
    BY <1>2, <1>3, <1>4, <1>5, <1>6

(***************************************************************************)
(* Operations.                                                             *)
(***************************************************************************)

\* An operation that begins to run reads the session that is shown.
LEMMA DispatchInv == ASSUME Inv, NEW o \in OpIds, Dispatch(o) PROVE Inv'
  <1>1. /\ TypeOK /\ NumbersInOrder /\ OpenedOnReturn /\ SessionHasOneOwner
        /\ op \in [OpIds -> Ops] /\ session \in Sessions \cup {NoSession}
    BY Typed DEF Inv, TypeOK, RootType
  <1>2. UNCHANGED <<surface, session, connecting, leaves, closing, ws, connection,
                    reconnectBox, generation, tree, nextRequest, schemasRequest,
                    healthRequest, reconnectRequest, relationsRequest, nextOp, cancels, ticks,
                    unwatched, pool>>
    BY DEF Dispatch, rootVars, requestVars, shellVars, timerVars
  <1> DEFINE new == [op[o] EXCEPT
                       !.stage = "running",
                       !.session = IF Opens(op[o].kind) THEN NoSession
                                                        ELSE session]
  <1>3. op[o].stage = "intent" /\ op' = [op EXCEPT ![o] = new]
    BY <1>1 DEF Dispatch
  <1>4. /\ new \in Ops
        /\ new.kind = op[o].kind /\ new.ws = op[o].ws /\ new.req = op[o].req
        /\ new.stage = "running" /\ new.outcome = op[o].outcome
        /\ ~Opens(op[o].kind) => new.session = session
    BY <1>1 DEF Ops, Stages
  <1> HIDE DEF new
  <1>5. /\ op' \in [OpIds -> Ops] /\ op'[o] = new
        /\ \A p \in OpIds : p # o => op'[p] = op[p]
    BY <1>1, <1>3, <1>4
  <1>6. NumbersInOrder'
    BY <1>1, <1>2, <1>3, <1>4, <1>5 DEF NumbersInOrder, NoOp, Shell
  <1>7. OpenedOnReturn'
    BY <1>1, <1>2, <1>3, <1>5 DEF OpenedOnReturn
  <1>8. SessionHasOneOwner'
    <2>1. Carried' = Carried
      BY <1>3, <1>4, <1>5 DEF Carried, Carries
    <2>2. QED
      BY <1>1, <1>2, <2>1 DEF SessionHasOneOwner, Shell
  <1>9. TypeOK'
    <2>1. registry' \subseteq {p \in OpIds : op'[p].stage = "running"}
      BY <1>1, <1>4, <1>5, Typed, ForgetFewer DEF Dispatch
    <2>2. OperationsType'
      BY <1>1, <1>2, <1>5, <2>1 DEF TypeOK, OperationsType
    <2>3. QED
      BY <1>1, <1>2, <2>2 DEF TypeOK, RootType, ShellType, TimersType, PoolType
  <1>10. ReadHere'
    <2>1. ASSUME NEW p \in OpIds, Shell', AwaitedRead(p)',
                 \/ op'[p].stage = "running"
                 \/ op'[p].stage = "reply" /\ op'[p].outcome = "ok"
          PROVE  op'[p].session = session'
      <3>1. CASE p = o
        BY <1>2, <1>4, <1>5, <2>1, <3>1 DEF AwaitedRead, Matches, Opens
      <3>2. CASE p # o
        BY <1>2, <1>5, <2>1, <3>2 DEF Inv, ReadHere, AwaitedRead, Matches, Shell
      <3>3. QED
        BY <3>1, <3>2
    <2>2. QED
      BY <2>1 DEF ReadHere
  <1>11. QED
    BY <1>6, <1>7, <1>8, <1>9, <1>10 DEF Inv

\* A cancellation changes nothing the invariant speaks of.
LEMMA CancelKeeps ==
  ASSUME Inv, NEW S, op' = Cancelled(op, S),
         UNCHANGED <<surface, connecting, ws, generation, nextRequest, nextOp>>,
         registry' \subseteq registry
  PROVE  /\ op' \in [OpIds -> Ops]
         /\ registry' \subseteq {o \in OpIds : op'[o].stage = "running"}
         /\ \A o \in OpIds : SameButCancelled(op'[o], op[o])
         /\ NumbersInOrder'
         /\ Carried' = Carried
  <1>1. TypeOK /\ op \in [OpIds -> Ops]
        /\ registry \subseteq {o \in OpIds : op[o].stage = "running"}
    BY Typed DEF Inv
  <1>2. op' \in [OpIds -> Ops] /\ \A o \in OpIds : SameButCancelled(op'[o], op[o])
    BY <1>1, CancelledSame
  <1>3. registry' \subseteq {o \in OpIds : op'[o].stage = "running"}
    BY <1>1, <1>2 DEF SameButCancelled
  <1>4. NumbersInOrder'
    BY <1>2 DEF Inv, NumbersInOrder, SameButCancelled, Shell
  <1>5. Carried' = Carried
    BY <1>2 DEF Carried, Carries, SameButCancelled
  <1>6. QED
    BY <1>2, <1>3, <1>4, <1>5

LEMMA DeliverCancelInv ==
  ASSUME Inv, NEW n \in cancels, DeliverCancel(n) PROVE Inv'
  <1>1. UNCHANGED <<surface, session, connecting, leaves, closing, ws, connection,
                    reconnectBox, generation, tree, nextRequest, schemasRequest,
                    healthRequest, reconnectRequest, relationsRequest, nextOp, ticks, unwatched,
                    pool>>
    BY DEF DeliverCancel, rootVars, requestVars, shellVars, timerVars
  <1>2. /\ op' \in [OpIds -> Ops]
        /\ registry' \subseteq {o \in OpIds : op'[o].stage = "running"}
        /\ \A o \in OpIds : SameButCancelled(op'[o], op[o])
        /\ NumbersInOrder'
        /\ Carried' = Carried
    BY <1>1, CancelKeeps, ForgetFewer DEF DeliverCancel
  <1>3. TypeOK'
    <2>1. cancels' \subseteq Names
      BY DEF DeliverCancel, Inv, TypeOK, OperationsType
    <2>2. QED
      BY <1>1, <1>2, <2>1 DEF Inv, TypeOK, RootType, ShellType, OperationsType,
                              TimersType, PoolType
  <1>4. OpenedOnReturn' /\ SessionHasOneOwner'
    BY <1>1, <1>2
       DEF Inv, OpenedOnReturn, SessionHasOneOwner, SameButCancelled, Shell
  <1>5. ReadHere'
    BY <1>1, <1>2
       DEF Inv, ReadHere, AwaitedRead, Matches, SameButCancelled, Shell
  <1>6. QED
    BY <1>2, <1>3, <1>4, <1>5 DEF Inv

\* The command that closes a session: it was in its hands, and in no other's.
LEMMA CloseWorkspaceInv ==
  ASSUME Inv, NEW s \in Sessions \cup {NoSession}, CloseWorkspace(s) PROVE Inv'
  <1>1. UNCHANGED <<surface, session, connecting, leaves, ws, connection,
                    reconnectBox, generation, tree, nextRequest, schemasRequest,
                    healthRequest, reconnectRequest, relationsRequest, nextOp, cancels, ticks,
                    unwatched>>
    BY DEF CloseWorkspace, requestVars, shellVars, timerVars
  <1>2. /\ op' \in [OpIds -> Ops]
        /\ registry' \subseteq {o \in OpIds : op'[o].stage = "running"}
        /\ \A o \in OpIds : SameButCancelled(op'[o], op[o])
        /\ NumbersInOrder'
        /\ Carried' = Carried
    BY <1>1, CancelKeeps DEF CloseWorkspace, CancelAll
  <1>3. s \in closing /\ closing' = closing \ {s}
    BY DEF CloseWorkspace
  <1>4. /\ pool' \in [Sessions -> {"none", "open", "closed", "closed twice"}]
        /\ \A t \in Sessions : t # s => pool'[t] = pool[t]
        /\ s \in Sessions => pool[s] = "open" /\ pool'[s] = "closed"
    <2>1. s \in Sessions => pool[s] = "open"
      BY <1>3 DEF Inv, SessionHasOneOwner
    <2>2. 0 \notin Sessions
      BY DEF Sessions
    <2>3. QED
      BY <2>1, <2>2, Typed DEF CloseWorkspace, CloseAll, Open, NoSession, Inv
  <1>5. TypeOK'
    BY <1>1, <1>2, <1>3, <1>4
       DEF Inv, TypeOK, RootType, ShellType, OperationsType, TimersType, PoolType
  <1>6. OpenedOnReturn'
    <2> SUFFICES ASSUME NEW o \in OpIds,
                        op'[o].stage \in {"unused", "intent", "running"}
                 PROVE  pool'[o] = "none"
      BY DEF OpenedOnReturn
    <2>1. pool[o] = "none" /\ o \in Sessions
      BY <1>2 DEF Inv, OpenedOnReturn, SameButCancelled, OpIds, Sessions
    <2>2. o # s
      BY <1>4, <2>1
    <2>3. QED
      BY <1>4, <2>1, <2>2
  <1>7. SessionHasOneOwner'
    BY <1>1, <1>2, <1>3, <1>4 DEF Inv, SessionHasOneOwner, Shell
  <1>8. ReadHere'
    BY <1>1, <1>2
       DEF Inv, ReadHere, AwaitedRead, Matches, SameButCancelled, Shell
  <1>9. QED
    BY <1>2, <1>5, <1>6, <1>7, <1>8 DEF Inv

\* What returns is forgotten, and carries the session it opened.
LEMMA ReturnKeeps ==
  ASSUME Inv, NEW o \in OpIds, NEW outcome \in {"ok", "failed", "cancelled"},
         Return(o, outcome)
  PROVE  /\ op' \in [OpIds -> Ops]
         /\ registry' \subseteq {p \in OpIds : op'[p].stage = "running"}
         /\ op[o].stage = "running"
         /\ op'[o].kind = op[o].kind /\ op'[o].ws = op[o].ws
         /\ op'[o].req = op[o].req
         /\ op'[o].stage = "reply" /\ op'[o].outcome = outcome
         /\ outcome = "ok" => op'[o].session = op[o].session
         /\ \A p \in OpIds : p # o => op'[p] = op[p]
         /\ NumbersInOrder' /\ ReadHere'
  <1>1. /\ TypeOK /\ NumbersInOrder /\ ReadHere
        /\ op \in [OpIds -> Ops]
        /\ registry \subseteq {p \in OpIds : op[p].stage = "running"}
    BY Typed DEF Inv
  <1>2. UNCHANGED <<surface, session, connecting, leaves, closing, ws, connection,
                    reconnectBox, generation, tree, nextRequest, schemasRequest,
                    healthRequest, reconnectRequest, relationsRequest, nextOp, cancels, ticks,
                    unwatched>>
    BY DEF Return, rootVars, requestVars, shellVars, timerVars
  <1> DEFINE new == [op[o] EXCEPT
                       !.stage = "reply", !.outcome = outcome,
                       !.cancelled = FALSE,
                       !.session = IF outcome = "ok" THEN op[o].session
                                                     ELSE NoSession]
  <1>3. op[o].stage = "running" /\ op' = [op EXCEPT ![o] = new]
    BY <1>1 DEF Return
  <1>4. /\ new \in Ops
        /\ new.kind = op[o].kind /\ new.ws = op[o].ws /\ new.req = op[o].req
        /\ new.stage = "reply" /\ new.outcome = outcome
        /\ outcome = "ok" => new.session = op[o].session
    <2>1. op[o] \in Ops /\ outcome \in Outcomes /\ "reply" \in Stages
      BY <1>1 DEF Stages, Outcomes
    <2>2. new \in Ops
      BY <2>1 DEF Ops
    <2>3. QED
      BY <2>1, <2>2 DEF Ops
  <1> HIDE DEF new
  <1>5. /\ op' \in [OpIds -> Ops] /\ op'[o] = new
        /\ \A p \in OpIds : p # o => op'[p] = op[p]
    BY <1>1, <1>3, <1>4
  <1>6. registry' \subseteq {p \in OpIds : op'[p].stage = "running"}
    BY <1>1, <1>5 DEF Return, Forget, Registered
  <1>7. NumbersInOrder'
    BY <1>1, <1>2, <1>3, <1>4, <1>5 DEF NumbersInOrder, Shell
  <1>8. ReadHere'
    <2>1. ASSUME NEW p \in OpIds, Shell', AwaitedRead(p)',
                 \/ op'[p].stage = "running"
                 \/ op'[p].stage = "reply" /\ op'[p].outcome = "ok"
          PROVE  op'[p].session = session'
      <3>1. CASE p = o
        BY <1>1, <1>2, <1>3, <1>4, <1>5, <2>1, <3>1
           DEF ReadHere, AwaitedRead, Matches, Shell
      <3>2. CASE p # o
        BY <1>1, <1>2, <1>5, <2>1, <3>2 DEF ReadHere, AwaitedRead, Matches, Shell
      <3>3. QED
        BY <3>1, <3>2
    <2>2. QED
      BY <2>1 DEF ReadHere
  <1>9. QED
    BY <1>3, <1>4, <1>5, <1>6, <1>7, <1>8

LEMMA ReturnsInv ==
  ASSUME Inv, NEW o \in OpIds PROVE (Succeed(o) => Inv') /\ (Fail(o) => Inv')
  <1>1. ASSUME NEW outcome \in {"ok", "failed", "cancelled"}, Return(o, outcome),
               pool' \in [Sessions -> {"none", "open", "closed", "closed twice"}],
               \A s \in Sessions : s # o => pool'[s] = pool[s],
               pool'[o] = IF Opens(op[o].kind) /\ outcome = "ok"
                          THEN "open" ELSE pool[o]
        PROVE  Inv'
    <2>1. UNCHANGED <<surface, session, connecting, leaves, closing, ws,
                      connection, reconnectBox, generation, tree, nextRequest,
                      schemasRequest, healthRequest, reconnectRequest,
                      relationsRequest, nextOp,
                      cancels, ticks, unwatched>>
      BY <1>1 DEF Return, rootVars, requestVars, shellVars, timerVars
    <2>2. /\ op' \in [OpIds -> Ops]
          /\ registry' \subseteq {p \in OpIds : op'[p].stage = "running"}
          /\ op[o].stage = "running" /\ op'[o].kind = op[o].kind
          /\ op'[o].stage = "reply" /\ op'[o].outcome = outcome
          /\ \A p \in OpIds : p # o => op'[p] = op[p]
          /\ NumbersInOrder' /\ ReadHere'
      BY <1>1, ReturnKeeps
    <2>3. TypeOK'
      BY <1>1, <2>1, <2>2 DEF Inv, TypeOK, RootType, ShellType, OperationsType,
                              TimersType, PoolType
    <2>4. OpenedOnReturn'
      BY <1>1, <2>2 DEF Inv, OpenedOnReturn, OpIds, Sessions
    <2>5. SessionHasOneOwner'
      <3>1. Carried' = IF Opens(op[o].kind) /\ outcome = "ok"
                       THEN Carried \cup {o} ELSE Carried
        BY <2>2 DEF Carried, Carries, Opens
      <3>2. pool[o] = "none" /\ o \in Sessions
        BY <2>2 DEF Inv, OpenedOnReturn, OpIds, Sessions
      <3>3. o # session /\ o \notin closing /\ o \notin Carried
        BY <3>2 DEF Inv, SessionHasOneOwner
      <3>4. QED
        BY <1>1, <2>1, <3>1, <3>2, <3>3 DEF Inv, SessionHasOneOwner, Shell
    <2>6. QED
      BY <2>2, <2>3, <2>4, <2>5 DEF Inv
  <1>2. pool \in [Sessions -> {"none", "open", "closed", "closed twice"}]
        /\ o \in Sessions
    BY Typed DEF Inv, OpIds, Sessions
  <1>3. ASSUME Succeed(o) PROVE Inv'
    BY <1>1, <1>2, <1>3 DEF Succeed
  <1>4. ASSUME Fail(o) PROVE Inv'
    BY <1>1, <1>2, <1>4 DEF Fail
  <1>5. QED
    BY <1>3, <1>4

(***************************************************************************)
(* Answers.                                                                *)
(***************************************************************************)

\* A reply is handled that brings no session, or whose session is closed.
LEMMA AnswerInv ==
  ASSUME Inv, NEW o \in OpIds, op[o].stage = "reply", op' = Answered(o),
         UNCHANGED <<surface, session, leaves, closing, ws, generation,
                     nextRequest, nextOp, registry, cancels>>,
         connecting' \in {connecting, 0},
         connection' \in {connection, "connected", "lost"},
         reconnectBox' \in {reconnectBox, "shown", "hidden"},
         tree' \in {"empty", "listed", "loaded"},
         schemasRequest' \in {schemasRequest, 0},
         healthRequest' \in {healthRequest, 0},
         reconnectRequest' \in {reconnectRequest, 0},
         relationsRequest' \in {relationsRequest, 0},
         ticks' \in [Workspaces -> [Generations -> 0..MaxTicks]],
         unwatched' \in BOOLEAN,
         pool' \in [Sessions -> {"none", "open", "closed", "closed twice"}],
         \A s \in Sessions :
           pool'[s] = IF s = o /\ o \in Carried THEN "closed" ELSE pool[s]
  PROVE  Inv'
  <1>1. /\ TypeOK /\ NumbersInOrder /\ OpenedOnReturn /\ SessionHasOneOwner
        /\ registry \subseteq {p \in OpIds : op[p].stage = "running"}
    BY Typed DEF Inv
  <1>2. /\ op' \in [OpIds -> Ops]
        /\ op'[o].stage = "done" /\ op'[o].kind = "connect" /\ op'[o].ws = 0
        /\ \A p \in OpIds : p # o => op'[p] = op[p]
    BY <1>1, AnsweredDone
  <1>3. TypeOK'
    <2>1. registry' \subseteq {p \in OpIds : op'[p].stage = "running"}
      BY <1>1, <1>2
    <2>2. ShellType'
      <3>1. ShellType /\ 0 \in 0..MaxOps
        <4>1. 0 \in 0..MaxOps
          BY Numbers
        <4>2. QED
          BY <1>1, <4>1 DEF TypeOK
      <3>2. /\ schemasRequest' \in 0..MaxOps /\ healthRequest' \in 0..MaxOps
            /\ reconnectRequest' \in 0..MaxOps /\ relationsRequest' \in 0..MaxOps
        BY <3>1 DEF ShellType
      <3>3. QED
        BY <3>1, <3>2 DEF ShellType
    <2>3. RootType'
      BY <1>1 DEF TypeOK, RootType
    <2>4. QED
      BY <1>1, <1>2, <2>1, <2>2, <2>3
         DEF TypeOK, OperationsType, TimersType, PoolType
  <1>4. NumbersInOrder'
    <2>1. ASSUME NEW p \in OpIds
          PROVE  /\ op'[p].ws <= ws'
                 /\ Shell' /\ op'[p].kind # "connect" /\ op'[p].ws = ws'
                      => op'[p].req < nextRequest'
                 /\ p >= nextOp' => op'[p].stage = "unused"
      <3>1. CASE p = o
        <4>1. 0 <= ws
          <5>1. ws >= 0
            BY <1>1, Typed
          <5>2. QED
            BY <5>1
        <4>2. ~(o >= nextOp)
          BY <1>1 DEF NumbersInOrder
        <4>3. QED
          BY <1>2, <3>1, <4>1, <4>2
      <3>2. CASE p # o
        <4>1. op'[p] = op[p] /\ ws' = ws /\ surface' = surface
                /\ nextRequest' = nextRequest /\ nextOp' = nextOp
          BY <1>2, <3>2
        <4>2. /\ op[p].ws <= ws
              /\ Shell /\ op[p].kind # "connect" /\ op[p].ws = ws
                   => op[p].req < nextRequest
              /\ p >= nextOp => op[p].stage = "unused"
          BY <1>1 DEF NumbersInOrder
        <4>3. QED
          BY <4>1, <4>2 DEF Shell
      <3>3. QED
        BY <3>1, <3>2
    <2>2. /\ connecting' # 0 => ws' < MaxWorkspaces
          /\ Shell' => ws' # 0
      BY <1>1 DEF NumbersInOrder, Shell
    <2>3. QED
      BY <1>1, <2>1, <2>2 DEF NumbersInOrder
  <1>5. OpenedOnReturn'
    <2>1. ASSUME NEW p \in OpIds, op'[p].stage \in {"unused", "intent", "running"}
          PROVE  pool'[p] = "none"
      <3>1. p # o /\ op'[p] = op[p] /\ p \in Sessions
        BY <1>2, <2>1 DEF OpIds, Sessions
      <3>2. pool'[p] = pool[p]
        BY <3>1
      <3>3. QED
        BY <1>1, <2>1, <3>1, <3>2 DEF OpenedOnReturn
    <2>2. QED
      BY <2>1 DEF OpenedOnReturn
  <1>6. SessionHasOneOwner'
    <2>1. Carried' = Carried \ {o}
      BY <1>2 DEF Carried, Carries
    <2>2. QED
      BY <1>1, <2>1 DEF SessionHasOneOwner, Shell
  <1>7. ReadHere'
    <2>1. ASSUME NEW p \in OpIds, Shell', AwaitedRead(p)',
                 \/ op'[p].stage = "running"
                 \/ op'[p].stage = "reply" /\ op'[p].outcome = "ok"
          PROVE  op'[p].session = session'
      <3>1. p # o /\ op'[p] = op[p] /\ Shell
        BY <1>2, <2>1 DEF Shell
      <3>2. AwaitedRead(p)
        BY <2>1, <3>1 DEF AwaitedRead, Matches
      <3>3. QED
        BY <2>1, <3>1, <3>2 DEF Inv, ReadHere
    <2>2. QED
      BY <2>1 DEF ReadHere
  <1>8. QED
    BY <1>3, <1>4, <1>5, <1>6, <1>7 DEF Inv

\* A reply that carries no session leaves the pool as it is.
LEMMA NothingCarried ==
  ASSUME Inv, NEW o \in OpIds, UNCHANGED pool,
         ~Opens(op[o].kind) \/ op[o].outcome # "ok"
  PROVE  /\ pool' \in [Sessions -> {"none", "open", "closed", "closed twice"}]
         /\ \A s \in Sessions :
              pool'[s] = IF s = o /\ o \in Carried THEN "closed" ELSE pool[s]
  BY Typed DEF Inv, Carried, Carries

\* The workspace that is shown has a number, and its timers a generation.
LEMMA ShellNumbered ==
  ASSUME Inv, Shell PROVE ws \in Workspaces /\ generation \in Generations
  <1>1. ws \in 0..MaxWorkspaces /\ ws # 0
    BY Typed DEF Inv, NumbersInOrder
  <1>2. generation \in Generations
    BY DEF Inv, TypeOK, ShellType
  <1>3. QED
    BY <1>1, <1>2, Numbers DEF Workspaces

\* Every reply but that of a connect or a reconnect.
LEMMA DeliverSchemasInv ==
  ASSUME Inv, NEW o \in OpIds, DeliverSchemas(o) PROVE Inv'
  <1>1. op[o].stage = "reply" /\ op[o].kind = "schemas" /\ Shell
    BY DEF DeliverSchemas, Arrives, Awaited
  <1>2. ticks' \in [Workspaces -> [Generations -> 0..MaxTicks]]
    <2>1. ws \in Workspaces /\ generation \in Generations
      BY <1>1, ShellNumbered
    <2>2. QED
      BY <2>1, ScheduleType DEF DeliverSchemas, Inv
  <1>3. QED
    BY <1>1, <1>2, AnswerInv, NothingCarried
       DEF DeliverSchemas, RebuildHitboxes, rootVars, Opens

LEMMA DeliverRelationsInv ==
  ASSUME Inv, NEW o \in OpIds, DeliverRelations(o) PROVE Inv'
  <1>1. op[o].stage = "reply" /\ op[o].kind = "relations"
    BY DEF DeliverRelations, Arrives, Awaited
  <1>2. /\ ticks' \in [Workspaces -> [Generations -> 0..MaxTicks]]
        /\ unwatched' \in BOOLEAN
    BY DEF DeliverRelations, Inv, TypeOK, TimersType, timerVars
  <1>3. QED
    BY <1>1, <1>2, AnswerInv, NothingCarried
       DEF DeliverRelations, RebuildHitboxes, rootVars, Opens

LEMMA DeliverCheckedInv ==
  ASSUME Inv, NEW o \in OpIds, DeliverChecked(o) PROVE Inv'
  <1>1. op[o].stage = "reply" /\ op[o].kind = "health" /\ Shell
    BY DEF DeliverChecked, Arrives, Awaited
  <1>2. /\ ticks' \in [Workspaces -> [Generations -> 0..MaxTicks]]
        /\ unwatched' \in BOOLEAN
    <2>1. CASE Schedule(ws, generation) /\ unwatched' = FALSE
      BY <1>1, <2>1, ShellNumbered, ScheduleType DEF Inv
    <2>2. CASE UNCHANGED timerVars
      BY <2>2 DEF Inv, TypeOK, TimersType, timerVars
    <2>3. QED
      BY <2>1, <2>2 DEF DeliverChecked
  <1>3. tree \in {"empty", "listed", "loaded"}
    BY DEF Inv, TypeOK, ShellType
  <1>4. QED
    BY <1>1, <1>2, <1>3, AnswerInv, NothingCarried
       DEF DeliverChecked, rootVars, shellVars, Opens

LEMMA FailuresInv ==
  ASSUME Inv, NEW o \in OpIds
  PROVE  (DeliverConnectFailed(o) => Inv') /\ (DeliverFailed(o) => Inv')
  <1>1. /\ ticks \in [Workspaces -> [Generations -> 0..MaxTicks]]
        /\ unwatched \in BOOLEAN /\ tree \in {"empty", "listed", "loaded"}
    BY DEF Inv, TypeOK, TimersType, ShellType
  <1>2. ASSUME DeliverConnectFailed(o) PROVE Inv'
    <2>1. op[o].stage = "reply" /\ op[o].outcome # "ok"
      BY <1>2 DEF DeliverConnectFailed, Awaited
    <2>2. QED
      BY <1>1, <1>2, <2>1, AnswerInv, NothingCarried
         DEF DeliverConnectFailed, requestVars, shellVars, timerVars
  <1>3. ASSUME DeliverFailed(o) PROVE Inv'
    <2>1. op[o].stage = "reply" /\ op[o].outcome # "ok"
      BY <1>3 DEF DeliverFailed, Awaited
    <2>2. /\ connection' \in {connection, "connected", "lost"}
          /\ reconnectBox' \in {reconnectBox, "shown", "hidden"}
      BY <1>3 DEF DeliverFailed
    <2>3. /\ schemasRequest' \in {schemasRequest, 0}
          /\ healthRequest' \in {healthRequest, 0}
          /\ reconnectRequest' \in {reconnectRequest, 0}
          /\ relationsRequest' \in {relationsRequest, 0}
      BY <1>3 DEF DeliverFailed, Clear
    <2>4. unwatched' \in BOOLEAN
      BY <1>1, <1>3 DEF DeliverFailed
    <2>5. QED
      BY <1>1, <1>3, <2>1, <2>2, <2>3, <2>4, AnswerInv, NothingCarried
         DEF DeliverFailed, rootVars
  <1>4. QED
    BY <1>2, <1>3

\* The session of a reply that nobody awaits is closed.
LEMMA DeliverStaleInv ==
  ASSUME Inv, NEW o \in OpIds, DeliverStale(o) PROVE Inv'
  <1>1. /\ ticks \in [Workspaces -> [Generations -> 0..MaxTicks]]
        /\ unwatched \in BOOLEAN /\ tree \in {"empty", "listed", "loaded"}
        /\ pool \in [Sessions -> {"none", "open", "closed", "closed twice"}]
    BY DEF Inv, TypeOK, TimersType, ShellType, PoolType
  <1>2. op[o].stage = "reply" /\ o \in Sessions
    BY DEF DeliverStale, OpIds, Sessions
  <1>3. /\ pool' \in [Sessions -> {"none", "open", "closed", "closed twice"}]
        /\ \A s \in Sessions :
             pool'[s] = IF s = o /\ o \in Carried THEN "closed" ELSE pool[s]
    <2>1. CloseAll(IF o \in Carried THEN {o} ELSE {})
      BY <1>2 DEF DeliverStale, Carried, Carries
    <2>2. o \in Carried => Open(o)
      <3>1. o # NoSession
        BY DEF OpIds, NoSession
      <3>2. QED
        BY <1>2, <3>1 DEF Inv, SessionHasOneOwner, Open
    <2>3. QED
      BY <1>1, <2>1, <2>2 DEF CloseAll
  <1>4. QED
    BY <1>1, <1>2, <1>3, AnswerInv
       DEF DeliverStale, rootVars, requestVars, shellVars, timerVars

(***************************************************************************)
(* Sessions that are shown, replaced and given up.                         *)
(***************************************************************************)

\* Another session is shown; the one before is closed.
LEMMA SessionReplaced ==
  ASSUME Inv, NEW o \in OpIds, o \in Carried, session' = o,
         CloseAll({session} \ {NoSession}), closing' = closing,
         Carried' = Carried \ {o}
  PROVE  /\ SessionHasOneOwner'
         /\ pool' \in [Sessions -> {"none", "open", "closed", "closed twice"}]
         /\ \A s \in Sessions : pool[s] = "none" => pool'[s] = "none"
  <1>1. /\ SessionHasOneOwner /\ o # NoSession /\ NoSession \notin Sessions
        /\ o \in Sessions
        /\ pool \in [Sessions -> {"none", "open", "closed", "closed twice"}]
        /\ session \in Sessions \cup {NoSession}
    <2>1. o # NoSession /\ NoSession \notin Sessions /\ o \in Sessions
      BY DEF OpIds, Sessions, NoSession
    <2>2. session \in Sessions \cup {NoSession}
      BY DEF Inv, TypeOK, RootType
    <2>3. QED
      BY <2>1, <2>2, Typed DEF Inv
  <1>2. \A s \in Sessions :
          pool'[s] = IF s = session THEN "closed" ELSE pool[s]
    BY <1>1 DEF CloseAll, Open, SessionHasOneOwner
  <1>3. session # o
    BY <1>1 DEF SessionHasOneOwner
  <1>4. pool' \in [Sessions -> {"none", "open", "closed", "closed twice"}]
    BY <1>1 DEF CloseAll
  <1>5. SessionHasOneOwner'
    BY <1>1, <1>2, <1>3 DEF SessionHasOneOwner
  <1>6. \A s \in Sessions : pool[s] = "none" => pool'[s] = "none"
    BY <1>1, <1>2 DEF SessionHasOneOwner
  <1>7. QED
    BY <1>4, <1>5, <1>6

\* The reply is answered and the load of the schemas begins.
LEMMA LoadBegins ==
  ASSUME Inv, NEW o \in OpIds, op[o].stage = "reply", NEW ops \in [OpIds -> Ops],
         \A p \in OpIds : SameButCancelled(ops[p], Answered(o)[p]),
         NEW w \in 0..MaxWorkspaces, NEW req \in 0..MaxOps,
         Begin("schemas", w, req, ops)
  PROVE  /\ op' \in [OpIds -> Ops]
         /\ nextOp \in OpIds /\ nextOp' = nextOp + 1 /\ nextOp # o
         /\ nextOp' \in 1..(MaxOps + 1)
         /\ op[nextOp].stage = "unused"
         /\ op'[nextOp].kind = "schemas" /\ op'[nextOp].ws = w
         /\ op'[nextOp].req = req /\ op'[nextOp].stage = "intent"
         /\ op'[o].kind = "connect" /\ op'[o].ws = 0 /\ op'[o].stage = "done"
         /\ \A p \in OpIds :
              p # o /\ p # nextOp
              => SameButCancelled(op'[p], op[p])
         /\ Carried' = Carried \ {o}
  <1>1. TypeOK /\ NumbersInOrder
    BY DEF Inv
  <1>2. /\ Answered(o) \in [OpIds -> Ops]
        /\ Answered(o)[o].stage = "done" /\ Answered(o)[o].kind = "connect"
        /\ Answered(o)[o].ws = 0
        /\ \A p \in OpIds : p # o => Answered(o)[p] = op[p]
    BY <1>1, AnsweredDone
  <1>3. /\ op' \in [OpIds -> Ops]
        /\ nextOp \in OpIds /\ nextOp' = nextOp + 1
        /\ nextOp' \in 1..(MaxOps + 1)
        /\ op[nextOp].stage = "unused"
        /\ op'[nextOp].kind = "schemas" /\ op'[nextOp].ws = w
        /\ op'[nextOp].req = req /\ op'[nextOp].stage = "intent"
        /\ \A p \in OpIds : p # nextOp => op'[p] = ops[p]
    BY <1>1, BeginAdds DEF Kinds
  <1>4. nextOp # o
    BY <1>3
  <1>5. op'[o].kind = "connect" /\ op'[o].ws = 0 /\ op'[o].stage = "done"
    BY <1>2, <1>3, <1>4 DEF SameButCancelled
  <1>6. \A p \in OpIds :
          p # o /\ p # nextOp => SameButCancelled(op'[p], op[p])
    BY <1>2, <1>3
  <1>7. Carried' = Carried \ {o}
    BY <1>3, <1>5, <1>6 DEF Carried, Carries, SameButCancelled
  <1>8. QED
    BY <1>3, <1>4, <1>5, <1>6, <1>7

\* A reconnect and a connect load the schemas.
LEMMA ReconnectedLoads ==
  ASSUME Inv, NEW o \in OpIds, DeliverReconnected(o)
  PROVE  /\ nextOp \in OpIds /\ nextRequest \in 0..MaxOps
         /\ nextRequest \in 1..MaxOps
         /\ op' \in [OpIds -> Ops]
         /\ nextOp' = nextOp + 1 /\ nextOp # o
         /\ nextOp' \in 1..(MaxOps + 1)
         /\ op[nextOp].stage = "unused"
         /\ op'[nextOp].kind = "schemas" /\ op'[nextOp].ws = ws
         /\ op'[nextOp].req = nextRequest /\ op'[nextOp].stage = "intent"
         /\ op'[o].kind = "connect" /\ op'[o].ws = 0 /\ op'[o].stage = "done"
         /\ \A p \in OpIds :
              p # o /\ p # nextOp => SameButCancelled(op'[p], op[p])
         /\ Carried' = Carried \ {o}
  <1>1. /\ TypeOK /\ NumbersInOrder
        /\ op \in [OpIds -> Ops] /\ ws \in 0..MaxWorkspaces
        /\ nextRequest \in 1..(MaxOps + 1)
        /\ op[o].stage = "reply"
    BY Typed DEF Inv, DeliverReconnected, Arrives, Awaited
  <1>2. nextOp \in OpIds
    BY DEF DeliverReconnected, Begin
  <1>3. nextRequest \in 0..MaxOps /\ nextRequest \in 1..MaxOps
    BY <1>1, <1>2, Numbers DEF NumbersInOrder, OpIds
  <1>4. /\ CancelAll(Answered(o)) \in [OpIds -> Ops]
        /\ \A p \in OpIds :
             SameButCancelled(CancelAll(Answered(o))[p], Answered(o)[p])
    BY <1>1, AnsweredDone, CancelledSame DEF CancelAll
  <1>5. Begin("schemas", ws, nextRequest, CancelAll(Answered(o)))
    BY DEF DeliverReconnected
  <1>6. QED
    BY <1>1, <1>2, <1>3, <1>4, <1>5, LoadBegins
LEMMA ConnectedLoads ==
  ASSUME Inv, NEW o \in OpIds, DeliverConnected(o)
  PROVE  /\ nextOp \in OpIds
         /\ ws < MaxWorkspaces /\ ws + 1 \in 0..MaxWorkspaces
         /\ op' \in [OpIds -> Ops]
         /\ nextOp' = nextOp + 1 /\ nextOp # o
         /\ nextOp' \in 1..(MaxOps + 1)
         /\ op[nextOp].stage = "unused"
         /\ op'[nextOp].kind = "schemas" /\ op'[nextOp].ws = ws + 1
         /\ op'[nextOp].req = 1 /\ op'[nextOp].stage = "intent"
         /\ op'[o].kind = "connect" /\ op'[o].ws = 0 /\ op'[o].stage = "done"
         /\ \A p \in OpIds :
              p # o /\ p # nextOp => SameButCancelled(op'[p], op[p])
         /\ Carried' = Carried \ {o}
  <1>1. /\ TypeOK /\ NumbersInOrder
        /\ op \in [OpIds -> Ops] /\ ws \in 0..MaxWorkspaces /\ ws >= 0
        /\ op[o].stage = "reply" /\ connecting = o
    BY Typed DEF Inv, DeliverConnected, Arrives, Awaited, Matches
  <1>2. nextOp \in OpIds /\ o # 0
    BY DEF DeliverConnected, Begin, OpIds
  <1>3. ws < MaxWorkspaces /\ ws + 1 \in 0..MaxWorkspaces /\ 1 \in 0..MaxOps
    BY <1>1, <1>2, Numbers DEF NumbersInOrder
  <1>4. /\ Answered(o) \in [OpIds -> Ops]
        /\ \A p \in OpIds : SameButCancelled(Answered(o)[p], Answered(o)[p])
    BY <1>1, AnsweredDone DEF SameButCancelled
  <1>5. Begin("schemas", ws + 1, 1, Answered(o))
    BY DEF DeliverConnected
  <1>6. QED
    BY <1>1, <1>2, <1>3, <1>4, <1>5, LoadBegins

LEMMA DeliverReconnectedInv ==
  ASSUME Inv, NEW o \in OpIds, DeliverReconnected(o) PROVE Inv'
  <1>1. /\ TypeOK /\ NumbersInOrder /\ OpenedOnReturn
        /\ op \in [OpIds -> Ops] /\ ws \in 0..MaxWorkspaces
        /\ nextRequest \in 1..(MaxOps + 1) /\ nextOp \in 1..(MaxOps + 1)
        /\ generation \in Nat
    BY Typed DEF Inv
  <1>2. /\ op[o].stage = "reply" /\ Shell /\ o \in Carried
    BY DEF DeliverReconnected, Arrives, Awaited, Carried, Carries, Opens
  <1>3. UNCHANGED <<surface, connecting, leaves, closing, ws, tree, cancels>>
    BY DEF DeliverReconnected
  <1>4. nextOp \in OpIds /\ nextRequest \in 0..MaxOps /\ nextRequest \in 1..MaxOps
    BY ReconnectedLoads
  <1>5. /\ op' \in [OpIds -> Ops]
        /\ nextOp' = nextOp + 1 /\ nextOp # o
        /\ nextOp' \in 1..(MaxOps + 1)
        /\ op[nextOp].stage = "unused"
        /\ op'[nextOp].kind = "schemas" /\ op'[nextOp].ws = ws
        /\ op'[nextOp].req = nextRequest /\ op'[nextOp].stage = "intent"
        /\ op'[o].kind = "connect" /\ op'[o].ws = 0 /\ op'[o].stage = "done"
        /\ \A p \in OpIds :
             p # o /\ p # nextOp => SameButCancelled(op'[p], op[p])
        /\ Carried' = Carried \ {o}
    BY ReconnectedLoads
  <1>6. /\ SessionHasOneOwner'
        /\ pool' \in [Sessions -> {"none", "open", "closed", "closed twice"}]
        /\ \A s \in Sessions : pool[s] = "none" => pool'[s] = "none"
    BY <1>2, <1>3, <1>5, SessionReplaced DEF DeliverReconnected
  <1>7. OpenedOnReturn'
    <2>1. ASSUME NEW p \in OpIds, op'[p].stage \in {"unused", "intent", "running"}
          PROVE  pool'[p] = "none"
      <3>1. op[p].stage \in {"unused", "intent", "running"} /\ p \in Sessions
        BY <1>5, <2>1 DEF SameButCancelled, OpIds, Sessions
      <3>2. QED
        BY <1>1, <1>6, <3>1 DEF OpenedOnReturn
    <2>2. QED
      BY <2>1 DEF OpenedOnReturn
  <1>8. NumbersInOrder'
    <2>1. nextRequest' = nextRequest + 1 /\ generation' = generation + 1
      BY DEF DeliverReconnected, ForgetRequests
    <2>2. ASSUME NEW p \in OpIds
          PROVE  /\ op'[p].ws <= ws'
                 /\ Shell' /\ op'[p].kind # "connect" /\ op'[p].ws = ws'
                      => op'[p].req < nextRequest'
                 /\ p >= nextOp' => op'[p].stage = "unused"
      <3>1. CASE p = o
        <4>1. 0 <= ws /\ ~(o >= nextOp)
          BY <1>1, <1>2, Typed DEF NumbersInOrder
        <4>2. o \in Nat /\ nextOp \in Nat
          BY <1>4, Numbers DEF OpIds
        <4>3. QED
          BY <1>3, <1>5, <3>1, <4>1, <4>2
      <3>2. CASE p = nextOp
        BY <1>1, <1>3, <1>4, <1>5, <2>1, <3>2
      <3>3. CASE p # o /\ p # nextOp
        <4>1. SameButCancelled(op'[p], op[p]) /\ op[p].req \in Nat /\ p \in Nat
          BY <1>1, <1>5, <3>3 DEF Ops, OpIds
        <4>2. QED
          BY <1>1, <1>2, <1>3, <1>4, <1>5, <2>1, <3>3, <4>1
             DEF NumbersInOrder, SameButCancelled
      <3>4. QED
        BY <3>1, <3>2, <3>3
    <2>3. QED
      BY <1>1, <1>2, <1>3, <1>5, <2>1, <2>2 DEF NumbersInOrder, Shell
  <1>9. TypeOK'
    <2>1. ws \in Workspaces /\ generation + 1 \in Generations
      BY <1>1, <1>2, <1>4, ShellNumbered, Numbers
         DEF Generations, NumbersInOrder, OpIds
    <2>2. TimersType'
      BY <1>1, <2>1, ScheduleType DEF DeliverReconnected, TimersType
    <2>3. ShellType'
      <3>1. nextRequest' \in 1..(MaxOps + 1)
        BY <1>4, Numbers DEF DeliverReconnected, ForgetRequests
      <3>2. QED
        BY <1>1, <1>3, <1>4, <2>1, <3>1, Numbers
           DEF TypeOK, ShellType, DeliverReconnected, ForgetRequests
    <2>4. RootType'
      BY <1>1, <1>3 DEF TypeOK, RootType, DeliverReconnected, OpIds, Sessions
    <2>5. OperationsType'
      BY <1>1, <1>3, <1>5 DEF TypeOK, OperationsType, DeliverReconnected
    <2>6. QED
      BY <1>6, <2>2, <2>3, <2>4, <2>5 DEF TypeOK, PoolType
  <1>10. ReadHere'
    <2>1. /\ schemasRequest' = nextRequest /\ healthRequest' = 0
          /\ relationsRequest' = 0
      BY DEF DeliverReconnected, ForgetRequests
    <2>2. ASSUME NEW p \in OpIds, AwaitedRead(p)',
                 op'[p].stage \in {"running", "reply"}
          PROVE  FALSE
      <3>1. p # o /\ p # nextOp /\ SameButCancelled(op'[p], op[p])
        BY <1>5, <2>2
      <3>2. op[p].kind = "schemas" /\ op[p].ws = ws /\ op[p].req = nextRequest
        BY <1>3, <2>1, <2>2, <3>1 DEF AwaitedRead, Matches, SameButCancelled
      <3>3. QED
        BY <1>1, <1>2, <3>2 DEF NumbersInOrder
    <2>3. QED
      BY <2>2 DEF ReadHere
  <1>11. QED
    BY <1>6, <1>7, <1>8, <1>9, <1>10 DEF Inv

LEMMA DeliverConnectedInv ==
  ASSUME Inv, NEW o \in OpIds, DeliverConnected(o) PROVE Inv'
  <1>1. /\ TypeOK /\ NumbersInOrder /\ OpenedOnReturn
        /\ op \in [OpIds -> Ops] /\ ws \in 0..MaxWorkspaces /\ ws >= 0
        /\ nextOp \in 1..(MaxOps + 1)
    BY Typed DEF Inv
  <1>2. /\ op[o].stage = "reply" /\ connecting = o /\ o \in Carried
    BY DEF DeliverConnected, Arrives, Awaited, Matches, Carried, Carries, Opens
  <1>3. UNCHANGED <<leaves, closing, registry, cancels, ticks>>
    BY DEF DeliverConnected
  <1>4. /\ nextOp \in OpIds /\ o \in Nat /\ nextOp \in Nat /\ nextOp >= 1
        /\ o # 0
    <2>1. nextOp \in OpIds
      BY DEF DeliverConnected, Begin
    <2>2. QED
      BY <2>1, Numbers DEF OpIds
  <1>5. ws < MaxWorkspaces /\ ws + 1 \in 0..MaxWorkspaces /\ 1 \in 0..MaxOps
    BY ConnectedLoads, Numbers
  <1>6. /\ op' \in [OpIds -> Ops]
        /\ nextOp' = nextOp + 1 /\ nextOp # o
        /\ nextOp' \in 1..(MaxOps + 1)
        /\ op[nextOp].stage = "unused"
        /\ op'[nextOp].kind = "schemas" /\ op'[nextOp].ws = ws + 1
        /\ op'[nextOp].req = 1 /\ op'[nextOp].stage = "intent"
        /\ op'[o].kind = "connect" /\ op'[o].ws = 0 /\ op'[o].stage = "done"
        /\ \A p \in OpIds :
             p # o /\ p # nextOp => SameButCancelled(op'[p], op[p])
        /\ Carried' = Carried \ {o}
    BY ConnectedLoads
  <1>7. /\ SessionHasOneOwner'
        /\ pool' \in [Sessions -> {"none", "open", "closed", "closed twice"}]
        /\ \A s \in Sessions : pool[s] = "none" => pool'[s] = "none"
    BY <1>2, <1>3, <1>6, SessionReplaced DEF DeliverConnected
  <1>8. OpenedOnReturn'
    <2>1. ASSUME NEW p \in OpIds, op'[p].stage \in {"unused", "intent", "running"}
          PROVE  pool'[p] = "none"
      <3>1. op[p].stage \in {"unused", "intent", "running"} /\ p \in Sessions
        BY <1>6, <2>1 DEF SameButCancelled, OpIds, Sessions
      <3>2. QED
        BY <1>1, <1>7, <3>1 DEF OpenedOnReturn
    <2>2. QED
      BY <2>1 DEF OpenedOnReturn
  <1>9. \A p \in OpIds : op[p].ws <= ws /\ op[p].ws \in Nat
    BY <1>1 DEF NumbersInOrder, Ops
  <1>10. NumbersInOrder'
    <2>1. /\ nextRequest' = 2 /\ generation' = 1 /\ connecting' = 0
          /\ ws' = ws + 1
      BY DEF DeliverConnected
    <2>2. ASSUME NEW p \in OpIds
          PROVE  /\ op'[p].ws <= ws'
                 /\ Shell' /\ op'[p].kind # "connect" /\ op'[p].ws = ws'
                      => op'[p].req < nextRequest'
                 /\ p >= nextOp' => op'[p].stage = "unused"
      <3>1. CASE p = o
        <4>1. ~(o >= nextOp)
          BY <1>1, <1>2 DEF NumbersInOrder
        <4>2. QED
          BY <1>1, <1>4, <1>6, <2>1, <3>1, <4>1
      <3>2. CASE p = nextOp
        BY <1>1, <1>4, <1>6, <2>1, <3>2
      <3>3. CASE p # o /\ p # nextOp
        <4>1. SameButCancelled(op'[p], op[p]) /\ p \in Nat
          BY <1>6, <3>3 DEF OpIds
        <4>2. QED
          BY <1>1, <1>4, <1>6, <1>9, <2>1, <3>3, <4>1
             DEF NumbersInOrder, SameButCancelled
      <3>4. QED
        BY <3>1, <3>2, <3>3
    <2>3. QED
      BY <1>1, <1>4, <1>6, <2>1, <2>2 DEF NumbersInOrder
  <1>11. TypeOK'
    <2>1. TimersType'
      BY <1>1, <1>3 DEF TypeOK, TimersType, DeliverConnected
    <2>2. ShellType'
      <3>1. 1 \in Generations /\ 2 \in 1..(MaxOps + 1)
        BY Numbers DEF Generations
      <3>2. QED
        BY <1>5, <3>1, Numbers DEF ShellType, DeliverConnected
    <2>3. RootType'
      BY <1>1, <1>3 DEF TypeOK, RootType, DeliverConnected, OpIds, Sessions
    <2>4. registry' \subseteq {p \in OpIds : op'[p].stage = "running"}
      BY <1>1, <1>2, <1>3, <1>6, Typed DEF SameButCancelled
    <2>5. OperationsType'
      BY <1>1, <1>3, <1>6, <2>4 DEF TypeOK, OperationsType
    <2>6. QED
      BY <1>7, <2>1, <2>2, <2>3, <2>5 DEF TypeOK, PoolType
  <1>12. ReadHere'
    <2>1. ws' = ws + 1
      BY DEF DeliverConnected
    <2>2. ASSUME NEW p \in OpIds, AwaitedRead(p)',
                 op'[p].stage \in {"running", "reply"}
          PROVE  FALSE
      <3>1. p # o /\ p # nextOp /\ SameButCancelled(op'[p], op[p])
        BY <1>6, <2>2
      <3>2. op[p].ws = ws + 1
        BY <2>1, <2>2, <3>1 DEF AwaitedRead, Matches, SameButCancelled
      <3>3. QED
        BY <1>1, <1>9, <3>2, Numbers
    <2>3. QED
      BY <2>2 DEF ReadHere
  <1>13. QED
    BY <1>7, <1>8, <1>10, <1>11, <1>12 DEF Inv

\* The session that is shown passes to the command that will close it.
LEMMA DisconnectInv == ASSUME Inv, Disconnect PROVE Inv'
  <1>1. /\ UNCHANGED <<ws, op, nextOp, registry, cancels, ticks, pool>>
        /\ ~Shell' /\ connecting' = 0 /\ nextRequest' = 1 /\ generation' = 1
    BY DEF Disconnect, Blank, opVars, Shell
  <1>2. TypeOK'
    <2>1. TimersType' /\ OperationsType' /\ PoolType'
      BY <1>1 DEF Inv, TypeOK, TimersType, OperationsType, PoolType, Disconnect,
                  Blank
    <2>2. ShellType'
      <3>1. 1 \in Generations
        BY Numbers DEF Generations
      <3>2. QED
        BY <1>1, <3>1, Numbers DEF Inv, TypeOK, ShellType, Disconnect, Blank
    <2>3. RootType'
      <3>1. RootType
        BY DEF Inv, TypeOK
      <3>2. leaves' \in 0..MaxLeaves
        BY <3>1, Numbers DEF RootType, Disconnect
      <3>3. closing' \subseteq Sessions \cup {NoSession}
        BY <3>1 DEF RootType, Disconnect
      <3>4. QED
        BY <3>2, <3>3 DEF RootType, Disconnect
    <2>4. QED
      BY <2>1, <2>2, <2>3 DEF TypeOK
  <1>3. NumbersInOrder'
    <2>1. nextOp >= 1
      <3>1. nextOp \in 1..(MaxOps + 1)
        BY Typed DEF Inv
      <3>2. QED
        BY <3>1, Numbers
    <2>2. QED
      BY <1>1, <2>1 DEF Inv, NumbersInOrder
  <1>4. OpenedOnReturn' /\ ReadHere'
    BY <1>1 DEF Inv, OpenedOnReturn, ReadHere
  <1>5. SessionHasOneOwner'
    <2>1. Carried' = Carried
      BY <1>1 DEF Carried, Carries
    <2>2. NoSession \notin Sessions
      BY DEF NoSession, Sessions
    <2>3. QED
      BY <1>1, <2>1, <2>2 DEF Inv, SessionHasOneOwner, Disconnect
  <1>6. QED
    BY <1>2, <1>3, <1>4, <1>5 DEF Inv

(***************************************************************************)
(* Nothing is awaited in vain.                                             *)
(***************************************************************************)

UnderWay(o) == op[o].stage \in {"intent", "running", "reply"}

\* An operation that is under way still is after the step, and is the same one.
StillUnderWay(o) ==
  /\ UnderWay(o)'
  /\ op'[o].kind = op[o].kind /\ op'[o].ws = op[o].ws /\ op'[o].req = op[o].req

\* What a step may do with a request of a kind that was before and is after.
KeepsRequest(kind, before, after) ==
  after # 0 =>
    \/ /\ after = before
       /\ \A o \in OpIds : UnderWay(o) /\ Matches(o, kind, before) => StillUnderWay(o)
    \/ \E o \in OpIds :
         /\ UnderWay(o)' /\ op'[o].kind = kind
         /\ op'[o].ws = ws' /\ op'[o].req = after
KeepsRequests ==
  /\ KeepsRequest("schemas", schemasRequest, schemasRequest')
  /\ KeepsRequest("relations", relationsRequest, relationsRequest')
  /\ KeepsRequest("health", healthRequest, healthRequest')
  /\ KeepsRequest("reconnect", reconnectRequest, reconnectRequest')

LEMMA KeptIsLive ==
  ASSUME NEW kind, NEW before, NEW after, ws' = ws,
         KeepsRequest(kind, before, after), after # 0,
         before # 0 => Live(kind, before)
  PROVE  \E o \in OpIds :
           /\ UnderWay(o)' /\ op'[o].kind = kind
           /\ op'[o].ws = ws' /\ op'[o].req = after
  <1>1. CASE after = before
             /\ \A o \in OpIds :
                  UnderWay(o) /\ Matches(o, kind, before) => StillUnderWay(o)
    <2>1. PICK o \in OpIds : UnderWay(o) /\ Matches(o, kind, before)
      BY <1>1 DEF Live, UnderWay
    <2>2. StillUnderWay(o)
      BY <1>1, <2>1
    <2>3. QED
      BY <1>1, <2>1, <2>2 DEF StillUnderWay, Matches
  <1>2. QED
    BY <1>1 DEF KeepsRequest

LEMMA KeptNotInVain ==
  ASSUME NothingAwaitedInVain, Shell' => Shell, ws' = ws, Shell' => KeepsRequests
  PROVE  NothingAwaitedInVain'
  <1> SUFFICES ASSUME Shell'
               PROVE  /\ schemasRequest' # 0 => Live("schemas", schemasRequest)'
                      /\ relationsRequest' # 0
                           => Live("relations", relationsRequest)'
                      /\ healthRequest' # 0 => Live("health", healthRequest)'
                      /\ reconnectRequest' # 0
                           => Live("reconnect", reconnectRequest)'
    BY DEF NothingAwaitedInVain
  <1>1. /\ schemasRequest # 0 => Live("schemas", schemasRequest)
        /\ relationsRequest # 0 => Live("relations", relationsRequest)
        /\ healthRequest # 0 => Live("health", healthRequest)
        /\ reconnectRequest # 0 => Live("reconnect", reconnectRequest)
    BY DEF NothingAwaitedInVain
  <1>2. ASSUME schemasRequest' # 0 PROVE Live("schemas", schemasRequest)'
    <2>1. KeepsRequest("schemas", schemasRequest, schemasRequest')
      BY DEF KeepsRequests
    <2>2. \E o \in OpIds :
            /\ UnderWay(o)' /\ op'[o].kind = "schemas"
            /\ op'[o].ws = ws' /\ op'[o].req = schemasRequest'
      BY <1>1, <1>2, <2>1, KeptIsLive
    <2>3. QED
      BY <1>2, <2>2 DEF Live, UnderWay, Matches
  <1>3. ASSUME relationsRequest' # 0 PROVE Live("relations", relationsRequest)'
    <2>1. KeepsRequest("relations", relationsRequest, relationsRequest')
      BY DEF KeepsRequests
    <2>2. \E o \in OpIds :
            /\ UnderWay(o)' /\ op'[o].kind = "relations"
            /\ op'[o].ws = ws' /\ op'[o].req = relationsRequest'
      BY <1>1, <1>3, <2>1, KeptIsLive
    <2>3. QED
      BY <1>3, <2>2 DEF Live, UnderWay, Matches
  <1>4. ASSUME healthRequest' # 0 PROVE Live("health", healthRequest)'
    <2>1. KeepsRequest("health", healthRequest, healthRequest')
      BY DEF KeepsRequests
    <2>2. \E o \in OpIds :
            /\ UnderWay(o)' /\ op'[o].kind = "health"
            /\ op'[o].ws = ws' /\ op'[o].req = healthRequest'
      BY <1>1, <1>4, <2>1, KeptIsLive
    <2>3. QED
      BY <1>4, <2>2 DEF Live, UnderWay, Matches
  <1>5. ASSUME reconnectRequest' # 0 PROVE Live("reconnect", reconnectRequest)'
    <2>1. KeepsRequest("reconnect", reconnectRequest, reconnectRequest')
      BY DEF KeepsRequests
    <2>2. \E o \in OpIds :
            /\ UnderWay(o)' /\ op'[o].kind = "reconnect"
            /\ op'[o].ws = ws' /\ op'[o].req = reconnectRequest'
      BY <1>1, <1>5, <2>1, KeptIsLive
    <2>3. QED
      BY <1>5, <2>2 DEF Live, UnderWay, Matches
  <1>6. QED
    BY <1>2, <1>3, <1>4, <1>5

\* Requests that are as they were, while no operation ends.
LEMMA NobodyEnds ==
  ASSUME UNCHANGED requestVars,
         \A o \in OpIds : UnderWay(o) => StillUnderWay(o)
  PROVE  KeepsRequests
  BY DEF KeepsRequests, KeepsRequest, requestVars

\* Nothing ends when an operation begins.
LEMMA BeginEndsNobody ==
  ASSUME Inv, NEW kind \in Kinds, NEW w \in 0..MaxWorkspaces,
         NEW req \in 0..MaxOps, Begin(kind, w, req, op)
  PROVE  /\ \A o \in OpIds : UnderWay(o) => StillUnderWay(o)
         /\ nextOp \in OpIds /\ op'[nextOp].stage = "intent"
         /\ op'[nextOp].kind = kind /\ op'[nextOp].ws = w
         /\ op'[nextOp].req = req
  <1>1. TypeOK /\ NumbersInOrder /\ op \in [OpIds -> Ops]
    BY Typed DEF Inv
  <1>2. /\ nextOp \in OpIds
        /\ op[nextOp].stage = "unused"
        /\ op'[nextOp].kind = kind /\ op'[nextOp].ws = w
        /\ op'[nextOp].req = req /\ op'[nextOp].stage = "intent"
        /\ \A o \in OpIds : o # nextOp => op'[o] = op[o]
    BY <1>1, BeginAdds
  <1>3. ASSUME NEW o \in OpIds, UnderWay(o) PROVE StillUnderWay(o)
    <2>1. o # nextOp
      BY <1>2, <1>3 DEF UnderWay
    <2>2. op'[o] = op[o]
      BY <1>2, <2>1
    <2>3. QED
      BY <1>3, <2>2 DEF UnderWay, StillUnderWay
  <1>4. QED
    BY <1>2, <1>3

\* A request of the shell begins: it is the newest operation, the others go on.
LEMMA RequestAwaited ==
  ASSUME Inv, NothingAwaitedInVain, Shell,
         NEW kind \in Kinds \ {"connect"}, BeginRequest(kind, op),
         UNCHANGED <<surface, ws, connecting, generation, registry, session,
                     closing, pool>>,
         schemasRequest' = IF kind = "schemas" THEN nextRequest
                                               ELSE schemasRequest,
         relationsRequest' = IF kind = "relations" THEN nextRequest
                                                   ELSE relationsRequest,
         healthRequest' = IF kind = "health" THEN nextRequest ELSE healthRequest,
         reconnectRequest' = IF kind = "reconnect" THEN nextRequest
                                                   ELSE reconnectRequest
  PROVE  NothingAwaitedInVain'
  <1>1. nextRequest \in 1..MaxOps
    BY RequestBegins
  <1>2. nextRequest \in 0..MaxOps /\ ws \in 0..MaxWorkspaces
    <2>1. nextRequest \in 0..MaxOps
      BY <1>1, Numbers
    <2>2. QED
      BY <2>1, Typed DEF Inv
  <1>3. /\ \A o \in OpIds : UnderWay(o) => StillUnderWay(o)
        /\ nextOp \in OpIds /\ op'[nextOp].stage = "intent"
        /\ op'[nextOp].kind = kind /\ op'[nextOp].ws = ws
        /\ op'[nextOp].req = nextRequest
    BY <1>2, BeginEndsNobody DEF BeginRequest
  <1>4. \E o \in OpIds : /\ UnderWay(o)' /\ op'[o].kind = kind
                         /\ op'[o].ws = ws' /\ op'[o].req = nextRequest
    BY <1>3 DEF UnderWay
  <1>5. KeepsRequests
    BY <1>3, <1>4 DEF KeepsRequests, KeepsRequest
  <1>6. QED
    BY <1>5, KeptNotInVain DEF Shell

\* A reply is handled: nobody awaits it any more.
Released(o, kind, before, after) ==
  \/ after = 0
  \/ after = before /\ ~Matches(o, kind, before)
LEMMA AnswerAwaited ==
  ASSUME Inv, NothingAwaitedInVain, NEW o \in OpIds, op' = Answered(o),
         UNCHANGED <<surface, ws>>,
         Shell =>
           /\ Released(o, "schemas", schemasRequest, schemasRequest')
           /\ Released(o, "relations", relationsRequest, relationsRequest')
           /\ Released(o, "health", healthRequest, healthRequest')
           /\ Released(o, "reconnect", reconnectRequest, reconnectRequest')
  PROVE  NothingAwaitedInVain'
  <1>1. \A p \in OpIds : p # o => op'[p] = op[p]
    BY AnsweredDone DEF Inv
  <1>2. \A p \in OpIds : p # o /\ UnderWay(p) => StillUnderWay(p)
    BY <1>1 DEF UnderWay, StillUnderWay
  <1>3. Shell => KeepsRequests
    BY <1>2 DEF KeepsRequests, KeepsRequest, Released
  <1>4. QED
    BY <1>3, KeptNotInVain DEF Shell

LEMMA BegunAwaited ==
  ASSUME Inv, NothingAwaitedInVain
  PROVE  /\ Connect => NothingAwaitedInVain'
         /\ ToggleSchema => NothingAwaitedInVain'
         /\ RefreshSchemas => NothingAwaitedInVain'
         /\ Reconnect => NothingAwaitedInVain'
         /\ \A w \in Workspaces, g \in Generations :
              HealthCheckDue(w, g) => NothingAwaitedInVain'
  <1>1. {"schemas", "relations", "health", "reconnect"} \subseteq Kinds \ {"connect"}
    BY DEF Kinds
  <1>2. ASSUME Connect PROVE NothingAwaitedInVain'
    <2>1. Begin("connect", 0, nextOp, op) /\ nextOp \in OpIds
      BY <1>2 DEF Connect, Begin
    <2>2. nextOp \in 0..MaxOps /\ 0 \in 0..MaxWorkspaces /\ "connect" \in Kinds
      BY <2>1, Numbers DEF OpIds, Kinds
    <2>3. \A o \in OpIds : UnderWay(o) => StillUnderWay(o)
      BY <2>1, <2>2, BeginEndsNobody
    <2>4. QED
      BY <1>2, <2>3, NobodyEnds, KeptNotInVain DEF Connect, Shell, shellVars
  <1>3. ASSUME ToggleSchema PROVE NothingAwaitedInVain'
    BY <1>1, <1>3, RequestAwaited DEF ToggleSchema, rootVars
  <1>4. ASSUME RefreshSchemas PROVE NothingAwaitedInVain'
    BY <1>1, <1>4, RequestAwaited DEF RefreshSchemas, rootVars
  <1>5. ASSUME Reconnect PROVE NothingAwaitedInVain'
    BY <1>1, <1>5, RequestAwaited DEF Reconnect, rootVars
  <1>6. ASSUME NEW w \in Workspaces, NEW g \in Generations, HealthCheckDue(w, g)
        PROVE  NothingAwaitedInVain'
    BY <1>1, <1>6, RequestAwaited DEF HealthCheckDue, Current, rootVars
  <1>7. QED
    BY <1>2, <1>3, <1>4, <1>5, <1>6

LEMMA RunningAwaited ==
  ASSUME Inv, NothingAwaitedInVain
  PROVE  /\ \A o \in OpIds :
              Dispatch(o) \/ Succeed(o) \/ Fail(o) => NothingAwaitedInVain'
         /\ \A n \in cancels : DeliverCancel(n) => NothingAwaitedInVain'
         /\ \A s \in Sessions \cup {NoSession} :
              CloseWorkspace(s) => NothingAwaitedInVain'
  <1>1. op \in [OpIds -> Ops]
    BY Typed DEF Inv
  <1>2. ASSUME NEW o \in OpIds, Dispatch(o) PROVE NothingAwaitedInVain'
    <2>1. \A p \in OpIds : UnderWay(p) => StillUnderWay(p)
      BY <1>1, <1>2 DEF Dispatch, UnderWay, StillUnderWay, Ops
    <2>2. QED
      BY <1>2, <2>1, NobodyEnds, KeptNotInVain
         DEF Dispatch, Shell, rootVars, shellVars
  <1>3. ASSUME NEW o \in OpIds, NEW outcome \in {"ok", "failed", "cancelled"},
               Return(o, outcome)
        PROVE  NothingAwaitedInVain'
    <2>1. /\ op'[o].kind = op[o].kind /\ op'[o].ws = op[o].ws
          /\ op'[o].req = op[o].req /\ op'[o].stage = "reply"
          /\ \A p \in OpIds : p # o => op'[p] = op[p]
      BY <1>3, ReturnKeeps
    <2>2. \A p \in OpIds : UnderWay(p) => StillUnderWay(p)
      BY <2>1 DEF UnderWay, StillUnderWay
    <2>3. QED
      BY <1>3, <2>2, NobodyEnds, KeptNotInVain
         DEF Return, Shell, rootVars, shellVars
  <1>4. ASSUME NEW S, op' = Cancelled(op, S), UNCHANGED requestVars,
               UNCHANGED <<surface, ws>>
        PROVE  NothingAwaitedInVain'
    <2>1. \A p \in OpIds : UnderWay(p) => StillUnderWay(p)
      BY <1>1, <1>4, CancelledSame DEF UnderWay, StillUnderWay, SameButCancelled
    <2>2. QED
      BY <1>4, <2>1, NobodyEnds, KeptNotInVain DEF Shell
  <1>5. ASSUME NEW o \in OpIds, Succeed(o) \/ Fail(o) PROVE NothingAwaitedInVain'
    BY <1>3, <1>5 DEF Succeed, Fail
  <1>6. ASSUME NEW n \in cancels, DeliverCancel(n) PROVE NothingAwaitedInVain'
    BY <1>4, <1>6 DEF DeliverCancel, rootVars, shellVars
  <1>7. ASSUME NEW s \in Sessions \cup {NoSession}, CloseWorkspace(s)
        PROVE  NothingAwaitedInVain'
    BY <1>4, <1>7 DEF CloseWorkspace, CancelAll, shellVars
  <1>8. QED
    BY <1>2, <1>5, <1>6, <1>7

LEMMA AnsweredAwaited ==
  ASSUME Inv, NothingAwaitedInVain, NEW o \in OpIds, Deliver(o)
  PROVE  NothingAwaitedInVain'
  <1> DEFINE released ==
        /\ Released(o, "schemas", schemasRequest, schemasRequest')
        /\ Released(o, "relations", relationsRequest, relationsRequest')
        /\ Released(o, "health", healthRequest, healthRequest')
        /\ Released(o, "reconnect", reconnectRequest, reconnectRequest')
  <1>1. ASSUME op' = Answered(o), UNCHANGED <<surface, ws>>, Shell => released
        PROVE  NothingAwaitedInVain'
    BY <1>1, AnswerAwaited
  <1>2. CASE DeliverSchemas(o)
    <2>1. released
      BY <1>2 DEF DeliverSchemas, Arrives, Matches, Released, rootVars
    <2>2. QED
      BY <1>1, <1>2, <2>1 DEF DeliverSchemas, rootVars
  <1>3. CASE DeliverRelations(o)
    <2>1. released
      BY <1>3 DEF DeliverRelations, Arrives, Matches, Released, rootVars
    <2>2. QED
      BY <1>1, <1>3, <2>1 DEF DeliverRelations, rootVars
  <1>4. CASE DeliverChecked(o)
    <2>1. released
      BY <1>4 DEF DeliverChecked, Arrives, Matches, Released, rootVars
    <2>2. QED
      BY <1>1, <1>4, <2>1 DEF DeliverChecked, rootVars, shellVars
  <1>5. CASE DeliverConnectFailed(o)
    <2>1. released
      BY <1>5 DEF DeliverConnectFailed, Matches, Released, requestVars
    <2>2. QED
      BY <1>1, <1>5, <2>1 DEF DeliverConnectFailed, shellVars
  <1>6. CASE DeliverFailed(o)
    <2>1. released
      BY <1>6 DEF DeliverFailed, Clear, Matches, Released, rootVars
    <2>2. QED
      BY <1>1, <1>6, <2>1 DEF DeliverFailed, rootVars
  <1>7. CASE DeliverStale(o)
    <2>1. Shell => released
      BY <1>7 DEF DeliverStale, Awaited, Released, requestVars
    <2>2. QED
      BY <1>1, <1>7, <2>1 DEF DeliverStale, rootVars, shellVars
  <1>8. CASE DeliverReconnected(o)
    BY <1>8, ReconnectedLoads
       DEF DeliverReconnected, ForgetRequests, NothingAwaitedInVain, Live, Matches
  <1>9. CASE DeliverConnected(o)
    BY <1>9, ConnectedLoads
       DEF DeliverConnected, NothingAwaitedInVain, Live, Matches
  <1>10. QED
    BY <1>2, <1>3, <1>4, <1>5, <1>6, <1>7, <1>8, <1>9 DEF Deliver

LEMMA StepAwaited == Inv /\ NothingAwaitedInVain /\ [Next]_vars
                     => NothingAwaitedInVain'
  <1> SUFFICES ASSUME Inv, NothingAwaitedInVain, [Next]_vars
               PROVE  NothingAwaitedInVain'
    OBVIOUS
  <1>1. ASSUME UNCHANGED <<surface, ws, op>>, UNCHANGED requestVars
        PROVE  NothingAwaitedInVain'
    BY <1>1 DEF NothingAwaitedInVain, Live, Matches, Shell, requestVars
  <1>2. CASE CancelConnect \/ CancelActive \/ RequestLeave
    BY <1>1, <1>2
       DEF CancelConnect, CancelActive, RequestLeave, rootVars, shellVars, opVars
  <1>3. CASE Connect \/ ToggleSchema \/ RefreshSchemas \/ Reconnect
    BY <1>3, BegunAwaited
  <1>4. ASSUME NEW o \in OpIds,
               Dispatch(o) \/ Succeed(o) \/ Fail(o) \/ Deliver(o)
        PROVE  NothingAwaitedInVain'
    BY <1>4, RunningAwaited, AnsweredAwaited
  <1>5. ASSUME NEW n \in cancels, DeliverCancel(n) PROVE NothingAwaitedInVain'
    BY <1>5, RunningAwaited
  <1>6. ASSUME NEW w \in Workspaces, NEW g \in Generations, HealthCheckDue(w, g)
        PROVE  NothingAwaitedInVain'
    BY <1>6, BegunAwaited
  <1>7. ASSUME NEW w \in Workspaces, NEW g \in Generations,
               HealthCheckNotDue(w, g)
        PROVE  NothingAwaitedInVain'
    BY <1>1, <1>7 DEF HealthCheckNotDue, rootVars, shellVars, opVars
  <1>8. CASE Disconnect
    BY <1>8 DEF Disconnect, NothingAwaitedInVain, Shell
  <1>9. ASSUME NEW s \in Sessions \cup {NoSession}, CloseWorkspace(s)
        PROVE  NothingAwaitedInVain'
    BY <1>9, RunningAwaited
  <1>10. CASE UNCHANGED vars
    BY <1>1, <1>10 DEF vars, rootVars, shellVars, opVars
  <1>11. QED
    BY <1>2, <1>3, <1>4, <1>5, <1>6, <1>7, <1>8, <1>9, <1>10 DEF Next, Input

(***************************************************************************)
(* The connection is watched.                                              *)
(***************************************************************************)

\* The timers are numbers, and setting one starts it.
LEMMA Scheduled ==
  ASSUME Inv, NEW w \in Workspaces, NEW g \in Generations, Schedule(w, g)
  PROVE  ticks'[w][g] > 0
  <1>1. ticks \in [Workspaces -> [Generations -> 0..MaxTicks]]
    BY Typed DEF Inv
  <1>2. ticks[w][g] \in Nat
    BY <1>1, Numbers
  <1>3. ticks'[w][g] = ticks[w][g] + 1
    BY <1>1 DEF Schedule
  <1>4. QED
    BY <1>2, <1>3

LEMMA StepWatched == Inv /\ WatchedUnlessRefused /\ [Next]_vars
                     => WatchedUnlessRefused'
  <1> SUFFICES ASSUME Inv, WatchedUnlessRefused, [Next]_vars, Shell',
                      connection' = "connected", ~unwatched'
               PROVE  \/ ticks'[ws'][generation'] > 0
                      \/ healthRequest' # 0 \/ schemasRequest' # 0
    BY DEF WatchedUnlessRefused, Watched
  <1> USE DEF WatchedUnlessRefused, Watched, Shell, rootVars, requestVars,
              shellVars, opVars, timerVars
  <1>1. CASE Input
    BY <1>1 DEF Input, Connect, CancelConnect, ToggleSchema, RefreshSchemas,
                Reconnect, CancelActive, RequestLeave, BeginRequest
  <1>2. ASSUME NEW o \in OpIds, Dispatch(o) \/ Succeed(o) \/ Fail(o)
        PROVE  ticks'[ws'][generation'] > 0 \/ healthRequest' # 0
               \/ schemasRequest' # 0
    BY <1>2 DEF Dispatch, Succeed, Fail, Return
  <1>3. ASSUME NEW o \in OpIds, Deliver(o)
        PROVE  ticks'[ws'][generation'] > 0 \/ healthRequest' # 0
               \/ schemasRequest' # 0
    <2>1. CASE DeliverSchemas(o)
      <3>1. ws \in Workspaces /\ generation \in Generations
        BY <2>1, ShellNumbered DEF DeliverSchemas
      <3>2. QED
        BY <2>1, <3>1, Scheduled DEF DeliverSchemas
    <2>2. CASE DeliverRelations(o)
      BY <2>2 DEF DeliverRelations
    <2>3. CASE DeliverChecked(o)
      <3>1. Shell /\ connection = "connected"
        BY <2>3 DEF DeliverChecked
      <3>2. ws \in Workspaces /\ generation \in Generations
        BY <3>1, ShellNumbered
      <3>3. QED
        BY <2>3, <3>1, <3>2, Scheduled DEF DeliverChecked
    <2>4. CASE DeliverReconnected(o)
      <3>1. schemasRequest' \in 1..MaxOps
        BY <2>4, ReconnectedLoads DEF DeliverReconnected, ForgetRequests
      <3>2. QED
        BY <3>1
    <2>5. CASE DeliverConnected(o)
      BY <2>5 DEF DeliverConnected
    <2>6. CASE DeliverConnectFailed(o)
      BY <2>6 DEF DeliverConnectFailed
    <2>7. CASE DeliverFailed(o)
      BY <2>7 DEF DeliverFailed, Clear
    <2>8. CASE DeliverStale(o)
      BY <2>8 DEF DeliverStale
    <2>9. QED
      BY <1>3, <2>1, <2>2, <2>3, <2>4, <2>5, <2>6, <2>7, <2>8 DEF Deliver
  <1>4. ASSUME NEW n \in cancels, DeliverCancel(n)
        PROVE  ticks'[ws'][generation'] > 0 \/ healthRequest' # 0
               \/ schemasRequest' # 0
    BY <1>4 DEF DeliverCancel
  <1>5. ASSUME NEW w \in Workspaces, NEW g \in Generations, HealthCheckDue(w, g)
        PROVE  healthRequest' # 0
    <2>1. nextRequest \in 1..(MaxOps + 1) /\ healthRequest' = nextRequest
      BY <1>5, Typed DEF Inv, HealthCheckDue
    <2>2. QED
      BY <2>1
  <1>6. ASSUME NEW w \in Workspaces, NEW g \in Generations,
               HealthCheckNotDue(w, g)
        PROVE  ticks'[ws'][generation'] > 0 \/ healthRequest' # 0
               \/ schemasRequest' # 0
    <2>1. CASE w = ws /\ g = generation
      BY <1>6, <2>1 DEF HealthCheckNotDue, Current
    <2>2. CASE ~(w = ws /\ g = generation)
      <3>1. ticks \in [Workspaces -> [Generations -> 0..MaxTicks]]
            /\ ws \in Workspaces /\ generation \in Generations
        BY <1>6, Typed, ShellNumbered DEF Inv, HealthCheckNotDue
      <3>2. ticks'[ws][generation] = ticks[ws][generation]
        BY <1>6, <2>2, <3>1 DEF HealthCheckNotDue, Fires
      <3>3. QED
        BY <1>6, <3>2 DEF HealthCheckNotDue
    <2>3. QED
      BY <2>1, <2>2
  <1>7. CASE Disconnect
    BY <1>7 DEF Disconnect
  <1>8. ASSUME NEW s \in Sessions \cup {NoSession}, CloseWorkspace(s)
        PROVE  ticks'[ws'][generation'] > 0 \/ healthRequest' # 0
               \/ schemasRequest' # 0
    BY <1>8 DEF CloseWorkspace
  <1>9. CASE UNCHANGED vars
    BY <1>9 DEF vars
  <1>10. QED
    BY <1>1, <1>2, <1>3, <1>4, <1>5, <1>6, <1>7, <1>8, <1>9 DEF Next

(***************************************************************************)
(* The theorems.                                                           *)
(***************************************************************************)

LEMMA StepInv == Inv /\ [Next]_vars => Inv'
  <1> SUFFICES ASSUME Inv, [Next]_vars PROVE Inv'
    OBVIOUS
  <1>1. CASE Input
    <2>1. /\ CancelConnect => Inv'
          /\ CancelActive => Inv'
          /\ RequestLeave => Inv'
      BY QuietActionsInv
    <2>2. /\ ToggleSchema => Inv'
          /\ RefreshSchemas => Inv'
          /\ Reconnect => Inv'
      BY RequestsInv
    <2>3. QED
      BY <1>1, <2>1, <2>2, ConnectInv DEF Input
  <1>2. ASSUME NEW o \in OpIds, Dispatch(o) \/ Succeed(o) \/ Fail(o)
        PROVE  Inv'
    BY <1>2, DispatchInv, ReturnsInv
  <1>3. ASSUME NEW o \in OpIds, Deliver(o) PROVE Inv'
    BY <1>3, DeliverSchemasInv, DeliverRelationsInv, DeliverCheckedInv,
       DeliverReconnectedInv, DeliverConnectedInv, FailuresInv, DeliverStaleInv
       DEF Deliver
  <1>4. ASSUME NEW n \in cancels, DeliverCancel(n) PROVE Inv'
    BY <1>4, DeliverCancelInv
  <1>5. ASSUME NEW w \in Workspaces, NEW g \in Generations,
               HealthCheckDue(w, g) \/ HealthCheckNotDue(w, g)
        PROVE  Inv'
    BY <1>5, RequestsInv, QuietActionsInv
  <1>6. CASE Disconnect
    BY <1>6, DisconnectInv
  <1>7. ASSUME NEW s \in Sessions \cup {NoSession}, CloseWorkspace(s)
        PROVE  Inv'
    BY <1>7, CloseWorkspaceInv
  <1>8. CASE UNCHANGED vars
    BY <1>8, QuietActionsInv
  <1>9. QED
    BY <1>1, <1>2, <1>3, <1>4, <1>5, <1>6, <1>7, <1>8 DEF Next

\* The invariant holds throughout, in every interleaving of operations, replies,
\* cancellations, timers and disconnects.
THEOREM WorkspaceInvariant == Spec => []Inv
  <1>1. Inv /\ [Next]_vars => Inv'
    BY StepInv
  <1>2. QED
    BY <1>1, InitInv, PTL DEF Spec

\* The variables keep their types (model.go of the workspace and of the app).
THEOREM TypeCorrect == Spec => []TypeOK
  <1>1. Inv => TypeOK
    BY DEF Inv
  <1>2. QED
    BY <1>1, WorkspaceInvariant, PTL

\* Every session that a connect or a reconnect opened has one owner, and is closed
\* once (disconnectWorkspace, connectionSucceededMsg, reconnectionSucceededMsg).
THEOREM OneOwner == Spec => []SessionHasOneOwner
  <1>1. Inv => SessionHasOneOwner
    BY DEF Inv
  <1>2. QED
    BY <1>1, WorkspaceInvariant, PTL

\* What is taken for an answer was read through the session that is open when it
\* is handled (core.RequestMeta, matches).
THEOREM ThisSessionAnswers == Spec => AnswersOfThisSession
  <1>1. Inv => \A o \in OpIds :
                 Awaited(o) /\ ~Opens(op[o].kind) /\ op[o].outcome = "ok"
                 => op[o].session = session
    BY DEF Inv, ReadHere, AwaitedRead, Awaited, Matches, Opens
  <1>2. Inv /\ [Next]_vars
        => [\A o \in OpIds :
              Awaited(o) /\ op'[o].stage = "done" /\ ~Opens(op[o].kind)
                /\ op[o].outcome = "ok"
              => op[o].session = session]_vars
    BY <1>1
  <1>3. QED
    BY <1>2, WorkspaceInvariant, PTL DEF Spec, AnswersOfThisSession

\* What the shell waits for is under way: no reply is dropped, and no operation
\* replaced, that leaves it loading for ever (matches, handleFailure).
THEOREM NothingInVain == Spec => []NothingAwaitedInVain
  <1>1. Init => NothingAwaitedInVain
    BY DEF Init, NothingAwaitedInVain, Shell
  <1>2. QED
    BY <1>1, StepAwaited, WorkspaceInvariant, PTL DEF Spec

\* A workspace that is connected is checked again, unless a check or a load was
\* cancelled or refused (scheduleHealthCheck, healthCheckDueMsg).
THEOREM StaysWatched == Spec => []WatchedUnlessRefused
  <1>1. Init => WatchedUnlessRefused
    BY DEF Init, WatchedUnlessRefused, Watched, Shell
  <1>2. QED
    BY <1>1, StepWatched, WorkspaceInvariant, PTL DEF Spec

(***************************************************************************)
(* Sessions live as SessionLife says.                                      *)
(***************************************************************************)

\* Since every open session has one owner, its place follows from who shows it and
\* who will close it.
Place(s) ==
  IF pool[s] # "open" THEN pool[s]
  ELSE IF s = session THEN "current"
  ELSE IF s \in closing THEN "leaving"
  ELSE "offered"

Lived == [s \in Sessions |-> Place(s)]

LEMMA LifeIsPlace == Inv => [s \in Sessions |-> Life(s)] = Lived
  <1> SUFFICES ASSUME Inv, NEW s \in Sessions PROVE Life(s) = Place(s)
    BY DEF Lived
  <1>1. s \in OpIds
    BY DEF OpIds, Sessions
  <1>2. Carries(s) <=> s \in Carried
    BY <1>1 DEF Carried
  <1>3. /\ pool[s] = "open" <=> s = session \/ s \in closing \/ Carries(s)
        /\ ~(s = session /\ s \in closing)
        /\ ~(Carries(s) /\ (s = session \/ s \in closing))
    BY <1>2 DEF Inv, SessionHasOneOwner
  <1> HIDE DEF Inv
  <1>4. CASE pool[s] # "open"
    BY <1>3, <1>4 DEF Life, Place
  <1>5. CASE pool[s] = "open" /\ s = session
    BY <1>3, <1>5 DEF Life, Place
  <1>6. CASE pool[s] = "open" /\ s # session /\ s \in closing
    BY <1>3, <1>6 DEF Life, Place
  <1>7. CASE pool[s] = "open" /\ s # session /\ s \notin closing
    BY <1>3, <1>7 DEF Life, Place
  <1>8. QED
    BY <1>4, <1>5, <1>6, <1>7

LEMMA LifeIsPlaceNext == (Inv => [s \in Sessions |-> Life(s)] = Lived)'
  BY LifeIsPlace, PTL

\* What the abstract actions say of places.
Moved(s, from, to) == Place(s) = from /\ Lived' = [Lived EXCEPT ![s] = to]
LivesOn ==
  \/ Lived' = Lived /\ Shell' = Shell
  \/ \E s \in Sessions :
       \/ Moved(s, "none", "offered") /\ Shell' = Shell
       \/ /\ Place(s) = "offered"
          /\ Lived' = [t \in Sessions |-> IF t = s THEN "current"
                                          ELSE IF Lived[t] = "current" THEN "closed"
                                          ELSE Lived[t]]
          /\ Shell' = TRUE
       \/ Moved(s, "offered", "closed") /\ Shell' = Shell
       \/ Moved(s, "current", "leaving") /\ Shell' = FALSE
       \/ Moved(s, "leaving", "closed") /\ Shell' = Shell

LEMMA LivesOnIsStep == Inv /\ Inv' /\ LivesOn => [Lives!Next]_(Lives!vars)
  <1> SUFFICES ASSUME Inv, Inv', LivesOn PROVE [Lives!Next]_(Lives!vars)
    OBVIOUS
  <1>1. /\ [s \in Sessions |-> Life(s)] = Lived
        /\ [s \in Sessions |-> Life(s)]' = Lived'
    BY LifeIsPlace, LifeIsPlaceNext
  <1>2. /\ \A s \in Sessions : Lived[s] = Place(s)
        /\ Shell \in BOOLEAN /\ Shell' \in BOOLEAN
    BY DEF Lived, Shell
  <1>3. CASE Lived' = Lived /\ Shell' = Shell
    BY <1>1, <1>3 DEF Lives!vars
  <1>4. ASSUME NEW s \in Sessions, NEW from, NEW to, from # to, Moved(s, from, to)
        PROVE  /\ Lives!Moves(s, from, to)
               /\ Lived'[s] # Lived[s]
    <2>1. Lived[s] = from /\ Lived' = [Lived EXCEPT ![s] = to] /\ Lived'[s] = to
      BY <1>2, <1>4 DEF Moved, Lived
    <2>2. QED
      BY <1>1, <1>4, <2>1 DEF Lives!Moves
  <1>5. ASSUME NEW s \in Sessions, Moved(s, "none", "offered"), Shell' = Shell
        PROVE  Lives!Next
    BY <1>1, <1>4, <1>5 DEF Lives!Next, Lives!Offer
  <1>6. ASSUME NEW s \in Sessions, Moved(s, "offered", "closed"), Shell' = Shell
        PROVE  Lives!Next
    BY <1>1, <1>4, <1>6 DEF Lives!Next, Lives!Decline
  <1>7. ASSUME NEW s \in Sessions, Moved(s, "current", "leaving"), Shell' = FALSE
        PROVE  Lives!Next
    BY <1>1, <1>4, <1>7 DEF Lives!Next, Lives!Leave
  <1>8. ASSUME NEW s \in Sessions, Moved(s, "leaving", "closed"), Shell' = Shell
        PROVE  Lives!Next
    BY <1>1, <1>4, <1>8 DEF Lives!Next, Lives!Close
  <1>9. ASSUME NEW s \in Sessions, Place(s) = "offered", Shell' = TRUE,
               Lived' = [t \in Sessions |-> IF t = s THEN "current"
                                            ELSE IF Lived[t] = "current" THEN "closed"
                                            ELSE Lived[t]]
        PROVE  Lives!Next
    <2>1. Lived[s] = "offered" /\ Lived'[s] = "current"
      BY <1>2, <1>9
    <2>2. QED
      BY <1>1, <1>9, <2>1 DEF Lives!Next, Lives!Adopt
  <1>10. QED
    BY <1>3, <1>5, <1>6, <1>7, <1>8, <1>9 DEF LivesOn

\* Who leaves the sessions and their owners alone moves none.
LEMMA NoneMoves ==
  ASSUME UNCHANGED <<surface, session, closing, pool>> PROVE LivesOn
  BY DEF LivesOn, Lived, Place, Shell

\* What the facts about owners say of places.
LEMMA Places ==
  ASSUME Inv
  PROVE  /\ NoSession \notin Sessions /\ OpIds = Sessions
         /\ pool \in [Sessions -> {"none", "open", "closed", "closed twice"}]
         /\ session \in Sessions \cup {NoSession}
         /\ session # NoSession => pool[session] = "open"
         /\ session \notin closing \/ session = NoSession
         /\ \A s \in Sessions : s \in closing => pool[s] = "open"
         /\ \A s \in Carried : /\ s \in Sessions /\ pool[s] = "open"
                               /\ s # session /\ s \notin closing
         /\ Shell => session # NoSession
  <1>1. NoSession \notin Sessions /\ OpIds = Sessions
    BY DEF NoSession, Sessions, OpIds
  <1>2. /\ pool \in [Sessions -> {"none", "open", "closed", "closed twice"}]
        /\ session \in Sessions \cup {NoSession}
    BY Typed DEF Inv, TypeOK, RootType
  <1>3. QED
    BY <1>1, <1>2 DEF Inv, SessionHasOneOwner, Carried

LEMMA SucceedLives == ASSUME Inv, NEW o \in OpIds, Succeed(o) PROVE LivesOn
  <1>1. UNCHANGED <<surface, session, closing>> /\ op[o].stage = "running"
    BY DEF Succeed, Return, rootVars
  <1>2. CASE UNCHANGED pool
    BY <1>1, <1>2, NoneMoves
  <1>3. CASE pool' = [pool EXCEPT ![o] = "open"]
    <2>1. pool[o] = "none" /\ o \in Sessions
      BY <1>1, Places DEF Inv, OpenedOnReturn
    <2>2. o # session /\ o \notin closing
      BY <2>1, Places
    <2>3. /\ pool'[o] = "open"
          /\ \A s \in Sessions : s # o => pool'[s] = pool[s]
      BY <1>3, <2>1, Places
    <2>4. Place(o) = "none" /\ Place(o)' = "offered"
      BY <1>1, <2>1, <2>2, <2>3 DEF Place
    <2>5. \A s \in Sessions : s # o => Place(s)' = Place(s)
      BY <1>1, <2>3 DEF Place
    <2>6. Moved(o, "none", "offered") /\ Shell' = Shell
      BY <1>1, <2>1, <2>4, <2>5 DEF Moved, Lived, Shell
    <2>7. QED
      BY <2>1, <2>6 DEF LivesOn
  <1>4. QED
    BY <1>2, <1>3 DEF Succeed

\* The session of a reply becomes the one that is shown.
LEMMA AdoptedLives ==
  ASSUME Inv, NEW o \in Carried, session' = o, Shell',
         CloseAll({session} \ {NoSession}), closing' = closing
  PROVE  LivesOn
  <1>1. /\ o \in Sessions /\ pool[o] = "open" /\ o # session /\ o \notin closing
    BY Places
  <1>2. \A s \in Sessions :
          pool'[s] = IF s = session THEN "closed" ELSE pool[s]
    BY Places DEF CloseAll, Open
  <1>3. Place(o) = "offered" /\ Place(o)' = "current"
    BY <1>1, <1>2 DEF Place
  <1>4. ASSUME NEW s \in Sessions, s # o
        PROVE  Place(s)' = IF Place(s) = "current" THEN "closed" ELSE Place(s)
    <2>1. CASE s = session
      BY <1>1, <1>2, <1>4, <2>1, Places DEF Place
    <2>2. CASE s # session
      <3>1. pool[s] # "current"
        BY Places
      <3>2. QED
        BY <1>2, <1>4, <2>2, <3>1 DEF Place
    <2>3. QED
      BY <2>1, <2>2
  <1>5. QED
    BY <1>1, <1>3, <1>4 DEF LivesOn, Lived

LEMMA DeliverLives == ASSUME Inv, NEW o \in OpIds, Deliver(o) PROVE LivesOn
  <1>1. CASE \/ DeliverSchemas(o) \/ DeliverRelations(o) \/ DeliverChecked(o)
             \/ DeliverConnectFailed(o) \/ DeliverFailed(o)
    BY <1>1, NoneMoves
       DEF DeliverSchemas, DeliverRelations, DeliverChecked, DeliverConnectFailed,
           DeliverFailed, rootVars
  <1>2. CASE DeliverReconnected(o)
    <2>1. o \in Carried /\ Shell
      BY <1>2 DEF DeliverReconnected, Arrives, Awaited, Carried, Carries, Opens
    <2>2. QED
      BY <1>2, <2>1, AdoptedLives DEF DeliverReconnected, Shell
  <1>3. CASE DeliverConnected(o)
    <2>1. o \in Carried
      BY <1>3 DEF DeliverConnected, Arrives, Awaited, Carried, Carries, Opens
    <2>2. QED
      BY <1>3, <2>1, AdoptedLives DEF DeliverConnected, Shell
  <1>4. CASE DeliverStale(o)
    <2>1. UNCHANGED <<surface, session, closing>> /\ op[o].stage = "reply"
      BY <1>4 DEF DeliverStale, rootVars
    <2>2. CASE o \notin Carried
      <3>1. CloseAll({})
        BY <1>4, <2>1, <2>2 DEF DeliverStale, Carried, Carries
      <3>2. pool' = pool
        BY <3>1, Places DEF CloseAll
      <3>3. QED
        BY <2>1, <3>2, NoneMoves
    <2>3. CASE o \in Carried
      <3>1. CloseAll({o})
        BY <1>4, <2>3 DEF DeliverStale, Carried, Carries
      <3>2. /\ o \in Sessions /\ pool[o] = "open" /\ o # session /\ o \notin closing
            /\ o # NoSession
        BY <2>3, Places
      <3>3. \A s \in Sessions : pool'[s] = IF s = o THEN "closed" ELSE pool[s]
        BY <3>1, <3>2 DEF CloseAll, Open
      <3>4. Place(o) = "offered" /\ Place(o)' = "closed"
        BY <3>2, <3>3 DEF Place
      <3>5. \A s \in Sessions : s # o => Place(s)' = Place(s)
        BY <2>1, <3>3 DEF Place
      <3>6. Moved(o, "offered", "closed") /\ Shell' = Shell
        BY <2>1, <3>2, <3>4, <3>5 DEF Moved, Lived, Shell
      <3>7. QED
        BY <3>2, <3>6 DEF LivesOn
    <2>4. QED
      BY <2>2, <2>3
  <1>5. QED
    BY <1>1, <1>2, <1>3, <1>4 DEF Deliver

LEMMA DisconnectLives == ASSUME Inv, Disconnect PROVE LivesOn
  <1>1. /\ UNCHANGED pool /\ session' = NoSession /\ ~Shell'
        /\ closing' = closing \cup {session}
    BY DEF Disconnect, Shell
  <1>2. CASE session = NoSession
    <2>1. ~Shell
      BY <1>2, Places
    <2>2. \A s \in Sessions : Place(s)' = Place(s)
      BY <1>1, <1>2, Places DEF Place
    <2>3. QED
      BY <1>1, <2>1, <2>2 DEF LivesOn, Lived, Shell
  <1>3. CASE session # NoSession
    <2>1. session \in Sessions /\ pool[session] = "open"
      BY <1>3, Places
    <2>2. Place(session) = "current"
      BY <2>1 DEF Place
    <2>3. \A s \in Sessions :
            Place(s)' = IF s = session THEN "leaving" ELSE Place(s)
      BY <1>1, <2>1, Places DEF Place
    <2>4. Moved(session, "current", "leaving") /\ Shell' = FALSE
      BY <1>1, <2>1, <2>2, <2>3 DEF Moved, Lived, Shell
    <2>5. QED
      BY <2>1, <2>4 DEF LivesOn
  <1>4. QED
    BY <1>2, <1>3

LEMMA CloseLives ==
  ASSUME Inv, NEW s \in Sessions \cup {NoSession}, CloseWorkspace(s) PROVE LivesOn
  <1>1. /\ UNCHANGED <<surface, session>> /\ s \in closing /\ closing' = closing \ {s}
        /\ CloseAll({s} \ {NoSession})
    BY DEF CloseWorkspace
  <1>2. CASE s = NoSession
    <2>1. pool' = pool
      BY <1>1, <1>2, Places DEF CloseAll
    <2>2. \A t \in Sessions : Place(t)' = Place(t)
      BY <1>1, <1>2, <2>1, Places DEF Place
    <2>3. QED
      BY <1>1, <2>2 DEF LivesOn, Lived, Shell
  <1>3. CASE s # NoSession
    <2>1. s \in Sessions /\ pool[s] = "open" /\ s # session
      BY <1>1, <1>3, Places
    <2>2. \A t \in Sessions : pool'[t] = IF t = s THEN "closed" ELSE pool[t]
      BY <1>1, <1>3, <2>1 DEF CloseAll, Open
    <2>3. Place(s) = "leaving" /\ Place(s)' = "closed"
      BY <1>1, <2>1, <2>2 DEF Place
    <2>4. \A t \in Sessions : t # s => Place(t)' = Place(t)
      BY <1>1, <2>2 DEF Place
    <2>5. Moved(s, "leaving", "closed") /\ Shell' = Shell
      BY <1>1, <2>1, <2>3, <2>4 DEF Moved, Lived, Shell
    <2>6. QED
      BY <2>1, <2>5 DEF LivesOn
  <1>4. QED
    BY <1>2, <1>3

LEMMA StepLives == Inv /\ [Next]_vars => LivesOn
  <1> SUFFICES ASSUME Inv, [Next]_vars PROVE LivesOn
    OBVIOUS
  <1>1. CASE Input
    BY <1>1, NoneMoves
       DEF Input, Connect, CancelConnect, ToggleSchema, RefreshSchemas, Reconnect,
           CancelActive, RequestLeave, rootVars
  <1>2. ASSUME NEW o \in OpIds, Dispatch(o) PROVE LivesOn
    BY <1>2, NoneMoves DEF Dispatch, rootVars
  <1>3. ASSUME NEW o \in OpIds, Fail(o) PROVE LivesOn
    BY <1>3, NoneMoves DEF Fail, Return, rootVars
  <1>4. ASSUME NEW n \in cancels, DeliverCancel(n) PROVE LivesOn
    BY <1>4, NoneMoves DEF DeliverCancel, rootVars
  <1>5. ASSUME NEW w \in Workspaces, NEW g \in Generations,
               HealthCheckDue(w, g) \/ HealthCheckNotDue(w, g)
        PROVE  LivesOn
    BY <1>5, NoneMoves DEF HealthCheckDue, HealthCheckNotDue, rootVars
  <1>6. CASE UNCHANGED vars
    BY <1>6, NoneMoves DEF vars, rootVars
  <1>7. QED
    BY <1>1, <1>2, <1>3, <1>4, <1>5, <1>6, SucceedLives, DeliverLives,
       DisconnectLives, CloseLives DEF Next

\* Sessions live as SessionLife says: one that is opened is adopted or closed, one
\* that is replaced or left is closed once, and a closed one is never shown again
\* (connectionSucceededMsg, reconnectionSucceededMsg, disconnectWorkspace).
THEOREM LivesOnce == Spec => SessionsLiveOnce
  <1>1. Init => Lives!Init
    BY DEF Init, Lives!Init, Life, Carries, NoOp, Opens, Shell, NoSession, Sessions,
           OpIds
  <1>2. Inv /\ Inv' /\ [Next]_vars => [Lives!Next]_(Lives!vars)
    BY StepLives, LivesOnIsStep
  <1>3. QED
    BY <1>1, <1>2, WorkspaceInvariant, PTL DEF Spec, SessionsLiveOnce, Lives!Spec
=============================================================================
