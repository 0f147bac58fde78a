------------------------------- MODULE SqlTab -------------------------------
(***************************************************************************)
(* SQL tabs and their runs: the reducer of a tab                           *)
(* (internal/sqltab/model.go), the execution of a batch on a connection of *)
(* the pool (internal/postgres/sql_executor.go), the router of notices     *)
(* (internal/postgres/notices.go), and the root model that dispatches and  *)
(* cancels runs (internal/app/model.go).                                   *)
(*                                                                         *)
(* Tabs run at the same time and share the pool.  A run takes a connection,*)
(* registers for its notices, reads the outputs of the batch, cleans the   *)
(* connection up and gives it back; it may be cancelled at any moment, and *)
(* the server may refuse a statement or go away.                           *)
(*                                                                         *)
(* Abstractions of data.  A text stands for what is submitted, whatever    *)
(* part of the editor that is.  A row and a notice have one byte, the      *)
(* columns of a result always the same number.  A statement is what it     *)
(* leaves behind: an output, an open transaction, state of the session.    *)
(* The editor, panes, the navigation in results and copying are left out.  *)
(***************************************************************************)
EXTENDS Naturals, FiniteSets, Sequences, SequencesExt

CONSTANTS
  Tabs, Connections, Texts,
  None,          \* no tab, no connection, the empty text
  MaxRowsPerResult,
  MaxCapturedDataBytes,
  ColumnBytes,   \* of the names and types of the columns of a result
  MaxRuns,       \* bound: runs ever started
  MaxStatements, \* bound: statements of a batch
  Sent,          \* bound: the numbers of rows a statement may send
  MaxNotices     \* bound: notices of a run

ASSUME ConstantsAssumption ==
  /\ None \notin Tabs \cup Connections \cup Texts
  /\ MaxRowsPerResult \in Nat \ {0}
  /\ MaxCapturedDataBytes \in Nat \ {0}
  /\ ColumnBytes \in Nat
  /\ MaxRuns \in Nat \ {0}
  /\ MaxStatements \in Nat \ {0}
  /\ Sent \subseteq Nat
  /\ MaxNotices \in Nat

Runs == 1..MaxRuns
NoRun == 0

Lifecycles == {"idle", "running", "failed"}
Stages == {"unused", "intent", "acquiring", "executing", "cleaning",
           "unregistering", "releasing", "reply", "done"}
Outcomes == {"none", "ok", "failed", "cancelled"}

\* sqltab.Output, and whether it holds all the rows of the statement.
Output(kind) ==
  [kind |-> kind, rows |-> 0, whole |-> TRUE, truncated |-> FALSE,
   incomplete |-> FALSE]
Outputs ==
  [kind : {"rows", "command", "error"}, rows : 0..MaxRowsPerResult,
   whole : BOOLEAN, truncated : BOOLEAN, incomplete : BOOLEAN]

\* A run: its RunRequest, where Execute has got to, its RunResult and error.
NewRun(t, text) ==
  [tab |-> t, snapshot |-> text, stage |-> "intent",
   connection |-> None, outputs |-> <<>>, notices |-> 0, captured |-> 0,
   cancelled |-> FALSE, outcome |-> "none"]

\* A connection of the pool: absent, idle, in use, or closed while in use.
NewConnection ==
  [state |-> "absent", tx |-> FALSE, session |-> FALSE, busy |-> FALSE]
-----------------------------------------------------------------------------
VARIABLES
  active, lastRun, result, resultSnapshot, stale, lifecycle,
  run, nextRun,
  registry,   \* CancellationRegistry: the runs that are registered
  cancels,    \* CancelIntents on their way
  pool,       \* the connections
  sinks       \* noticeRouter.sinks

tabVars == <<active, lastRun, result, resultSnapshot, stale,
             lifecycle>>
runVars == <<run, nextRun, registry, cancels>>
poolVars == <<pool, sinks>>
vars == <<tabVars, runVars, poolVars>>

Running(r) == run[r].stage \in {"acquiring", "executing", "cleaning",
                                "unregistering", "releasing"}

VariablesTyped ==
  /\ active \in [Tabs -> Runs \cup {NoRun}]
  /\ lastRun \in [Tabs -> Runs \cup {NoRun}]
  /\ \A t \in Tabs :
       /\ result[t].run \in Runs \cup {NoRun}
       /\ result[t].outputs \in Seq(Outputs)
  /\ resultSnapshot \in [Tabs -> Texts \cup {None}]
  /\ stale \in [Tabs -> BOOLEAN]
  /\ lifecycle \in [Tabs -> Lifecycles]
  /\ nextRun \in 1..(MaxRuns + 1)
  /\ DOMAIN run = Runs
  /\ \A r \in Runs :
       /\ run[r].tab \in Tabs \cup {None}
       /\ run[r].snapshot \in Texts \cup {None}
       /\ run[r].stage \in Stages
       /\ run[r].connection \in Connections \cup {None}
       /\ run[r].outputs \in Seq(Outputs)
       /\ run[r].notices \in 0..MaxNotices
       /\ run[r].captured \in Nat
       /\ run[r].cancelled \in BOOLEAN
       /\ run[r].outcome \in Outcomes
  /\ registry \subseteq {r \in Runs : Running(r)}
  /\ cancels \subseteq Runs
  /\ pool \in [Connections ->
                 [state : {"absent", "idle", "used", "closed"}, tx : BOOLEAN,
                  session : BOOLEAN, busy : BOOLEAN]]
  /\ sinks \in [Connections -> Runs \cup {NoRun}]

Init ==
  /\ active = [t \in Tabs |-> NoRun]
  /\ lastRun = [t \in Tabs |-> NoRun]
  /\ result = [t \in Tabs |-> [run |-> NoRun, outputs |-> <<>>]]
  /\ resultSnapshot = [t \in Tabs |-> None]
  /\ stale = [t \in Tabs |-> FALSE]
  /\ lifecycle = [t \in Tabs |-> "idle"]
  /\ run = [r \in Runs |-> [NewRun(None, None) EXCEPT !.stage = "unused"]]
  /\ nextRun = 1
  /\ registry = {}
  /\ cancels = {}
  /\ pool = [c \in Connections |-> NewConnection]
  /\ sinks = [c \in Connections |-> NoRun]
-----------------------------------------------------------------------------
(***************************************************************************)
(* The user.                                                               *)
(***************************************************************************)
\* A tab that failed is visited: any key, click or paste.
Visit(t) ==
  /\ lifecycle[t] = "failed"
  /\ lifecycle' = [lifecycle EXCEPT ![t] = "idle"]
  /\ UNCHANGED <<active, lastRun, result, resultSnapshot, stale, runVars,
                 poolVars>>

StartRunUnmarked(t, text) ==
  /\ nextRun \in Runs
  /\ nextRun' = nextRun + 1
  /\ run' = [run EXCEPT ![nextRun] = NewRun(t, text)]
  /\ lastRun' = [lastRun EXCEPT ![t] = nextRun]
  /\ active' = [active EXCEPT ![t] = nextRun]
  /\ lifecycle' = [lifecycle EXCEPT ![t] = "running"]
  /\ UNCHANGED <<result, resultSnapshot, stale, registry, cancels,
                 poolVars>>
StartRun(t, text) ==
  /\ nextRun \in Runs
  /\ nextRun' = nextRun + 1
  /\ run' = [run EXCEPT ![nextRun] = NewRun(t, text)]
  /\ lastRun' = [lastRun EXCEPT ![t] = nextRun]
  /\ active' = [active EXCEPT ![t] = nextRun]
  /\ lifecycle' = [lifecycle EXCEPT ![t] = "running"]
  /\ stale' = [stale EXCEPT ![t] = result[t].outputs # <<>>]
  /\ UNCHANGED <<result, resultSnapshot, registry, cancels, poolVars>>

Execute(t, text) ==
  /\ active[t] = NoRun
  /\ StartRun(t, text)

Rerun(t) ==
  /\ active[t] = NoRun
  /\ lastRun[t] # NoRun
  /\ StartRun(t, run[lastRun[t]].snapshot)

CtrlC(t) ==
  /\ active[t] # NoRun
  /\ cancels' = cancels \cup {active[t]}
  /\ UNCHANGED <<tabVars, run, nextRun, registry, poolVars>>
-----------------------------------------------------------------------------
(***************************************************************************)
(* The run (Execute).                                                      *)
(***************************************************************************)
At(r, stage) == run[r].stage = stage
Connection(r) == pool[run[r].connection]
OnConnection(r, c) == pool' = [pool EXCEPT ![run[r].connection] = c]

Forget(r) == registry \ {r}

Dispatch(r) ==
  /\ At(r, "intent")
  /\ run' = [run EXCEPT ![r].stage = "acquiring"]
  /\ registry' = registry \cup {r}
  /\ UNCHANGED <<tabVars, nextRun, cancels, poolVars>>

DeliverCancel(r) ==
  /\ r \in cancels
  /\ cancels' = cancels \ {r}
  /\ registry' = Forget(r)
  /\ run' = IF r \in registry THEN [run EXCEPT ![r].cancelled = TRUE] ELSE run
  /\ UNCHANGED <<tabVars, nextRun, poolVars>>

\* The pool opens a connection where there is none.
Acquire(r, c) ==
  /\ At(r, "acquiring") /\ ~run[r].cancelled
  /\ pool[c].state \in {"absent", "idle"}
  /\ pool' = [pool EXCEPT ![c].state = "used"]
  /\ sinks' = [sinks EXCEPT ![c] = r]
  /\ run' = [run EXCEPT ![r].stage = "executing", ![r].connection = c]
  /\ UNCHANGED <<tabVars, nextRun, registry, cancels>>

AcquireFails(r) ==
  /\ At(r, "acquiring")
  /\ run' = [run EXCEPT
               ![r].stage = "reply", ![r].cancelled = FALSE,
               ![r].outcome = IF run[r].cancelled THEN "cancelled"
                              ELSE "failed"]
  /\ registry' = Forget(r)
  /\ UNCHANGED <<tabVars, nextRun, cancels, poolVars>>

\* A notice goes to whoever is registered for the connection; the collector has
\* the capture limit of an execution for itself.
Notice(r) ==
  LET sink == sinks[run[r].connection] IN
  /\ At(r, "executing")
  /\ sink # NoRun
  /\ run[sink].notices < MaxNotices
  /\ run[sink].notices < MaxCapturedDataBytes
  /\ run' = [run EXCEPT ![sink].notices = @ + 1]
  /\ UNCHANGED <<tabVars, nextRun, registry, cancels, poolVars>>

\* The bytes captured by the outputs up to the n-th, and what they leave of the
\* limit: columns are counted, but never compared with it.
Bytes(output) ==
  output.rows + (IF output.kind = "rows" THEN ColumnBytes ELSE 0)
CapturedUpTo(outputs, n) ==
  LET sum[i \in 0..n] ==
        IF i = 0 THEN 0 ELSE sum[i - 1] + Bytes(outputs[i])
  IN  sum[n]
Captured(outputs) == CapturedUpTo(outputs, Len(outputs))
Room(counted) ==
  IF counted < MaxCapturedDataBytes THEN MaxCapturedDataBytes - counted ELSE 0

\* What canCaptureSQLRow keeps of the rows of a statement.
AtMost(n, limit) == IF n <= limit THEN n ELSE limit
Kept(outputs, sent) ==
  AtMost(AtMost(sent, MaxRowsPerResult), Room(Captured(outputs) + ColumnBytes))
RowsOutputUnmarked(outputs, sent) ==
  [Output("rows") EXCEPT
     !.rows = Kept(outputs, sent),
     !.whole = Kept(outputs, sent) = sent]
RowsOutput(outputs, sent) ==
  [Output("rows") EXCEPT
     !.rows = Kept(outputs, sent),
     !.whole = Kept(outputs, sent) = sent,
     !.truncated = Kept(outputs, sent) < sent]

\* A statement is answered, by its tag or, when it has columns, by its rows; it
\* may begin or end a transaction, and leave state in the session.
Statement(r) ==
  /\ At(r, "executing")
  /\ Len(run[r].outputs) < MaxStatements
  /\ \/ run' = [run EXCEPT ![r].outputs = Append(@, Output("command"))]
     \/ \E sent \in Sent :
          run' = [run EXCEPT ![r].outputs = Append(@, RowsOutput(@, sent))]
  /\ \E tx, session \in BOOLEAN :
       /\ Connection(r).session => session
       /\ OnConnection(r, [Connection(r) EXCEPT !.tx = tx,
                                                !.session = session])
  /\ UNCHANGED <<tabVars, nextRun, registry, cancels, sinks>>

\* The rows of a statement that did not end: one more was to come.
PartialRows(outputs) ==
  {Append(outputs, [RowsOutput(outputs, sent) EXCEPT !.whole = FALSE]) :
     sent \in Sent}

\* Where a batch stops: between two statements, or among the rows of one.  A
\* statement without columns keeps no rows, and loses the count of the batch.
BetweenStatements(outputs) ==
  {[outputs |-> outputs, counted |-> Captured(outputs)]}
AmongRows(outputs) ==
  {[outputs |-> rows, counted |-> Captured(rows)] : rows \in PartialRows(outputs)}
    \cup {[outputs |-> outputs, counted |-> 0]}

\* The end of the batch: the notices that fit are attached.
AttachedAll(r, counted) == run[r].notices
Attached(r, counted) == AtMost(run[r].notices, Room(counted))
Executed(r, outputs, counted, outcome) ==
  run' = [run EXCEPT ![r].stage = "cleaning", ![r].outputs = outputs,
                     ![r].notices = Attached(r, counted),
                     ![r].captured = counted + Attached(r, counted),
                     ![r].outcome = outcome]

Completed(r) ==
  /\ At(r, "executing")
  /\ Executed(r, run[r].outputs, Captured(run[r].outputs), "ok")
  /\ UNCHANGED <<tabVars, nextRun, registry, cancels, poolVars>>

\* The server stops the batch: an output like the others.  When it stops among
\* the rows of a statement the reader is left open, and the driver takes no other
\* command on the connection.
ServerError(r) ==
  /\ At(r, "executing") /\ ~run[r].cancelled
  /\ \/ /\ \E end \in BetweenStatements(run[r].outputs) :
             Executed(r, Append(end.outputs, Output("error")), end.counted, "ok")
        /\ UNCHANGED pool
     \/ /\ \E end \in AmongRows(run[r].outputs) :
             Executed(r, Append(end.outputs, Output("error")), end.counted, "ok")
        /\ OnConnection(r, [Connection(r) EXCEPT !.busy = TRUE])
  /\ UNCHANGED <<tabVars, nextRun, registry, cancels, sinks>>

MarkLastRowsIncomplete(outputs) ==
  LET rows == {i \in DOMAIN outputs : outputs[i].kind = "rows"}
      last == CHOOSE i \in rows : \A j \in rows : j <= i
  IN  IF rows = {} THEN outputs
      ELSE [outputs EXCEPT ![last].incomplete = TRUE]

\* Reading fails: the run was cancelled, with the connection closed by it unless
\* the answer had been read, or the connection broke.
Interrupted(r) ==
  /\ At(r, "executing")
  /\ \E end \in BetweenStatements(run[r].outputs) \cup AmongRows(run[r].outputs) :
       Executed(r, MarkLastRowsIncomplete(end.outputs), end.counted,
                IF run[r].cancelled THEN "cancelled" ELSE "failed")
  /\ \/ OnConnection(r, [NewConnection EXCEPT !.state = "closed"])
     \/ run[r].cancelled /\ UNCHANGED pool
  /\ UNCHANGED <<tabVars, nextRun, registry, cancels, sinks>>

\* cleanupExecutionConnection: rollback, then discard all.
CleanedRollbackOnly(c) == [c EXCEPT !.tx = FALSE]
Cleaned(c) == [c EXCEPT !.tx = FALSE, !.session = FALSE]
DeferredReleaseFirst(stage) ==
  CASE stage = "cleaning" -> "releasing"
    [] stage = "releasing" -> "unregistering"
    [] stage = "unregistering" -> "reply"
Deferred(stage) ==
  CASE stage = "cleaning" -> "unregistering"
    [] stage = "unregistering" -> "releasing"
    [] stage = "releasing" -> "reply"

CleanUp(r) ==
  /\ At(r, "cleaning")
  /\ run' = [run EXCEPT ![r].stage = Deferred("cleaning")]
  /\ \/ Connection(r).state = "closed" /\ UNCHANGED pool
     \/ /\ Connection(r).state = "used" /\ ~Connection(r).busy
        /\ OnConnection(r, Cleaned(Connection(r)))
  /\ UNCHANGED <<tabVars, nextRun, registry, cancels, sinks>>

\* It cannot be verified: the connection is closed, and a run without an error of
\* its own fails.
CleanUpFails(r) ==
  /\ At(r, "cleaning")
  /\ Connection(r).state = "used"
  /\ OnConnection(r, [NewConnection EXCEPT !.state = "closed"])
  /\ run' = [run EXCEPT
               ![r].stage = Deferred("cleaning"),
               ![r].outcome = IF @ = "ok" THEN "failed" ELSE @]
  /\ UNCHANGED <<tabVars, nextRun, registry, cancels, sinks>>

Step(r, stage) ==
  IF Deferred(stage) = "reply"
  THEN /\ run' = [run EXCEPT ![r].stage = "reply", ![r].cancelled = FALSE,
                             ![r].connection = None]
       /\ registry' = Forget(r)
  ELSE /\ run' = [run EXCEPT ![r].stage = Deferred(stage)]
       /\ UNCHANGED registry

Unregister(r) ==
  /\ At(r, "unregistering")
  /\ sinks' = [sinks EXCEPT ![run[r].connection] = NoRun]
  /\ Step(r, "unregistering")
  /\ UNCHANGED <<tabVars, nextRun, cancels, pool>>

Release(r) ==
  /\ At(r, "releasing")
  /\ OnConnection(r, IF Connection(r).state = "closed" THEN NewConnection
                     ELSE [Connection(r) EXCEPT !.state = "idle"])
  /\ Step(r, "releasing")
  /\ UNCHANGED <<tabVars, nextRun, cancels, sinks>>
-----------------------------------------------------------------------------
(***************************************************************************)
(* The reply.  A tab starts no run before the last one has answered, so    *)
(* that every reply is that of the active run.                             *)
(***************************************************************************)
Replied(t, r) ==
  /\ run[r].tab = t
  /\ At(r, "reply")
  /\ active[t] = r
  /\ active' = [active EXCEPT ![t] = NoRun]
  /\ stale' = [stale EXCEPT ![t] = FALSE]
  /\ run' = [run EXCEPT ![r].stage = "done", ![r].outputs = <<>>,
                        ![r].notices = 0, ![r].captured = 0]
  /\ UNCHANGED <<lastRun, nextRun, registry, cancels, poolVars>>

Shows(t, r, outputs) ==
  /\ result' = [result EXCEPT ![t] = [run |-> r, outputs |-> outputs]]
  /\ resultSnapshot' = [resultSnapshot EXCEPT ![t] = run[lastRun[t]].snapshot]

Failed(outputs) == \E i \in DOMAIN outputs : outputs[i].kind = "error"

FinishRun(t, r) ==
  /\ Replied(t, r)
  /\ run[r].outcome = "ok"
  /\ Shows(t, r, run[r].outputs)
  /\ lifecycle' = [lifecycle EXCEPT ![t] = IF Failed(run[r].outputs)
                                           THEN "failed" ELSE "idle"]

\* What was captured replaces the result, if there is any; rows at its end are
\* incomplete.
CutOff(outputs) ==
  IF Last(outputs).kind = "rows"
  THEN [outputs EXCEPT ![Len(outputs)].incomplete = TRUE] ELSE outputs
FinishCancelledRun(t, r) ==
  /\ Replied(t, r)
  /\ run[r].outcome = "cancelled"
  /\ IF run[r].outputs = <<>> THEN UNCHANGED <<result, resultSnapshot>>
     ELSE Shows(t, r, CutOff(run[r].outputs))
  /\ lifecycle' = [lifecycle EXCEPT ![t] = "idle"]

FinishFailedRun(t, r) ==
  /\ Replied(t, r)
  /\ run[r].outcome = "failed"
  /\ Shows(t, r, Append(run[r].outputs, Output("error")))
  /\ lifecycle' = [lifecycle EXCEPT ![t] = "failed"]
-----------------------------------------------------------------------------
Execution(r) ==
  \/ Dispatch(r) \/ DeliverCancel(r)
  \/ (\E c \in Connections : Acquire(r, c)) \/ AcquireFails(r)
  \/ Notice(r) \/ Statement(r) \/ Completed(r) \/ ServerError(r)
  \/ Interrupted(r) \/ CleanUp(r) \/ CleanUpFails(r)
  \/ Unregister(r) \/ Release(r)

Next ==
  \/ \E t \in Tabs :
       \/ (\E text \in Texts : Execute(t, text))
       \/ Visit(t) \/ Rerun(t) \/ CtrlC(t)
       \/ \E r \in Runs :
            FinishRun(t, r) \/ FinishCancelledRun(t, r) \/ FinishFailedRun(t, r)
  \/ \E r \in Runs : Execution(r)

Spec == Init /\ [][Next]_vars
-----------------------------------------------------------------------------
(***************************************************************************)
(* Properties.                                                             *)
(***************************************************************************)
Holds(r, c) == run[r].connection = c /\ Running(r)

\* A connection that others may take has no open transaction and no state of the
\* run before, whichever way that ended; and one that is taken has its run, so
\* that none is lost to the pool (cleanupExecutionConnection, Release).
PoolIsClean ==
  \A c \in Connections :
    /\ pool[c].state = "idle" => ~pool[c].tx /\ ~pool[c].session /\ ~pool[c].busy
    /\ pool[c].state \in {"used", "closed"} =>
         Cardinality({r \in Runs : Holds(r, c)}) = 1

\* Every connection is lent as ConnectionPool says: to one run, clean whatever the
\* run before left on it and however that ended, until that run gives it back
\* (Acquire, cleanupExecutionConnection, Release).
Lending == INSTANCE ConnectionPool
  WITH state <- [c \in Connections |-> pool[c].state],
       holders <- [c \in Connections |-> {r \in Runs : Holds(r, c)}],
       dirty <- {c \in Connections : pool[c].tx \/ pool[c].session \/ pool[c].busy}
PoolLends == Lending!Spec

\* The notices of a batch reach the run that submitted it, and nobody listens to
\* a connection that others may take (noticeRouter).
NoticesReachTheirRun ==
  \A c \in Connections :
    /\ \A r \in Runs : Holds(r, c) /\ At(r, "executing") => sinks[c] = r
    /\ pool[c].state = "idle" => sinks[c] = NoRun

\* Every variable has its type, and an execution keeps no row beyond the capture
\* limit (MaxCapturedDataBytes), counted with all results and columns before it,
\* and no notice beyond what its count leaves of it.  The count is what has been
\* kept, but for a batch that was stopped, which may have lost it
\* (canCaptureSQLRow, attachSQLNotices).
RowsFit(outputs) ==
  \A i \in DOMAIN outputs :
    outputs[i].rows > 0 => CapturedUpTo(outputs, i) <= MaxCapturedDataBytes
CountedRight(x) ==
  \/ x.captured = Captured(x.outputs) + x.notices
  \/ /\ Failed(x.outputs) \/ x.outcome # "ok"
     /\ x.captured = x.notices
CaptureBounded ==
  \A r \in Runs :
    /\ RowsFit(run[r].outputs)
    /\ ~At(r, "executing") =>
         /\ run[r].notices > 0 => run[r].captured <= MaxCapturedDataBytes
         /\ CountedRight(run[r])
TypeOK == VariablesTyped /\ CaptureBounded

\* A result that lacks rows says so: it is marked truncated or incomplete, or
\* followed by the error that ended it.  Neither a cancellation nor a limit nor a
\* failure passes for a complete result.
NothingMissingUnmarked ==
  \A t \in Tabs : LET outputs == result[t].outputs IN
    \A i \in DOMAIN outputs :
      ~outputs[i].whole =>
        \/ outputs[i].truncated \/ outputs[i].incomplete
        \/ i < Len(outputs) /\ outputs[i + 1].kind = "error"

\* Outputs without the stale mark are those of the last run, unless that was
\* cancelled before it had any; and the text that positions of errors are looked
\* up in is the one that was submitted for them (stale, resultSnapshot).
ShownForWhatItIs ==
  \A t \in Tabs :
    result[t].outputs # <<>> =>
      /\ resultSnapshot[t] = run[result[t].run].snapshot
      /\ \/ stale[t]
         \/ result[t].run = lastRun[t]
         \/ At(lastRun[t], "done") /\ run[lastRun[t]].outcome = "cancelled"
=============================================================================
