--------------------------- MODULE SqlTab_proofs ---------------------------
(***************************************************************************)
(* Proofs about SqlTab: the pool stays clean and loses no connection,      *)
(* notices reach the run whose they are, a tab shows outputs for what they *)
(* are, a capture stays within its limits and marks what it lacks, and     *)
(* connections are lent as ConnectionPool says.                            *)
(***************************************************************************)
EXTENDS SqlTab, FiniteSetTheorems, SequenceTheorems, WellFoundedInduction, TLAPS

(***************************************************************************)
(* The invariant.                                                          *)
(***************************************************************************)
RunFields == {"tab", "snapshot", "stage", "connection", "outputs", "notices",
              "captured", "cancelled", "outcome"}
PoolTypes ==
  [Connections -> [state : {"absent", "idle", "used", "closed"}, tx : BOOLEAN,
                   session : BOOLEAN, busy : BOOLEAN]]

\* The types that the proofs need.
Shaped ==
  /\ DOMAIN run = Runs /\ \A r \in Runs : DOMAIN run[r] = RunFields
  /\ nextRun \in 1..(MaxRuns + 1)
  /\ registry \subseteq {r \in Runs : Running(r)}
  /\ pool \in PoolTypes
  /\ sinks \in [Connections -> Runs \cup {NoRun}]

\* The stages of a run that has a connection.
Connected == {"executing", "cleaning", "unregistering", "releasing"}
Has(r, c) == run[r].stage \in Connected /\ run[r].connection = c
Taken(c) == pool[c].state \in {"used", "closed"}
Clean(c) == ~c.tx /\ ~c.session /\ ~c.busy

\* A run and its connection point at each other.
Paired ==
  /\ \A r \in Runs :
       IF run[r].stage \in Connected THEN run[r].connection \in Connections
                                     ELSE run[r].connection = None
  /\ \A c \in Connections :
       /\ Taken(c) => \E r \in Runs : Has(r, c)
       /\ \A r \in Runs : Has(r, c) => Taken(c)
       /\ \A r, q \in Runs : Has(r, c) /\ Has(q, c) => r = q

\* What is nobody's is clean, and what is about to be given back as well.
Tidy ==
  \A c \in Connections :
    /\ ~Taken(c) => Clean(pool[c])
    /\ \A r \in Runs :
         Has(r, c) /\ run[r].stage \in {"unregistering", "releasing"}
           /\ pool[c].state = "used"
         => Clean(pool[c])

\* A run is listened for from the moment it has its connection until just before
\* it gives it back.
Heard ==
  \A c \in Connections :
    /\ ~Taken(c) => sinks[c] = NoRun
    /\ \A r \in Runs :
         Has(r, c) => sinks[c] = IF run[r].stage = "releasing" THEN NoRun ELSE r

PoolInv == Shaped /\ Paired /\ Tidy /\ Heard

(***************************************************************************)
(* The pool: steps of a run.                                               *)
(***************************************************************************)
LEMMA Numbers ==
  /\ \A n \in 1..(MaxRuns + 1) : n \in Runs => n + 1 \in 1..(MaxRuns + 1)
  /\ 1 \in 1..(MaxRuns + 1) /\ NoRun \notin Runs /\ None \notin Connections
  BY ConstantsAssumption DEF Runs, NoRun

\* A step that moves no run to another stage or connection, nor a connection.
LEMMA SameInv ==
  ASSUME PoolInv, Shaped', UNCHANGED <<pool, sinks>>,
         \A r \in Runs : run'[r].stage = run[r].stage
                         /\ run'[r].connection = run[r].connection
  PROVE  PoolInv'
  <1>1. \A r \in Runs : \A c : Has(r, c)' <=> Has(r, c)
    BY DEF Has
  <1>2. \A c : (Taken(c)' <=> Taken(c)) /\ (Clean(pool'[c]) <=> Clean(pool[c]))
    BY DEF Taken, Clean
  <1>3. Paired'
    BY <1>1, <1>2 DEF PoolInv, Paired
  <1>4. Tidy'
    BY <1>1, <1>2 DEF PoolInv, Tidy
  <1>5. Heard'
    BY <1>1, <1>2 DEF PoolInv, Heard
  <1>6. QED
    BY <1>3, <1>4, <1>5 DEF PoolInv

\* The same for runs that have no connection, and get none.
LEMMA OutsideInv ==
  ASSUME PoolInv, Shaped', UNCHANGED <<pool, sinks>>, NEW r \in Runs,
         run[r].stage \notin Connected, run'[r].stage \notin Connected,
         run'[r].connection = None,
         \A q \in Runs : q # r => run'[q].stage = run[q].stage
                                  /\ run'[q].connection = run[q].connection
  PROVE  PoolInv'
  <1>1. \A q \in Runs : \A c : Has(q, c)' <=> Has(q, c)
    BY DEF Has
  <1>2. \A c : (Taken(c)' <=> Taken(c)) /\ (Clean(pool'[c]) <=> Clean(pool[c]))
    BY DEF Taken, Clean
  <1>3. Paired'
    <2>1. \A q \in Runs :
            IF run'[q].stage \in Connected THEN run'[q].connection \in Connections
                                           ELSE run'[q].connection = None
      BY DEF PoolInv, Paired
    <2>2. \A c \in Connections :
            /\ Taken(c)' => \E q \in Runs : Has(q, c)'
            /\ \A q \in Runs : Has(q, c)' => Taken(c)'
            /\ \A p, q \in Runs : Has(p, c)' /\ Has(q, c)' => p = q
      BY <1>1, <1>2 DEF PoolInv, Paired
    <2>3. QED
      BY <2>1, <2>2 DEF Paired
  <1>4. Tidy'
    <2>1. ASSUME NEW c \in Connections, NEW q \in Runs, Has(q, c)'
          PROVE  Has(q, c) /\ run'[q].stage = run[q].stage
      BY <1>1, <2>1 DEF Has
    <2>2. QED
      BY <1>2, <2>1 DEF PoolInv, Tidy
  <1>5. Heard'
    <2>1. ASSUME NEW c \in Connections, NEW q \in Runs, Has(q, c)'
          PROVE  Has(q, c) /\ run'[q].stage = run[q].stage
      BY <1>1, <2>1 DEF Has
    <2>2. QED
      BY <1>2, <2>1 DEF PoolInv, Heard
  <1>6. QED
    BY <1>3, <1>4, <1>5 DEF PoolInv

\* A step of a run with its connection, which it keeps.
LEMMA HeldInv ==
  ASSUME PoolInv, Shaped', NEW r \in Runs, NEW c \in Connections, Has(r, c),
         \A q \in Runs : q # r => run'[q].stage = run[q].stage
                                  /\ run'[q].connection = run[q].connection,
         run'[r].connection = c, run'[r].stage \in Connected,
         \A d \in Connections : d # c => pool'[d] = pool[d] /\ sinks'[d] = sinks[d],
         pool'[c].state \in {"used", "closed"},
         run'[r].stage \in {"unregistering", "releasing"}
           /\ pool'[c].state = "used" => Clean(pool'[c]),
         sinks'[c] = IF run'[r].stage = "releasing" THEN NoRun ELSE r
  PROVE  PoolInv'
  <1>1. \A q \in Runs : \A d : Has(q, d)' <=> Has(q, d)
    BY DEF Has
  <1>2. \A d \in Connections : Taken(d)' <=> Taken(d)
    BY DEF Taken, PoolInv, Paired
  <1>3. Paired'
    <2>1. \A q \in Runs :
            IF run'[q].stage \in Connected THEN run'[q].connection \in Connections
                                           ELSE run'[q].connection = None
      BY DEF PoolInv, Paired
    <2>2. \A d \in Connections :
            /\ Taken(d)' => \E q \in Runs : Has(q, d)'
            /\ \A q \in Runs : Has(q, d)' => Taken(d)'
            /\ \A p, q \in Runs : Has(p, d)' /\ Has(q, d)' => p = q
      BY <1>1, <1>2 DEF PoolInv, Paired
    <2>3. QED
      BY <2>1, <2>2 DEF Paired
  <1>4. ASSUME NEW d \in Connections, NEW q \in Runs, Has(q, d), d = c \/ q = r
        PROVE  d = c /\ q = r
    BY <1>4 DEF PoolInv, Paired, Has
  <1>5. Tidy'
    <2>1. ASSUME NEW d \in Connections, ~Taken(d)' PROVE Clean(pool'[d])
      BY <1>2, <2>1 DEF PoolInv, Tidy, Taken
    <2>2. ASSUME NEW d \in Connections, NEW q \in Runs, Has(q, d)',
                 run'[q].stage \in {"unregistering", "releasing"},
                 pool'[d].state = "used"
          PROVE  Clean(pool'[d])
      BY <1>1, <1>4, <2>2 DEF PoolInv, Tidy
    <2>3. QED
      BY <2>1, <2>2 DEF Tidy
  <1>6. Heard'
    <2>1. ASSUME NEW d \in Connections, ~Taken(d)' PROVE sinks'[d] = NoRun
      BY <1>2, <2>1 DEF PoolInv, Heard, Taken
    <2>2. ASSUME NEW d \in Connections, NEW q \in Runs, Has(q, d)'
          PROVE  sinks'[d] = IF run'[q].stage = "releasing" THEN NoRun ELSE q
      BY <1>1, <1>4, <2>2 DEF PoolInv, Heard
    <2>3. QED
      BY <2>1, <2>2 DEF Heard
  <1>7. QED
    BY <1>3, <1>5, <1>6 DEF PoolInv

LEMMA AcquireInv ==
  ASSUME PoolInv, NEW r \in Runs, NEW c \in Connections, Acquire(r, c)
  PROVE  PoolInv'
  <1>1. /\ run'[r].stage = "executing" /\ run'[r].connection = c
        /\ \A q \in Runs : q # r => run'[q] = run[q]
        /\ run[r].stage = "acquiring" /\ ~Taken(c)
        /\ DOMAIN run' = Runs /\ \A q \in Runs : DOMAIN run'[q] = RunFields
    BY DEF PoolInv, Shaped, RunFields, Acquire, At, Taken
  <1>2. /\ pool' \in PoolTypes /\ pool'[c].state = "used"
        /\ \A d \in Connections : d # c => pool'[d] = pool[d]
    BY DEF PoolInv, Shaped, PoolTypes, Acquire
  <1>3. /\ sinks' \in [Connections -> Runs \cup {NoRun}] /\ sinks'[c] = r
        /\ \A d \in Connections : d # c => sinks'[d] = sinks[d]
    BY DEF PoolInv, Shaped, Acquire
  <1>4. Shaped'
    BY <1>1, <1>2, <1>3 DEF PoolInv, Shaped, Acquire, Running
  <1>5. /\ \A q \in Runs : q # r => \A d : Has(q, d)' <=> Has(q, d)
        /\ \A d : Has(r, d)' <=> d = c
        /\ \A q \in Runs : ~Has(q, c)
        /\ \A d : ~Has(r, d)
    BY <1>1 DEF Has, Connected, PoolInv, Paired
  <1>6. \A d \in Connections : Taken(d)' <=> (d = c \/ Taken(d))
    BY <1>2 DEF Taken
  <1>7. Paired'
    <2>1. \A q \in Runs :
            IF run'[q].stage \in Connected THEN run'[q].connection \in Connections
                                           ELSE run'[q].connection = None
      BY <1>1 DEF PoolInv, Paired, Connected
    <2>2. ASSUME NEW d \in Connections
          PROVE  /\ Taken(d)' => \E q \in Runs : Has(q, d)'
                 /\ \A q \in Runs : Has(q, d)' => Taken(d)'
                 /\ \A p, q \in Runs : Has(p, d)' /\ Has(q, d)' => p = q
      BY <1>5, <1>6 DEF PoolInv, Paired
    <2>3. QED
      BY <2>1, <2>2 DEF Paired
  <1>8. Tidy'
    BY <1>1, <1>2, <1>5, <1>6 DEF PoolInv, Tidy
  <1>9. Heard'
    BY <1>1, <1>2, <1>3, <1>5, <1>6 DEF PoolInv, Heard
  <1>10. QED
    BY <1>4, <1>7, <1>8, <1>9 DEF PoolInv

\* The connection is given back: closed ones leave the pool.
LEMMA ReleaseInv == ASSUME PoolInv, NEW r \in Runs, Release(r) PROVE PoolInv'
  <1> DEFINE c == run[r].connection
  <1>1. /\ run[r].stage = "releasing" /\ Deferred("releasing") = "reply"
        /\ c \in Connections /\ Has(r, c) /\ Taken(c) /\ sinks[c] = NoRun
    BY DEF Release, At, Deferred, PoolInv, Paired, Heard, Has, Connected
  <1>2. /\ run'[r].stage = "reply" /\ run'[r].connection = None
        /\ \A q \in Runs : q # r => run'[q] = run[q]
        /\ DOMAIN run' = Runs /\ \A q \in Runs : DOMAIN run'[q] = RunFields
        /\ registry' = registry \ {r}
    BY <1>1 DEF PoolInv, Shaped, RunFields, Release, Step, Forget
  <1>3. /\ pool' \in PoolTypes /\ pool'[c].state \in {"absent", "idle"}
        /\ Clean(pool'[c])
        /\ \A d \in Connections : d # c => pool'[d] = pool[d]
    <2>1. pool \in PoolTypes /\ pool[c].state \in {"used", "closed"}
      BY <1>1 DEF PoolInv, Shaped, Taken
    <2>2. CASE pool[c].state = "closed"
      <3>1. pool' = [pool EXCEPT ![c] = NewConnection]
        BY <2>2 DEF Release, OnConnection, Connection
      <3>2. QED
        BY <1>1, <2>1, <3>1 DEF NewConnection, PoolTypes, Clean
    <2>3. CASE pool[c].state = "used"
      <3>1. pool' = [pool EXCEPT ![c] = [pool[c] EXCEPT !.state = "idle"]]
        BY <2>3 DEF Release, OnConnection, Connection
      <3>2. Clean(pool[c])
        BY <1>1, <2>3 DEF PoolInv, Tidy
      <3>3. QED
        BY <1>1, <2>1, <3>1, <3>2 DEF PoolTypes, Clean
    <2>4. QED
      BY <2>1, <2>2, <2>3
  <1> HIDE DEF c
  <1>4. UNCHANGED <<sinks, nextRun>>
    BY DEF Release
  <1>5. Shaped'
    BY <1>2, <1>3, <1>4 DEF PoolInv, Shaped, Running
  <1>6. /\ \A q \in Runs : q # r => \A d : Has(q, d)' <=> Has(q, d)
        /\ \A d : ~Has(r, d)'
        /\ \A q \in Runs : q # r => ~Has(q, c)
        /\ \A d : d # c => ~Has(r, d)
    BY <1>1, <1>2 DEF Has, Connected, PoolInv, Paired
  <1>7. \A d \in Connections : Taken(d)' <=> (d # c /\ Taken(d))
    BY <1>3 DEF Taken
  <1>8. Paired'
    <2>1. \A q \in Runs :
            IF run'[q].stage \in Connected THEN run'[q].connection \in Connections
                                           ELSE run'[q].connection = None
      BY <1>2 DEF PoolInv, Paired, Connected
    <2>2. ASSUME NEW d \in Connections
          PROVE  /\ Taken(d)' => \E q \in Runs : Has(q, d)'
                 /\ \A q \in Runs : Has(q, d)' => Taken(d)'
                 /\ \A p, q \in Runs : Has(p, d)' /\ Has(q, d)' => p = q
      BY <1>6, <1>7 DEF PoolInv, Paired
    <2>3. QED
      BY <2>1, <2>2 DEF Paired
  <1>9. Tidy'
    BY <1>2, <1>3, <1>6, <1>7 DEF PoolInv, Tidy
  <1>10. Heard'
    BY <1>1, <1>2, <1>4, <1>6, <1>7 DEF PoolInv, Heard
  <1>11. QED
    BY <1>5, <1>8, <1>9, <1>10 DEF PoolInv

\* A statement, and the clean-up, act on the connection of the run.
LEMMA ExecutingHas ==
  ASSUME PoolInv, NEW r \in Runs, run[r].stage \in Connected
  PROVE  /\ run[r].connection \in Connections /\ Has(r, run[r].connection)
         /\ Taken(run[r].connection)
         /\ run[r].stage # "releasing" => sinks[run[r].connection] = r
  BY DEF PoolInv, Paired, Heard, Has

LEMMA WorkInv ==
  ASSUME PoolInv, NEW r \in Runs, run[r].stage \in {"executing", "cleaning"},
         DOMAIN run' = Runs, \A q \in Runs : DOMAIN run'[q] = RunFields,
         \A q \in Runs : q # r => run'[q] = run[q],
         run'[r].connection = run[r].connection,
         run'[r].stage \in {"executing", "cleaning", "unregistering"},
         NEW c \in [state : {"used", "closed"}, tx : BOOLEAN, session : BOOLEAN,
                    busy : BOOLEAN],
         OnConnection(r, c),
         run'[r].stage = "unregistering" /\ c.state = "used" => Clean(c),
         UNCHANGED <<sinks, nextRun, registry>>
  PROVE  PoolInv'
  <1>1. run[r].connection \in Connections /\ Has(r, run[r].connection)
        /\ sinks[run[r].connection] = r
    BY ExecutingHas DEF Connected
  <1>2. /\ pool' \in PoolTypes /\ pool'[run[r].connection] = c
        /\ \A d \in Connections : d # run[r].connection => pool'[d] = pool[d]
    BY <1>1 DEF OnConnection, PoolInv, Shaped, PoolTypes
  <1>3. Shaped'
    BY <1>2 DEF PoolInv, Shaped, Running
  <1>4. QED
    BY <1>1, <1>2, <1>3, HeldInv DEF Connected

LEMMA StatementInv == ASSUME PoolInv, NEW r \in Runs, Statement(r) PROVE PoolInv'
  <1>1. /\ run[r].stage = "executing" /\ run'[r].stage = "executing"
        /\ DOMAIN run' = Runs /\ \A q \in Runs : DOMAIN run'[q] = RunFields
        /\ \A q \in Runs : q # r => run'[q] = run[q]
        /\ run'[r].connection = run[r].connection
        /\ UNCHANGED <<sinks, nextRun, registry>>
    BY DEF Statement, At, PoolInv, Shaped, RunFields
  <1>2. PICK tx \in BOOLEAN, session \in BOOLEAN :
          OnConnection(r, [Connection(r) EXCEPT !.tx = tx, !.session = session])
    BY DEF Statement
  <1> DEFINE c == [Connection(r) EXCEPT !.tx = tx, !.session = session]
  <1>3. run[r].connection \in Connections /\ Taken(run[r].connection)
    BY <1>1, ExecutingHas DEF Connected
  <1>4. c \in [state : {"used", "closed"}, tx : BOOLEAN, session : BOOLEAN,
               busy : BOOLEAN]
    <2>1. Connection(r) \in [state : {"used", "closed"}, tx : BOOLEAN,
                              session : BOOLEAN, busy : BOOLEAN]
      BY <1>3 DEF Taken, Connection, PoolInv, Shaped, PoolTypes
    <2>2. QED
      BY <2>1
  <1> HIDE DEF c
  <1>5. OnConnection(r, c)
    BY <1>2 DEF c
  <1>6. QED
    BY <1>1, <1>4, <1>5, WorkInv

\* What Executed does, whatever the outputs are.
LEMMA ExecutedFacts ==
  ASSUME PoolInv, NEW r \in Runs, NEW outputs, NEW counted, NEW outcome,
         Executed(r, outputs, counted, outcome)
  PROVE  /\ DOMAIN run' = Runs /\ \A q \in Runs : DOMAIN run'[q] = RunFields
         /\ \A q \in Runs : q # r => run'[q] = run[q]
         /\ run'[r].connection = run[r].connection /\ run'[r].stage = "cleaning"
         /\ run'[r].snapshot = run[r].snapshot
  BY DEF Executed, PoolInv, Shaped, RunFields

\* The batch ends, and the connection is as it was, busy or closed.
LEMMA EndInv ==
  ASSUME PoolInv, NEW r \in Runs, run[r].stage = "executing",
         NEW outputs, NEW counted, NEW outcome,
         Executed(r, outputs, counted, outcome),
         UNCHANGED <<sinks, nextRun, registry>>,
         \/ UNCHANGED pool
         \/ OnConnection(r, [Connection(r) EXCEPT !.busy = TRUE])
         \/ OnConnection(r, [NewConnection EXCEPT !.state = "closed"])
  PROVE  PoolInv'
  <1> DEFINE S == [state : {"used", "closed"}, tx : BOOLEAN, session : BOOLEAN,
                   busy : BOOLEAN]
  <1>1. /\ DOMAIN run' = Runs /\ \A q \in Runs : DOMAIN run'[q] = RunFields
        /\ \A q \in Runs : q # r => run'[q] = run[q]
        /\ run'[r].connection = run[r].connection /\ run'[r].stage = "cleaning"
    BY ExecutedFacts
  <1>2. run[r].connection \in Connections /\ Taken(run[r].connection)
    BY ExecutingHas DEF Connected
  <1>3. /\ Connection(r) \in S /\ [Connection(r) EXCEPT !.busy = TRUE] \in S
        /\ [NewConnection EXCEPT !.state = "closed"] \in S
    <2>1. Connection(r) \in S
      BY <1>2 DEF Taken, Connection, PoolInv, Shaped, PoolTypes
    <2>2. [Connection(r) EXCEPT !.busy = TRUE] \in S
      BY <2>1
    <2>3. [NewConnection EXCEPT !.state = "closed"] \in S
      BY DEF NewConnection
    <2>4. QED
      BY <2>1, <2>2, <2>3
  <1>4. UNCHANGED pool => OnConnection(r, Connection(r))
    BY <1>2 DEF OnConnection, Connection, PoolInv, Shaped, PoolTypes
  <1>5. \E c \in S : OnConnection(r, c)
    BY <1>3, <1>4
  <1>6. QED
    BY <1>1, <1>5, WorkInv

LEMMA EndsInv ==
  ASSUME PoolInv, NEW r \in Runs, Completed(r) \/ ServerError(r) \/ Interrupted(r)
  PROVE  PoolInv'
  <1>1. ASSUME Completed(r) PROVE PoolInv'
    BY <1>1, EndInv DEF Completed, At, poolVars
  <1>2. ASSUME ServerError(r) PROVE PoolInv'
    <2>1. /\ run[r].stage = "executing" /\ UNCHANGED <<sinks, nextRun, registry>>
          /\ \E outputs, counted : Executed(r, outputs, counted, "ok")
          /\ \/ UNCHANGED pool
             \/ OnConnection(r, [Connection(r) EXCEPT !.busy = TRUE])
      BY <1>2 DEF ServerError, At
    <2>2. QED
      BY <2>1, EndInv
  <1>3. ASSUME Interrupted(r) PROVE PoolInv'
    <2>1. /\ run[r].stage = "executing" /\ UNCHANGED <<sinks, nextRun, registry>>
          /\ \E outputs, counted, outcome : Executed(r, outputs, counted, outcome)
          /\ \/ UNCHANGED pool
             \/ OnConnection(r, [NewConnection EXCEPT !.state = "closed"])
      BY <1>3 DEF Interrupted, At
    <2>2. QED
      BY <2>1, EndInv
  <1>4. QED
    BY <1>1, <1>2, <1>3

\* cleanupExecutionConnection leaves a clean connection, or a closed one.
LEMMA CleanUpInv ==
  ASSUME PoolInv, NEW r \in Runs, CleanUp(r) \/ CleanUpFails(r) PROVE PoolInv'
  <1> DEFINE S == [state : {"used", "closed"}, tx : BOOLEAN, session : BOOLEAN,
                   busy : BOOLEAN]
  <1>1. /\ run[r].stage = "cleaning" /\ run'[r].stage = "unregistering"
        /\ DOMAIN run' = Runs /\ \A q \in Runs : DOMAIN run'[q] = RunFields
        /\ \A q \in Runs : q # r => run'[q] = run[q]
        /\ run'[r].connection = run[r].connection
        /\ UNCHANGED <<sinks, nextRun, registry>>
    BY DEF CleanUp, CleanUpFails, At, Deferred, PoolInv, Shaped, RunFields
  <1>2. run[r].connection \in Connections /\ Taken(run[r].connection)
    BY <1>1, ExecutingHas DEF Connected
  <1>3. Connection(r) \in S
    BY <1>2 DEF Taken, Connection, PoolInv, Shaped, PoolTypes
  <1>4. \E c \in S : OnConnection(r, c) /\ (c.state = "used" => Clean(c))
    <2>1. CASE Connection(r).state = "closed" /\ UNCHANGED pool
      <3>1. OnConnection(r, Connection(r))
        BY <1>2, <2>1 DEF OnConnection, Connection, PoolInv, Shaped, PoolTypes
      <3>2. QED
        BY <1>3, <2>1, <3>1
    <2>2. CASE ~Connection(r).busy /\ OnConnection(r, Cleaned(Connection(r)))
      <3>1. Cleaned(Connection(r)) \in S /\ Clean(Cleaned(Connection(r)))
        BY <1>3, <2>2 DEF Cleaned, Clean
      <3>2. QED
        BY <2>2, <3>1
    <2>3. CASE OnConnection(r, [NewConnection EXCEPT !.state = "closed"])
      <3>1. /\ [NewConnection EXCEPT !.state = "closed"] \in S
            /\ [NewConnection EXCEPT !.state = "closed"].state = "closed"
        BY DEF NewConnection
      <3>2. QED
        BY <2>3, <3>1
    <2>4. QED
      BY <2>1, <2>2, <2>3 DEF CleanUp, CleanUpFails
  <1>5. QED
    BY <1>1, <1>4, WorkInv

LEMMA UnregisterInv == ASSUME PoolInv, NEW r \in Runs, Unregister(r) PROVE PoolInv'
  <1> DEFINE c == run[r].connection
  <1>1. /\ run[r].stage = "unregistering" /\ Deferred("unregistering") = "releasing"
        /\ c \in Connections /\ Has(r, c) /\ Taken(c)
    BY ExecutingHas DEF Unregister, At, Deferred, Connected
  <1>2. /\ run'[r].stage = "releasing" /\ run'[r].connection = c
        /\ \A q \in Runs : q # r => run'[q] = run[q]
        /\ DOMAIN run' = Runs /\ \A q \in Runs : DOMAIN run'[q] = RunFields
        /\ UNCHANGED registry
    BY <1>1 DEF PoolInv, Shaped, RunFields, Unregister, Step
  <1>3. /\ sinks' \in [Connections -> Runs \cup {NoRun}] /\ sinks'[c] = NoRun
        /\ \A d \in Connections : d # c => sinks'[d] = sinks[d]
        /\ UNCHANGED <<pool, nextRun>>
    BY <1>1 DEF PoolInv, Shaped, Unregister
  <1>4. pool[c].state = "used" => Clean(pool[c])
    BY <1>1 DEF PoolInv, Tidy
  <1> HIDE DEF c
  <1>5. Shaped'
    BY <1>2, <1>3 DEF PoolInv, Shaped, Running
  <1>6. QED
    BY <1>1, <1>2, <1>3, <1>4, <1>5, HeldInv DEF Connected, Taken

\* The steps before a run has its connection, and those that concern its fields.
LEMMA OthersInv ==
  ASSUME PoolInv, NEW r \in Runs,
         Dispatch(r) \/ DeliverCancel(r) \/ AcquireFails(r) \/ Notice(r)
  PROVE  PoolInv'
  <1>1. ASSUME Dispatch(r) PROVE PoolInv'
    <2>1. /\ run[r].stage = "intent" /\ run'[r].stage = "acquiring"
          /\ run'[r].connection = run[r].connection
          /\ \A q \in Runs : q # r => run'[q] = run[q]
          /\ DOMAIN run' = Runs /\ \A q \in Runs : DOMAIN run'[q] = RunFields
          /\ registry' = registry \cup {r} /\ UNCHANGED <<pool, sinks, nextRun>>
      BY <1>1 DEF Dispatch, At, PoolInv, Shaped, RunFields, poolVars
    <2>2. Shaped'
      BY <2>1 DEF PoolInv, Shaped, Running
    <2>3. run[r].connection = None
      BY <2>1 DEF PoolInv, Paired, Connected
    <2>4. QED
      BY <2>1, <2>2, <2>3, OutsideInv DEF Connected
  <1>2. ASSUME DeliverCancel(r) PROVE PoolInv'
    <2>1. /\ \A q \in Runs : run'[q].stage = run[q].stage
                             /\ run'[q].connection = run[q].connection
          /\ DOMAIN run' = Runs /\ \A q \in Runs : DOMAIN run'[q] = RunFields
          /\ registry' = registry \ {r} /\ UNCHANGED <<pool, sinks, nextRun>>
      BY <1>2 DEF DeliverCancel, Forget, PoolInv, Shaped, RunFields, poolVars
    <2>2. Shaped'
      BY <2>1 DEF PoolInv, Shaped, Running
    <2>3. QED
      BY <2>1, <2>2, SameInv
  <1>3. ASSUME AcquireFails(r) PROVE PoolInv'
    <2>1. /\ run[r].stage = "acquiring" /\ run'[r].stage = "reply"
          /\ run'[r].connection = run[r].connection
          /\ \A q \in Runs : q # r => run'[q] = run[q]
          /\ DOMAIN run' = Runs /\ \A q \in Runs : DOMAIN run'[q] = RunFields
          /\ registry' = registry \ {r} /\ UNCHANGED <<pool, sinks, nextRun>>
      BY <1>3 DEF AcquireFails, Forget, At, PoolInv, Shaped, RunFields, poolVars
    <2>2. Shaped'
      BY <2>1 DEF PoolInv, Shaped, Running
    <2>3. run[r].connection = None
      BY <2>1 DEF PoolInv, Paired, Connected
    <2>4. QED
      BY <2>1, <2>2, <2>3, OutsideInv DEF Connected
  <1>4. ASSUME Notice(r) PROVE PoolInv'
    <2>1. /\ \A q \in Runs : run'[q].stage = run[q].stage
                             /\ run'[q].connection = run[q].connection
          /\ DOMAIN run' = Runs /\ \A q \in Runs : DOMAIN run'[q] = RunFields
          /\ UNCHANGED <<pool, sinks, nextRun, registry>>
      BY <1>4 DEF Notice, PoolInv, Shaped, RunFields, poolVars
    <2>2. Shaped'
      BY <2>1 DEF PoolInv, Shaped, Running
    <2>3. QED
      BY <2>1, <2>2, SameInv
  <1>5. QED
    BY <1>1, <1>2, <1>3, <1>4

(***************************************************************************)
(* The pool: the user and the replies.                                     *)
(***************************************************************************)
LEMMA StartRunInv ==
  ASSUME PoolInv, NEW t \in Tabs, NEW text, StartRun(t, text),
         run[nextRun].stage = "unused"
  PROVE  PoolInv'
  <1>1. /\ nextRun \in Runs /\ nextRun' = nextRun + 1
        /\ UNCHANGED <<pool, sinks, registry>>
    BY DEF StartRun, poolVars
  <1>2. /\ run'[nextRun].stage = "intent" /\ run'[nextRun].connection = None
        /\ \A q \in Runs : q # nextRun => run'[q] = run[q]
        /\ DOMAIN run' = Runs /\ \A q \in Runs : DOMAIN run'[q] = RunFields
    BY <1>1 DEF StartRun, NewRun, PoolInv, Shaped, RunFields
  <1>3. Shaped'
    BY <1>1, <1>2, Numbers DEF PoolInv, Shaped, Running
  <1>4. QED
    BY <1>1, <1>2, <1>3, OutsideInv DEF Connected

LEMMA RepliedInv ==
  ASSUME PoolInv, NEW t \in Tabs, NEW r \in Runs, Replied(t, r) PROVE PoolInv'
  <1>1. /\ run[r].stage = "reply" /\ run'[r].stage = "done"
        /\ run'[r].connection = run[r].connection
        /\ \A q \in Runs : q # r => run'[q] = run[q]
        /\ DOMAIN run' = Runs /\ \A q \in Runs : DOMAIN run'[q] = RunFields
        /\ UNCHANGED <<registry, pool, sinks, nextRun>>
    BY DEF Replied, At, PoolInv, Shaped, RunFields, poolVars
  <1>2. Shaped'
    BY <1>1 DEF PoolInv, Shaped, Running
  <1>3. run[r].connection = None
    BY <1>1 DEF PoolInv, Paired, Connected
  <1>4. QED
    BY <1>1, <1>2, <1>3, OutsideInv DEF Connected

LEMMA StillInv == ASSUME PoolInv, UNCHANGED <<run, nextRun, registry, poolVars>>
                  PROVE  PoolInv'
  <1>1. UNCHANGED <<run, nextRun, registry, pool, sinks>>
    BY DEF poolVars
  <1>2. Shaped'
    BY <1>1 DEF PoolInv, Shaped, Running
  <1>3. QED
    BY <1>1, <1>2, SameInv

(***************************************************************************)
(* What a tab shows.                                                       *)
(***************************************************************************)
TabsShaped ==
  /\ DOMAIN active = Tabs /\ DOMAIN lastRun = Tabs /\ DOMAIN stale = Tabs
  /\ DOMAIN result = Tabs /\ DOMAIN resultSnapshot = Tabs

\* Runs are numbered in order; the one a tab awaits is its last; what it shows is
\* the answer to one that was started.
Started(n) == n \in Runs /\ n < nextRun
Ordered ==
  /\ \A r \in Runs : r >= nextRun => run[r].stage = "unused"
  /\ \A t \in Tabs :
       /\ active[t] # NoRun => active[t] = lastRun[t]
       /\ lastRun[t] # NoRun => Started(lastRun[t])
       /\ result[t].outputs # <<>> => Started(result[t].run) /\ Started(lastRun[t])

Inv == PoolInv /\ TabsShaped /\ Ordered /\ ShownForWhatItIs

\* What a step leaves of a run that a tab may refer to.
Settled(q) ==
  /\ run'[q].snapshot = run[q].snapshot
  /\ run[q].stage = "done"
       => run'[q].stage = "done" /\ run'[q].outcome = run[q].outcome

\* Steps that no tab notices.
LEMMA UnseenInv ==
  ASSUME TabsShaped, Ordered, ShownForWhatItIs,
         UNCHANGED <<active, lastRun, result, resultSnapshot, stale, nextRun>>,
         \A q \in Runs : Settled(q)
                         /\ (run[q].stage = "unused" => run'[q].stage = "unused")
  PROVE  TabsShaped' /\ Ordered' /\ ShownForWhatItIs'
  <1>1. TabsShaped'
    BY DEF TabsShaped
  <1>2. Ordered'
    BY DEF Ordered, Started
  <1>3. ShownForWhatItIs'
    BY DEF ShownForWhatItIs, Ordered, Started, Settled, At
  <1>4. QED
    BY <1>1, <1>2, <1>3

\* The fields of a run that its execution writes.
LEMMA ExecutionSettles ==
  ASSUME PoolInv, NEW r \in Runs, Execution(r)
  PROVE  /\ \A q \in Runs : Settled(q)
                            /\ (run[q].stage = "unused" => run'[q].stage = "unused")
         /\ UNCHANGED <<active, lastRun, result, resultSnapshot, stale, nextRun>>
  <1> DEFINE Goal == \A q \in Runs :
                       Settled(q) /\ (run[q].stage = "unused" => run'[q].stage = "unused")
  <1>1. DOMAIN run = Runs /\ \A q \in Runs : DOMAIN run[q] = RunFields
    BY DEF PoolInv, Shaped
  <1>2. ASSUME \A q \in Runs : q # r => run'[q] = run[q],
               run[r].stage \notin {"unused", "done"}, run'[r].snapshot = run[r].snapshot
        PROVE  Goal
    BY <1>2 DEF Settled
  <1>3. Dispatch(r) => Goal
    BY <1>1, <1>2 DEF Dispatch, At, RunFields
  <1>4. DeliverCancel(r) => Goal
    BY <1>1 DEF DeliverCancel, RunFields, Settled
  <1>5. (\E c \in Connections : Acquire(r, c)) => Goal
    BY <1>1, <1>2 DEF Acquire, At, RunFields
  <1>6. AcquireFails(r) => Goal
    BY <1>1, <1>2 DEF AcquireFails, At, RunFields
  <1>7. Notice(r) => Goal
    BY <1>1 DEF Notice, RunFields, Settled
  <1>8. Statement(r) => Goal
    <2>1. Statement(r) => /\ \A q \in Runs : q # r => run'[q] = run[q]
                          /\ run'[r].snapshot = run[r].snapshot
      BY <1>1 DEF Statement, RunFields
    <2>2. QED
      BY <1>2, <2>1 DEF Statement, At
  <1>9. Completed(r) => Goal
    BY <1>2, ExecutedFacts DEF Completed, At
  <1>10. ServerError(r) => Goal
    <2>1. ServerError(r) => \E outputs, counted : Executed(r, outputs, counted, "ok")
      BY DEF ServerError
    <2>2. QED
      BY <1>2, <2>1, ExecutedFacts DEF ServerError, At
  <1>11. Interrupted(r) => Goal
    <2>1. Interrupted(r) =>
            \E outputs, counted, outcome : Executed(r, outputs, counted, outcome)
      BY DEF Interrupted
    <2>2. QED
      BY <1>2, <2>1, ExecutedFacts DEF Interrupted, At
  <1>12. CleanUp(r) => Goal
    BY <1>1, <1>2 DEF CleanUp, At, RunFields
  <1>13. CleanUpFails(r) => Goal
    BY <1>1, <1>2 DEF CleanUpFails, At, RunFields
  <1>14. ASSUME NEW stage, Step(r, stage), run[r].stage \notin {"unused", "done"}
         PROVE  Goal
    BY <1>1, <1>2, <1>14 DEF Step, RunFields
  <1>15. Unregister(r) \/ Release(r) => Goal
    BY <1>14 DEF Unregister, Release, At
  <1>16. UNCHANGED <<active, lastRun, result, resultSnapshot, stale, nextRun>>
    BY DEF Execution, Dispatch, DeliverCancel, Acquire, AcquireFails, Notice,
           Statement, Completed, ServerError, Interrupted, CleanUp, CleanUpFails,
           Unregister, Release, tabVars
  <1>17. QED
    BY <1>3, <1>4, <1>5, <1>6, <1>7, <1>8, <1>9, <1>10, <1>11, <1>12, <1>13,
       <1>15, <1>16 DEF Execution

LEMMA ExecutionInv == ASSUME Inv, NEW r \in Runs, Execution(r) PROVE Inv'
  <1>1. PoolInv'
    BY AcquireInv, ReleaseInv, StatementInv, EndsInv, CleanUpInv, UnregisterInv,
       OthersInv DEF Inv, Execution
  <1>2. TabsShaped' /\ Ordered' /\ ShownForWhatItIs'
    BY ExecutionSettles, UnseenInv DEF Inv
  <1>3. QED
    BY <1>1, <1>2 DEF Inv

LEMMA UserInv ==
  ASSUME Inv, NEW t \in Tabs, Visit(t) \/ CtrlC(t) PROVE Inv'
  <1>1. UNCHANGED <<active, lastRun, result, resultSnapshot, stale, run, nextRun,
                    registry, poolVars>>
    BY DEF Visit, CtrlC, tabVars, runVars
  <1>2. PoolInv'
    BY <1>1, StillInv DEF Inv
  <1>3. TabsShaped' /\ Ordered' /\ ShownForWhatItIs'
    BY <1>1, UnseenInv DEF Inv, Settled
  <1>4. QED
    BY <1>2, <1>3 DEF Inv

\* A new run: what is shown is now marked as stale.
LEMMA StartInv ==
  ASSUME Inv, NEW t \in Tabs, NEW text, StartRun(t, text) PROVE Inv'
  <1>1. /\ nextRun \in Runs /\ nextRun' = nextRun + 1 /\ nextRun \in Nat
        /\ lastRun'[t] = nextRun /\ active'[t] = nextRun
        /\ stale'[t] = (result[t].outputs # <<>>)
        /\ \A u \in Tabs : u # t => /\ lastRun'[u] = lastRun[u]
                                    /\ active'[u] = active[u]
                                    /\ stale'[u] = stale[u]
        /\ UNCHANGED <<result, resultSnapshot>>
    BY DEF StartRun, Inv, TabsShaped, Runs
  <1>2. \A q \in Runs : q # nextRun => run'[q] = run[q]
    BY DEF StartRun, Inv, PoolInv, Shaped
  <1>3. run[nextRun].stage = "unused"
    BY <1>1 DEF Inv, Ordered
  <1>4. PoolInv'
    BY <1>3, StartRunInv DEF Inv
  <1>5. TabsShaped'
    BY DEF StartRun, Inv, TabsShaped
  <1> DEFINE Then(n) == n \in Runs /\ n < nextRun'
  <1>6. /\ Then(nextRun)
        /\ \A n : Started(n) => Then(n) /\ n # nextRun
    BY <1>1 DEF Started, Runs
  <1>7. Ordered'
    <2>1. \A r \in Runs : r >= nextRun' => run'[r].stage = "unused"
      <3>1. \A r \in Runs : r >= nextRun' => r >= nextRun /\ r # nextRun
        BY <1>1 DEF Runs
      <3>2. QED
        BY <1>2, <3>1 DEF Inv, Ordered
    <2>2. ASSUME NEW u \in Tabs
          PROVE  /\ active'[u] # NoRun => active'[u] = lastRun'[u]
                 /\ lastRun'[u] # NoRun => Then(lastRun'[u])
                 /\ result'[u].outputs # <<>>
                      => Then(result'[u].run) /\ Then(lastRun'[u])
      <3> HIDE DEF Then
      <3>1. /\ active[u] # NoRun => active[u] = lastRun[u]
            /\ lastRun[u] # NoRun => Started(lastRun[u])
            /\ result[u].outputs # <<>> => Started(result[u].run) /\ Started(lastRun[u])
        BY DEF Inv, Ordered
      <3>2. CASE u = t
        BY <1>1, <1>6, <3>1, <3>2
      <3>3. CASE u # t
        BY <1>1, <1>6, <3>1, <3>3
      <3>4. QED
        BY <3>2, <3>3
    <2>3. QED
      BY <2>1, <2>2 DEF Ordered, Started
  <1>8. ShownForWhatItIs'
    <2>1. ASSUME NEW u \in Tabs, result'[u].outputs # <<>>
          PROVE  /\ resultSnapshot'[u] = run'[result'[u].run].snapshot
                 /\ \/ stale'[u]
                    \/ result'[u].run = lastRun'[u]
                    \/ /\ run'[lastRun'[u]].stage = "done"
                       /\ run'[lastRun'[u]].outcome = "cancelled"
      <3>1. result[u].outputs # <<>> /\ result'[u] = result[u]
        BY <1>1, <2>1
      <3>2. /\ Started(result[u].run) /\ Started(lastRun[u])
            /\ result[u].run # nextRun /\ lastRun[u] # nextRun
        BY <1>6, <3>1 DEF Inv, Ordered
      <3>3. run'[result[u].run] = run[result[u].run] /\ run'[lastRun[u]] = run[lastRun[u]]
        BY <1>2, <3>2 DEF Started
      <3>4. CASE u = t
        BY <1>1, <3>1, <3>3, <3>4 DEF Inv, ShownForWhatItIs
      <3>5. CASE u # t
        BY <1>1, <3>1, <3>3, <3>5 DEF Inv, ShownForWhatItIs, At
      <3>6. QED
        BY <3>4, <3>5
    <2>2. QED
      BY <2>1 DEF ShownForWhatItIs, At
  <1>9. QED
    BY <1>4, <1>5, <1>7, <1>8 DEF Inv

\* A reply: what is shown from now on is that of the last run, or that was
\* cancelled without outputs.
LEMMA FinishInv ==
  ASSUME Inv, NEW t \in Tabs, NEW r \in Runs, Replied(t, r),
         \/ run[r].outcome = "cancelled" /\ UNCHANGED <<result, resultSnapshot>>
         \/ \E outputs : Shows(t, r, outputs)
  PROVE  Inv'
  <1>1. /\ run[r].stage = "reply" /\ active[t] = r /\ lastRun[t] = r
        /\ lastRun' = lastRun /\ nextRun' = nextRun
        /\ active'[t] = NoRun /\ stale'[t] = FALSE
        /\ \A u \in Tabs : u # t => active'[u] = active[u] /\ stale'[u] = stale[u]
    BY Numbers DEF Replied, At, Inv, TabsShaped, Ordered
  <1>2. /\ run'[r].stage = "done" /\ run'[r].outcome = run[r].outcome
        /\ run'[r].snapshot = run[r].snapshot
        /\ \A q \in Runs : q # r => run'[q] = run[q]
    BY DEF Replied, Inv, PoolInv, Shaped, RunFields
  <1>3. /\ \A u \in Tabs : u # t => /\ result'[u] = result[u]
                                   /\ resultSnapshot'[u] = resultSnapshot[u]
        /\ DOMAIN result' = Tabs /\ DOMAIN resultSnapshot' = Tabs
        /\ \/ /\ run[r].outcome = "cancelled" /\ result'[t] = result[t]
              /\ resultSnapshot'[t] = resultSnapshot[t]
           \/ result'[t].run = r /\ resultSnapshot'[t] = run[r].snapshot
    BY <1>1 DEF Shows, Inv, TabsShaped
  <1>4. PoolInv'
    BY RepliedInv DEF Inv
  <1>5. TabsShaped'
    BY <1>1, <1>3 DEF Replied, Inv, TabsShaped
  <1>6. Started(r)
    BY <1>1, Numbers DEF Inv, Ordered
  <1>7. Ordered'
    <2>1. \A q \in Runs : q >= nextRun => run'[q].stage = "unused"
      <3>1. \A q \in Runs : q >= nextRun => q # r
        BY <1>1 DEF Inv, Ordered
      <3>2. QED
        BY <1>2, <3>1 DEF Inv, Ordered
    <2>2. ASSUME NEW u \in Tabs
          PROVE  /\ active'[u] # NoRun => active'[u] = lastRun[u]
                 /\ lastRun[u] # NoRun => Started(lastRun[u])
                 /\ result'[u].outputs # <<>>
                      => Started(result'[u].run) /\ Started(lastRun[u])
      <3>1. /\ active[u] # NoRun => active[u] = lastRun[u]
            /\ lastRun[u] # NoRun => Started(lastRun[u])
            /\ result[u].outputs # <<>> => Started(result[u].run) /\ Started(lastRun[u])
        BY DEF Inv, Ordered
      <3>2. CASE u = t
        BY <1>1, <1>3, <1>6, <3>1, <3>2
      <3>3. CASE u # t
        BY <1>1, <1>3, <3>1, <3>3
      <3>4. QED
        BY <3>2, <3>3
    <2>3. QED
      BY <1>1, <2>1, <2>2 DEF Ordered, Started
  <1>8. ShownForWhatItIs'
    <2>1. ASSUME NEW u \in Tabs, result'[u].outputs # <<>>
          PROVE  /\ resultSnapshot'[u] = run'[result'[u].run].snapshot
                 /\ \/ stale'[u]
                    \/ result'[u].run = lastRun[u]
                    \/ /\ run'[lastRun[u]].stage = "done"
                       /\ run'[lastRun[u]].outcome = "cancelled"
      <3>1. \A q \in Runs : Settled(q)
        BY <1>1, <1>2 DEF Settled
      <3>2. CASE u # t
        <4>1. result[u].outputs # <<>> /\ Started(result[u].run) /\ Started(lastRun[u])
          BY <1>3, <2>1, <3>2 DEF Inv, Ordered
        <4>2. /\ resultSnapshot[u] = run[result[u].run].snapshot
              /\ \/ stale[u]
                 \/ result[u].run = lastRun[u]
                 \/ At(lastRun[u], "done") /\ run[lastRun[u]].outcome = "cancelled"
          BY <4>1 DEF Inv, ShownForWhatItIs
        <4>3. QED
          BY <1>1, <1>3, <3>1, <3>2, <4>1, <4>2 DEF Settled, Started, At
      <3>3. CASE u = t /\ result'[t].run = r /\ resultSnapshot'[t] = run[r].snapshot
        BY <1>1, <1>2, <3>3
      <3>4. CASE /\ u = t /\ run[r].outcome = "cancelled" /\ result'[t] = result[t]
                 /\ resultSnapshot'[t] = resultSnapshot[t]
        <4>1. Started(result[t].run) /\ resultSnapshot[t] = run[result[t].run].snapshot
          BY <2>1, <3>4 DEF Inv, Ordered, ShownForWhatItIs
        <4>2. QED
          BY <1>1, <1>2, <3>1, <3>4, <4>1 DEF Settled, Started
      <3>5. QED
        BY <1>3, <3>2, <3>3, <3>4
    <2>2. QED
      BY <1>1, <2>1 DEF ShownForWhatItIs, At
  <1>9. QED
    BY <1>4, <1>5, <1>7, <1>8 DEF Inv

LEMMA RepliesInv ==
  ASSUME Inv, NEW t \in Tabs, NEW r \in Runs,
         FinishRun(t, r) \/ FinishCancelledRun(t, r) \/ FinishFailedRun(t, r)
  PROVE  Inv'
  <1>1. ASSUME FinishRun(t, r) PROVE Inv'
    BY <1>1, FinishInv DEF FinishRun
  <1>2. ASSUME FinishCancelledRun(t, r) PROVE Inv'
    <2>1. \/ run[r].outcome = "cancelled" /\ UNCHANGED <<result, resultSnapshot>>
          \/ \E outputs : Shows(t, r, outputs)
      BY <1>2 DEF FinishCancelledRun
    <2>2. QED
      BY <1>2, <2>1, FinishInv DEF FinishCancelledRun
  <1>3. ASSUME FinishFailedRun(t, r) PROVE Inv'
    BY <1>3, FinishInv DEF FinishFailedRun
  <1>4. QED
    BY <1>1, <1>2, <1>3

(***************************************************************************)
(* The theorems.                                                           *)
(***************************************************************************)
LEMMA InitInv == Init => Inv
  <1> SUFFICES ASSUME Init PROVE Inv
    OBVIOUS
  <1>1. \A r \in Runs : /\ run[r].stage = "unused" /\ run[r].connection = None
                       /\ DOMAIN run[r] = RunFields
    BY DEF Init, NewRun, RunFields
  <1>2. \A c \in Connections : pool[c] = NewConnection /\ sinks[c] = NoRun
    BY DEF Init
  <1>3. Shaped
    BY <1>1, Numbers DEF Init, Shaped, PoolTypes, NewConnection
  <1>4. Paired /\ Tidy /\ Heard
    BY <1>1, <1>2
       DEF Paired, Tidy, Heard, Has, Connected, Taken, Clean, NewConnection
  <1>5. TabsShaped /\ Ordered /\ ShownForWhatItIs
    BY <1>1 DEF Init, TabsShaped, Ordered, ShownForWhatItIs
  <1>6. QED
    BY <1>3, <1>4, <1>5 DEF Inv, PoolInv

LEMMA StepInv == Inv /\ [Next]_vars => Inv'
  <1>1. ASSUME Inv, UNCHANGED vars PROVE Inv'
    <2>1. UNCHANGED <<active, lastRun, result, resultSnapshot, stale, run, nextRun,
                      registry, poolVars>>
      BY <1>1 DEF vars, tabVars, runVars
    <2>2. PoolInv'
      BY <1>1, <2>1, StillInv DEF Inv
    <2>3. TabsShaped' /\ Ordered' /\ ShownForWhatItIs'
      BY <1>1, <2>1, UnseenInv DEF Inv, Settled
    <2>4. QED
      BY <2>2, <2>3 DEF Inv
  <1>2. QED
    BY <1>1, StartInv, UserInv, RepliesInv, ExecutionInv DEF Next, Execute, Rerun

\* The inductive invariant of tabs, runs and the pool.
THEOREM SqlInvariant == Spec => []Inv
  <1>1. QED
    BY InitInv, StepInv, PTL DEF Spec

\* Connections that others may take are clean, and none is lost
\* (cleanupExecutionConnection, Release).
THEOREM PoolStaysClean == Spec => []PoolIsClean
  <1>1. Inv => PoolIsClean
    <2> SUFFICES ASSUME Inv, NEW c \in Connections
                 PROVE  /\ pool[c].state = "idle"
                             => ~pool[c].tx /\ ~pool[c].session /\ ~pool[c].busy
                        /\ pool[c].state \in {"used", "closed"} =>
                             Cardinality({r \in Runs : Holds(r, c)}) = 1
      BY DEF PoolIsClean
    <2>1. \A r \in Runs : Holds(r, c) <=> Has(r, c)
      BY Numbers DEF Inv, PoolInv, Paired, Holds, Has, Running, Connected
    <2>2. CASE pool[c].state = "idle"
      BY <2>2 DEF Inv, PoolInv, Tidy, Taken, Clean
    <2>3. CASE pool[c].state \in {"used", "closed"}
      <3>1. PICK r \in Runs : Has(r, c)
        BY <2>3 DEF Inv, PoolInv, Paired, Taken
      <3>2. {q \in Runs : Holds(q, c)} = {r}
        BY <2>1, <3>1 DEF Inv, PoolInv, Paired
      <3>3. QED
        BY <2>3, <3>2, FS_Singleton
    <2>4. QED
      BY <2>2, <2>3
  <1>2. QED
    BY <1>1, SqlInvariant, PTL

\* Notices reach the run that submitted the batch (noticeRouter).
THEOREM NoticesRouted == Spec => []NoticesReachTheirRun
  <1>1. Inv => NoticesReachTheirRun
    BY Numbers DEF Inv, PoolInv, Paired, Heard, NoticesReachTheirRun, Holds, Has,
                   Running, Connected, At, Taken
  <1>2. QED
    BY <1>1, SqlInvariant, PTL

\* Outputs that are not those of the last run are marked as stale, and shown with
\* the text they were submitted with (startRun, finishRun, finishCancelledRun).
THEOREM ShownTruly == Spec => []ShownForWhatItIs
  <1>1. Inv => ShownForWhatItIs
    BY DEF Inv
  <1>2. QED
    BY <1>1, SqlInvariant, PTL

(***************************************************************************)
(* What a run captures.  Its bytes are a sum over the outputs; the         *)
(* facts about it go through its partial sums, the first of which that was *)
(* not as it should be would have one before it that is.                   *)
(***************************************************************************)
\* Among numbers there is a least one.
LEMMA LeastOf ==
  ASSUME NEW T, T \subseteq Nat, T # {}
  PROVE  \E x \in T : \A y \in T : x <= y
  <1> DEFINE R == OpToRel(<, Nat)
  <1>1. IsWellFoundedOn(R, Nat)
    BY NatLessThanWellFounded
  <1>2. \A x, y \in Nat : <<y, x>> \in R <=> y < x
    BY DEF OpToRel
  <1> HIDE DEF R
  <1>3. PICK x \in T : \A y \in T : ~(<<y, x>> \in R)
    BY <1>1, WFMin
  <1>4. ASSUME NEW y \in T PROVE x <= y
    <2>1. x \in Nat /\ y \in Nat /\ ~(y < x)
      BY <1>2, <1>3
    <2>2. QED
      BY <2>1
  <1>5. QED
    BY <1>4

\* The partial sums of the bytes of the outputs, up to n.
IsSum(f, s, n) ==
  /\ f \in [0..n -> Nat] /\ f[0] = 0
  /\ \A i \in 1..n : f[i] = f[i - 1] + Bytes(s[i])

\* Outputs with the same bytes, up to n.
SameBytes(s, t, n) == \A i \in 1..n : Bytes(s[i]) = Bytes(t[i])

LEMMA BytesNat == \A o \in Outputs : o.rows \in Nat /\ Bytes(o) \in Nat
  <1>1. \A o \in Outputs : o.rows \in Nat
    BY ConstantsAssumption DEF Outputs
  <1>2. QED
    BY <1>1, ConstantsAssumption DEF Bytes

LEMMA SumExists ==
  ASSUME NEW s \in Seq(Outputs), NEW n \in 0..Len(s)
  PROVE  \E f : IsSum(f, s, n)
  <1> DEFINE T == {m \in 0..Len(s) : ~\E f : IsSum(f, s, m)}
  <1>0. Len(s) \in Nat /\ \A i \in 1..Len(s) : Bytes(s[i]) \in Nat
    <2>1. Len(s) \in Nat /\ \A i \in 1..Len(s) : s[i] \in Outputs
      BY ElementOfSeq, LenProperties
    <2>2. QED
      BY <2>1, BytesNat
  <1>1. ASSUME T # {} PROVE FALSE
    <2>1. T \subseteq Nat
      BY <1>0
    <2>2. PICK m \in T : \A k \in T : m <= k
      BY <1>1, <2>1, LeastOf
    <2>3. m \in 0..Len(s) /\ ~\E f : IsSum(f, s, m)
      BY <2>2
    <2>4. m # 0
      <3>1. IsSum([i \in 0..0 |-> 0], s, 0)
        BY DEF IsSum
      <3>2. QED
        BY <2>3, <3>1
    <2>5. m - 1 \in 0..Len(s) /\ m - 1 \notin T
      BY <1>0, <2>2, <2>3, <2>4
    <2>6. PICK g : IsSum(g, s, m - 1)
      BY <2>5
    <2> DEFINE f == [i \in 0..m |-> IF i = m THEN g[m - 1] + Bytes(s[m]) ELSE g[i]]
    <2>7. g[m - 1] \in Nat /\ Bytes(s[m]) \in Nat /\ m \in Nat /\ m - 1 \in Nat
      BY <1>0, <2>3, <2>4, <2>5, <2>6 DEF IsSum
    <2>8. f \in [0..m -> Nat] /\ f[0] = 0
      BY <2>4, <2>6, <2>7 DEF IsSum
    <2>9. ASSUME NEW i \in 1..m PROVE f[i] = f[i - 1] + Bytes(s[i])
      <3>1. CASE i = m
        BY <2>7, <3>1
      <3>2. CASE i # m
        <4>1. i \in 1..(m - 1) /\ i \in 0..m /\ i - 1 \in 0..m /\ i - 1 # m
          BY <2>7, <3>2
        <4>2. QED
          BY <2>6, <3>2, <4>1 DEF IsSum
      <3>3. QED
        BY <3>1, <3>2
    <2>10. QED
      BY <2>3, <2>8, <2>9 DEF IsSum
  <1>2. QED
    BY <1>1

\* Sums over outputs with the same bytes agree, as far as both go.
LEMMA SumsAgree ==
  ASSUME NEW s, NEW t, NEW n \in Nat, NEW m \in Nat, n <= m, NEW f, NEW g,
         IsSum(f, s, n), IsSum(g, t, m), SameBytes(s, t, n)
  PROVE  \A i \in 0..n : f[i] = g[i]
  <1> DEFINE T == {i \in 0..n : f[i] # g[i]}
  <1>1. ASSUME T # {} PROVE FALSE
    <2>0. T \subseteq Nat
      OBVIOUS
    <2>1. PICK k \in T : \A j \in T : k <= j
      BY <1>1, <2>0, LeastOf
    <2>2. k \in 0..n /\ f[k] # g[k]
      BY <2>1
    <2>3. k # 0
      BY <2>2 DEF IsSum
    <2>4. k \in 1..n /\ k \in 1..m /\ k - 1 \in 0..n /\ k - 1 \notin T
      BY <2>1, <2>2, <2>3
    <2>5. f[k - 1] = g[k - 1]
      BY <2>4
    <2>6. f[k] = f[k - 1] + Bytes(s[k]) /\ g[k] = g[k - 1] + Bytes(t[k])
      BY <2>4 DEF IsSum
    <2>7. QED
      BY <2>2, <2>4, <2>5, <2>6 DEF SameBytes
  <1>2. QED
    BY <1>1

\* What is captured up to an output is the last of the partial sums up to it.
LEMMA CapturedIsSum ==
  ASSUME NEW s \in Seq(Outputs), NEW n \in 0..Len(s)
  PROVE  \E f : IsSum(f, s, n) /\ CapturedUpTo(s, n) = f[n]
  <1> DEFINE Body(f) == [i \in 0..n |-> IF i = 0 THEN 0 ELSE f[i - 1] + Bytes(s[i])]
             h == CHOOSE f : f = Body(f)
  <1>0. n \in Nat
    BY LenProperties
  <1>1. CapturedUpTo(s, n) = h[n]
    BY DEF CapturedUpTo
  <1>2. PICK f : IsSum(f, s, n)
    BY <1>0, SumExists
  <1>3. f = Body(f)
    <2>1. /\ f \in [0..n -> Nat] /\ f[0] = 0
          /\ \A i \in 1..n : f[i] = f[i - 1] + Bytes(s[i])
      BY <1>2 DEF IsSum
    <2>2. \A i \in 0..n : i # 0 => i \in 1..n
      BY <1>0
    <2>3. QED
      BY <2>1, <2>2
  <1>4. h = Body(h)
    BY <1>3
  <1>5. ASSUME NEW i \in 0..n PROVE h[i] = f[i]
    <2> DEFINE T == {j \in 0..n : h[j] # f[j]}
    <2>1. ASSUME T # {} PROVE FALSE
      <3>0. T \subseteq Nat
        BY <1>0
      <3>1. PICK k \in T : \A j \in T : k <= j
        BY <2>1, <3>0, LeastOf
      <3>2. k \in 0..n /\ h[k] # f[k]
        BY <3>1
      <3>3. h[k] = IF k = 0 THEN 0 ELSE h[k - 1] + Bytes(s[k])
        BY <1>4, <3>2
      <3>4. f[k] = IF k = 0 THEN 0 ELSE f[k - 1] + Bytes(s[k])
        BY <1>3, <3>2
      <3>5. k # 0
        BY <3>2, <3>3, <3>4
      <3>6. k - 1 \in 0..n /\ k - 1 \notin T
        BY <1>0, <3>1, <3>2, <3>5
      <3>7. h[k - 1] = f[k - 1]
        BY <3>6
      <3>8. QED
        BY <3>2, <3>3, <3>4, <3>5, <3>7
    <2>2. QED
      BY <2>1
  <1>6. QED
    BY <1>0, <1>1, <1>2, <1>5

LEMMA CapturedNat ==
  ASSUME NEW s \in Seq(Outputs)
  PROVE  Captured(s) \in Nat /\ \A n \in 0..Len(s) : CapturedUpTo(s, n) \in Nat
  <1>1. Len(s) \in Nat
    BY LenProperties
  <1>2. \A n \in 0..Len(s) : CapturedUpTo(s, n) \in Nat
    <2>1. ASSUME NEW n \in 0..Len(s) PROVE CapturedUpTo(s, n) \in Nat
      <3>1. PICK f : IsSum(f, s, n) /\ CapturedUpTo(s, n) = f[n]
        BY CapturedIsSum
      <3>2. QED
        BY <1>1, <3>1 DEF IsSum
    <2>2. QED
      BY <2>1
  <1>3. QED
    BY <1>1, <1>2 DEF Captured

LEMMA CapturedEmpty == Captured(<<>>) = 0
  <1>1. <<>> \in Seq(Outputs) /\ Len(<<>>) = 0 /\ 0 \in 0..0
    BY EmptySeq
  <1>2. \E f : IsSum(f, <<>>, 0) /\ CapturedUpTo(<<>>, 0) = f[0]
    BY <1>1, CapturedIsSum
  <1>3. QED
    BY <1>1, <1>2 DEF IsSum, Captured

\* Only the bytes count, of the outputs up to the one in question.
LEMMA CapturedSame ==
  ASSUME NEW s \in Seq(Outputs), NEW t \in Seq(Outputs),
         NEW n \in 0..Len(s), n <= Len(t), SameBytes(s, t, n)
  PROVE  CapturedUpTo(s, n) = CapturedUpTo(t, n)
  <1>1. n \in Nat /\ n <= n /\ n \in 0..Len(t) /\ n \in 0..n
    BY LenProperties
  <1>2. PICK f : IsSum(f, s, n) /\ CapturedUpTo(s, n) = f[n]
    BY CapturedIsSum
  <1>3. PICK g : IsSum(g, t, n) /\ CapturedUpTo(t, n) = g[n]
    BY <1>1, CapturedIsSum
  <1>4. \A i \in 0..n : f[i] = g[i]
    BY <1>1, <1>2, <1>3, SumsAgree
  <1>5. QED
    BY <1>1, <1>2, <1>3, <1>4

\* One more output adds its bytes, and leaves what was captured before it.
LEMMA CapturedAppend ==
  ASSUME NEW s \in Seq(Outputs), NEW o \in Outputs
  PROVE  /\ Captured(Append(s, o)) = Captured(s) + Bytes(o)
         /\ CapturedUpTo(Append(s, o), Len(s) + 1) = Captured(s) + Bytes(o)
         /\ \A i \in 1..Len(s) : CapturedUpTo(Append(s, o), i) = CapturedUpTo(s, i)
  <1> DEFINE t == Append(s, o)
             n == Len(s)
  <1>1. /\ n \in Nat /\ t \in Seq(Outputs) /\ Len(t) = n + 1 /\ t[n + 1] = o
        /\ \A i \in 1..n : t[i] = s[i]
    BY LenProperties, AppendProperties
  <1>2. n = Len(s) /\ Captured(s) = CapturedUpTo(s, n)
    BY DEF Captured
  <1> HIDE DEF t, n
  <1>3. ASSUME NEW i \in 0..n PROVE CapturedUpTo(t, i) = CapturedUpTo(s, i)
    <2>1. SameBytes(s, t, i)
      BY <1>1 DEF SameBytes
    <2>2. i \in 0..Len(s) /\ i <= Len(t)
      BY <1>1, <1>2
    <2>3. QED
      BY <1>1, <2>1, <2>2, CapturedSame
  <1>4. CapturedUpTo(t, n + 1) = CapturedUpTo(t, n) + Bytes(o)
    <2>1. n + 1 \in 0..Len(t) /\ n \in 0..Len(t) /\ n + 1 \in Nat /\ n <= n + 1
      BY <1>1
    <2>2. PICK g : IsSum(g, t, n + 1) /\ CapturedUpTo(t, n + 1) = g[n + 1]
      BY <1>1, <2>1, CapturedIsSum
    <2>3. PICK f : IsSum(f, t, n) /\ CapturedUpTo(t, n) = f[n]
      BY <1>1, <2>1, CapturedIsSum
    <2>4. SameBytes(t, t, n)
      BY DEF SameBytes
    <2>5. \A i \in 0..n : f[i] = g[i]
      BY <1>1, <2>1, <2>2, <2>3, <2>4, SumsAgree
    <2>6. g[n + 1] = g[n] + Bytes(o)
      BY <1>1, <2>2 DEF IsSum
    <2>7. QED
      BY <1>1, <2>2, <2>3, <2>5, <2>6
  <1>5. CapturedUpTo(t, n) = CapturedUpTo(s, n)
    BY <1>1, <1>3
  <1>6. Captured(t) = CapturedUpTo(t, n + 1)
    BY <1>1 DEF Captured
  <1>7. \A i \in 1..n : CapturedUpTo(t, i) = CapturedUpTo(s, i)
    BY <1>3
  <1>8. QED
    BY <1>2, <1>4, <1>5, <1>6, <1>7 DEF t

\* What AtMost and Room say.
LEMMA AtMostFacts ==
  ASSUME NEW n \in Nat, NEW limit \in Nat
  PROVE  /\ AtMost(n, limit) \in Nat
         /\ AtMost(n, limit) <= n /\ AtMost(n, limit) <= limit
  BY DEF AtMost

LEMMA RoomFacts ==
  ASSUME NEW counted \in Nat
  PROVE  /\ Room(counted) \in Nat
         /\ Room(counted) > 0 => counted + Room(counted) = MaxCapturedDataBytes
  BY ConstantsAssumption DEF Room

\* canCaptureSQLRow: a row is kept when it fits, with all that was counted before
\* it and the columns of its result.
LEMMA KeptFits ==
  ASSUME NEW s \in Seq(Outputs), NEW sent \in Nat
  PROVE  /\ Kept(s, sent) \in 0..sent
         /\ Kept(s, sent) \in 0..MaxRowsPerResult
         /\ Kept(s, sent) > 0 =>
              Captured(s) + ColumnBytes + Kept(s, sent) <= MaxCapturedDataBytes
  <1> DEFINE counted == Captured(s) + ColumnBytes
             most == AtMost(sent, MaxRowsPerResult)
  <1>1. counted \in Nat /\ MaxRowsPerResult \in Nat /\ MaxCapturedDataBytes \in Nat
    BY CapturedNat, ConstantsAssumption
  <1>2. Kept(s, sent) = AtMost(most, Room(counted))
    BY DEF Kept
  <1> HIDE DEF counted
  <1>3. most \in Nat /\ most <= sent /\ most <= MaxRowsPerResult
    BY <1>1, AtMostFacts
  <1> HIDE DEF most
  <1>4. /\ Room(counted) \in Nat
        /\ Room(counted) > 0 => counted + Room(counted) = MaxCapturedDataBytes
    BY <1>1, RoomFacts
  <1>5. /\ Kept(s, sent) \in Nat /\ Kept(s, sent) <= most
        /\ Kept(s, sent) <= Room(counted)
    BY <1>2, <1>3, <1>4, AtMostFacts
  <1>6. Kept(s, sent) > 0 => counted + Kept(s, sent) <= MaxCapturedDataBytes
    BY <1>1, <1>4, <1>5
  <1>7. Kept(s, sent) \in 0..sent /\ Kept(s, sent) \in 0..MaxRowsPerResult
    BY <1>1, <1>3, <1>5
  <1>8. QED
    BY <1>6, <1>7 DEF counted

(***************************************************************************)
(* What is missing is marked.                                              *)
(***************************************************************************)
\* All rows that are missing are so because of a limit.
Told(outputs) == \A i \in DOMAIN outputs : ~outputs[i].whole => outputs[i].truncated

\* The property, said of any outputs.
Explained(outputs) ==
  \A i \in DOMAIN outputs :
    ~outputs[i].whole =>
      \/ outputs[i].truncated \/ outputs[i].incomplete
      \/ i < Len(outputs) /\ outputs[i + 1].kind = "error"

\* What outputs may be.
Content(outputs) == outputs \in Seq(Outputs) /\ RowsFit(outputs)

LEMMA OutputFacts ==
  /\ Output("command") \in Outputs /\ Output("error") \in Outputs
  /\ Output("command").rows = 0 /\ Output("error").rows = 0
  /\ Bytes(Output("command")) = 0 /\ Bytes(Output("error")) = 0
  /\ Output("command").whole /\ Output("error").whole
  /\ Output("error").kind = "error"
  BY ConstantsAssumption DEF Output, Outputs, Bytes

LEMMA RowsFacts ==
  ASSUME NEW s, Content(s), NEW sent \in Sent
  PROVE  LET o == RowsOutput(s, sent) IN
         /\ o \in Outputs /\ o.kind = "rows" /\ o.incomplete = FALSE
         /\ o.rows > 0 => Captured(s) + Bytes(o) <= MaxCapturedDataBytes
         /\ ~o.whole => o.truncated
         /\ [o EXCEPT !.whole = FALSE] \in Outputs
         /\ [o EXCEPT !.whole = FALSE].kind = "rows"
         /\ [o EXCEPT !.whole = FALSE].rows = o.rows
         /\ Bytes([o EXCEPT !.whole = FALSE]) = Bytes(o)
  <1> DEFINE k == Kept(s, sent)
             o == RowsOutput(s, sent)
  <1>1. sent \in Nat
    BY ConstantsAssumption
  <1>2. /\ k \in 0..sent /\ k \in 0..MaxRowsPerResult
        /\ k > 0 => Captured(s) + ColumnBytes + k <= MaxCapturedDataBytes
    BY <1>1, KeptFits DEF Content
  <1> DEFINE w == k = sent
             m == k < sent
  <1>3. /\ o \in Outputs /\ o.kind = "rows" /\ o.rows = k /\ o.incomplete = FALSE
        /\ ~o.whole => o.truncated
    <2>1. o = [Output("rows") EXCEPT !.rows = k, !.whole = w, !.truncated = m]
      BY Zenon DEF RowsOutput
    <2>2. w \in BOOLEAN /\ m \in BOOLEAN /\ (~w => m)
      BY <1>1, <1>2
    <2>3. \E ww, mm \in BOOLEAN :
            /\ ~ww => mm
            /\ o = [Output("rows") EXCEPT !.rows = k, !.whole = ww, !.truncated = mm]
      <3> HIDE DEF k, w, m, o
      <3>1. QED
        BY Zenon, <2>1, <2>2
    <2> HIDE DEF k, w, m, o
    <2>4. PICK ww \in BOOLEAN, mm \in BOOLEAN :
            /\ ~ww => mm
            /\ o = [Output("rows") EXCEPT !.rows = k, !.whole = ww, !.truncated = mm]
      BY Zenon, <2>3
    <2>5. QED
      BY <1>2, <2>4 DEF Output, Outputs
  <1> HIDE DEF k, w, m, o
  <1>4. o \in Outputs /\ [o EXCEPT !.whole = FALSE] \in Outputs
    BY <1>3 DEF Outputs
  <1>5. ~o.whole => o.truncated
    BY <1>3
  <1>6. /\ [o EXCEPT !.whole = FALSE].kind = "rows"
        /\ [o EXCEPT !.whole = FALSE].rows = o.rows
    BY <1>3
  <1>7. Bytes(o) = o.rows + ColumnBytes /\ Bytes([o EXCEPT !.whole = FALSE]) = Bytes(o)
    BY <1>3, <1>6 DEF Bytes
  <1>8. o.rows > 0 => Captured(s) + Bytes(o) <= MaxCapturedDataBytes
    <2>1. Captured(s) \in Nat /\ ColumnBytes \in Nat /\ k \in Nat
      BY <1>1, <1>2, CapturedNat, ConstantsAssumption DEF Content
    <2>2. QED
      BY <1>2, <1>3, <1>7, <2>1
  <1>9. QED
    BY <1>3, <1>4, <1>5, <1>6, <1>7, <1>8 DEF o

\* An output at the end.
LEMMA AppendContent ==
  ASSUME NEW s, Content(s), NEW o \in Outputs,
         o.rows > 0 => Captured(s) + Bytes(o) <= MaxCapturedDataBytes
  PROVE  /\ Content(Append(s, o)) /\ Captured(Append(s, o)) = Captured(s) + Bytes(o)
         /\ Len(s) \in Nat /\ Len(Append(s, o)) = Len(s) + 1
         /\ DOMAIN s = 1..Len(s) /\ DOMAIN Append(s, o) = 1..(Len(s) + 1)
         /\ Append(s, o)[Len(s) + 1] = o
         /\ \A i \in 1..Len(s) : Append(s, o)[i] = s[i]
  <1> DEFINE t == Append(s, o)
  <1>1. s \in Seq(Outputs) /\ RowsFit(s)
    BY DEF Content
  <1>2. t \in Seq(Outputs)
    BY <1>1, AppendProperties
  <1>3. /\ Len(s) \in Nat /\ Len(t) = Len(s) + 1
        /\ DOMAIN s = 1..Len(s) /\ DOMAIN t = 1..(Len(s) + 1)
        /\ t[Len(s) + 1] = o /\ \A i \in 1..Len(s) : t[i] = s[i]
    BY <1>1, <1>2, AppendProperties, LenProperties
  <1>4. /\ Captured(t) = Captured(s) + Bytes(o)
        /\ CapturedUpTo(t, Len(s) + 1) = Captured(s) + Bytes(o)
        /\ \A i \in 1..Len(s) : CapturedUpTo(t, i) = CapturedUpTo(s, i)
    BY <1>1, CapturedAppend
  <1> HIDE DEF t
  <1>5. ASSUME NEW i \in DOMAIN t, t[i].rows > 0
        PROVE  CapturedUpTo(t, i) <= MaxCapturedDataBytes
    <2>1. CASE i = Len(s) + 1
      BY <1>3, <1>4, <1>5, <2>1
    <2>2. CASE i # Len(s) + 1
      <3>1. i \in 1..Len(s)
        BY <1>3, <2>2
      <3>2. s[i].rows > 0
        BY <1>3, <1>5, <3>1
      <3>3. QED
        BY <1>1, <1>3, <1>4, <3>1, <3>2 DEF RowsFit
    <2>3. QED
      BY <2>1, <2>2
  <1>6. RowsFit(t)
    BY <1>5 DEF RowsFit
  <1>7. QED
    BY <1>2, <1>3, <1>4, <1>6 DEF Content, t

LEMMA AppendTold ==
  ASSUME NEW s, Content(s), Told(s), NEW o \in Outputs, ~o.whole => o.truncated,
         o.rows > 0 => Captured(s) + Bytes(o) <= MaxCapturedDataBytes
  PROVE  Told(Append(s, o))
  BY AppendContent DEF Told

LEMMA ToldExplained == ASSUME NEW s, Told(s) PROVE Explained(s)
  BY DEF Told, Explained

\* An error accounts for what is missing of the output before it.
LEMMA ErrorExplains ==
  ASSUME NEW s, Content(s), NEW n \in Nat, n = Len(s),
         \A i \in 1..n : i < n /\ ~s[i].whole =>
           s[i].truncated \/ s[i].incomplete \/ s[i + 1].kind = "error"
  PROVE  Explained(Append(s, Output("error")))
  <1> DEFINE o == Output("error")
             t == Append(s, o)
  <1>0. o \in Outputs /\ o.rows = 0 /\ o.whole /\ o.kind = "error"
    BY OutputFacts
  <1>1. o.rows > 0 => Captured(s) + Bytes(o) <= MaxCapturedDataBytes
    BY <1>0
  <1>2. /\ Len(t) = n + 1 /\ DOMAIN t = 1..(n + 1) /\ t[n + 1] = o
        /\ \A i \in 1..n : t[i] = s[i]
    BY <1>0, <1>1, AppendContent
  <1> HIDE DEF o, t
  <1>3. ASSUME NEW i \in 1..(n + 1), ~t[i].whole
        PROVE  t[i].truncated \/ t[i].incomplete \/ (i < n + 1 /\ t[i + 1].kind = "error")
    <2>1. i \in 1..n /\ t[i] = s[i]
      BY <1>0, <1>2, <1>3
    <2>2. CASE i = n
      BY <1>0, <1>2, <2>1, <2>2
    <2>3. CASE i < n
      <3>1. i + 1 \in 1..n
        BY <2>1, <2>3
      <3>2. QED
        BY <1>2, <1>3, <2>1, <2>3, <3>1
    <2>4. QED
      BY <2>1, <2>2, <2>3
  <1>4. QED
    BY <1>2, <1>3 DEF Explained, o, t

LEMMA ErrorAdds ==
  ASSUME NEW s, Content(s)
  PROVE  /\ Content(Append(s, Output("error")))
         /\ Captured(Append(s, Output("error"))) = Captured(s)
         /\ Failed(Append(s, Output("error")))
  <1> DEFINE o == Output("error")
  <1>1. o \in Outputs /\ o.rows = 0 /\ Bytes(o) = 0 /\ o.kind = "error"
    BY OutputFacts
  <1>2. Captured(s) \in Nat
    BY CapturedNat DEF Content
  <1> HIDE DEF o
  <1>3. /\ Content(Append(s, o)) /\ Captured(Append(s, o)) = Captured(s) + Bytes(o)
        /\ Len(s) \in Nat /\ DOMAIN Append(s, o) = 1..(Len(s) + 1)
        /\ Append(s, o)[Len(s) + 1] = o
    BY <1>1, AppendContent
  <1>4. Failed(Append(s, o))
    BY <1>1, <1>3 DEF Failed
  <1>5. QED
    BY <1>1, <1>2, <1>3, <1>4 DEF o

LEMMA ErrorKeeps ==
  ASSUME NEW s, Content(s), Explained(s)
  PROVE  /\ Content(Append(s, Output("error")))
         /\ Captured(Append(s, Output("error"))) = Captured(s)
         /\ Explained(Append(s, Output("error")))
  <1>1. Captured(s) \in Nat /\ Len(s) \in Nat /\ DOMAIN s = 1..Len(s)
    BY CapturedNat, LenProperties DEF Content
  <1>2. /\ Content(Append(s, Output("error")))
        /\ Captured(Append(s, Output("error"))) = Captured(s)
    BY ErrorAdds
  <1>3. Explained(Append(s, Output("error")))
    BY <1>1, ErrorExplains DEF Explained
  <1>4. QED
    BY <1>2, <1>3

\* Marking an output as incomplete.
LEMMA MarkKeeps ==
  ASSUME NEW s, Content(s), NEW i
  PROVE  LET t == [s EXCEPT ![i].incomplete = TRUE] IN
         /\ Content(t) /\ Captured(t) = Captured(s)
         /\ DOMAIN t = DOMAIN s /\ Len(t) = Len(s) /\ DOMAIN s = 1..Len(s)
         /\ \A j \in DOMAIN s :
              /\ t[j].whole = s[j].whole /\ t[j].truncated = s[j].truncated
              /\ t[j].kind = s[j].kind
              /\ s[j].incomplete \/ j = i => t[j].incomplete
  <1> DEFINE t == [s EXCEPT ![i].incomplete = TRUE]
             e == [s[i] EXCEPT !.incomplete = TRUE]
             n == Len(s)
  <1>1. s \in Seq(Outputs) /\ DOMAIN s = 1..n /\ n \in Nat
    BY LenProperties DEF Content
  <1>2. \A j \in 1..n : s[j] \in Outputs
    BY <1>1, ElementOfSeq
  <1>3. CASE i \in 1..n
    <2>1. t = [s EXCEPT ![i] = e]
      BY <1>1, <1>3
    <2>2. s[i] \in Outputs
      BY <1>2, <1>3
    <2>3. /\ e \in Outputs /\ e.rows = s[i].rows /\ e.whole = s[i].whole
          /\ Bytes(e) = Bytes(s[i])
          /\ e.truncated = s[i].truncated /\ e.kind = s[i].kind /\ e.incomplete
      BY <2>2 DEF Outputs, Bytes
    <2>4. /\ t \in Seq(Outputs) /\ Len(t) = n
          /\ \A j \in 1..n : t[j] = IF j = i THEN e ELSE s[j]
      <3> HIDE DEF t, e
      <3>1. QED
        BY <1>1, <1>3, <2>1, <2>3, ExceptSeq
    <2> HIDE DEF t, e
    <2>5. DOMAIN t = 1..n
      BY <2>4, LenProperties
    <2>6. \A j \in 1..n : t[j].rows = s[j].rows /\ Bytes(t[j]) = Bytes(s[j])
      BY <2>3, <2>4
    <2>7. Captured(t) = Captured(s) /\ RowsFit(t)
      <3>1. \A j \in 0..n : CapturedUpTo(t, j) = CapturedUpTo(s, j)
        <4>1. ASSUME NEW j \in 0..n PROVE CapturedUpTo(t, j) = CapturedUpTo(s, j)
          <5>1. SameBytes(t, s, j) /\ j \in 0..Len(t) /\ j <= Len(s)
            BY <1>1, <2>4, <2>6 DEF SameBytes
          <5>2. QED
            BY <1>1, <2>4, <5>1, CapturedSame
        <4>2. QED
          BY <4>1
      <3>2. n \in 0..n /\ \A j \in 1..n : j \in 0..n
        BY <1>1
      <3>3. QED
        BY <1>1, <2>4, <2>5, <2>6, <3>1, <3>2 DEF Captured, RowsFit, Content
    <2>8. Content(t)
      BY <2>4, <2>7 DEF Content
    <2>9. QED
      BY <1>1, <2>3, <2>4, <2>5, <2>7, <2>8 DEF t
  <1>4. CASE i \notin 1..n
    <2>1. t = s
      BY <1>1, <1>4
    <2>2. QED
      BY <1>1, <1>4, <2>1
  <1>5. QED
    BY <1>3, <1>4

(***************************************************************************)
(* The invariant of runs, their outputs and what tabs show of them.        *)
(***************************************************************************)
RunTyped(x) ==
  /\ x.tab \in Tabs \cup {None} /\ x.snapshot \in Texts \cup {None}
  /\ x.stage \in Stages /\ x.connection \in Connections \cup {None}
  /\ x.notices \in 0..MaxNotices /\ x.captured \in Nat
  /\ x.cancelled \in BOOLEAN /\ x.outcome \in Outcomes

\* A run that has no connection yet has captured nothing; while one executes, what
\* is missing is missing because of a limit; afterwards its notices have been cut
\* to what its count leaves of the limit.
RunContent(x) ==
  /\ Content(x.outputs) /\ Explained(x.outputs)
  /\ IF x.stage = "executing" THEN Told(x.outputs)
     ELSE /\ x.notices > 0 => x.captured <= MaxCapturedDataBytes
          /\ CountedRight(x)
  /\ x.stage \in {"unused", "intent", "acquiring"} =>
       x.outputs = <<>> /\ x.notices = 0 /\ x.captured = 0

RunOk(x) == RunTyped(x) /\ RunContent(x)

TabsTyped ==
  /\ active \in [Tabs -> Runs \cup {NoRun}]
  /\ lastRun \in [Tabs -> Runs \cup {NoRun}]
  /\ \A t \in Tabs : result[t].run \in Runs \cup {NoRun}
  /\ resultSnapshot \in [Tabs -> Texts \cup {None}]
  /\ stale \in [Tabs -> BOOLEAN]
  /\ lifecycle \in [Tabs -> Lifecycles]
  /\ cancels \subseteq Runs

ResultsOk ==
  \A t \in Tabs : Content(result[t].outputs) /\ Explained(result[t].outputs)

OutputsInv == (\A r \in Runs : RunOk(run[r])) /\ TabsTyped /\ ResultsOk

LEMMA NothingCaptured ==
  /\ Content(<<>>) /\ Captured(<<>>) = 0 /\ Told(<<>>) /\ Explained(<<>>)
  /\ 0 \in 0..MaxNotices /\ 0 \in Nat
  <1>1. <<>> \in Seq(Outputs) /\ DOMAIN <<>> = 1..0 /\ Captured(<<>>) = 0
    BY EmptySeq, CapturedEmpty
  <1>2. 0 \in 0..MaxNotices /\ 0 \in Nat
    BY ConstantsAssumption
  <1>3. QED
    BY <1>1, <1>2 DEF Content, RowsFit, Told, Explained

LEMMA NothingContent ==
  ASSUME NEW x, x.outputs = <<>>, x.notices = 0, x.captured = 0
  PROVE  RunContent(x)
  <1>1. CountedRight(x)
    BY NothingCaptured DEF CountedRight
  <1>2. QED
    BY <1>1, NothingCaptured DEF RunContent

\* A run that starts.
LEMMA FreshOk ==
  ASSUME NEW x, x.tab \in Tabs \cup {None}, x.snapshot \in Texts \cup {None},
         x.stage \in {"unused", "intent", "acquiring"}, x.connection = None,
         x.outputs = <<>>, x.notices = 0, x.captured = 0, x.cancelled = FALSE,
         x.outcome = "none"
  PROVE  RunOk(x)
  <1>1. RunTyped(x)
    BY NothingCaptured DEF RunTyped, Stages, Outcomes
  <1>2. RunContent(x)
    BY NothingContent
  <1>3. QED
    BY <1>1, <1>2 DEF RunOk

LEMMA NewRunOk ==
  ASSUME NEW t \in Tabs \cup {None}, NEW text \in Texts \cup {None}
  PROVE  /\ RunOk(NewRun(t, text))
         /\ RunOk([NewRun(t, text) EXCEPT !.stage = "unused"])
  <1>1. RunOk(NewRun(t, text))
    <2> DEFINE x == NewRun(t, text)
    <2>1. /\ x.tab = t /\ x.snapshot = text /\ x.stage = "intent"
          /\ x.connection = None /\ x.outputs = <<>> /\ x.notices = 0
          /\ x.captured = 0 /\ x.cancelled = FALSE /\ x.outcome = "none"
      BY DEF NewRun
    <2> HIDE DEF x
    <2>2. RunOk(x)
      BY <2>1, FreshOk
    <2>3. QED
      BY <2>2 DEF x
  <1>2. RunOk([NewRun(t, text) EXCEPT !.stage = "unused"])
    <2> DEFINE x == [NewRun(t, text) EXCEPT !.stage = "unused"]
    <2>1. /\ x.tab = t /\ x.snapshot = text /\ x.stage = "unused"
          /\ x.connection = None /\ x.outputs = <<>> /\ x.notices = 0
          /\ x.captured = 0 /\ x.cancelled = FALSE /\ x.outcome = "none"
      BY DEF NewRun
    <2> HIDE DEF x
    <2>2. RunOk(x)
      BY <2>1, FreshOk
    <2>3. QED
      BY <2>2 DEF x
  <1>3. QED
    BY <1>1, <1>2

\* After its execution a run keeps what it has captured.
LEMMA LaterOk ==
  ASSUME NEW x, NEW y, RunOk(x), y.tab = x.tab, y.snapshot = x.snapshot,
         y.outputs = x.outputs, y.notices = x.notices, y.captured = x.captured,
         x.stage # "executing",
         y.stage \in Stages \ {"unused", "intent", "acquiring", "executing"},
         y.connection \in Connections \cup {None}, y.cancelled \in BOOLEAN,
         y.outcome \in {x.outcome, "failed"}
  PROVE  RunOk(y)
  <1>1. RunTyped(y)
    BY DEF RunOk, RunTyped, Outcomes
  <1>2. RunContent(y)
    <2>1. CountedRight(x) => CountedRight(y)
      BY DEF CountedRight
    <2>2. QED
      BY <2>1 DEF RunOk, RunContent
  <1>3. QED
    BY <1>1, <1>2 DEF RunOk

\* The end of the batch cuts the notices to what is left of the limit.
LEMMA ExecutedOk ==
  ASSUME PoolInv, NEW r \in Runs, RunOk(run[r]), NEW outputs, Content(outputs),
         Explained(outputs), NEW outcome \in Outcomes,
         NEW counted \in Nat, Executed(r, outputs, counted, outcome),
         \/ counted = Captured(outputs)
         \/ counted = 0 /\ (Failed(outputs) \/ outcome # "ok")
  PROVE  RunOk(run'[r])
  <1> DEFINE n == Attached(r, counted)
  <1>1. DOMAIN run = Runs /\ DOMAIN run[r] = RunFields
    BY DEF PoolInv, Shaped
  <1>2. /\ run'[r].tab = run[r].tab /\ run'[r].snapshot = run[r].snapshot
        /\ run'[r].stage = "cleaning" /\ run'[r].connection = run[r].connection
        /\ run'[r].outputs = outputs /\ run'[r].notices = n
        /\ run'[r].captured = counted + n
        /\ run'[r].cancelled = run[r].cancelled /\ run'[r].outcome = outcome
    BY <1>1 DEF Executed, RunFields
  <1>3. /\ n \in 0..MaxNotices
        /\ n > 0 => counted + n <= MaxCapturedDataBytes
    <2>1. run[r].notices \in 0..MaxNotices /\ run[r].notices \in Nat
          /\ MaxNotices \in Nat /\ MaxCapturedDataBytes \in Nat
      BY ConstantsAssumption DEF RunOk, RunTyped
    <2>2. /\ Room(counted) \in Nat
          /\ Room(counted) > 0 => counted + Room(counted) = MaxCapturedDataBytes
      BY RoomFacts
    <2>3. n = AtMost(run[r].notices, Room(counted))
      BY DEF Attached
    <2> HIDE DEF n
    <2>4. n \in Nat /\ n <= run[r].notices /\ n <= Room(counted)
      BY <2>1, <2>2, <2>3, AtMostFacts
    <2>5. QED
      BY <2>1, <2>2, <2>4
  <1> HIDE DEF n
  <1>4. RunTyped(run'[r])
    <2>1. counted + n \in Nat
      BY <1>3, ConstantsAssumption
    <2>2. QED
      BY <1>2, <1>3, <2>1 DEF RunOk, RunTyped, Stages
  <1>5. RunContent(run'[r])
    <2>1. run'[r].stage \notin {"executing", "unused", "intent", "acquiring"}
      BY <1>2
    <2>2. CountedRight(run'[r])
      <3>1. CASE counted = Captured(outputs)
        BY <1>2, <3>1 DEF CountedRight
      <3>2. CASE counted = 0 /\ (Failed(outputs) \/ outcome # "ok")
        <4>1. counted + n = n
          BY <1>3, <3>2, ConstantsAssumption
        <4>2. QED
          BY <1>2, <3>2, <4>1 DEF CountedRight
      <3>3. QED
        BY <3>1, <3>2
    <2>3. QED
      BY <1>2, <1>3, <2>1, <2>2 DEF RunContent
  <1>6. QED
    BY <1>4, <1>5 DEF RunOk

\* Rows that did not end are the last output, and the only one that is neither
\* whole nor cut by a limit.
LEMMA PartialFacts ==
  ASSUME NEW s, Content(s), Told(s), NEW t \in PartialRows(s)
  PROVE  /\ Content(t) /\ Len(t) \in Nat \ {0} /\ DOMAIN t = 1..Len(t)
         /\ t[Len(t)].kind = "rows"
         /\ \A i \in 1..Len(t) : i < Len(t) /\ ~t[i].whole => t[i].truncated
  <1>1. PICK sent \in Sent :
          t = Append(s, [RowsOutput(s, sent) EXCEPT !.whole = FALSE])
    BY DEF PartialRows
  <1> DEFINE o == [RowsOutput(s, sent) EXCEPT !.whole = FALSE]
  <1>2. /\ o \in Outputs /\ o.kind = "rows"
        /\ o.rows > 0 => Captured(s) + Bytes(o) <= MaxCapturedDataBytes
    BY RowsFacts
  <1> HIDE DEF o
  <1>3. t = Append(s, o)
    BY <1>1 DEF o
  <1>4. /\ Content(t) /\ Len(s) \in Nat /\ Len(t) = Len(s) + 1
        /\ DOMAIN s = 1..Len(s) /\ DOMAIN t = 1..(Len(s) + 1) /\ t[Len(s) + 1] = o
        /\ \A i \in 1..Len(s) : t[i] = s[i]
    BY <1>2, <1>3, AppendContent
  <1>5. ASSUME NEW i \in 1..Len(t), i < Len(t), ~t[i].whole PROVE t[i].truncated
    <2>1. i \in 1..Len(s) /\ t[i] = s[i]
      BY <1>4, <1>5
    <2>2. QED
      BY <1>4, <1>5, <2>1 DEF Told
  <1>6. QED
    BY <1>2, <1>4, <1>5

LEMMA PartialError ==
  ASSUME NEW s, Content(s), Told(s), NEW t \in PartialRows(s)
  PROVE  Explained(Append(t, Output("error")))
  <1>1. /\ Content(t) /\ Len(t) \in Nat
        /\ \A i \in 1..Len(t) : i < Len(t) /\ ~t[i].whole => t[i].truncated
    BY PartialFacts
  <1>2. QED
    BY <1>1, ErrorExplains

\* markLastRowsIncomplete marks the rows that did not end, being last, and takes
\* nothing from what is marked.
LEMMA MarkedContent ==
  ASSUME NEW s, Content(s)
  PROVE  LET t == MarkLastRowsIncomplete(s) IN
         Content(t) /\ Captured(t) = Captured(s)
  <1>1. \A i : LET t == [s EXCEPT ![i].incomplete = TRUE] IN
               Content(t) /\ Captured(t) = Captured(s)
    <2>1. ASSUME NEW i PROVE LET t == [s EXCEPT ![i].incomplete = TRUE] IN
                             Content(t) /\ Captured(t) = Captured(s)
      BY MarkKeeps
    <2>2. QED
      BY <2>1
  <1> DEFINE rows == {i \in DOMAIN s : s[i].kind = "rows"}
             last == CHOOSE i \in rows : \A j \in rows : j <= i
  <1>2. MarkLastRowsIncomplete(s)
          = IF rows = {} THEN s ELSE [s EXCEPT ![last].incomplete = TRUE]
    BY DEF MarkLastRowsIncomplete
  <1> HIDE DEF rows, last
  <1>3. QED
    BY <1>1, <1>2

LEMMA MarkedTold ==
  ASSUME NEW s, Content(s), Told(s) PROVE Explained(MarkLastRowsIncomplete(s))
  <1>1. ASSUME NEW i PROVE Told([s EXCEPT ![i].incomplete = TRUE])
    BY MarkKeeps DEF Told
  <1>2. Told(MarkLastRowsIncomplete(s))
    BY <1>1 DEF MarkLastRowsIncomplete
  <1>3. QED
    BY <1>2, ToldExplained

LEMMA MarkedPartial ==
  ASSUME NEW s, Content(s), Told(s), NEW t \in PartialRows(s)
  PROVE  Explained(MarkLastRowsIncomplete(t))
  <1> DEFINE n == Len(t)
             rows == {i \in DOMAIN t : t[i].kind = "rows"}
             last == CHOOSE i \in rows : \A j \in rows : j <= i
             u == [t EXCEPT ![n].incomplete = TRUE]
  <1>1. /\ Content(t) /\ n \in Nat \ {0} /\ DOMAIN t = 1..n /\ t[n].kind = "rows"
        /\ \A i \in 1..n : i < n /\ ~t[i].whole => t[i].truncated
    BY PartialFacts
  <1>2. last = n
    <2>1. n \in rows /\ \A j \in rows : j <= n
      BY <1>1
    <2>2. last \in rows /\ \A j \in rows : j <= last
      BY <2>1
    <2>3. n <= last /\ last <= n /\ last \in Nat
      BY <1>1, <2>1, <2>2
    <2>4. QED
      BY <1>1, <2>3
  <1>3. MarkLastRowsIncomplete(t) = u
    <2>1. rows # {}
      BY <1>1
    <2>2. MarkLastRowsIncomplete(t) = [t EXCEPT ![last].incomplete = TRUE]
      BY <2>1 DEF MarkLastRowsIncomplete
    <2> HIDE DEF last
    <2>3. QED
      BY <1>2, <2>2
  <1>4. /\ DOMAIN u = DOMAIN t
        /\ \A j \in DOMAIN t :
             /\ u[j].whole = t[j].whole /\ u[j].truncated = t[j].truncated
             /\ t[j].incomplete \/ j = n => u[j].incomplete
    BY <1>1, MarkKeeps
  <1> HIDE DEF u
  <1>5. ASSUME NEW j \in DOMAIN u, ~u[j].whole
        PROVE  u[j].truncated \/ u[j].incomplete
    <2>1. j \in 1..n
      BY <1>1, <1>4
    <2>2. CASE j = n
      BY <1>4, <2>2
    <2>3. CASE j < n
      BY <1>1, <1>4, <1>5, <2>1, <2>3
    <2>4. QED
      BY <1>1, <2>1, <2>2, <2>3
  <1>6. QED
    BY <1>3, <1>5 DEF Explained

\* The mark of a cancellation leaves the rest as it is.
LEMMA CutOffKeeps ==
  ASSUME NEW s, Content(s), Explained(s)
  PROVE  Content(CutOff(s)) /\ Explained(CutOff(s))
  <1>1. ASSUME NEW i PROVE LET t == [s EXCEPT ![i].incomplete = TRUE] IN
                           Content(t) /\ Explained(t)
    <2> DEFINE t == [s EXCEPT ![i].incomplete = TRUE]
    <2>1. /\ Content(t) /\ DOMAIN t = DOMAIN s /\ Len(t) = Len(s)
          /\ DOMAIN s = 1..Len(s)
          /\ \A j \in DOMAIN s :
               /\ t[j].whole = s[j].whole /\ t[j].truncated = s[j].truncated
               /\ t[j].kind = s[j].kind
               /\ s[j].incomplete => t[j].incomplete
      <3>1. /\ Content(t) /\ DOMAIN t = DOMAIN s /\ Len(t) = Len(s) /\ DOMAIN s = 1..Len(s)
            /\ \A j \in DOMAIN s :
                 /\ t[j].whole = s[j].whole /\ t[j].truncated = s[j].truncated
                 /\ t[j].kind = s[j].kind
                 /\ s[j].incomplete \/ j = i => t[j].incomplete
        BY MarkKeeps
      <3> HIDE DEF t
      <3>2. QED
        BY <3>1
    <2>2. Len(s) \in Nat
      BY LenProperties DEF Content
    <2> HIDE DEF t
    <2>3. ASSUME NEW j \in DOMAIN t, ~t[j].whole
          PROVE  t[j].truncated \/ t[j].incomplete
                 \/ (j < Len(t) /\ t[j + 1].kind = "error")
      <3>1. \/ s[j].truncated \/ s[j].incomplete
            \/ j < Len(s) /\ s[j + 1].kind = "error"
        BY <2>1, <2>3 DEF Explained
      <3>2. CASE s[j].truncated \/ s[j].incomplete
        BY <2>1, <2>3, <3>2
      <3>3. CASE j < Len(s) /\ s[j + 1].kind = "error"
        <4>1. j + 1 \in DOMAIN s
          BY <2>1, <2>2, <2>3, <3>3
        <4>2. QED
          BY <2>1, <3>3, <4>1
      <3>4. QED
        BY <3>1, <3>2, <3>3
    <2>4. QED
      BY <2>1, <2>3 DEF t, Explained
  <1>2. QED
    BY <1>1 DEF CutOff

\* The steps of an execution.
LEMMA StatementOk ==
  ASSUME PoolInv, NEW r \in Runs, RunOk(run[r]), Statement(r)
  PROVE  RunOk(run'[r])
  <1> DEFINE s == run[r].outputs
  <1>0. DOMAIN run = Runs /\ DOMAIN run[r] = RunFields /\ run[r].stage = "executing"
    BY DEF PoolInv, Shaped, Statement, At
  <1>1. Content(s) /\ Told(s)
    BY <1>0 DEF RunOk, RunContent
  <1>2. PICK o \in Outputs :
          /\ ~o.whole => o.truncated
          /\ o.rows > 0 => Captured(s) + Bytes(o) <= MaxCapturedDataBytes
          /\ run' = [run EXCEPT ![r].outputs = Append(@, o)]
    <2>1. CASE run' = [run EXCEPT ![r].outputs = Append(@, Output("command"))]
      <3> DEFINE o == Output("command")
      <3>1. o \in Outputs /\ o.whole /\ ~(o.rows > 0)
        BY OutputFacts
      <3>2. run' = [run EXCEPT ![r].outputs = Append(@, o)]
        BY <2>1
      <3> HIDE DEF o
      <3>3. QED
        BY <3>1, <3>2
    <2>2. CASE \E sent \in Sent :
                 run' = [run EXCEPT ![r].outputs = Append(@, RowsOutput(@, sent))]
      <3>1. PICK sent \in Sent :
              run' = [run EXCEPT ![r].outputs = Append(@, RowsOutput(@, sent))]
        BY <2>2
      <3> DEFINE o == RowsOutput(s, sent)
      <3>2. /\ o \in Outputs
            /\ ~o.whole => o.truncated
            /\ o.rows > 0 => Captured(s) + Bytes(o) <= MaxCapturedDataBytes
        BY <1>1, RowsFacts
      <3>3. run' = [run EXCEPT ![r].outputs = Append(@, o)]
        BY <3>1
      <3> HIDE DEF o
      <3>4. QED
        BY <3>2, <3>3
    <2>3. QED
      BY <2>1, <2>2 DEF Statement
  <1> HIDE DEF s
  <1>3. /\ run'[r].tab = run[r].tab /\ run'[r].snapshot = run[r].snapshot
        /\ run'[r].stage = "executing" /\ run'[r].connection = run[r].connection
        /\ run'[r].outputs = Append(s, o) /\ run'[r].notices = run[r].notices
        /\ run'[r].captured = run[r].captured
        /\ run'[r].cancelled = run[r].cancelled /\ run'[r].outcome = run[r].outcome
    BY <1>0, <1>2 DEF RunFields, s
  <1>4. Content(Append(s, o)) /\ Told(Append(s, o)) /\ Explained(Append(s, o))
    BY <1>1, <1>2, AppendContent, AppendTold, ToldExplained
  <1>5. RunTyped(run'[r])
    BY <1>0, <1>3 DEF RunOk, RunTyped
  <1>6. RunContent(run'[r])
    BY <1>3, <1>4 DEF RunContent
  <1>7. QED
    BY <1>5, <1>6 DEF RunOk

\* Where a batch stops: what has been read, and what was counted of it.
EndOf(s, t, counted) ==
  /\ Content(t) /\ t \in {s} \cup PartialRows(s)
  /\ counted \in Nat /\ (counted = Captured(t) \/ counted = 0)

LEMMA EndFacts ==
  ASSUME NEW s, Content(s), Told(s),
         NEW end \in BetweenStatements(s) \cup AmongRows(s)
  PROVE  EndOf(s, end.outputs, end.counted)
  <1>1. \/ end.outputs = s /\ end.counted = Captured(s)
        \/ end.outputs \in PartialRows(s) /\ end.counted = Captured(end.outputs)
        \/ end.outputs = s /\ end.counted = 0
    BY DEF BetweenStatements, AmongRows
  <1>2. Content(end.outputs) /\ end.outputs \in {s} \cup PartialRows(s)
    BY <1>1, PartialFacts
  <1>3. Captured(end.outputs) \in Nat
    BY <1>2, CapturedNat DEF Content
  <1>4. QED
    BY <1>1, <1>2, <1>3 DEF EndOf

LEMMA EndsOk ==
  ASSUME PoolInv, NEW r \in Runs, RunOk(run[r]),
         Completed(r) \/ ServerError(r) \/ Interrupted(r)
  PROVE  RunOk(run'[r])
  <1> DEFINE s == run[r].outputs
  <1>1. run[r].stage = "executing"
    BY DEF Completed, ServerError, Interrupted, At
  <1>2. Content(s) /\ Told(s) /\ Explained(s)
    BY <1>1 DEF RunOk, RunContent
  <1>3. {"ok", "failed", "cancelled"} \subseteq Outcomes
    BY DEF Outcomes
  <1> HIDE DEF s
  <1>4. CASE Completed(r)
    <2>1. Executed(r, s, Captured(s), "ok")
      BY <1>4 DEF Completed, s
    <2>2. Captured(s) \in Nat
      BY <1>2, CapturedNat DEF Content
    <2>3. QED
      BY <1>2, <1>3, <2>1, <2>2, ExecutedOk
  <1>5. CASE ServerError(r)
    <2>1. PICK end \in BetweenStatements(s) \cup AmongRows(s) :
            Executed(r, Append(end.outputs, Output("error")), end.counted, "ok")
      BY <1>5 DEF ServerError, s
    <2> DEFINE t == Append(end.outputs, Output("error"))
    <2>2. EndOf(s, end.outputs, end.counted)
      BY <1>2, EndFacts
    <2>3. Content(t) /\ Explained(t) /\ Failed(t) /\ Captured(t) = Captured(end.outputs)
      BY <1>2, <2>2, ErrorAdds, ErrorKeeps, PartialError DEF EndOf
    <2>4. Executed(r, t, end.counted, "ok")
      BY <2>1
    <2> HIDE DEF t
    <2>5. QED
      BY <1>3, <2>2, <2>3, <2>4, ExecutedOk DEF EndOf
  <1>6. CASE Interrupted(r)
    <2>1. PICK end \in BetweenStatements(s) \cup AmongRows(s) :
            Executed(r, MarkLastRowsIncomplete(end.outputs), end.counted,
                     IF run[r].cancelled THEN "cancelled" ELSE "failed")
      BY <1>6 DEF Interrupted, s
    <2> DEFINE t == MarkLastRowsIncomplete(end.outputs)
               outcome == IF run[r].cancelled THEN "cancelled" ELSE "failed"
    <2>2. EndOf(s, end.outputs, end.counted)
      BY <1>2, EndFacts
    <2>3. Content(t) /\ Explained(t) /\ Captured(t) = Captured(end.outputs)
      BY <1>2, <2>2, MarkedContent, MarkedTold, MarkedPartial DEF EndOf
    <2>4. outcome \in Outcomes /\ outcome # "ok"
      BY <1>3
    <2>5. Executed(r, t, end.counted, outcome)
      BY <2>1
    <2> HIDE DEF t, outcome
    <2>6. QED
      BY <2>2, <2>3, <2>4, <2>5, ExecutedOk DEF EndOf
  <1>7. QED
    BY <1>4, <1>5, <1>6

\* Taking a connection, and all that comes before it.
LEMMA EarlyOk ==
  ASSUME PoolInv, NEW r \in Runs, RunOk(run[r]),
         Dispatch(r) \/ (\E c \in Connections : Acquire(r, c)) \/ AcquireFails(r)
  PROVE  RunOk(run'[r])
  <1>1. DOMAIN run = Runs /\ DOMAIN run[r] = RunFields
    BY DEF PoolInv, Shaped
  <1>2. ASSUME run[r].stage \in {"intent", "acquiring"},
               run'[r].tab = run[r].tab, run'[r].snapshot = run[r].snapshot,
               run'[r].stage \in {"acquiring", "executing", "reply"},
               run'[r].connection \in Connections \cup {None},
               run'[r].outputs = run[r].outputs, run'[r].notices = run[r].notices,
               run'[r].captured = run[r].captured,
               run'[r].cancelled \in BOOLEAN, run'[r].outcome \in Outcomes
        PROVE  RunOk(run'[r])
    <2>1. RunTyped(run'[r])
      BY <1>2 DEF RunOk, RunTyped, Stages
    <2>2. run[r].outputs = <<>> /\ run[r].notices = 0 /\ run[r].captured = 0
      BY <1>2 DEF RunOk, RunContent
    <2>3. RunContent(run'[r])
      BY <1>2, <2>2, NothingContent
    <2>4. QED
      BY <2>1, <2>3 DEF RunOk
  <1>3. CASE Dispatch(r)
    BY <1>1, <1>2, <1>3 DEF Dispatch, At, RunFields, RunOk, RunTyped
  <1>4. CASE \E c \in Connections : Acquire(r, c)
    <2>1. PICK c \in Connections : Acquire(r, c)
      BY <1>4
    <2>2. /\ run[r].stage = "acquiring" /\ run'[r].stage = "executing"
          /\ run'[r].tab = run[r].tab /\ run'[r].snapshot = run[r].snapshot
          /\ run'[r].connection = c /\ run'[r].outputs = run[r].outputs
          /\ run'[r].notices = run[r].notices /\ run'[r].captured = run[r].captured
          /\ run'[r].cancelled = run[r].cancelled /\ run'[r].outcome = run[r].outcome
      BY <1>1, <2>1 DEF Acquire, At, RunFields
    <2>3. QED
      BY <1>2, <2>2 DEF RunOk, RunTyped
  <1>5. CASE AcquireFails(r)
    <2>1. (IF run[r].cancelled THEN "cancelled" ELSE "failed") \in Outcomes
      BY DEF Outcomes
    <2>2. run'[r].outcome = IF run[r].cancelled THEN "cancelled" ELSE "failed"
      BY <1>1, <1>5 DEF AcquireFails, RunFields
    <2>3. QED
      BY <1>1, <1>2, <1>5, <2>1, <2>2
         DEF AcquireFails, At, RunFields, RunOk, RunTyped
  <1>6. QED
    BY <1>3, <1>4, <1>5

\* A cancellation, and a notice, which is for the run whose connection it is.
LEMMA AsideOk ==
  ASSUME PoolInv, NEW r \in Runs, RunOk(run[r]), DeliverCancel(r) \/ Notice(r)
  PROVE  RunOk(run'[r]) /\ \A q \in Runs : q # r => run'[q] = run[q]
  <1>1. DOMAIN run = Runs /\ DOMAIN run[r] = RunFields
    BY DEF PoolInv, Shaped
  <1>2. CASE DeliverCancel(r)
    <2>1. \A q \in Runs : q # r => run'[q] = run[q]
      BY <1>1, <1>2 DEF DeliverCancel
    <2>2. CASE r \in registry
      <3>1. /\ run'[r].tab = run[r].tab /\ run'[r].snapshot = run[r].snapshot
            /\ run'[r].stage = run[r].stage /\ run'[r].connection = run[r].connection
            /\ run'[r].outputs = run[r].outputs /\ run'[r].notices = run[r].notices
            /\ run'[r].captured = run[r].captured
            /\ run'[r].cancelled = TRUE /\ run'[r].outcome = run[r].outcome
        BY <1>1, <1>2, <2>2 DEF DeliverCancel, RunFields
      <3>2. RunTyped(run'[r])
        BY <3>1 DEF RunOk, RunTyped
      <3>3. RunContent(run'[r])
        BY <3>1 DEF RunOk, RunContent, CountedRight
      <3>4. QED
        BY <2>1, <3>2, <3>3 DEF RunOk
    <2>3. CASE r \notin registry
      BY <1>2, <2>3 DEF DeliverCancel
    <2>4. QED
      BY <2>2, <2>3
  <1>3. CASE Notice(r)
    <2>1. run[r].stage = "executing" /\ sinks[run[r].connection] = r
      BY <1>3, ExecutingHas DEF Notice, At, Connected
    <2>2. /\ run' = [run EXCEPT ![r].notices = @ + 1]
          /\ run[r].notices < MaxNotices
      BY <1>3, <2>1 DEF Notice
    <2>3. /\ run'[r].tab = run[r].tab /\ run'[r].snapshot = run[r].snapshot
          /\ run'[r].stage = "executing" /\ run'[r].connection = run[r].connection
          /\ run'[r].outputs = run[r].outputs /\ run'[r].notices = run[r].notices + 1
          /\ run'[r].captured = run[r].captured
          /\ run'[r].cancelled = run[r].cancelled /\ run'[r].outcome = run[r].outcome
          /\ \A q \in Runs : q # r => run'[q] = run[q]
      BY <1>1, <2>1, <2>2 DEF RunFields
    <2>4. RunTyped(run'[r])
      <3>1. run'[r].notices \in 0..MaxNotices
        BY <2>2, <2>3, ConstantsAssumption DEF RunOk, RunTyped
      <3>2. QED
        BY <2>1, <2>3, <3>1 DEF RunOk, RunTyped
    <2>5. RunContent(run'[r])
      BY <2>1, <2>3 DEF RunOk, RunContent
    <2>6. QED
      BY <2>3, <2>4, <2>5 DEF RunOk
  <1>4. QED
    BY <1>2, <1>3

\* Cleaning up and giving the connection back.
LEMMA AfterOk ==
  ASSUME PoolInv, NEW r \in Runs, RunOk(run[r]),
         CleanUp(r) \/ CleanUpFails(r) \/ Unregister(r) \/ Release(r)
  PROVE  RunOk(run'[r])
  <1> DEFINE x == run[r]
             y == run'[r]
  <1>1. DOMAIN run = Runs /\ DOMAIN run[r] = RunFields
    BY DEF PoolInv, Shaped
  <1>2. /\ y.tab = x.tab /\ y.snapshot = x.snapshot /\ y.outputs = x.outputs
        /\ y.notices = x.notices /\ y.captured = x.captured /\ x.stage # "executing"
        /\ y.stage \in Stages \ {"unused", "intent", "acquiring", "executing"}
        /\ y.connection \in {x.connection, None} /\ y.cancelled \in {x.cancelled, FALSE}
        /\ y.outcome \in {x.outcome, "failed"}
    <2>1. CASE CleanUp(r)
      BY <1>1, <2>1 DEF CleanUp, At, Deferred, RunFields, Stages
    <2>2. CASE CleanUpFails(r)
      BY <1>1, <2>2 DEF CleanUpFails, At, Deferred, RunFields, Stages
    <2>3. CASE Unregister(r)
      <3>1. Deferred("unregistering") = "releasing" /\ run[r].stage = "unregistering"
        BY <2>3 DEF Deferred, Unregister, At
      <3>2. run' = [run EXCEPT ![r].stage = "releasing"]
        BY <2>3, <3>1 DEF Unregister, Step
      <3>3. QED
        BY <1>1, <3>1, <3>2 DEF RunFields, Stages
    <2>4. CASE Release(r)
      <3>1. Deferred("releasing") = "reply" /\ run[r].stage = "releasing"
        BY <2>4 DEF Deferred, Release, At
      <3>2. run' = [run EXCEPT ![r].stage = "reply", ![r].cancelled = FALSE,
                               ![r].connection = None]
        BY <2>4, <3>1 DEF Release, Step
      <3>3. QED
        BY <1>1, <3>1, <3>2 DEF RunFields, Stages
    <2>5. QED
      BY <2>1, <2>2, <2>3, <2>4
  <1>3. y.connection \in Connections \cup {None} /\ y.cancelled \in BOOLEAN
    BY <1>2 DEF RunOk, RunTyped
  <1> HIDE DEF x, y
  <1>4. RunOk(x) => RunOk(y)
    BY <1>2, <1>3, LaterOk
  <1>5. QED
    BY <1>4 DEF x, y

LEMMA OthersKept ==
  ASSUME PoolInv, NEW r \in Runs, Execution(r)
  PROVE  \A q \in Runs : q # r => run'[q] = run[q]
  <1>1. DOMAIN run = Runs
    BY DEF PoolInv, Shaped
  <1>2. CASE DeliverCancel(r)
    BY <1>1, <1>2 DEF DeliverCancel
  <1>3. CASE Notice(r)
    <2>1. sinks[run[r].connection] = r
      BY <1>3, ExecutingHas DEF Notice, At, Connected
    <2>2. QED
      BY <1>1, <1>3, <2>1 DEF Notice
  <1>4. CASE Completed(r) \/ ServerError(r) \/ Interrupted(r)
    <2>1. \E outputs, counted, outcome : Executed(r, outputs, counted, outcome)
      BY <1>4 DEF Completed, ServerError, Interrupted
    <2>2. QED
      BY <2>1, ExecutedFacts
  <1>5. CASE Statement(r)
    BY <1>1, <1>5 DEF Statement
  <1>6. CASE \/ Dispatch(r) \/ (\E c \in Connections : Acquire(r, c))
             \/ AcquireFails(r)
    BY <1>1, <1>6 DEF Dispatch, Acquire, AcquireFails
  <1>7. CASE CleanUp(r) \/ CleanUpFails(r) \/ Unregister(r) \/ Release(r)
    BY <1>1, <1>7 DEF CleanUp, CleanUpFails, Unregister, Release, Step
  <1>8. QED
    BY <1>2, <1>3, <1>4, <1>5, <1>6, <1>7 DEF Execution

LEMMA ExecutionOutputs ==
  ASSUME PoolInv, OutputsInv, NEW r \in Runs, Execution(r) PROVE OutputsInv'
  <1>1. RunOk(run[r])
    BY DEF OutputsInv
  <1>2. RunOk(run'[r])
    BY <1>1, StatementOk, EndsOk, EarlyOk, AsideOk, AfterOk DEF Execution
  <1>3. \A q \in Runs : RunOk(run'[q])
    BY <1>2, OthersKept DEF OutputsInv
  <1>4. UNCHANGED tabVars /\ cancels' \in {cancels, cancels \ {r}}
    BY DEF Execution, Dispatch, DeliverCancel, Acquire, AcquireFails, Notice,
           Statement, Completed, ServerError, Interrupted, CleanUp, CleanUpFails,
           Unregister, Release
  <1>5. TabsTyped' /\ ResultsOk'
    BY <1>4 DEF OutputsInv, TabsTyped, ResultsOk, tabVars
  <1>6. QED
    BY <1>3, <1>5 DEF OutputsInv

\* The user's steps.
LEMMA StartOutputs ==
  ASSUME PoolInv, OutputsInv, NEW t \in Tabs, NEW text \in Texts \cup {None},
         StartRun(t, text)
  PROVE  OutputsInv'
  <1>1. /\ nextRun \in Runs
        /\ \A q \in Runs : q # nextRun => run'[q] = run[q]
        /\ run'[nextRun] = NewRun(t, text)
    BY DEF StartRun, PoolInv, Shaped
  <1>2. RunOk(NewRun(t, text))
    BY NewRunOk
  <1>3. \A q \in Runs : RunOk(run'[q])
    BY <1>1, <1>2 DEF OutputsInv
  <1>4. TabsTyped'
    BY <1>1 DEF StartRun, OutputsInv, TabsTyped, Lifecycles
  <1>5. ResultsOk'
    BY DEF StartRun, OutputsInv, ResultsOk
  <1>6. QED
    BY <1>3, <1>4, <1>5 DEF OutputsInv

LEMMA UserOutputs ==
  ASSUME OutputsInv, NEW t \in Tabs, Visit(t) \/ CtrlC(t) PROVE OutputsInv'
  <1>1. UNCHANGED <<run, result>>
    BY DEF Visit, CtrlC, runVars, tabVars
  <1>2. TabsTyped'
    BY DEF Visit, CtrlC, runVars, tabVars, OutputsInv, TabsTyped, Lifecycles
  <1>3. QED
    BY <1>1, <1>2 DEF OutputsInv, ResultsOk

\* A reply: what is shown is explained, and the run keeps nothing.
LEMMA RepliesOutputs ==
  ASSUME PoolInv, TabsShaped, Ordered, OutputsInv, NEW t \in Tabs, NEW r \in Runs,
         FinishRun(t, r) \/ FinishCancelledRun(t, r) \/ FinishFailedRun(t, r)
  PROVE  OutputsInv'
  <1> DEFINE s == run[r].outputs
  <1>1. Replied(t, r)
    BY DEF FinishRun, FinishCancelledRun, FinishFailedRun
  <1>2. /\ DOMAIN run = Runs /\ DOMAIN run[r] = RunFields /\ run[r].stage = "reply"
        /\ active[t] = r /\ lastRun[t] = r
    BY <1>1, Numbers DEF PoolInv, Shaped, Replied, At, Ordered
  <1>3. RunTyped(run[r]) /\ Content(s) /\ Explained(s)
    BY DEF OutputsInv, RunOk, RunContent
  <1>4. \A q \in Runs : RunOk(run'[q])
    <2>1. /\ run'[r].tab = run[r].tab /\ run'[r].snapshot = run[r].snapshot
          /\ run'[r].stage = "done" /\ run'[r].connection = run[r].connection
          /\ run'[r].outputs = <<>> /\ run'[r].notices = 0 /\ run'[r].captured = 0
          /\ run'[r].cancelled = run[r].cancelled /\ run'[r].outcome = run[r].outcome
          /\ \A q \in Runs : q # r => run'[q] = run[q]
      BY <1>1, <1>2 DEF Replied, RunFields
    <2>2. RunTyped(run'[r])
      BY <1>3, <2>1, NothingCaptured DEF RunTyped, Stages
    <2>3. RunContent(run'[r])
      BY <2>1, NothingContent
    <2>4. QED
      BY <2>1, <2>2, <2>3 DEF OutputsInv, RunOk
  <1>5. \/ UNCHANGED <<result, resultSnapshot>>
        \/ \E outputs : /\ Content(outputs) /\ Explained(outputs)
                        /\ Shows(t, r, outputs)
    <2>1. CASE FinishRun(t, r)
      BY <1>3, <2>1 DEF FinishRun
    <2>2. CASE FinishCancelledRun(t, r)
      BY <1>3, <2>2, CutOffKeeps DEF FinishCancelledRun
    <2>3. CASE FinishFailedRun(t, r)
      BY <1>3, <2>3, ErrorKeeps DEF FinishFailedRun
    <2>4. QED
      BY <2>1, <2>2, <2>3
  <1> HIDE DEF s
  <1>6. ResultsOk' /\ (\A u \in Tabs : result'[u].run \in Runs \cup {NoRun})
        /\ resultSnapshot' \in [Tabs -> Texts \cup {None}]
    <2>1. CASE UNCHANGED <<result, resultSnapshot>>
      BY <2>1 DEF OutputsInv, ResultsOk, TabsTyped
    <2>2. ASSUME NEW outputs, Content(outputs), Explained(outputs),
                 Shows(t, r, outputs)
          PROVE  ResultsOk' /\ (\A u \in Tabs : result'[u].run \in Runs \cup {NoRun})
                 /\ resultSnapshot' \in [Tabs -> Texts \cup {None}]
      <3>1. /\ result'[t].outputs = outputs /\ result'[t].run = r
            /\ \A u \in Tabs : u # t => result'[u] = result[u]
        BY <2>2 DEF Shows, TabsShaped
      <3>2. ResultsOk' /\ (\A u \in Tabs : result'[u].run \in Runs \cup {NoRun})
        BY <2>2, <3>1 DEF OutputsInv, ResultsOk, TabsTyped
      <3>3. resultSnapshot' \in [Tabs -> Texts \cup {None}]
        BY <1>2, <1>3, <2>2 DEF Shows, OutputsInv, TabsTyped, RunTyped
      <3>4. QED
        BY <3>2, <3>3
    <2>3. QED
      BY <1>5, <2>1, <2>2
  <1>7. TabsTyped'
    <2>1. lifecycle' \in [Tabs -> Lifecycles]
      BY DEF FinishRun, FinishCancelledRun, FinishFailedRun, OutputsInv, TabsTyped,
             Lifecycles
    <2>2. /\ active' \in [Tabs -> Runs \cup {NoRun}]
          /\ stale' \in [Tabs -> BOOLEAN] /\ UNCHANGED <<lastRun, cancels>>
      BY <1>1 DEF Replied, OutputsInv, TabsTyped
    <2>3. QED
      BY <1>6, <2>1, <2>2 DEF OutputsInv, TabsTyped
  <1>8. QED
    BY <1>4, <1>6, <1>7 DEF OutputsInv

LEMMA InitOutputs == Init => OutputsInv
  <1> SUFFICES ASSUME Init PROVE OutputsInv
    OBVIOUS
  <1>1. \A r \in Runs : RunOk(run[r])
    BY NewRunOk DEF Init
  <1>2. TabsTyped
    BY DEF Init, TabsTyped, Lifecycles
  <1>3. ResultsOk
    BY NothingCaptured DEF Init, ResultsOk
  <1>4. QED
    BY <1>1, <1>2, <1>3 DEF OutputsInv

LEMMA StepOutputs == Inv /\ OutputsInv /\ [Next]_vars => OutputsInv'
  <1> SUFFICES ASSUME Inv, OutputsInv, [Next]_vars PROVE OutputsInv'
    OBVIOUS
  <1>1. PoolInv /\ TabsShaped /\ Ordered
    BY DEF Inv
  <1>2. ASSUME NEW r \in Runs, Execution(r) PROVE OutputsInv'
    BY <1>1, <1>2, ExecutionOutputs
  <1>3. ASSUME NEW t \in Tabs, NEW text \in Texts, Execute(t, text) PROVE OutputsInv'
    BY <1>1, <1>3, StartOutputs DEF Execute
  <1>4. ASSUME NEW t \in Tabs, Rerun(t) PROVE OutputsInv'
    <2>1. run[lastRun[t]].snapshot \in Texts \cup {None}
      <3>1. lastRun[t] \in Runs
        BY <1>4 DEF Rerun, OutputsInv, TabsTyped
      <3>2. QED
        BY <3>1 DEF OutputsInv, RunOk, RunTyped
    <2>2. QED
      BY <1>1, <1>4, <2>1, StartOutputs DEF Rerun
  <1>5. ASSUME NEW t \in Tabs, Visit(t) \/ CtrlC(t) PROVE OutputsInv'
    BY <1>5, UserOutputs
  <1>6. ASSUME NEW t \in Tabs, NEW r \in Runs,
               FinishRun(t, r) \/ FinishCancelledRun(t, r) \/ FinishFailedRun(t, r)
        PROVE  OutputsInv'
    BY <1>1, <1>6, RepliesOutputs
  <1>7. CASE UNCHANGED vars
    BY <1>7 DEF vars, tabVars, runVars, OutputsInv, TabsTyped, ResultsOk
  <1>8. QED
    BY <1>2, <1>3, <1>4, <1>5, <1>6, <1>7 DEF Next

\* What runs capture, and what tabs show of it: the invariant, with that of the
\* pool, which says whose notices are whose.
THEOREM OutputsInvariant == Spec => [](Inv /\ OutputsInv)
  <1>1. QED
    BY InitInv, StepInv, InitOutputs, StepOutputs, PTL DEF Spec

\* Every variable has its type, and an execution keeps no row beyond the capture
\* limit, counted with all results and columns before it, and no notice beyond what
\* its count leaves of the limit; the count is right, unless the batch was stopped
\* (canCaptureSQLRow, attachSQLNotices).
THEOREM CaptureStaysBounded == Spec => []TypeOK
  <1>1. Inv /\ OutputsInv => TypeOK
    <2> SUFFICES ASSUME Inv, OutputsInv PROVE TypeOK
      OBVIOUS
    <2>1. Shaped
      BY DEF Inv, PoolInv
    <2>2. /\ \A t \in Tabs : result[t].outputs \in Seq(Outputs)
          /\ \A r \in Runs : run[r].outputs \in Seq(Outputs) /\ RunTyped(run[r])
      BY DEF OutputsInv, ResultsOk, RunOk, RunContent, Content
    <2>3. VariablesTyped
      BY <2>1, <2>2 DEF VariablesTyped, OutputsInv, TabsTyped, RunTyped, Shaped,
                        PoolTypes
    <2>4. CaptureBounded
      BY DEF CaptureBounded, At, OutputsInv, RunOk, RunContent, Content
    <2>5. QED
      BY <2>3, <2>4 DEF TypeOK
  <1>2. QED
    BY <1>1, OutputsInvariant, PTL

\* No result that lacks rows passes for a complete one, whether a limit, a
\* cancellation, the server or a lost connection cut it (markLastRowsIncomplete,
\* appendServerError, finishFailedRun).
THEOREM MissingIsMarked == Spec => []NothingMissingUnmarked
  <1>1. OutputsInv => NothingMissingUnmarked
    BY DEF OutputsInv, ResultsOk, Explained, NothingMissingUnmarked
  <1>2. QED
    BY <1>1, OutputsInvariant, PTL

(***************************************************************************)
(* Connections are lent as ConnectionPool says.                            *)
(***************************************************************************)
\* A batch is executed on a connection that is open, and a closed one keeps nothing
\* of what was done with it.
Usable ==
  /\ \A r \in Runs :
       run[r].stage = "executing" => pool[run[r].connection].state = "used"
  /\ \A c \in Connections : pool[c].state = "closed" => Clean(pool[c])

\* A step that leaves Usable true, and is one of the pool or none.
Lends == Usable' /\ [Lending!Next]_(Lending!vars)

\* The variables of ConnectionPool, as the runs and the pool have them.
Lent(c) == {r \in Runs : Holds(r, c)}
Soiled == {c \in Connections : pool[c].tx \/ pool[c].session \/ pool[c].busy}

LEMMA SoiledIsNotClean == \A c \in Connections : c \in Soiled <=> ~Clean(pool[c])
  BY DEF Soiled, Clean

LEMMA LentTo == PoolInv => \A c \in Connections : Lent(c) = {r \in Runs : Has(r, c)}
  BY Numbers DEF PoolInv, Paired, Lent, Holds, Has, Running, Connected

\* A step that moves no connection between runs.
LEMMA KeepsLent ==
  ASSUME PoolInv, PoolInv',
         \A q \in Runs : /\ run'[q].connection = run[q].connection
                         /\ run'[q].stage \in Connected <=> run[q].stage \in Connected
  PROVE  \A c \in Connections : Lent(c)' = Lent(c)
  <1>1. \A q \in Runs : \A c \in Connections : Has(q, c)' <=> Has(q, c)
    BY DEF Has
  <1>2. \A c \in Connections : Lent(c)' = {q \in Runs : Has(q, c)'}
    BY Numbers DEF PoolInv, Paired, Lent, Holds, Has, Running, Connected
  <1>3. QED
    BY <1>1, <1>2, LentTo

\* Steps that leave the connections alone.
LEMMA StillLends ==
  ASSUME PoolInv, PoolInv', Usable, UNCHANGED pool,
         \A q \in Runs : /\ run'[q].connection = run[q].connection
                         /\ run'[q].stage \in Connected <=> run[q].stage \in Connected
                         /\ run'[q].stage = "executing" => run[q].stage = "executing"
  PROVE  Lends
  <1>1. Usable'
    BY DEF Usable, Clean
  <1>2. \A c \in Connections : Lent(c)' = Lent(c)
    BY KeepsLent
  <1>3. UNCHANGED Lending!vars
    BY <1>2 DEF Lending!vars, Lent
  <1>4. QED
    BY <1>1, <1>3 DEF Lends

\* Steps of a run on the connection that it keeps.
LEMMA WorkLends ==
  ASSUME PoolInv, PoolInv', Usable, NEW r \in Runs,
         run[r].stage \in {"executing", "cleaning"}, Connection(r).state = "used",
         \A q \in Runs : q # r => run'[q] = run[q],
         run'[r].connection = run[r].connection,
         run'[r].stage \in {"executing", "cleaning", "unregistering"},
         NEW d, OnConnection(r, d),
         \/ d.state = "used"
         \/ d.state = "closed" /\ Clean(d) /\ run'[r].stage # "executing"
  PROVE  Lends
  <1> DEFINE c == run[r].connection
  <1>1. c \in Connections /\ Has(r, c) /\ pool[c].state = "used"
    BY ExecutingHas DEF Connected, Connection
  <1>2. /\ pool'[c] = d /\ \A e \in Connections : e # c => pool'[e] = pool[e]
        /\ DOMAIN pool' = Connections
    BY <1>1 DEF OnConnection, PoolInv, Shaped, PoolTypes
  <1>3. \A q \in Runs : /\ run'[q].connection = run[q].connection
                        /\ run'[q].stage \in Connected <=> run[q].stage \in Connected
    BY DEF Connected
  <1>4. \A e \in Connections : Lent(e)' = Lent(e)
    BY <1>3, KeepsLent
  <1> HIDE DEF c
  <1>5. Usable'
    <2>1. ASSUME NEW q \in Runs, run'[q].stage = "executing"
          PROVE  pool'[run'[q].connection].state = "used"
      <3>1. CASE q = r
        BY <1>2, <2>1, <3>1 DEF c
      <3>2. CASE q # r
        <4>1. Has(q, run[q].connection) /\ run[q].stage = "executing"
              /\ run[q].connection \in Connections
          BY <2>1, <3>2, ExecutingHas DEF Connected
        <4>2. run[q].connection # c
          BY <1>1, <3>2, <4>1 DEF PoolInv, Paired
        <4>3. QED
          BY <1>2, <3>2, <4>1, <4>2 DEF Usable
      <3>3. QED
        BY <3>1, <3>2
    <2>2. ASSUME NEW e \in Connections, pool'[e].state = "closed"
          PROVE  Clean(pool'[e])
      BY <1>2, <2>2 DEF Usable
    <2>3. QED
      BY <2>1, <2>2 DEF Usable
  <1>6. UNCHANGED [e \in Connections |-> Lent(e)]
    BY <1>4
  <1>7. \A e \in Connections : e # c => (e \in Soiled' <=> e \in Soiled)
    BY <1>2 DEF Soiled
  <1>8. CASE d.state = "used"
    <2>1. UNCHANGED [e \in Connections |-> pool[e].state]
      BY <1>1, <1>2, <1>8
    <2>2. Soiled' \in {Soiled \cup {c}, Soiled \ {c}}
      <3>1. Soiled' \subseteq Connections /\ Soiled \subseteq Connections
        BY DEF Soiled
      <3>2. QED
        BY <1>1, <1>7, <3>1
    <2>3. Lending!Use(c)
      BY <1>1, <1>6, <2>1, <2>2 DEF Lending!Use, Lent, Soiled
    <2>4. QED
      BY <1>1, <1>5, <2>3 DEF Lends, Lending!Next, Lending!Use
  <1>9. CASE d.state = "closed"
    <2>1. [e \in Connections |-> pool[e].state]'
            = [[e \in Connections |-> pool[e].state] EXCEPT ![c] = "closed"]
      BY <1>1, <1>2, <1>9
    <2>2. Soiled' = Soiled \ {c}
      <3>1. Soiled' \subseteq Connections /\ Soiled \subseteq Connections
        BY DEF Soiled
      <3>2. c \notin Soiled'
        BY <1>1, <1>2, <1>9 DEF Soiled, Clean
      <3>3. QED
        BY <1>7, <3>1, <3>2
    <2>3. Lending!Break(c)
      BY <1>1, <1>6, <2>1, <2>2 DEF Lending!Break, Lent, Soiled
    <2>4. QED
      BY <1>1, <1>5, <2>3 DEF Lends, Lending!Next, Lending!Break
  <1>10. QED
    BY <1>8, <1>9

LEMMA AcquireLends ==
  ASSUME PoolInv, PoolInv', Usable, NEW r \in Runs, NEW c \in Connections, Acquire(r, c)
  PROVE  Lends
  <1>1. /\ run'[r].stage = "executing" /\ run'[r].connection = c
        /\ \A q \in Runs : q # r => run'[q] = run[q]
        /\ run[r].stage = "acquiring" /\ ~Taken(c)
        /\ pool[c].state \in {"absent", "idle"}
    BY DEF PoolInv, Shaped, RunFields, Acquire, At, Taken
  <1>2. /\ pool'[c] = [pool[c] EXCEPT !.state = "used"]
        /\ pool'[c].state = "used" /\ Clean(pool[c]) /\ Clean(pool'[c])
        /\ \A e \in Connections : e # c => pool'[e] = pool[e]
    <2>1. Clean(pool[c])
      BY <1>1 DEF PoolInv, Tidy
    <2>2. pool \in PoolTypes /\ pool' = [pool EXCEPT ![c].state = "used"]
      BY DEF PoolInv, Shaped, Acquire
    <2>3. QED
      BY <2>1, <2>2 DEF PoolTypes, Clean
  <1>3. /\ \A q \in Runs : q # r => \A e : Has(q, e)' <=> Has(q, e)
        /\ \A e : Has(r, e)' <=> e = c
        /\ \A q \in Runs : ~Has(q, c)
        /\ \A e : ~Has(r, e)
    BY <1>1 DEF Has, Connected, PoolInv, Paired
  <1>4. \A e \in Connections : /\ Lent(e) = {q \in Runs : Has(q, e)}
                               /\ Lent(e)' = {q \in Runs : Has(q, e)'}
    BY Numbers DEF PoolInv, Paired, Lent, Holds, Has, Running, Connected
  <1>5. /\ Lent(c)' = {r} /\ \A e \in Connections : e # c => Lent(e)' = Lent(e)
        /\ \A e \in Connections : r \notin Lent(e)
    BY <1>3, <1>4
  <1>6. Usable'
    <2>1. ASSUME NEW q \in Runs, run'[q].stage = "executing"
          PROVE  pool'[run'[q].connection].state = "used"
      <3>1. CASE q = r
        BY <1>1, <1>2, <3>1
      <3>2. CASE q # r
        <4>1. Has(q, run[q].connection) /\ run[q].stage = "executing"
              /\ run[q].connection \in Connections
          BY <1>1, <2>1, <3>2, ExecutingHas DEF Connected
        <4>2. QED
          BY <1>1, <1>2, <1>3, <3>2, <4>1 DEF Usable
      <3>3. QED
        BY <3>1, <3>2
    <2>2. ASSUME NEW e \in Connections, pool'[e].state = "closed"
          PROVE  Clean(pool'[e])
      BY <1>2, <2>2 DEF Usable
    <2>3. QED
      BY <2>1, <2>2 DEF Usable
  <1>7. [e \in Connections |-> pool[e].state]'
          = [[e \in Connections |-> pool[e].state] EXCEPT ![c] = "used"]
    BY <1>2
  <1>8. [e \in Connections |-> Lent(e)]'
          = [[e \in Connections |-> Lent(e)] EXCEPT ![c] = {r}]
    BY <1>5
  <1>9. Soiled' = Soiled /\ c \notin Soiled
    BY <1>2 DEF Soiled, Clean
  <1>10. Lending!Lend(c, r)
    BY <1>1, <1>5, <1>7, <1>8, <1>9 DEF Lending!Lend, Lent, Soiled
  <1>11. QED
    BY <1>6, <1>10 DEF Lends, Lending!Next, Lending!Lend

LEMMA ReleaseLends ==
  ASSUME PoolInv, PoolInv', Usable, NEW r \in Runs, Release(r) PROVE Lends
  <1> DEFINE c == run[r].connection
  <1>1. /\ run[r].stage = "releasing" /\ Deferred("releasing") = "reply"
        /\ c \in Connections /\ Has(r, c) /\ Taken(c)
    BY ExecutingHas DEF Release, At, Deferred, Connected
  <1>2. /\ run'[r].stage = "reply" /\ run'[r].connection = None
        /\ \A q \in Runs : q # r => run'[q] = run[q]
    BY <1>1 DEF PoolInv, Shaped, RunFields, Release, Step
  <1>3. /\ pool'[c].state = IF pool[c].state = "used" THEN "idle" ELSE "absent"
        /\ Clean(pool[c]) /\ Clean(pool'[c])
        /\ \A e \in Connections : e # c => pool'[e] = pool[e]
    <2>1. pool \in PoolTypes /\ pool[c].state \in {"used", "closed"}
      BY <1>1 DEF PoolInv, Shaped, Taken
    <2>2. CASE pool[c].state = "closed"
      <3>1. pool' = [pool EXCEPT ![c] = NewConnection]
        BY <2>2 DEF Release, OnConnection, Connection
      <3>2. QED
        BY <1>1, <2>1, <2>2, <3>1 DEF NewConnection, PoolTypes, Clean, Usable
    <2>3. CASE pool[c].state = "used"
      <3>1. pool' = [pool EXCEPT ![c] = [pool[c] EXCEPT !.state = "idle"]]
        BY <2>3 DEF Release, OnConnection, Connection
      <3>2. Clean(pool[c])
        BY <1>1, <2>3 DEF PoolInv, Tidy
      <3>3. QED
        BY <1>1, <2>1, <2>3, <3>1, <3>2 DEF PoolTypes, Clean
    <2>4. QED
      BY <2>1, <2>2, <2>3
  <1> HIDE DEF c
  <1>4. /\ \A q \in Runs : q # r => \A e : Has(q, e)' <=> Has(q, e)
        /\ \A e : ~Has(r, e)'
        /\ \A q \in Runs : q # r => ~Has(q, c)
        /\ \A e : e # c => ~Has(r, e)
    BY <1>1, <1>2 DEF Has, Connected, PoolInv, Paired
  <1>5. \A e \in Connections : /\ Lent(e) = {q \in Runs : Has(q, e)}
                               /\ Lent(e)' = {q \in Runs : Has(q, e)'}
    BY Numbers DEF PoolInv, Paired, Lent, Holds, Has, Running, Connected
  <1>6. \A e \in Connections : Lent(e)' = IF e = c THEN {} ELSE Lent(e)
    <2>1. \A e \in Connections : e = c => \A q \in Runs : ~Has(q, e)'
      BY <1>4
    <2>2. \A e \in Connections : e # c => \A q \in Runs : Has(q, e)' <=> Has(q, e)
      BY <1>4
    <2>3. QED
      BY <1>5, <2>1, <2>2
  <1>7. Usable'
    <2>1. ASSUME NEW q \in Runs, run'[q].stage = "executing"
          PROVE  pool'[run'[q].connection].state = "used"
      <3>1. q # r /\ run[q].stage = "executing"
        BY <1>2, <2>1
      <3>2. Has(q, run[q].connection) /\ run[q].connection \in Connections
        BY <3>1, ExecutingHas DEF Connected
      <3>3. QED
        BY <1>2, <1>3, <1>4, <3>1, <3>2 DEF Usable
    <2>2. ASSUME NEW e \in Connections, pool'[e].state = "closed"
          PROVE  Clean(pool'[e])
      BY <1>3, <2>2 DEF Usable
    <2>3. QED
      BY <2>1, <2>2 DEF Usable
  <1>8. [e \in Connections |-> pool[e].state]'
          = [[e \in Connections |-> pool[e].state] EXCEPT
               ![c] = IF @ = "used" THEN "idle" ELSE "absent"]
    BY <1>1, <1>3
  <1>9. [e \in Connections |-> Lent(e)]'
          = [[e \in Connections |-> Lent(e)] EXCEPT ![c] = {}]
    BY <1>6
  <1>10. Soiled' = Soiled /\ c \notin Soiled
    BY <1>3 DEF Soiled, Clean
  <1>11. Lending!GiveBack(c)
    BY <1>1, <1>8, <1>9, <1>10 DEF Lending!GiveBack, Lent, Soiled, Taken
  <1>12. QED
    BY <1>1, <1>7, <1>11 DEF Lends, Lending!Next, Lending!GiveBack

LEMMA StatementLends ==
  ASSUME PoolInv, PoolInv', Usable, NEW r \in Runs, Statement(r) PROVE Lends
  <1>1. /\ run[r].stage = "executing" /\ run'[r].stage = "executing"
        /\ \A q \in Runs : q # r => run'[q] = run[q]
        /\ run'[r].connection = run[r].connection
    BY DEF Statement, At, PoolInv, Shaped, RunFields
  <1>2. PICK tx \in BOOLEAN, session \in BOOLEAN :
          OnConnection(r, [Connection(r) EXCEPT !.tx = tx, !.session = session])
    BY DEF Statement
  <1>3. Connection(r).state = "used" /\ run[r].connection \in Connections
    BY <1>1, ExecutingHas DEF Usable, Connection, Connected
  <1>4. [Connection(r) EXCEPT !.tx = tx, !.session = session].state = "used"
    BY <1>3 DEF Connection, PoolInv, Shaped, PoolTypes
  <1>5. QED
    BY <1>1, <1>2, <1>3, <1>4, WorkLends

\* The batch ends, and the connection is as it was, busy or closed.
LEMMA EndsLends ==
  ASSUME PoolInv, PoolInv', Usable, NEW r \in Runs,
         Completed(r) \/ ServerError(r) \/ Interrupted(r)
  PROVE  Lends
  <1>1. /\ run[r].stage = "executing"
        /\ \E outputs, counted, outcome : Executed(r, outputs, counted, outcome)
    BY DEF Completed, ServerError, Interrupted, At
  <1>2. /\ \A q \in Runs : q # r => run'[q] = run[q]
        /\ run'[r].connection = run[r].connection /\ run'[r].stage = "cleaning"
    BY <1>1, ExecutedFacts
  <1>3. Connection(r).state = "used" /\ run[r].connection \in Connections
    BY <1>1, ExecutingHas DEF Usable, Connection, Connected
  <1>4. CASE UNCHANGED pool
    BY <1>1, <1>2, <1>4, StillLends DEF Connected
  <1>5. CASE OnConnection(r, [Connection(r) EXCEPT !.busy = TRUE])
    <2>1. [Connection(r) EXCEPT !.busy = TRUE].state = "used"
      BY <1>3 DEF Connection, PoolInv, Shaped, PoolTypes
    <2>2. QED
      BY <1>1, <1>2, <1>3, <1>5, <2>1, WorkLends
  <1>6. CASE OnConnection(r, [NewConnection EXCEPT !.state = "closed"])
    <2>1. /\ [NewConnection EXCEPT !.state = "closed"].state = "closed"
          /\ Clean([NewConnection EXCEPT !.state = "closed"])
      BY DEF NewConnection, Clean
    <2>2. QED
      BY <1>1, <1>2, <1>3, <1>6, <2>1, WorkLends
  <1>7. QED
    BY <1>4, <1>5, <1>6 DEF Completed, ServerError, Interrupted, poolVars

LEMMA CleanUpLends ==
  ASSUME PoolInv, PoolInv', Usable, NEW r \in Runs, CleanUp(r) \/ CleanUpFails(r)
  PROVE  Lends
  <1>1. /\ run[r].stage = "cleaning" /\ run'[r].stage = "unregistering"
        /\ \A q \in Runs : q # r => run'[q] = run[q]
        /\ run'[r].connection = run[r].connection
    BY DEF CleanUp, CleanUpFails, At, Deferred, PoolInv, Shaped, RunFields
  <1>2. run[r].connection \in Connections
    BY <1>1, ExecutingHas DEF Connected
  <1>3. CASE UNCHANGED pool
    BY <1>1, <1>3, StillLends DEF Connected
  <1>4. CASE Connection(r).state = "used" /\ OnConnection(r, Cleaned(Connection(r)))
    <2>1. Cleaned(Connection(r)).state = "used"
      BY <1>2, <1>4 DEF Cleaned, Connection, PoolInv, Shaped, PoolTypes
    <2>2. QED
      BY <1>1, <1>4, <2>1, WorkLends
  <1>5. CASE /\ Connection(r).state = "used"
             /\ OnConnection(r, [NewConnection EXCEPT !.state = "closed"])
    <2>1. /\ [NewConnection EXCEPT !.state = "closed"].state = "closed"
          /\ Clean([NewConnection EXCEPT !.state = "closed"])
      BY DEF NewConnection, Clean
    <2>2. QED
      BY <1>1, <1>5, <2>1, WorkLends
  <1>6. QED
    BY <1>3, <1>4, <1>5 DEF CleanUp, CleanUpFails

\* The steps of a run that no connection notices.
LEMMA AsideLends ==
  ASSUME PoolInv, PoolInv', Usable, NEW r \in Runs,
         \/ Dispatch(r) \/ DeliverCancel(r) \/ AcquireFails(r) \/ Notice(r)
         \/ Unregister(r)
  PROVE  Lends
  <1>1. DOMAIN run = Runs /\ \A q \in Runs : DOMAIN run[q] = RunFields
    BY DEF PoolInv, Shaped
  <1>2. CASE Dispatch(r)
    BY <1>1, <1>2, StillLends DEF Dispatch, At, RunFields, Connected, poolVars
  <1>3. CASE DeliverCancel(r)
    BY <1>1, <1>3, StillLends DEF DeliverCancel, RunFields, poolVars
  <1>4. CASE AcquireFails(r)
    BY <1>1, <1>4, StillLends DEF AcquireFails, At, RunFields, Connected, poolVars
  <1>5. CASE Notice(r)
    BY <1>1, <1>5, StillLends DEF Notice, RunFields, poolVars
  <1>6. CASE Unregister(r)
    <2>1. Deferred("unregistering") = "releasing"
      BY DEF Deferred
    <2>2. QED
      BY <1>1, <1>6, <2>1, StillLends DEF Unregister, Step, At, RunFields, Connected
  <1>7. QED
    BY <1>2, <1>3, <1>4, <1>5, <1>6

LEMMA RepliedLends ==
  ASSUME PoolInv, PoolInv', Usable, NEW t \in Tabs, NEW r \in Runs, Replied(t, r)
  PROVE  Lends
  <1>1. /\ run[r].stage = "reply" /\ run'[r].stage = "done"
        /\ run'[r].connection = run[r].connection
        /\ \A q \in Runs : q # r => run'[q] = run[q]
        /\ UNCHANGED pool
    BY DEF Replied, At, PoolInv, Shaped, RunFields, poolVars
  <1>2. QED
    BY <1>1, StillLends DEF Connected

\* The user, and the replies.
LEMMA TabLends ==
  ASSUME Inv, PoolInv', Usable, NEW t \in Tabs,
         \/ Visit(t) \/ CtrlC(t)
         \/ \E text : StartRun(t, text)
         \/ \E r \in Runs : Replied(t, r)
  PROVE  Lends
  <1>1. DOMAIN run = Runs /\ (\A q \in Runs : DOMAIN run[q] = RunFields) /\ PoolInv
    BY DEF Inv, PoolInv, Shaped
  <1>2. CASE Visit(t) \/ CtrlC(t)
    BY <1>1, <1>2, StillLends DEF Visit, CtrlC, runVars, poolVars
  <1>3. ASSUME NEW text, StartRun(t, text) PROVE Lends
    <2>1. run[nextRun].stage = "unused" /\ nextRun \in Runs
      BY <1>3 DEF StartRun, Runs, Inv, Ordered
    <2>2. run[nextRun].connection = None
      BY <1>1, <2>1 DEF PoolInv, Paired, Connected
    <2>3. /\ run'[nextRun].stage = "intent" /\ run'[nextRun].connection = None
          /\ \A q \in Runs : q # nextRun => run'[q] = run[q]
          /\ UNCHANGED pool
      BY <1>1, <1>3, <2>1 DEF StartRun, NewRun, poolVars
    <2>4. QED
      BY <1>1, <2>1, <2>2, <2>3, StillLends DEF Connected
  <1>4. ASSUME NEW r \in Runs, Replied(t, r) PROVE Lends
    BY <1>1, <1>4, RepliedLends
  <1>5. QED
    BY <1>2, <1>3, <1>4

LEMMA StepLends == Inv /\ PoolInv' /\ Usable /\ [Next]_vars => Lends
  <1> SUFFICES ASSUME Inv, PoolInv', Usable, [Next]_vars PROVE Lends
    OBVIOUS
  <1>1. PoolInv
    BY DEF Inv
  <1>2. CASE UNCHANGED vars
    BY <1>1, <1>2, StillLends DEF vars, runVars, poolVars
  <1>3. ASSUME NEW r \in Runs, Execution(r) PROVE Lends
    BY <1>1, <1>3, AcquireLends, ReleaseLends, StatementLends, EndsLends, CleanUpLends,
       AsideLends DEF Execution
  <1>4. QED
    BY <1>2, <1>3, TabLends
       DEF Next, Execute, Rerun, FinishRun, FinishCancelledRun, FinishFailedRun

\* Every connection is lent as ConnectionPool says: to one run, clean whatever the
\* run before left on it and however that ended, until that run gives it back
\* (Acquire, cleanupExecutionConnection, Release).
THEOREM ConnectionsAreLent == Spec => PoolLends
  <1>1. Init => Usable /\ Lending!Init
    BY Numbers DEF Init, Usable, NewRun, NewConnection, Clean, Lending!Init, Holds,
                   Running
  <1>2. Inv /\ Inv' /\ Usable /\ [Next]_vars
          => Usable' /\ [Lending!Next]_(Lending!vars)
    BY StepLends DEF Inv, Lends
  <1>3. QED
    BY <1>1, <1>2, SqlInvariant, PTL DEF Spec, PoolLends, Lending!Spec
=============================================================================
