---------------------------- MODULE AtomicApply ----------------------------
(***************************************************************************)
(* What applying the staged changes of a table tab promises, whatever the  *)
(* tab, the commands and the transactions do to keep it: a batch takes     *)
(* effect in one step or not at all, it only ever replaces or deletes the  *)
(* very row its author saw, and the author is told that it took effect, or *)
(* that it did not, only when that is so.                                  *)
(***************************************************************************)
EXTENDS Integers

CONSTANTS Keys, Drafts, Requests

VARIABLES
  job,     \* per request: its state, its batch while it is pending, the report
  table,   \* per row, its version, 0 when there is none
  landed,  \* per draft, the rows it has become
  version  \* the last version given to a row

vars == <<job, table, landed, version>>

NoBatch ==
  [deletes |-> [k \in Keys |-> 0], updates |-> [k \in Keys |-> 0],
   inserts |-> {}]
Idle == [state |-> "idle", batch |-> NoBatch, report |-> "none"]
Pending(b) == [state |-> "pending", batch |-> b, report |-> "none"]
Settled(report) == [state |-> "settled", batch |-> NoBatch, report |-> report]

Init ==
  /\ job = [r \in Requests |-> Idle]
  /\ table = [k \in Keys |-> 1]
  /\ landed = [d \in Drafts |-> 0]
  /\ version = 1

Seen(b, k) == IF b.deletes[k] # 0 THEN b.deletes[k] ELSE b.updates[k]

\* Any batch may be submitted.
Submit(r) ==
  /\ job[r].state = "idle"
  /\ job' = [job EXCEPT ![r] = Pending(job'[r].batch)]
  /\ UNCHANGED <<table, landed, version>>

TakeEffect(r) ==
  /\ job[r].state = "pending"
  /\ \A k \in Keys : Seen(job[r].batch, k) # 0 => table[k] = Seen(job[r].batch, k)
  /\ \E report \in {"ok", "uncertain"} :
       job' = [job EXCEPT ![r] = Settled(report)]
  /\ version' = version + 1
  /\ table' = [k \in Keys |-> IF job[r].batch.deletes[k] # 0 THEN 0
                              ELSE IF job[r].batch.updates[k] # 0 THEN version + 1
                              ELSE table[k]]
  /\ landed' = [d \in Drafts |-> IF d \in job[r].batch.inserts
                                 THEN landed[d] + 1 ELSE landed[d]]

TakeNone(r) ==
  /\ job[r].state = "pending"
  /\ \E report \in {"failed", "cancelled", "uncertain"} :
       job' = [job EXCEPT ![r] = Settled(report)]
  /\ UNCHANGED <<table, landed, version>>

Learn(r) ==
  /\ job[r].state = "settled"
  /\ job' = [job EXCEPT ![r] = Idle]
  /\ UNCHANGED <<table, landed, version>>

OthersWrite ==
  /\ version' = version + 1
  /\ \E k \in Keys, v \in {0, version + 1} :
       table[k] # 0 /\ table' = [table EXCEPT ![k] = v]
  /\ UNCHANGED <<job, landed>>

Next ==
  \/ \E r \in Requests : Submit(r) \/ TakeEffect(r) \/ TakeNone(r) \/ Learn(r)
  \/ OthersWrite

Spec == Init /\ [][Next]_vars
=============================================================================
