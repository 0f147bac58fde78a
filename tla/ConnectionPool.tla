--------------------------- MODULE ConnectionPool ---------------------------
(***************************************************************************)
(* What runs may expect of the pool of connections: a connection is lent   *)
(* to one run at a time, and clean, whoever had it before; the run does    *)
(* what it likes with it, and it may break; it comes back clean or is      *)
(* gone, and the run has it no more.                                       *)
(***************************************************************************)
CONSTANTS Connections, Runs

VARIABLES
  state,    \* per connection, what the pool says: absent, idle, used, closed
  holders,  \* per connection, the runs that have it
  dirty     \* the connections on which something is left

vars == <<state, holders, dirty>>

Init ==
  /\ state = [c \in Connections |-> "absent"]
  /\ holders = [c \in Connections |-> {}]
  /\ dirty = {}

\* The pool opens a connection where there is none.
Lend(c, r) ==
  /\ state[c] \in {"absent", "idle"} /\ c \notin dirty
  /\ \A d \in Connections : r \notin holders[d]
  /\ state' = [state EXCEPT ![c] = "used"]
  /\ holders' = [holders EXCEPT ![c] = {r}]
  /\ UNCHANGED dirty

Use(c) ==
  /\ state[c] = "used"
  /\ dirty' \in {dirty \cup {c}, dirty \ {c}}
  /\ UNCHANGED <<state, holders>>

Break(c) ==
  /\ state[c] = "used"
  /\ state' = [state EXCEPT ![c] = "closed"]
  /\ dirty' = dirty \ {c}
  /\ UNCHANGED holders

\* A closed connection is dropped by the pool.
GiveBack(c) ==
  /\ state[c] \in {"used", "closed"} /\ c \notin dirty
  /\ state' = [state EXCEPT ![c] = IF @ = "used" THEN "idle" ELSE "absent"]
  /\ holders' = [holders EXCEPT ![c] = {}]
  /\ UNCHANGED dirty

Next ==
  \E c \in Connections :
    (\E r \in Runs : Lend(c, r)) \/ Use(c) \/ Break(c) \/ GiveBack(c)

Spec == Init /\ [][Next]_vars
=============================================================================
