---------------------------- MODULE SessionLife ----------------------------
(***************************************************************************)
(* What becomes of the sessions that the program opens, whoever opens,     *)
(* passes on, replaces and closes them: a session is offered once, and is  *)
(* either adopted as the session of the workspace or declined, which       *)
(* closes it.  There is at most one current session.  It is closed when    *)
(* another one is adopted, or leaves with its workspace and is closed      *)
(* after that.  A closed session is never touched again.                   *)
(***************************************************************************)
CONSTANT Sessions

VARIABLES
  life,      \* per session, where it is
  workspace  \* whether a workspace is shown

vars == <<life, workspace>>

Init ==
  /\ life = [s \in Sessions |-> "none"]
  /\ workspace = FALSE

\* A session passes from one place to another.
Moves(s, from, to) ==
  /\ life[s] = from
  /\ life' = [life EXCEPT ![s] = to]

Offer(s) == Moves(s, "none", "offered") /\ UNCHANGED workspace

Adopt(s) ==
  /\ life[s] = "offered"
  /\ life' = [t \in Sessions |-> IF t = s THEN "current"
                                 ELSE IF life[t] = "current" THEN "closed"
                                 ELSE life[t]]
  /\ workspace' = TRUE

Decline(s) == Moves(s, "offered", "closed") /\ UNCHANGED workspace

Leave(s) == Moves(s, "current", "leaving") /\ workspace' = FALSE

Close(s) == Moves(s, "leaving", "closed") /\ UNCHANGED workspace

\* One session moves, and with an adopted one the current session.
Next ==
  \E s \in Sessions :
    /\ life'[s] # life[s]
    /\ Offer(s) \/ Adopt(s) \/ Decline(s) \/ Leave(s) \/ Close(s)

Spec == Init /\ [][Next]_vars
=============================================================================
