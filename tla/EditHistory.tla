---------------------------- MODULE EditHistory ----------------------------
(***************************************************************************)
(* What undo and redo promise: the texts of an editor form one line of     *)
(* versions, and the editor shows one of them.  An edit drops the versions *)
(* after the shown one and adds a new one; undo and redo walk along the    *)
(* line and change nothing in it.  At most Limit versions before the       *)
(* shown one are remembered, the oldest being forgotten first, and         *)
(* forgetting happens by edits alone.                                      *)
(***************************************************************************)
EXTENDS Integers, Sequences

CONSTANTS
  Texts,  \* the texts an editor may hold
  Limit   \* how many versions can be undone (maxUndoHistory)

VARIABLES
  versions,  \* the line of versions, oldest first
  at         \* the position of the version shown

vars == <<versions, at>>

Shown == versions[at]

Init == versions \in {<<text>> : text \in Texts} /\ at = 1

\* The last n elements of a line, or the whole of it.
LastOf(line, n) ==
  IF Len(line) <= n THEN line ELSE SubSeq(line, Len(line) - n + 1, Len(line))

Edit(text) ==
  /\ text # Shown
  /\ versions' = LastOf(Append(SubSeq(versions, 1, at), text), Limit + 1)
  /\ at' = Len(versions')

Undo == at > 1 /\ at' = at - 1 /\ UNCHANGED versions

Redo == at < Len(versions) /\ at' = at + 1 /\ UNCHANGED versions

Next == Undo \/ Redo \/ \E text \in Texts : Edit(text)

Spec == Init /\ [][Next]_vars
=============================================================================
