------------------------------- MODULE MCTabs -------------------------------
(* Tabs as TLC checks it.                                                  *)
EXTENDS Tabs

CONSTANTS users

OneRelation == {users}
=============================================================================
