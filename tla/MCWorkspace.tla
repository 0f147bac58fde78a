---------------------------- MODULE MCWorkspace ----------------------------
(* Workspace as TLC checks it.                                             *)
EXTENDS Workspace
=============================================================================
