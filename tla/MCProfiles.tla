----------------------------- MODULE MCProfiles -----------------------------
(* Instances of Profiles for TLC.                                          *)
EXTENDS Profiles

AllProfiles == {1, 2}

\* Two profiles over a keychain and a file that fail.
StoresFail ==
  [ids |-> {1, 2}, passwords |-> 3, tasks |-> 5,
   faults |-> {"load", "keychain", "save"}]
\* One profile over more commands, whose file fails, late too.
FileFails ==
  [ids |-> {1}, passwords |-> 3, tasks |-> 6,
   faults |-> {"load", "save", "late"}]
AllSettings == {StoresFail, FileFails}
=============================================================================
