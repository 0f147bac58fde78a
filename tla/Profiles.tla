------------------------------ MODULE Profiles ------------------------------
(***************************************************************************)
(* The profile service (internal/profile/service.go) over its three        *)
(* stores: the profiles file (internal/platform/profile_repository.go),    *)
(* the keychain of the system (internal/platform/keyring.go) and the       *)
(* passwords kept by the process (session_secrets.go), with the commands   *)
(* of the launcher that call it (internal/app).                            *)
(*                                                                         *)
(* A save, a connect or a deletion is a sequence of calls to stores that   *)
(* fail, that refuse a cancelled context, and between which the process    *)
(* may end.  The launcher awaits one command at a time, so there is one    *)
(* task.                                                                   *)
(*                                                                         *)
(* Abstractions of data.  A profile is its identifier and whether its      *)
(* password is to be saved.  A password is the number of the occasion on   *)
(* which the user gave it, so a greater one is a newer one.                *)
(***************************************************************************)
EXTENDS Integers, FiniteSets

CONSTANTS
  Ids,           \* profile identifiers
  MaxPasswords,  \* bound: passwords the user ever gives
  MaxTasks,      \* bound: commands of the launcher
  MaxRestarts,   \* bound: ends of the process
  Settings       \* the settings one of which an execution has, below

ASSUME ConstantsAssumption ==
  /\ IsFiniteSet(Ids) /\ Ids # {}
  /\ MaxPasswords \in Nat
  /\ MaxTasks \in Nat
  /\ MaxRestarts \in Nat
  /\ \A s \in Settings :
       /\ s.ids \subseteq Ids
       /\ s.passwords \in 0..MaxPasswords
       /\ s.tasks \in 0..MaxTasks
       /\ s.faults \subseteq {"load", "keychain", "save", "late", "restore"}

NoPassword == 0
Passwords == 0..MaxPasswords

\* A profile in the file: whether its password is saved (save_password).
Entries == {"absent", "keep", "forget"}
Documents == [Ids -> Entries]

Kinds == {"save", "test", "connect", "delete"}
Replies == {"ok", "ask", "failed"}
Steps == {"idle", "load", "secret", "network", "commit", "look", "change",
          "store", "undo"} \cup Replies
Sources == {"none", "input", "keychain", "session"}

\* given: the password that was entered, NoPassword when the stored one is to
\* be left as it is.
Drafts == [id : Ids, new : BOOLEAN, save : BOOLEAN, given : Passwords]

\* Prepared, and the local variables of Commit and Delete.  keep is the
\* SavePassword that will be written; unread is keychainWriteUnavailable;
\* secret0 and session0 are what the stores held when the task was loaded, for
\* properties (Commit itself remembers oldSession, which is session0).
Tasks ==
  [kind : Kinds, step : Steps, draft : Drafts, cancelled : BOOLEAN,
   doc : Documents, source : Sources, password : Passwords,
   old : Passwords, unread : BOOLEAN, mutated : BOOLEAN, keep : BOOLEAN,
   secret0 : Passwords, session0 : Passwords]
-----------------------------------------------------------------------------
\* A setting is the part of the world that an execution does not change: the
\* profiles (ids), how many passwords the user gives and how many commands run
\* (bounds), and which calls may fail by themselves (faults).
VARIABLES
  setting,   \* the setting of this execution
  file,      \* the profiles file
  keychain,  \* per profile, the password the keychain holds
  session,   \* per profile, the password the process remembers
  task,      \* the command the launcher awaits
  used,      \* identifiers given to profiles so far
  lastGiven, \* passwords given so far
  tasks, restarts, \* for the bounds
  removed,   \* profiles deleted from the file, for properties
  newest     \* per profile, the last password saved with it, for properties

stores == <<file, keychain, session>>
counters == <<lastGiven, tasks, restarts>>
history == <<used, removed, newest>>
vars == <<setting, stores, task, counters, history>>

TypeOK ==
  /\ setting \in Settings
  /\ file \in Documents
  /\ keychain \in [Ids -> Passwords]
  /\ session \in [Ids -> Passwords]
  /\ task \in Tasks
  /\ used \subseteq Ids
  /\ lastGiven \in Passwords
  /\ tasks \in 0..MaxTasks
  /\ restarts \in 0..MaxRestarts
  /\ removed \subseteq Ids
  /\ newest \in [Ids -> Passwords]

NewTask(kind, step, draft) ==
  [kind |-> kind, step |-> step, draft |-> draft, cancelled |-> FALSE,
   doc |-> [id \in Ids |-> "absent"], source |-> "none",
   password |-> NoPassword, old |-> NoPassword, unread |-> FALSE,
   mutated |-> FALSE, keep |-> draft.save,
   secret0 |-> NoPassword, session0 |-> NoPassword]

AnyDraft ==
  [id |-> CHOOSE id \in Ids : TRUE, new |-> FALSE, save |-> FALSE,
   given |-> NoPassword]
Idle == NewTask("test", "idle", AnyDraft)

Init ==
  /\ setting \in Settings
  /\ file = [id \in Ids |-> "absent"]
  /\ keychain = [id \in Ids |-> NoPassword]
  /\ session = [id \in Ids |-> NoPassword]
  /\ task = Idle
  /\ used = {}
  /\ lastGiven = 0
  /\ tasks = 0
  /\ restarts = 0
  /\ removed = {}
  /\ newest = [id \in Ids |-> NoPassword]
-----------------------------------------------------------------------------
(***************************************************************************)
(* The commands.                                                           *)
(***************************************************************************)
Saved(id) == file[id] # "absent"

\* A new profile gets an identifier nothing has used (ids.NewID).
BeginForm ==
  /\ task = Idle
  /\ tasks < setting.tasks
  /\ tasks' = tasks + 1
  /\ \E kind \in {"save", "test", "connect"}, id \in setting.ids, save, gives \in BOOLEAN :
       /\ Saved(id) \/ id \notin used
       /\ gives => lastGiven < setting.passwords
       /\ lastGiven' = IF gives THEN lastGiven + 1 ELSE lastGiven
       /\ task' = NewTask(kind, "load",
                          [id |-> id, new |-> ~Saved(id), save |-> save,
                           given |-> IF gives THEN lastGiven' ELSE NoPassword])
  /\ UNCHANGED <<stores, history, restarts>>

\* Connect, test or delete of the selected profile, or a reconnection, which
\* prepares the profile as a test does.
BeginSelected ==
  /\ task = Idle
  /\ tasks < setting.tasks
  /\ tasks' = tasks + 1
  /\ \E kind \in {"test", "connect", "delete"}, id \in setting.ids :
       /\ Saved(id)
       /\ task' = NewTask(kind, "load",
                          [id |-> id, new |-> FALSE, save |-> file[id] = "keep",
                           given |-> NoPassword])
  /\ UNCHANGED <<stores, history, lastGiven, restarts>>

Awaited == task.step \notin {"idle"} \cup Replies

\* Esc, or Ctrl+C, which cancels everything before the program ends.
Cancel ==
  /\ Awaited
  /\ ~task.cancelled
  /\ task' = [task EXCEPT !.cancelled = TRUE]
  /\ UNCHANGED <<stores, counters, history>>

Handled ==
  /\ task.step \in Replies
  /\ task' = Idle
  /\ UNCHANGED <<stores, counters, history>>

\* The process ends, whatever it was doing, and is started again.
Restart ==
  /\ restarts < MaxRestarts
  /\ restarts' = restarts + 1
  /\ session' = [id \in Ids |-> NoPassword]
  /\ task' = Idle
  /\ UNCHANGED <<file, keychain, lastGiven, tasks, history>>
-----------------------------------------------------------------------------
(***************************************************************************)
(* Prepare: read the file, then find the password.                         *)
(***************************************************************************)
Id == task.draft.id
Given == task.draft.given # NoPassword

\* A call with a cancelled context fails, and any call may fail by itself.
Works == ~task.cancelled
Breaks(fault) == task.cancelled \/ fault \in setting.faults

Go(step) == task' = [task EXCEPT !.step = step]
OnlyTask == UNCHANGED <<stores, counters, history>>

Load ==
  /\ task.step = "load"
  /\ Works
  /\ task.draft.new \/ Saved(Id)
  /\ task' = [task EXCEPT !.doc = file,
                          !.secret0 = keychain[Id], !.session0 = session[Id],
                          !.step = IF task.kind = "delete" THEN "look" ELSE "secret"]
  /\ OnlyTask

\* The file cannot be read, or the draft is not valid.
LoadFails ==
  /\ task.step = "load"
  /\ Breaks("load")
  /\ task' = [task EXCEPT !.step = "failed", !.doc = file,
                          !.secret0 = keychain[Id], !.session0 = session[Id]]
  /\ OnlyTask

\* What a look into the keychain says: found, missing or error.
Looks(says) ==
  \/ says = "found" /\ Works /\ keychain[Id] # NoPassword
  \/ says = "missing" /\ Works /\ keychain[Id] = NoPassword
  \/ says = "error" /\ Breaks("keychain")

Prepared(source, password) ==
  task' = [task EXCEPT
             !.source = source, !.password = password,
             !.step = IF task.kind = "save" THEN "commit"
                      ELSE IF source = "none" THEN "ask" ELSE "network"]

FromSession ==
  Prepared(IF session[Id] # NoPassword THEN "session" ELSE "none", session[Id])

Prepare ==
  /\ task.step = "secret"
  /\ \/ Given /\ Prepared("input", task.draft.given)
     \/ ~Given /\ task.draft.new /\ Prepared("none", NoPassword)
     \/ /\ ~Given /\ ~task.draft.new /\ task.doc[Id] = "keep"
        /\ \/ Looks("found") /\ Prepared("keychain", keychain[Id])
           \/ Looks("missing") /\ FromSession
           \/ Looks("error") /\ IF session[Id] # NoPassword THEN FromSession
                                ELSE Go("failed")
     \/ ~Given /\ ~task.draft.new /\ task.doc[Id] # "keep" /\ FromSession
  /\ OnlyTask

\* The connection is tried with the password that was found.
Network ==
  /\ task.step = "network"
  /\ \/ Go(IF task.kind = "test" THEN "ok" ELSE "commit")
     \/ Go("failed")
  /\ OnlyTask
-----------------------------------------------------------------------------
(***************************************************************************)
(* Commit and Delete: the keychain and the session first, the file last.   *)
(***************************************************************************)
WasKept == ~task.draft.new /\ task.doc[Id] = "keep"
Writes == /\ task.kind # "delete"
          /\ task.draft.save
          /\ Given \/ (~WasKept /\ task.source = "session")
DeletesProfileOnly == task.kind = "delete"
Deletes == task.kind = "delete" \/ (~task.draft.save /\ ~task.draft.new)

Commit ==
  /\ task.step = "commit"
  /\ IF task.cancelled THEN Go("failed") /\ UNCHANGED used
                       ELSE Go("look") /\ used' = used \cup {Id}
  /\ UNCHANGED <<stores, counters, removed, newest>>

\* The old secret is remembered before it is replaced or removed.
LookForOld ==
  /\ task.step = "look"
  /\ \/ /\ (Writes \/ Deletes) /\ ~task.draft.new
        /\ \/ /\ Looks("found") \/ Looks("missing")
              /\ task' = [task EXCEPT !.old = keychain[Id], !.step = "change"]
           \/ Looks("error") /\ Deletes /\ Go("failed")
           \/ /\ Looks("error") /\ ~Deletes
              /\ task' = [task EXCEPT !.unread = TRUE, !.step = "change"]
     \/ (~(Writes \/ Deletes) \/ task.draft.new) /\ Go("change")
  /\ OnlyTask

Remember(password) == session' = [session EXCEPT ![Id] = password]
GoMutated ==
  task' = [task EXCEPT !.mutated = TRUE, !.step = "store"]

\* The keychain does not take the password: it is for this session only.
SessionOnlyKept ==
  /\ Go("store")
  /\ Remember(task.password)
  /\ UNCHANGED keychain
SessionOnly ==
  /\ task' = [task EXCEPT !.step = "store", !.keep = FALSE]
  /\ Remember(task.password)
  /\ UNCHANGED keychain

WriteSecret ==
  /\ Writes
  /\ \/ /\ ~task.unread /\ Works
        /\ GoMutated
        /\ keychain' = [keychain EXCEPT ![Id] = task.password]
        /\ Remember(NoPassword)
     \/ (task.unread \/ Breaks("keychain")) /\ SessionOnly

\* A profile that is not to keep its password keeps it for the session.
KeepForSession ==
  IF task.kind = "delete" THEN UNCHANGED session ELSE Remember(task.password)

RemoveSecretUnchecked ==
  /\ Deletes
  /\ GoMutated
  /\ keychain' = IF Works /\ "keychain" \notin setting.faults
                 THEN [keychain EXCEPT ![Id] = NoPassword] ELSE keychain
  /\ KeepForSession
RemoveSecret ==
  /\ Deletes
  /\ \/ /\ Works
        /\ GoMutated
        /\ keychain' = [keychain EXCEPT ![Id] = NoPassword]
        /\ KeepForSession
     \/ /\ Breaks("keychain")
        /\ Go("failed")
        /\ UNCHANGED <<keychain, session>>

LeaveSecret ==
  /\ ~Writes /\ ~Deletes
  /\ Go("store")
  /\ IF ~task.draft.save /\ task.source # "none" THEN Remember(task.password)
                                                 ELSE UNCHANGED session
  /\ UNCHANGED keychain

ChangeSecret ==
  /\ task.step = "change"
  /\ WriteSecret \/ RemoveSecret \/ LeaveSecret
  /\ UNCHANGED <<file, counters, history>>

\* The document that was loaded, with the profile replaced, added or removed,
\* takes the place of the file.
ReplacedUnmarked ==
  [task.doc EXCEPT ![Id] = IF task.kind = "delete" THEN "absent" ELSE task.source]
Replaced ==
  [task.doc EXCEPT ![Id] = IF task.kind = "delete" THEN "absent"
                           ELSE IF task.keep THEN "keep" ELSE "forget"]
Rename ==
  /\ file' = Replaced
  /\ removed' = IF task.kind = "delete" THEN removed \cup {Id} ELSE removed

Store ==
  /\ task.step = "store"
  /\ Works
  /\ Rename
  /\ Go("ok")
  /\ newest' = IF task.kind = "delete" \/ ~Given THEN newest
               ELSE [newest EXCEPT ![Id] = task.draft.given]
  /\ IF task.kind = "delete" THEN Remember(NoPassword) ELSE UNCHANGED session
  /\ UNCHANGED <<keychain, counters, used>>

StoreFails ==
  /\ task.step = "store"
  /\ Breaks("save")
  /\ Go("undo")
  /\ OnlyTask

\* The file is replaced and an error is returned all the same: the last chmod.
StoreFailsLate ==
  /\ task.step = "store"
  /\ Works /\ "late" \in setting.faults
  /\ Rename
  /\ Go("undo")
  /\ UNCHANGED <<keychain, session, counters, used, newest>>

\* The keychain is put back without the context, and as far as it lets us.
RestoreSecretCancellable ==
  IF task.mutated /\ Works
  THEN keychain' = [keychain EXCEPT ![Id] = task.old] ELSE UNCHANGED keychain
RestoreSecret ==
  \/ task.mutated /\ keychain' = [keychain EXCEPT ![Id] = task.old]
  \/ (~task.mutated \/ "restore" \in setting.faults) /\ UNCHANGED keychain

Undo ==
  /\ task.step = "undo"
  /\ RestoreSecret
  /\ IF task.kind = "delete" THEN UNCHANGED session ELSE Remember(task.session0)
  /\ Go("failed")
  /\ UNCHANGED <<file, counters, history>>
-----------------------------------------------------------------------------
Serve ==
  \/ Load \/ LoadFails \/ Prepare \/ Network
  \/ Commit \/ LookForOld \/ ChangeSecret
  \/ Store \/ StoreFails \/ StoreFailsLate \/ Undo

Next ==
  /\ UNCHANGED setting
  /\ \/ BeginForm \/ BeginSelected \/ Cancel \/ Handled \/ Restart
     \/ Serve

Spec == Init /\ [][Next]_vars
-----------------------------------------------------------------------------
(***************************************************************************)
(* Properties.                                                             *)
(***************************************************************************)

\* A save, a connect or a deletion that fails, or is cancelled at any moment,
\* leaves the file, the keychain and the session as it found them (Commit and
\* Delete: the rollback of repository failures), as long as a save that fails
\* has not replaced the file and the keychain lets a secret be put back.
FailureRestores ==
  task.step = "failed" /\ {"late", "restore"} \cap setting.faults = {} =>
    /\ file[Id] = task.doc[Id]
    /\ keychain[Id] = task.secret0
    /\ session[Id] = task.session0

\* A profile that is gone from the file has no password left in the keychain,
\* even if the process ended in the middle of a deletion (Delete), as long as a
\* save that fails has not replaced the file.
RemovedLeaveNoSecret ==
  "late" \notin setting.faults => \A id \in removed : keychain[id] = NoPassword

\* What the process would find if the profile were prepared now.
Recall(id) ==
  IF file[id] = "keep" /\ keychain[id] # NoPassword THEN keychain[id]
                                                   ELSE session[id]

\* The password that was entered, or found, when a profile was saved is the one
\* that is found the next time, wherever the save had to put it (Commit); unless
\* both a save failed after it had replaced the file, which leaves the old
\* password in the session of a profile that keeps its own, and the keychain
\* cannot be read now and can be the next time.
SavedPasswordRecalled ==
  /\ ~({"late", "keychain"} \subseteq setting.faults)
  /\ task.step = "ok" /\ task.kind \in {"save", "connect"} /\ task.source # "none"
  => Recall(Id) = task.password

\* A password that has been replaced is never used again (Prepare), while the
\* keychain can be reached.
ReplacedPasswordUnused ==
  task.source \in {"keychain", "session"} /\ "keychain" \notin setting.faults =>
    task.password >= newest[Id]
=============================================================================
