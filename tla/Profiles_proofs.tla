-------------------------- MODULE Profiles_proofs --------------------------
(***************************************************************************)
(* Proofs about Profiles: types; a failed command restores the stores; a   *)
(* profile that is gone leaves no password behind; the password that was   *)
(* saved is the one that is found; one that was replaced is used no more.  *)
(***************************************************************************)
EXTENDS Profiles, TLAPS

(***************************************************************************)
(* Types.                                                                  *)
(***************************************************************************)

\* A task that begins is well typed.
LEMMA NewTaskType ==
  ASSUME NEW kind \in Kinds, NEW step \in Steps, NEW draft \in Drafts
  PROVE  NewTask(kind, step, draft) \in Tasks
  <1>1. [id \in Ids |-> "absent"] \in Documents
    BY DEF Documents, Entries
  <1>2. 0 \in Passwords /\ "none" \in Sources /\ draft.save \in BOOLEAN
    BY ConstantsAssumption DEF Passwords, Sources, Drafts
  <1>3. QED
    BY <1>1, <1>2 DEF NewTask, Tasks, NoPassword

\* No task is well typed.
LEMMA IdleType == Idle \in Tasks
  <1>1. AnyDraft \in Drafts
    BY ConstantsAssumption DEF AnyDraft, Drafts, Passwords, NoPassword
  <1>2. QED
    BY <1>1, NewTaskType DEF Idle, Kinds, Steps

\* A task that goes on to another step is well typed.
LEMMA TaskEdits ==
  ASSUME task \in Tasks, NEW step \in Steps
  PROVE  /\ [task EXCEPT !.mutated = TRUE, !.step = step] \in Tasks
         /\ [task EXCEPT !.step = step, !.keep = FALSE] \in Tasks
         /\ [task EXCEPT !.unread = TRUE, !.step = step] \in Tasks
         /\ \A password \in Passwords :
              [task EXCEPT !.old = password, !.step = step] \in Tasks
  <1>1. [task EXCEPT !.mutated = TRUE, !.step = step] \in Tasks
    BY DEF Tasks
  <1>2. [task EXCEPT !.step = step, !.keep = FALSE] \in Tasks
    BY DEF Tasks
  <1>3. [task EXCEPT !.unread = TRUE, !.step = step] \in Tasks
    BY DEF Tasks
  <1>4. ASSUME NEW password \in Passwords
        PROVE  [task EXCEPT !.old = password, !.step = step] \in Tasks
    BY DEF Tasks
  <1>5. QED
    BY <1>1, <1>2, <1>3, <1>4

\* A step of the service keeps the types.
LEMMA ServeType == TypeOK /\ Serve /\ UNCHANGED setting => TypeOK'
  <1> USE DEF Steps, Replies, Entries, Sources, NoPassword
  <1> SUFFICES ASSUME TypeOK, Serve, UNCHANGED setting PROVE TypeOK'
    OBVIOUS
  <1>0. /\ Id \in Ids /\ task \in Tasks /\ task.draft.given \in Passwords
        /\ task.doc \in Documents
        /\ keychain[Id] \in Passwords /\ session[Id] \in Passwords
        /\ 0 \in Passwords
    BY ConstantsAssumption DEF TypeOK, Tasks, Drafts, Id, Passwords
  <1>1. ASSUME NEW step \in Steps, Go(step) PROVE task' \in Tasks
    BY <1>0, <1>1 DEF Go, Tasks
  <1>2. ASSUME NEW password \in Passwords, Remember(password)
        PROVE  session' \in [Ids -> Passwords]
    BY <1>0, <1>2 DEF Remember, TypeOK
  <1>3. task' \in Tasks
    <2>1. CASE Load \/ LoadFails
      <3>1. PICK step \in Steps :
              task' = [task EXCEPT !.step = step, !.doc = file,
                         !.secret0 = keychain[Id], !.session0 = session[Id]]
        <4>1. {"look", "secret", "failed"} \subseteq Steps
          OBVIOUS
        <4>2. PICK step \in {"look", "secret", "failed"} :
                task' = [task EXCEPT !.step = step, !.doc = file,
                           !.secret0 = keychain[Id], !.session0 = session[Id]]
          BY <2>1, Zenon DEF Load, LoadFails
        <4>3. QED
          BY <4>1, <4>2
      <3>2. file \in Documents
        BY DEF TypeOK
      <3>3. QED
        BY <1>0, <3>1, <3>2 DEF Tasks
    <2>2. CASE Prepare
      <3>1. ASSUME NEW source \in Sources, NEW password \in Passwords,
                   Prepared(source, password)
            PROVE  task' \in Tasks
        <4>1. PICK step \in Steps :
                task' = [task EXCEPT !.source = source, !.password = password,
                                     !.step = step]
          BY <3>1 DEF Prepared
        <4>2. QED
          BY <1>0, <4>1 DEF Tasks
      <3>2. FromSession => task' \in Tasks
        <4>1. (IF session[Id] # 0 THEN "session" ELSE "none") \in Sources
          BY DEF Sources
        <4>2. QED
          BY <1>0, <3>1, <4>1 DEF FromSession
      <3>3. {"none", "input", "keychain"} \subseteq Sources
        BY DEF Sources
      <3>4. QED
        BY <1>0, <1>1, <2>2, <3>1, <3>2, <3>3 DEF Prepare
    <2>3. CASE Network \/ Commit \/ Store \/ StoreFails \/ StoreFailsLate \/ Undo
      BY <1>1, <2>3 DEF Network, Commit, Store, StoreFails, StoreFailsLate, Undo
    <2>4. CASE LookForOld
      <3>1. "change" \in Steps /\ "failed" \in Steps
        OBVIOUS
      <3>2. \/ task' = [task EXCEPT !.old = keychain[Id], !.step = "change"]
            \/ task' = [task EXCEPT !.unread = TRUE, !.step = "change"]
            \/ Go("failed") \/ Go("change")
        BY <2>4, Zenon DEF LookForOld
      <3>3. /\ [task EXCEPT !.old = keychain[Id], !.step = "change"] \in Tasks
            /\ [task EXCEPT !.unread = TRUE, !.step = "change"] \in Tasks
        BY <1>0, <3>1, TaskEdits
      <3>4. QED
        BY <1>1, <3>1, <3>2, <3>3
    <2>5. CASE ChangeSecret
      <3>0. "store" \in Steps
        OBVIOUS
      <3>1. GoMutated => task' \in Tasks
        BY <1>0, <3>0, TaskEdits DEF GoMutated
      <3>2. SessionOnly => task' \in Tasks
        BY <1>0, <3>0, TaskEdits DEF SessionOnly
      <3>3. QED
        BY <1>1, <2>5, <3>1, <3>2
        DEF ChangeSecret, WriteSecret, RemoveSecret, LeaveSecret
    <2>6. QED
      BY <2>1, <2>2, <2>3, <2>4, <2>5 DEF Serve
  <1>4. file' \in Documents
    <2>1. Replaced \in Documents
      BY <1>0 DEF Replaced, Documents
    <2>2. QED
      BY <2>1 DEF Serve, Load, LoadFails, Prepare, Network, Commit, LookForOld,
        ChangeSecret, Store, StoreFails, StoreFailsLate, Undo, Rename, OnlyTask,
        stores, TypeOK
  <1>5. keychain' \in [Ids -> Passwords] /\ session' \in [Ids -> Passwords]
    <2>1. task.password \in Passwords /\ task.old \in Passwords
            /\ task.session0 \in Passwords
      BY <1>0 DEF Tasks
    <2>2. CASE Load \/ LoadFails \/ Prepare \/ Network \/ Commit \/ LookForOld
                 \/ StoreFails \/ StoreFailsLate
      BY <2>2 DEF Load, LoadFails, Prepare, Network, Commit, LookForOld,
        StoreFails, StoreFailsLate, OnlyTask, stores, TypeOK
    <2>3. CASE ChangeSecret
      BY <1>0, <1>2, <2>1, <2>3 DEF ChangeSecret, WriteSecret, RemoveSecret,
        LeaveSecret, SessionOnly, KeepForSession, TypeOK
    <2>4. CASE Store \/ Undo
      BY <1>0, <1>2, <2>1, <2>4 DEF Store, Undo, RestoreSecret, TypeOK
    <2>5. QED
      BY <2>2, <2>3, <2>4 DEF Serve
  <1>6. /\ used' \subseteq Ids /\ removed' \subseteq Ids
        /\ newest' \in [Ids -> Passwords]
        /\ UNCHANGED counters
    BY <1>0 DEF Serve, Load, LoadFails, Prepare, Network, Commit, LookForOld,
      ChangeSecret, Store, StoreFails, StoreFailsLate, Undo, Rename, OnlyTask,
      history, TypeOK
  <1>7. QED
    BY <1>3, <1>4, <1>5, <1>6 DEF TypeOK, counters

\* Every step keeps the types.
LEMMA TypeStep == TypeOK /\ [Next]_vars => TypeOK'
  <1> USE DEF Steps, Replies, Entries, NoPassword
  <1> SUFFICES ASSUME TypeOK, [Next]_vars PROVE TypeOK'
    OBVIOUS
  <1>0. /\ UNCHANGED setting
        /\ setting.tasks \in 0..MaxTasks /\ setting.passwords \in 0..MaxPasswords
        /\ setting.ids \subseteq Ids
    BY ConstantsAssumption DEF TypeOK, Next, vars
  <1>1. CASE BeginForm
    <2>1. PICK kind \in {"save", "test", "connect"}, id \in setting.ids,
               save, gives \in BOOLEAN :
            /\ gives => lastGiven < setting.passwords
            /\ lastGiven' = IF gives THEN lastGiven + 1 ELSE lastGiven
            /\ task' = NewTask(kind, "load",
                         [id |-> id, new |-> ~Saved(id), save |-> save,
                          given |-> IF gives THEN lastGiven' ELSE NoPassword])
      BY <1>1 DEF BeginForm
    <2>2. lastGiven' \in Passwords
      BY <1>0, <2>1, ConstantsAssumption DEF TypeOK, Passwords
    <2>3. [id |-> id, new |-> ~Saved(id), save |-> save,
           given |-> IF gives THEN lastGiven' ELSE NoPassword] \in Drafts
      BY <1>0, <2>2, ConstantsAssumption DEF Drafts, Passwords, Saved
    <2>4. task' \in Tasks
      BY <2>1, <2>3, NewTaskType DEF Kinds
    <2>5. QED
      BY <1>0, <1>1, <2>2, <2>4, ConstantsAssumption
      DEF BeginForm, TypeOK, stores, history
  <1>2. CASE BeginSelected
    <2>1. PICK kind \in {"test", "connect", "delete"}, id \in setting.ids :
            task' = NewTask(kind, "load",
                      [id |-> id, new |-> FALSE, save |-> file[id] = "keep",
                       given |-> NoPassword])
      BY <1>2 DEF BeginSelected
    <2>2. [id |-> id, new |-> FALSE, save |-> file[id] = "keep",
           given |-> NoPassword] \in Drafts
      BY <1>0, ConstantsAssumption DEF Drafts, Passwords
    <2>3. task' \in Tasks
      BY <2>1, <2>2, NewTaskType DEF Kinds
    <2>4. QED
      BY <1>0, <1>2, <2>3, ConstantsAssumption
      DEF BeginSelected, TypeOK, stores, history
  <1>3. CASE Cancel
    BY <1>0, <1>3 DEF Cancel, TypeOK, Tasks, stores, counters, history
  <1>4. CASE Handled
    BY <1>0, <1>4, IdleType DEF Handled, TypeOK, stores, counters, history
  <1>5. CASE Restart
    <2>1. 0 \in Passwords /\ restarts' \in 0..MaxRestarts
      BY <1>5, ConstantsAssumption DEF Restart, TypeOK, Passwords
    <2>2. session' \in [Ids -> Passwords]
      BY <1>5, <2>1 DEF Restart
    <2>3. QED
      BY <1>0, <1>5, <2>1, <2>2, IdleType DEF Restart, TypeOK, history
  <1>6. CASE UNCHANGED vars
    BY <1>6 DEF vars, stores, counters, history, TypeOK
  <1>7. QED
    BY <1>0, <1>1, <1>2, <1>3, <1>4, <1>5, <1>6, ServeType DEF Next

\* The initial state is well typed.
LEMMA TypeInit == Init => TypeOK
  BY IdleType, ConstantsAssumption
  DEF Init, TypeOK, Documents, Entries, Passwords, NoPassword

\* Every variable keeps its type: in particular the passwords the stores hold
\* are passwords the user gave (internal/profile/service.go).
THEOREM TypeCorrect == Spec => []TypeOK
  BY TypeInit, TypeStep, PTL DEF Spec

(***************************************************************************)
(* The stores during a command.  Until it changes a secret it has changed  *)
(* nothing, and from then on it knows what the secret was.                 *)
(***************************************************************************)
Unchanged == {"secret", "network", "commit", "look", "change", "failed"}
Changed == {"store", "undo"}
Active == {"secret", "network", "commit", "look", "change", "store", "undo"}

FileAsFound == task.step \in Unchanged \cup Changed => file = task.doc

SecretsAsFound ==
  /\ task.step \in Unchanged =>
       keychain[Id] = task.secret0 /\ session[Id] = task.session0
  /\ task.step \in Changed =>
       /\ task.mutated => task.old = task.secret0
       /\ ~task.mutated => keychain[Id] = task.secret0
       /\ task.kind = "delete" => session[Id] = task.session0

\* What the task knows of the old secret before it replaces it.
OldIsKnown ==
  /\ task.step \in Active \ Changed => ~task.mutated
  /\ task.step = "change" /\ (Deletes \/ (Writes /\ ~task.unread)) =>
       task.old = task.secret0
  /\ task.step \in {"load", "secret", "network", "commit", "look"} =>
       task.old = NoPassword /\ ~task.unread /\ ~task.mutated
  /\ task.step \in Active /\ task.draft.new => task.secret0 = NoPassword

\* An identifier is used before the profile, or its secret, is stored.
IdsUsed ==
  /\ \A id \in Ids \ used : file[id] = "absent" /\ keychain[id] = NoPassword
  /\ task.step \in {"look", "change", "store", "undo"} => Id \in used
  /\ task.step = "load" => Saved(Id) \/ Id \notin used
  /\ task.draft.new => task.kind # "delete"
  /\ task.step \in {"load", "secret", "network", "commit"} /\ task.draft.new =>
       Id \notin used

RemovedGone ==
  /\ removed \subseteq used
  /\ \A id \in removed : file[id] = "absent" /\ keychain[id] = NoPassword
  /\ task.step \in Active => Id \notin removed
  /\ task.step = "store" /\ task.kind = "delete" => keychain[Id] = NoPassword

RemovedInv == TypeOK /\ FileAsFound /\ IdsUsed /\ RemovedGone
RestoreInv == SecretsAsFound /\ OldIsKnown

(***************************************************************************)
(* What the steps of a command do to its record and to the stores.         *)
(***************************************************************************)
FileFailsLate == "late" \in setting.faults
RestoreFails == "restore" \in setting.faults

Same(t) ==
  /\ t.kind = task.kind /\ t.draft = task.draft /\ t.doc = task.doc
  /\ t.secret0 = task.secret0 /\ t.session0 = task.session0

\* The steps that leave the stores alone.
LEMMA QuietEffect ==
  ASSUME TypeOK, Prepare \/ Network \/ Commit \/ LookForOld \/ StoreFails
  PROVE  /\ Same(task') /\ task'.mutated = task.mutated
         /\ UNCHANGED <<stores, removed>>
         /\ \/ /\ task.step = "secret" /\ UNCHANGED <<used, task.old, task.unread>>
               /\ task'.step \in {"commit", "network", "ask", "failed"}
            \/ /\ task.step = "network" /\ UNCHANGED <<used, task.old, task.unread>>
               /\ task'.step \in {"ok", "commit", "failed"}
            \/ /\ task.step = "commit" /\ UNCHANGED <<task.old, task.unread>>
               /\ \/ task'.step = "failed" /\ used' = used
                  \/ task'.step = "look" /\ used' = used \cup {Id}
            \/ /\ task.step = "look" /\ UNCHANGED <<used, task.source>>
               /\ \/ task'.step = "failed"
                  \/ /\ task'.step = "change"
                     /\ \/ task'.old = keychain[Id]
                        \/ task'.unread /\ ~Deletes
                        \/ task'.old = task.old /\ task.draft.new
                        \/ ~Writes /\ ~Deletes
            \/ /\ task.step = "store" /\ task'.step = "undo"
               /\ UNCHANGED <<used, task.old>>
  <1>1. task \in Tasks
    BY DEF TypeOK
  <1>2. CASE Prepare
    <2>1. ASSUME NEW source, NEW password, Prepared(source, password)
          PROVE  /\ Same(task') /\ task'.mutated = task.mutated
                 /\ task'.step \in {"commit", "network", "ask"}
                 /\ UNCHANGED <<task.old, task.unread>>
      BY <1>1, <2>1 DEF Prepared, Tasks, Same
    <2>2. Go("failed") => /\ Same(task') /\ task'.mutated = task.mutated
                          /\ task'.step = "failed"
                          /\ UNCHANGED <<task.old, task.unread>>
      BY <1>1 DEF Go, Tasks, Same
    <2>3. /\ task.step = "secret" /\ OnlyTask
          /\ \/ \E source, password : Prepared(source, password)
             \/ Go("failed")
      BY <1>2 DEF Prepare, FromSession
    <2>4. QED
      BY <2>1, <2>2, <2>3 DEF OnlyTask, history
  <1>3. CASE Network
    BY <1>1, <1>3 DEF Network, Go, Tasks, Same, OnlyTask, history
  <1>4. CASE Commit
    BY <1>1, <1>4 DEF Commit, Go, Tasks, Same
  <1>5. CASE LookForOld
    BY <1>1, <1>5 DEF LookForOld, Go, Tasks, Same, OnlyTask, history
  <1>6. CASE StoreFails
    BY <1>1, <1>6 DEF StoreFails, Go, Tasks, Same, OnlyTask, history
  <1>7. QED
    BY <1>2, <1>3, <1>4, <1>5, <1>6

\* The secret is replaced, removed or left.
LEMMA ChangeEffect ==
  ASSUME TypeOK, ChangeSecret
  PROVE  /\ Same(task') /\ task'.old = task.old
         /\ UNCHANGED <<file, history>>
         /\ task.step = "change"
         /\ \A id \in Ids \ {Id} : keychain'[id] = keychain[id]
         /\ \/ /\ task'.step = "failed" /\ UNCHANGED <<keychain, session>>
            \/ /\ task'.step = "store" /\ task'.mutated
               /\ Deletes \/ (Writes /\ ~task.unread)
               /\ Deletes => keychain'[Id] = NoPassword
               /\ task.kind = "delete" => UNCHANGED session
            \/ /\ task'.step = "store" /\ task'.mutated = task.mutated
               /\ UNCHANGED keychain /\ task.kind # "delete"
  <1>1. task \in Tasks /\ Id \in Ids /\ keychain \in [Ids -> Passwords]
    BY DEF TypeOK, Tasks, Drafts, Id
  <1>0. task.step = "change" /\ UNCHANGED <<file, history>>
    BY DEF ChangeSecret
  <1>6. Writes => ~Deletes /\ task.kind # "delete"
    BY DEF Writes, Deletes
  <1>2. CASE WriteSecret
    <2>1. CASE /\ ~task.unread /\ GoMutated
               /\ keychain' = [keychain EXCEPT ![Id] = task.password]
      BY <1>0, <1>1, <1>2, <1>6, <2>1 DEF WriteSecret, GoMutated, Tasks, Same
    <2>2. CASE SessionOnly
      BY <1>0, <1>1, <1>2, <1>6, <2>2 DEF WriteSecret, SessionOnly, Tasks, Same
    <2>3. QED
      BY <1>2, <2>1, <2>2 DEF WriteSecret
  <1>3. CASE RemoveSecret
    <2>1. CASE /\ GoMutated /\ KeepForSession
               /\ keychain' = [keychain EXCEPT ![Id] = NoPassword]
      BY <1>0, <1>1, <1>3, <2>1 DEF RemoveSecret, GoMutated, KeepForSession, Tasks, Same
    <2>2. CASE Go("failed") /\ UNCHANGED <<keychain, session>>
      BY <1>0, <1>1, <2>2 DEF Go, Tasks, Same
    <2>3. QED
      BY <1>3, <2>1, <2>2 DEF RemoveSecret
  <1>4. CASE LeaveSecret
    BY <1>1, <1>4 DEF ChangeSecret, LeaveSecret, Deletes, Go, Tasks, Same, history
  <1>5. QED
    BY <1>2, <1>3, <1>4 DEF ChangeSecret

\* The file is read.
LEMMA LoadEffect ==
  ASSUME TypeOK, Load \/ LoadFails
  PROVE  /\ task.step = "load" /\ task'.kind = task.kind
         /\ task'.draft = task.draft /\ task'.doc = file
         /\ task'.secret0 = keychain[Id] /\ task'.session0 = session[Id]
         /\ UNCHANGED <<stores, history, task.old, task.unread, task.mutated>>
         /\ \/ task'.step = "failed"
            \/ /\ task'.step = "look" /\ task.kind = "delete"
               /\ task.draft.new \/ Saved(Id)
            \/ task'.step = "secret" /\ (task.draft.new \/ Saved(Id))
  <1>1. task \in Tasks
    BY DEF TypeOK
  <1>2. CASE Load
    BY <1>1, <1>2 DEF Load, Tasks, OnlyTask
  <1>3. CASE LoadFails
    BY <1>1, <1>3 DEF LoadFails, Tasks, OnlyTask
  <1>4. QED
    BY <1>2, <1>3

\* The file is replaced.
LEMMA StoreEffect ==
  ASSUME TypeOK, Store \/ StoreFailsLate
  PROVE  /\ Same(task') /\ task.step = "store"
         /\ file' = Replaced /\ UNCHANGED <<keychain, used>>
         /\ removed' = IF task.kind = "delete" THEN removed \cup {Id} ELSE removed
         /\ \/ task'.step = "ok"
            \/ "late" \in setting.faults
  <1>1. task \in Tasks
    BY DEF TypeOK
  <1>2. QED
    BY <1>1 DEF Store, StoreFailsLate, Rename, Go, Tasks, Same

\* The secret is put back.
LEMMA UndoEffect ==
  ASSUME TypeOK, Undo
  PROVE  /\ Same(task') /\ task.step = "undo" /\ task'.step = "failed"
         /\ UNCHANGED <<file, history>>
         /\ \A id \in Ids \ {Id} : keychain'[id] = keychain[id]
         /\ \/ task.mutated /\ keychain'[Id] = task.old
            \/ UNCHANGED keychain /\ (~task.mutated \/ "restore" \in setting.faults)
         /\ IF task.kind = "delete" THEN UNCHANGED session
                                    ELSE session'[Id] = task.session0
  <1>1. /\ task \in Tasks /\ Id \in Ids /\ keychain \in [Ids -> Passwords]
        /\ session \in [Ids -> Passwords]
    BY DEF TypeOK, Tasks, Drafts, Id
  <1>2. QED
    BY <1>1 DEF Undo, RestoreSecret, Remember, Go, Tasks, Same

\* The steps of the launcher: a command begins or ends.
LEMMA LauncherEffect ==
  ASSUME TypeOK, BeginForm \/ BeginSelected \/ Cancel \/ Handled \/ Restart
  PROVE  /\ UNCHANGED <<file, keychain, history>>
         /\ \/ /\ task'.step = "load" /\ task'.draft.id \in Ids
               /\ ~task'.mutated /\ ~task'.unread /\ task'.old = NoPassword
               /\ \/ Saved(task'.draft.id) /\ ~task'.draft.new
                  \/ task'.draft.id \notin used /\ task'.kind # "delete"
            \/ task'.step = "idle" /\ ~task'.draft.new
            \/ /\ Same(task') /\ UNCHANGED session
               /\ UNCHANGED <<task.step, task.source, task.old, task.unread, task.mutated>>
  <1>1. task \in Tasks /\ setting.ids \subseteq Ids
    BY ConstantsAssumption DEF TypeOK
  <1>2. CASE BeginForm \/ BeginSelected
    <2>1. CASE BeginForm
      <3>1. PICK kind \in {"save", "test", "connect"}, id \in setting.ids,
                 save \in BOOLEAN, gives \in BOOLEAN :
              /\ Saved(id) \/ id \notin used
              /\ task' = NewTask(kind, "load",
                          [id |-> id, new |-> ~Saved(id), save |-> save,
                           given |-> IF gives THEN lastGiven' ELSE NoPassword])
        BY <2>1 DEF BeginForm
      <3>2. /\ task'.step = "load" /\ task'.draft.id = id /\ task'.kind = kind
            /\ task'.draft.new = ~Saved(id)
            /\ task'.mutated = FALSE /\ task'.unread = FALSE
            /\ task'.old = NoPassword
        BY <3>1 DEF NewTask
      <3>3. QED
        BY <1>1, <2>1, <3>1, <3>2 DEF BeginForm, stores
    <2>2. CASE BeginSelected
      <3>1. PICK kind \in {"test", "connect", "delete"}, id \in setting.ids :
              /\ Saved(id)
              /\ task' = NewTask(kind, "load",
                          [id |-> id, new |-> FALSE, save |-> file[id] = "keep",
                           given |-> NoPassword])
        BY <2>2 DEF BeginSelected
      <3>2. /\ task'.step = "load" /\ task'.draft.id = id
            /\ task'.draft.new = FALSE
            /\ task'.mutated = FALSE /\ task'.unread = FALSE
            /\ task'.old = NoPassword
        BY <3>1 DEF NewTask
      <3>3. QED
        BY <1>1, <2>2, <3>1, <3>2 DEF BeginSelected, stores
    <2>3. QED
      BY <1>2, <2>1, <2>2
  <1>3. CASE Cancel
    BY <1>1, <1>3 DEF Cancel, Tasks, Same, stores
  <1>4. CASE Handled \/ Restart
    BY <1>4 DEF Handled, Restart, Idle, NewTask, AnyDraft, stores
  <1>5. QED
    BY <1>2, <1>3, <1>4

(***************************************************************************)
(* The invariants are inductive.                                           *)
(***************************************************************************)

\* As long as the file is replaced only by a store that succeeds, a profile
\* that is gone stays gone, with its secret.
LEMMA RemovedInductive ==
  ASSUME ~FileFailsLate, RemovedInv, [Next]_vars
  PROVE  RemovedInv'
  <1> USE DEF Unchanged, Changed, Active
  <1>1. TypeOK /\ TypeOK' /\ task \in Tasks /\ Id \in Ids /\ NoPassword = 0
    BY TypeStep DEF RemovedInv, TypeOK, Tasks, Drafts, Id, NoPassword
  <1>2. CASE BeginForm \/ BeginSelected \/ Cancel \/ Handled \/ Restart
    BY <1>1, <1>2, LauncherEffect DEF RemovedInv, FileAsFound, IdsUsed,
      RemovedGone, Id, Saved, Same, history
  <1>3. CASE Load \/ LoadFails
    BY <1>1, <1>3, LoadEffect DEF RemovedInv, FileAsFound, IdsUsed,
      RemovedGone, Id, Saved, stores, history
  <1>4. CASE Prepare \/ Network \/ Commit \/ LookForOld \/ StoreFails
    <2>1. FileAsFound'
      BY <1>1, <1>4, QuietEffect DEF RemovedInv, FileAsFound, Same, stores
    <2>2. IdsUsed'
      BY <1>1, <1>4, QuietEffect DEF RemovedInv, IdsUsed, Id, Saved, Same, stores
    <2>3. RemovedGone'
      BY <1>1, <1>4, QuietEffect DEF RemovedInv, IdsUsed, RemovedGone, Id, Same,
        stores
    <2>4. QED
      BY <1>1, <2>1, <2>2, <2>3 DEF RemovedInv
  <1>5. CASE ChangeSecret
    <2>1. FileAsFound'
      BY <1>1, <1>5, ChangeEffect DEF RemovedInv, FileAsFound, Same, Deletes, history
    <2>2. IdsUsed'
      BY <1>1, <1>5, ChangeEffect DEF RemovedInv, IdsUsed, Id, Saved, Same, Deletes, history
    <2>3. RemovedGone'
      <3>1. removed \subseteq Ids /\ Id \notin removed
        BY <1>1, <1>5, ChangeEffect DEF RemovedInv, RemovedGone, TypeOK
      <3>2. QED
        BY <1>1, <1>5, <3>1, ChangeEffect DEF RemovedInv, RemovedGone, Id, Same,
          Deletes, history
    <2>4. QED
      BY <1>1, <2>1, <2>2, <2>3 DEF RemovedInv
  <1>6. CASE Store \/ StoreFailsLate
    <2>1. /\ file' = Replaced /\ file = task.doc /\ task.step = "store"
          /\ UNCHANGED <<keychain, used>> /\ task'.step = "ok"
          /\ removed' = IF task.kind = "delete" THEN removed \cup {Id} ELSE removed
          /\ task'.draft = task.draft /\ task'.kind = task.kind
      BY <1>6, StoreEffect, <1>1 DEF FileFailsLate, RemovedInv, FileAsFound, Same
    <2>2. /\ \A id \in Ids \ {Id} : file'[id] = file[id]
          /\ task.kind = "delete" => file'[Id] = "absent"
      BY <1>1, <2>1 DEF Replaced, Documents, TypeOK
    <2>3. FileAsFound'
      BY <2>1 DEF FileAsFound
    <2>4. IdsUsed'
      BY <1>1, <2>1, <2>2 DEF RemovedInv, IdsUsed
    <2>5. RemovedGone'
      BY <1>1, <2>1, <2>2 DEF RemovedInv, IdsUsed, RemovedGone, TypeOK
    <2>6. QED
      BY <1>1, <2>3, <2>4, <2>5 DEF RemovedInv
  <1>7. CASE Undo
    <2>1. /\ Same(task') /\ task.step = "undo" /\ task'.step = "failed"
          /\ UNCHANGED <<file, used, removed>>
          /\ \A id \in Ids \ {Id} : keychain'[id] = keychain[id]
      BY <1>7, <1>1, UndoEffect DEF history
    <2>2. FileAsFound'
      BY <1>1, <2>1 DEF RemovedInv, FileAsFound, Same
    <2>3. IdsUsed'
      BY <1>1, <2>1 DEF RemovedInv, IdsUsed, Id, Saved, Same
    <2>4. RemovedGone'
      <3>1. removed \subseteq Ids /\ Id \notin removed
        BY <1>1, <2>1 DEF RemovedInv, RemovedGone, TypeOK
      <3>2. QED
        BY <1>1, <2>1, <3>1 DEF RemovedInv, RemovedGone, Id, Same
    <2>5. QED
      BY <1>1, <2>2, <2>3, <2>4 DEF RemovedInv
  <1>8. CASE UNCHANGED vars
    BY <1>1, <1>8 DEF RemovedInv, FileAsFound, IdsUsed, RemovedGone, Id, Saved,
      Deletes, Writes, vars, stores, counters, history
  <1>9. QED
    BY <1>2, <1>3, <1>4, <1>5, <1>6, <1>7, <1>8 DEF RemovedInv, Next, Serve

\* As long as the keychain lets a secret be put back, a command knows what the
\* stores held and puts it back.
LEMMA RestoreInductive ==
  ASSUME ~FileFailsLate, ~RestoreFails,
         RemovedInv, RestoreInv, [Next]_vars
  PROVE  RestoreInv'
  <1> USE DEF Unchanged, Changed, Active
  <1>1. TypeOK /\ TypeOK' /\ task \in Tasks /\ Id \in Ids /\ NoPassword = 0
    BY TypeStep DEF RemovedInv, TypeOK, Tasks, Drafts, Id, NoPassword
  <1>2. CASE BeginForm \/ BeginSelected \/ Cancel \/ Handled \/ Restart
    <2>1. CASE task'.step \in {"load", "idle"}
      BY <1>1, <1>2, <2>1, LauncherEffect DEF RestoreInv, SecretsAsFound,
        OldIsKnown, Id, Same
    <2>2. CASE task'.step \notin {"load", "idle"}
      <3>1. /\ Same(task') /\ UNCHANGED <<session, keychain>>
            /\ task'.source = task.source /\ task'.step = task.step
            /\ task'.old = task.old /\ task'.unread = task.unread
            /\ task'.mutated = task.mutated
        BY <1>1, <1>2, <2>2, LauncherEffect
      <3>2. SecretsAsFound'
        BY <1>1, <3>1 DEF RestoreInv, SecretsAsFound, Id, Same
      <3>3. OldIsKnown'
        BY <1>1, <3>1 DEF RestoreInv, OldIsKnown, Id, Same, Writes, Deletes,
          WasKept, Given
      <3>4. QED
        BY <3>2, <3>3 DEF RestoreInv
    <2>3. QED
      BY <2>1, <2>2
  <1>3. CASE Load \/ LoadFails
    <2>1. SecretsAsFound'
      BY <1>1, <1>3, LoadEffect DEF SecretsAsFound, Id, stores
    <2>2. task.draft.new /\ task.step = "load" => keychain[Id] = NoPassword
      BY <1>1 DEF RemovedInv, IdsUsed
    <2>3. OldIsKnown'
      BY <1>1, <1>3, <2>2, LoadEffect DEF RestoreInv, OldIsKnown
    <2>4. QED
      BY <2>1, <2>3 DEF RestoreInv
  <1>4. CASE Prepare \/ Network \/ Commit \/ LookForOld \/ StoreFails
    <2>1. SecretsAsFound'
      BY <1>1, <1>4, QuietEffect DEF RestoreInv, SecretsAsFound, OldIsKnown, Id,
        Same, stores
    <2>2. OldIsKnown'
      BY <1>1, <1>4, QuietEffect DEF RestoreInv, SecretsAsFound, OldIsKnown, Id,
        Same, Writes, Deletes, WasKept, Given, stores
    <2>3. QED
      BY <2>1, <2>2 DEF RestoreInv
  <1>5. CASE ChangeSecret
    <2>1. SecretsAsFound'
      BY <1>1, <1>5, ChangeEffect DEF RestoreInv, SecretsAsFound, OldIsKnown, Id,
        Same, Deletes, history
    <2>2. OldIsKnown'
      BY <1>1, <1>5, ChangeEffect DEF RestoreInv, SecretsAsFound, OldIsKnown, Id,
        Same, Writes, Deletes, WasKept, Given, history
    <2>3. QED
      BY <2>1, <2>2 DEF RestoreInv
  <1>6. CASE Store \/ StoreFailsLate
    BY <1>1, <1>6, StoreEffect DEF FileFailsLate, RestoreInv, SecretsAsFound,
      OldIsKnown, Id, Same
  <1>7. CASE Undo
    BY <1>1, <1>7, UndoEffect DEF RestoreFails, RestoreInv, SecretsAsFound,
      OldIsKnown, Id, Same
  <1>8. CASE UNCHANGED vars
    BY <1>1, <1>8 DEF RestoreInv, SecretsAsFound, OldIsKnown, Id,
      Deletes, Writes, WasKept, Given, vars, stores, counters, history
  <1>9. QED
    BY <1>2, <1>3, <1>4, <1>5, <1>6, <1>7, <1>8 DEF Next, Serve

\* The invariants hold initially.
LEMMA InvariantsInit == Init => RemovedInv /\ RestoreInv
  BY TypeInit
  DEF Init, RemovedInv, RestoreInv, FileAsFound, IdsUsed, RemovedGone,
      SecretsAsFound, OldIsKnown, Idle, NewTask, AnyDraft, Unchanged, Changed,
      Active

\* An execution keeps its setting.
LEMMA SettingKept == [Next]_vars => UNCHANGED setting
  BY DEF Next, vars

\* A profile that is gone from the file has no password left in the keychain,
\* whatever fails, except a store after it has replaced the file, and wherever
\* the process ends (Delete).
THEOREM RemovedClean == Spec => []RemovedLeaveNoSecret
  <1> DEFINE Inv == ~FileFailsLate => RemovedInv
  <1>1. Init => Inv
    BY InvariantsInit
  <1>2. Inv /\ [Next]_vars => Inv'
    BY RemovedInductive, SettingKept DEF FileFailsLate
  <1>3. Inv => RemovedLeaveNoSecret
    BY DEF FileFailsLate, RemovedInv, RemovedGone, RemovedLeaveNoSecret
  <1>4. QED
    BY <1>1, <1>2, <1>3, PTL DEF Spec

\* A command that fails or is cancelled leaves the stores as it found them, if
\* no store fails after it has replaced the file and the keychain lets a secret
\* be put back (Commit, Delete).
THEOREM Restores == Spec => []FailureRestores
  <1> DEFINE Inv == ~FileFailsLate /\ ~RestoreFails => RemovedInv /\ RestoreInv
  <1>1. Init => Inv
    BY InvariantsInit
  <1>2. Inv /\ [Next]_vars => Inv'
    BY RemovedInductive, RestoreInductive, SettingKept
    DEF FileFailsLate, RestoreFails
  <1>3. Inv => FailureRestores
    BY DEF RemovedInv, RestoreInv, FileAsFound, SecretsAsFound, FailureRestores,
           Unchanged, FileFailsLate, RestoreFails
  <1>4. QED
    BY <1>1, <1>2, <1>3, PTL DEF Spec

(***************************************************************************)
(* The password that is found, used and stored, in every setting.          *)
(***************************************************************************)
Reading == {"secret", "network", "commit", "look", "change", "store"}
Prepareds == {"network", "commit", "look", "change"}

DocIsFile == task.step \in Reading => file = task.doc

SessionsUsed == \A id \in Ids \ used : session[id] = NoPassword

\* What the task remembers of the session, and of what it was asked.
SessionKnown ==
  /\ task.step \in {"secret", "look"} \cup Prepareds => session[Id] = task.session0
  /\ task.step \in Changed /\ task.kind = "delete" => session[Id] = task.session0
  /\ task.step \in {"load", "secret"} \cup Prepareds => task.keep = task.draft.save

\* Where the password of the task comes from.
SourceTold ==
  task.step \in Prepareds \cup {"store"} /\ task.kind # "delete" =>
    /\ task.source = "input" <=> Given
    /\ Given => task.password = task.draft.given
    /\ task.source = "none" <=> task.password = NoPassword
    /\ task.source = "keychain" => WasKept
    /\ task.source = "session" => ~task.draft.new

\* It is still there until the stores are changed.
PasswordThere ==
  task.step \in Prepareds /\ task.kind # "delete" =>
    /\ task.source = "keychain" => task.password = keychain[Id]
    /\ task.source = "session" => task.password = session[Id]
    /\ task.source = "none" => session[Id] = NoPassword
    /\ task.source = "session" /\ WasKept =>
         keychain[Id] = NoPassword \/ Breaks("keychain")

FoundInv ==
  /\ TypeOK /\ DocIsFile /\ IdsUsed /\ SessionsUsed
  /\ SessionKnown /\ SourceTold /\ PasswordThere

\* The steps of the launcher, once more: what they leave of a task.
LEMMA LauncherKeeps ==
  ASSUME TypeOK, BeginForm \/ BeginSelected \/ Cancel \/ Handled \/ Restart
  PROVE  \/ /\ task'.step = "load" /\ task'.keep = task'.draft.save
            /\ task'.source = "none"
            /\ UNCHANGED stores
            /\ \/ task'.draft.given = NoPassword /\ UNCHANGED lastGiven
               \/ task'.draft.given = lastGiven' /\ lastGiven' = lastGiven + 1
         \/ /\ task'.step = "idle" /\ task'.source = "none"
            /\ task'.draft.given = NoPassword
            /\ UNCHANGED lastGiven
            /\ UNCHANGED session \/ session' = [id \in Ids |-> NoPassword]
         \/ /\ task' = [task EXCEPT !.cancelled = TRUE]
            /\ UNCHANGED <<stores, lastGiven>>
            /\ task.step \notin Replies
  <1>1. CASE BeginForm
    <2>1. PICK kind \in {"save", "test", "connect"}, id \in setting.ids,
               save \in BOOLEAN, gives \in BOOLEAN :
            /\ lastGiven' = IF gives THEN lastGiven + 1 ELSE lastGiven
            /\ task' = NewTask(kind, "load",
                         [id |-> id, new |-> ~Saved(id), save |-> save,
                          given |-> IF gives THEN lastGiven' ELSE NoPassword])
      BY <1>1 DEF BeginForm
    <2>2. /\ task'.step = "load" /\ task'.keep = save /\ task'.draft.save = save
          /\ task'.source = "none"
          /\ task'.draft.given = IF gives THEN lastGiven' ELSE NoPassword
      BY <2>1 DEF NewTask
    <2>3. QED
      BY <1>1, <2>1, <2>2 DEF BeginForm
  <1>2. CASE BeginSelected
    <2>1. PICK kind, id :
            task' = NewTask(kind, "load",
                      [id |-> id, new |-> FALSE, save |-> file[id] = "keep",
                       given |-> NoPassword])
      BY <1>2 DEF BeginSelected
    <2>2. /\ task'.step = "load" /\ task'.keep = task'.draft.save
          /\ task'.draft.given = NoPassword /\ task'.source = "none"
      BY <2>1 DEF NewTask
    <2>3. QED
      BY <1>2, <2>2 DEF BeginSelected
  <1>3. CASE Cancel
    BY <1>3 DEF Cancel, counters, Awaited
  <1>4. CASE Handled \/ Restart
    BY <1>4 DEF Handled, Restart, Idle, NewTask, AnyDraft, stores, counters
  <1>5. QED
    BY <1>1, <1>2, <1>3, <1>4

\* The steps that leave the stores alone, once more: what they leave of a task.
LEMMA QuietKeeps ==
  ASSUME TypeOK, Network \/ Commit \/ LookForOld \/ StoreFails
  PROVE  /\ UNCHANGED <<task.source, task.password, task.keep, task.cancelled, lastGiven>>
         /\ \/ task.step = "network" /\ task'.step = "ok" /\ task.kind = "test"
            \/ task.step = "network" /\ task'.step \in {"commit", "failed"}
            \/ task.step = "commit" /\ task'.step \in {"look", "failed"}
            \/ task.step = "look" /\ task'.step \in {"change", "failed"}
            \/ task.step = "store" /\ task'.step = "undo"
         /\ newest' = newest
  <1>1. task \in Tasks
    BY DEF TypeOK
  <1>2. ASSUME NEW step, Go(step)
        PROVE  /\ task'.step = step
               /\ UNCHANGED <<task.source, task.password, task.keep, task.cancelled>>
    BY <1>1, <1>2 DEF Go, Tasks
  <1>3. OnlyTask => UNCHANGED <<lastGiven, newest>>
    BY DEF OnlyTask, counters, history
  <1>4. CASE Network
    BY <1>2, <1>3, <1>4 DEF Network
  <1>5. CASE Commit
    BY <1>2, <1>5 DEF Commit, counters
  <1>6. CASE LookForOld
    <2>1. \/ task' = [task EXCEPT !.old = keychain[Id], !.step = "change"]
          \/ task' = [task EXCEPT !.unread = TRUE, !.step = "change"]
          \/ Go("failed") \/ Go("change")
      BY <1>6, Zenon DEF LookForOld
    <2>2. /\ task'.step \in {"change", "failed"}
          /\ UNCHANGED <<task.source, task.password, task.keep, task.cancelled>>
      BY <1>1, <1>2, <2>1 DEF Tasks
    <2>3. QED
      BY <1>3, <1>6, <2>2 DEF LookForOld
  <1>7. CASE StoreFails
    BY <1>2, <1>3, <1>7 DEF StoreFails
  <1>8. QED
    BY <1>4, <1>5, <1>6, <1>7

\* The five ends of a change of the secret.
LEMMA ChangeKeeps ==
  ASSUME TypeOK, ChangeSecret
  PROVE  /\ task.step = "change" /\ Same(task') /\ UNCHANGED <<file, history, lastGiven>>
         /\ UNCHANGED <<task.source, task.password, task.cancelled, task.old>>
         /\ \A id \in Ids \ {Id} : keychain'[id] = keychain[id] /\ session'[id] = session[id]
         /\ \/ /\ task'.step = "failed"
               /\ UNCHANGED <<keychain, session>>
            \/ /\ task'.step = "store" /\ task'.keep = task.keep
               /\ Writes /\ ~task.unread
               /\ keychain'[Id] = task.password /\ session'[Id] = NoPassword
            \/ /\ task'.step = "store" /\ task'.keep = FALSE
               /\ Writes /\ (task.unread \/ Breaks("keychain"))
               /\ UNCHANGED keychain /\ session'[Id] = task.password
            \/ /\ task'.step = "store" /\ task'.keep = task.keep
               /\ Deletes /\ keychain'[Id] = NoPassword
               /\ IF task.kind = "delete" THEN UNCHANGED session
                                          ELSE session'[Id] = task.password
            \/ /\ task'.step = "store" /\ task'.keep = task.keep
               /\ ~Writes /\ ~Deletes /\ UNCHANGED keychain
               /\ IF ~task.draft.save /\ task.source # "none"
                  THEN session'[Id] = task.password ELSE UNCHANGED session
  <1>1. /\ task \in Tasks /\ Id \in Ids /\ keychain \in [Ids -> Passwords]
        /\ session \in [Ids -> Passwords]
    BY DEF TypeOK, Tasks, Drafts, Id
  <1>0. task.step = "change" /\ UNCHANGED <<file, history, lastGiven>>
    BY DEF ChangeSecret, counters
  <1>2. CASE WriteSecret
    <2>1. CASE /\ ~task.unread /\ GoMutated
               /\ keychain' = [keychain EXCEPT ![Id] = task.password]
               /\ Remember(NoPassword)
      BY <1>0, <1>1, <1>2, <2>1 DEF WriteSecret, GoMutated, Remember, Tasks, Same
    <2>2. CASE (task.unread \/ Breaks("keychain")) /\ SessionOnly
      BY <1>0, <1>1, <1>2, <2>2 DEF WriteSecret, SessionOnly, Remember, Tasks, Same
    <2>3. QED
      BY <1>2, <2>1, <2>2 DEF WriteSecret
  <1>3. CASE RemoveSecret
    <2>1. CASE /\ GoMutated /\ KeepForSession
               /\ keychain' = [keychain EXCEPT ![Id] = NoPassword]
      BY <1>0, <1>1, <1>3, <2>1 DEF RemoveSecret, GoMutated, KeepForSession, Remember,
        Tasks, Same
    <2>2. CASE Go("failed") /\ UNCHANGED <<keychain, session>>
      BY <1>0, <1>1, <2>2 DEF Go, Tasks, Same
    <2>3. QED
      BY <1>3, <2>1, <2>2 DEF RemoveSecret
  <1>4. CASE LeaveSecret
    BY <1>1, <1>4 DEF ChangeSecret, LeaveSecret, Go, Remember, Tasks, Same, history,
      counters
  <1>5. QED
    BY <1>2, <1>3, <1>4 DEF ChangeSecret

\* The password is found where the profile says, or in the session.
LEMMA PrepareFinds ==
  ASSUME TypeOK, Prepare
  PROVE  /\ Same(task') /\ task.step = "secret" /\ OnlyTask
         /\ UNCHANGED <<task.keep, task.cancelled>>
         /\ \/ task'.step = "failed" /\ UNCHANGED <<task.source, task.password>>
            \/ /\ task'.step \in {"commit", "network", "ask"}
               /\ \/ /\ Given /\ task'.source = "input"
                     /\ task'.password = task.draft.given
                  \/ /\ ~Given /\ task.draft.new
                     /\ task'.source = "none" /\ task'.password = NoPassword
                  \/ /\ ~Given /\ WasKept /\ keychain[Id] # NoPassword
                     /\ task'.source = "keychain" /\ task'.password = keychain[Id]
                  \/ /\ ~Given /\ ~task.draft.new
                     /\ task'.source = IF session[Id] # NoPassword THEN "session" ELSE "none"
                     /\ task'.password = session[Id]
                     /\ WasKept => keychain[Id] = NoPassword \/ Breaks("keychain")
  <1>1. task \in Tasks
    BY DEF TypeOK
  <1>2. ASSUME NEW source, NEW password, Prepared(source, password)
        PROVE  /\ Same(task') /\ task'.step \in {"commit", "network", "ask"}
               /\ UNCHANGED <<task.keep, task.cancelled>>
               /\ task'.source = source /\ task'.password = password
    BY <1>1, <1>2 DEF Prepared, Tasks, Same
  <1>3. Go("failed") => /\ Same(task') /\ task'.step = "failed"
                        /\ UNCHANGED <<task.keep, task.cancelled, task.source, task.password>>
    BY <1>1 DEF Go, Tasks, Same
  <1>4. task.step = "secret" /\ OnlyTask
    BY DEF Prepare
  <1>5. CASE Given
    BY <1>2, <1>4, <1>5 DEF Prepare
  <1>6. CASE ~Given /\ task.draft.new
    BY <1>2, <1>4, <1>6 DEF Prepare
  <1>7. CASE ~Given /\ WasKept
    BY <1>2, <1>3, <1>4, <1>7 DEF Prepare, WasKept, Looks, FromSession
  <1>8. CASE ~Given /\ ~task.draft.new /\ ~WasKept
    BY <1>2, <1>4, <1>8 DEF Prepare, WasKept, FromSession
  <1>9. QED
    BY <1>5, <1>6, <1>7, <1>8 DEF WasKept

\* It holds in every setting, saving that fails late included.
LEMMA FoundInductive ==
  ASSUME FoundInv, [Next]_vars
  PROVE  FoundInv'
  <1> USE DEF Reading, Prepareds, Changed, Replies
  <1>1. /\ TypeOK /\ TypeOK' /\ task \in Tasks /\ Id \in Ids /\ NoPassword = 0
        /\ UNCHANGED setting
        /\ DocIsFile /\ IdsUsed /\ SessionsUsed /\ SessionKnown /\ SourceTold
        /\ PasswordThere
    BY TypeStep DEF FoundInv, TypeOK, Tasks, Drafts, Id, NoPassword, Next, vars
  <1>2. CASE BeginForm \/ BeginSelected \/ Cancel \/ Handled \/ Restart
    <2>1. UNCHANGED <<file, keychain, history>>
      BY <1>1, <1>2, LauncherEffect
    <2>2. IdsUsed'
      BY <1>1, <1>2, LauncherEffect DEF IdsUsed, Id, Saved, Same, history
    <2>3. CASE task'.step \in {"load", "idle"}
      <3>1. UNCHANGED session \/ session' = [id \in Ids |-> NoPassword]
        BY <1>1, <1>2, <2>3, LauncherKeeps DEF stores
      <3>2. SessionsUsed'
        BY <1>1, <2>1, <3>1 DEF SessionsUsed, history
      <3>3. task'.step = "load" => task'.keep = task'.draft.save
        <4>1. task' = [task EXCEPT !.cancelled = TRUE] =>
                task'.keep = task.keep /\ task'.draft = task.draft
                /\ task'.step = task.step
          BY <1>1 DEF Tasks
        <4>2. QED
          BY <1>1, <1>2, <2>3, <4>1, LauncherKeeps DEF SessionKnown
      <3>4. DocIsFile' /\ SessionKnown' /\ SourceTold' /\ PasswordThere'
        BY <2>3, <3>3 DEF DocIsFile, SessionKnown, SourceTold, PasswordThere
      <3>5. QED
        BY <1>1, <2>2, <3>2, <3>4 DEF FoundInv
    <2>4. CASE task'.step \notin {"load", "idle"}
      <3>1. task' = [task EXCEPT !.cancelled = TRUE] /\ UNCHANGED stores
        BY <1>1, <1>2, <2>4, LauncherKeeps
      <3>2. /\ Same(task') /\ UNCHANGED <<task.step, task.source, task.password, task.keep>>
            /\ task'.cancelled
        BY <1>1, <3>1 DEF Tasks, Same
      <3>3. SessionsUsed' /\ DocIsFile' /\ SessionKnown' /\ SourceTold'
        BY <1>1, <2>1, <3>1, <3>2 DEF SessionsUsed, DocIsFile, SessionKnown, SourceTold,
          Given, WasKept, Id, Same, stores, history
      <3>4. PasswordThere'
        BY <1>1, <3>1, <3>2 DEF PasswordThere, Breaks, WasKept, Id, Same, stores
      <3>5. QED
        BY <1>1, <2>2, <3>3, <3>4 DEF FoundInv
    <2>5. QED
      BY <2>3, <2>4
  <1>3. CASE Load \/ LoadFails
    <2>1. UNCHANGED task.keep
      BY <1>1, <1>3 DEF Load, LoadFails, Tasks
    <2>2. IdsUsed'
      BY <1>1, <1>3, LoadEffect DEF IdsUsed, Id, Saved, stores, history
    <2>3. DocIsFile' /\ SessionsUsed' /\ SessionKnown'
      BY <1>1, <1>3, <2>1, LoadEffect
      DEF DocIsFile, SessionsUsed, SessionKnown, Id, stores, history
    <2>4. SourceTold' /\ PasswordThere'
      <3>1. task'.step \in {"failed", "secret"} \/ task'.kind = "delete"
        BY <1>1, <1>3, LoadEffect
      <3>2. QED
        BY <3>1 DEF SourceTold, PasswordThere
    <2>5. QED
      BY <1>1, <2>2, <2>3, <2>4 DEF FoundInv
  <1>4. CASE Prepare
    <2>1. IdsUsed'
      BY <1>1, <1>4, QuietEffect DEF IdsUsed, Id, Saved, Same, stores
    <2>2. /\ Same(task') /\ task.step = "secret" /\ UNCHANGED <<stores, used>>
          /\ UNCHANGED <<task.keep, task.cancelled>>
          /\ task'.step \in {"commit", "network", "ask", "failed"}
      BY <1>1, <1>4, PrepareFinds DEF OnlyTask, history
    <2>3. DocIsFile' /\ SessionsUsed' /\ SessionKnown'
      BY <1>1, <2>2 DEF DocIsFile, SessionsUsed, SessionKnown, Id, Same, stores
    <2>4. CASE task'.step \in {"ask", "failed"}
      <3>1. SourceTold' /\ PasswordThere'
        BY <2>4 DEF SourceTold, PasswordThere
      <3>2. QED
        BY <1>1, <2>1, <2>3, <3>1 DEF FoundInv
    <2>5. CASE task'.step \in {"commit", "network"}
      <3>1. \/ /\ Given /\ task'.source = "input"
               /\ task'.password = task.draft.given
            \/ /\ ~Given /\ task.draft.new
               /\ task'.source = "none" /\ task'.password = NoPassword
            \/ /\ ~Given /\ WasKept /\ keychain[Id] # NoPassword
               /\ task'.source = "keychain" /\ task'.password = keychain[Id]
            \/ /\ ~Given /\ ~task.draft.new
               /\ task'.source = IF session[Id] # NoPassword THEN "session" ELSE "none"
               /\ task'.password = session[Id]
               /\ WasKept => keychain[Id] = NoPassword \/ Breaks("keychain")
        BY <1>1, <1>4, <2>5, PrepareFinds
      <3>2. (Given)' = Given /\ (WasKept)' = WasKept /\ (Id)' = Id
              /\ Breaks("keychain")' = Breaks("keychain")
        BY <1>1, <2>2 DEF Given, WasKept, Id, Same, Breaks
      <3>3. SourceTold'
        BY <2>2, <3>1, <3>2 DEF SourceTold, Given, WasKept, Same
      <3>4. task.draft.new => session[Id] = NoPassword
        BY <1>1, <2>2 DEF IdsUsed, SessionsUsed
      <3>5. PasswordThere'
        BY <2>2, <3>1, <3>2, <3>4 DEF PasswordThere, Given, stores
      <3>6. QED
        BY <1>1, <2>1, <2>3, <3>3, <3>5 DEF FoundInv
    <2>6. QED
      BY <2>2, <2>4, <2>5
  <1>5. CASE Network \/ Commit \/ LookForOld \/ StoreFails
    <2>1. IdsUsed'
      BY <1>1, <1>5, QuietEffect DEF IdsUsed, Id, Saved, Same, stores
    <2>2. /\ Same(task') /\ UNCHANGED stores
          /\ UNCHANGED <<task.source, task.password, task.keep, task.cancelled>>
          /\ \/ task.step = "network" /\ task'.step \in {"ok", "commit", "failed"}
             \/ task.step = "commit" /\ task'.step \in {"look", "failed"}
             \/ task.step = "look" /\ task'.step \in {"change", "failed"}
             \/ task.step = "store" /\ task'.step = "undo"
      BY <1>1, <1>5, QuietEffect, QuietKeeps
    <2>3. used \subseteq used'
      BY <1>1, <1>5, QuietEffect
    <2>4. DocIsFile' /\ SessionsUsed'
      BY <1>1, <2>2, <2>3 DEF DocIsFile, SessionsUsed, Same, stores
    <2>5. SessionKnown' /\ SourceTold'
      BY <1>1, <2>2 DEF SessionKnown, SourceTold, Given, WasKept, Id, Same, stores
    <2>6. PasswordThere'
      BY <1>1, <2>2 DEF PasswordThere, WasKept, Id, Same, Breaks, stores
    <2>7. QED
      BY <1>1, <2>1, <2>4, <2>5, <2>6 DEF FoundInv
  <1>6. CASE ChangeSecret
    <2>1. IdsUsed'
      BY <1>1, <1>6, ChangeEffect DEF IdsUsed, Id, Saved, Same, history
    <2>2. /\ task.step = "change" /\ Same(task') /\ UNCHANGED <<file, used>>
          /\ UNCHANGED <<task.source, task.password>>
          /\ task'.step \in {"store", "failed"}
          /\ \A id \in Ids \ {Id} : session'[id] = session[id]
      BY <1>1, <1>6, ChangeKeeps DEF history
    <2>3. DocIsFile' /\ SourceTold' /\ PasswordThere'
      BY <1>1, <2>2 DEF DocIsFile, SourceTold, PasswordThere, Given, WasKept, Id, Same
    <2>4. SessionsUsed'
      BY <1>1, <2>2 DEF SessionsUsed, IdsUsed
    <2>5. SessionKnown'
      <3>1. task.kind = "delete" /\ task'.step = "store" => UNCHANGED session
        BY <1>1, <1>6, ChangeKeeps DEF Writes, Deletes
      <3>2. QED
        BY <1>1, <2>2, <3>1 DEF SessionKnown, Id, Same
    <2>6. QED
      BY <1>1, <2>1, <2>3, <2>4, <2>5 DEF FoundInv
  <1>7. CASE Store \/ StoreFailsLate
    <2>1. /\ file' = Replaced /\ task.step = "store" /\ task'.step \in {"ok", "undo"}
          /\ UNCHANGED <<keychain, used>> /\ Same(task')
          /\ \/ session' = session
             \/ task'.step = "ok" /\ session' = [session EXCEPT ![Id] = NoPassword]
      <3>1. CASE Store
        <4>1. /\ task'.step = "ok"
              /\ session' = session \/ session' = [session EXCEPT ![Id] = NoPassword]
          BY <1>1, <3>1 DEF Store, Go, Remember, Tasks, TypeOK
        <4>2. QED
          BY <1>1, <3>1, <4>1, StoreEffect
      <3>2. CASE StoreFailsLate
        <4>1. task'.step = "undo" /\ session' = session
          BY <1>1, <3>2 DEF StoreFailsLate, Go, Tasks, TypeOK
        <4>2. QED
          BY <1>1, <3>2, <4>1, StoreEffect
      <3>3. QED
        BY <1>7, <3>1, <3>2
    <2>2. \A id \in Ids \ {Id} : file'[id] = file[id]
      BY <1>1, <2>1 DEF Replaced, Documents, TypeOK, DocIsFile
    <2>3. IdsUsed'
      BY <1>1, <2>1, <2>2 DEF IdsUsed, Id, Same
    <2>4. SessionsUsed'
      BY <1>1, <2>1 DEF SessionsUsed, IdsUsed, TypeOK
    <2>5. DocIsFile' /\ SourceTold' /\ PasswordThere'
      BY <2>1 DEF DocIsFile, SourceTold, PasswordThere
    <2>6. SessionKnown'
      BY <1>1, <2>1 DEF SessionKnown, Id, Same
    <2>7. QED
      BY <1>1, <2>3, <2>4, <2>5, <2>6 DEF FoundInv
  <1>8. CASE Undo
    <2>1. /\ Same(task') /\ task.step = "undo" /\ task'.step = "failed"
          /\ UNCHANGED <<file, used>>
          /\ \A id \in Ids \ {Id} : keychain'[id] = keychain[id]
      BY <1>1, <1>8, UndoEffect DEF history
    <2>2. \A id \in Ids \ {Id} : session'[id] = session[id]
      BY <1>1, <1>8 DEF Undo, Remember, TypeOK
    <2>3. IdsUsed' /\ SessionsUsed'
      BY <1>1, <2>1, <2>2 DEF IdsUsed, SessionsUsed, Id, Saved, Same
    <2>4. DocIsFile' /\ SourceTold' /\ PasswordThere' /\ SessionKnown'
      BY <2>1 DEF DocIsFile, SourceTold, PasswordThere, SessionKnown
    <2>5. QED
      BY <1>1, <2>3, <2>4 DEF FoundInv
  <1>9. CASE UNCHANGED vars
    <2>1. UNCHANGED <<task, file, keychain, session, used>>
      BY <1>9 DEF vars, stores, history
    <2>2. QED
      BY <1>1, <2>1 DEF FoundInv, DocIsFile, IdsUsed, SessionsUsed, SessionKnown,
        SourceTold, PasswordThere, Id, Saved, Given, WasKept, Breaks
  <1>10. QED
    BY <1>2, <1>3, <1>4, <1>5, <1>6, <1>7, <1>8, <1>9 DEF Next, Serve

(***************************************************************************)
(* A password that a save stored is the one that is found the next time.   *)
(***************************************************************************)

\* A profile that keeps its password has none in the session, except between
\* the change of the secret and the end of the command, as long as the file is
\* replaced only by a store that succeeds.
KeptNotInSession ==
  /\ \A id \in Ids : file[id] = "keep" =>
       session[id] = NoPassword \/ (id = Id /\ task.step \in Changed)
  /\ task.step \in Changed /\ file[Id] = "keep" => task.session0 = NoPassword
  /\ task.step = "store" /\ task.kind # "delete" /\ task.keep =>
       session[Id] = NoPassword

KeptInv == ~FileFailsLate => KeptNotInSession

\* Once the secret is changed, the document that is about to be stored leads to
\* the password.
StoreWillTell ==
  /\ task.step = "store" /\ task.kind # "delete"
  /\ task.source # "none" /\ ~task.cancelled
  => task.password = IF task.keep /\ keychain[Id] # NoPassword THEN keychain[Id]
                                                               ELSE session[Id]

RecallInv == FoundInv /\ KeptInv /\ (StoreWillTell /\ SavedPasswordRecalled)

\* A step keeps the session without a password for a profile that keeps its own.
LEMMA KeptInductive ==
  ASSUME FoundInv, KeptInv, [Next]_vars
  PROVE  KeptInv'
  <1> USE DEF Reading, Prepareds, Changed, Replies
  <1>1. /\ TypeOK /\ TypeOK' /\ task \in Tasks /\ Id \in Ids /\ NoPassword = 0
        /\ DocIsFile /\ SessionKnown /\ SourceTold /\ PasswordThere
    BY TypeStep DEF FoundInv, TypeOK, Tasks, Drafts, Id, NoPassword
  <1> SUFFICES ASSUME ~FileFailsLate, KeptNotInSession PROVE KeptNotInSession'
    BY SettingKept DEF KeptInv, FileFailsLate
  <1>2. CASE BeginForm \/ BeginSelected \/ Cancel \/ Handled \/ Restart
    <2>1. UNCHANGED file
      BY <1>1, <1>2, LauncherEffect
    <2>2. CASE task'.step \in {"load", "idle"}
      <3>1. UNCHANGED session \/ session' = [id \in Ids |-> NoPassword]
        BY <1>1, <1>2, <2>2, LauncherKeeps DEF stores
      <3>2. task.step \notin Changed \/ session' = [id \in Ids |-> NoPassword]
        BY <1>1, <1>2, <2>2 DEF BeginForm, BeginSelected, Cancel, Handled, Restart,
          Idle, NewTask, Tasks
      <3>3. QED
        BY <2>1, <2>2, <3>1, <3>2 DEF KeptNotInSession
    <2>3. CASE task'.step \notin {"load", "idle"}
      <3>1. task' = [task EXCEPT !.cancelled = TRUE] /\ UNCHANGED stores
        BY <1>1, <1>2, <2>3, LauncherKeeps
      <3>2. Same(task') /\ UNCHANGED <<task.step, task.keep>>
        BY <1>1, <3>1 DEF Tasks, Same
      <3>3. QED
        BY <3>1, <3>2 DEF KeptNotInSession, Id, Same, stores
    <2>4. QED
      BY <2>2, <2>3
  <1>3. CASE Load \/ LoadFails
    BY <1>1, <1>3, LoadEffect DEF KeptNotInSession, Id, stores
  <1>4. CASE Prepare
    BY <1>1, <1>4, QuietEffect DEF KeptNotInSession, Id, Same, stores
  <1>5. CASE Network \/ Commit \/ LookForOld \/ StoreFails
    <2>1. /\ Same(task') /\ UNCHANGED stores /\ UNCHANGED task.keep
          /\ \/ task.step = "store" /\ task'.step = "undo"
             \/ task.step \notin Changed /\ task'.step \notin Changed
      BY <1>1, <1>5, QuietEffect, QuietKeeps
    <2>2. QED
      BY <1>1, <2>1 DEF KeptNotInSession, Id, Same, stores
  <1>6. CASE ChangeSecret
    <2>1. /\ task.step = "change" /\ Same(task') /\ UNCHANGED file
          /\ task'.step \in {"store", "failed"}
          /\ \A id \in Ids \ {Id} : session'[id] = session[id]
          /\ task'.step = "failed" => UNCHANGED session
      BY <1>1, <1>6, ChangeKeeps
    <2>2. file[Id] = "keep" => session[Id] = NoPassword /\ task.session0 = NoPassword
      BY <1>1, <2>1 DEF KeptNotInSession, SessionKnown
    <2>3. task'.step = "store" /\ task.kind # "delete" /\ task'.keep =>
            session'[Id] = NoPassword
      <3> SUFFICES ASSUME task'.step = "store", task.kind # "delete", task'.keep
                   PROVE  session'[Id] = NoPassword
        OBVIOUS
      <3>1. task.keep = task.draft.save
        BY <1>1, <2>1 DEF SessionKnown
      <3>2. \/ session'[Id] = NoPassword
            \/ ~Writes /\ task.draft.save /\ UNCHANGED session
        <4>1. task'.keep = task.keep \/ ~task'.keep
          BY <1>1, <1>6, ChangeKeeps
        <4>2. Deletes => ~task.draft.save
          BY DEF Deletes
        <4>3. QED
          BY <1>1, <1>6, <3>1, <4>1, <4>2, ChangeKeeps
      <3>3. ASSUME ~Writes, task.draft.save PROVE session[Id] = NoPassword
        <4>1. ~Given /\ (WasKept \/ task.source # "session")
          BY <3>3 DEF Writes
        <4>2. WasKept => file[Id] = "keep"
          BY <1>1, <2>1 DEF DocIsFile, WasKept
        <4>3. ~WasKept => task.source = "none"
          <5>1. task.source # "input" /\ (task.source = "keychain" => WasKept)
            BY <1>1, <2>1, <4>1 DEF SourceTold
          <5>2. QED
            BY <1>1, <4>1, <5>1 DEF Tasks, Sources
        <4>4. task.source = "none" => session[Id] = NoPassword
          BY <1>1, <2>1 DEF PasswordThere
        <4>5. QED
          BY <2>2, <4>2, <4>3, <4>4
      <3>4. QED
        BY <3>2, <3>3
    <2>4. QED
      BY <1>1, <2>1, <2>2, <2>3 DEF KeptNotInSession, Id, Same
  <1>7. CASE Store \/ StoreFailsLate
    <2>1. Store
      BY <1>7 DEF StoreFailsLate, FileFailsLate
    <2>2. /\ file' = Replaced /\ task.step = "store" /\ Same(task')
      BY <1>1, <1>7, StoreEffect
    <2>3. task'.step = "ok" /\ (IF task.kind = "delete" THEN Remember(NoPassword) ELSE UNCHANGED session)
      BY <1>1, <2>1 DEF Store, Go, Tasks
    <2>4. /\ \A id \in Ids \ {Id} : file'[id] = file[id] /\ session'[id] = session[id]
          /\ file'[Id] = "keep" => session'[Id] = NoPassword
      <3>1. /\ \A id \in Ids \ {Id} : file'[id] = file[id]
            /\ file'[Id] = IF task.kind = "delete" THEN "absent"
                           ELSE IF task.keep THEN "keep" ELSE "forget"
        BY <1>1, <2>2 DEF Replaced, Documents, TypeOK, DocIsFile
      <3>2. /\ \A id \in Ids \ {Id} : session'[id] = session[id]
            /\ task.kind # "delete" => session'[Id] = session[Id]
        BY <1>1, <2>3 DEF Remember, TypeOK
      <3>3. QED
        BY <2>2, <3>1, <3>2 DEF KeptNotInSession
    <2>5. QED
      BY <1>1, <2>2, <2>3, <2>4 DEF KeptNotInSession, Same
  <1>8. CASE Undo
    <2>1. /\ Same(task') /\ task.step = "undo" /\ task'.step = "failed"
          /\ UNCHANGED file
          /\ IF task.kind = "delete" THEN UNCHANGED session
                                     ELSE session'[Id] = task.session0
      BY <1>1, <1>8, UndoEffect
    <2>2. \A id \in Ids \ {Id} : session'[id] = session[id]
      BY <1>1, <1>8 DEF Undo, Remember, TypeOK
    <2>3. session'[Id] = task.session0
      BY <1>1, <2>1 DEF SessionKnown
    <2>4. QED
      BY <1>1, <2>1, <2>2, <2>3 DEF KeptNotInSession, Id, Same
  <1>9. CASE UNCHANGED vars
    BY <1>9 DEF KeptNotInSession, Id, vars, stores
  <1>10. QED
    BY <1>2, <1>3, <1>4, <1>5, <1>6, <1>7, <1>8, <1>9 DEF Next, Serve

\* The change of the secret puts the password where the document will say.
LEMMA ChangeTells ==
  ASSUME FoundInv, KeptInv, ChangeSecret, UNCHANGED setting,
         ~({"late", "keychain"} \subseteq setting.faults)
  PROVE  StoreWillTell'
  <1> USE DEF Reading, Prepareds, Changed
  <1>1. /\ TypeOK /\ task \in Tasks /\ Id \in Ids /\ NoPassword = 0
        /\ DocIsFile /\ SessionKnown /\ SourceTold /\ PasswordThere
    BY DEF FoundInv, TypeOK, Tasks, Drafts, Id, NoPassword
  <1>2. /\ task.step = "change" /\ Same(task')
        /\ UNCHANGED <<task.source, task.password, task.cancelled>>
    BY <1>1, ChangeKeeps
  <1> SUFFICES ASSUME task'.step = "store", task.kind # "delete",
                      task.source # "none", ~task.cancelled
               PROVE  task.password = IF task'.keep /\ keychain'[Id] # NoPassword
                                      THEN keychain'[Id] ELSE session'[Id]
    BY <1>2 DEF StoreWillTell, Id, Same
  <1>3. task.password # NoPassword /\ task.keep = task.draft.save
    BY <1>1, <1>2 DEF SourceTold, SessionKnown
  <1>4. CASE Writes
    <2>1. task.draft.save /\ ~Deletes
      BY <1>4 DEF Writes, Deletes
    <2>2. \/ keychain'[Id] = task.password /\ task'.keep
          \/ task'.keep = FALSE /\ session'[Id] = task.password
      BY <1>1, <1>3, <1>4, <2>1, ChangeKeeps
    <2>3. QED
      BY <1>3, <2>2
  <1>5. CASE Deletes
    <2>1. ~task.draft.save /\ ~Writes
      BY <1>5 DEF Writes, Deletes
    <2>2. task'.keep = task.keep /\ session'[Id] = task.password
      BY <1>1, <1>5, <2>1, ChangeKeeps
    <2>3. QED
      BY <1>3, <2>1, <2>2
  <1>6. CASE ~Writes /\ ~Deletes
    <2>1. /\ task'.keep = task.keep /\ UNCHANGED keychain
          /\ IF ~task.draft.save THEN session'[Id] = task.password ELSE UNCHANGED session
      BY <1>1, <1>6, ChangeKeeps
    <2>2. CASE ~task.draft.save
      BY <1>3, <2>1, <2>2
    <2>3. CASE task.draft.save
      <3>1. /\ ~Given /\ (WasKept \/ task.source # "session")
            /\ task.source \in {"keychain", "session"}
        BY <1>1, <1>2, <1>6, <2>3 DEF Writes, SourceTold, Tasks, Sources
      <3>2. CASE task.source = "keychain"
        BY <1>1, <1>2, <1>3, <2>1, <2>3, <3>2 DEF PasswordThere
      <3>3. CASE task.source = "session"
        <4>1. WasKept /\ task.password = session[Id]
          BY <1>1, <1>2, <3>1, <3>3 DEF PasswordThere
        <4>2. keychain[Id] = NoPassword
          <5>1. FileFailsLate
            <6>1. file[Id] = "keep"
              BY <1>1, <1>2, <4>1 DEF DocIsFile, WasKept
            <6>2. KeptNotInSession => session[Id] = NoPassword
              BY <1>1, <1>2, <6>1 DEF KeptNotInSession
            <6>3. QED
              BY <1>3, <4>1, <6>2 DEF KeptInv
          <5>2. ~Breaks("keychain")
            BY <5>1 DEF Breaks, FileFailsLate
          <5>3. QED
            BY <1>1, <1>2, <3>3, <4>1, <5>2 DEF PasswordThere
        <4>3. QED
          BY <2>1, <4>1, <4>2
      <3>4. QED
        BY <3>1, <3>2, <3>3
    <2>4. QED
      BY <2>2, <2>3
  <1>7. QED
    BY <1>4, <1>5, <1>6

\* A save that has begun, and that does not fail late while the keychain cannot
\* be read, leaves the password where it will be found.
LEMMA TellsInductive ==
  ASSUME RecallInv, [Next]_vars,
         ~({"late", "keychain"} \subseteq setting.faults)
  PROVE  StoreWillTell' /\ SavedPasswordRecalled'
  <1> USE DEF Replies, Changed
  <1>1. /\ TypeOK /\ TypeOK' /\ task \in Tasks /\ Id \in Ids /\ UNCHANGED setting
        /\ FoundInv /\ KeptInv /\ StoreWillTell /\ SavedPasswordRecalled
    BY TypeStep, SettingKept DEF RecallInv, FoundInv, TypeOK, Tasks, Drafts, Id
  <1>2. CASE BeginForm \/ BeginSelected \/ Cancel \/ Handled \/ Restart
    <2>1. task'.step \in {"load", "idle"} \/ (task'.cancelled /\ task'.step \notin Replies)
      BY <1>1, <1>2, LauncherKeeps DEF Tasks
    <2>2. QED
      BY <2>1 DEF StoreWillTell, SavedPasswordRecalled
  <1>3. CASE Load \/ LoadFails
    <2>1. task'.step \in {"secret", "look", "failed"}
      BY <1>1, <1>3, LoadEffect
    <2>2. QED
      BY <2>1 DEF StoreWillTell, SavedPasswordRecalled
  <1>4. CASE Prepare
    <2>1. task'.step \in {"commit", "network", "ask", "failed"}
      BY <1>1, <1>4, PrepareFinds
    <2>2. QED
      BY <2>1 DEF StoreWillTell, SavedPasswordRecalled
  <1>5. CASE Network \/ Commit \/ LookForOld \/ StoreFails
    <2>1. /\ Same(task')
          /\ \/ task'.step = "ok" /\ task.kind = "test"
             \/ task'.step \in {"commit", "failed", "look", "change", "undo"}
      BY <1>1, <1>5, QuietEffect, QuietKeeps
    <2>2. QED
      BY <2>1 DEF StoreWillTell, SavedPasswordRecalled, Same
  <1>6. CASE ChangeSecret
    <2>1. task'.step \in {"store", "failed"}
      BY <1>1, <1>6, ChangeKeeps
    <2>2. QED
      BY <1>1, <1>6, <2>1, ChangeTells DEF SavedPasswordRecalled
  <1>7. CASE Store
    <2>1. /\ task.step = "store" /\ ~task.cancelled /\ task'.step = "ok"
          /\ Same(task') /\ UNCHANGED <<task.source, task.password, keychain>>
          /\ file' = Replaced
          /\ task.kind # "delete" => UNCHANGED session
      BY <1>1, <1>7 DEF Store, Works, Rename, Go, Tasks, Same
    <2>2. task.kind # "delete" => file'[Id] = IF task.keep THEN "keep" ELSE "forget"
      BY <1>1, <2>1 DEF Replaced, Tasks, Documents
    <2>3. StoreWillTell'
      BY <2>1 DEF StoreWillTell
    <2>4. SavedPasswordRecalled'
      <3> SUFFICES ASSUME task.kind # "delete", task.source # "none"
                   PROVE  Recall(Id)' = task.password
        BY <2>1 DEF SavedPasswordRecalled, Same
      <3>1. Recall(Id)' = IF file'[Id] = "keep" /\ keychain[Id] # NoPassword
                          THEN keychain[Id] ELSE session[Id]
        BY <2>1 DEF Recall, Id, Same
      <3>2. QED
        BY <1>1, <2>1, <2>2, <3>1 DEF StoreWillTell
    <2>5. QED
      BY <2>3, <2>4
  <1>8. CASE StoreFailsLate \/ Undo
    <2>1. task'.step \in {"undo", "failed"}
      BY <1>1, <1>8 DEF StoreFailsLate, Undo, Go, Tasks
    <2>2. QED
      BY <2>1 DEF StoreWillTell, SavedPasswordRecalled
  <1>9. CASE UNCHANGED vars
    BY <1>1, <1>9 DEF StoreWillTell, SavedPasswordRecalled, Recall, Id, vars, stores
  <1>10. QED
    BY <1>2, <1>3, <1>4, <1>5, <1>6, <1>7, <1>8, <1>9 DEF Next, Serve

\* The password that was entered, or found, when a profile was saved is the one
\* that is found the next time, wherever the save had to put it (Commit), if not
\* both a save can fail late and the keychain can be out of reach.
THEOREM Recalled == Spec => []SavedPasswordRecalled
  <1> DEFINE Found == ~({"late", "keychain"} \subseteq setting.faults)
             Inv == FoundInv /\ KeptInv /\ (Found => RecallInv)
  <1>1. Init => Inv
    <2>1. Init => TypeOK /\ task.step = "idle" /\ ~task.draft.new
      BY TypeInit DEF Init, Idle, NewTask, AnyDraft
    <2>2. Init => FoundInv
      BY <2>1 DEF Init, FoundInv, DocIsFile, IdsUsed, SessionsUsed, SessionKnown,
        SourceTold, PasswordThere, Reading, Prepareds, Changed
    <2>3. Init => KeptInv
      BY <2>1 DEF Init, KeptInv, KeptNotInSession, Changed
    <2>4. QED
      BY <2>1, <2>2, <2>3 DEF RecallInv, StoreWillTell, SavedPasswordRecalled
  <1>2. Inv /\ [Next]_vars => Inv'
    BY FoundInductive, KeptInductive, TellsInductive, SettingKept DEF RecallInv
  <1>3. Inv => SavedPasswordRecalled
    BY DEF RecallInv, SavedPasswordRecalled
  <1>4. QED
    BY <1>1, <1>2, <1>3, PTL DEF Spec

(***************************************************************************)
(* A password that has been replaced is not used again.                    *)
(***************************************************************************)
KeychainFails == "keychain" \in setting.faults

\* Not one that a save of the profile has replaced.
Fresh(password, id) == password = NoPassword \/ newest[id] <= password

FreshStores ==
  /\ \A id \in Ids : /\ newest[id] <= lastGiven
                     /\ Fresh(keychain[id], id) /\ Fresh(session[id], id)
  /\ task.draft.given \in {NoPassword, lastGiven}

\* The secrets that the task holds, and may put back, and the old one's removal
\* before the new one is the newest.
FreshTask ==
  /\ task.step # "ok" =>
       Fresh(task.password, Id) /\ Fresh(task.old, Id) /\ Fresh(task.session0, Id)
  /\ task.unread => task.cancelled
  /\ task.step \in {"look", "change"} /\ task.draft.new => keychain[Id] = NoPassword
  /\ task.step = "store" /\ task.kind # "delete" /\ Given /\ ~task.cancelled =>
       /\ keychain[Id] \in {NoPassword, task.draft.given}
       /\ session[Id] \in {NoPassword, task.draft.given}

FreshInv == FreshStores /\ FreshTask /\ ReplacedPasswordUnused

\* A command begins with nothing, and leaves nothing.
LEMMA LauncherBlank ==
  ASSUME TypeOK, BeginForm \/ BeginSelected \/ Handled \/ Restart
  PROVE  /\ task'.step \in {"load", "idle"} /\ task'.source = "none"
         /\ task'.password = NoPassword /\ task'.old = NoPassword
         /\ task'.session0 = NoPassword /\ ~task'.unread
         /\ UNCHANGED <<keychain, newest>>
         /\ UNCHANGED session \/ session' = [id \in Ids |-> NoPassword]
         /\ task'.draft.given \in {NoPassword, lastGiven'}
         /\ lastGiven' \in {lastGiven, lastGiven + 1}
         /\ task'.draft.id \in Ids
  <1>1. CASE BeginForm
    <2>1. PICK kind \in {"save", "test", "connect"}, id \in setting.ids,
               save \in BOOLEAN, gives \in BOOLEAN :
            /\ lastGiven' = IF gives THEN lastGiven + 1 ELSE lastGiven
            /\ task' = NewTask(kind, "load",
                         [id |-> id, new |-> ~Saved(id), save |-> save,
                          given |-> IF gives THEN lastGiven' ELSE NoPassword])
      BY <1>1 DEF BeginForm
    <2>2. /\ task'.step = "load" /\ task'.draft.id = id
          /\ task'.draft.given = IF gives THEN lastGiven' ELSE NoPassword
          /\ task'.source = "none" /\ task'.password = NoPassword
          /\ task'.old = NoPassword /\ task'.session0 = NoPassword /\ ~task'.unread
      BY <2>1 DEF NewTask
    <2>3. QED
      BY <1>1, <2>1, <2>2, ConstantsAssumption DEF BeginForm, TypeOK, stores, history
  <1>2. CASE BeginSelected
    <2>1. PICK kind \in {"test", "connect", "delete"}, id \in setting.ids :
            task' = NewTask(kind, "load",
                      [id |-> id, new |-> FALSE, save |-> file[id] = "keep",
                       given |-> NoPassword])
      BY <1>2 DEF BeginSelected
    <2>2. /\ task'.step = "load" /\ task'.draft.id = id
          /\ task'.draft.given = NoPassword
          /\ task'.source = "none" /\ task'.password = NoPassword
          /\ task'.old = NoPassword /\ task'.session0 = NoPassword /\ ~task'.unread
      BY <2>1 DEF NewTask
    <2>3. id \in Ids /\ UNCHANGED <<stores, history, lastGiven>>
      BY <1>2, ConstantsAssumption DEF BeginSelected, TypeOK
    <2>4. QED
      BY <2>2, <2>3 DEF stores, history
  <1>3. CASE Handled \/ Restart
    <2>1. task' = Idle /\ UNCHANGED <<keychain, newest, lastGiven>>
          /\ (UNCHANGED session \/ session' = [id \in Ids |-> NoPassword])
      BY <1>3 DEF Handled, Restart, stores, counters, history
    <2>2. AnyDraft.id \in Ids
      BY ConstantsAssumption DEF AnyDraft
    <2>3. QED
      BY <2>1, <2>2 DEF Idle, NewTask, AnyDraft
  <1>4. QED
    BY <1>1, <1>2, <1>3

\* While the keychain works, no password older than the newest one is held.
LEMMA FreshInductive ==
  ASSUME ~KeychainFails, FoundInv, FreshInv, [Next]_vars
  PROVE  FreshInv'
  <1> USE DEF Reading, Prepareds, Changed, Replies, Fresh, NoPassword
  <1>1. /\ TypeOK /\ TypeOK' /\ task \in Tasks /\ Id \in Ids /\ UNCHANGED setting
        /\ IdsUsed /\ SessionKnown /\ SourceTold /\ PasswordThere
        /\ FreshStores /\ FreshTask /\ ReplacedPasswordUnused
    BY TypeStep, SettingKept DEF FoundInv, FreshInv, TypeOK, Tasks, Drafts, Id
  <1>2. /\ lastGiven \in Int /\ \A id \in Ids : newest[id] \in Nat
        /\ \A id \in Ids : keychain[id] \in Nat /\ session[id] \in Nat
        /\ task.password \in Nat /\ task.old \in Nat /\ task.session0 \in Nat
        /\ task.draft.given \in Nat
    BY <1>1, ConstantsAssumption DEF TypeOK, Passwords, Tasks, Drafts
  <1>3. \A p : Breaks(p) /\ p = "keychain" => task.cancelled
    BY DEF Breaks, KeychainFails
  <1>4. CASE BeginForm \/ BeginSelected \/ Handled \/ Restart
    <2>1. FreshStores'
      BY <1>1, <1>2, <1>4, LauncherBlank DEF FreshStores
    <2>2. FreshTask'
      BY <1>1, <1>4, LauncherBlank DEF FreshTask
    <2>3. ReplacedPasswordUnused'
      BY <1>1, <1>4, LauncherBlank DEF ReplacedPasswordUnused
    <2>4. QED
      BY <2>1, <2>2, <2>3 DEF FreshInv
  <1>5. CASE Cancel
    <2>1. /\ Same(task') /\ UNCHANGED <<task.step, task.source, task.password, task.old>>
          /\ task'.cancelled /\ UNCHANGED <<keychain, session, newest, lastGiven>>
      BY <1>1, <1>5 DEF Cancel, Tasks, Same, stores, counters, history
    <2>2. QED
      BY <1>1, <2>1 DEF FreshInv, FreshStores, FreshTask, ReplacedPasswordUnused,
        Given, Id, Same
  <1>6. CASE Load \/ LoadFails
    <2>1. /\ UNCHANGED <<task.source, task.password, task.old, task.unread, task.draft>>
          /\ task'.session0 = session[Id]
          /\ UNCHANGED <<task.cancelled, keychain, session, newest, lastGiven>>
          /\ task.step = "load" /\ task'.step \in {"look", "secret", "failed"}
          /\ task'.step = "look" => task.kind = "delete"
      <3>1. UNCHANGED <<stores, lastGiven, newest>>
        BY <1>6 DEF Load, LoadFails, OnlyTask, counters, history
      <3>2. CASE Load
        BY <1>1, <3>1, <3>2 DEF Load, Tasks, stores
      <3>3. CASE LoadFails
        BY <1>1, <3>1, <3>3 DEF LoadFails, Tasks, stores
      <3>4. QED
        BY <1>6, <3>2, <3>3
    <2>2. FreshStores'
      BY <1>1, <2>1 DEF FreshStores
    <2>3. FreshTask'
      BY <1>1, <2>1 DEF FreshStores, FreshTask, Id, IdsUsed
    <2>4. ReplacedPasswordUnused'
      BY <1>1, <2>1 DEF ReplacedPasswordUnused, Id
    <2>5. QED
      BY <2>2, <2>3, <2>4 DEF FreshInv
  <1>7. CASE Prepare
    <2>1. /\ Same(task') /\ task.step = "secret"
          /\ UNCHANGED <<task.old, task.unread, task.cancelled>>
          /\ UNCHANGED <<keychain, session, newest, lastGiven>>
          /\ task'.step \in {"commit", "network", "ask", "failed"}
      <3>1. task.step = "secret" /\ UNCHANGED task.cancelled /\ OnlyTask
              /\ Same(task')
        BY <1>1, <1>7, PrepareFinds
      <3>2. UNCHANGED <<task.old, task.unread>>
              /\ task'.step \in {"commit", "network", "ask", "failed"}
        BY <1>1, <1>7, <3>1, QuietEffect
      <3>3. QED
        BY <3>1, <3>2 DEF OnlyTask, stores, counters, history
    <2>2. \/ UNCHANGED <<task.source, task.password>>
          \/ task'.source = "input" /\ task'.password = task.draft.given
          \/ task'.source = "none" /\ task'.password = NoPassword
          \/ task'.source = "keychain" /\ keychain[Id] # NoPassword
               /\ task'.password = keychain[Id]
          \/ task'.source = "session" /\ session[Id] # NoPassword
               /\ task'.password = session[Id]
      BY <1>1, <1>7, PrepareFinds
    <2>3. FreshStores'
      BY <1>1, <2>1 DEF FreshStores, Same
    <2>4. FreshTask'
      <3>1. Fresh(task'.password, Id)
        BY <1>1, <1>2, <2>1, <2>2 DEF FreshStores, FreshTask
      <3>2. QED
        BY <1>1, <2>1, <3>1 DEF FreshTask, Id, Same
    <2>5. ReplacedPasswordUnused'
      BY <1>1, <1>2, <2>1, <2>2 DEF FreshStores, ReplacedPasswordUnused, Id, Same
    <2>6. QED
      BY <2>3, <2>4, <2>5 DEF FreshInv
  <1>8. CASE Network \/ Commit \/ LookForOld \/ StoreFails
    <2>1. /\ Same(task') /\ UNCHANGED <<keychain, session>>
          /\ UNCHANGED <<task.source, task.password, task.cancelled, lastGiven, newest>>
          /\ \/ task.step = "network" /\ task'.step \in {"ok", "commit", "failed"}
             \/ task.step = "commit" /\ task'.step \in {"look", "failed"}
             \/ task.step = "look" /\ task'.step \in {"change", "failed"}
             \/ task.step = "store" /\ task'.step = "undo"
      BY <1>1, <1>8, QuietEffect, QuietKeeps DEF stores
    <2>2. /\ UNCHANGED task.old \/ (task.step = "look" /\ task'.old = keychain[Id])
          /\ task'.unread => task.unread \/ task.cancelled
      <3>1. CASE LookForOld
        BY <1>1, <1>3, <3>1 DEF LookForOld, Looks, Go, Tasks
      <3>2. CASE Network \/ Commit \/ StoreFails
        BY <1>1, <3>2 DEF Network, Commit, StoreFails, Go, Tasks
      <3>3. QED
        BY <1>8, <3>1, <3>2
    <2>3. FreshStores'
      BY <1>1, <2>1 DEF FreshStores, Same
    <2>4. FreshTask'
      <3>1. task.step = "commit" /\ task.draft.new => keychain[Id] = NoPassword
        BY <1>1 DEF IdsUsed
      <3>2. Fresh(task'.old, Id) \/ task'.step = "ok"
        BY <1>1, <2>1, <2>2 DEF FreshStores, FreshTask
      <3>3. task'.unread => task'.cancelled
        BY <1>1, <2>1, <2>2 DEF FreshTask
      <3>4. QED
        BY <1>1, <2>1, <3>1, <3>2, <3>3 DEF FreshTask, Id, Same
    <2>5. ReplacedPasswordUnused'
      BY <1>1, <2>1 DEF ReplacedPasswordUnused, Id, Same
    <2>6. QED
      BY <2>3, <2>4, <2>5 DEF FreshInv
  <1>9. CASE ChangeSecret
    <2>1. /\ task.step = "change" /\ Same(task') /\ UNCHANGED <<newest, lastGiven>>
          /\ UNCHANGED <<task.source, task.password, task.cancelled, task.old>>
          /\ \A id \in Ids \ {Id} : keychain'[id] = keychain[id] /\ session'[id] = session[id]
          /\ task'.step \in {"failed", "store"}
      BY <1>1, <1>9, ChangeKeeps DEF history
    <2>2. /\ keychain'[Id] \in {NoPassword, keychain[Id], task.password}
          /\ session'[Id] \in {NoPassword, session[Id], task.password}
      BY <1>1, <1>9, ChangeKeeps
    <2>3. UNCHANGED task.unread
      BY <1>1, <1>9 DEF ChangeSecret, WriteSecret, RemoveSecret, LeaveSecret,
        GoMutated, SessionOnly, Go, Tasks
    <2>4. FreshStores'
      BY <1>1, <2>1, <2>2 DEF FreshStores, FreshTask, Same
    <2>5. task'.step = "store" /\ task.kind # "delete" /\ Given /\ ~task.cancelled =>
            /\ keychain'[Id] \in {NoPassword, task.draft.given}
            /\ session'[Id] \in {NoPassword, task.draft.given}
      <3> SUFFICES ASSUME task'.step = "store", task.kind # "delete", Given,
                          ~task.cancelled
                   PROVE  /\ keychain'[Id] \in {NoPassword, task.draft.given}
                          /\ session'[Id] \in {NoPassword, task.draft.given}
        OBVIOUS
      <3>1. task.password = task.draft.given /\ task.source # "none"
        BY <1>1, <2>1 DEF SourceTold
      <3>2. ~task.unread /\ ~Breaks("keychain")
        BY <1>1, <1>3 DEF FreshTask
      <3>3. CASE Writes
        BY <1>1, <1>9, <3>1, <3>2, <3>3, ChangeKeeps DEF Writes, Deletes
      <3>4. CASE Deletes
        BY <1>1, <1>9, <3>1, <3>4, ChangeKeeps DEF Writes, Deletes
      <3>5. CASE ~Writes /\ ~Deletes
        <4>1. task.draft.new /\ ~task.draft.save
          BY <3>5 DEF Writes, Deletes
        <4>2. keychain[Id] = NoPassword
          BY <1>1, <2>1, <4>1 DEF FreshTask
        <4>3. UNCHANGED keychain /\ session'[Id] = task.password
          BY <1>1, <1>9, <3>1, <3>5, <4>1, ChangeKeeps
        <4>4. QED
          BY <3>1, <4>2, <4>3
      <3>6. QED
        BY <3>3, <3>4, <3>5
    <2>6. FreshTask'
      BY <1>1, <2>1, <2>3, <2>5 DEF FreshTask, Given, Id, Same
    <2>7. ReplacedPasswordUnused'
      BY <1>1, <2>1 DEF ReplacedPasswordUnused, Id, Same
    <2>8. QED
      BY <2>4, <2>6, <2>7 DEF FreshInv
  <1>10. CASE Store
    <2>1. /\ task.step = "store" /\ ~task.cancelled /\ task'.step = "ok" /\ Same(task')
          /\ UNCHANGED <<task.source, task.password, task.unread, task.cancelled>>
          /\ UNCHANGED <<keychain, lastGiven>>
          /\ newest' = IF task.kind = "delete" \/ ~Given THEN newest
                       ELSE [newest EXCEPT ![Id] = task.draft.given]
          /\ IF task.kind = "delete" THEN Remember(NoPassword) ELSE UNCHANGED session
      BY <1>1, <1>10 DEF Store, Works, Go, Tasks, Same, counters
    <2>2. FreshTask'
      BY <1>1, <2>1 DEF FreshTask
    <2>3. FreshStores'
      <3>1. CASE task.kind = "delete" \/ ~Given
        <4>1. newest' = newest /\ \A id \in Ids : session'[id] \in {session[id], NoPassword}
          BY <1>1, <2>1, <3>1 DEF Remember, TypeOK
        <4>2. QED
          BY <1>1, <2>1, <4>1 DEF FreshStores, Same
      <3>2. CASE task.kind # "delete" /\ Given
        <4>1. /\ \A id \in Ids \ {Id} : newest'[id] = newest[id]
              /\ newest'[Id] = task.draft.given /\ UNCHANGED session
          BY <1>1, <2>1, <3>2 DEF TypeOK
        <4>2. task.draft.given = lastGiven
          BY <1>1, <3>2 DEF FreshStores, Given
        <4>3. /\ keychain[Id] \in {NoPassword, task.draft.given}
              /\ session[Id] \in {NoPassword, task.draft.given}
          BY <1>1, <2>1, <3>2 DEF FreshTask
        <4>4. QED
          BY <1>1, <1>2, <2>1, <4>1, <4>2, <4>3 DEF FreshStores, Same
      <3>3. QED
        BY <3>1, <3>2
    <2>4. ReplacedPasswordUnused'
      <3>1. task.kind # "delete" /\ Given => task.source = "input"
        BY <1>1, <2>1 DEF SourceTold
      <3>2. QED
        BY <1>1, <2>1, <3>1 DEF ReplacedPasswordUnused, Id, Same
    <2>5. QED
      BY <2>2, <2>3, <2>4 DEF FreshInv
  <1>11. CASE StoreFailsLate \/ Undo
    <2>1. /\ task'.step \in {"undo", "failed"} /\ Same(task')
          /\ UNCHANGED <<task.source, task.password, task.unread, task.cancelled, task.old>>
          /\ UNCHANGED <<lastGiven, newest>>
          /\ task.step \in {"store", "undo"}
      BY <1>1, <1>11 DEF StoreFailsLate, Undo, Go, Tasks, Same, counters, history
    <2>2. \A id \in Ids : /\ keychain'[id] = keychain[id] \/ (id = Id /\ keychain'[id] = task.old)
                          /\ session'[id] = session[id] \/ (id = Id /\ session'[id] = task.session0)
      BY <1>1, <1>11 DEF StoreFailsLate, Undo, RestoreSecret, Remember, TypeOK
    <2>3. FreshStores'
      BY <1>1, <2>1, <2>2 DEF FreshStores, FreshTask, Same
    <2>4. FreshTask' /\ ReplacedPasswordUnused'
      BY <1>1, <2>1 DEF FreshTask, ReplacedPasswordUnused, Id, Same
    <2>5. QED
      BY <2>3, <2>4 DEF FreshInv
  <1>12. CASE UNCHANGED vars
    BY <1>1, <1>12 DEF FreshInv, FreshStores, FreshTask, ReplacedPasswordUnused, Given,
      Id, vars, stores, counters, history
  <1>13. QED
    BY <1>4, <1>5, <1>6, <1>7, <1>8, <1>9, <1>10, <1>11, <1>12 DEF Next, Serve

\* A password that has been replaced is never used again (Prepare), while the
\* keychain can be reached.
THEOREM ReplacedUnused == Spec => []ReplacedPasswordUnused
  <1> DEFINE Inv == FoundInv /\ (~KeychainFails => FreshInv)
  <1>1. Init => Inv
    <2>1. Init => TypeOK /\ /\ task.step = "idle" /\ ~task.draft.new
                            /\ task.draft.given = NoPassword
                            /\ task.source = "none" /\ task.password = NoPassword
                            /\ task.old = NoPassword /\ task.session0 = NoPassword
                            /\ ~task.unread
      BY TypeInit DEF Init, Idle, NewTask, AnyDraft
    <2>2. Init => FoundInv
      BY <2>1 DEF Init, FoundInv, DocIsFile, IdsUsed, SessionsUsed, SessionKnown,
        SourceTold, PasswordThere, Reading, Prepareds, Changed
    <2>3. Init => FreshInv
      BY <2>1 DEF Init, FreshInv, FreshStores, FreshTask, ReplacedPasswordUnused,
        Fresh, NoPassword
    <2>4. QED
      BY <2>2, <2>3
  <1>2. Inv /\ [Next]_vars => Inv'
    BY FoundInductive, FreshInductive, SettingKept DEF KeychainFails
  <1>3. Inv => ReplacedPasswordUnused
    BY DEF FreshInv, ReplacedPasswordUnused, KeychainFails
  <1>4. QED
    BY <1>1, <1>2, <1>3, PTL DEF Spec
=============================================================================
