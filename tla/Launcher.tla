------------------------------ MODULE Launcher ------------------------------
(***************************************************************************)
(* The connection launcher (internal/launcher/model.go): its list of       *)
(* profiles, its form and the command it awaits, with the root model that  *)
(* runs and cancels these commands and replaces the launcher by the        *)
(* workspace and back (internal/app/model.go).  What a command does to the *)
(* stores of a profile is the subject of Profiles; here it only changes    *)
(* which profiles are saved and in which order they are listed.            *)
(*                                                                         *)
(* Abstractions of data.  A profile is its identifier, a list the order of *)
(* Service.Load: last used first.  Of the form, only the password field    *)
(* has contents, empty or not.  The fields that do not validate make a     *)
(* command fail like any other error.  A DisconnectIntent that arrives when*)
(* the workspace has been left already is modelled in Workspace only.      *)
(***************************************************************************)
EXTENDS Naturals, FiniteSets, Sequences

CONSTANTS
  Ids,          \* profile identifiers
  FirstSaved,   \* the profiles saved before the program starts
  MaxRequests,  \* bound: commands ever started
  Mouse         \* whether the user also uses the mouse

ASSUME ConstantsAssumption ==
  /\ Ids \subseteq Nat \ {0}
  /\ FirstSaved \in Seq(Ids)
  /\ MaxRequests \in Nat \ {0}
  /\ Mouse \in BOOLEAN

Requests == 1..MaxRequests
NoProfile == 0
Elements(s) == {s[i] : i \in 1..Len(s)}

Actions == {"load", "edit", "save", "delete", "test", "connect"}
Fields == {"empty", "typed"}

\* launcher.Draft: replace is ReplacePassword, field the password field.
Drafts == [id : Ids \cup {NoProfile}, replace : BOOLEAN, field : Fields]
NewDraft == [id |-> NoProfile, replace |-> FALSE, field |-> "empty"]
DraftOf(i) == [NewDraft EXCEPT !.id = i]

\* A command: its intent (then is LoadDraftIntent.Then, "import" for the URL),
\* whether its context is cancelled, and its reply.
Outcomes == {"none", "ok", "failed", "password"}
Stages == {"unused", "intent", "running", "reply", "done"}
Ops ==
  [action : Actions, stage : Stages, id : Ids \cup {NoProfile},
   then : {"none", "import", "edit", "test", "connect"}, draft : Drafts,
   cancelled : BOOLEAN, outcome : Outcomes, list : Seq(Ids)]
NoOp ==
  [action |-> "load", stage |-> "unused", id |-> NoProfile, then |-> "none",
   draft |-> NewDraft, cancelled |-> FALSE, outcome |-> "none", list |-> <<>>]
-----------------------------------------------------------------------------
VARIABLES
  surface,       \* what the root model shows; "down" when it has quit
  mode,          \* launcher.State.Mode
  profiles, selected,
  deleteConfirm,
  draft,         \* the form
  active,        \* the action and request awaited
  nextRequest,
  op,
  cancels,       \* commands with a CancelIntent on its way
  saved,         \* the profiles in the file, in the order of Service.Load
  named,         \* the profile a question names, for properties
  chosen,        \* what the user last put in the password field, or "gone" when
                 \* the program emptied a form it shows again, for properties
  unloaded       \* the last list was not loaded: failed or cancelled

listVars == <<profiles, selected, deleteConfirm, named, unloaded>>
formVars == <<draft, chosen>>
commandVars == <<active, nextRequest, op>>
rootVars == <<surface, cancels, saved>>
vars == <<mode, listVars, formVars, commandVars, rootVars>>

Idle == [action |-> "none", request |-> 0]

TypeOK ==
  /\ surface \in {"launcher", "workspace", "down"}
  /\ mode \in {"profiles", "edit"}
  /\ profiles \in Seq(Ids)
  /\ selected \in 1..(IF profiles = <<>> THEN 1 ELSE Len(profiles))
  /\ deleteConfirm \in BOOLEAN
  /\ draft \in Drafts
  /\ active \in [action : Actions, request : Requests] \cup {Idle}
  /\ nextRequest \in 1..(MaxRequests + 1)
  /\ op \in [Requests -> Ops]
  /\ cancels \subseteq Requests
  /\ saved \in Seq(Ids)
  /\ named \in Ids \cup {NoProfile}
  /\ chosen \in Fields \cup {"gone"}
  /\ unloaded \in BOOLEAN

Load == [NoOp EXCEPT !.stage = "intent"]

Init ==
  /\ surface = "launcher"
  /\ mode = "profiles"
  /\ profiles = <<>>
  /\ selected = 1
  /\ deleteConfirm = FALSE
  /\ draft = NewDraft
  /\ active = [action |-> "load", request |-> 1]
  /\ nextRequest = 2
  /\ op = [r \in Requests |-> IF r = 1 THEN Load ELSE NoOp]
  /\ cancels = {}
  /\ saved = FirstSaved
  /\ named = NoProfile
  /\ chosen = "empty"
  /\ unloaded = FALSE
-----------------------------------------------------------------------------
(***************************************************************************)
(* What the handlers share.                                                *)
(***************************************************************************)
Shows == surface = "launcher"
Waiting == active # Idle
CurrentProfile == profiles[selected]

\* The bound on requests: one is kept for the list that is loaded again, and a
\* draft is loaded when there is one for what it is loaded for.
MayBegin == nextRequest < MaxRequests

\* ops: the commands, the one just answered closed.
Begin(command, ops) ==
  /\ nextRequest \in Requests
  /\ nextRequest' = nextRequest + 1
  /\ active' = [action |-> command.action, request |-> nextRequest]
  /\ op' = [ops EXCEPT ![nextRequest] = command]

Command(action, id, then) ==
  [NoOp EXCEPT !.action = action, !.stage = "intent", !.id = id,
               !.then = then]
Send(action, d) ==
  [NoOp EXCEPT !.action = action, !.stage = "intent", !.id = d.id,
               !.draft = d]

Open(d) ==
  /\ mode' = "edit"
  /\ draft' = d
  /\ chosen' = d.field
  /\ deleteConfirm' = FALSE
  /\ named' = NoProfile

ClearSensitive == draft' = [draft EXCEPT !.field = "empty"]

\* What is left in a form that is not shown is not read again.
Leave ==
  /\ mode' = "profiles"
  /\ draft' = NewDraft
  /\ chosen' = "empty"
-----------------------------------------------------------------------------
(***************************************************************************)
(* The list.                                                               *)
(***************************************************************************)
ListReady == Shows /\ ~Waiting /\ mode = "profiles"
ListKey == ListReady /\ ~deleteConfirm
ListClick == ListReady /\ Mouse

MoveWhileConfirming ==
  /\ ListReady
  /\ profiles # <<>>
  /\ selected' \in 1..Len(profiles)
  /\ UNCHANGED <<mode, profiles, deleteConfirm, named, unloaded, formVars,
                 commandVars, rootVars>>
\* A key, or a click or the wheel, that does not look at deleteConfirm.
Move ==
  /\ ListKey \/ ListClick
  /\ profiles # <<>>
  /\ selected' \in 1..Len(profiles)
  /\ UNCHANGED <<mode, profiles, deleteConfirm, named, unloaded, formVars,
                 commandVars, rootVars>>

New ==
  /\ ListKey \/ ListClick
  /\ Open(NewDraft)
  /\ UNCHANGED <<profiles, selected, unloaded, commandVars, rootVars>>

LoadSelectedDraft ==
  /\ ListKey \/ ListClick
  /\ profiles # <<>>
  /\ nextRequest + 1 < MaxRequests
  /\ \E then \in {"edit", "test", "connect"} :
       Begin(Command("edit", CurrentProfile, then), op)
  /\ UNCHANGED <<mode, listVars, formVars, rootVars>>

AskDelete ==
  /\ ListKey \/ ListClick
  /\ profiles # <<>>
  /\ deleteConfirm' = TRUE
  /\ named' = CurrentProfile
  /\ UNCHANGED <<mode, profiles, selected, unloaded, formVars, commandVars,
                 rootVars>>

StartDelete ==
  /\ ListReady
  /\ deleteConfirm
  /\ profiles # <<>>
  /\ MayBegin
  /\ Begin(Command("delete", CurrentProfile, "none"), op)
  /\ UNCHANGED <<mode, listVars, formVars, rootVars>>

KeepProfile ==
  /\ ListReady
  /\ deleteConfirm
  /\ deleteConfirm' = FALSE
  /\ named' = NoProfile
  /\ UNCHANGED <<mode, profiles, selected, unloaded, formVars,
                 commandVars, rootVars>>

Reload ==
  /\ ListKey
  /\ MayBegin
  /\ Begin(Load, op)
  /\ UNCHANGED <<mode, listVars, formVars, rootVars>>
-----------------------------------------------------------------------------
(***************************************************************************)
(* The form.                                                               *)
(***************************************************************************)
FormReady == Shows /\ ~Waiting /\ mode = "edit"

\* The password field is typed into or emptied, or Enter confirms it as it is.
EnterPassword ==
  /\ FormReady
  /\ \E f \in Fields :
       /\ draft' = [draft EXCEPT !.field = f, !.replace = TRUE]
       /\ chosen' = f
  /\ UNCHANGED <<mode, listVars, commandVars, rootVars>>

CloseForm ==
  /\ FormReady
  /\ Leave
  /\ UNCHANGED <<listVars, commandVars, rootVars>>

ImportURL ==
  /\ FormReady
  /\ draft.id = NoProfile
  /\ MayBegin
  /\ Begin([Command("edit", NoProfile, "import") EXCEPT !.draft = draft], op)
  /\ UNCHANGED <<mode, listVars, formVars, rootVars>>

SendForm ==
  /\ FormReady
  /\ MayBegin
  /\ \E action \in {"save", "test", "connect"} : Begin(Send(action, draft), op)
  /\ UNCHANGED <<mode, listVars, formVars, rootVars>>
-----------------------------------------------------------------------------
(***************************************************************************)
(* Commands: registration, cancellation and execution.                     *)
(***************************************************************************)
Running(r) == op[r].stage = "running"

EscForgets ==
  /\ Shows
  /\ Waiting
  /\ cancels' = cancels \cup {active.request}
  /\ active' = Idle
  /\ UNCHANGED <<mode, listVars, formVars, nextRequest, op, surface, saved>>
\* Esc asks for the cancellation and goes on waiting for the reply.
Esc ==
  /\ Shows
  /\ Waiting
  /\ cancels' = cancels \cup {active.request}
  /\ UNCHANGED <<mode, listVars, formVars, commandVars, surface, saved>>

Dispatch(r) ==
  /\ op[r].stage = "intent"
  /\ surface # "down"
  /\ op' = [op EXCEPT ![r].stage = "running"]
  /\ UNCHANGED <<mode, listVars, formVars, active, nextRequest, rootVars>>

\* operationID: the action a command is registered under, with its request.
RegisteredAsThen(r) == IF op[r].then = "none" THEN op[r].action ELSE op[r].then
RegisteredAs(r) == op[r].action
DeliverCancel(r) ==
  /\ r \in cancels
  /\ cancels' = cancels \ {r}
  /\ op' = IF Running(r) /\ active = [action |-> RegisteredAs(r), request |-> r]
           THEN [op EXCEPT ![r].cancelled = TRUE] ELSE op
  /\ UNCHANGED <<mode, listVars, formVars, active, nextRequest, surface, saved>>

Answer(r, outcome, d, list) ==
  /\ op' = [op EXCEPT ![r] =
              [@ EXCEPT !.stage = "reply", !.outcome = outcome, !.draft = d,
                        !.list = list, !.cancelled = FALSE]]
  /\ UNCHANGED <<mode, listVars, formVars, active, nextRequest, surface,
                 cancels>>

Works(r, action) ==
  Running(r) /\ surface # "down" /\ op[r].action = action

\* An error, validation included, or the cancelled context.
ExecFail(r) ==
  /\ Running(r) /\ surface # "down"
  /\ Answer(r, "failed", op[r].draft, <<>>)
  /\ UNCHANGED saved

ExecLoad(r) ==
  /\ Works(r, "load")
  /\ Answer(r, "ok", op[r].draft, saved)
  /\ UNCHANGED saved

ExecDraft(r) ==
  /\ Works(r, "edit") /\ op[r].then # "import"
  /\ op[r].id \in Elements(saved)
  /\ Answer(r, "ok", DraftOf(op[r].id), <<>>)
  /\ UNCHANGED saved

\* A URL may hold a password.
ExecImport(r) ==
  /\ Works(r, "edit") /\ op[r].then = "import"
  /\ \E f \in Fields :
       Answer(r, "ok", [NewDraft EXCEPT !.field = f, !.replace = f = "typed"], <<>>)
  /\ UNCHANGED saved

\* Neither the draft nor the stores have a password.
ExecAsk(r) ==
  /\ Running(r) /\ surface # "down"
  /\ op[r].action \in {"test", "connect"}
  /\ ~op[r].draft.replace
  /\ Answer(r, "password", op[r].draft, <<>>)
  /\ UNCHANGED saved

Place(i) == CHOOSE k \in 1..Len(saved) : saved[k] = i
Without(i) ==
  IF i \in Elements(saved)
  THEN SubSeq(saved, 1, Place(i) - 1) \o SubSeq(saved, Place(i) + 1, Len(saved))
  ELSE saved
\* A new draft receives a new identifier.
IdOf(r, i) == IF op[r].id = NoProfile THEN i \in Ids \ Elements(saved)
              ELSE i = op[r].id /\ i \in Elements(saved)

ExecSave(r) ==
  /\ Works(r, "save")
  /\ \E i \in Ids :
       /\ IdOf(r, i)
       /\ saved' = IF i \in Elements(saved) THEN saved ELSE Append(saved, i)
  /\ Answer(r, "ok", op[r].draft, <<>>)

ExecTest(r) ==
  /\ Works(r, "test")
  /\ \E i \in Ids : IdOf(r, i)
  /\ Answer(r, "ok", op[r].draft, <<>>)
  /\ UNCHANGED saved

\* Commit saves the profile and marks it as the one last used.
ExecConnect(r) ==
  /\ Works(r, "connect")
  /\ \E i \in Ids : IdOf(r, i) /\ saved' = <<i>> \o Without(i)
  /\ Answer(r, "ok", op[r].draft, <<>>)

ExecDelete(r) ==
  /\ Works(r, "delete")
  /\ op[r].id \in Elements(saved)
  /\ saved' = Without(op[r].id)
  /\ Answer(r, "ok", op[r].draft, <<>>)
-----------------------------------------------------------------------------
(***************************************************************************)
(* Replies.  One that is not awaited, or that finds another surface, is    *)
(* dropped; OneCommand says that there is none.                            *)
(***************************************************************************)
Closed(r) == [op EXCEPT ![r] = [NoOp EXCEPT !.stage = "done"]]

Awaited(r) ==
  /\ op[r].stage = "reply"
  /\ Shows
  /\ active = [action |-> op[r].action, request |-> r]

Replies(r, action, outcome) ==
  /\ Awaited(r)
  /\ op[r].action = action
  /\ op[r].outcome = outcome

Finish(r) ==
  /\ active' = Idle
  /\ op' = Closed(r)
  /\ UNCHANGED nextRequest

KeepSelection(list) == UNCHANGED selected
ClampSelection(list) ==
  selected' = IF list = <<>> THEN 1
              ELSE IF selected > Len(list) THEN Len(list) ELSE selected

DeliverProfiles(r) ==
  /\ Replies(r, "load", "ok")
  /\ Finish(r)
  /\ profiles' = op[r].list
  /\ ClampSelection(op[r].list)
  /\ unloaded' = FALSE
  /\ UNCHANGED <<mode, deleteConfirm, named, formVars, rootVars>>

DeliverDraft(r) ==
  /\ Replies(r, "edit", "ok")
  /\ op[r].then = "edit"
  /\ Finish(r)
  /\ Open(op[r].draft)
  /\ UNCHANGED <<profiles, selected, unloaded, rootVars>>

\* The draft was loaded to be tested or connected to.
DeliverDraftAndSend(r) ==
  /\ Replies(r, "edit", "ok")
  /\ op[r].then \in {"test", "connect"}
  /\ Begin(Send(op[r].then, op[r].draft), Closed(r))
  /\ UNCHANGED <<mode, listVars, formVars, rootVars>>

DeliverImport(r) ==
  /\ Replies(r, "edit", "ok")
  /\ op[r].then = "import"
  /\ Finish(r)
  /\ draft' = op[r].draft
  /\ chosen' = op[r].draft.field
  /\ UNCHANGED <<mode, listVars, rootVars>>

DeliverSavedNoReload(r) ==
  /\ Replies(r, "save", "ok")
  /\ Finish(r)
  /\ Leave
  /\ UNCHANGED <<listVars, rootVars>>
DeliverSaved(r) ==
  /\ Replies(r, "save", "ok")
  /\ Begin(Load, Closed(r))
  /\ Leave
  /\ UNCHANGED <<listVars, rootVars>>

DeliverDeleted(r) ==
  /\ Replies(r, "delete", "ok")
  /\ Begin(Load, Closed(r))
  /\ deleteConfirm' = FALSE
  /\ named' = NoProfile
  /\ UNCHANGED <<mode, profiles, selected, unloaded, formVars, rootVars>>

DeliverTested(r) ==
  /\ Replies(r, "test", "ok")
  /\ Finish(r)
  /\ UNCHANGED <<mode, listVars, formVars, rootVars>>

DeliverPasswordRequired(r) ==
  /\ Awaited(r) /\ op[r].outcome = "password"
  /\ Finish(r)
  /\ Open(op[r].draft)
  /\ UNCHANGED <<profiles, selected, unloaded, rootVars>>

DeliverFailedCleared(r) ==
  /\ Awaited(r) /\ op[r].outcome = "failed"
  /\ Finish(r)
  /\ unloaded' = (unloaded \/ op[r].action = "load")
  /\ ClearSensitive
  /\ UNCHANGED <<mode, profiles, selected, deleteConfirm, named, chosen,
                 rootVars>>
DeliverFailed(r) ==
  /\ Awaited(r) /\ op[r].outcome = "failed"
  /\ Finish(r)
  /\ unloaded' = (unloaded \/ op[r].action = "load")
  /\ UNCHANGED <<mode, profiles, selected, deleteConfirm, named, formVars,
                 rootVars>>

\* The workspace takes over; the form, if there was one, stays behind it.
DeliverConnected(r) ==
  /\ Replies(r, "connect", "ok")
  /\ Finish(r)
  /\ ClearSensitive
  /\ chosen' = IF mode = "edit" THEN "gone" ELSE chosen
  /\ surface' = "workspace"
  /\ UNCHANGED <<mode, listVars, cancels, saved>>
-----------------------------------------------------------------------------
(***************************************************************************)
(* The root model.                                                         *)
(***************************************************************************)
Disconnect ==
  /\ surface = "workspace"
  /\ surface' = "launcher"
  /\ Begin(Load, op)
  /\ UNCHANGED <<mode, listVars, formVars, cancels, saved>>

\* Ctrl+C at any time; q when the list is idle comes to the same.
Quit ==
  /\ Shows
  /\ surface' = "down"
  /\ UNCHANGED <<mode, listVars, formVars, commandVars, cancels, saved>>
-----------------------------------------------------------------------------
Deliver(r) ==
  \/ DeliverProfiles(r) \/ DeliverDraft(r) \/ DeliverDraftAndSend(r)
  \/ DeliverImport(r) \/ DeliverSaved(r) \/ DeliverDeleted(r)
  \/ DeliverTested(r) \/ DeliverPasswordRequired(r) \/ DeliverFailed(r)
  \/ DeliverConnected(r)

Execute(r) ==
  \/ ExecFail(r) \/ ExecLoad(r) \/ ExecDraft(r) \/ ExecImport(r)
  \/ ExecAsk(r) \/ ExecSave(r) \/ ExecTest(r) \/ ExecConnect(r)
  \/ ExecDelete(r)

Input ==
  \/ Move \/ New \/ LoadSelectedDraft \/ AskDelete \/ StartDelete
  \/ KeepProfile \/ Reload
  \/ EnterPassword \/ CloseForm \/ ImportURL \/ SendForm
  \/ Esc \/ Disconnect \/ Quit

Next ==
  \/ Input
  \/ \E r \in Requests : Dispatch(r) \/ DeliverCancel(r)
  \/ \E r \in Requests : Execute(r) \/ Deliver(r)

Spec == Init /\ [][Next]_vars

(***************************************************************************)
(* Fairness.  The runtime delivers messages and runs commands; the server, *)
(* the keychain and the user owe nothing, but a cancelled call returns.    *)
(***************************************************************************)
HungSpec ==
  /\ Spec
  /\ \A r \in Requests :
       /\ WF_vars(Dispatch(r)) /\ WF_vars(DeliverCancel(r))
       /\ WF_vars(Deliver(r))
       /\ WF_vars(op[r].cancelled /\ Execute(r))
-----------------------------------------------------------------------------
(***************************************************************************)
(* Properties.                                                             *)
(***************************************************************************)
Live == {r \in Requests : op[r].stage \in {"intent", "running", "reply"}}

\* The commands under way are the one the launcher waits for: it never runs two
\* saves, deletions or connections side by side, no reply comes when another,
\* or none, is awaited, and nothing is forgotten while the workspace is shown
\* (newRequest, clearOperation, the guards of the keys and the mouse).
OneCommand == Live = IF Waiting THEN {active.request} ELSE {}

\* An idle list shows what is saved, in its order, unless the last attempt to
\* load it failed: every command that changes it is followed by a reload.
ListIsCurrent ==
  Shows /\ ~Waiting /\ ~unloaded => profiles = saved

\* A password that replaces the stored one, the empty one included, is what the
\* user last put into the field: no failure, question for a password or import
\* in between has altered the form.  Excepted is the form that a connection
\* emptied and a disconnect shows again (ConnectedMsg, clearSensitiveInputs).
ReplacesAsChosen ==
  [][\A r \in Requests :
       /\ op[r].stage # "intent" /\ op'[r].stage = "intent"
       /\ op'[r].draft.replace
       /\ op'[r].action \in {"save", "test", "connect"}
       /\ chosen # "gone"
       => op'[r].draft.field = chosen]_vars

\* Esc ends a command that is running, even if nothing ever answers it: the
\* launcher does not wait for ever (CancelIntent, CancellationRegistry).
EscEnds ==
  \A r \in Requests :
    r \in cancels /\ Running(r) /\ active.request = r
      ~> active.request # r \/ surface = "down"

(***************************************************************************)
(* What a document promises and the code does not keep.                    *)
(***************************************************************************)
\* The profile that is deleted is the one the question named.
DeletesNamed ==
  [][\A r \in Requests :
       op[r].stage # "intent" /\ op'[r].stage = "intent"
         /\ op'[r].action = "delete"
       => op'[r].id = named]_vars

=============================================================================
