-------------------------------- MODULE Tabs --------------------------------
(***************************************************************************)
(* The tabs of a workspace and the models of their content: the reducer of *)
(* the shell, which opens, selects and closes tabs and asks before work is *)
(* lost (internal/workspace/model.go, internal/workspace/mouse.go), and    *)
(* the root model, which keeps a grid or an SQL model for every tab, routes*)
(* messages to it and tells the shell its state (internal/app/model.go).   *)
(*                                                                         *)
(* The shell never sees the content: it knows of it what TabStateChangedMsg*)
(* said last.  A tab is opened before its content exists, and its content  *)
(* may outlive it.  Tabs are numbered anew in every workspace, and the     *)
(* root model looks replies up by the tab alone.                           *)
(*                                                                         *)
(* Abstractions of data.  A content is whether it has work to lose and the *)
(* operation that is under way; what it does is the subject of TableTab    *)
(* and SqlTab.  Every control of the shell can be reached by a click, so   *)
(* that the focus is left out; so are help, the lost connection and        *)
(* reconnect, which Workspace models.  Quitting asks what a disconnect asks*)
(* and ends the program: only the disconnect is here.                      *)
(***************************************************************************)
EXTENDS Naturals, FiniteSets, Sequences, SequencesExt

CONSTANTS
  Relations,
  SQL,           \* what an SQL tab has in place of a relation
  MaxWorkspaces, \* bound: workspaces opened one after the other
  MaxTabs,       \* bound: tabs ever opened in a workspace
  MaxOps         \* bound: operations ever started

ASSUME ConstantsAssumption ==
  /\ SQL \notin Relations
  /\ MaxWorkspaces \in Nat \ {0}
  /\ MaxTabs \in Nat \ {0}
  /\ MaxOps \in Nat \ {0}

Workspaces == 1..MaxWorkspaces
OpIds == 1..MaxOps

\* core.TabID: the kind and the number.
TabIDs == {"table", "sql"} \X (1..MaxTabs)
NoTab == <<"none", 0>>

\* core.RequestMeta and the name of the operation, which lacks the workspace.
Metas == [ws : Workspaces, tab : TabIDs, req : OpIds]
NoMeta == [ws |-> 0, tab |-> NoTab, req |-> 0]
Name(meta) == <<meta.tab, meta.req>>
Names == TabIDs \X OpIds

NoModal == [kind |-> "none", tab |-> NoTab]
Stages == {"unused", "intent", "running", "reply", "done"}
\* loose: its tab does not know of the operation any more, because another one
\* has taken its place, or never will, because the tab has been closed.
NoOp == [meta |-> NoMeta, stage |-> "unused", loose |-> FALSE]
-----------------------------------------------------------------------------
VARIABLES
  shown,       \* what the root model shows
  ws,          \* workspace.Model.id, numbered
  tabs,        \* workspace.Model.tabs
  activeTab,
  modal,
  nextTab,
  content,     \* app.Model.tables and sqlTabs; job, the operation a content has
               \* asked for and awaits, is for properties
  opens,       \* the OpenTableIntent or OpenSQLIntent on its way, one at a time
  leaving,     \* whether a DisconnectIntent is on its way (one at a time)
  closing,     \* whether the command of a disconnect has still to run
  op, nextOp,
  registry,    \* CancellationRegistry: the operations registered by name; one
               \* that runs and is not has been cancelled or has lost its name
  cancels      \* the name a CancelIntent is on its way to, one at a time

shellVars == <<ws, tabs, activeTab, modal, nextTab>>
leaveVars == <<shown, leaving, closing>>
opVars == <<op, nextOp, registry, cancels>>
vars == <<shellVars, content, opens, leaveVars, opVars>>

IdsOf(tabsNow) == {tabsNow[i].id : i \in DOMAIN tabsNow}

TypeOK ==
  /\ shown \in {"launcher", "workspace"}
  /\ ws \in 0..MaxWorkspaces
  /\ \A i \in DOMAIN tabs :
       tabs[i] \in [id : TabIDs, relation : Relations \cup {SQL},
                    dirty : BOOLEAN, running : BOOLEAN,
                    request : Metas \cup {NoMeta}]
  /\ IsInjective([i \in DOMAIN tabs |-> tabs[i].id])
  /\ IF tabs = <<>> THEN activeTab = NoTab ELSE activeTab \in IdsOf(tabs)
  /\ modal.kind \in {"none", "close", "disconnect"}
  /\ modal.kind = "close" => modal.tab \in IdsOf(tabs)
  /\ nextTab \in 1..(MaxTabs + 1)
  /\ DOMAIN content \subseteq TabIDs
  /\ \A id \in DOMAIN content :
       content[id] \in [dirty : BOOLEAN, active : Metas \cup {NoMeta},
                        nextRequest : 1..(MaxOps + 1), job : 0..MaxOps]
  /\ opens \subseteq Workspaces \X TabIDs
  /\ leaving \in BOOLEAN
  /\ closing \in BOOLEAN
  /\ op \in [OpIds -> [meta : Metas \cup {NoMeta}, stage : Stages,
                       loose : BOOLEAN]]
  /\ nextOp \in 1..(MaxOps + 1)
  /\ registry \subseteq {o \in OpIds : op[o].stage = "running"}
  /\ cancels \subseteq Names

Init ==
  /\ shown = "launcher"
  /\ ws = 0
  /\ tabs = <<>>
  /\ activeTab = NoTab
  /\ modal = NoModal
  /\ nextTab = 1
  /\ content = <<>>
  /\ opens = {}
  /\ leaving = FALSE
  /\ closing = FALSE
  /\ op = [o \in OpIds |-> NoOp]
  /\ nextOp = 1
  /\ registry = {}
  /\ cancels = {}
-----------------------------------------------------------------------------
(***************************************************************************)
(* What the handlers share.                                                *)
(***************************************************************************)
Shell == shown = "workspace"
Ready == Shell /\ modal.kind = "none"

\* syncTableState and syncSQLState, in the envelope of the tab if there is one.
SyncedKeepingRequest(tabsNow, id, c) ==
  [i \in DOMAIN tabsNow |->
     IF tabsNow[i].id # id THEN tabsNow[i]
     ELSE [tabsNow[i] EXCEPT !.dirty = c.dirty,
                             !.running = c.active # NoMeta]]
Synced(tabsNow, id, c) ==
  [i \in DOMAIN tabsNow |->
     IF tabsNow[i].id # id THEN tabsNow[i]
     ELSE [tabsNow[i] EXCEPT !.dirty = c.dirty,
                             !.running = c.active # NoMeta,
                             !.request = c.active]]

Changed(id, c) ==
  /\ content' = [content EXCEPT ![id] = c]
  /\ tabs' = Synced(tabs, id, c)

\* reconcileContentModels, which ends every message the shell handles.
Reconciled(tabsNow) ==
  [id \in DOMAIN content \cap IdsOf(tabsNow) |-> content[id]]

\* A content starts an operation, over the operations ops.
Started(id, c) ==
  [c EXCEPT !.active = [ws |-> ws, tab |-> id, req |-> c.nextRequest],
            !.nextRequest = @ + 1, !.job = nextOp]
Overtaken(o, meta) ==
  o.stage # "done" /\ o.meta.ws = meta.ws /\ o.meta.tab = meta.tab
Begin(meta, ops) ==
  /\ nextOp \in OpIds
  /\ nextOp' = nextOp + 1
  /\ op' = [o \in OpIds |->
              IF o = nextOp
              THEN [NoOp EXCEPT !.meta = meta, !.stage = "intent"]
              ELSE [ops[o] EXCEPT !.loose = @ \/ Overtaken(ops[o], meta)]]
-----------------------------------------------------------------------------
(***************************************************************************)
(* Tabs.                                                                   *)
(***************************************************************************)
TabOf(id, relation) ==
  [id |-> id, relation |-> relation, dirty |-> FALSE, running |-> FALSE,
   request |-> NoMeta]

OpenTab(id, relation) ==
  /\ nextTab <= MaxTabs
  /\ opens = {}
  /\ nextTab' = nextTab + 1
  /\ tabs' = Append(tabs, TabOf(id, relation))
  /\ activeTab' = id
  /\ opens' = opens \cup {<<ws, id>>}
  /\ content' = Reconciled(tabs)
  /\ UNCHANGED <<ws, modal, leaveVars, opVars>>

ShowTab(i) ==
  /\ activeTab' = tabs[i].id
  /\ content' = Reconciled(tabs)
  /\ UNCHANGED <<ws, tabs, modal, nextTab, opens, leaveVars, opVars>>

OpenTableTab(relation) ==
  /\ Ready
  /\ \/ /\ \A i \in DOMAIN tabs : tabs[i].relation # relation
        /\ OpenTab(<<"table", nextTab>>, relation)
     \/ \E i \in DOMAIN tabs : tabs[i].relation = relation /\ ShowTab(i)

OpenSQLTab ==
  /\ Ready
  /\ OpenTab(<<"sql", nextTab>>, SQL)

SelectTab(i) ==
  /\ Ready
  /\ tabs[i].id # activeTab
  /\ ShowTab(i)

HazardousWhenDirty(tab) == tab.dirty
Hazardous(tab) == tab.dirty \/ tab.running

\* closeTabAt: the tab that takes its place is shown, or the last one.
NextActiveKept(i) == activeTab
NextActive(i) ==
  LET rest == RemoveAt(tabs, i) IN
  IF rest = <<>> THEN NoTab
  ELSE rest[IF i > Len(rest) THEN Len(rest) ELSE i].id
CloseTabAt(i) ==
  /\ tabs' = RemoveAt(tabs, i)
  /\ activeTab' = NextActive(i)
  /\ content' = Reconciled(RemoveAt(tabs, i))

CloseTab(i) ==
  /\ Ready
  /\ ~Hazardous(tabs[i])
  /\ CloseTabAt(i)
  /\ UNCHANGED <<ws, modal, nextTab, opens, leaveVars, opVars>>

AskClose(i) ==
  /\ Ready
  /\ Hazardous(tabs[i])
  /\ modal' = [kind |-> "close", tab |-> tabs[i].id]
  /\ activeTab' = tabs[i].id
  /\ content' = Reconciled(tabs)
  /\ UNCHANGED <<ws, tabs, nextTab, opens, leaveVars, opVars>>

RequestLeave ==
  /\ Ready /\ ~leaving
  /\ content' = Reconciled(tabs)
  /\ \/ /\ \A i \in DOMAIN tabs : ~Hazardous(tabs[i])
        /\ leaving' = TRUE
        /\ UNCHANGED modal
     \/ /\ \E i \in DOMAIN tabs : Hazardous(tabs[i])
        /\ modal' = [kind |-> "disconnect", tab |-> NoTab]
        /\ UNCHANGED leaving
  /\ UNCHANGED <<ws, tabs, activeTab, nextTab, opens, shown, closing, opVars>>

\* The question is answered by the safe or by the destructive choice.
KeepOpen ==
  /\ Shell /\ modal.kind # "none"
  /\ modal' = NoModal
  /\ content' = Reconciled(tabs)
  /\ UNCHANGED <<ws, tabs, activeTab, nextTab, opens, leaveVars, opVars>>

RequestAfterClose(i) ==
  LET rest == RemoveAt(tabs, i) IN
  IF i \in DOMAIN rest THEN rest[i].request ELSE NoMeta
RequestOf(i) == tabs[i].request
DiscardTab(i) ==
  /\ Shell /\ modal.kind = "close"
  /\ tabs[i].id = modal.tab
  /\ cancels = {}
  /\ modal' = NoModal
  /\ CloseTabAt(i)
  /\ cancels' = {Name(RequestOf(i))} \ {Name(NoMeta)}
  /\ UNCHANGED <<ws, nextTab, opens, leaveVars, op, nextOp, registry>>

ConfirmLeave ==
  /\ Shell /\ modal.kind = "disconnect"
  /\ modal' = NoModal
  /\ leaving' = TRUE
  /\ content' = Reconciled(tabs)
  /\ UNCHANGED <<ws, tabs, activeTab, nextTab, opens, shown, closing, opVars>>
-----------------------------------------------------------------------------
(***************************************************************************)
(* Content.  Messages of the user go to the content of the active tab.     *)
(***************************************************************************)
Edit(id) ==
  /\ Ready /\ id = activeTab
  /\ Changed(id, [content[id] EXCEPT !.dirty = ~@])
  /\ UNCHANGED <<ws, activeTab, modal, nextTab, opens, leaveVars, opVars>>

\* A click in a grid is not held back by the operation that is under way.
Start(id) ==
  /\ Ready /\ id = activeTab
  /\ content[id].active = NoMeta \/ id[1] = "table"
  /\ Changed(id, Started(id, content[id]))
  /\ Begin(Started(id, content[id]).active, op)
  /\ UNCHANGED <<ws, activeTab, modal, nextTab, opens, leaveVars, registry,
                 cancels>>

\* OpenTableIntent and OpenSQLIntent.  A table describes its relation at once.
\* Nothing looks whether the tab is still open.
DeliverOpen(w, id) ==
  LET new == [dirty |-> FALSE, active |-> NoMeta, nextRequest |-> 1, job |-> 0]
      c == IF id[1] = "table" THEN Started(id, new) ELSE new
  IN
  /\ <<w, id>> \in opens
  /\ opens' = opens \ {<<w, id>>}
  /\ \/ /\ Shell /\ w = ws
        /\ content' = [k \in DOMAIN content \cup {id} |->
                         IF k = id THEN c ELSE content[k]]
        /\ tabs' = Synced(tabs, id, c)
        /\ \/ c.active # NoMeta /\ Begin(c.active, op)
           \/ c.active = NoMeta /\ UNCHANGED <<op, nextOp>>
     \/ /\ ~Shell \/ w # ws
        /\ UNCHANGED <<content, tabs, op, nextOp>>
  /\ UNCHANGED <<ws, activeTab, modal, nextTab, leaveVars, registry, cancels>>
-----------------------------------------------------------------------------
(***************************************************************************)
(* Operations.                                                             *)
(***************************************************************************)
TabIsOpen(meta) == Shell /\ meta.ws = ws /\ meta.tab \in IdsOf(tabs)

Registered(name) == {o \in registry : Name(op[o].meta) = name}

\* The intent is dispatched, whatever has become of its tab.
Dispatch(o) ==
  /\ op[o].stage = "intent"
  /\ op' = [op EXCEPT ![o].stage = "running",
                      ![o].loose = @ \/ ~TabIsOpen(op[o].meta)]
  /\ registry' = (registry \ Registered(Name(op[o].meta))) \cup {o}
  /\ UNCHANGED <<shellVars, content, opens, leaveVars, nextOp, cancels>>

\* Ctrl+C in the active tab.
CtrlC(id) ==
  /\ Ready /\ id = activeTab
  /\ content[id].active # NoMeta
  /\ cancels = {}
  /\ cancels' = {Name(content[id].active)}
  /\ UNCHANGED <<shellVars, content, opens, leaveVars, op, nextOp, registry>>

DeliverCancel(name) ==
  /\ name \in cancels
  /\ cancels' = cancels \ {name}
  /\ registry' = registry \ Registered(name)
  /\ UNCHANGED <<shellVars, content, opens, leaveVars, op, nextOp>>

Return(o) ==
  /\ op[o].stage = "running"
  /\ op' = [op EXCEPT ![o].stage = "reply"]
  /\ registry' = registry \ Registered(Name(op[o].meta))
  /\ UNCHANGED <<shellVars, content, opens, leaveVars, nextOp, cancels>>

\* The reply ends the operation: work is kept or was applied, and another
\* operation may follow (the first page, the reload).
MatchesTab(o, id) ==
  /\ op[o].meta.tab = id
  /\ op[o].meta.req = content[id].active.req
Matches(o, id) == op[o].meta = content[id].active
Handled(o) == [op EXCEPT ![o] = [NoOp EXCEPT !.stage = "done"]]

DeliverReply(o, id) ==
  /\ op[o].stage = "reply"
  /\ Matches(o, id)
  /\ \E dirty \in {content[id].dirty, FALSE} :
       LET c == [content[id] EXCEPT !.dirty = dirty, !.active = NoMeta, !.job = 0]
       IN
       \/ /\ Changed(id, c)
          /\ op' = Handled(o)
          /\ UNCHANGED nextOp
       \/ /\ id[1] = "table"
          /\ Changed(id, Started(id, c))
          /\ Begin(Started(id, c).active, Handled(o))
  /\ UNCHANGED <<ws, activeTab, modal, nextTab, opens, leaveVars, registry,
                 cancels>>

DeliverStale(o) ==
  /\ op[o].stage = "reply"
  /\ \A id \in DOMAIN content : ~Matches(o, id)
  /\ op' = Handled(o)
  /\ UNCHANGED <<shellVars, content, opens, leaveVars, nextOp, registry,
                 cancels>>
-----------------------------------------------------------------------------
(***************************************************************************)
(* Entering and leaving a workspace.                                       *)
(***************************************************************************)
Connected ==
  /\ shown = "launcher"
  /\ ws < MaxWorkspaces
  /\ ws' = ws + 1
  /\ shown' = "workspace"
  /\ UNCHANGED <<tabs, activeTab, modal, nextTab, content, opens, leaving,
                 closing, opVars>>

\* disconnectWorkspace.  What is left of the shell is not reached again: it is
\* emptied here, and replaced by the next workspace in the code.
Disconnect ==
  /\ leaving
  /\ leaving' = FALSE
  /\ shown' = "launcher"
  /\ closing' = TRUE
  /\ tabs' = <<>>
  /\ activeTab' = NoTab
  /\ modal' = NoModal
  /\ nextTab' = 1
  /\ content' = <<>>
  /\ UNCHANGED <<ws, opens, opVars>>

\* The command of disconnectWorkspace cancels everything that is registered.
CancelAll ==
  /\ closing
  /\ closing' = FALSE
  /\ registry' = {}
  /\ UNCHANGED <<shellVars, content, opens, shown, leaving, op, nextOp, cancels>>
-----------------------------------------------------------------------------
Next ==
  \/ \E relation \in Relations : OpenTableTab(relation)
  \/ OpenSQLTab
  \/ \E i \in DOMAIN tabs :
       SelectTab(i) \/ CloseTab(i) \/ AskClose(i) \/ DiscardTab(i)
  \/ RequestLeave \/ KeepOpen \/ ConfirmLeave \/ Disconnect
  \/ \E id \in DOMAIN content : Edit(id) \/ Start(id) \/ CtrlC(id)
  \/ \E open \in opens : DeliverOpen(open[1], open[2])
  \/ \E o \in OpIds :
       \/ Dispatch(o) \/ Return(o) \/ DeliverStale(o)
       \/ \E id \in DOMAIN content : DeliverReply(o, id)
  \/ \E name \in cancels : DeliverCancel(name)
  \/ Connected \/ CancelAll

Spec == Init /\ [][Next]_vars
-----------------------------------------------------------------------------
(***************************************************************************)
(* Properties.                                                             *)
(***************************************************************************)
AtRisk(id) ==
  id \in DOMAIN content /\ (content[id].dirty \/ content[id].active # NoMeta)

\* What the shell knows of a tab is what its content is, and a tab that has none
\* is about to get one: no path through the root model forgets to tell the shell
\* (TabStateChangedMsg), or leaves a tab that shows nothing for ever.
EnvelopesAgree ==
  Shell => \A i \in DOMAIN tabs : LET tab == tabs[i] IN
    \/ /\ tab.id \in DOMAIN content
       /\ tab.dirty = content[tab.id].dirty
       /\ tab.request = content[tab.id].active
       /\ tab.running = (content[tab.id].active # NoMeta)
    \/ /\ tab.id \notin DOMAIN content
       /\ <<ws, tab.id>> \in opens

\* A tab whose content has work to lose is closed by the answer to a question
\* about it, and the workspace is left without a question only when, at that
\* moment, none has.
LosesNothingUnasked ==
  [][/\ \A id \in IdsOf(tabs) \ IdsOf(tabs') :
          AtRisk(id) => \/ modal.kind = "close" /\ modal.tab = id
                        \/ leaving
     /\ leaving' /\ ~leaving /\ modal.kind = "none" =>
          \A id \in IdsOf(tabs) : ~AtRisk(id)]_vars

\* Work that was dispatched for a tab does not go on without it: once the tab is
\* closed or its workspace left, a cancellation is on its way to the work, as
\* long as it is registered (CancelIntent of the modal, CancelAll).  Work that
\* another click has put out of its tab's mind is not cancelled.
NoDetachedWork ==
  \A o \in registry :
    \/ op[o].loose \/ TabIsOpen(op[o].meta)
    \/ Name(op[o].meta) \in cancels \/ closing

\* A reply that a content takes answers the operation it asked for last, and no
\* operation of another tab, of a tab with the same number in a workspace before
\* or of the same tab earlier: what identifies an operation to its tab is not
\* given twice (core.RequestMeta, nextRequestID of the content models).
AnswersOwnTab ==
  [][\A o \in OpIds : \A id \in DOMAIN content \cap DOMAIN content' :
       op[o].stage = "reply" /\ op'[o].stage = "done"
         /\ content'[id].active # content[id].active
       => o = content[id].job]_vars
=============================================================================
