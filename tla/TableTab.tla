------------------------------ MODULE TableTab ------------------------------
(***************************************************************************)
(* One table tab of the workspace (internal/grid) together with what is    *)
(* outside its reducer and decides whether it is correct: the commands     *)
(* that carry its intents and replies (internal/app), the transaction that *)
(* applies its staged changes (internal/postgres/mutations.go), the fetch  *)
(* of a page (internal/postgres/browser.go) and the other writers of the   *)
(* table.                                                                  *)
(*                                                                         *)
(* The reducer runs one message at a time.  Everything it starts runs      *)
(* beside it: an intent travels to the root model, is registered there and *)
(* executed by a goroutine, whose reply travels back, and nothing orders   *)
(* one of these steps before those of another request or before the keys   *)
(* and clicks of the user.                                                 *)
(*                                                                         *)
(* Abstractions of data.  A row is its identity and its xmin; a staged     *)
(* update is the xmin of the row it was made on (Mutation.Original) and a  *)
(* draft is its DraftID, in the order they were added.  There is one       *)
(* editable column.  The grid sorts by the identity column.  The cursor    *)
(* position of the user is not a variable: an action on the selected row   *)
(* is an action on any displayed row.                                      *)
(***************************************************************************)
EXTENDS Integers, FiniteSets

CONSTANTS
  Keys,            \* identities of the rows of the table, ordered as numbers
  PageSize,        \* rows per page (grid.DefaultPageSize)
  Touched,         \* bound: rows of the table the user edits or deletes
  MaxDrafts,       \* bound: draft rows ever added in this tab
  MaxRequests,     \* bound: requests ever started in this tab
  MaxExternal,     \* bound: writes of other sessions to the table
  Mouse,           \* whether the user also uses the mouse
  UncertainCommit, \* whether COMMIT may end without an acknowledgement
  RequiredColumn,  \* whether the column is NOT NULL and has no default
  Writable         \* whether rows may be inserted, updated and deleted

ASSUME ConstantsAssumption ==
  /\ Keys \subseteq Nat \ {0}
  /\ IsFiniteSet(Keys)
  /\ PageSize \in Nat \ {0}
  /\ Touched \subseteq Keys
  /\ MaxDrafts \in Nat
  /\ MaxRequests \in Nat \ {0, 1}
  /\ MaxExternal \in Nat
  /\ Mouse \in BOOLEAN
  /\ UncertainCommit \in BOOLEAN
  /\ RequiredColumn \in BOOLEAN
  /\ Writable \in BOOLEAN

Requests == 1..MaxRequests
Drafts == 1..MaxDrafts
Xids == Nat          \* transaction numbers; 0: no such row, or no mutation

Sorts == {"default", "asc", "desc"}
Before(s, j, k) == IF s = "desc" THEN k < j ELSE j < k

Cursors == [key : Keys \cup {0}, sort : Sorts]
NoCursor == [key |-> 0, sort |-> "default"]

\* ord is the page the request was made for: it is read by properties only.
PageRequests ==
  [dir : {"none", "first", "next", "previous"}, cursor : Cursors,
   sort : Sorts, ord : Int]
NoPageRequest ==
  [dir |-> "none", cursor |-> NoCursor, sort |-> "default", ord |-> 0]
FirstPage(s) ==
  [dir |-> "first", cursor |-> NoCursor, sort |-> s, ord |-> 1]

\* shown[k] is the xmin under which row k is displayed, 0 when it is not.
\* req and ord, the request that was answered and its ord, are for properties.
Pages ==
  [shown : [Keys -> Xids], sort : Sorts, next : Cursors, prev : Cursors,
   ord : Int, req : Requests \cup {0}]
EmptyPage ==
  [shown |-> [k \in Keys |-> 0], sort |-> "default",
   next |-> NoCursor, prev |-> NoCursor, ord |-> 1, req |-> 0]

Batches ==
  [deletes : [Keys -> Xids], updates : [Keys -> Xids], inserts : SUBSET Drafts]
NoBatch ==
  [deletes |-> [k \in Keys |-> 0], updates |-> [k \in Keys |-> 0],
   inserts |-> {}]

\* A line of the grid: a draft row or a row of the page.
Refs ==
  [kind : {"draft"}, id : Drafts] \cup [kind : {"row"}, id : Keys]
NoRef == [kind |-> "none", id |-> 0]
Editors ==
  [row : Nat, target : Refs \cup {NoRef}, awaits : Requests \cup {0}]
NoEditor == [row |-> 0, target |-> NoRef, awaits |-> 0]

Kinds == {"none", "describe", "page", "apply"}
Stages == {"unused", "intent", "running", "commit", "reply", "done"}
Outcomes == {"none", "ok", "failed", "cancelled", "uncertain"}

\* A request: its intent (kind, asks or batch), whether its context has been
\* cancelled, the rows its transaction has changed (done), and its reply.
\* committed is for properties: its transaction has committed.
Ops ==
  [kind : Kinds, stage : Stages, asks : PageRequests, batch : Batches,
   cancelled : BOOLEAN, done : SUBSET Keys, outcome : Outcomes, answer : Pages,
   committed : BOOLEAN]
NoOp ==
  [kind |-> "none", stage |-> "unused", asks |-> NoPageRequest,
   batch |-> NoBatch, cancelled |-> FALSE, done |-> {}, outcome |-> "none",
   answer |-> EmptyPage, committed |-> FALSE]
Intent(kind, asks, batch) ==
  [NoOp EXCEPT !.kind = kind, !.stage = "intent", !.asks = asks,
               !.batch = batch]

Overlays == {"none", "apply", "refresh", "revert-all", "changes",
             "mutation-error"}
-----------------------------------------------------------------------------
VARIABLES
  \* The reducer's state (grid.Model).
  relation,         \* whether the metadata of the table has been loaded
  page, pageNumber, \* the displayed page and its label
  pendingRequest, pendingPage,
  sort,
  inserts,          \* drafts
  filled,           \* drafts whose required column has a value
  updates, deletes, \* per row, the xmin of Mutation.Original, or 0
  nextDraft,
  editor,           \* line being edited; target is what it was opened on, and
                    \* awaits the request then awaited: read by properties only
  overlay,
  active,           \* the request whose reply is awaited
  lifecycle,
  err,
  applyReloadFirst,
  nextRequest,
  op,               \* the requests this tab has started
  cancels,          \* requests with a CancelIntent on its way
  \* The database.
  table,            \* per identity, the xmin of the row, or 0
  xid,              \* last transaction number used
  external,         \* writes of other sessions so far
  \* For properties.
  landed,           \* per draft, the rows it has become
  doubted           \* drafts sent in a batch whose commit was uncertain

pageVars == <<relation, page, pageNumber, pendingRequest, pendingPage, sort>>
stagedVars == <<inserts, filled, updates, deletes, nextDraft>>
dialogVars == <<editor, overlay, applyReloadFirst>>
statusVars == <<active, lifecycle, err, nextRequest>>
tabVars == <<pageVars, stagedVars, dialogVars, statusVars>>
dbVars == <<table, xid, external, landed, doubted>>
worldVars == <<cancels, dbVars>>
vars == <<tabVars, op, worldVars>>

Idle == [kind |-> "none", req |-> 0]

PageTypeOK ==
  /\ relation \in BOOLEAN
  /\ page \in Pages
  /\ pageNumber \in Int
  /\ pendingRequest \in PageRequests
  /\ pendingPage \in Int
  /\ sort \in Sorts
StagedTypeOK ==
  /\ inserts \subseteq Drafts
  /\ filled \subseteq Drafts
  /\ updates \in [Keys -> Xids]
  /\ deletes \in [Keys -> Xids]
  /\ nextDraft \in 1..(MaxDrafts + 1)
DialogTypeOK ==
  /\ editor \in Editors
  /\ overlay \in Overlays
  /\ applyReloadFirst \in BOOLEAN
StatusTypeOK ==
  /\ active \in [kind : Kinds \ {"none"}, req : Requests] \cup {Idle}
  /\ lifecycle \in {"idle", "running", "failed"}
  /\ err \in BOOLEAN
  /\ nextRequest \in 1..(MaxRequests + 1)
OpTypeOK == op \in [Requests -> Ops]
WorldTypeOK ==
  /\ cancels \subseteq Requests
  /\ table \in [Keys -> Xids]
  /\ xid \in Xids
  /\ external \in 0..MaxExternal
  /\ landed \in [Drafts -> Nat]
  /\ doubted \subseteq Drafts

TypeOK ==
  /\ PageTypeOK /\ StagedTypeOK /\ DialogTypeOK /\ StatusTypeOK
  /\ OpTypeOK /\ WorldTypeOK

Init ==
  /\ relation = FALSE
  /\ page = EmptyPage
  /\ pageNumber = 0
  /\ pendingRequest = NoPageRequest
  /\ pendingPage = 0
  /\ sort = "default"
  /\ inserts = {}
  /\ filled = {}
  /\ updates = [k \in Keys |-> 0]
  /\ deletes = [k \in Keys |-> 0]
  /\ nextDraft = 1
  /\ editor = NoEditor
  /\ overlay = "none"
  /\ active = [kind |-> "describe", req |-> 1]
  /\ lifecycle = "running"
  /\ err = FALSE
  /\ applyReloadFirst = FALSE
  /\ nextRequest = 2
  /\ op = [r \in Requests |->
             IF r = 1 THEN Intent("describe", NoPageRequest, NoBatch) ELSE NoOp]
  /\ cancels = {}
  /\ table = [k \in Keys |-> 1]
  /\ xid = 1
  /\ external = 0
  /\ landed = [d \in Drafts |-> 0]
  /\ doubted = {}
-----------------------------------------------------------------------------
(***************************************************************************)
(* What the handlers share.                                                *)
(***************************************************************************)
Busy == active.kind # "none"

Shown == {k \in Keys : page.shown[k] # 0}

\* A row that is staged for deletion is counted, and applied, as a deletion.
Dirty ==
  \/ inserts # {}
  \/ \E k \in Keys : updates[k] # 0 \/ deletes[k] # 0

\* Line i of the grid: the drafts in the order they were added, then the page.
IsLine(i, ref) ==
  \/ /\ ref.kind = "draft"
     /\ ref.id \in inserts
     /\ i = Cardinality({d \in inserts : d <= ref.id})
  \/ /\ ref.kind = "row"
     /\ ref.id \in Shown
     /\ i = Cardinality(inserts)
              + Cardinality({k \in Shown : ~Before(page.sort, ref.id, k)})

MutationsSnapshotOfPage ==
  [deletes |-> deletes,
   updates |-> [k \in Keys |-> IF deletes[k] # 0 \/ k \notin Shown THEN 0
                              ELSE updates[k]],
   inserts |-> inserts]
MutationsSnapshot ==
  [deletes |-> deletes,
   updates |-> [k \in Keys |-> IF deletes[k] # 0 THEN 0 ELSE updates[k]],
   inserts |-> inserts]

\* Keys reach an idle grid only; clicks are not held back by a request.
KeyReady == ~Busy /\ editor = NoEditor /\ overlay = "none"
ClickReadyOverEditor == Mouse /\ relation /\ overlay = "none"
ClickReady == Mouse /\ relation /\ editor = NoEditor /\ overlay = "none"
GridInput == KeyReady \/ ClickReady
DialogInput == editor = NoEditor /\ (~Busy \/ Mouse)

\* The bound on requests: one is kept for the reload that follows a reply.
MayBegin == nextRequest < MaxRequests

\* ops: the requests, the one just answered closed.
Begin(kind, asks, batch, ops) ==
  /\ nextRequest \in Requests
  /\ nextRequest' = nextRequest + 1
  /\ active' = [kind |-> kind, req |-> nextRequest]
  /\ lifecycle' = "running"
  /\ err' = FALSE
  /\ op' = [ops EXCEPT ![nextRequest] = Intent(kind, asks, batch)]

Describe ==
  /\ Begin("describe", NoPageRequest, NoBatch, op)
  /\ UNCHANGED <<pendingRequest, pendingPage>>

StartPage(asks, target, ops) ==
  /\ Begin("page", asks, NoBatch, ops)
  /\ pendingRequest' = asks
  /\ pendingPage' = target

StartApply ==
  /\ MayBegin
  /\ Begin("apply", NoPageRequest, MutationsSnapshot, op)
  /\ overlay' = "none"
  /\ UNCHANGED <<pendingRequest, pendingPage>>

ClearChangesKeepingDrafts ==
  /\ updates' = [k \in Keys |-> 0]
  /\ deletes' = [k \in Keys |-> 0]
  /\ editor' = NoEditor
  /\ overlay' = "none"
  /\ applyReloadFirst' = FALSE
  /\ UNCHANGED <<inserts, filled>>
ClearChanges ==
  /\ inserts' = {}
  /\ filled' = {}
  /\ updates' = [k \in Keys |-> 0]
  /\ deletes' = [k \in Keys |-> 0]
  /\ editor' = NoEditor
  /\ overlay' = "none"
  /\ applyReloadFirst' = FALSE

AtLeastOne(n) == IF n < 1 THEN 1 ELSE n

UnchangedPage == UNCHANGED <<relation, page, pageNumber>>
-----------------------------------------------------------------------------
(***************************************************************************)
(* Browsing keys.                                                          *)
(***************************************************************************)
BrowseKey == KeyReady /\ MayBegin

NextPage ==
  /\ BrowseKey
  /\ page.next.key # 0
  /\ StartPage([dir |-> "next", cursor |-> page.next, sort |-> sort,
                ord |-> page.ord + 1],
               pageNumber + 1, op)
  /\ UnchangedPage
  /\ UNCHANGED <<sort, stagedVars, dialogVars, worldVars>>

PreviousPage ==
  /\ BrowseKey
  /\ page.prev.key # 0
  /\ StartPage([dir |-> "previous", cursor |-> page.prev, sort |-> sort,
                ord |-> page.ord - 1],
               AtLeastOne(pageNumber - 1), op)
  /\ UnchangedPage
  /\ UNCHANGED <<sort, stagedVars, dialogVars, worldVars>>

\* The key r: retry after an error, describe again, or refresh.
Retry ==
  /\ BrowseKey
  /\ err
  /\ \/ /\ ~relation \/ pendingRequest.dir = "none"
        /\ Describe
     \/ /\ relation /\ pendingRequest.dir # "none"
        /\ StartPage(pendingRequest, AtLeastOne(pendingPage), op)
  /\ UnchangedPage
  /\ UNCHANGED <<sort, stagedVars, dialogVars, worldVars>>

DescribeAgain ==
  /\ BrowseKey
  /\ ~err
  /\ ~relation
  /\ Describe
  /\ UnchangedPage
  /\ UNCHANGED <<sort, stagedVars, dialogVars, worldVars>>

Refresh ==
  /\ BrowseKey
  /\ ~err
  /\ relation
  /\ ~Dirty
  /\ StartPage(FirstPage(sort), 1, op)
  /\ UnchangedPage
  /\ UNCHANGED <<sort, stagedVars, dialogVars, worldVars>>

AskRefresh ==
  /\ KeyReady
  /\ ~err
  /\ relation
  /\ Dirty
  /\ overlay' = "refresh"
  /\ UNCHANGED <<pageVars, stagedVars, statusVars, editor, applyReloadFirst,
                 op, worldVars>>

NextSort(s) ==
  CASE s = "default" -> "asc" [] s = "asc" -> "desc" [] s = "desc" -> "default"
CycleSort ==
  /\ BrowseKey
  /\ relation
  /\ sort' = NextSort(sort)
  /\ StartPage(FirstPage(NextSort(sort)), 1, op)
  /\ UnchangedPage
  /\ UNCHANGED <<stagedVars, dialogVars, worldVars>>
-----------------------------------------------------------------------------
(***************************************************************************)
(* Staging, by key on an idle grid or by click at any time.                *)
(***************************************************************************)
UnchangedByStaging ==
  UNCHANGED <<pageVars, statusVars, applyReloadFirst, op, worldVars>>

StageInsert ==
  /\ GridInput
  /\ relation /\ Writable
  /\ nextDraft <= MaxDrafts
  /\ inserts' = inserts \cup {nextDraft}
  /\ filled' = IF RequiredColumn THEN filled ELSE filled \cup {nextDraft}
  /\ nextDraft' = nextDraft + 1
  /\ UnchangedByStaging
  /\ UNCHANGED <<updates, deletes, editor, overlay>>

Editable(ref) == ref.kind = "row" => deletes[ref.id] = 0 /\ ref.id \in Touched

OpenEditor ==
  /\ GridInput
  /\ relation /\ Writable
  /\ \E ref \in Refs, i \in 1..(Cardinality(inserts) + Cardinality(Shown)) :
       /\ IsLine(i, ref)
       /\ Editable(ref)
       /\ editor' = [row |-> i, target |-> ref, awaits |-> active.req]
  /\ UnchangedByStaging
  /\ UNCHANGED <<stagedVars, overlay>>

\* same: whether the value is the one the page shows, so that nothing is left
\* to stage on the row.
StageValue(ref, same) ==
  \/ /\ ref.kind = "draft"
     /\ filled' = filled \cup {ref.id}
     /\ UNCHANGED updates
  \/ /\ ref.kind = "row"
     /\ updates' = [updates EXCEPT ![ref.id] =
                      IF same THEN 0
                      ELSE IF @ # 0 THEN @ ELSE page.shown[ref.id]]
     /\ UNCHANGED filled

CommitEditor ==
  /\ ~Busy
  /\ editor # NoEditor
  /\ editor' = NoEditor
  /\ \/ \E ref \in Refs, same \in BOOLEAN :
          IsLine(editor.row, ref) /\ StageValue(ref, same)
     \/ /\ \A ref \in Refs : ~IsLine(editor.row, ref)
        /\ UNCHANGED <<filled, updates>>
  /\ UnchangedByStaging
  /\ UNCHANGED <<inserts, deletes, nextDraft, overlay>>

CancelEditor ==
  /\ ~Busy
  /\ editor # NoEditor
  /\ editor' = NoEditor
  /\ UnchangedByStaging
  /\ UNCHANGED <<stagedVars, overlay>>

\* SQL NULL or DEFAULT, where the column allows them.
StageSpecial ==
  /\ GridInput
  /\ Writable /\ ~RequiredColumn
  /\ \E ref \in Refs, same \in BOOLEAN :
       /\ \E i \in 1..(Cardinality(inserts) + Cardinality(Shown)) :
            IsLine(i, ref)
       /\ Editable(ref)
       /\ StageValue(ref, same)
  /\ UnchangedByStaging
  /\ UNCHANGED <<inserts, deletes, nextDraft, editor, overlay>>

DropDraft(d) ==
  /\ inserts' = inserts \ {d}
  /\ filled' = filled \ {d}

ToggleDelete ==
  /\ GridInput
  /\ \/ /\ \E d \in inserts : DropDraft(d)
        /\ UNCHANGED deletes
     \/ /\ Writable
        /\ \E k \in Shown \cap Touched :
             deletes' = [deletes EXCEPT ![k] =
                           IF @ # 0 THEN 0 ELSE page.shown[k]]
        /\ UNCHANGED <<inserts, filled>>
  /\ UnchangedByStaging
  /\ UNCHANGED <<updates, nextDraft, editor, overlay>>

RevertRow ==
  /\ GridInput
  /\ \/ /\ \E d \in inserts : DropDraft(d)
        /\ UNCHANGED <<updates, deletes>>
     \/ /\ \E k \in Shown :
             /\ updates' = [updates EXCEPT ![k] = 0]
             /\ deletes' = [deletes EXCEPT ![k] = 0]
        /\ UNCHANGED <<inserts, filled>>
  /\ UnchangedByStaging
  /\ UNCHANGED <<nextDraft, editor, overlay>>
-----------------------------------------------------------------------------
(***************************************************************************)
(* Dialogs.                                                                *)
(***************************************************************************)
ValidSubmitted == Dirty
Valid == inserts \subseteq filled

UnchangedByDialog ==
  UNCHANGED <<pageVars, active, nextRequest, editor, op, worldVars>>

\* The key or click Apply, from the grid or from the summary of changes.
RequestApply ==
  /\ \/ GridInput
     \/ overlay = "changes" /\ editor = NoEditor /\ ~Busy
  /\ Dirty
  /\ Valid
  /\ overlay' = "apply"
  /\ applyReloadFirst' = FALSE
  /\ UnchangedByDialog
  /\ UNCHANGED <<stagedVars, lifecycle, err>>

\* The key a in the dialog of a failed apply.
ApplyAgain ==
  /\ overlay = "mutation-error" /\ editor = NoEditor /\ ~Busy
  /\ err' = FALSE
  /\ lifecycle' = "idle"
  /\ \/ /\ Dirty /\ Valid
        /\ overlay' = "apply"
        /\ applyReloadFirst' = FALSE
     \/ /\ ~(Dirty /\ Valid)
        /\ overlay' = "none"
        /\ UNCHANGED applyReloadFirst
  /\ UnchangedByDialog
  /\ UNCHANGED stagedVars

ConfirmApply ==
  /\ overlay = "apply"
  /\ DialogInput
  /\ Dirty
  /\ StartApply
  /\ UnchangedPage
  /\ UNCHANGED <<sort, stagedVars, editor, applyReloadFirst, worldVars>>

OpenSummary ==
  /\ GridInput
  /\ Dirty
  /\ overlay' \in {"revert-all", "changes"}
  /\ UnchangedByDialog
  /\ UNCHANGED <<stagedVars, lifecycle, err, applyReloadFirst>>

CloseDialog ==
  /\ overlay # "none"
  /\ editor = NoEditor
  /\ ~Busy \/ (Mouse /\ overlay \in {"apply", "refresh", "revert-all"})
  /\ overlay' = "none"
  /\ \/ /\ overlay = "mutation-error"
        /\ err' = FALSE
        /\ lifecycle' = "idle"
     \/ /\ overlay # "mutation-error"
        /\ UNCHANGED <<err, lifecycle>>
  /\ UnchangedByDialog
  /\ UNCHANGED <<stagedVars, applyReloadFirst>>

RevertAll ==
  /\ overlay = "revert-all"
  /\ DialogInput
  /\ ClearChanges
  /\ UNCHANGED <<pageVars, nextDraft, statusVars, op, worldVars>>

\* The three answers to a refresh of a dirty tab: apply, which is refused when
\* a draft is incomplete, revert and refresh, or CloseDialog.
RefreshApply ==
  /\ overlay = "refresh"
  /\ DialogInput
  /\ Valid
  /\ Dirty
  /\ applyReloadFirst' = TRUE
  /\ StartApply
  /\ UnchangedPage
  /\ UNCHANGED <<sort, stagedVars, editor, worldVars>>

RefreshRevert ==
  /\ overlay = "refresh"
  /\ DialogInput
  /\ MayBegin
  /\ ClearChanges
  /\ StartPage(FirstPage(sort), 1, op)
  /\ UnchangedPage
  /\ UNCHANGED <<sort, nextDraft, worldVars>>

\* Ctrl+C while a request is awaited.  Bound: one cancellation on its way.
CtrlCAnyTime ==
  /\ cancels = {}
  /\ cancels' = {active.req}
  /\ UNCHANGED <<tabVars, op, dbVars>>
CtrlC ==
  /\ Busy
  /\ cancels = {}
  /\ cancels' = {active.req}
  /\ UNCHANGED <<tabVars, op, dbVars>>
-----------------------------------------------------------------------------
(***************************************************************************)
(* Requests: dispatch, cancellation and execution.                         *)
(***************************************************************************)
Running(r) == op[r].stage \in {"running", "commit"}

\* The intent reaches the root model, which registers its context.
Dispatch(r) ==
  /\ op[r].stage = "intent"
  /\ op' = [op EXCEPT ![r].stage = "running"]
  /\ UNCHANGED <<tabVars, worldVars>>

\* The registry knows an operation from its dispatch until its work returns.
RegisteredUntilCommit(r) == op[r].stage = "running"
Registered(r) == Running(r)

\* The cancellation is lost on a request that is not registered (yet).
DeliverCancel(r) ==
  /\ r \in cancels
  /\ cancels' = cancels \ {r}
  /\ op' = IF Registered(r) THEN [op EXCEPT ![r].cancelled = TRUE] ELSE op
  /\ UNCHANGED <<tabVars, dbVars>>

\* The goroutine of r returns; its locks and its context are gone.
Reply(r, outcome, answer, committed) ==
  /\ op' = [op EXCEPT ![r] =
              [@ EXCEPT !.stage = "reply", !.outcome = outcome,
                        !.answer = answer, !.committed = committed,
                        !.asks = NoPageRequest, !.done = {},
                        !.cancelled = FALSE]]
  /\ UNCHANGED <<tabVars, cancels>>

Works(r, kind) ==
  op[r].stage = "running" /\ op[r].kind = kind /\ ~op[r].cancelled

\* The server refuses, the connection fails or the context is cancelled; what a
\* transaction has done is rolled back.
ExecFail(r) ==
  /\ op[r].stage = "running"
  /\ \E outcome \in {"failed", "cancelled"} :
       /\ outcome = "cancelled" => op[r].cancelled
       /\ Reply(r, outcome, EmptyPage, FALSE)
  /\ UNCHANGED dbVars

ExecDescribe(r) ==
  /\ Works(r, "describe")
  /\ Reply(r, "ok", EmptyPage, FALSE)
  /\ UNCHANGED dbVars

\* The rows the seek predicate of a request leaves, and the rows of a page:
\* the first PageSize of them, counted from the end for a previous page.
Candidates(asks) ==
  {k \in Keys : /\ table[k] # 0
                /\ CASE asks.dir = "next" ->
                          Before(asks.sort, asks.cursor.key, k)
                     [] asks.dir = "previous" ->
                          Before(asks.sort, k, asks.cursor.key)
                     [] OTHER -> TRUE}
WindowForwards(asks) ==
  LET S == Candidates(asks)
  IN {k \in S : Cardinality({j \in S : Before(asks.sort, j, k)}) < PageSize}
Window(asks) ==
  LET S == Candidates(asks)
      Ahead(k) == {j \in S : IF asks.dir = "previous" THEN Before(asks.sort, k, j)
                                                      ELSE Before(asks.sort, j, k)}
  IN {k \in S : Cardinality(Ahead(k)) < PageSize}

\* fetchKeysetPage: the page, with cursors at its first and last row.
PageAnswer(r, first, last) ==
  LET asks == op[r].asks
      W == Window(asks)
      extra == Cardinality(Candidates(asks)) > PageSize
      hasPrevious == asks.dir = "next" \/ (asks.dir = "previous" /\ extra)
      hasNext == extra \/ asks.dir = "previous"
      Cursor(has, end) ==
        IF has /\ end # 0 THEN [key |-> end, sort |-> asks.sort] ELSE NoCursor
  IN [shown |-> [k \in Keys |-> IF k \in W THEN table[k] ELSE 0],
      sort |-> asks.sort,
      next |-> Cursor(hasNext, last), prev |-> Cursor(hasPrevious, first),
      ord |-> asks.ord, req |-> r]

\* Of a page without rows there are no ends: 0 stands for them.
Ends(W, s, first, last) ==
  IF W = {} THEN first = 0 /\ last = 0
  ELSE /\ first \in W /\ \A k \in W : ~Before(s, k, first)
       /\ last \in W /\ \A k \in W : ~Before(s, last, k)

ExecPage(r) ==
  /\ Works(r, "page")
  /\ op[r].asks.dir # "first" => op[r].asks.cursor.sort = op[r].asks.sort
  /\ \E first, last \in Keys \cup {0} :
       /\ Ends(Window(op[r].asks), op[r].asks.sort, first, last)
       /\ Reply(r, "ok", PageAnswer(r, first, last), FALSE)
  /\ UNCHANGED dbVars

\* A cursor of another sort is refused (validateKeysetCursor).
ExecPageRefused(r) ==
  /\ Works(r, "page")
  /\ op[r].asks.dir # "first"
  /\ op[r].asks.cursor.sort # op[r].asks.sort
  /\ Reply(r, "failed", EmptyPage, FALSE)
  /\ UNCHANGED dbVars

(***************************************************************************)
(* The transaction of Apply: deletes and then updates, each row found by   *)
(* its identity and original xmin and then locked, the drafts, COMMIT.     *)
(***************************************************************************)
\* optimisticPredicate: the row has its original identity and xmin.
MatchesIdentityOnly(k, original) == table[k] # 0
Matches(k, original) == table[k] = original

Original(b, k) == IF b.deletes[k] # 0 THEN b.deletes[k] ELSE b.updates[k]
Mutated(b) == {k \in Keys : Original(b, k) # 0}
Todo(r) == Mutated(op[r].batch) \ op[r].done
Earlier(b, j, k) == \/ b.deletes[j] # 0 /\ b.deletes[k] = 0
                    \/ (b.deletes[j] # 0 <=> b.deletes[k] # 0) /\ j < k
Locked(k) == \E q \in Requests : Running(q) /\ k \in op[q].done

ExecMutation(r) ==
  /\ Works(r, "apply")
  /\ \E k \in Todo(r) :
       /\ \A j \in Todo(r) \ {k} : ~Earlier(op[r].batch, j, k)
       /\ ~Locked(k)
       /\ \/ /\ Matches(k, Original(op[r].batch, k))
             /\ op' = [op EXCEPT ![r].done = @ \cup {k}]
             /\ UNCHANGED <<tabVars, cancels>>
          \/ /\ ~Matches(k, Original(op[r].batch, k))
             /\ Reply(r, "failed", EmptyPage, FALSE)
  /\ UNCHANGED dbVars

ExecInsertsEarly(r) ==
  /\ Works(r, "apply")
  /\ op' = [op EXCEPT ![r].stage = "commit"]
  /\ UNCHANGED <<tabVars, worldVars>>
ExecInserts(r) ==
  /\ Works(r, "apply")
  /\ Todo(r) = {}
  /\ op' = [op EXCEPT ![r].stage = "commit"]
  /\ UNCHANGED <<tabVars, worldVars>>

\* The changes of a batch become visible, all of them at once.
LandBatch(b) ==
  /\ table' = [k \in Keys |-> IF b.deletes[k] # 0 THEN 0
                              ELSE IF b.updates[k] # 0 THEN xid + 1
                              ELSE table[k]]
  /\ landed' = [d \in Drafts |->
                  IF d \in b.inserts THEN landed[d] + 1 ELSE landed[d]]
  /\ xid' = xid + 1
  /\ UNCHANGED external

Commit(r) ==
  /\ op[r].stage = "commit"
  /\ Reply(r, "ok", EmptyPage, TRUE)
  /\ LandBatch(op[r].batch)
  /\ UNCHANGED doubted

\* PostgreSQL answers COMMIT with ROLLBACK (pgx.ErrTxCommitRollback).
CommitRefused(r) ==
  /\ op[r].stage = "commit"
  /\ Reply(r, "failed", EmptyPage, FALSE)
  /\ UNCHANGED dbVars

\* Any other error of COMMIT, a cancelled context included: nobody knows.
CommitUncertain(r) ==
  /\ UncertainCommit
  /\ op[r].stage = "commit"
  /\ doubted' = doubted \cup op[r].batch.inserts
  /\ \/ Reply(r, "uncertain", EmptyPage, TRUE) /\ LandBatch(op[r].batch)
     \/ /\ Reply(r, "uncertain", EmptyPage, FALSE)
        /\ UNCHANGED <<table, xid, external, landed>>

\* Another session updates or deletes a row no transaction has locked.
ExternalWrite ==
  /\ external < MaxExternal
  /\ external' = external + 1
  /\ xid' = xid + 1
  /\ \E k \in Keys, x \in {0, xid + 1} :
       /\ table[k] # 0
       /\ ~Locked(k)
       /\ table' = [table EXCEPT ![k] = x]
  /\ UNCHANGED <<tabVars, op, cancels, landed, doubted>>
-----------------------------------------------------------------------------
(***************************************************************************)
(* Replies.                                                                *)
(***************************************************************************)
AnswersByKind(r) == op[r].stage = "reply" /\ active.kind = op[r].kind
Answers(r) ==
  op[r].stage = "reply" /\ active = [kind |-> op[r].kind, req |-> r]

\* A request is forgotten when its reply has been handled.
Closed(r) == [op EXCEPT ![r] = [NoOp EXCEPT !.stage = "done"]]

DeliverDescribed(r) ==
  /\ Answers(r)
  /\ op[r].kind = "describe" /\ op[r].outcome = "ok"
  /\ relation' = TRUE
  /\ StartPage(FirstPage("default"), 1, Closed(r))
  /\ UNCHANGED <<page, pageNumber, sort, stagedVars, dialogVars, worldVars>>

DeliverPage(r) ==
  /\ Answers(r)
  /\ op[r].kind = "page" /\ op[r].outcome = "ok"
  /\ active' = Idle
  /\ page' = op[r].answer
  /\ pageNumber' = AtLeastOne(pendingPage)
  /\ err' = FALSE
  /\ lifecycle' = "idle"
  /\ op' = Closed(r)
  /\ UNCHANGED <<relation, pendingRequest, pendingPage, sort, stagedVars,
                 dialogVars, nextRequest, worldVars>>

\* The changes are cleared first, and applyReloadFirst with them: the choice of
\* the page to reload reads the cleared flag.
DeliverApplied(r) ==
  /\ Answers(r)
  /\ op[r].kind = "apply" /\ op[r].outcome = "ok"
  /\ ClearChanges
  /\ LET first == pendingRequest.dir = "none" \/ applyReloadFirst'
     IN StartPage(IF first THEN FirstPage(sort) ELSE pendingRequest,
                  IF first THEN 1 ELSE AtLeastOne(pageNumber), Closed(r))
  /\ UnchangedPage
  /\ UNCHANGED <<sort, nextDraft, worldVars>>

DeliverFailed(r) ==
  /\ Answers(r)
  /\ op[r].outcome \in {"failed", "uncertain"}
  /\ active' = Idle
  /\ err' = TRUE
  /\ lifecycle' = "failed"
  /\ overlay' = IF op[r].kind = "apply" THEN "mutation-error" ELSE overlay
  /\ op' = Closed(r)
  /\ UNCHANGED <<pageVars, stagedVars, editor, applyReloadFirst, nextRequest,
                 worldVars>>

DeliverCancelled(r) ==
  /\ Answers(r)
  /\ op[r].outcome = "cancelled"
  /\ active' = Idle
  /\ err' = FALSE
  /\ lifecycle' = "idle"
  /\ overlay' = "none"
  /\ op' = Closed(r)
  /\ UNCHANGED <<pageVars, stagedVars, editor, applyReloadFirst, nextRequest,
                 worldVars>>

\* A reply that is no longer awaited is dropped.
DeliverStale(r) ==
  /\ op[r].stage = "reply"
  /\ ~Answers(r)
  /\ op' = Closed(r)
  /\ UNCHANGED <<tabVars, worldVars>>
-----------------------------------------------------------------------------
Deliver(r) ==
  \/ DeliverDescribed(r) \/ DeliverPage(r) \/ DeliverApplied(r)
  \/ DeliverFailed(r) \/ DeliverCancelled(r) \/ DeliverStale(r)

Execute(r) ==
  \/ ExecFail(r) \/ ExecDescribe(r)
  \/ ExecPage(r) \/ ExecPageRefused(r)
  \/ ExecMutation(r) \/ ExecInserts(r)
  \/ Commit(r) \/ CommitRefused(r) \/ CommitUncertain(r)

Input ==
  \/ NextPage \/ PreviousPage \/ Retry \/ DescribeAgain
  \/ Refresh \/ AskRefresh \/ CycleSort
  \/ StageInsert \/ OpenEditor \/ CommitEditor \/ CancelEditor
  \/ StageSpecial \/ ToggleDelete \/ RevertRow
  \/ RequestApply \/ ApplyAgain \/ ConfirmApply
  \/ OpenSummary \/ CloseDialog \/ RevertAll
  \/ RefreshApply \/ RefreshRevert \/ CtrlC

Next ==
  \/ Input
  \/ \E r \in Requests : Dispatch(r) \/ DeliverCancel(r)
  \/ \E r \in Requests : Execute(r) \/ Deliver(r)
  \/ ExternalWrite

Spec == Init /\ [][Next]_vars

(***************************************************************************)
(* Fairness.  The runtime delivers every message and runs every command.   *)
(* The server may never answer; only a cancelled context makes a call      *)
(* return: the page and apply calls have no timeout of their own.  The     *)
(* user owes nothing.                                                      *)
(***************************************************************************)
RuntimeFairness(r) ==
  WF_vars(Dispatch(r)) /\ WF_vars(DeliverCancel(r)) /\ WF_vars(Deliver(r))

HungSpec ==
  Spec /\ \A r \in Requests :
            RuntimeFairness(r) /\ WF_vars(op[r].cancelled /\ Execute(r))
-----------------------------------------------------------------------------
(***************************************************************************)
(* Properties.                                                             *)
(***************************************************************************)
Sent(r) == op[r].stage # "intent" /\ op'[r].stage = "intent"
Handled(r) == op[r].stage = "reply" /\ op'[r].stage = "done"

\* An open editor, which remembers a line number, still stands on the row or
\* draft it was opened on (cellEditor.Row, read again by commitEditor), unless
\* the page that was awaited when a click opened it has been displayed under it.
\* Nothing else moves its line: no draft, reload, late page or other request.
EditorKeepsRow ==
  editor # NoEditor =>
    \/ IsLine(editor.row, editor.target)
    \/ editor.awaits # 0 /\ page.req = editor.awaits

\* Every draft that is sent to be applied has its required values: whichever
\* way the apply was reached, validateChanges saw the drafts that are sent.
ValidatedWhenSent ==
  [][\A r \in Requests : Sent(r) => op'[r].batch.inserts \subseteq filled]_vars

\* A draft becomes at most one row, unless a commit that carried it went
\* unacknowledged: no apply that committed, or that was reported rolled back,
\* is followed by a second insertion of the draft (clearChanges, Apply).
AppliedOnce == \A d \in Drafts : landed[d] > 1 => d \in doubted

\* What the tab stops staging when a reply arrives has been committed by the
\* request that was answered (AppliedMsg; "cleared only after a confirmed
\* commit"): no failure, cancellation or late reply discards an edit.
ClearedOnlyAfterCommit ==
  [][\A r \in Requests :
       Handled(r) =>
         /\ \A d \in inserts \ inserts' :
              op[r].committed /\ d \in op[r].batch.inserts
         /\ \A k \in Keys :
              /\ updates[k] # 0 /\ updates'[k] = 0 =>
                   op[r].committed /\ Original(op[r].batch, k) # 0
              /\ deletes[k] # 0 /\ deletes'[k] = 0 =>
                   op[r].committed /\ op[r].batch.deletes[k] = deletes[k]]_vars

\* When a transaction commits, every row it updates or deletes is still the row
\* its change was staged on: nobody's write in between is overwritten
\* (optimisticPredicate and the row locks of the transaction).
NoLostUpdate ==
  [][\A r \in Requests :
       op'[r].committed /\ ~op[r].committed =>
         \A k \in Mutated(op[r].batch) :
           table[k] = Original(op[r].batch, k)]_vars

\* An apply chosen in the dialog that asks what to do with staged changes before
\* a refresh is followed by the first page, as the refresh would have been
\* (applyReloadFirst, read when AppliedMsg arrives).
RefreshLoadsFirstPage ==
  [][\A r \in Requests :
       /\ Answers(r) /\ Handled(r)
       /\ op[r].kind = "apply" /\ op[r].outcome = "ok" /\ applyReloadFirst
       => pendingRequest'.dir = "first"]_vars

\* The requests that apply changes, with the transactions, the other writers and
\* the replies, do what AtomicApply promises.
Job(r) ==
  IF op[r].kind # "apply" THEN [state |-> "idle", batch |-> NoBatch, report |-> "none"]
  ELSE IF op[r].stage = "reply"
  THEN [state |-> "settled", batch |-> NoBatch, report |-> op[r].outcome]
  ELSE [state |-> "pending", batch |-> op[r].batch, report |-> "none"]
Promise == INSTANCE AtomicApply WITH job <- [r \in Requests |-> Job(r)],
                                     version <- xid
AppliesAtomically == Promise!Spec

\* As long as nobody writes to the table, the page labelled n shows the n-th
\* page of the rows in the order of its sort, whichever way it was reached:
\* forwards, backwards, by a retry, after a cancellation (cursors, pageNumber).
Rank(s, k) == Cardinality({j \in Keys : ~Before(s, k, j)})
PageShowsItsNumber ==
  page.req # 0 /\ xid = 1 =>
    Shown = {k \in Keys : /\ Rank(page.sort, k) > (pageNumber - 1) * PageSize
                          /\ Rank(page.sort, k) <= pageNumber * PageSize}

\* A page that is displayed answers the page request made last, and a later one
\* than the page it replaces: a late page neither overwrites a newer one nor
\* comes before the one that is awaited (grid.Model.matches).
PageIsLatest ==
  [][page' # page =>
       /\ page'.req > page.req
       /\ \A r \in Requests : r > page'.req => op[r].kind # "page"]_vars

\* Even if the server hangs, a cancellation sent to a request that is running
\* ends it: the tab does not wait for ever (CancelIntent, CancellationRegistry).
CancelEnds ==
  \A r \in Requests : r \in cancels /\ Running(r) ~> active.req # r
=============================================================================
