--------------------------- MODULE TableTab_proofs ---------------------------
(***************************************************************************)
(* Theorems about TableTab, for every value of its constants: the types,   *)
(* the transactions, and that they implement AtomicApply; then what the    *)
(* user sees and sends: pages in the order they were asked for, drafts     *)
(* that were validated and, until somebody writes to the table, pages that *)
(* are labelled with their number, whatever is clicked; and, with the      *)
(* keyboard alone, whose keys wait for the reply, an editor that stays on  *)
(* its row, changes that are cleared only by their commit, drafts that are *)
(* inserted once.                                                          *)
(***************************************************************************)
EXTENDS TableTab, TLAPS, FiniteSetTheorems, WellFoundedInduction

(***************************************************************************)
(* The values the definitions of TableTab return have their types.         *)
(***************************************************************************)
\* The blank records are well typed.
LEMMA BlankTypes ==
  /\ NoCursor \in Cursors
  /\ NoPageRequest \in PageRequests
  /\ \A s \in Sorts : FirstPage(s) \in PageRequests
  /\ NoBatch \in Batches
  /\ EmptyPage \in Pages
  /\ NoOp \in Ops
  <1>1. NoCursor \in Cursors
    BY DEF NoCursor, Cursors, Sorts
  <1>2. NoPageRequest \in PageRequests
    BY <1>1 DEF NoPageRequest, PageRequests, Sorts
  <1>3. \A s \in Sorts : FirstPage(s) \in PageRequests
    BY <1>1 DEF FirstPage, PageRequests
  <1>4. NoBatch \in Batches
    BY DEF NoBatch, Batches, Xids
  <1>5. EmptyPage \in Pages
    BY <1>1 DEF EmptyPage, Pages, Xids, Sorts
  <1>6. NoOp \in Ops
    BY <1>2, <1>4, <1>5 DEF NoOp, Ops, Kinds, Stages, Outcomes
  <1>7. QED
    BY <1>1, <1>2, <1>3, <1>4, <1>5, <1>6

\* A request that begins is a well-typed request.
LEMMA IntentType ==
  ASSUME NEW kind \in Kinds, NEW asks \in PageRequests, NEW batch \in Batches
  PROVE  Intent(kind, asks, batch) \in Ops
  BY BlankTypes DEF Intent, Ops, Stages

\* The staged changes are a well-typed batch (mutationsSnapshot).
LEMMA SnapshotType ==
  ASSUME StagedTypeOK
  PROVE  MutationsSnapshot \in Batches
  BY DEF StagedTypeOK, MutationsSnapshot, Batches, Xids

\* Closing a request keeps every request well typed.
LEMMA ClosedType ==
  ASSUME OpTypeOK, NEW r \in Requests
  PROVE  Closed(r) \in [Requests -> Ops]
  <1>1. [NoOp EXCEPT !.stage = "done"] \in Ops
    BY BlankTypes DEF Ops, Stages
  <1>2. QED
    BY <1>1 DEF OpTypeOK, Closed

(***************************************************************************)
(* What the handlers share keeps the types.                                *)
(***************************************************************************)
\* Beginning a request keeps the status and the requests well typed (meta).
LEMMA BeginType ==
  ASSUME StatusTypeOK,
         NEW kind \in Kinds \ {"none"}, NEW asks \in PageRequests,
         NEW batch \in Batches, NEW ops \in [Requests -> Ops],
         Begin(kind, asks, batch, ops)
  PROVE  StatusTypeOK' /\ OpTypeOK'
  <1>1. OpTypeOK'
    BY IntentType DEF Begin, OpTypeOK
  <1>2. nextRequest' \in 1..(MaxRequests + 1)
    BY ConstantsAssumption DEF Begin, Requests
  <1>3. active' \in [kind : Kinds \ {"none"}, req : Requests]
    BY DEF Begin
  <1>4. lifecycle' = "running" /\ err' = FALSE
    BY DEF Begin
  <1>5. QED
    BY <1>1, <1>2, <1>3, <1>4 DEF StatusTypeOK

\* Starting a page keeps what it changes well typed (startPage).
LEMMA StartPageType ==
  ASSUME StatusTypeOK,
         NEW asks \in PageRequests, NEW target \in Int,
         NEW ops \in [Requests -> Ops],
         StartPage(asks, target, ops)
  PROVE  /\ StatusTypeOK' /\ OpTypeOK'
         /\ pendingRequest' \in PageRequests
         /\ pendingPage' \in Int
  <1>1. "page" \in Kinds \ {"none"}
    BY DEF Kinds
  <1>2. QED
    BY <1>1, BeginType, BlankTypes DEF StartPage

\* Starting an apply keeps what it changes well typed (startApply).
LEMMA StartApplyType ==
  ASSUME TypeOK, StartApply
  PROVE  /\ StatusTypeOK' /\ OpTypeOK' /\ overlay' \in Overlays
         /\ pendingRequest' \in PageRequests
         /\ pendingPage' \in Int
  <1>1. "apply" \in Kinds \ {"none"} /\ overlay' \in Overlays
    BY DEF Kinds, Overlays, StartApply
  <1>2. QED
    BY <1>1, BeginType, BlankTypes, SnapshotType
    DEF StartApply, TypeOK, OpTypeOK, PageTypeOK

\* Clearing the changes keeps them well typed (clearChanges).
LEMMA ClearChangesType ==
  ASSUME ClearChanges, nextDraft' = nextDraft, StagedTypeOK
  PROVE  StagedTypeOK' /\ DialogTypeOK'
  <1>1. StagedTypeOK'
    BY DEF ClearChanges, StagedTypeOK, Xids
  <1>2. editor' \in Editors
    BY DEF ClearChanges, NoEditor, Editors
  <1>3. overlay' \in Overlays /\ applyReloadFirst' \in BOOLEAN
    BY DEF ClearChanges, Overlays
  <1>4. QED
    BY <1>1, <1>2, <1>3 DEF DialogTypeOK

\* A reply keeps the requests well typed.
LEMMA ReplyType ==
  ASSUME OpTypeOK, NEW r \in Requests, NEW outcome \in Outcomes,
         NEW answer \in Pages, NEW flag \in BOOLEAN,
         Reply(r, outcome, answer, flag)
  PROVE  OpTypeOK'
  BY BlankTypes DEF OpTypeOK, Reply, Ops, Stages

\* The answer to a page request is a page (fetchKeysetPage).
LEMMA PageAnswerType ==
  ASSUME OpTypeOK, WorldTypeOK, NEW r \in Requests,
         NEW first \in Keys \cup {0}, NEW last \in Keys \cup {0}
  PROVE  PageAnswer(r, first, last) \in Pages
  <1>1. op[r].asks \in PageRequests
    BY DEF OpTypeOK, Ops
  <1>2. ASSUME NEW has \in BOOLEAN, NEW end \in Keys \cup {0}
        PROVE  (IF has /\ end # 0 THEN [key |-> end, sort |-> op[r].asks.sort]
                                  ELSE NoCursor) \in Cursors
    BY <1>1, BlankTypes DEF Cursors, PageRequests
  <1>3. [k \in Keys |-> IF k \in Window(op[r].asks) THEN table[k] ELSE 0]
           \in [Keys -> Xids]
    BY DEF WorldTypeOK, Xids
  <1>4. QED
    BY <1>1, <1>2, <1>3 DEF PageAnswer, Pages, PageRequests

\* A commit keeps the table well typed.
LEMMA LandBatchType ==
  ASSUME WorldTypeOK, NEW b \in Batches, LandBatch(b),
         cancels' = cancels, doubted' \subseteq Drafts
  PROVE  WorldTypeOK'
  BY DEF WorldTypeOK, LandBatch, Batches, Xids

\* Staging a value keeps the changes well typed (stageValue).
LEMMA StageValueType ==
  ASSUME PageTypeOK, StagedTypeOK, NEW ref \in Refs, NEW same \in BOOLEAN,
         StageValue(ref, same)
  PROVE  filled' \subseteq Drafts /\ updates' \in [Keys -> Xids]
  BY DEF PageTypeOK, StagedTypeOK, StageValue, Refs, Pages, Xids

(***************************************************************************)
(* What an action leaves alone keeps its type.                             *)
(***************************************************************************)
\* Every part of the type invariant depends on its own variables.
LEMMA SameTypes ==
  ASSUME TypeOK
  PROVE  /\ UNCHANGED pageVars => PageTypeOK'
         /\ UNCHANGED stagedVars => StagedTypeOK'
         /\ UNCHANGED dialogVars => DialogTypeOK'
         /\ UNCHANGED statusVars => StatusTypeOK'
         /\ UNCHANGED op => OpTypeOK'
         /\ UNCHANGED worldVars => WorldTypeOK'
  <1>1. UNCHANGED pageVars => PageTypeOK'
    BY DEF TypeOK, PageTypeOK, pageVars
  <1>2. UNCHANGED stagedVars => StagedTypeOK'
    BY DEF TypeOK, StagedTypeOK, stagedVars
  <1>3. UNCHANGED dialogVars => DialogTypeOK'
    BY DEF TypeOK, DialogTypeOK, dialogVars
  <1>4. UNCHANGED statusVars => StatusTypeOK'
    BY DEF TypeOK, StatusTypeOK, statusVars
  <1>5. UNCHANGED op => OpTypeOK'
    BY DEF TypeOK, OpTypeOK
  <1>6. UNCHANGED worldVars => WorldTypeOK'
    BY DEF TypeOK, WorldTypeOK, worldVars, dbVars
  <1>7. QED
    BY <1>1, <1>2, <1>3, <1>4, <1>5, <1>6

\* The initial state is well typed (NewModel).
LEMMA InitType == Init => TypeOK
  <1> SUFFICES ASSUME Init PROVE TypeOK
    OBVIOUS
  <1> USE ConstantsAssumption, BlankTypes
  <1>1. op \in [Requests -> Ops]
    BY IntentType DEF Init, Kinds
  <1>2. active \in [kind : Kinds \ {"none"}, req : Requests] \cup {Idle}
    BY DEF Init, Kinds, Requests
  <1>3. editor \in Editors
    BY DEF Init, NoEditor, Editors
  <1>4. nextRequest \in 1..(MaxRequests + 1) /\ nextDraft \in 1..(MaxDrafts + 1)
    BY DEF Init
  <1>5. /\ updates \in [Keys -> Xids] /\ deletes \in [Keys -> Xids]
        /\ inserts \subseteq Drafts /\ filled \subseteq Drafts
    BY DEF Init, Xids
  <1>6. WorldTypeOK
    BY DEF Init, Xids, WorldTypeOK
  <1>7. page \in Pages /\ pendingRequest \in PageRequests
    BY DEF Init
  <1>8. pageNumber \in Int /\ pendingPage \in Int
    BY DEF Init
  <1>9. /\ relation \in BOOLEAN /\ err \in BOOLEAN /\ applyReloadFirst \in BOOLEAN
        /\ sort \in Sorts /\ overlay \in Overlays
        /\ lifecycle \in {"idle", "running", "failed"}
    BY DEF Init, Sorts, Overlays
  <1>10. QED
    BY <1>1, <1>2, <1>3, <1>4, <1>5, <1>6, <1>7, <1>8, <1>9
    DEF TypeOK, PageTypeOK, StagedTypeOK, DialogTypeOK, StatusTypeOK, OpTypeOK

(***************************************************************************)
(* Every action keeps the types.                                           *)
(***************************************************************************)
\* The browsing keys keep the types.
LEMMA BrowsingType ==
  ASSUME TypeOK,
         NextPage \/ PreviousPage \/ Retry \/ DescribeAgain \/ Refresh
           \/ AskRefresh \/ CycleSort
  PROVE  TypeOK'
  <1> USE SameTypes DEF TypeOK
  <1>0. op \in [Requests -> Ops] /\ AtLeastOne(pageNumber - 1) \in Int
          /\ AtLeastOne(pendingPage) \in Int
    BY DEF OpTypeOK, PageTypeOK, AtLeastOne
  <1>1. CASE NextPage
    <2>1. [dir |-> "next", cursor |-> page.next, sort |-> sort,
           ord |-> page.ord + 1] \in PageRequests
      BY DEF PageTypeOK, Pages, PageRequests
    <2>2. pageNumber + 1 \in Int
      BY DEF PageTypeOK
    <2>3. PageTypeOK' /\ StatusTypeOK' /\ OpTypeOK'
      BY <1>0, <1>1, <2>1, <2>2, StartPageType
      DEF NextPage, PageTypeOK, UnchangedPage
    <2>4. QED
      BY <1>1, <2>3 DEF NextPage
  <1>2. CASE PreviousPage
    <2>1. [dir |-> "previous", cursor |-> page.prev, sort |-> sort,
           ord |-> page.ord - 1] \in PageRequests
      BY DEF PageTypeOK, Pages, PageRequests
    <2>2. PageTypeOK' /\ StatusTypeOK' /\ OpTypeOK'
      BY <1>0, <1>2, <2>1, StartPageType
      DEF PreviousPage, PageTypeOK, UnchangedPage
    <2>3. QED
      BY <1>2, <2>2 DEF PreviousPage
  <1>3. ASSUME Describe, UnchangedPage, UNCHANGED sort
        PROVE  PageTypeOK' /\ StatusTypeOK' /\ OpTypeOK'
    <2>1. "describe" \in Kinds \ {"none"}
      BY DEF Kinds
    <2>2. StatusTypeOK' /\ OpTypeOK'
      BY <1>0, <1>3, <2>1, BeginType, BlankTypes DEF Describe
    <2>3. QED
      BY <1>3, <2>2 DEF Describe, PageTypeOK, UnchangedPage
  <1>4. CASE Retry
    <2>1. CASE Describe
      BY <1>3, <1>4, <2>1 DEF Retry
    <2>2. CASE StartPage(pendingRequest, AtLeastOne(pendingPage), op)
      <3>1. PageTypeOK' /\ StatusTypeOK' /\ OpTypeOK'
        BY <1>0, <1>4, <2>2, StartPageType DEF Retry, PageTypeOK, UnchangedPage
      <3>2. QED
        BY <1>4, <3>1 DEF Retry
    <2>3. QED
      BY <1>4, <2>1, <2>2 DEF Retry
  <1>5. CASE DescribeAgain
    BY <1>3, <1>5 DEF DescribeAgain
  <1>6. CASE Refresh
    <2>1. FirstPage(sort) \in PageRequests
      BY BlankTypes DEF PageTypeOK
    <2>2. PageTypeOK' /\ StatusTypeOK' /\ OpTypeOK'
      BY <1>0, <1>6, <2>1, StartPageType DEF Refresh, PageTypeOK, UnchangedPage
    <2>3. QED
      BY <1>6, <2>2 DEF Refresh
  <1>7. CASE AskRefresh
    <2>1. DialogTypeOK' /\ StagedTypeOK' /\ StatusTypeOK' /\ PageTypeOK'
      BY <1>7 DEF AskRefresh, DialogTypeOK, Overlays
    <2>2. QED
      BY <1>7, <2>1 DEF AskRefresh
  <1>8. CASE CycleSort
    <2>1. NextSort(sort) \in Sorts
      BY DEF NextSort, PageTypeOK, Sorts
    <2>2. FirstPage(NextSort(sort)) \in PageRequests
      BY <2>1, BlankTypes
    <2>3. /\ StatusTypeOK' /\ OpTypeOK'
          /\ pendingRequest' \in PageRequests /\ pendingPage' \in Int
      BY <1>0, <1>8, <2>2, StartPageType DEF CycleSort
    <2>4. PageTypeOK'
      BY <1>8, <2>1, <2>3 DEF CycleSort, PageTypeOK, UnchangedPage
    <2>5. QED
      BY <1>8, <2>3, <2>4 DEF CycleSort
  <1>9. QED
    BY <1>1, <1>2, <1>4, <1>5, <1>6, <1>7, <1>8

\* The staging keys and clicks keep the types.
LEMMA StagingType ==
  ASSUME TypeOK,
         StageInsert \/ OpenEditor \/ CommitEditor \/ CancelEditor
           \/ StageSpecial \/ ToggleDelete \/ RevertRow
  PROVE  TypeOK'
  <1> USE SameTypes DEF TypeOK
  <1>0. ASSUME UnchangedByStaging, StagedTypeOK', DialogTypeOK'
        PROVE  TypeOK'
    BY <1>0 DEF UnchangedByStaging
  <1>1. CASE StageInsert
    <2>1. StagedTypeOK'
      BY <1>1, ConstantsAssumption DEF StageInsert, StagedTypeOK, Drafts
    <2>2. DialogTypeOK'
      BY <1>1 DEF StageInsert, DialogTypeOK, UnchangedByStaging
    <2>3. QED
      BY <1>0, <1>1, <2>1, <2>2 DEF StageInsert
  <1>2. CASE OpenEditor
    <2>1. PICK ref \in Refs,
               i \in 1..(Cardinality(inserts) + Cardinality(Shown)) :
                 editor' = [row |-> i, target |-> ref, awaits |-> active.req]
      BY <1>2 DEF OpenEditor
    <2>2. IsFiniteSet(inserts) /\ IsFiniteSet(Shown)
      <3>1. inserts \subseteq 1..MaxDrafts /\ IsFiniteSet(1..MaxDrafts)
        BY ConstantsAssumption, FS_Interval DEF StagedTypeOK, Drafts
      <3>2. Shown \subseteq Keys /\ IsFiniteSet(Keys)
        BY ConstantsAssumption DEF Shown
      <3>3. QED
        BY <3>1, <3>2, FS_Subset
    <2>3. Cardinality(inserts) + Cardinality(Shown) \in Nat
      BY <2>2, FS_CardinalityType
    <2>4. active.req \in Requests \cup {0}
      BY DEF StatusTypeOK, Idle
    <2>5. editor' \in Editors
      BY <2>1, <2>3, <2>4 DEF Editors
    <2>6. DialogTypeOK'
      BY <1>2, <2>5 DEF OpenEditor, DialogTypeOK, UnchangedByStaging
    <2>7. QED
      BY <1>0, <1>2, <2>6 DEF OpenEditor
  <1>3. CASE CommitEditor
    <2>1. filled' \subseteq Drafts /\ updates' \in [Keys -> Xids]
      <3>1. CASE \E ref \in Refs, same \in BOOLEAN : StageValue(ref, same)
        BY <3>1, StageValueType
      <3>2. CASE UNCHANGED <<filled, updates>>
        BY <3>2 DEF StagedTypeOK
      <3>3. QED
        BY <1>3, <3>1, <3>2 DEF CommitEditor
    <2>2. StagedTypeOK'
      BY <1>3, <2>1 DEF CommitEditor, StagedTypeOK
    <2>3. DialogTypeOK'
      BY <1>3 DEF CommitEditor, DialogTypeOK, NoEditor, Editors,
                        UnchangedByStaging
    <2>4. QED
      BY <1>0, <1>3, <2>2, <2>3 DEF CommitEditor
  <1>4. CASE CancelEditor
    <2>1. DialogTypeOK'
      BY <1>4 DEF CancelEditor, DialogTypeOK, NoEditor, Editors,
                        UnchangedByStaging
    <2>2. QED
      BY <1>0, <1>4, <2>1 DEF CancelEditor
  <1>5. CASE StageSpecial
    <2>1. filled' \subseteq Drafts /\ updates' \in [Keys -> Xids]
      BY <1>5, StageValueType DEF StageSpecial
    <2>2. StagedTypeOK'
      BY <1>5, <2>1 DEF StageSpecial, StagedTypeOK
    <2>3. DialogTypeOK'
      BY <1>5 DEF StageSpecial, DialogTypeOK, UnchangedByStaging
    <2>4. QED
      BY <1>0, <1>5, <2>2, <2>3 DEF StageSpecial
  <1>6. CASE ToggleDelete
    <2>1. inserts' \subseteq Drafts /\ filled' \subseteq Drafts
      BY <1>6 DEF ToggleDelete, DropDraft, StagedTypeOK
    <2>2. deletes' \in [Keys -> Xids]
      BY <1>6 DEF ToggleDelete, StagedTypeOK, PageTypeOK, Pages, Xids
    <2>3. StagedTypeOK'
      BY <1>6, <2>1, <2>2 DEF ToggleDelete, StagedTypeOK
    <2>4. DialogTypeOK'
      BY <1>6 DEF ToggleDelete, DialogTypeOK, UnchangedByStaging
    <2>5. QED
      BY <1>0, <1>6, <2>3, <2>4 DEF ToggleDelete
  <1>7. CASE RevertRow
    <2>1. StagedTypeOK'
      BY <1>7 DEF RevertRow, DropDraft, StagedTypeOK, Xids
    <2>2. DialogTypeOK'
      BY <1>7 DEF RevertRow, DialogTypeOK, UnchangedByStaging
    <2>3. QED
      BY <1>0, <1>7, <2>1, <2>2 DEF RevertRow
  <1>8. QED
    BY <1>1, <1>2, <1>3, <1>4, <1>5, <1>6, <1>7

\* The dialogs keep the types.
LEMMA DialogType ==
  ASSUME TypeOK,
         RequestApply \/ ApplyAgain \/ ConfirmApply \/ OpenSummary
           \/ CloseDialog \/ RevertAll \/ RefreshApply \/ RefreshRevert
           \/ CtrlC
  PROVE  TypeOK'
  <1> USE SameTypes DEF TypeOK
  <1>0. ASSUME UnchangedByDialog, UNCHANGED stagedVars,
               overlay' \in Overlays, applyReloadFirst' \in BOOLEAN,
               lifecycle' \in {"idle", "running", "failed"}, err' \in BOOLEAN
        PROVE  TypeOK'
    <2>1. DialogTypeOK'
      BY <1>0 DEF UnchangedByDialog, DialogTypeOK
    <2>2. StatusTypeOK'
      BY <1>0 DEF UnchangedByDialog, StatusTypeOK
    <2>3. QED
      BY <1>0, <2>1, <2>2 DEF UnchangedByDialog
  <1>1. CASE RequestApply
    BY <1>0, <1>1 DEF RequestApply, Overlays, StatusTypeOK
  <1>2. CASE ApplyAgain
    BY <1>0, <1>2 DEF ApplyAgain, Overlays, DialogTypeOK
  <1>3. CASE OpenSummary
    BY <1>0, <1>3 DEF OpenSummary, Overlays, StatusTypeOK, DialogTypeOK
  <1>4. CASE CloseDialog
    BY <1>0, <1>4 DEF CloseDialog, Overlays, StatusTypeOK, DialogTypeOK
  <1>5. CASE ConfirmApply
    <2>1. PageTypeOK'
      BY <1>5, StartApplyType DEF ConfirmApply, PageTypeOK, UnchangedPage
    <2>2. DialogTypeOK'
      BY <1>5, StartApplyType DEF ConfirmApply, DialogTypeOK
    <2>3. QED
      BY <1>5, <2>1, <2>2, StartApplyType DEF ConfirmApply
  <1>6. CASE RefreshApply
    <2>1. PageTypeOK'
      BY <1>6, StartApplyType DEF RefreshApply, PageTypeOK, UnchangedPage
    <2>2. DialogTypeOK'
      BY <1>6, StartApplyType DEF RefreshApply, DialogTypeOK
    <2>3. QED
      BY <1>6, <2>1, <2>2, StartApplyType DEF RefreshApply
  <1>7. CASE RevertAll
    BY <1>7, ClearChangesType DEF RevertAll
  <1>8. CASE RefreshRevert
    <2>1. FirstPage(sort) \in PageRequests
      BY BlankTypes DEF PageTypeOK
    <2>2. /\ StatusTypeOK' /\ OpTypeOK'
          /\ pendingRequest' \in PageRequests /\ pendingPage' \in Int
      BY <1>8, <2>1, StartPageType DEF RefreshRevert, OpTypeOK
    <2>3. PageTypeOK'
      BY <1>8, <2>2 DEF RefreshRevert, PageTypeOK, UnchangedPage
    <2>4. QED
      BY <1>8, <2>2, <2>3, ClearChangesType DEF RefreshRevert
  <1>9. CASE CtrlC
    <2>1. active.req \in Requests
      BY <1>9 DEF CtrlC, Busy, StatusTypeOK, Idle
    <2>2. WorldTypeOK'
      BY <1>9, <2>1 DEF CtrlC, WorldTypeOK, dbVars
    <2>3. QED
      BY <1>9, <2>2 DEF CtrlC, tabVars
  <1>10. QED
    BY <1>1, <1>2, <1>3, <1>4, <1>5, <1>6, <1>7, <1>8, <1>9

\* The execution of a request keeps the types.
LEMMA ExecuteType ==
  ASSUME TypeOK, NEW r \in Requests,
         Dispatch(r) \/ DeliverCancel(r) \/ Execute(r)
  PROVE  TypeOK'
  <1> USE SameTypes DEF TypeOK
  <1>0. EmptyPage \in Pages /\ op[r].batch \in Batches
          /\ "failed" \in Outcomes /\ "cancelled" \in Outcomes
          /\ "ok" \in Outcomes /\ "uncertain" \in Outcomes
    BY BlankTypes DEF Outcomes, OpTypeOK, Ops
  <1>1. ASSUME NEW outcome \in Outcomes, NEW answer \in Pages,
               NEW flag \in BOOLEAN, Reply(r, outcome, answer, flag),
               WorldTypeOK'
        PROVE  TypeOK'
    BY <1>1, ReplyType DEF Reply, tabVars
  <1>2. ASSUME NEW outcome \in Outcomes, NEW answer \in Pages,
               NEW flag \in BOOLEAN, Reply(r, outcome, answer, flag),
               UNCHANGED dbVars
        PROVE  TypeOK'
    <2>1. WorldTypeOK'
      BY <1>2 DEF Reply, worldVars
    <2>2. QED
      BY <1>1, <1>2, <2>1
  <1>3. CASE Dispatch(r)
    <2>1. OpTypeOK'
      BY <1>3 DEF Dispatch, OpTypeOK, Ops, Stages
    <2>2. QED
      BY <1>3, <2>1 DEF Dispatch, tabVars
  <1>4. CASE DeliverCancel(r)
    <2>1. OpTypeOK'
      <3>1. op' = [op EXCEPT ![r].cancelled = TRUE] \/ op' = op
        BY <1>4 DEF DeliverCancel
      <3>2. [op[r] EXCEPT !.cancelled = TRUE] \in Ops
        BY DEF OpTypeOK, Ops
      <3>3. QED
        BY <3>1, <3>2 DEF OpTypeOK
    <2>2. WorldTypeOK'
      BY <1>4 DEF DeliverCancel, WorldTypeOK, dbVars
    <2>3. QED
      BY <1>4, <2>1, <2>2 DEF DeliverCancel, tabVars
  <1>5. CASE ExecFail(r)
    BY <1>0, <1>2, <1>5 DEF ExecFail
  <1>6. CASE ExecDescribe(r)
    BY <1>0, <1>2, <1>6 DEF ExecDescribe
  <1>7. CASE ExecPage(r)
    BY <1>0, <1>2, <1>7, PageAnswerType DEF ExecPage
  <1>8. CASE ExecPageRefused(r)
    BY <1>0, <1>2, <1>8 DEF ExecPageRefused
  <1>9. CASE ExecMutation(r)
    <2>1. CASE Reply(r, "failed", EmptyPage, FALSE)
      BY <1>0, <1>2, <1>9, <2>1 DEF ExecMutation
    <2>2. CASE \E k \in Keys : op' = [op EXCEPT ![r].done = @ \cup {k}]
      <3>1. OpTypeOK'
        BY <2>2 DEF OpTypeOK, Ops
      <3>2. UNCHANGED <<tabVars, worldVars>>
        BY <1>9 DEF ExecMutation, Reply, worldVars
      <3>3. QED
        BY <3>1, <3>2 DEF tabVars
    <2>3. QED
      BY <1>9, <2>1, <2>2 DEF ExecMutation, Todo, Mutated
  <1>10. CASE ExecInserts(r)
    <2>1. OpTypeOK'
      BY <1>10 DEF ExecInserts, OpTypeOK, Ops, Stages
    <2>2. QED
      BY <1>10, <2>1 DEF ExecInserts, tabVars
  <1>11. CASE Commit(r)
    <2>1. WorldTypeOK'
      BY <1>0, <1>11, LandBatchType DEF Commit, Reply, WorldTypeOK
    <2>2. QED
      BY <1>0, <1>1, <1>11, <2>1 DEF Commit
  <1>12. CASE CommitRefused(r)
    BY <1>0, <1>2, <1>12 DEF CommitRefused
  <1>13. CASE CommitUncertain(r)
    <2>1. doubted' \subseteq Drafts
      BY <1>0, <1>13 DEF CommitUncertain, WorldTypeOK, Batches
    <2>2. CASE Reply(r, "uncertain", EmptyPage, TRUE) /\ LandBatch(op[r].batch)
      <3>1. WorldTypeOK'
        BY <1>0, <2>1, <2>2, LandBatchType DEF Reply
      <3>2. QED
        BY <1>0, <1>1, <2>2, <3>1
    <2>3. CASE Reply(r, "uncertain", EmptyPage, FALSE)
                 /\ UNCHANGED <<table, xid, external, landed>>
      <3>1. WorldTypeOK'
        BY <2>1, <2>3 DEF Reply, WorldTypeOK
      <3>2. QED
        BY <1>0, <1>1, <2>3, <3>1
    <2>4. QED
      BY <1>13, <2>2, <2>3 DEF CommitUncertain
  <1>14. QED
    BY <1>3, <1>4, <1>5, <1>6, <1>7, <1>8, <1>9, <1>10, <1>11, <1>12, <1>13
    DEF Execute

\* The other writers keep the types.
LEMMA OtherWriterType == TypeOK /\ ExternalWrite => TypeOK'
  <1> SUFFICES ASSUME TypeOK, ExternalWrite PROVE TypeOK'
    OBVIOUS
  <1> USE SameTypes DEF TypeOK
  <1>1. WorldTypeOK'
    BY ConstantsAssumption DEF ExternalWrite, WorldTypeOK, Xids
  <1>2. QED
    BY <1>1 DEF ExternalWrite, tabVars

\* Every reply keeps the types.
LEMMA DeliverType ==
  ASSUME TypeOK, NEW r \in Requests, Deliver(r)
  PROVE  TypeOK'
  <1> USE SameTypes DEF TypeOK
  <1>0. Closed(r) \in [Requests -> Ops] /\ op[r].answer \in Pages
          /\ AtLeastOne(pageNumber) \in Int /\ AtLeastOne(pendingPage) \in Int
          /\ Idle \in [kind : Kinds \ {"none"}, req : Requests] \cup {Idle}
    BY ClosedType DEF OpTypeOK, Ops, PageTypeOK, AtLeastOne
  <1>1. CASE DeliverDescribed(r)
    <2>1. FirstPage("default") \in PageRequests
      BY BlankTypes DEF Sorts
    <2>2. /\ StatusTypeOK' /\ OpTypeOK'
          /\ pendingRequest' \in PageRequests /\ pendingPage' \in Int
      BY <1>0, <1>1, <2>1, StartPageType DEF DeliverDescribed
    <2>3. PageTypeOK'
      BY <1>1, <2>2 DEF DeliverDescribed, PageTypeOK
    <2>4. QED
      BY <1>1, <2>2, <2>3 DEF DeliverDescribed
  <1>2. CASE DeliverPage(r)
    <2>1. PageTypeOK'
      BY <1>0, <1>2 DEF DeliverPage, PageTypeOK
    <2>2. StatusTypeOK' /\ OpTypeOK'
      BY <1>0, <1>2 DEF DeliverPage, StatusTypeOK, OpTypeOK
    <2>3. QED
      BY <1>2, <2>1, <2>2 DEF DeliverPage
  <1>3. CASE DeliverApplied(r)
    <2>1. FirstPage(sort) \in PageRequests /\ pendingRequest \in PageRequests
      BY BlankTypes DEF PageTypeOK
    <2>2. PICK asks \in PageRequests, target \in Int :
            StartPage(asks, target, Closed(r))
      BY <1>0, <1>3, <2>1 DEF DeliverApplied
    <2>3. /\ StatusTypeOK' /\ OpTypeOK'
          /\ pendingRequest' \in PageRequests /\ pendingPage' \in Int
      BY <1>0, <2>2, StartPageType
    <2>4. PageTypeOK'
      BY <1>3, <2>3 DEF DeliverApplied, PageTypeOK, UnchangedPage
    <2>5. StagedTypeOK' /\ DialogTypeOK'
      BY <1>3, ClearChangesType DEF DeliverApplied
    <2>6. QED
      BY <1>3, <2>3, <2>4, <2>5 DEF DeliverApplied
  <1>4. CASE DeliverFailed(r)
    <2>1. StatusTypeOK' /\ OpTypeOK'
      BY <1>0, <1>4 DEF DeliverFailed, StatusTypeOK, OpTypeOK
    <2>2. DialogTypeOK'
      BY <1>4 DEF DeliverFailed, DialogTypeOK, Overlays
    <2>3. QED
      BY <1>4, <2>1, <2>2 DEF DeliverFailed
  <1>5. CASE DeliverCancelled(r)
    <2>1. StatusTypeOK' /\ OpTypeOK'
      BY <1>0, <1>5 DEF DeliverCancelled, StatusTypeOK, OpTypeOK
    <2>2. DialogTypeOK'
      BY <1>5 DEF DeliverCancelled, DialogTypeOK, Overlays
    <2>3. QED
      BY <1>5, <2>1, <2>2 DEF DeliverCancelled
  <1>6. CASE DeliverStale(r)
    BY <1>0, <1>6 DEF DeliverStale, OpTypeOK, tabVars
  <1>7. QED
    BY <1>1, <1>2, <1>3, <1>4, <1>5, <1>6 DEF Deliver

\* Every step keeps the types.
LEMMA TypeStep == TypeOK /\ [Next]_vars => TypeOK'
  <1> SUFFICES ASSUME TypeOK, [Next]_vars PROVE TypeOK'
    OBVIOUS
  <1>1. CASE Next
    BY <1>1, BrowsingType, StagingType, DialogType, ExecuteType,
       OtherWriterType, DeliverType
    DEF Next, Input
  <1>2. CASE UNCHANGED vars
    BY <1>2, SameTypes DEF vars, tabVars, TypeOK
  <1>3. QED
    BY <1>1, <1>2

\* Every variable keeps its type, and in particular every request, batch, page
\* and cursor the tab holds is well formed (grid.Model).
THEOREM TypeCorrect == Spec => []TypeOK
  BY InitType, TypeStep, PTL DEF Spec

(***************************************************************************)
(* What the transactions of a table tab keep: the rows a running one has   *)
(* changed are the rows its changes were staged on until it ends, whoever  *)
(* else writes.  From it, no update is lost and applying is atomic.        *)
(***************************************************************************)

\* The requests that are not begun are blank, and only a reply has an outcome.
RequestsKept ==
  \A r \in Requests :
    /\ r >= nextRequest => op[r] = NoOp
    /\ op[r].stage \in {"unused", "done"} => op[r].kind = "none"
    /\ op[r].committed => op[r].stage = "reply"

\* A row changed by a running transaction is locked: it stays as it was staged.
RowsLocked ==
  \A r \in Requests :
    /\ op[r].stage = "commit" => op[r].kind = "apply" /\ Todo(r) = {}
    /\ op[r].done # {} => Running(r)
    /\ \A k \in op[r].done : table[k] = Original(op[r].batch, k)
    /\ \A q \in Requests \ {r} : op[q].done \cap op[r].done = {}

ApplyInv == TypeOK /\ RequestsKept /\ RowsLocked

(***************************************************************************)
(* What a step does to the requests and the database: nothing, as most     *)
(* inputs; begin a request; close an answered one, and perhaps begin       *)
(* another; or take one step of the execution of a request.                *)
(***************************************************************************)
requestVars == <<op, nextRequest, table, landed, xid>>
databaseVars == <<table, landed, xid>>

BeginsAny(ops) ==
  \E kind \in Kinds \ {"none"}, asks \in PageRequests, batch \in Batches :
    Begin(kind, asks, batch, ops)

\* What an input of the user does to the requests: nothing, or it begins one.
LEMMA InputEffect ==
  ASSUME TypeOK, Input
  PROVE  \/ UNCHANGED requestVars
         \/ BeginsAny(op) /\ UNCHANGED databaseVars
  <1> USE DEF requestVars, databaseVars, worldVars, dbVars
  <1>0. /\ NoPageRequest \in PageRequests /\ NoBatch \in Batches
        /\ MutationsSnapshot \in Batches
        /\ "describe" \in Kinds \ {"none"} /\ "page" \in Kinds \ {"none"}
        /\ "apply" \in Kinds \ {"none"}
    BY BlankTypes, SnapshotType DEF TypeOK, Kinds
  <1>1. Describe => BeginsAny(op)
    BY <1>0 DEF Describe, BeginsAny
  <1>2. ASSUME NEW asks \in PageRequests, NEW target, StartPage(asks, target, op)
        PROVE  BeginsAny(op)
    BY <1>0, <1>2 DEF StartPage, BeginsAny
  <1>3. StartApply => BeginsAny(op)
    BY <1>0 DEF StartApply, BeginsAny
  <1>4. /\ FirstPage(sort) \in PageRequests
        /\ FirstPage(NextSort(sort)) \in PageRequests
        /\ pendingRequest \in PageRequests
        /\ [dir |-> "next", cursor |-> page.next, sort |-> sort,
            ord |-> page.ord + 1] \in PageRequests
        /\ [dir |-> "previous", cursor |-> page.prev, sort |-> sort,
            ord |-> page.ord - 1] \in PageRequests
    <2>1. NextSort(sort) \in Sorts /\ sort \in Sorts
      BY DEF NextSort, TypeOK, PageTypeOK, Sorts
    <2>2. QED
      BY <2>1, BlankTypes DEF TypeOK, PageTypeOK, Pages, PageRequests
  <1>5. CASE NextPage \/ PreviousPage \/ Refresh \/ CycleSort \/ RefreshRevert
    BY <1>2, <1>4, <1>5
    DEF NextPage, PreviousPage, Refresh, CycleSort, RefreshRevert
  <1>6. CASE Retry \/ DescribeAgain
    BY <1>1, <1>2, <1>4, <1>6 DEF Retry, DescribeAgain
  <1>7. CASE ConfirmApply \/ RefreshApply
    BY <1>3, <1>7 DEF ConfirmApply, RefreshApply
  <1>8. CASE StageInsert \/ OpenEditor \/ CommitEditor \/ CancelEditor
               \/ StageSpecial \/ ToggleDelete \/ RevertRow
    BY <1>8 DEF StageInsert, OpenEditor, CommitEditor, CancelEditor,
                StageSpecial, ToggleDelete, RevertRow, UnchangedByStaging,
                statusVars
  <1>9. CASE AskRefresh \/ RequestApply \/ ApplyAgain \/ OpenSummary
               \/ CloseDialog \/ RevertAll \/ CtrlC
    BY <1>9 DEF AskRefresh, RequestApply, ApplyAgain, OpenSummary, CloseDialog,
                RevertAll, CtrlC, UnchangedByDialog, statusVars, tabVars
  <1>10. QED
    BY <1>5, <1>6, <1>7, <1>8, <1>9 DEF Input

\* What a reply does to the requests: it closes one, and may begin another.
LEMMA DeliverEffect ==
  ASSUME TypeOK, NEW r \in Requests, Deliver(r)
  PROVE  /\ op[r].stage = "reply"
         /\ UNCHANGED databaseVars
         /\ \/ op' = Closed(r) /\ UNCHANGED nextRequest
            \/ \E kind \in Kinds \ {"none", "apply"}, asks \in PageRequests :
                 Begin(kind, asks, NoBatch, Closed(r))
  <1> USE DEF databaseVars, worldVars, dbVars
  <1>1. CASE DeliverDescribed(r) \/ DeliverApplied(r)
    <2>1. FirstPage("default") \in PageRequests /\ FirstPage(sort) \in PageRequests
            /\ pendingRequest \in PageRequests /\ "page" \in Kinds \ {"none", "apply"}
      BY BlankTypes DEF Sorts, TypeOK, PageTypeOK, Kinds
    <2>2. QED
      BY <1>1, <2>1 DEF DeliverDescribed, DeliverApplied, Answers, StartPage
  <1>2. CASE DeliverPage(r) \/ DeliverFailed(r) \/ DeliverCancelled(r)
               \/ DeliverStale(r)
    BY <1>2 DEF DeliverPage, DeliverFailed, DeliverCancelled, DeliverStale,
                Answers, tabVars, statusVars
  <1>3. QED
    BY <1>1, <1>2 DEF Deliver

(***************************************************************************)
(* The strengthening is inductive.                                         *)
(***************************************************************************)
DoneOp == [NoOp EXCEPT !.stage = "done"]
Closes(ops) ==
  \A r \in Requests : \/ ops[r] = op[r]
                      \/ op[r].stage = "reply" /\ ops[r] = DoneOp

\* Closed forgets one answered request and no other.
LEMMA ClosedCloses ==
  ASSUME TypeOK, NEW r \in Requests, op[r].stage = "reply"
  PROVE  Closes(Closed(r)) /\ Closed(r) \in [Requests -> Ops]
  BY ClosedType DEF Closed, Closes, DoneOp, TypeOK, OpTypeOK

\* A blank request has no rows locked and no batch.
LEMMA BlankFields ==
  /\ NoOp.kind = "none" /\ NoOp.stage = "unused" /\ NoOp.done = {}
  /\ NoOp.committed = FALSE
  /\ DoneOp.kind = "none" /\ DoneOp.stage = "done" /\ DoneOp.done = {}
  /\ DoneOp.committed = FALSE
  BY DEF NoOp, DoneOp

\* The requests after a step that closes one of them and begins another.
LEMMA BeginKeeps ==
  ASSUME TypeOK, RequestsKept, RowsLocked, NEW ops \in [Requests -> Ops],
         NEW kind \in Kinds \ {"none"}, NEW asks \in PageRequests,
         NEW batch \in Batches, Begin(kind, asks, batch, ops),
         UNCHANGED table, Closes(ops)
  PROVE  RequestsKept' /\ RowsLocked'
  <1> DEFINE fresh == Intent(kind, asks, batch)
  <1>1. /\ op' = [ops EXCEPT ![nextRequest] = fresh]
        /\ nextRequest \in Requests /\ nextRequest' = nextRequest + 1
    BY DEF Begin
  <1>2. fresh.kind = kind /\ fresh.stage = "intent" /\ fresh.done = {}
          /\ fresh.committed = FALSE
    BY DEF Intent, NoOp
  <1>3. ASSUME NEW r \in Requests
        PROVE  \/ r = nextRequest /\ op'[r] = fresh
               \/ r # nextRequest /\ op'[r] = op[r]
               \/ r # nextRequest /\ op[r].stage = "reply" /\ op'[r] = DoneOp
    BY <1>1 DEF Closes
  <1> HIDE DEF fresh
  <1>4. RequestsKept'
    <2> SUFFICES ASSUME NEW r \in Requests
                 PROVE  /\ r >= nextRequest' => op'[r] = NoOp
                        /\ op'[r].stage \in {"unused", "done"} => op'[r].kind = "none"
                        /\ op'[r].committed => op'[r].stage = "reply"
      BY DEF RequestsKept
    <2>1. r >= nextRequest' => op'[r] = NoOp
      BY <1>1, <1>3, BlankFields DEF RequestsKept, Requests
    <2>2. QED
      BY <1>2, <1>3, <2>1, BlankFields DEF RequestsKept
  <1>5. ASSUME NEW r \in Requests
        PROVE  op'[r].done # {} => op'[r] = op[r]
    BY <1>2, <1>3, <1>5, BlankFields
  <1>6. ASSUME NEW r \in Requests
        PROVE  op'[r].stage = "commit" => op'[r] = op[r]
    BY <1>2, <1>3, <1>6, BlankFields
  <1>7. RowsLocked'
    BY <1>5, <1>6 DEF RowsLocked, Running, Todo
  <1>8. QED
    BY <1>4, <1>7

\* Closing requests keeps the invariant.
LEMMA CloseKeeps ==
  ASSUME TypeOK, RequestsKept, RowsLocked, NEW r \in Requests,
         op[r].stage = "reply", op' = Closed(r), UNCHANGED <<nextRequest, table>>
  PROVE  RequestsKept' /\ RowsLocked'
  <1>1. ASSUME NEW q \in Requests
        PROVE  op'[q] = op[q] \/ (op[q].stage = "reply" /\ op'[q] = DoneOp)
    BY ClosedCloses DEF Closes
  <1>2. RequestsKept'
    BY <1>1, BlankFields DEF RequestsKept
  <1>3. ASSUME NEW q \in Requests
        PROVE  /\ op'[q].done # {} => op'[q] = op[q]
               /\ op'[q].stage = "commit" => op'[q] = op[q]
    BY <1>1, <1>3, BlankFields
  <1>4. RowsLocked'
    BY <1>3 DEF RowsLocked, Running, Todo
  <1>5. QED
    BY <1>2, <1>4

\* A reply changes one request only.
LEMMA ReplyEffect ==
  ASSUME TypeOK, NEW r \in Requests, NEW outcome, NEW answer, NEW flag,
         Reply(r, outcome, answer, flag)
  PROVE  /\ \A q \in Requests \ {r} : op'[q] = op[q]
         /\ op'[r].stage = "reply" /\ op'[r].kind = op[r].kind
         /\ op'[r].done = {} /\ op'[r].committed = flag
         /\ op'[r].outcome = outcome /\ op'[r].batch = op[r].batch
         /\ UNCHANGED nextRequest
  BY DEF Reply, TypeOK, OpTypeOK, Ops, tabVars, statusVars

\* A request that has not begun takes no step.
LEMMA BegunBefore ==
  ASSUME TypeOK, RequestsKept, NEW r \in Requests, op[r].stage # "unused"
  PROVE  r < nextRequest
  BY BlankFields DEF RequestsKept, TypeOK, StatusTypeOK, Requests

\* A goroutine that returns keeps the invariant: its locks are gone.
LEMMA ReplyKeeps ==
  ASSUME TypeOK, RequestsKept, RowsLocked, NEW r \in Requests, Running(r),
         NEW outcome, NEW answer, NEW flag, Reply(r, outcome, answer, flag),
         \A q \in Requests \ {r} : \A k \in op[q].done : table'[k] = table[k]
  PROVE  RequestsKept' /\ RowsLocked'
  <1>1. op[r].stage # "unused" /\ op[r].stage # "done" /\ op[r].kind = op'[r].kind
    BY ReplyEffect DEF Running
  <1>2. RequestsKept'
    BY <1>1, BegunBefore, ReplyEffect
    DEF RequestsKept, Requests, TypeOK, StatusTypeOK
  <1>3. RowsLocked'
    BY ReplyEffect DEF RowsLocked, Running, Todo
  <1>4. QED
    BY <1>2, <1>3

\* Every step of an execution keeps the invariant.
LEMMA ExecuteKeeps ==
  ASSUME TypeOK, RequestsKept, RowsLocked, NEW r \in Requests,
         Dispatch(r) \/ DeliverCancel(r) \/ Execute(r)
  PROVE  RequestsKept' /\ RowsLocked'
  <1> USE DEF worldVars, dbVars
  <1>0. r >= nextRequest => op[r].stage = "unused"
    BY BlankFields DEF RequestsKept
  <1>1. ASSUME NEW ops, op' = ops, UNCHANGED <<nextRequest, table>>,
               op[r].stage # "unused",
               \A q \in Requests \ {r} : ops[q] = op[q],
               ops[r].kind = op[r].kind, ops[r].batch = op[r].batch,
               ops[r].committed = op[r].committed, ops[r].done = op[r].done,
               op[r].stage = ops[r].stage
                 \/ (op[r].stage \in {"intent", "running"}
                       /\ ops[r].stage = "running")
                 \/ (op[r].stage = "running" /\ ops[r].stage = "commit"
                       /\ op[r].kind = "apply" /\ Todo(r) = {})
        PROVE  RequestsKept' /\ RowsLocked'
    <2>1. RequestsKept'
      BY <1>0, <1>1 DEF RequestsKept
    <2>2. RowsLocked'
      BY <1>1 DEF RowsLocked, Running, Todo
    <2>3. QED
      BY <2>1, <2>2
  <1>2. CASE Dispatch(r)
    <2>1. UNCHANGED <<nextRequest, table>>
      BY <1>2 DEF Dispatch, tabVars, statusVars
    <2>2. QED
      BY <1>1, <1>2, <2>1 DEF Dispatch, TypeOK, OpTypeOK, Ops
  <1>3. CASE DeliverCancel(r)
    <2>1. UNCHANGED <<nextRequest, table>>
      BY <1>3 DEF DeliverCancel, tabVars, statusVars
    <2>2. CASE op' = op
      BY <2>1, <2>2 DEF RequestsKept, RowsLocked, Running, Todo
    <2>3. CASE Running(r) /\ op' = [op EXCEPT ![r].cancelled = TRUE]
      BY <1>1, <2>1, <2>3 DEF Running, TypeOK, OpTypeOK, Ops
    <2>4. QED
      BY <1>3, <2>2, <2>3 DEF DeliverCancel, Registered
  <1>4. CASE ExecInserts(r)
    <2>1. UNCHANGED <<nextRequest, table>>
      BY <1>4 DEF ExecInserts, tabVars, statusVars
    <2>2. QED
      BY <1>1, <1>4, <2>1 DEF ExecInserts, Works, TypeOK, OpTypeOK, Ops
  <1>5. CASE ExecFail(r) \/ ExecDescribe(r) \/ ExecPage(r) \/ ExecPageRefused(r)
               \/ CommitRefused(r)
    BY <1>5, ReplyKeeps DEF ExecFail, ExecDescribe, ExecPage, ExecPageRefused,
                            CommitRefused, Works, Running
  <1>6. CASE ExecMutation(r)
    <2>1. UNCHANGED table /\ Running(r) /\ op[r].stage = "running"
      BY <1>6 DEF ExecMutation, Works, Running
    <2>2. CASE Reply(r, "failed", EmptyPage, FALSE)
      BY <2>1, <2>2, ReplyKeeps
    <2>3. CASE ~Reply(r, "failed", EmptyPage, FALSE)
      <3>1. PICK k \in Todo(r) :
              /\ ~Locked(k)
              /\ table[k] = Original(op[r].batch, k)
              /\ op' = [op EXCEPT ![r].done = @ \cup {k}]
              /\ UNCHANGED tabVars
        BY <1>6, <2>3 DEF ExecMutation, Matches
      <3>2. /\ \A q \in Requests \ {r} : op'[q] = op[q]
            /\ op'[r].done = op[r].done \cup {k} /\ op'[r].stage = op[r].stage
            /\ op'[r].kind = op[r].kind /\ op'[r].batch = op[r].batch
            /\ op'[r].committed = op[r].committed
        BY <3>1 DEF TypeOK, OpTypeOK, Ops
      <3>3. RequestsKept'
        BY <1>0, <2>1, <3>1, <3>2 DEF RequestsKept, tabVars, statusVars
      <3>4. \A q \in Requests \ {r} : k \notin op[q].done
        BY <3>1 DEF Locked, RowsLocked
      <3>5. RowsLocked'
        BY <2>1, <3>1, <3>2, <3>4 DEF RowsLocked, Running, Todo
      <3>6. QED
        BY <3>3, <3>5
    <2>4. QED
      BY <2>2, <2>3
  <1>7. ASSUME op[r].stage = "commit", LandBatch(op[r].batch)
        PROVE  \A q \in Requests \ {r} : \A k \in op[q].done : table'[k] = table[k]
    <2>1. Mutated(op[r].batch) \subseteq op[r].done
      BY <1>7 DEF RowsLocked, Todo
    <2>2. SUFFICES ASSUME NEW q \in Requests \ {r}, NEW k \in op[q].done
                   PROVE  table'[k] = table[k]
      OBVIOUS
    <2>3. k \in Keys /\ k \notin Mutated(op[r].batch)
      BY <2>1 DEF RowsLocked, TypeOK, OpTypeOK, Ops
    <2>4. QED
      BY <1>7, <2>3 DEF LandBatch, Mutated, Original
  <1>8. CASE Commit(r)
    BY <1>7, <1>8, ReplyKeeps DEF Commit, Running
  <1>9. CASE CommitUncertain(r)
    BY <1>7, <1>9, ReplyKeeps DEF CommitUncertain, Running
  <1>10. QED
    BY <1>2, <1>3, <1>4, <1>5, <1>6, <1>8, <1>9 DEF Execute

\* Another session cannot write to a locked row.
LEMMA OtherWriterKeeps ==
  ASSUME TypeOK, RequestsKept, RowsLocked, ExternalWrite
  PROVE  RequestsKept' /\ RowsLocked'
  <1>1. UNCHANGED <<op, nextRequest>>
    BY DEF ExternalWrite, tabVars, statusVars
  <1>2. ASSUME NEW r \in Requests, NEW k \in op[r].done
        PROVE  table'[k] = table[k]
    BY DEF ExternalWrite, Locked, RowsLocked, TypeOK, WorldTypeOK
  <1>3. RequestsKept'
    BY <1>1 DEF RequestsKept
  <1>4. RowsLocked'
    BY <1>1, <1>2 DEF RowsLocked, Running, Todo
  <1>5. QED
    BY <1>3, <1>4

\* The invariant is inductive.
LEMMA ApplyInvInductive == ApplyInv /\ [Next]_vars => ApplyInv'
  <1> SUFFICES ASSUME ApplyInv, [Next]_vars PROVE ApplyInv'
    OBVIOUS
  <1> USE DEF ApplyInv
  <1>1. TypeOK'
    BY TypeStep
  <1>2. CASE Input
    <2>1. CASE UNCHANGED requestVars
      BY <1>1, <2>1 DEF requestVars, RequestsKept, RowsLocked, Running, Todo
    <2>2. CASE BeginsAny(op) /\ UNCHANGED databaseVars
      <3>1. Closes(op) /\ op \in [Requests -> Ops]
        BY DEF Closes, TypeOK, OpTypeOK
      <3>2. QED
        BY <1>1, <2>2, <3>1, BeginKeeps DEF BeginsAny, databaseVars
    <2>3. QED
      BY <1>2, <2>1, <2>2, InputEffect
  <1>3. ASSUME NEW r \in Requests, Deliver(r) PROVE ApplyInv'
    <2>1. op[r].stage = "reply" /\ UNCHANGED table
      BY <1>3, DeliverEffect DEF databaseVars
    <2>2. CASE op' = Closed(r) /\ UNCHANGED nextRequest
      BY <1>1, <2>1, <2>2, CloseKeeps
    <2>3. CASE \E kind \in Kinds \ {"none", "apply"}, asks \in PageRequests :
                 Begin(kind, asks, NoBatch, Closed(r))
      BY <1>1, <2>1, <2>3, ClosedCloses, BeginKeeps, BlankTypes
    <2>4. QED
      BY <1>3, <2>2, <2>3, DeliverEffect
  <1>4. CASE UNCHANGED vars
    <2>1. UNCHANGED <<op, nextRequest, table>>
      BY <1>4 DEF vars, tabVars, statusVars, worldVars, dbVars
    <2>2. QED
      BY <1>1, <2>1 DEF RequestsKept, RowsLocked, Running, Todo
  <1>5. QED
    BY <1>1, <1>2, <1>3, <1>4, ExecuteKeeps, OtherWriterKeeps DEF Next

\* The invariant holds initially.
LEMMA ApplyInvInit == Init => ApplyInv
  <1> SUFFICES ASSUME Init PROVE ApplyInv
    OBVIOUS
  <1>1. \A r \in Requests : op[r].done = {} /\ op[r].committed = FALSE
                              /\ op[r].stage \in {"intent", "unused"}
    BY DEF Init, Intent, NoOp
  <1>2. \A r \in Requests \ {1} : op[r] = NoOp
    BY DEF Init
  <1>3. op[1].kind = "describe" /\ op[1].stage = "intent"
    BY ConstantsAssumption DEF Init, Intent, NoOp, Requests
  <1>4. RequestsKept
    BY <1>1, <1>2, <1>3, BlankFields DEF RequestsKept, Init, Requests
  <1>5. RowsLocked
    BY <1>1 DEF RowsLocked
  <1>6. QED
    BY <1>4, <1>5, InitType DEF ApplyInv

\* The rows a running transaction has updated or deleted are locked and as they
\* were when their changes were staged (internal/postgres/mutations.go).
THEOREM ApplyInvariant == Spec => []ApplyInv
  BY ApplyInvInit, ApplyInvInductive, PTL DEF Spec

\* At COMMIT every row of the batch is as it was when it was staged.
LEMMA CommitSeesOriginals ==
  ASSUME RowsLocked, NEW r \in Requests, op[r].stage = "commit"
  PROVE  \A k \in Mutated(op[r].batch) : table[k] = Original(op[r].batch, k)
  BY DEF RowsLocked, Todo

\* Only COMMIT commits.
LEMMA CommittedByCommit ==
  ASSUME ApplyInv, [Next]_vars, NEW r \in Requests,
         op'[r].committed, ~op[r].committed
  PROVE  op[r].stage = "commit"
  <1> USE DEF ApplyInv
  <1>0. op'[r] # op[r] /\ op[r] \in Ops /\ op \in [Requests -> Ops]
    BY DEF TypeOK, OpTypeOK
  <1>1. ASSUME NEW ops, NEW kind, NEW asks, NEW batch,
               Begin(kind, asks, batch, ops), Closes(ops), ops \in [Requests -> Ops]
        PROVE  FALSE
    <2>1. ~op'[r].committed \/ op'[r] = op[r]
      BY <1>1, BlankFields DEF Begin, Closes, Intent, NoOp
    <2>2. QED
      BY <1>0, <2>1
  <1>2. CASE Input
    <2>1. Closes(op)
      BY DEF Closes
    <2>2. QED
      BY <1>0, <1>1, <1>2, <2>1, InputEffect DEF BeginsAny, requestVars
  <1>3. ASSUME NEW q \in Requests, Deliver(q) PROVE FALSE
    <2>1. Closes(Closed(q)) /\ Closed(q) \in [Requests -> Ops]
      BY <1>3, DeliverEffect, ClosedCloses
    <2>2. CASE op' = Closed(q)
      BY <1>0, <2>1, <2>2, BlankFields DEF Closes
    <2>3. QED
      BY <1>1, <1>3, <2>1, <2>2, DeliverEffect
  <1>4. ASSUME NEW q \in Requests, Dispatch(q) \/ DeliverCancel(q) \/ ExecInserts(q)
        PROVE  FALSE
    BY <1>0, <1>4 DEF Dispatch, DeliverCancel, ExecInserts, Ops
  <1>5. ASSUME NEW q \in Requests, NEW outcome, NEW answer,
               Reply(q, outcome, answer, FALSE)
        PROVE  FALSE
    BY <1>0, <1>5, ReplyEffect
  <1>6. ASSUME NEW q \in Requests, ExecMutation(q) PROVE FALSE
    <2>1. CASE \E k \in Todo(q) : op' = [op EXCEPT ![q].done = @ \cup {k}]
      BY <1>0, <2>1 DEF Ops
    <2>2. QED
      BY <1>5, <1>6, <2>1 DEF ExecMutation
  <1>7. ASSUME NEW q \in Requests, Commit(q) \/ CommitUncertain(q)
        PROVE  op[r].stage = "commit"
    BY <1>0, <1>7, ReplyEffect DEF Commit, CommitUncertain
  <1>8. CASE ExternalWrite \/ UNCHANGED vars
    BY <1>0, <1>8 DEF ExternalWrite, vars
  <1>9. QED
    BY <1>2, <1>3, <1>4, <1>5, <1>6, <1>7, <1>8
    DEF Next, Execute, ExecFail, ExecDescribe, ExecPage, ExecPageRefused,
        CommitRefused

\* No update is lost: when a transaction commits, each row it updates or deletes
\* is the row its change was staged on (optimisticPredicate).
THEOREM LosesNoUpdate == Spec => NoLostUpdate
  <1>1. ApplyInv /\ [Next]_vars =>
          [\A r \in Requests :
             op'[r].committed /\ ~op[r].committed =>
               \A k \in Mutated(op[r].batch) :
                 table[k] = Original(op[r].batch, k)]_vars
    BY CommittedByCommit, CommitSeesOriginals DEF ApplyInv
  <1>2. QED
    BY <1>1, ApplyInvariant, PTL DEF Spec, NoLostUpdate

(***************************************************************************)
(* Refinement: the requests and transactions implement AtomicApply.        *)
(***************************************************************************)
JobIdle == [state |-> "idle", batch |-> NoBatch, report |-> "none"]

\* What the job of a request can be.
LEMMA JobCases ==
  ASSUME NEW r \in Requests
  PROVE  /\ op[r].kind # "apply" => Job(r) = JobIdle
         /\ op[r].kind = "apply" /\ op[r].stage = "reply" =>
              Job(r) = [state |-> "settled", batch |-> NoBatch,
                        report |-> op[r].outcome]
         /\ op[r].kind = "apply" /\ op[r].stage # "reply" =>
              Job(r) = [state |-> "pending", batch |-> op[r].batch,
                        report |-> "none"]
  BY DEF Job, JobIdle

\* The initial states of TableTab map to those of AtomicApply.
LEMMA InitRefines == Init => Promise!Init
  <1> SUFFICES ASSUME Init PROVE Promise!Init
    OBVIOUS
  <1>1. \A r \in Requests : op[r].kind # "apply"
    BY DEF Init, Intent, NoOp
  <1>2. [r \in Requests |-> Job(r)] = [r \in Requests |-> JobIdle]
    BY <1>1 DEF Job, JobIdle
  <1>3. QED
    BY <1>2 DEF Init, Promise!Init, Promise!Idle, Promise!NoBatch, NoBatch, JobIdle

jobs == [r \in Requests |-> Job(r)]

\* The job of a request changes only when it begins, replies or is closed.
LEMMA SameJob ==
  ASSUME NEW r \in Requests,
         \/ op'[r] = op[r]
         \/ op'[r].kind # "apply" /\ op[r].kind # "apply"
         \/ /\ op'[r].kind = op[r].kind /\ op'[r].batch = op[r].batch
            /\ op'[r].stage # "reply" /\ op[r].stage # "reply"
  PROVE  Job(r)' = Job(r)
  BY DEF Job

\* A step that changes neither jobs nor table is a stutter of AtomicApply.
LEMMA SameJobs ==
  ASSUME \A r \in Requests : Job(r)' = Job(r), UNCHANGED databaseVars
  PROVE  UNCHANGED Promise!vars
  BY DEF Promise!vars, databaseVars

\* A step that changes the job of one request.
LEMMA OneJob ==
  ASSUME NEW r \in Requests, NEW value, Job(r)' = value,
         \A q \in Requests \ {r} : Job(q)' = Job(q)
  PROVE  jobs' = [jobs EXCEPT ![r] = value] /\ jobs'[r] = value
  BY DEF jobs

\* Beginning an apply is a Submit of AtomicApply.
LEMMA BeginRefines ==
  ASSUME ApplyInv, NEW kind \in Kinds \ {"none"}, NEW asks, NEW batch,
         Begin(kind, asks, batch, op), UNCHANGED databaseVars
  PROVE  Promise!Next \/ UNCHANGED Promise!vars
  <1>1. PICK r \in Requests :
          r = nextRequest /\ op[r] = NoOp /\ op \in [Requests -> Ops]
    BY DEF Begin, ApplyInv, RequestsKept, TypeOK, OpTypeOK, Requests
  <1>2. /\ op'[r].kind = kind /\ op'[r].stage = "intent" /\ op'[r].batch = batch
        /\ \A q \in Requests \ {r} : op'[q] = op[q]
    BY <1>1 DEF Begin, Intent, NoOp
  <1>3. \A q \in Requests \ {r} : Job(q)' = Job(q)
    BY <1>2, SameJob
  <1>4. CASE kind # "apply"
    <2>1. Job(r)' = Job(r)
      BY <1>1, <1>2, <1>4, BlankFields, SameJob
    <2>2. QED
      BY <1>3, <2>1, SameJobs
  <1>5. CASE kind = "apply"
    <2>1. Job(r) = JobIdle
      BY <1>1, BlankFields, JobCases
    <2>2. Job(r)' = [state |-> "pending", batch |-> batch, report |-> "none"]
      BY <1>2, <1>5 DEF Job
    <2>3. jobs' = [jobs EXCEPT ![r] = Promise!Pending(jobs'[r].batch)]
      BY <1>1, <1>3, <2>2, OneJob DEF Promise!Pending
    <2>4. Promise!Submit(r)
      BY <1>1, <2>1, <2>3 DEF Promise!Submit, jobs, JobIdle, databaseVars
    <2>5. QED
      BY <1>1, <2>4 DEF Promise!Next
  <1>6. QED
    BY <1>4, <1>5

\* Handling a reply retires its job.
LEMMA DeliverRefines ==
  ASSUME ApplyInv, NEW r \in Requests, Deliver(r)
  PROVE  Promise!Next \/ UNCHANGED Promise!vars
  <1>0. op \in [Requests -> Ops] /\ op[r].stage = "reply" /\ UNCHANGED databaseVars
          /\ Closes(Closed(r)) /\ Closed(r)[r] = DoneOp
    BY DeliverEffect, ClosedCloses
    DEF ApplyInv, TypeOK, OpTypeOK, Closed, DoneOp
  <1>1. op'[r].kind # "apply" /\ \A q \in Requests \ {r} : Job(q)' = Job(q)
    <2>1. CASE op' = Closed(r)
      <3>1. op'[r] = DoneOp /\ \A q \in Requests \ {r} : op'[q] = op[q]
        BY <1>0, <2>1 DEF Closed
      <3>2. QED
        BY <3>1, BlankFields, SameJob
    <2>2. CASE \E kind \in Kinds \ {"none", "apply"}, asks \in PageRequests :
                 Begin(kind, asks, NoBatch, Closed(r))
      <3>1. PICK kind \in Kinds \ {"none", "apply"}, asks \in PageRequests :
              Begin(kind, asks, NoBatch, Closed(r))
        BY <2>2
      <3>2. PICK new \in Requests : new = nextRequest /\ op[new] = NoOp
        BY <3>1 DEF Begin, ApplyInv, RequestsKept, Requests
      <3>3. r # new
        BY <1>0, <3>2, BlankFields
      <3>4. /\ op'[r] = DoneOp /\ op'[new].kind = kind
            /\ \A q \in Requests \ {r, new} : op'[q] = op[q]
        BY <1>0, <3>1, <3>2, <3>3 DEF Begin, Closed, Intent, NoOp
      <3>5. Job(new)' = Job(new)
        BY <3>2, <3>4, BlankFields, SameJob
      <3>6. QED
        BY <3>4, <3>5, BlankFields, SameJob
    <2>3. QED
      BY <2>1, <2>2, DeliverEffect DEF ApplyInv
  <1>2. CASE op[r].kind # "apply"
    <2>1. Job(r)' = Job(r)
      BY <1>1, <1>2, SameJob
    <2>2. QED
      BY <1>0, <1>1, <2>1, SameJobs
  <1>3. CASE op[r].kind = "apply"
    <2>1. Job(r).state = "settled"
      BY <1>0, <1>3, JobCases
    <2>2. Job(r)' = JobIdle
      BY <1>1 DEF Job, JobIdle
    <2>3. Promise!Learn(r)
      BY <1>0, <1>1, <2>1, <2>2, OneJob
      DEF Promise!Learn, Promise!Idle, Promise!NoBatch, NoBatch, jobs, JobIdle,
          databaseVars
    <2>4. QED
      BY <2>3 DEF Promise!Next
  <1>4. QED
    BY <1>2, <1>3

\* A reply that reports no success and changes nothing is a step of TakeNone.
LEMMA ReplyRefines ==
  ASSUME ApplyInv, NEW r \in Requests, Running(r), UNCHANGED databaseVars,
         NEW outcome, NEW answer, NEW flag, Reply(r, outcome, answer, flag),
         op[r].kind = "apply" => outcome \in {"failed", "cancelled", "uncertain"}
  PROVE  Promise!Next \/ UNCHANGED Promise!vars
  <1>1. \A q \in Requests \ {r} : Job(q)' = Job(q)
    BY ReplyEffect, SameJob DEF ApplyInv
  <1>2. CASE op[r].kind # "apply"
    <2>1. Job(r)' = Job(r)
      BY <1>2, ReplyEffect, SameJob DEF ApplyInv
    <2>2. QED
      BY <1>1, <2>1, SameJobs
  <1>3. CASE op[r].kind = "apply"
    <2>1. Job(r).state = "pending"
      BY <1>3, JobCases DEF Running
    <2>2. Job(r)' = [state |-> "settled", batch |-> NoBatch, report |-> outcome]
      BY <1>3, ReplyEffect DEF Job, ApplyInv
    <2>3. Promise!TakeNone(r)
      BY <1>1, <1>3, <2>1, <2>2, OneJob
      DEF Promise!TakeNone, Promise!Settled, Promise!NoBatch, NoBatch, jobs,
          databaseVars
    <2>4. QED
      BY <2>3 DEF Promise!Next
  <1>4. QED
    BY <1>2, <1>3

\* A commit takes the whole batch.
LEMMA CommitRefines ==
  ASSUME ApplyInv, NEW r \in Requests, op[r].stage = "commit",
         LandBatch(op[r].batch), NEW outcome \in {"ok", "uncertain"},
         NEW answer, NEW flag, Reply(r, outcome, answer, flag)
  PROVE  Promise!Next
  <1>1. \A q \in Requests \ {r} : Job(q)' = Job(q)
    BY ReplyEffect, SameJob DEF ApplyInv
  <1>2. op[r].kind = "apply"
    BY DEF ApplyInv, RowsLocked
  <1>3. Job(r) = [state |-> "pending", batch |-> op[r].batch, report |-> "none"]
    BY <1>2, JobCases
  <1>4. Job(r)' = [state |-> "settled", batch |-> NoBatch, report |-> outcome]
    BY <1>2, ReplyEffect DEF Job, ApplyInv
  <1>5. jobs' = [jobs EXCEPT ![r] = Promise!Settled(outcome)]
    BY <1>1, <1>4, OneJob DEF Promise!Settled, Promise!NoBatch, NoBatch
  <1>6. \A k \in Keys : Promise!Seen(op[r].batch, k) # 0 =>
                          table[k] = Promise!Seen(op[r].batch, k)
    BY CommitSeesOriginals DEF ApplyInv, Promise!Seen, Mutated, Original
  <1>7. jobs[r].state = "pending" /\ jobs[r].batch = op[r].batch
    BY <1>3 DEF jobs
  <1>8. Promise!TakeEffect(r)
    BY <1>5, <1>6, <1>7 DEF Promise!TakeEffect, LandBatch, jobs
  <1>9. QED
    BY <1>8 DEF Promise!Next

\* Every step of an execution is a step or a stutter of AtomicApply.
LEMMA ExecuteRefines ==
  ASSUME ApplyInv, NEW r \in Requests,
         Dispatch(r) \/ DeliverCancel(r) \/ Execute(r)
  PROVE  Promise!Next \/ UNCHANGED Promise!vars
  <1> USE DEF worldVars, dbVars, databaseVars
  <1>0. op \in [Requests -> Ops]
    BY DEF ApplyInv, TypeOK, OpTypeOK
  <1>1. ASSUME NEW ops, op' = ops, UNCHANGED databaseVars,
               \A q \in Requests \ {r} : ops[q] = op[q],
               ops[r].kind = op[r].kind, ops[r].batch = op[r].batch,
               ops[r].stage # "reply", op[r].stage # "reply"
        PROVE  UNCHANGED Promise!vars
    <2>1. \A q \in Requests : Job(q)' = Job(q)
      BY <1>1, SameJob
    <2>2. QED
      BY <1>1, <2>1, SameJobs
  <1>2. CASE Dispatch(r) \/ ExecInserts(r)
    BY <1>0, <1>1, <1>2 DEF Dispatch, ExecInserts, Works, Ops
  <1>3. CASE DeliverCancel(r)
    <2>1. CASE op' = op
      BY <1>3, <2>1, SameJob, SameJobs DEF DeliverCancel
    <2>2. CASE Running(r) /\ op' = [op EXCEPT ![r].cancelled = TRUE]
      BY <1>0, <1>1, <1>3, <2>2 DEF DeliverCancel, Running, Ops
    <2>3. QED
      BY <1>3, <2>1, <2>2 DEF DeliverCancel, Registered
  <1>4. CASE ExecFail(r) \/ ExecDescribe(r) \/ ExecPage(r) \/ ExecPageRefused(r)
               \/ CommitRefused(r)
    BY <1>4, ReplyRefines DEF ExecFail, ExecDescribe, ExecPage, ExecPageRefused,
                              CommitRefused, Works, Running
  <1>5. CASE ExecMutation(r)
    <2>1. CASE Reply(r, "failed", EmptyPage, FALSE)
      BY <1>5, <2>1, ReplyRefines DEF ExecMutation, Works, Running
    <2>2. CASE \E k \in Todo(r) : op' = [op EXCEPT ![r].done = @ \cup {k}]
      BY <1>0, <1>1, <1>5, <2>2 DEF ExecMutation, Works, Ops
    <2>3. QED
      BY <1>5, <2>1, <2>2 DEF ExecMutation
  <1>6. CASE Commit(r)
    BY <1>6, CommitRefines DEF Commit
  <1>7. CASE CommitUncertain(r)
    <2>1. CASE LandBatch(op[r].batch) /\ Reply(r, "uncertain", EmptyPage, TRUE)
      BY <1>7, <2>1, CommitRefines DEF CommitUncertain
    <2>2. CASE Reply(r, "uncertain", EmptyPage, FALSE)
                 /\ UNCHANGED <<table, xid, external, landed>>
      BY <1>7, <2>2, ReplyRefines DEF CommitUncertain, Running
    <2>3. QED
      BY <1>7, <2>1, <2>2 DEF CommitUncertain
  <1>8. QED
    BY <1>2, <1>3, <1>4, <1>5, <1>6, <1>7 DEF Execute

\* Every step of TableTab is a step or a stutter of AtomicApply.
LEMMA StepRefines ==
  ASSUME ApplyInv, [Next]_vars
  PROVE  Promise!Next \/ UNCHANGED Promise!vars
  <1>1. CASE Input
    <2>1. CASE UNCHANGED requestVars
      BY <2>1, SameJob, SameJobs DEF requestVars, databaseVars
    <2>2. CASE BeginsAny(op) /\ UNCHANGED databaseVars
      BY <2>2, BeginRefines DEF BeginsAny
    <2>3. QED
      BY <1>1, <2>1, <2>2, InputEffect DEF ApplyInv
  <1>2. CASE ExternalWrite
    <2>1. Promise!OthersWrite
      <3>1. jobs' = jobs
        BY <1>2, SameJob DEF ExternalWrite, jobs
      <3>2. QED
        BY <1>2, <3>1 DEF ExternalWrite, Promise!OthersWrite, jobs
    <2>2. QED
      BY <2>1 DEF Promise!Next
  <1>3. CASE UNCHANGED vars
    BY <1>3, SameJob, SameJobs DEF vars, worldVars, dbVars, databaseVars
  <1>4. QED
    BY <1>1, <1>2, <1>3, DeliverRefines, ExecuteRefines DEF Next

\* Applying staged changes is atomic, replaces only what was seen, and is
\* reported truthfully: TableTab implements AtomicApply.
THEOREM Atomic == Spec => AppliesAtomically
  BY InitRefines, StepRefines, ApplyInvariant, PTL
  DEF Spec, AppliesAtomically, Promise!Spec

(***************************************************************************)
(* Pages.                                                                  *)
(***************************************************************************)
\* The request that is awaited is the last one, and later than the page shown.
LastAwaited ==
  /\ Busy => active.req = nextRequest - 1 /\ page.req < active.req
  /\ page.req < nextRequest

\* A page that has been read names the request it answers.
PagesNamed ==
  \A r \in Requests :
    op[r].stage = "reply" /\ op[r].kind = "page" /\ op[r].outcome = "ok" =>
      op[r].answer.req = r

\* What a step does to the request that is awaited and to the page.
LEMMA AwaitEffect ==
  ASSUME TypeOK, [Next]_vars
  PROVE  \/ UNCHANGED <<active, nextRequest, page>>
         \/ /\ active' = [kind |-> active'.kind, req |-> nextRequest]
            /\ nextRequest' = nextRequest + 1
            /\ UNCHANGED page
         \/ active' = Idle /\ UNCHANGED <<nextRequest, page>>
         \/ \E r \in Requests : DeliverPage(r)
  <1> DEFINE Same == UNCHANGED <<active, nextRequest, page>>
             Begun == /\ active' = [kind |-> active'.kind, req |-> nextRequest]
                      /\ nextRequest' = nextRequest + 1
                      /\ UNCHANGED page
             Idled == active' = Idle /\ UNCHANGED <<nextRequest, page>>
  <1>0. ASSUME NEW kind, NEW asks, NEW batch, NEW ops,
               Begin(kind, asks, batch, ops), UNCHANGED page
        PROVE  Begun
    BY <1>0 DEF Begin
  <1> HIDE DEF Begun
  <1>1. CASE Input
    <2>1. CASE NextPage \/ PreviousPage \/ Refresh \/ CycleSort \/ RefreshRevert
      BY <1>0, <2>1 DEF NextPage, PreviousPage, Refresh, CycleSort,
                        RefreshRevert, StartPage, UnchangedPage, Begun
    <2>2. CASE Retry \/ DescribeAgain
      BY <1>0, <2>2 DEF Retry, DescribeAgain, StartPage, Describe, UnchangedPage,
                        Begun
    <2>3. CASE ConfirmApply \/ RefreshApply
      BY <1>0, <2>3 DEF ConfirmApply, RefreshApply, StartApply, UnchangedPage,
                        Begun
    <2>4. CASE StageInsert \/ OpenEditor \/ CommitEditor \/ CancelEditor
                 \/ StageSpecial \/ ToggleDelete \/ RevertRow
      BY <2>4 DEF StageInsert, OpenEditor, CommitEditor, CancelEditor,
                  StageSpecial, ToggleDelete, RevertRow, UnchangedByStaging,
                  statusVars, pageVars
    <2>5. CASE AskRefresh \/ RequestApply \/ ApplyAgain \/ OpenSummary
                 \/ CloseDialog \/ RevertAll \/ CtrlC
      BY <2>5 DEF AskRefresh, RequestApply, ApplyAgain, OpenSummary, CloseDialog,
                  RevertAll, CtrlC, UnchangedByDialog, statusVars, tabVars,
                  pageVars
    <2>6. QED
      BY <1>1, <2>1, <2>2, <2>3, <2>4, <2>5 DEF Input
  <1>2. ASSUME NEW r \in Requests, Dispatch(r) \/ DeliverCancel(r) \/ Execute(r)
        PROVE  Same
    <2>1. UNCHANGED tabVars
      BY <1>2 DEF Dispatch, DeliverCancel, Execute, ExecFail, ExecDescribe,
                  ExecPage, ExecPageRefused, ExecMutation, ExecInserts, Commit,
                  CommitRefused, CommitUncertain, Reply
    <2>2. QED
      BY <2>1 DEF tabVars, statusVars, pageVars
  <1>3. ASSUME NEW r \in Requests, Deliver(r)
        PROVE  Begun \/ Idled \/ Same \/ DeliverPage(r)
    <2>1. CASE DeliverDescribed(r) \/ DeliverApplied(r)
      BY <1>0, <2>1 DEF DeliverDescribed, DeliverApplied, StartPage, UnchangedPage
    <2>2. CASE DeliverFailed(r) \/ DeliverCancelled(r)
      BY <2>2 DEF DeliverFailed, DeliverCancelled, pageVars
    <2>3. CASE DeliverStale(r)
      BY <2>3 DEF DeliverStale, tabVars, statusVars, pageVars
    <2>4. QED
      BY <1>3, <2>1, <2>2, <2>3 DEF Deliver
  <1>4. CASE ExternalWrite \/ UNCHANGED vars
    BY <1>4 DEF ExternalWrite, vars, tabVars, statusVars, pageVars
  <1>5. QED
    BY <1>1, <1>2, <1>3, <1>4 DEF Next, Begun

\* What a step does to a request other than begin it, close it or answer it.
LEMMA AnswerEffect ==
  ASSUME TypeOK, [Next]_vars, NEW r \in Requests
  PROVE  \/ op'[r].stage # "reply"
         \/ op'[r].stage = op[r].stage /\ op'[r].answer = op[r].answer
              /\ op'[r].kind = op[r].kind /\ op'[r].outcome = op[r].outcome
              /\ op'[r].committed = op[r].committed
         \/ op'[r].kind = op[r].kind /\ op'[r].outcome # "ok"
         \/ ExecDescribe(r) \/ ExecPage(r) \/ Commit(r)
  <1>0. op \in [Requests -> Ops]
    BY DEF TypeOK, OpTypeOK
  <1>1. ASSUME NEW ops, NEW kind, NEW asks, NEW batch,
               Begin(kind, asks, batch, ops), Closes(ops), ops \in [Requests -> Ops]
        PROVE  op'[r].stage # "reply" \/ op'[r] = op[r]
    BY <1>1, BlankFields DEF Begin, Closes, Intent, NoOp
  <1>2. CASE Input
    <2>1. Closes(op)
      BY DEF Closes
    <2>2. QED
      BY <1>0, <1>1, <1>2, <2>1, InputEffect DEF BeginsAny, requestVars
  <1>3. ASSUME NEW q \in Requests, Deliver(q)
        PROVE  op'[r].stage # "reply" \/ op'[r] = op[r]
    <2>1. Closes(Closed(q)) /\ Closed(q) \in [Requests -> Ops]
      BY <1>3, DeliverEffect, ClosedCloses
    <2>2. CASE op' = Closed(q)
      BY <1>0, <2>1, <2>2, BlankFields DEF Closes
    <2>3. QED
      BY <1>1, <1>3, <2>1, <2>2, DeliverEffect
  <1>4. ASSUME NEW q \in Requests, Dispatch(q) \/ DeliverCancel(q) \/ ExecInserts(q)
        PROVE  \/ op'[r].stage # "reply"
               \/ op'[r].stage = op[r].stage /\ op'[r].answer = op[r].answer
                    /\ op'[r].kind = op[r].kind /\ op'[r].outcome = op[r].outcome
                    /\ op'[r].committed = op[r].committed
    BY <1>0, <1>4 DEF Dispatch, DeliverCancel, ExecInserts, Ops
  <1>5. ASSUME NEW q \in Requests, NEW outcome \in {"failed", "cancelled", "uncertain"},
               NEW answer, NEW flag, Reply(q, outcome, answer, flag)
        PROVE  op'[r] = op[r] \/ (op'[r].kind = op[r].kind /\ op'[r].outcome # "ok")
    BY <1>5, ReplyEffect
  <1>6. ASSUME NEW q \in Requests, ExecDescribe(q) \/ ExecPage(q) \/ Commit(q)
        PROVE  op'[r] = op[r] \/ q = r
    <2>1. PICK answer, flag : Reply(q, "ok", answer, flag)
      BY <1>6 DEF ExecDescribe, ExecPage, Commit
    <2>2. QED
      BY <2>1, ReplyEffect
  <1>7. ASSUME NEW q \in Requests, ExecMutation(q)
        PROVE  \/ op'[r] = op[r]
               \/ op'[r].kind = op[r].kind /\ op'[r].outcome # "ok"
               \/ op'[r].stage = op[r].stage /\ op'[r].answer = op[r].answer
                    /\ op'[r].kind = op[r].kind /\ op'[r].outcome = op[r].outcome
                    /\ op'[r].committed = op[r].committed
    <2>1. CASE \E k \in Todo(q) : op' = [op EXCEPT ![q].done = @ \cup {k}]
      BY <1>0, <2>1 DEF Ops
    <2>2. QED
      BY <1>5, <1>7, <2>1 DEF ExecMutation
  <1>8. CASE ExternalWrite \/ UNCHANGED vars
    BY <1>8 DEF ExternalWrite, vars
  <1>9. QED
    BY <1>2, <1>3, <1>4, <1>5, <1>6, <1>7, <1>8
    DEF Next, Execute, ExecFail, ExecPageRefused, CommitRefused, CommitUncertain

\* The page read names its request (fetchKeysetPage).
LEMMA PagesNamedKept ==
  ASSUME ApplyInv, PagesNamed, [Next]_vars
  PROVE  PagesNamed'
  <1> SUFFICES ASSUME NEW r \in Requests, op'[r].stage = "reply",
                      op'[r].kind = "page", op'[r].outcome = "ok"
               PROVE  op'[r].answer.req = r
    BY DEF PagesNamed
  <1> USE DEF ApplyInv
  <1>1. CASE ExecPage(r)
    <2>1. PICK first \in Keys \cup {0}, last \in Keys \cup {0} :
            Reply(r, "ok", PageAnswer(r, first, last), FALSE)
      BY <1>1 DEF ExecPage
    <2>2. op'[r].answer = PageAnswer(r, first, last)
      BY <2>1 DEF Reply, TypeOK, OpTypeOK, Ops
    <2>3. QED
      BY <2>2 DEF PageAnswer
  <1>2. CASE ExecDescribe(r) \/ Commit(r)
    <2>1. op[r].kind = "page"
      BY <1>2, ReplyEffect DEF ExecDescribe, Commit
    <2>2. QED
      BY <1>2, <2>1 DEF ExecDescribe, Works, Commit, RowsLocked
  <1>3. QED
    BY <1>1, <1>2, AnswerEffect DEF PagesNamed

\* The page that is shown next answers the request that was awaited.
LEMMA NextPageShown ==
  ASSUME ApplyInv, LastAwaited, PagesNamed, NEW r \in Requests, DeliverPage(r)
  PROVE  /\ page'.req = r /\ r = active.req /\ Busy
         /\ active' = Idle /\ UNCHANGED nextRequest
  <1>1. active = [kind |-> "page", req |-> r] /\ op[r].stage = "reply"
          /\ op[r].kind = "page" /\ op[r].outcome = "ok"
    BY DEF DeliverPage, Answers
  <1>2. QED
    BY <1>1 DEF DeliverPage, PagesNamed, Busy

\* The last request stays the one that is awaited.
LEMMA LastAwaitedKept ==
  ASSUME ApplyInv, LastAwaited, PagesNamed, [Next]_vars
  PROVE  LastAwaited'
  <1>0. nextRequest \in Nat /\ page.req \in Int
    BY DEF ApplyInv, TypeOK, StatusTypeOK, PageTypeOK, Pages, Requests
  <1>1. CASE UNCHANGED <<active, nextRequest, page>>
    BY <1>1 DEF LastAwaited, Busy
  <1>2. CASE /\ active' = [kind |-> active'.kind, req |-> nextRequest]
             /\ nextRequest' = nextRequest + 1
             /\ UNCHANGED page
    <2>1. active'.req = nextRequest
      BY <1>2
    <2>2. QED
      BY <1>0, <1>2, <2>1 DEF LastAwaited, Busy
  <1>3. CASE active' = Idle /\ UNCHANGED <<nextRequest, page>>
    BY <1>3 DEF LastAwaited, Busy, Idle
  <1>4. ASSUME NEW r \in Requests, DeliverPage(r) PROVE LastAwaited'
    BY <1>0, <1>4, NextPageShown DEF LastAwaited, Busy, Idle
  <1>5. QED
    BY <1>1, <1>2, <1>3, <1>4, AwaitEffect DEF ApplyInv

PagesInv == ApplyInv /\ LastAwaited /\ PagesNamed

\* The invariant holds initially and is kept.
LEMMA PagesInvInductive ==
  /\ Init => PagesInv
  /\ PagesInv /\ [Next]_vars => PagesInv'
  <1>1. ASSUME Init PROVE LastAwaited /\ PagesNamed
    <2>1. \A r \in Requests : op[r].stage \in {"intent", "unused"}
      BY <1>1 DEF Init, Intent, NoOp
    <2>2. active.req = 1 /\ nextRequest = 2 /\ page.req = 0
      BY <1>1 DEF Init, EmptyPage
    <2>3. QED
      BY <2>1, <2>2 DEF LastAwaited, PagesNamed
  <1>2. QED
    BY <1>1, ApplyInvInit, ApplyInvInductive, LastAwaitedKept, PagesNamedKept
    DEF PagesInv

\* The request that is awaited is the last one begun and later than the one the
\* page on display answers, and a page names the request it was read for.
THEOREM PagesInvariant == Spec => []PagesInv
  BY PagesInvInductive, PTL DEF Spec

\* A page on display changes only to the answer of the last request, which is a
\* later one than the page it replaces (grid.Model.matches).
THEOREM ShowsLatestPage == Spec => PageIsLatest
  <1>1. ASSUME PagesInv, [Next]_vars, page' # page
        PROVE  /\ page'.req > page.req
               /\ \A r \in Requests : r > page'.req => op[r].kind # "page"
    <2>1. PICK r \in Requests : DeliverPage(r)
      BY <1>1, AwaitEffect DEF PagesInv, ApplyInv
    <2>2. page'.req = r /\ r = nextRequest - 1 /\ page.req < r
      BY <1>1, <2>1, NextPageShown DEF PagesInv, LastAwaited
    <2>3. nextRequest \in Nat /\ page.req \in Int
      BY <1>1 DEF PagesInv, ApplyInv, TypeOK, StatusTypeOK, PageTypeOK, Pages,
                  Requests
    <2>4. ASSUME NEW q \in Requests, q > page'.req PROVE op[q].kind # "page"
      <3>1. q >= nextRequest
        BY <2>2, <2>3, <2>4 DEF Requests
      <3>2. QED
        BY <1>1, <3>1, BlankFields DEF PagesInv, ApplyInv, RequestsKept
    <2>5. QED
      BY <2>2, <2>3, <2>4 DEF Requests
  <1>2. PagesInv /\ [Next]_vars =>
          [page' # page =>
             /\ page'.req > page.req
             /\ \A r \in Requests : r > page'.req => op[r].kind # "page"]_vars
    BY <1>1
  <1>3. QED
    BY <1>2, PagesInvariant, PTL DEF Spec, PageIsLatest

(***************************************************************************)
(* Validation.                                                             *)
(***************************************************************************)
\* While the dialog to confirm an apply is open, every draft is complete.
ConfirmsValid == overlay = "apply" => Valid

\* Nothing that can happen while the dialog is open makes a draft incomplete.
LEMMA ConfirmsValidKept ==
  ASSUME ConfirmsValid, [Next]_vars
  PROVE  ConfirmsValid'
  <1> DEFINE Staged == UNCHANGED <<inserts, filled>>
  <1>0. ASSUME Staged, overlay' = overlay \/ overlay' # "apply" \/ Valid
        PROVE  ConfirmsValid'
    BY <1>0 DEF ConfirmsValid, Valid
  <1> HIDE DEF Staged
  <1>1. CASE Input
    <2>1. CASE NextPage \/ PreviousPage \/ Refresh \/ CycleSort \/ Retry
                 \/ DescribeAgain \/ AskRefresh
      BY <1>0, <2>1 DEF NextPage, PreviousPage, Refresh, CycleSort, Retry,
                        DescribeAgain, AskRefresh, stagedVars, dialogVars, Staged
    <2>2. CASE RefreshRevert \/ RevertAll
      BY <2>2 DEF RefreshRevert, RevertAll, ClearChanges, ConfirmsValid
    <2>3. CASE ConfirmApply \/ RefreshApply
      BY <1>0, <2>3 DEF ConfirmApply, RefreshApply, StartApply, stagedVars, Staged
    <2>4. CASE StageInsert \/ OpenEditor \/ StageSpecial \/ ToggleDelete
                 \/ RevertRow
      <3>1. overlay = "none" /\ overlay' = overlay
        BY <2>4 DEF StageInsert, OpenEditor, StageSpecial, ToggleDelete,
                    RevertRow, GridInput, KeyReady, ClickReady
      <3>2. QED
        BY <3>1 DEF ConfirmsValid
    <2>5. CASE CommitEditor \/ CancelEditor
      <3>1. /\ UNCHANGED <<inserts, overlay>> /\ filled \subseteq filled'
        BY <2>5 DEF CommitEditor, CancelEditor, StageValue, stagedVars
      <3>2. QED
        BY <3>1 DEF ConfirmsValid, Valid
    <2>6. CASE RequestApply \/ ApplyAgain \/ OpenSummary \/ CloseDialog
      BY <1>0, <2>6 DEF RequestApply, ApplyAgain, OpenSummary, CloseDialog,
                        stagedVars, Staged
    <2>7. CASE CtrlC
      BY <1>0, <2>7 DEF CtrlC, tabVars, stagedVars, dialogVars, Staged
    <2>8. QED
      BY <1>1, <2>1, <2>2, <2>3, <2>4, <2>5, <2>6, <2>7 DEF Input
  <1>2. ASSUME NEW r \in Requests, Dispatch(r) \/ DeliverCancel(r) \/ Execute(r)
        PROVE  Staged /\ overlay' = overlay
    <2>1. UNCHANGED tabVars
      BY <1>2 DEF Dispatch, DeliverCancel, Execute, ExecFail, ExecDescribe,
                  ExecPage, ExecPageRefused, ExecMutation, ExecInserts, Commit,
                  CommitRefused, CommitUncertain, Reply
    <2>2. QED
      BY <2>1 DEF tabVars, stagedVars, dialogVars, Staged
  <1>3. ASSUME NEW r \in Requests, Deliver(r) PROVE ConfirmsValid'
    <2>1. CASE DeliverApplied(r)
      BY <2>1 DEF DeliverApplied, ClearChanges, ConfirmsValid
    <2>2. CASE ~DeliverApplied(r)
      BY <1>0, <1>3, <2>2
      DEF Deliver, DeliverDescribed, DeliverPage, DeliverFailed,
          DeliverCancelled, DeliverStale, stagedVars, dialogVars, tabVars, Staged
    <2>3. QED
      BY <2>1, <2>2
  <1>4. CASE ExternalWrite \/ UNCHANGED vars
    BY <1>0, <1>4 DEF ExternalWrite, vars, tabVars, stagedVars, dialogVars, Staged
  <1>5. QED
    BY <1>0, <1>1, <1>2, <1>3, <1>4 DEF Next

\* The request that is sent in a step is the one that begins.
LEMMA SentBegins ==
  ASSUME TypeOK, NEW ops \in [Requests -> Ops], Closes(ops),
         NEW kind, NEW asks, NEW batch, Begin(kind, asks, batch, ops),
         NEW r \in Requests, Sent(r)
  PROVE  op'[r].batch = batch
  <1>1. CASE r = nextRequest
    BY <1>1 DEF Begin, Intent, NoOp
  <1>2. CASE r # nextRequest
    <2>1. op'[r] = op[r] \/ op'[r] = DoneOp
      BY <1>2 DEF Begin, Closes
    <2>2. QED
      BY <2>1, BlankFields DEF Sent
  <1>3. QED
    BY <1>1, <1>2

\* The execution of requests sends none.
LEMMA ExecutionSendsNothing ==
  ASSUME TypeOK, NEW q \in Requests,
         Dispatch(q) \/ DeliverCancel(q) \/ Execute(q), NEW r \in Requests
  PROVE  ~Sent(r)
  <1>0. op \in [Requests -> Ops]
    BY DEF TypeOK, OpTypeOK
  <1>1. ASSUME NEW outcome, NEW answer, NEW flag, Reply(q, outcome, answer, flag)
        PROVE  ~Sent(r)
    BY <1>1, ReplyEffect DEF Sent
  <1>2. CASE Dispatch(q) \/ DeliverCancel(q) \/ ExecInserts(q)
    BY <1>0, <1>2 DEF Dispatch, DeliverCancel, ExecInserts, Ops, Sent
  <1>3. CASE ExecMutation(q)
    <2>1. CASE \E k \in Todo(q) : op' = [op EXCEPT ![q].done = @ \cup {k}]
      BY <1>0, <2>1 DEF Ops, Sent
    <2>2. QED
      BY <1>1, <1>3, <2>1 DEF ExecMutation
  <1>4. CASE ExecFail(q) \/ ExecDescribe(q) \/ ExecPage(q) \/ ExecPageRefused(q)
               \/ Commit(q) \/ CommitRefused(q) \/ CommitUncertain(q)
    <2>1. PICK outcome, answer, flag : Reply(q, outcome, answer, flag)
      BY <1>4 DEF ExecFail, ExecDescribe, ExecPage, ExecPageRefused, Commit,
                  CommitRefused, CommitUncertain
    <2>2. QED
      BY <1>1, <2>1
  <1>5. QED
    BY <1>2, <1>3, <1>4 DEF Execute

\* What an input sends is a blank batch or all that is staged.
LEMMA InputSends ==
  ASSUME TypeOK, Input, NEW r \in Requests, Sent(r)
  PROVE  \/ op'[r].batch = NoBatch
         \/ op'[r].batch = MutationsSnapshot /\ (ConfirmApply \/ RefreshApply)
  <1>0. op \in [Requests -> Ops] /\ Closes(op)
    BY DEF TypeOK, OpTypeOK, Closes
  <1>1. ASSUME NEW kind, NEW asks, Begin(kind, asks, NoBatch, op)
        PROVE  op'[r].batch = NoBatch
    BY <1>0, <1>1, SentBegins
  <1>2. CASE NextPage \/ PreviousPage \/ Refresh \/ CycleSort \/ RefreshRevert
               \/ Retry \/ DescribeAgain
    <2>1. PICK kind, asks : Begin(kind, asks, NoBatch, op)
      BY <1>2 DEF NextPage, PreviousPage, Refresh, CycleSort, RefreshRevert,
                  Retry, DescribeAgain, Describe, StartPage
    <2>2. QED
      BY <1>1, <2>1
  <1>3. CASE ConfirmApply \/ RefreshApply
    <2>1. Begin("apply", NoPageRequest, MutationsSnapshot, op)
      BY <1>3 DEF ConfirmApply, RefreshApply, StartApply
    <2>2. QED
      BY <1>0, <1>3, <2>1, SentBegins
  <1>4. CASE StageInsert \/ OpenEditor \/ CommitEditor \/ CancelEditor
               \/ StageSpecial \/ ToggleDelete \/ RevertRow
    <2>1. op' = op
      BY <1>4 DEF StageInsert, OpenEditor, CommitEditor, CancelEditor,
                  StageSpecial, ToggleDelete, RevertRow, UnchangedByStaging
    <2>2. QED
      BY <2>1 DEF Sent
  <1>5. CASE AskRefresh \/ RequestApply \/ ApplyAgain \/ OpenSummary
               \/ CloseDialog \/ RevertAll \/ CtrlC
    <2>1. op' = op
      BY <1>5 DEF AskRefresh, RequestApply, ApplyAgain, OpenSummary, CloseDialog,
                  RevertAll, CtrlC, UnchangedByDialog
    <2>2. QED
      BY <2>1 DEF Sent
  <1>6. QED
    BY <1>2, <1>3, <1>4, <1>5 DEF Input

\* What is sent in a step was valid when it was sent.
LEMMA SendsValid ==
  ASSUME TypeOK, ConfirmsValid, [Next]_vars, NEW r \in Requests, Sent(r)
  PROVE  op'[r].batch.inserts \subseteq filled
  <1>0. NoBatch.inserts = {} /\ MutationsSnapshot.inserts = inserts
    BY DEF NoBatch, MutationsSnapshot
  <1>1. CASE Input
    <2>1. CASE op'[r].batch = NoBatch
      BY <1>0, <2>1
    <2>2. CASE op'[r].batch = MutationsSnapshot /\ (ConfirmApply \/ RefreshApply)
      <3>1. Valid
        BY <2>2 DEF ConfirmApply, RefreshApply, ConfirmsValid
      <3>2. QED
        BY <1>0, <2>2, <3>1 DEF Valid
    <2>3. QED
      BY <1>1, <2>1, <2>2, InputSends
  <1>2. ASSUME NEW q \in Requests, Deliver(q)
        PROVE  op'[r].batch.inserts \subseteq filled
    <2>1. Closes(Closed(q)) /\ Closed(q) \in [Requests -> Ops]
      BY <1>2, DeliverEffect, ClosedCloses
    <2>2. CASE op' = Closed(q)
      BY <2>1, <2>2, BlankFields DEF Closes, Sent
    <2>3. CASE \E kind \in Kinds \ {"none", "apply"}, asks \in PageRequests :
                 Begin(kind, asks, NoBatch, Closed(q))
      BY <1>0, <2>1, <2>3, SentBegins
    <2>4. QED
      BY <1>2, <2>2, <2>3, DeliverEffect
  <1>3. CASE ExternalWrite \/ UNCHANGED vars
    BY <1>3 DEF ExternalWrite, vars, Sent
  <1>4. QED
    BY <1>1, <1>2, <1>3, ExecutionSendsNothing DEF Next

\* No draft is sent to be applied without its required values, whichever dialog
\* the apply was confirmed in (validateChanges).
THEOREM SendsOnlyValid == Spec => ValidatedWhenSent
  <1>1. Init => ConfirmsValid
    BY DEF Init, ConfirmsValid
  <1>2. ConfirmsValid /\ [Next]_vars => ConfirmsValid'
    BY ConfirmsValidKept
  <1>3. TypeOK /\ ConfirmsValid /\ [Next]_vars =>
          [\A r \in Requests : Sent(r) => op'[r].batch.inserts \subseteq filled]_vars
    BY SendsValid
  <1>4. QED
    BY <1>1, <1>2, <1>3, TypeCorrect, PTL DEF Spec, ValidatedWhenSent

(***************************************************************************)
(* The keyboard alone.  A key waits for the reply that is awaited, so that *)
(* one request is alive at a time and nothing is staged beside it.         *)
(***************************************************************************)
Alive(r) == op[r].stage \notin {"unused", "done"}

\* A request that is alive is the one that is awaited.
OneAlive == \A r \in Requests : Alive(r) => active = [kind |-> op[r].kind, req |-> r]

\* What is sent to be applied is still all that is staged.
SentAsStaged == active.kind = "apply" => op[active.req].batch = MutationsSnapshot

\* Only an apply that has committed reports success.
OkIsCommitted ==
  \A r \in Requests :
    op[r].stage = "reply" /\ op[r].kind = "apply" /\ op[r].outcome = "ok" =>
      op[r].committed

\* The keys that do something while a request is awaited: Ctrl+C.
LEMMA KeysWait ==
  ASSUME ~Mouse, Input, Busy
  PROVE  CtrlC
  <1>1. ~KeyReady /\ ~ClickReady /\ ~GridInput /\ ~DialogInput
    BY DEF KeyReady, ClickReady, GridInput, DialogInput
  <1>2. QED
    BY <1>1
    DEF Input, NextPage, PreviousPage, Retry, DescribeAgain, Refresh, AskRefresh,
        CycleSort, BrowseKey, StageInsert, OpenEditor, CommitEditor,
        CancelEditor, StageSpecial, ToggleDelete, RevertRow, RequestApply,
        ApplyAgain, ConfirmApply, OpenSummary, CloseDialog, RevertAll,
        RefreshApply, RefreshRevert

\* A step of an execution leaves the tab, the intents and the replies alone.
LEMMA ExecuteEffect ==
  ASSUME TypeOK, NEW q \in Requests,
         Dispatch(q) \/ DeliverCancel(q) \/ Execute(q)
  PROVE  /\ UNCHANGED tabVars
         /\ \A r \in Requests :
              /\ op'[r].kind = op[r].kind /\ op'[r].batch = op[r].batch
              /\ Alive(r)' <=> Alive(r)
              /\ op[r].stage = "reply" => op'[r] = op[r]
  <1>0. op \in [Requests -> Ops]
    BY DEF TypeOK, OpTypeOK
  <1>1. UNCHANGED tabVars
    BY DEF Dispatch, DeliverCancel, Execute, ExecFail, ExecDescribe,
           ExecPage, ExecPageRefused, ExecMutation, ExecInserts, Commit,
           CommitRefused, CommitUncertain, Reply
  <1>2. SUFFICES ASSUME NEW r \in Requests
                 PROVE  /\ op'[r].kind = op[r].kind /\ op'[r].batch = op[r].batch
                        /\ Alive(r)' <=> Alive(r)
                        /\ op[r].stage = "reply" => op'[r] = op[r]
    BY <1>1
  <1>3. ASSUME NEW outcome, NEW answer, NEW flag, Running(q),
               Reply(q, outcome, answer, flag)
        PROVE  /\ op'[r].kind = op[r].kind /\ op'[r].batch = op[r].batch
               /\ Alive(r)' <=> Alive(r)
               /\ op[r].stage = "reply" => op'[r] = op[r]
    <2>1. CASE r # q
      BY <1>3, <2>1, ReplyEffect DEF Alive
    <2>2. CASE r = q
      BY <1>3, <2>2, ReplyEffect DEF Alive, Running
    <2>3. QED
      BY <2>1, <2>2
  <1>4. CASE Dispatch(q) \/ DeliverCancel(q) \/ ExecInserts(q)
    BY <1>0, <1>4
    DEF Dispatch, DeliverCancel, Registered, Running, ExecInserts, Works, Ops,
        Alive
  <1>5. CASE ExecMutation(q)
    <2>1. CASE \E k \in Todo(q) : op' = [op EXCEPT ![q].done = @ \cup {k}]
      <3>1. op[q].stage = "running"
        BY <1>5 DEF ExecMutation, Works
      <3>2. /\ op'[q].kind = op[q].kind /\ op'[q].batch = op[q].batch
            /\ op'[q].stage = op[q].stage
            /\ r # q => op'[r] = op[r]
        BY <1>0, <2>1 DEF Ops
      <3>3. CASE r = q
        BY <3>1, <3>2, <3>3 DEF Alive
      <3>4. CASE r # q
        BY <3>2, <3>4 DEF Alive
      <3>5. QED
        BY <3>3, <3>4
    <2>2. CASE Reply(q, "failed", EmptyPage, FALSE)
      <3>1. Running(q)
        BY <1>5 DEF ExecMutation, Works, Running
      <3>2. QED
        BY <1>3, <2>2, <3>1
    <2>3. QED
      BY <1>5, <2>1, <2>2 DEF ExecMutation
  <1>6. CASE ExecFail(q) \/ ExecDescribe(q) \/ ExecPage(q) \/ ExecPageRefused(q)
               \/ Commit(q) \/ CommitRefused(q) \/ CommitUncertain(q)
    <2>1. PICK outcome, answer, flag : Reply(q, outcome, answer, flag)
      BY <1>6 DEF ExecFail, ExecDescribe, ExecPage, ExecPageRefused, Commit,
                  CommitRefused, CommitUncertain
    <2>2. Running(q)
      BY <1>6 DEF ExecFail, ExecDescribe, ExecPage, ExecPageRefused, Commit,
                  CommitRefused, CommitUncertain, Works, Running
    <2>3. QED
      BY <1>3, <2>1, <2>2
  <1>7. QED
    BY <1>4, <1>5, <1>6 DEF Execute

\* A reply that is not dropped is awaited, and with OneAlive none is dropped.
LEMMA RepliesAwaited ==
  ASSUME OneAlive, NEW r \in Requests, Deliver(r)
  PROVE  /\ Answers(r) /\ ~DeliverStale(r) /\ op[r].stage = "reply"
         /\ active = [kind |-> op[r].kind, req |-> r]
         /\ \A q \in Requests \ {r} : ~Alive(q)
  <1>1. op[r].stage = "reply"
    BY DEF Deliver, DeliverDescribed, DeliverPage, DeliverApplied, DeliverFailed,
           DeliverCancelled, DeliverStale, Answers
  <1>2. Alive(r)
    BY <1>1 DEF Alive
  <1>3. QED
    BY <1>1, <1>2 DEF OneAlive, Answers, DeliverStale

\* While nothing is awaited, nothing is alive.
LEMMA IdleAlive ==
  ASSUME TypeOK, OneAlive, ~Busy
  PROVE  active = Idle /\ \A r \in Requests : ~Alive(r)
  <1>1. active = Idle
    BY DEF TypeOK, StatusTypeOK, Busy
  <1>2. ASSUME NEW r \in Requests, Alive(r) PROVE FALSE
    <2>1. active.req = r /\ active.req = 0
      BY <1>1, <1>2 DEF OneAlive, Idle
    <2>2. QED
      BY <2>1 DEF Requests
  <1>3. QED
    BY <1>1, <1>2

(***************************************************************************)
(* The editor, opened by a key on an idle grid or by a click at any time.  *)
(***************************************************************************)
\* The metadata is described once: when it has been loaded, a page has been
\* asked for, and a retry asks for a page.
DescribedOnce ==
  /\ relation => pendingRequest.dir # "none"
  /\ active.kind = "describe" => ~relation

\* The editor opens on a loaded table, and the request that is awaited while it
\* is open is the one that was awaited when it was opened.
EditorWaits ==
  editor # NoEditor => relation /\ (Busy => active.req = editor.awaits)

EditorInv == PagesInv /\ DescribedOnce /\ EditorWaits /\ EditorKeepsRow

\* A request for a page names the direction it reads in.
LEMMA PageIsAsked ==
  ASSUME NEW asks, NEW target, NEW ops, StartPage(asks, target, ops),
         asks.dir # "none"
  PROVE  active'.kind = "page" /\ pendingRequest'.dir # "none"
  BY DEF StartPage, Begin

\* What begins is a page or an apply, or the metadata of a table that has none.
LEMMA DescribedOnceKept ==
  ASSUME DescribedOnce, [Next]_vars
  PROVE  DescribedOnce'
  <1>0. \A s : FirstPage(s).dir # "none"
    BY DEF FirstPage
  <1>1. ASSUME UNCHANGED <<relation, pendingRequest>>,
               active' = active \/ active'.kind # "describe"
        PROVE  DescribedOnce'
    BY <1>1 DEF DescribedOnce
  <1>2. CASE Input
    <2>1. CASE NextPage \/ PreviousPage \/ Refresh \/ CycleSort \/ RefreshRevert
      <3>1. active'.kind = "page" /\ pendingRequest'.dir # "none"
        BY <1>0, <2>1, PageIsAsked
        DEF NextPage, PreviousPage, Refresh, CycleSort, RefreshRevert
      <3>2. QED
        BY <3>1 DEF DescribedOnce
    <2>2. CASE Retry \/ DescribeAgain
      <3>1. CASE relation
        <4>1. active'.kind = "page" /\ pendingRequest'.dir # "none"
          BY <2>2, <3>1, PageIsAsked DEF Retry, DescribeAgain, DescribedOnce
        <4>2. QED
          BY <4>1 DEF DescribedOnce
      <3>2. CASE ~relation
        BY <2>2, <3>2 DEF Retry, DescribeAgain, UnchangedPage, DescribedOnce
      <3>3. QED
        BY <3>1, <3>2
    <2>3. CASE ConfirmApply \/ RefreshApply
      BY <1>1, <2>3 DEF ConfirmApply, RefreshApply, StartApply, Begin,
                        UnchangedPage
    <2>4. CASE StageInsert \/ OpenEditor \/ CommitEditor \/ CancelEditor
                 \/ StageSpecial \/ ToggleDelete \/ RevertRow
      BY <1>1, <2>4 DEF StageInsert, OpenEditor, CommitEditor, CancelEditor,
                        StageSpecial, ToggleDelete, RevertRow,
                        UnchangedByStaging, statusVars, pageVars
    <2>5. CASE AskRefresh \/ RequestApply \/ ApplyAgain \/ OpenSummary
                 \/ CloseDialog \/ RevertAll \/ CtrlC
      BY <1>1, <2>5 DEF AskRefresh, RequestApply, ApplyAgain, OpenSummary,
                        CloseDialog, RevertAll, CtrlC, UnchangedByDialog,
                        statusVars, tabVars, pageVars
    <2>6. QED
      BY <1>2, <2>1, <2>2, <2>3, <2>4, <2>5 DEF Input
  <1>3. ASSUME UNCHANGED tabVars PROVE DescribedOnce'
    BY <1>1, <1>3 DEF tabVars, pageVars, statusVars
  <1>4. ASSUME NEW r \in Requests, Deliver(r) PROVE DescribedOnce'
    <2>1. CASE DeliverDescribed(r)
      <3>1. active'.kind = "page" /\ pendingRequest'.dir # "none"
        BY <1>0, <2>1, PageIsAsked DEF DeliverDescribed
      <3>2. QED
        BY <3>1 DEF DescribedOnce
    <2>2. CASE DeliverApplied(r)
      <3>1. active'.kind = "page" /\ pendingRequest'.dir # "none"
        BY <1>0, <2>2, PageIsAsked DEF DeliverApplied
      <3>2. QED
        BY <3>1 DEF DescribedOnce
    <2>3. CASE DeliverPage(r) \/ DeliverFailed(r) \/ DeliverCancelled(r)
      BY <1>1, <2>3 DEF DeliverPage, DeliverFailed, DeliverCancelled, pageVars,
                        Idle
    <2>4. CASE DeliverStale(r)
      BY <1>3, <2>4 DEF DeliverStale
    <2>5. QED
      BY <1>4, <2>1, <2>2, <2>3, <2>4 DEF Deliver
  <1>5. ASSUME NEW r \in Requests, Dispatch(r) \/ DeliverCancel(r) \/ Execute(r)
        PROVE  UNCHANGED tabVars
    BY <1>5 DEF Dispatch, DeliverCancel, Execute, ExecFail, ExecDescribe,
                ExecPage, ExecPageRefused, ExecMutation, ExecInserts, Commit,
                CommitRefused, CommitUncertain, Reply
  <1>6. CASE ExternalWrite \/ UNCHANGED vars
    BY <1>3, <1>6 DEF ExternalWrite, vars
  <1>7. QED
    BY <1>2, <1>3, <1>4, <1>5, <1>6 DEF Next

\* While the editor is open, the keys that do something are the editor's and
\* Ctrl+C, and a click does nothing (updateMouse).
LEMMA EditorHoldsInput ==
  ASSUME Input, editor # NoEditor
  PROVE  CommitEditor \/ CancelEditor \/ CtrlC
  <1>1. ~KeyReady /\ ~ClickReady /\ ~GridInput /\ ~DialogInput
    BY DEF KeyReady, ClickReady, GridInput, DialogInput
  <1>2. QED
    BY <1>1
    DEF Input, NextPage, PreviousPage, Retry, DescribeAgain, Refresh, AskRefresh,
        CycleSort, BrowseKey, StageInsert, OpenEditor, StageSpecial,
        ToggleDelete, RevertRow, RequestApply, ApplyAgain, ConfirmApply,
        OpenSummary, CloseDialog, RevertAll, RefreshApply, RefreshRevert

\* Only the editor's own action opens it.
LEMMA EditorOpens ==
  ASSUME Input, editor = NoEditor, ~OpenEditor
  PROVE  editor' = NoEditor
  <1>1. CASE RefreshRevert \/ RevertAll
    BY <1>1 DEF RefreshRevert, RevertAll, ClearChanges
  <1>2. CASE NextPage \/ PreviousPage \/ Refresh \/ CycleSort \/ Retry
               \/ DescribeAgain \/ AskRefresh \/ ConfirmApply
               \/ RefreshApply \/ CtrlC
    BY <1>2 DEF NextPage, PreviousPage, Refresh, CycleSort, Retry,
                DescribeAgain, AskRefresh, ConfirmApply,
                RefreshApply, CtrlC, tabVars, dialogVars
  <1>3. CASE StageInsert \/ CommitEditor \/ CancelEditor \/ StageSpecial
               \/ ToggleDelete \/ RevertRow \/ RequestApply \/ ApplyAgain
               \/ OpenSummary \/ CloseDialog
    BY <1>3 DEF StageInsert, CommitEditor, CancelEditor,
                StageSpecial, ToggleDelete, RevertRow, RequestApply,
                ApplyAgain, OpenSummary, CloseDialog, UnchangedByDialog
  <1>4. QED
    BY <1>1, <1>2, <1>3 DEF Input

\* A reply moves the line of an open editor if it is the page that was awaited
\* when it was opened, and begins nothing beside an open editor.
LEMMA EditorAndReplies ==
  ASSUME EditorInv, NEW r \in Requests, Deliver(r)
  PROVE  EditorWaits' /\ EditorKeepsRow'
  <1>0. CASE editor' = NoEditor
    BY <1>0 DEF EditorWaits, EditorKeepsRow
  <1>1. ASSUME UNCHANGED <<editor, relation, inserts, page>>,
               active' = active \/ active' = Idle
        PROVE  EditorWaits' /\ EditorKeepsRow'
    BY <1>1 DEF EditorInv, EditorWaits, EditorKeepsRow, Busy, Idle, IsLine, Shown
  <1>2. CASE DeliverDescribed(r)
    <2>1. active.kind = "describe"
      BY <1>2 DEF DeliverDescribed, Answers
    <2>2. editor = NoEditor /\ editor' = editor
      BY <1>2, <2>1 DEF EditorInv, DescribedOnce, EditorWaits, DeliverDescribed,
                        dialogVars
    <2>3. QED
      BY <1>0, <2>2
  <1>3. CASE DeliverPage(r)
    <2>1. /\ page'.req = r /\ r = active.req /\ Busy /\ active' = Idle
      BY <1>3, NextPageShown DEF EditorInv, PagesInv
    <2>2. UNCHANGED <<editor, relation>>
      BY <1>3 DEF DeliverPage, dialogVars
    <2>3. r # 0
      BY DEF Requests
    <2>4. QED
      BY <2>1, <2>2, <2>3 DEF EditorInv, EditorWaits, EditorKeepsRow, Busy, Idle
  <1>4. CASE DeliverApplied(r)
    BY <1>0, <1>4 DEF DeliverApplied, ClearChanges
  <1>5. CASE DeliverFailed(r) \/ DeliverCancelled(r)
    BY <1>1, <1>5 DEF DeliverFailed, DeliverCancelled, pageVars, stagedVars
  <1>6. CASE DeliverStale(r)
    BY <1>1, <1>6 DEF DeliverStale, tabVars, pageVars, stagedVars, dialogVars,
                      statusVars
  <1>7. QED
    BY <1>2, <1>3, <1>4, <1>5, <1>6 DEF Deliver

\* Every step keeps what is known of an open editor.
LEMMA EditorInvKept ==
  ASSUME EditorInv, [Next]_vars
  PROVE  EditorWaits' /\ EditorKeepsRow'
  <1>0. CASE editor' = NoEditor
    BY <1>0 DEF EditorWaits, EditorKeepsRow
  <1>1. ASSUME UNCHANGED tabVars
        PROVE  EditorWaits' /\ EditorKeepsRow'
    BY <1>1 DEF tabVars, dialogVars, statusVars, stagedVars, pageVars, EditorInv,
                EditorWaits, EditorKeepsRow, Busy, IsLine, Shown
  <1>2. CASE Input /\ editor # NoEditor
    BY <1>0, <1>1, <1>2, EditorHoldsInput DEF CommitEditor, CancelEditor, CtrlC
  <1>3. CASE OpenEditor
    <2>1. PICK ref \in Refs,
               i \in 1..(Cardinality(inserts) + Cardinality(Shown)) :
                 /\ IsLine(i, ref)
                 /\ editor' = [row |-> i, target |-> ref, awaits |-> active.req]
      BY <1>3 DEF OpenEditor
    <2>2. UNCHANGED <<inserts, page, active, relation>> /\ relation
      BY <1>3 DEF OpenEditor, UnchangedByStaging, stagedVars, pageVars, statusVars
    <2>3. editor'.row = i /\ editor'.target = ref /\ editor'.awaits = active.req
      BY <2>1
    <2>4. QED
      BY <2>1, <2>2, <2>3 DEF EditorWaits, EditorKeepsRow, IsLine, Shown
  <1>4. CASE Input /\ editor = NoEditor /\ ~OpenEditor
    BY <1>0, <1>4, EditorOpens
  <1>5. ASSUME NEW r \in Requests, Dispatch(r) \/ DeliverCancel(r) \/ Execute(r)
        PROVE  UNCHANGED tabVars
    BY <1>5, ExecuteEffect DEF EditorInv, PagesInv, ApplyInv
  <1>6. CASE ExternalWrite \/ UNCHANGED vars
    BY <1>1, <1>6 DEF ExternalWrite, vars
  <1>7. QED
    BY <1>1, <1>2, <1>3, <1>4, <1>5, <1>6, EditorAndReplies DEF Next

\* With keys and clicks in any order, an open editor stays on the row or draft
\* it was opened on until the page that a click opened it in front of arrives:
\* no draft, late page or later request moves its line (cellEditor.Row).
THEOREM EditorStaysOnRow == Spec => []EditorKeepsRow
  <1>1. Init => EditorInv
    <2>1. ASSUME Init
          PROVE  editor = NoEditor /\ ~relation
      BY <2>1 DEF Init
    <2>2. QED
      BY <2>1, PagesInvInductive
      DEF EditorInv, DescribedOnce, EditorWaits, EditorKeepsRow
  <1>2. EditorInv /\ [Next]_vars => EditorInv'
    BY DescribedOnceKept, EditorInvKept, PagesInvInductive DEF EditorInv
  <1>3. EditorInv => EditorKeepsRow
    BY DEF EditorInv
  <1>4. QED
    BY <1>1, <1>2, <1>3, PTL DEF Spec

(***************************************************************************)
(* One request at a time, and nothing staged beside it.                    *)
(***************************************************************************)
KeysInv == ApplyInv /\ OneAlive /\ SentAsStaged /\ OkIsCommitted

allStaged == <<inserts, updates, deletes>>

\* An input that begins a request is of an idle grid and sends what is staged,
\* if it applies; every other input begins none.
LEMMA KeyEffect ==
  ASSUME ~Mouse, TypeOK, Input
  PROVE  \/ UNCHANGED <<active, op>>
         \/ /\ ~Busy
            /\ \E kind \in Kinds \ {"none", "apply"}, asks \in PageRequests :
                 Begin(kind, asks, NoBatch, op)
         \/ /\ ~Busy /\ UNCHANGED allStaged
            /\ \E asks \in PageRequests : Begin("apply", asks, MutationsSnapshot, op)
  <1>0. /\ "describe" \in Kinds \ {"none", "apply"}
        /\ "page" \in Kinds \ {"none", "apply"}
        /\ NoPageRequest \in PageRequests
        /\ FirstPage(sort) \in PageRequests
        /\ FirstPage(NextSort(sort)) \in PageRequests
        /\ pendingRequest \in PageRequests
        /\ [dir |-> "next", cursor |-> page.next, sort |-> sort,
            ord |-> page.ord + 1] \in PageRequests
        /\ [dir |-> "previous", cursor |-> page.prev, sort |-> sort,
            ord |-> page.ord - 1] \in PageRequests
    <2>1. NextSort(sort) \in Sorts /\ sort \in Sorts
      BY DEF NextSort, TypeOK, PageTypeOK, Sorts
    <2>2. QED
      BY <2>1, BlankTypes DEF TypeOK, PageTypeOK, Pages, PageRequests, Kinds
  <1>1. CASE Busy
    BY <1>1, KeysWait DEF CtrlC, tabVars, statusVars
  <1>2. CASE ~Busy /\ (NextPage \/ PreviousPage \/ Refresh \/ CycleSort
                         \/ RefreshRevert)
    BY <1>0, <1>2
    DEF NextPage, PreviousPage, Refresh, CycleSort, RefreshRevert, StartPage
  <1>3. CASE ~Busy /\ (Retry \/ DescribeAgain)
    BY <1>0, <1>3 DEF Retry, DescribeAgain, Describe, StartPage
  <1>4. CASE ~Busy /\ (ConfirmApply \/ RefreshApply)
    BY <1>0, <1>4
    DEF ConfirmApply, RefreshApply, StartApply, stagedVars, allStaged
  <1>5. CASE StageInsert \/ OpenEditor \/ CommitEditor \/ CancelEditor
               \/ StageSpecial \/ ToggleDelete \/ RevertRow
    BY <1>5 DEF StageInsert, OpenEditor, CommitEditor, CancelEditor,
                StageSpecial, ToggleDelete, RevertRow, UnchangedByStaging,
                statusVars
  <1>6. CASE AskRefresh \/ RequestApply \/ ApplyAgain \/ OpenSummary
               \/ CloseDialog \/ RevertAll \/ CtrlC
    BY <1>6 DEF AskRefresh, RequestApply, ApplyAgain, OpenSummary, CloseDialog,
                RevertAll, CtrlC, UnchangedByDialog, statusVars, tabVars
  <1>7. QED
    BY <1>1, <1>2, <1>3, <1>4, <1>5, <1>6 DEF Input

\* What a reply that is awaited does to the requests.
LEMMA ReplyHandled ==
  ASSUME TypeOK, OneAlive, NEW r \in Requests, Deliver(r)
  PROVE  \/ op' = Closed(r) /\ active' = Idle
         \/ \E kind \in Kinds \ {"none", "apply"}, asks \in PageRequests :
              Begin(kind, asks, NoBatch, Closed(r))
  <1>1. ~DeliverStale(r)
    BY RepliesAwaited
  <1>2. CASE DeliverDescribed(r) \/ DeliverApplied(r)
    <2>1. FirstPage("default") \in PageRequests /\ FirstPage(sort) \in PageRequests
            /\ pendingRequest \in PageRequests /\ "page" \in Kinds \ {"none", "apply"}
      BY BlankTypes DEF Sorts, TypeOK, PageTypeOK, Kinds
    <2>2. QED
      BY <1>2, <2>1 DEF DeliverDescribed, DeliverApplied, StartPage
  <1>3. CASE DeliverPage(r) \/ DeliverFailed(r) \/ DeliverCancelled(r)
    BY <1>3 DEF DeliverPage, DeliverFailed, DeliverCancelled
  <1>4. QED
    BY <1>1, <1>2, <1>3 DEF Deliver

\* When no other request is alive, the one that begins is the only one.
LEMMA BeginAlone ==
  ASSUME TypeOK, NEW ops \in [Requests -> Ops], Closes(ops),
         \A q \in Requests : Alive(q) => ops[q] = DoneOp,
         NEW kind, NEW asks, NEW batch, Begin(kind, asks, batch, ops)
  PROVE  /\ OneAlive'
         /\ active'.kind = kind
         /\ op'[active'.req].batch = batch
  <1>1. /\ nextRequest \in Requests
        /\ active' = [kind |-> kind, req |-> nextRequest]
        /\ op'[nextRequest].kind = kind /\ op'[nextRequest].batch = batch
        /\ \A q \in Requests \ {nextRequest} : op'[q] = ops[q]
    BY DEF Begin, Intent, NoOp
  <1>2. ASSUME NEW q \in Requests, Alive(q)' PROVE q = nextRequest
    <2>1. SUFFICES ASSUME q # nextRequest PROVE FALSE
      OBVIOUS
    <2>2. op'[q] = ops[q]
      BY <1>1, <2>1
    <2>3. CASE Alive(q)
      BY <1>2, <2>2, <2>3, BlankFields DEF Alive
    <2>4. CASE ~Alive(q)
      BY <1>2, <2>2, <2>4, BlankFields DEF Alive, Closes
    <2>5. QED
      BY <2>3, <2>4
  <1>3. QED
    BY <1>1, <1>2 DEF OneAlive

\* One request at a time, and the apply that is awaited holds what is staged.
LEMMA OneAliveKept ==
  ASSUME ~Mouse, KeysInv, [Next]_vars
  PROVE  OneAlive' /\ SentAsStaged'
  <1> USE DEF KeysInv, ApplyInv
  <1>0. op \in [Requests -> Ops] /\ Closes(op)
    BY DEF TypeOK, OpTypeOK, Closes
  <1>1. ASSUME UNCHANGED tabVars,
               \A r \in Requests : /\ op'[r].kind = op[r].kind
                                   /\ op'[r].batch = op[r].batch
                                   /\ Alive(r)' <=> Alive(r)
        PROVE  OneAlive' /\ SentAsStaged'
    <2>1. UNCHANGED <<active, inserts, updates, deletes>>
      BY <1>1 DEF tabVars, statusVars, stagedVars
    <2>2. active.kind = "apply" => active.req \in Requests
      BY DEF TypeOK, StatusTypeOK, Idle
    <2>3. MutationsSnapshot' = MutationsSnapshot
      BY <2>1 DEF MutationsSnapshot
    <2>4. QED
      BY <1>1, <2>1, <2>2, <2>3 DEF OneAlive, SentAsStaged
  <1>2. CASE Input
    <2>1. CASE UNCHANGED <<active, op>> /\ Busy
      BY <1>1, <1>2, <2>1, KeysWait DEF CtrlC, Alive
    <2>2. CASE UNCHANGED <<active, op>> /\ ~Busy
      BY <2>2, IdleAlive DEF OneAlive, SentAsStaged, Alive, Idle
    <2>3. CASE ~Busy /\ \E kind \in Kinds \ {"none", "apply"}, asks \in PageRequests :
                          Begin(kind, asks, NoBatch, op)
      <3>1. OneAlive' /\ active'.kind # "apply"
        BY <1>0, <2>3, IdleAlive, BeginAlone
      <3>2. QED
        BY <3>1 DEF SentAsStaged
    <2>4. CASE /\ ~Busy /\ UNCHANGED allStaged
               /\ \E asks \in PageRequests :
                    Begin("apply", asks, MutationsSnapshot, op)
      <3>1. OneAlive' /\ op'[active'.req].batch = MutationsSnapshot
        BY <1>0, <2>4, IdleAlive, BeginAlone
      <3>2. MutationsSnapshot' = MutationsSnapshot
        BY <2>4 DEF MutationsSnapshot, allStaged
      <3>3. QED
        BY <3>1, <3>2 DEF SentAsStaged
    <2>5. QED
      BY <1>2, <2>1, <2>2, <2>3, <2>4, KeyEffect
  <1>3. ASSUME NEW r \in Requests, Deliver(r) PROVE OneAlive' /\ SentAsStaged'
    <2>1. Closes(Closed(r)) /\ Closed(r) \in [Requests -> Ops] /\ Closed(r)[r] = DoneOp
      BY <1>0, <1>3, RepliesAwaited, ClosedCloses DEF Closed, DoneOp
    <2>2. \A q \in Requests : Alive(q) => Closed(r)[q] = DoneOp
      BY <1>3, <2>1, RepliesAwaited
    <2>3. CASE op' = Closed(r) /\ active' = Idle
      <3>1. ASSUME NEW q \in Requests PROVE ~Alive(q)'
        <4>1. CASE Alive(q)
          BY <2>2, <2>3, <4>1, BlankFields DEF Alive
        <4>2. CASE ~Alive(q)
          BY <2>1, <2>3, <4>2, BlankFields DEF Alive, Closes
        <4>3. QED
          BY <4>1, <4>2
      <3>2. QED
        BY <2>3, <3>1 DEF OneAlive, SentAsStaged, Idle
    <2>4. CASE \E kind \in Kinds \ {"none", "apply"}, asks \in PageRequests :
                 Begin(kind, asks, NoBatch, Closed(r))
      <3>1. OneAlive' /\ active'.kind # "apply"
        BY <2>1, <2>2, <2>4, BeginAlone
      <3>2. QED
        BY <3>1 DEF SentAsStaged
    <2>5. QED
      BY <1>3, <2>3, <2>4, ReplyHandled
  <1>4. CASE ExternalWrite \/ UNCHANGED vars
    BY <1>1, <1>4 DEF ExternalWrite, vars, Alive
  <1>5. QED
    BY <1>1, <1>2, <1>3, <1>4, ExecuteEffect DEF Next

\* Success is reported by COMMIT only.
LEMMA OkIsCommittedKept ==
  ASSUME KeysInv, [Next]_vars
  PROVE  OkIsCommitted'
  <1> SUFFICES ASSUME NEW r \in Requests, op'[r].stage = "reply",
                      op'[r].kind = "apply", op'[r].outcome = "ok"
               PROVE  op'[r].committed
    BY DEF OkIsCommitted
  <1>0. TypeOK
    BY DEF KeysInv, ApplyInv
  <1>1. CASE Commit(r)
    <2>1. op[r] \in Ops /\ op' = [op EXCEPT ![r] =
            [@ EXCEPT !.stage = "reply", !.outcome = "ok", !.answer = EmptyPage,
                      !.committed = TRUE, !.asks = NoPageRequest, !.done = {},
                      !.cancelled = FALSE]]
      BY <1>0, <1>1 DEF Commit, Reply, TypeOK, OpTypeOK
    <2>2. op'[r].committed = TRUE
      BY <1>0, <2>1 DEF Ops, TypeOK, OpTypeOK
    <2>3. QED
      BY <2>2
  <1>2. CASE ExecDescribe(r) \/ ExecPage(r)
    <2>1. \E answer : Reply(r, "ok", answer, FALSE)
      BY <1>2 DEF ExecDescribe, ExecPage
    <2>2. op[r].kind = "apply"
      <3>1. ASSUME NEW answer, Reply(r, "ok", answer, FALSE)
            PROVE  op'[r].kind = op[r].kind
        BY <1>0, <3>1, ReplyEffect
      <3>2. QED
        BY <2>1, <3>1
    <2>3. QED
      BY <1>2, <2>2 DEF ExecDescribe, ExecPage, Works
  <1>3. QED
    BY <1>0, <1>1, <1>2, AnswerEffect DEF KeysInv, OkIsCommitted

\* The invariant holds initially and is kept.
LEMMA KeysInvInductive ==
  ASSUME ~Mouse
  PROVE  /\ Init => KeysInv
         /\ KeysInv /\ [Next]_vars => KeysInv'
  <1>1. ASSUME Init PROVE OneAlive /\ SentAsStaged /\ OkIsCommitted
    <2>1. active = [kind |-> "describe", req |-> 1]
      BY <1>1 DEF Init
    <2>2. \A r \in Requests : op[r].stage # "reply"
      BY <1>1 DEF Init, Intent, NoOp
    <2>3. \A r \in Requests \ {1} : ~Alive(r)
      BY <1>1 DEF Init, NoOp, Alive
    <2>4. op[1].kind = "describe"
      BY <1>1, ConstantsAssumption DEF Init, Intent, NoOp, Requests
    <2>5. QED
      BY <2>1, <2>2, <2>3, <2>4 DEF OneAlive, SentAsStaged, OkIsCommitted
  <1>2. QED
    BY <1>1, ApplyInvInit, ApplyInvInductive, OneAliveKept, OkIsCommittedKept
    DEF KeysInv

\* With the keyboard alone, one request is alive at a time, the one awaited; an
\* apply holds all that is staged until its reply, and success means committed.
THEOREM KeysInvariant ==
  ASSUME ~Mouse
  PROVE  Spec => []KeysInv
  BY KeysInvInductive, PTL DEF Spec

\* A reply is handled by the delivery of that reply.
LEMMA HandledByDelivery ==
  ASSUME TypeOK, [Next]_vars, NEW r \in Requests, Handled(r)
  PROVE  Deliver(r)
  <1>0. op \in [Requests -> Ops] /\ op'[r].stage = "done" /\ op'[r] # op[r]
    BY DEF TypeOK, OpTypeOK, Handled
  <1>1. ASSUME NEW ops \in [Requests -> Ops], ops[r] = op[r],
               NEW kind, NEW asks, NEW batch, Begin(kind, asks, batch, ops)
        PROVE  FALSE
    BY <1>0, <1>1 DEF Begin, Intent, NoOp
  <1>2. CASE Input
    BY <1>0, <1>1, <1>2, InputEffect DEF BeginsAny, requestVars
  <1>3. ASSUME NEW q \in Requests, Deliver(q) PROVE q = r
    <2>1. SUFFICES ASSUME q # r PROVE FALSE
      OBVIOUS
    <2>2. Closed(q) \in [Requests -> Ops] /\ Closed(q)[r] = op[r]
      BY <1>0, <1>3, <2>1, DeliverEffect, ClosedCloses DEF Closed
    <2>3. QED
      BY <1>0, <1>1, <1>3, <2>2, DeliverEffect
  <1>4. ASSUME NEW q \in Requests, Dispatch(q) \/ DeliverCancel(q) \/ Execute(q)
        PROVE  FALSE
    BY <1>0, <1>4, ExecuteEffect DEF Handled
  <1>5. CASE ExternalWrite \/ UNCHANGED vars
    BY <1>0, <1>5 DEF ExternalWrite, vars
  <1>6. QED
    BY <1>2, <1>3, <1>4, <1>5 DEF Next

\* A reply clears what is staged only when it reports a commit of just that.
LEMMA ClearsItsBatch ==
  ASSUME KeysInv, NEW r \in Requests, Deliver(r)
  PROVE  \/ UNCHANGED allStaged
         \/ op[r].committed /\ op[r].batch = MutationsSnapshot
  <1>1. CASE DeliverApplied(r)
    <2>1. active = [kind |-> "apply", req |-> r] /\ op[r].stage = "reply"
            /\ op[r].kind = "apply" /\ op[r].outcome = "ok"
      BY <1>1 DEF DeliverApplied, Answers
    <2>2. QED
      BY <2>1 DEF KeysInv, SentAsStaged, OkIsCommitted
  <1>2. CASE ~DeliverApplied(r)
    BY <1>2 DEF Deliver, DeliverDescribed, DeliverPage, DeliverFailed,
                DeliverCancelled, DeliverStale, stagedVars, tabVars, allStaged
  <1>3. QED
    BY <1>1, <1>2

\* With the keyboard alone, a reply clears a staged change only when the request
\* it answers has committed that change (AppliedMsg).
THEOREM ClearsOnlyAfterCommit ==
  ASSUME ~Mouse
  PROVE  Spec => ClearedOnlyAfterCommit
  <1>1. ASSUME KeysInv, [Next]_vars, NEW r \in Requests, Handled(r)
        PROVE  /\ \A d \in inserts \ inserts' :
                    op[r].committed /\ d \in op[r].batch.inserts
               /\ \A k \in Keys :
                    /\ updates[k] # 0 /\ updates'[k] = 0 =>
                         op[r].committed /\ Original(op[r].batch, k) # 0
                    /\ deletes[k] # 0 /\ deletes'[k] = 0 =>
                         op[r].committed /\ op[r].batch.deletes[k] = deletes[k]
    <2>1. Deliver(r)
      BY <1>1, HandledByDelivery DEF KeysInv, ApplyInv
    <2>2. CASE UNCHANGED allStaged
      BY <2>2 DEF allStaged
    <2>3. CASE op[r].committed /\ op[r].batch = MutationsSnapshot
      BY <2>3 DEF MutationsSnapshot, Original
    <2>4. QED
      BY <1>1, <2>1, <2>2, <2>3, ClearsItsBatch
  <1>2. KeysInv /\ [Next]_vars =>
          [\A r \in Requests :
             Handled(r) =>
               /\ \A d \in inserts \ inserts' :
                    op[r].committed /\ d \in op[r].batch.inserts
               /\ \A k \in Keys :
                    /\ updates[k] # 0 /\ updates'[k] = 0 =>
                         op[r].committed /\ Original(op[r].batch, k) # 0
                    /\ deletes[k] # 0 /\ deletes'[k] = 0 =>
                         op[r].committed /\ op[r].batch.deletes[k] = deletes[k]]_vars
    BY <1>1
  <1>3. QED
    BY <1>2, KeysInvariant, PTL DEF Spec, ClearedOnlyAfterCommit

(***************************************************************************)
(* Drafts become rows once.                                                *)
(***************************************************************************)
\* A draft that is still staged has become a row only if its apply, which has
\* committed, has not been handled yet, or if nobody knows.
DraftsLandOnce ==
  /\ \A d \in Drafts : landed[d] > 1 => d \in doubted
  /\ \A d \in inserts :
       /\ d < nextDraft
       /\ landed[d] > 0 /\ d \notin doubted =>
            \E r \in Requests : op[r].stage = "reply" /\ op[r].kind = "apply"
                                  /\ op[r].outcome = "ok"
  /\ \A d \in Drafts : d >= nextDraft => landed[d] = 0

\* A key that waits for the reply adds drafts that have never been sent.
LEMMA KeysAddDrafts ==
  ASSUME ~Mouse, KeysInv, DraftsLandOnce, Input, ~Busy
  PROVE  DraftsLandOnce'
  <1>0. UNCHANGED <<landed, doubted>>
    <2>1. UNCHANGED dbVars
      BY DEF Input, NextPage, PreviousPage, Retry, DescribeAgain, Refresh,
             AskRefresh, CycleSort, StageInsert, OpenEditor, CommitEditor,
             CancelEditor, StageSpecial, ToggleDelete, RevertRow, RequestApply,
             ApplyAgain, ConfirmApply, OpenSummary, CloseDialog, RevertAll,
             RefreshApply, RefreshRevert, CtrlC, UnchangedByStaging,
             UnchangedByDialog, worldVars
    <2>2. QED
      BY <2>1 DEF dbVars
  <1>1. ASSUME NEW d \in inserts PROVE landed[d] > 0 => d \in doubted
    BY IdleAlive DEF DraftsLandOnce, KeysInv, ApplyInv, Alive
  <1>2. /\ nextDraft \in Nat /\ inserts \subseteq Drafts /\ landed \in [Drafts -> Nat]
        /\ Drafts \subseteq Nat
    BY ConstantsAssumption
    DEF KeysInv, ApplyInv, TypeOK, StagedTypeOK, WorldTypeOK, Drafts
  <1>3. CASE StageInsert
    <2>1. inserts' = inserts \cup {nextDraft} /\ nextDraft' = nextDraft + 1
            /\ nextDraft \in Drafts
      BY <1>2, <1>3, ConstantsAssumption
      DEF StageInsert, Drafts, KeysInv, ApplyInv, TypeOK, StagedTypeOK
    <2>2. landed[nextDraft] = 0
      BY <1>2, <2>1 DEF DraftsLandOnce
    <2>3. ASSUME NEW d \in inserts'
          PROVE  d < nextDraft' /\ (landed'[d] > 0 => d \in doubted')
      <3>1. CASE d = nextDraft
        BY <1>0, <1>2, <2>1, <2>2, <3>1
      <3>2. CASE d \in inserts
        <4>1. d < nextDraft /\ d \in Nat
          BY <1>2, <3>2 DEF DraftsLandOnce
        <4>2. QED
          BY <1>0, <1>1, <1>2, <2>1, <3>2, <4>1
      <3>3. QED
        BY <2>1, <3>1, <3>2
    <2>4. ASSUME NEW d \in Drafts, d >= nextDraft' PROVE landed'[d] = 0
      BY <1>0, <1>2, <2>1, <2>4 DEF DraftsLandOnce
    <2>5. \A d \in Drafts : landed'[d] > 1 => d \in doubted'
      BY <1>0 DEF DraftsLandOnce
    <2>6. QED
      BY <2>3, <2>4, <2>5 DEF DraftsLandOnce
  <1>4. CASE ~StageInsert
    <2>1. inserts' \subseteq inserts /\ nextDraft' = nextDraft
      <3>1. CASE NextPage \/ PreviousPage \/ Refresh \/ CycleSort \/ Retry
                   \/ DescribeAgain \/ AskRefresh \/ ConfirmApply
                   \/ RefreshApply \/ RequestApply \/ ApplyAgain \/ OpenSummary
                   \/ CloseDialog
        BY <3>1 DEF NextPage, PreviousPage, Refresh, CycleSort, Retry,
                    DescribeAgain, AskRefresh, ConfirmApply, RefreshApply,
                    RequestApply, ApplyAgain, OpenSummary, CloseDialog,
                    stagedVars
      <3>2. CASE RefreshRevert \/ RevertAll
        BY <3>2 DEF RefreshRevert, RevertAll, ClearChanges
      <3>3. CASE OpenEditor \/ CommitEditor \/ CancelEditor \/ StageSpecial
                   \/ ToggleDelete \/ RevertRow \/ CtrlC
        BY <3>3 DEF OpenEditor, CommitEditor, CancelEditor, StageSpecial,
                    ToggleDelete, RevertRow, DropDraft, CtrlC, tabVars,
                    stagedVars
      <3>4. QED
        BY <1>4, <3>1, <3>2, <3>3 DEF Input
    <2>2. QED
      BY <1>0, <1>1, <1>2, <2>1 DEF DraftsLandOnce
  <1>5. QED
    BY <1>3, <1>4

\* What changes neither drafts, rows nor replies keeps the invariant.
LEMMA SameDrafts ==
  ASSUME DraftsLandOnce, UNCHANGED <<inserts, nextDraft, landed, doubted>>,
         \A r \in Requests : op[r].stage = "reply" => op'[r] = op[r]
  PROVE  DraftsLandOnce'
  <1>1. ASSUME NEW d \in inserts', landed'[d] > 0, d \notin doubted'
        PROVE  \E r \in Requests : op'[r].stage = "reply" /\ op'[r].kind = "apply"
                                     /\ op'[r].outcome = "ok"
    BY <1>1 DEF DraftsLandOnce
  <1>2. QED
    BY <1>1 DEF DraftsLandOnce

\* A commit lands drafts that have not landed before, or nobody knows.
LEMMA CommitLandsOnce ==
  ASSUME KeysInv, DraftsLandOnce, NEW r \in Requests, op[r].stage = "commit"
  PROVE  /\ op[r].kind = "apply" /\ op[r].batch.inserts = inserts
         /\ \A d \in inserts : landed[d] > 0 => d \in doubted
  <1>1. op[r].kind = "apply" /\ Alive(r)
    BY DEF KeysInv, ApplyInv, RowsLocked, Alive
  <1>2. active.kind = "apply" /\ active.req = r
    BY <1>1 DEF KeysInv, OneAlive
  <1>3. op[r].batch.inserts = inserts
    BY <1>2 DEF KeysInv, SentAsStaged, MutationsSnapshot
  <1>4. ASSUME NEW q \in Requests, op[q].stage = "reply" PROVE FALSE
    <2>1. active.req = q
      BY <1>4 DEF KeysInv, OneAlive, Alive
    <2>2. QED
      BY <1>2, <1>4, <2>1
  <1>5. QED
    BY <1>1, <1>3, <1>4 DEF DraftsLandOnce

\* The steps of an execution keep the invariant.
LEMMA ExecutionLandsOnce ==
  ASSUME KeysInv, DraftsLandOnce, NEW r \in Requests,
         Dispatch(r) \/ DeliverCancel(r) \/ Execute(r)
  PROVE  DraftsLandOnce'
  <1>0. /\ UNCHANGED <<inserts, nextDraft>>
        /\ \A q \in Requests : op[q].stage = "reply" => op'[q] = op[q]
    BY ExecuteEffect DEF KeysInv, ApplyInv, tabVars, stagedVars
  <1>1. /\ inserts \subseteq Drafts /\ landed \in [Drafts -> Nat]
        /\ nextDraft \in Nat /\ Drafts \subseteq Nat
    BY ConstantsAssumption
    DEF KeysInv, ApplyInv, TypeOK, StagedTypeOK, WorldTypeOK, Drafts
  <1>2. ASSUME op[r].stage = "commit", LandBatch(op[r].batch),
               \/ doubted' = doubted /\ op'[r].stage = "reply"
                    /\ op'[r].kind = "apply" /\ op'[r].outcome = "ok"
               \/ doubted' = doubted \cup inserts
        PROVE  DraftsLandOnce'
    <2>1. landed' = [d \in Drafts |-> IF d \in inserts THEN landed[d] + 1
                                                       ELSE landed[d]]
      BY <1>2, CommitLandsOnce DEF LandBatch
    <2>2. \A d \in inserts : landed[d] > 0 => d \in doubted
      BY <1>2, CommitLandsOnce
    <2>3. ASSUME NEW d \in Drafts, landed'[d] > 1 PROVE d \in doubted'
      <3>1. CASE d \in inserts
        BY <1>1, <1>2, <2>1, <2>2, <2>3, <3>1
      <3>2. CASE d \notin inserts
        BY <1>2, <2>1, <2>3, <3>2 DEF DraftsLandOnce
      <3>3. QED
        BY <3>1, <3>2
    <2>4. ASSUME NEW d \in inserts'
          PROVE  /\ d < nextDraft'
                 /\ landed'[d] > 0 /\ d \notin doubted' =>
                      \E q \in Requests : op'[q].stage = "reply"
                        /\ op'[q].kind = "apply" /\ op'[q].outcome = "ok"
      BY <1>0, <1>2, <2>4 DEF DraftsLandOnce
    <2>5. ASSUME NEW d \in Drafts, d >= nextDraft' PROVE landed'[d] = 0
      <3>1. d \notin inserts
        BY <1>0, <1>1, <2>5 DEF DraftsLandOnce
      <3>2. QED
        BY <1>0, <2>1, <2>5, <3>1 DEF DraftsLandOnce
    <2>6. QED
      BY <2>3, <2>4, <2>5 DEF DraftsLandOnce
  <1>3. CASE Commit(r)
    <2>1. op'[r].stage = "reply" /\ op'[r].kind = "apply" /\ op'[r].outcome = "ok"
      BY <1>3, ReplyEffect, CommitLandsOnce DEF Commit, KeysInv, ApplyInv
    <2>2. QED
      BY <1>2, <1>3, <2>1 DEF Commit
  <1>4. CASE CommitUncertain(r)
    <2>1. op[r].stage = "commit" /\ doubted' = doubted \cup inserts
      BY <1>4, CommitLandsOnce DEF CommitUncertain
    <2>2. CASE LandBatch(op[r].batch)
      BY <1>2, <2>1, <2>2
    <2>3. CASE UNCHANGED landed
      BY <1>0, <2>1, <2>3 DEF DraftsLandOnce
    <2>4. QED
      BY <1>4, <2>2, <2>3 DEF CommitUncertain
  <1>5. CASE ~Commit(r) /\ ~CommitUncertain(r)
    <2>1. UNCHANGED <<landed, doubted>>
      BY <1>5 DEF Dispatch, DeliverCancel, Execute, ExecFail, ExecDescribe,
                  ExecPage, ExecPageRefused, ExecMutation, ExecInserts,
                  CommitRefused, worldVars, dbVars
    <2>2. QED
      BY <1>0, <2>1, SameDrafts
  <1>6. QED
    BY <1>3, <1>4, <1>5

\* The replies keep the invariant: a reply that reports a commit clears.
LEMMA DeliveryLandsOnce ==
  ASSUME KeysInv, DraftsLandOnce, NEW r \in Requests, Deliver(r)
  PROVE  DraftsLandOnce'
  <1>0. UNCHANGED <<landed, doubted, nextDraft>>
    BY DEF Deliver, DeliverDescribed, DeliverPage, DeliverApplied, DeliverFailed,
           DeliverCancelled, DeliverStale, worldVars, dbVars, stagedVars, tabVars
  <1>1. CASE DeliverApplied(r)
    <2>1. inserts' = {}
      BY <1>1 DEF DeliverApplied, ClearChanges
    <2>2. QED
      BY <1>0, <2>1 DEF DraftsLandOnce
  <1>2. CASE ~DeliverApplied(r)
    <2>1. ~DeliverStale(r)
      BY RepliesAwaited DEF KeysInv
    <2>2. inserts' = inserts
      BY <1>2, <2>1 DEF Deliver, DeliverDescribed, DeliverPage, DeliverFailed,
                        DeliverCancelled, stagedVars
    <2>3. ~(op[r].kind = "apply" /\ op[r].outcome = "ok")
      BY <1>2, <2>1 DEF Deliver, DeliverDescribed, DeliverPage, DeliverFailed,
                        DeliverCancelled
    <2>4. ASSUME NEW q \in Requests, op[q].stage = "reply" PROVE q = r
      BY <2>4, RepliesAwaited DEF KeysInv, Alive
    <2>5. \A d \in inserts : landed[d] > 0 => d \in doubted
      BY <2>3, <2>4 DEF DraftsLandOnce
    <2>6. QED
      BY <1>0, <2>2, <2>5 DEF DraftsLandOnce
  <1>3. QED
    BY <1>1, <1>2

\* The invariant holds initially and is kept.
LEMMA DraftsLandOnceInductive ==
  ASSUME ~Mouse
  PROVE  /\ Init => DraftsLandOnce
         /\ KeysInv /\ DraftsLandOnce /\ [Next]_vars => DraftsLandOnce'
  <1>1. Init => DraftsLandOnce
    BY DEF Init, DraftsLandOnce
  <1> SUFFICES ASSUME KeysInv, DraftsLandOnce, [Next]_vars
               PROVE  DraftsLandOnce'
    BY <1>1
  <1>3. CASE Input /\ Busy
    <2>1. UNCHANGED <<inserts, nextDraft, landed, doubted, op>>
      BY <1>3, KeysWait DEF CtrlC, tabVars, stagedVars, dbVars
    <2>2. QED
      BY <2>1, SameDrafts
  <1>4. CASE Input /\ ~Busy
    BY <1>4, KeysAddDrafts
  <1>5. CASE ExternalWrite \/ UNCHANGED vars
    <2>1. UNCHANGED <<inserts, nextDraft, landed, doubted, op>>
      BY <1>5 DEF ExternalWrite, vars, worldVars, dbVars, tabVars, stagedVars
    <2>2. QED
      BY <2>1, SameDrafts
  <1>6. QED
    BY <1>3, <1>4, <1>5, ExecutionLandsOnce, DeliveryLandsOnce DEF Next

\* With the keyboard alone, a draft becomes at most one row, unless a commit that
\* carried it went unacknowledged: a retry inserts nothing a second time.
THEOREM AppliesDraftsOnce ==
  ASSUME ~Mouse
  PROVE  Spec => []AppliedOnce
  <1>1. DraftsLandOnce => AppliedOnce
    BY DEF DraftsLandOnce, AppliedOnce
  <1>2. QED
    BY <1>1, DraftsLandOnceInductive, KeysInvariant, PTL DEF Spec

(***************************************************************************)
(* The page that is labelled n.  The rank of a row is its place in the     *)
(* order of a sort; what the seek predicate leaves of the table is counted *)
(* in ranks.                                                               *)
(***************************************************************************)

RowsUpTo(s, k) == {j \in Keys : ~Before(s, k, j)}
RowsAhead(s, k) == {j \in Keys : Before(s, j, k)}
RowsBetween(s, c, k) == {j \in Keys : Before(s, c, j) /\ Before(s, j, k)}

\* The rows between two rows, or before one, are counted by the ranks.
LEMMA RankApart ==
  ASSUME NEW s \in Sorts, NEW c \in Keys, NEW k \in Keys
  PROVE  /\ Rank(s, k) \in Nat /\ Rank(s, k) >= 1
         /\ Cardinality(RowsAhead(s, k)) = Rank(s, k) - 1
         /\ Cardinality(RowsBetween(s, c, k)) \in Nat
         /\ Before(s, c, k) =>
              Cardinality(RowsBetween(s, c, k)) = Rank(s, k) - Rank(s, c) - 1
  <1>0. IsFiniteSet(Keys) /\ Keys \subseteq Nat
    BY ConstantsAssumption
  <1>1. \A T \in SUBSET Keys : IsFiniteSet(T) /\ Cardinality(T) \in Nat
    BY <1>0, FS_Subset, FS_CardinalityType
  <1>2. /\ RowsUpTo(s, k) \in SUBSET Keys /\ RowsUpTo(s, c) \in SUBSET Keys
        /\ RowsAhead(s, k) \in SUBSET Keys /\ RowsBetween(s, c, k) \in SUBSET Keys
    BY DEF RowsUpTo, RowsAhead, RowsBetween
  <1>3. Rank(s, k) = Cardinality(RowsUpTo(s, k)) /\ Rank(s, c) = Cardinality(RowsUpTo(s, c))
    BY DEF Rank, RowsUpTo
  <1>4. Rank(s, k) = Cardinality(RowsAhead(s, k)) + 1
    <2>1. \A j \in Keys : ~Before(s, k, j) <=> Before(s, j, k) \/ j = k
      BY <1>0 DEF Before
    <2>2. k \notin RowsAhead(s, k)
      BY <1>0 DEF Before, RowsAhead
    <2>3. RowsUpTo(s, k) = RowsAhead(s, k) \cup {k}
      BY <2>1 DEF RowsUpTo, RowsAhead
    <2>4. Cardinality(RowsAhead(s, k) \cup {k}) = Cardinality(RowsAhead(s, k)) + 1
      BY <1>1, <1>2, <2>2, FS_AddElement
    <2>5. QED
      BY <1>3, <2>3, <2>4
  <1>5. ASSUME Before(s, c, k)
        PROVE  Cardinality(RowsBetween(s, c, k)) = Rank(s, k) - Rank(s, c) - 1
    <2>1. \A j \in Keys : Before(s, j, k) <=> ~Before(s, c, j) \/ (Before(s, c, j) /\ Before(s, j, k))
      BY <1>0, <1>5 DEF Before
    <2>2. /\ RowsAhead(s, k) = RowsUpTo(s, c) \cup RowsBetween(s, c, k)
          /\ RowsUpTo(s, c) \cap RowsBetween(s, c, k) = {}
      BY <2>1 DEF RowsAhead, RowsUpTo, RowsBetween
    <2>3. Cardinality(RowsUpTo(s, c) \cup RowsBetween(s, c, k))
            = Cardinality(RowsUpTo(s, c)) + Cardinality(RowsBetween(s, c, k))
                - Cardinality(RowsUpTo(s, c) \cap RowsBetween(s, c, k))
      BY <1>1, <1>2, FS_Union
    <2>4. Cardinality(RowsAhead(s, k)) \in Nat /\ Cardinality(RowsUpTo(s, c)) \in Nat
            /\ Cardinality(RowsBetween(s, c, k)) \in Nat
      BY <1>1, <1>2
    <2>5. Cardinality(RowsUpTo(s, c) \cap RowsBetween(s, c, k)) = 0
      BY <2>2, FS_EmptySet
    <2>6. Cardinality(RowsAhead(s, k))
            = Cardinality(RowsUpTo(s, c)) + Cardinality(RowsBetween(s, c, k))
                - Cardinality(RowsUpTo(s, c) \cap RowsBetween(s, c, k))
      BY <2>2, <2>3
    <2>7. QED
      BY <1>3, <1>4, <2>4, <2>5, <2>6
  <1>6. Cardinality(RowsAhead(s, k)) \in Nat /\ Cardinality(RowsBetween(s, c, k)) \in Nat
    BY <1>1, <1>2
  <1>7. QED
    BY <1>4, <1>5, <1>6

\* Ranks are ordered as the rows are.
LEMMA RankOrder ==
  ASSUME NEW s \in Sorts, NEW c \in Keys, NEW k \in Keys
  PROVE  Before(s, c, k) <=> Rank(s, c) < Rank(s, k)
  <1>1. Rank(s, c) \in Nat /\ Rank(s, k) \in Nat /\ c \in Nat /\ k \in Nat
    BY RankApart, ConstantsAssumption
  <1>2. \A x, y \in Keys : Before(s, x, y) => Rank(s, x) < Rank(s, y)
    <2> SUFFICES ASSUME NEW x \in Keys, NEW y \in Keys, Before(s, x, y)
                 PROVE  Rank(s, x) < Rank(s, y)
      OBVIOUS
    <2>1. /\ Cardinality(RowsBetween(s, x, y)) \in Nat
          /\ Cardinality(RowsBetween(s, x, y)) = Rank(s, y) - Rank(s, x) - 1
      BY RankApart
    <2>2. Rank(s, x) \in Nat /\ Rank(s, y) \in Nat
      BY RankApart
    <2>3. QED
      BY <2>1, <2>2
  <1>3. Before(s, c, k) \/ Before(s, k, c) \/ c = k
    BY <1>1 DEF Before
  <1>4. QED
    BY <1>1, <1>2, <1>3

\* A row with no row between it and a later one has the rank before it.
LEMMA RankNext ==
  ASSUME NEW s \in Sorts, NEW c \in Keys, NEW k \in Keys, Before(s, c, k),
         \A j \in Keys : ~(Before(s, c, j) /\ Before(s, j, k))
  PROVE  Rank(s, k) = Rank(s, c) + 1
  <1>1. Cardinality(RowsBetween(s, c, k)) = 0
    <2>1. RowsBetween(s, c, k) = {}
      BY DEF RowsBetween
    <2>2. QED
      BY <2>1, FS_EmptySet
  <1>2. Rank(s, c) \in Nat /\ Rank(s, k) \in Nat
    BY RankApart
  <1>3. QED
    BY <1>1, <1>2, RankApart

\* A set of numbers has a least one.
LEMMA LeastNumber ==
  ASSUME NEW T, T \subseteq Nat, T # {}
  PROVE  \E x \in T : \A y \in T : x <= y
  <1> DEFINE R == OpToRel(<, Nat)
  <1>1. IsWellFoundedOn(R, Nat)
    BY NatLessThanWellFounded
  <1>2. \A x, y \in Nat : <<y, x>> \in R <=> y < x
    BY DEF OpToRel
  <1> HIDE DEF R
  <1>3. PICK x \in T : \A y \in T : ~(<<y, x>> \in R)
    BY <1>1, WFMin
  <1>4. ASSUME NEW y \in T PROVE x <= y
    <2>1. x \in Nat /\ y \in Nat /\ ~(y < x)
      BY <1>2, <1>3
    <2>2. QED
      BY <2>1
  <1>5. QED
    BY <1>4

\* A set of rows has one of the least rank and one of the greatest.
LEMMA RankEnds ==
  ASSUME NEW s \in Sorts, NEW T, T \subseteq Keys, T # {}
  PROVE  /\ \E e \in T : \A k \in T : Rank(s, e) <= Rank(s, k)
         /\ \E e \in T : \A k \in T : Rank(s, k) <= Rank(s, e)
  <1>1. \A k \in Keys : Rank(s, k) \in Nat
    BY RankApart
  <1>2. \E e \in T : \A k \in T : Rank(s, e) <= Rank(s, k)
    <2> DEFINE R == {Rank(s, k) : k \in T}
    <2>1. R \subseteq Nat /\ R # {}
      BY <1>1
    <2> HIDE DEF R
    <2>2. PICK x \in R : \A y \in R : x <= y
      BY <2>1, LeastNumber
    <2>3. QED
      BY <2>2 DEF R
  <1>3. \E e \in T : \A k \in T : Rank(s, k) <= Rank(s, e)
    <2> DEFINE N == Cardinality(Keys)
               R == {N - Rank(s, k) : k \in T}
    <2>0. N \in Nat /\ \A k \in T : Rank(s, k) \in Nat
      BY <1>1, ConstantsAssumption, FS_CardinalityType
    <2>1. \A k \in Keys : Rank(s, k) <= N
      BY ConstantsAssumption, FS_Subset DEF Rank
    <2>2. R \subseteq Nat /\ R # {}
      BY <2>0, <2>1
    <2> HIDE DEF R, N
    <2>3. PICK x \in R : \A y \in R : x <= y
      BY <2>2, LeastNumber
    <2>4. PICK e \in T : x = N - Rank(s, e)
      BY <2>3 DEF R
    <2>5. ASSUME NEW k \in T PROVE Rank(s, k) <= Rank(s, e)
      <3>1. N - Rank(s, e) <= N - Rank(s, k)
        BY <2>3, <2>4 DEF R
      <3>2. QED
        BY <2>0, <3>1
    <2>6. QED
      BY <2>5
  <1>4. QED
    BY <1>2, <1>3

\* What a seek leaves of the table, and the page that is read of it.
RowsAbove(s, b) == {k \in Keys : Rank(s, k) > b}
RowsBelow(s, b) == {k \in Keys : Rank(s, k) <= b}
AheadIn(S, s, k) == {j \in S : Before(s, j, k)}
BehindIn(S, s, k) == {j \in S : Before(s, k, j)}
Leading(S, s) == {k \in S : Cardinality(AheadIn(S, s, k)) < PageSize}
Trailing(S, s) == {k \in S : Cardinality(BehindIn(S, s, k)) < PageSize}
RanksIn(s, a, b) == {k \in Keys : Rank(s, k) > a /\ Rank(s, k) <= b}

\* A set is the rows ahead of its last row, or behind its first, and that row.
LEMMA EndsCount ==
  ASSUME NEW s \in Sorts, NEW S, S \subseteq Keys, NEW x \in S
  PROVE  /\ (\A k \in S : ~Before(s, x, k)) =>
              Cardinality(S) = Cardinality(AheadIn(S, s, x)) + 1
         /\ (\A k \in S : ~Before(s, k, x)) =>
              Cardinality(S) = Cardinality(BehindIn(S, s, x)) + 1
  <1>0. IsFiniteSet(Keys) /\ Keys \subseteq Nat
    BY ConstantsAssumption
  <1>1. \A j \in S : Before(s, j, x) \/ Before(s, x, j) \/ j = x
    BY <1>0 DEF Before
  <1>2. x \notin AheadIn(S, s, x) /\ x \notin BehindIn(S, s, x)
    BY <1>0 DEF Before, AheadIn, BehindIn
  <1>3. IsFiniteSet(AheadIn(S, s, x)) /\ IsFiniteSet(BehindIn(S, s, x))
    <2>1. AheadIn(S, s, x) \in SUBSET Keys /\ BehindIn(S, s, x) \in SUBSET Keys
      BY DEF AheadIn, BehindIn
    <2>2. QED
      BY <1>0, <2>1, FS_Subset
  <1>4. ASSUME \A k \in S : ~Before(s, x, k)
        PROVE  Cardinality(S) = Cardinality(AheadIn(S, s, x)) + 1
    <2>1. S = AheadIn(S, s, x) \cup {x}
      BY <1>1, <1>4 DEF AheadIn
    <2>2. Cardinality(AheadIn(S, s, x) \cup {x}) = Cardinality(AheadIn(S, s, x)) + 1
      BY <1>2, <1>3, FS_AddElement
    <2>3. QED
      BY <2>1, <2>2
  <1>5. ASSUME \A k \in S : ~Before(s, k, x)
        PROVE  Cardinality(S) = Cardinality(BehindIn(S, s, x)) + 1
    <2>1. S = BehindIn(S, s, x) \cup {x}
      BY <1>1, <1>5 DEF BehindIn
    <2>2. Cardinality(BehindIn(S, s, x) \cup {x}) = Cardinality(BehindIn(S, s, x)) + 1
      BY <1>2, <1>3, FS_AddElement
    <2>3. QED
      BY <2>1, <2>2
  <1>6. QED
    BY <1>4, <1>5

\* Forwards: the rows after a row, or all of them, from the first one.
LEMMA LeadingRanks ==
  ASSUME NEW s \in Sorts, NEW b \in Nat,
         b = 0 \/ \E c \in Keys : Rank(s, c) = b,
         NEW S, S = RowsAbove(s, b), NEW W, W = Leading(S, s)
  PROVE  /\ W = RanksIn(s, b, b + PageSize)
         /\ \A x \in W : (\A k \in W : ~Before(s, k, x)) => Rank(s, x) = b + 1
         /\ \A x \in W : (\A k \in W : ~Before(s, x, k)) /\ Cardinality(S) > PageSize
                           => Rank(s, x) = b + PageSize
  <1>0. /\ \A k \in Keys : Rank(s, k) \in Nat /\ Rank(s, k) >= 1
        /\ \A j, k \in Keys : Before(s, j, k) <=> Rank(s, j) < Rank(s, k)
        /\ S \subseteq Keys /\ PageSize \in Nat \ {0}
    BY RankApart, RankOrder, ConstantsAssumption DEF RowsAbove
  <1>1. ASSUME NEW k \in S PROVE Cardinality(AheadIn(S, s, k)) = Rank(s, k) - 1 - b
    <2>1. CASE b = 0
      <3>1. S = Keys
        BY <1>0, <2>1 DEF RowsAbove
      <3>2. AheadIn(S, s, k) = RowsAhead(s, k)
        BY <3>1 DEF AheadIn, RowsAhead
      <3>3. Cardinality(RowsAhead(s, k)) = Rank(s, k) - 1 /\ Rank(s, k) \in Nat
        BY <3>1, RankApart
      <3>4. QED
        BY <2>1, <3>2, <3>3
    <2>2. CASE \E c \in Keys : Rank(s, c) = b
      <3>1. PICK c \in Keys : Rank(s, c) = b
        BY <2>2
      <3>2. AheadIn(S, s, k) = RowsBetween(s, c, k)
        BY <1>0, <3>1 DEF AheadIn, RowsBetween, RowsAbove
      <3>3. Before(s, c, k) /\ k \in Keys
        BY <1>0, <3>1 DEF RowsAbove
      <3>4. Cardinality(RowsBetween(s, c, k)) = Rank(s, k) - Rank(s, c) - 1
        BY <3>3, RankApart
      <3>5. Rank(s, k) \in Nat
        BY <1>0, <3>3
      <3>6. QED
        BY <3>1, <3>2, <3>4, <3>5
    <2>3. QED
      BY <2>1, <2>2
  <1>2. W = RanksIn(s, b, b + PageSize)
    BY <1>0, <1>1 DEF Leading, RanksIn, RowsAbove
  <1>3. ASSUME NEW x \in W, \A k \in W : ~Before(s, k, x) PROVE Rank(s, x) = b + 1
    <2>1. x \in S /\ Rank(s, x) \in Nat
      BY <1>0 DEF Leading
    <2>2. AheadIn(S, s, x) = {}
      <3> SUFFICES ASSUME NEW j \in S, Before(s, j, x) PROVE FALSE
        BY DEF AheadIn
      <3>1. j \in W
        BY <1>0, <1>2, <2>1 DEF RanksIn, RowsAbove
      <3>2. QED
        BY <1>3, <3>1
    <2>3. Cardinality(AheadIn(S, s, x)) = 0
      BY <2>2, FS_EmptySet
    <2>4. QED
      BY <1>1, <2>1, <2>3
  <1>4. ASSUME NEW x \in W, \A k \in W : ~Before(s, x, k), Cardinality(S) > PageSize
        PROVE  Rank(s, x) = b + PageSize
    <2>1. x \in S /\ x \in Keys /\ Rank(s, x) > b /\ Rank(s, x) <= b + PageSize
            /\ Rank(s, x) \in Nat
      BY <1>0, <1>2 DEF RanksIn, Leading
    <2>2. S \ W # {}
      <3> SUFFICES ASSUME S \ W = {} PROVE FALSE
        OBVIOUS
      <3>1. \A k \in S : ~Before(s, x, k)
        BY <1>4
      <3>2. Cardinality(S) = Rank(s, x) - b
        BY <1>0, <1>1, <2>1, <3>1, EndsCount
      <3>3. QED
        BY <1>0, <1>4, <2>1, <3>2
    <2>3. PICK e \in S \ W : \A k \in S \ W : Rank(s, e) <= Rank(s, k)
      BY <1>0, <2>2, RankEnds
    <2>4. e \in Keys /\ Rank(s, e) \in Nat /\ Rank(s, e) > b + PageSize
      BY <1>0, <1>2, <2>3 DEF RanksIn, RowsAbove
    <2>5. Before(s, x, e)
      BY <1>0, <2>1, <2>4
    <2>6. ASSUME NEW j \in Keys, Before(s, x, j), Before(s, j, e) PROVE FALSE
      <3>1. Rank(s, x) < Rank(s, j) /\ Rank(s, j) < Rank(s, e) /\ Rank(s, j) \in Nat
        BY <1>0, <2>1, <2>4, <2>6
      <3>2. j \in S /\ j \notin W
        BY <1>4, <2>1, <2>6, <3>1 DEF RowsAbove
      <3>3. QED
        BY <2>3, <2>4, <3>1, <3>2
    <2>7. Rank(s, e) = Rank(s, x) + 1
      BY <2>1, <2>4, <2>5, <2>6, RankNext
    <2>8. QED
      BY <1>0, <2>1, <2>4, <2>7
  <1>5. QED
    BY <1>2, <1>3, <1>4

\* Backwards: the rows before a row, counted from the last one.
LEMMA TrailingRanks ==
  ASSUME NEW s \in Sorts, NEW b \in Nat, NEW c \in Keys, Rank(s, c) = b + 1,
         NEW S, S = RowsBelow(s, b), NEW W, W = Trailing(S, s)
  PROVE  /\ W = RanksIn(s, b - PageSize, b)
         /\ \A x \in W : (\A k \in W : ~Before(s, x, k)) => Rank(s, x) = b
         /\ \A x \in W : (\A k \in W : ~Before(s, k, x)) /\ Cardinality(S) > PageSize
                           => Rank(s, x) = b - PageSize + 1 /\ b > PageSize
  <1>0. /\ \A k \in Keys : Rank(s, k) \in Nat /\ Rank(s, k) >= 1
        /\ \A j, k \in Keys : Before(s, j, k) <=> Rank(s, j) < Rank(s, k)
        /\ S \subseteq Keys /\ PageSize \in Nat \ {0}
    BY RankApart, RankOrder, ConstantsAssumption DEF RowsBelow
  <1>1. ASSUME NEW k \in S PROVE Cardinality(BehindIn(S, s, k)) = b - Rank(s, k)
    <2>1. k \in Keys /\ Rank(s, k) \in Nat /\ Before(s, k, c)
      BY <1>0 DEF RowsBelow
    <2>2. BehindIn(S, s, k) = RowsBetween(s, k, c)
      BY <1>0 DEF BehindIn, RowsBetween, RowsBelow
    <2>3. Cardinality(RowsBetween(s, k, c)) = Rank(s, c) - Rank(s, k) - 1
      BY <2>1, RankApart
    <2>4. QED
      BY <2>1, <2>2, <2>3
  <1>2. W = RanksIn(s, b - PageSize, b)
    BY <1>0, <1>1 DEF Trailing, RanksIn, RowsBelow
  <1>3. ASSUME NEW x \in W, \A k \in W : ~Before(s, x, k) PROVE Rank(s, x) = b
    <2>1. x \in S /\ Rank(s, x) \in Nat
      BY <1>0 DEF Trailing
    <2>2. BehindIn(S, s, x) = {}
      <3> SUFFICES ASSUME NEW j \in S, Before(s, x, j) PROVE FALSE
        BY DEF BehindIn
      <3>1. j \in W
        BY <1>0, <1>2, <2>1 DEF RanksIn, RowsBelow
      <3>2. QED
        BY <1>3, <3>1
    <2>3. Cardinality(BehindIn(S, s, x)) = 0
      BY <2>2, FS_EmptySet
    <2>4. QED
      BY <1>1, <2>1, <2>3
  <1>4. ASSUME NEW x \in W, \A k \in W : ~Before(s, k, x), Cardinality(S) > PageSize
        PROVE  Rank(s, x) = b - PageSize + 1 /\ b > PageSize
    <2>1. x \in S /\ x \in Keys /\ Rank(s, x) > b - PageSize /\ Rank(s, x) <= b
            /\ Rank(s, x) \in Nat
      BY <1>0, <1>2 DEF RanksIn, Trailing
    <2>2. S \ W # {}
      <3> SUFFICES ASSUME S \ W = {} PROVE FALSE
        OBVIOUS
      <3>1. \A k \in S : ~Before(s, k, x)
        BY <1>4
      <3>2. Cardinality(S) = b - Rank(s, x) + 1
        BY <1>0, <1>1, <2>1, <3>1, EndsCount
      <3>3. QED
        BY <1>0, <1>4, <2>1, <3>2
    <2>3. PICK e \in S \ W : \A k \in S \ W : Rank(s, k) <= Rank(s, e)
      BY <1>0, <2>2, RankEnds
    <2>4. e \in Keys /\ Rank(s, e) \in Nat /\ Rank(s, e) >= 1 /\ Rank(s, e) <= b - PageSize
      BY <1>0, <1>2, <2>3 DEF RanksIn, RowsBelow
    <2>5. Before(s, e, x)
      BY <1>0, <2>1, <2>4
    <2>6. ASSUME NEW j \in Keys, Before(s, e, j), Before(s, j, x) PROVE FALSE
      <3>1. Rank(s, e) < Rank(s, j) /\ Rank(s, j) < Rank(s, x) /\ Rank(s, j) \in Nat
        BY <1>0, <2>1, <2>4, <2>6
      <3>2. j \in S /\ j \notin W
        BY <1>4, <2>1, <2>6, <3>1 DEF RowsBelow
      <3>3. QED
        BY <2>3, <2>4, <3>1, <3>2
    <2>7. Rank(s, x) = Rank(s, e) + 1
      BY <2>1, <2>4, <2>5, <2>6, RankNext
    <2>8. QED
      BY <1>0, <2>1, <2>4, <2>7
  <1>5. QED
    BY <1>2, <1>3, <1>4

\* A page with its cursors is the one its number says.
Numbered(p) ==
  /\ p.ord \in Nat \ {0}
  /\ {k \in Keys : p.shown[k] # 0}
       = RanksIn(p.sort, (p.ord - 1) * PageSize, p.ord * PageSize)
  /\ p.next.key # 0 => Rank(p.next.sort, p.next.key) = p.ord * PageSize
  /\ p.prev.key # 0 =>
       p.ord > 1 /\ Rank(p.prev.sort, p.prev.key) = (p.ord - 1) * PageSize + 1

\* A request, if its cursor is of its sort, leads to the page it was made for.
Sound(asks) ==
  /\ asks.dir \in {"first", "next", "previous"} /\ asks.ord \in Nat \ {0}
  /\ asks.dir = "first" => asks.ord = 1
  /\ asks.dir = "next" =>
       /\ asks.ord > 1 /\ asks.cursor.key \in Keys
       /\ Rank(asks.cursor.sort, asks.cursor.key) = (asks.ord - 1) * PageSize
  /\ asks.dir = "previous" =>
       /\ asks.cursor.key \in Keys
       /\ Rank(asks.cursor.sort, asks.cursor.key) = asks.ord * PageSize + 1

\* Pages follow one another, each of as many rows, and the first ends first.
LEMMA PagesOfRows ==
  ASSUME NEW n \in Nat \ {0}
  PROVE  /\ (n - 1) * PageSize \in Nat /\ n * PageSize \in Nat
         /\ (n - 1) * PageSize + PageSize = n * PageSize
         /\ n * PageSize > PageSize => n > 1
  <1>1. PageSize \in Nat \ {0}
    BY ConstantsAssumption
  <1>2. n = 1 => n * PageSize = PageSize
    BY <1>1
  <1>3. QED
    BY <1>1, <1>2

\* Every row is the one the table began with.
Unwritten == \A k \in Keys : table[k] = 1

\* In a table nobody has written to, a sound request is answered by the page
\* it was made for (fetchKeysetPage).
LEMMA AnswerNumbered ==
  ASSUME TypeOK, Unwritten, NEW r \in Requests, Sound(op[r].asks),
         op[r].asks.dir # "first" => op[r].asks.cursor.sort = op[r].asks.sort,
         NEW first \in Keys \cup {0}, NEW last \in Keys \cup {0},
         Ends(Window(op[r].asks), op[r].asks.sort, first, last)
  PROVE  /\ Numbered(PageAnswer(r, first, last))
         /\ PageAnswer(r, first, last).ord = op[r].asks.ord
  <1> DEFINE a == op[r].asks
             s == a.sort
             n == a.ord
             p == PageAnswer(r, first, last)
             W == Window(a)
             S == Candidates(a)
             extra == Cardinality(S) > PageSize
  <1>0. /\ a \in PageRequests /\ s \in Sorts /\ n \in Nat \ {0} /\ Keys \subseteq Nat \ {0}
        /\ a.dir \in {"first", "next", "previous"}
    BY ConstantsAssumption DEF TypeOK, OpTypeOK, Ops, PageRequests, Sound
  <1>1. /\ p.shown = [k \in Keys |-> IF k \in W THEN table[k] ELSE 0]
        /\ p.sort = s /\ p.ord = n
        /\ p.next = IF (extra \/ a.dir = "previous") /\ last # 0
                    THEN [key |-> last, sort |-> s] ELSE NoCursor
        /\ p.prev = IF (a.dir = "next" \/ (a.dir = "previous" /\ extra)) /\ first # 0
                    THEN [key |-> first, sort |-> s] ELSE NoCursor
    BY DEF PageAnswer
  <1>2. W = IF a.dir = "previous" THEN Trailing(S, s) ELSE Leading(S, s)
    BY DEF Window, Trailing, Leading, AheadIn, BehindIn
  <1>3. W \subseteq Keys
    BY DEF Window, Candidates
  <1>4. {k \in Keys : p.shown[k] # 0} = W
    <2>1. \A k \in Keys : p.shown[k] # 0 <=> k \in W
      BY <1>1 DEF Unwritten
    <2>2. QED
      BY <1>3, <2>1
  <1>5. /\ first # 0 => first \in W /\ \A k \in W : ~Before(s, k, first)
        /\ last # 0 => last \in W /\ \A k \in W : ~Before(s, last, k)
    BY DEF Ends
  <1>6. /\ (n - 1) * PageSize \in Nat /\ n * PageSize \in Nat /\ PageSize \in Nat
        /\ (n - 1) * PageSize + PageSize = n * PageSize
        /\ n * PageSize > PageSize => n > 1
    BY <1>0, PagesOfRows, ConstantsAssumption
  <1>7. NoCursor.key = 0
    BY DEF NoCursor
  <1> HIDE DEF W, S, p
  <1> SUFFICES /\ W = RanksIn(s, (n - 1) * PageSize, n * PageSize)
               /\ (extra \/ a.dir = "previous") /\ last # 0 => Rank(s, last) = n * PageSize
               /\ (a.dir = "next" \/ (a.dir = "previous" /\ extra)) /\ first # 0 =>
                    n > 1 /\ Rank(s, first) = (n - 1) * PageSize + 1
    <2>1. /\ p.next.key # 0 => p.next = [key |-> last, sort |-> s]
                                 /\ (extra \/ a.dir = "previous") /\ last # 0
          /\ p.prev.key # 0 => /\ p.prev = [key |-> first, sort |-> s] /\ first # 0
                               /\ a.dir = "next" \/ (a.dir = "previous" /\ extra)
      BY <1>1, <1>7
    <2>2. p.ord = n /\ p.sort = s
      BY <1>1
    <2>3. QED
      BY <1>0, <1>4, <2>1, <2>2 DEF Numbered, p
  <1>8. CASE a.dir \in {"first", "next"}
    <2> DEFINE b == (n - 1) * PageSize
    <2>1. b = 0 \/ \E c \in Keys : Rank(s, c) = b
      <3>1. CASE a.dir = "first"
        <4>1. n = 1
          BY <3>1 DEF Sound
        <4>2. QED
          BY <4>1, <1>6
      <3>2. CASE a.dir = "next"
        BY <3>2 DEF Sound
      <3>3. QED
        BY <1>8, <3>1, <3>2
    <2>2. S = RowsAbove(s, b)
      <3>1. CASE a.dir = "first"
        <4>1. b = 0
          <5>1. n = 1
            BY <3>1 DEF Sound
          <5>2. QED
            BY <5>1, <1>6
        <4>2. S = Keys
          BY <3>1 DEF S, Candidates, Unwritten
        <4>3. \A k \in Keys : Rank(s, k) \in Nat /\ Rank(s, k) >= 1
          BY <1>0, RankApart
        <4>4. QED
          BY <4>1, <4>2, <4>3 DEF RowsAbove
      <3>2. CASE a.dir = "next"
        <4>1. /\ a.cursor.key \in Keys /\ a.cursor.sort = s
              /\ Rank(s, a.cursor.key) = b
          BY <3>2 DEF Sound
        <4>2. S = {k \in Keys : Before(s, a.cursor.key, k)}
          BY <3>2 DEF S, Candidates, Unwritten
        <4>3. \A k \in Keys : Before(s, a.cursor.key, k) <=> Rank(s, k) > b
          <5> SUFFICES ASSUME NEW k \in Keys
                       PROVE  Before(s, a.cursor.key, k) <=> Rank(s, k) > b
            OBVIOUS
          <5>1. Rank(s, k) \in Nat
            BY <1>0, RankApart
          <5>2. Before(s, a.cursor.key, k) <=> Rank(s, a.cursor.key) < Rank(s, k)
            BY <1>0, <4>1, RankOrder
          <5>3. QED
            BY <1>6, <4>1, <5>1, <5>2
        <4>4. QED
          BY <4>2, <4>3 DEF RowsAbove
      <3>3. QED
        BY <1>8, <3>1, <3>2
    <2>3. W = Leading(S, s) /\ b \in Nat
      BY <1>2, <1>6, <1>8
    <2> HIDE DEF b
    <2>4. /\ W = RanksIn(s, b, b + PageSize)
          /\ \A x \in W : (\A k \in W : ~Before(s, k, x)) => Rank(s, x) = b + 1
          /\ \A x \in W : (\A k \in W : ~Before(s, x, k)) /\ extra
                            => Rank(s, x) = b + PageSize
      BY <1>0, <2>1, <2>2, <2>3, LeadingRanks
    <2>5. b + PageSize = n * PageSize /\ b = (n - 1) * PageSize
      BY <1>6 DEF b
    <2>6. a.dir = "next" => n > 1
      BY DEF Sound
    <2>7. QED
      BY <1>5, <1>8, <2>4, <2>5, <2>6
  <1>9. CASE a.dir = "previous"
    <2> DEFINE b == n * PageSize
    <2>1. /\ a.cursor.key \in Keys /\ a.cursor.sort = s
          /\ Rank(s, a.cursor.key) = b + 1 /\ b \in Nat
      BY <1>6, <1>9 DEF Sound
    <2>2. S = RowsBelow(s, b)
      <3>1. S = {k \in Keys : Before(s, k, a.cursor.key)}
        BY <1>9 DEF S, Candidates, Unwritten
      <3>2. \A k \in Keys : Before(s, k, a.cursor.key) <=> Rank(s, k) <= b
        <4> SUFFICES ASSUME NEW k \in Keys
                     PROVE  Before(s, k, a.cursor.key) <=> Rank(s, k) <= b
          OBVIOUS
        <4>1. Rank(s, k) \in Nat
          BY <1>0, RankApart
        <4>2. Before(s, k, a.cursor.key) <=> Rank(s, k) < Rank(s, a.cursor.key)
          BY <1>0, <2>1, RankOrder
        <4> HIDE DEF b
        <4>3. QED
          BY <2>1, <4>1, <4>2
      <3>3. QED
        BY <3>1, <3>2 DEF RowsBelow
    <2>3. W = Trailing(S, s)
      BY <1>2, <1>9
    <2> HIDE DEF b
    <2>4. PICK c \in Keys : Rank(s, c) = b + 1
      BY <2>1
    <2>5. /\ W = RanksIn(s, b - PageSize, b)
          /\ \A x \in W : (\A k \in W : ~Before(s, x, k)) => Rank(s, x) = b
          /\ \A x \in W : (\A k \in W : ~Before(s, k, x)) /\ extra
                            => Rank(s, x) = b - PageSize + 1 /\ b > PageSize
      BY <1>0, <2>1, <2>2, <2>3, <2>4, TrailingRanks
    <2>6. b - PageSize = (n - 1) * PageSize /\ b = n * PageSize
      BY <1>6 DEF b
    <2>7. QED
      BY <1>5, <1>6, <1>9, <2>5, <2>6
  <1>10. QED
    BY <1>0, <1>8, <1>9

(***************************************************************************)
(* As long as nobody has written to the table: the page on display, the    *)
(* pages that were read, and what was and would be asked for are sound,    *)
(* and the page that is awaited is the one the tab will give its number.   *)
(***************************************************************************)
PageNumbered ==
  IF page.req = 0 THEN page.next.key = 0 /\ page.prev.key = 0
                  ELSE Numbered(page) /\ pageNumber = page.ord

\* What was asked for last leads to the page that will have its number.
PendingSound ==
  pendingRequest.dir # "none" =>
    Sound(pendingRequest) /\ pendingPage = pendingRequest.ord

\* A page request is sound until it is answered, and its answer is that page.
RequestSound(o) ==
  o.kind = "page" =>
    /\ o.stage \in {"intent", "running"} => Sound(o.asks)
    /\ o.stage = "reply" /\ o.outcome = "ok" => Numbered(o.answer)

\* The request o, which is awaited, is the one that is pending.
Pends(o, asks) ==
  /\ o.kind = "page" /\ asks.dir # "none"
  /\ o.stage \in {"intent", "running"} => o.asks = asks
  /\ o.stage = "reply" /\ o.outcome = "ok" => o.answer.ord = asks.ord

\* The page that is awaited is the one that was asked for last.
AwaitsPending == active.kind = "page" => Pends(op[active.req], pendingRequest)

\* Every page request is sound.
RequestsSound == \A r \in Requests : RequestSound(op[r])

\* All of it, in a table nobody has written to.
Numbers ==
  Unwritten /\ PageNumbered /\ PendingSound /\ RequestsSound /\ AwaitsPending

\* An apply that has succeeded has been written.
AppliedWrites ==
  /\ xid >= 1
  /\ \A r \in Requests :
       op[r].kind = "apply" /\ op[r].stage = "reply" /\ op[r].outcome = "ok" =>
         xid # 1

\* A page is asked for.
LEMMA NumbersStart ==
  ASSUME TypeOK, Numbers, NEW asks \in PageRequests, NEW target,
         NEW ops \in [Requests -> Ops], Closes(ops),
         StartPage(asks, target, ops), Sound(asks), target = asks.ord,
         UNCHANGED <<page, pageNumber, table>>
  PROVE  Numbers'
  <1>1. /\ op' = [ops EXCEPT ![nextRequest] = Intent("page", asks, NoBatch)]
        /\ nextRequest \in Requests
        /\ active' = [kind |-> "page", req |-> nextRequest]
        /\ pendingRequest' = asks /\ pendingPage' = target
    BY DEF StartPage, Begin
  <1>2. DoneOp.kind = "none"
    BY BlankFields
  <1>3. LET o == Intent("page", asks, NoBatch)
        IN o.kind = "page" /\ o.stage = "intent" /\ o.asks = asks
    BY DEF Intent, NoOp
  <1>4. op'[nextRequest] = Intent("page", asks, NoBatch)
    BY <1>1
  <1>5. RequestsSound'
    <2> SUFFICES ASSUME NEW r \in Requests PROVE RequestSound(op'[r])
      BY DEF RequestsSound
    <2>1. CASE r = nextRequest
      BY <1>3, <1>4, <2>1 DEF RequestSound
    <2>2. CASE r # nextRequest
      <3>1. op'[r] = op[r] \/ op'[r] = DoneOp
        BY <1>1, <2>2 DEF Closes
      <3>2. QED
        BY <1>2, <3>1 DEF Numbers, RequestsSound, RequestSound
    <2>3. QED
      BY <2>1, <2>2
  <1>6. AwaitsPending'
    <2>1. asks.dir # "none"
      BY DEF Sound
    <2>2. active'.req = nextRequest
      BY <1>1
    <2>3. QED
      BY <1>1, <1>3, <1>4, <2>1, <2>2 DEF AwaitsPending, Pends
  <1>7. Unwritten' /\ PageNumbered' /\ PendingSound'
    BY <1>1 DEF Numbers, Unwritten, PageNumbered, PendingSound
  <1>8. QED
    BY <1>5, <1>6, <1>7 DEF Numbers

\* Anything else is asked for.
LEMMA NumbersOther ==
  ASSUME TypeOK, Numbers, NEW kind, kind # "page", NEW asks, NEW batch,
         Begin(kind, asks, batch, op),
         UNCHANGED <<page, pageNumber, pendingRequest, pendingPage, table>>
  PROVE  Numbers'
  <1>1. /\ op' = [op EXCEPT ![nextRequest] = Intent(kind, asks, batch)]
        /\ nextRequest \in Requests
        /\ active'.kind # "page"
    BY DEF Begin
  <1>2. Intent(kind, asks, batch).kind # "page"
    BY DEF Intent, NoOp
  <1>3. RequestsSound'
    <2> SUFFICES ASSUME NEW r \in Requests PROVE RequestSound(op'[r])
      BY DEF RequestsSound
    <2>1. op'[r] = op[r] \/ op'[r] = Intent(kind, asks, batch)
      BY <1>1 DEF TypeOK, OpTypeOK
    <2>2. QED
      BY <1>2, <2>1 DEF Numbers, RequestsSound, RequestSound
  <1>4. Unwritten' /\ PageNumbered' /\ PendingSound' /\ AwaitsPending'
    BY <1>1 DEF Numbers, Unwritten, PageNumbered, PendingSound, AwaitsPending
  <1>5. QED
    BY <1>3, <1>4 DEF Numbers

\* A reply is taken, or dropped.
LEMMA NumbersClose ==
  ASSUME TypeOK, Numbers, NEW r \in Requests, op' = Closed(r),
         op[r].stage = "reply",
         active' = Idle \/ (active' = active /\ ~Answers(r)),
         UNCHANGED <<pendingRequest, pendingPage, table>>, PageNumbered'
  PROVE  Numbers'
  <1>1. \A q \in Requests : op'[q] = op[q] \/ op'[q] = DoneOp
    BY ClosedCloses DEF Closes
  <1>2. RequestsSound'
    BY <1>1, BlankFields DEF Numbers, RequestsSound, RequestSound
  <1>3. AwaitsPending'
    <2>1. CASE active' = Idle
      BY <2>1 DEF AwaitsPending, Idle
    <2>2. CASE active' = active /\ ~Answers(r) /\ active.kind = "page"
      <3>1. active.req \in Requests /\ active = [kind |-> "page", req |-> active.req]
        BY <2>2 DEF TypeOK, StatusTypeOK, Idle
      <3>2. active.req # r
        BY <2>2, <3>1 DEF Answers, Numbers, AwaitsPending, Pends
      <3>3. op'[active.req] = op[active.req]
        BY <3>1, <3>2 DEF Closed
      <3>4. QED
        BY <2>2, <3>3 DEF Numbers, AwaitsPending
    <2>3. QED
      BY <2>1, <2>2 DEF AwaitsPending
  <1>4. Unwritten' /\ PendingSound'
    BY DEF Numbers, Unwritten, PendingSound
  <1>5. QED
    BY <1>2, <1>3, <1>4 DEF Numbers

\* A request goes on.
LEMMA NumbersRuns ==
  ASSUME TypeOK, Numbers, NEW r \in Requests,
         \A q \in Requests \ {r} : op'[q] = op[q],
         op'[r].kind = op[r].kind, op'[r].asks = op[r].asks,
         op'[r].outcome = op[r].outcome, op'[r].answer = op[r].answer,
         op'[r].stage = op[r].stage
           \/ (op[r].stage \in {"intent", "running"} /\ op'[r].stage \in {"running", "commit"}),
         UNCHANGED <<tabVars, table>>
  PROVE  Numbers'
  <1>0. UNCHANGED <<page, pageNumber, pendingRequest, pendingPage, active>>
    BY DEF tabVars, pageVars, statusVars
  <1>1. RequestsSound'
    <2> SUFFICES ASSUME NEW q \in Requests PROVE RequestSound(op'[q])
      BY DEF RequestsSound
    <2>1. RequestSound(op[q])
      BY DEF Numbers, RequestsSound
    <2>2. QED
      BY <2>1 DEF RequestSound
  <1>2. AwaitsPending'
    <2> SUFFICES ASSUME active.kind = "page"
                 PROVE  Pends(op'[active.req], pendingRequest)
      BY <1>0 DEF AwaitsPending
    <2>1. active.req \in Requests /\ Pends(op[active.req], pendingRequest)
      BY DEF Numbers, AwaitsPending, TypeOK, StatusTypeOK, Idle
    <2>2. QED
      BY <2>1 DEF Pends
  <1>3. Unwritten' /\ PageNumbered' /\ PendingSound'
    BY <1>0 DEF Numbers, Unwritten, PageNumbered, PendingSound
  <1>4. QED
    BY <1>1, <1>2, <1>3 DEF Numbers

\* A request is answered.
LEMMA NumbersReply ==
  ASSUME TypeOK, Numbers, NEW r \in Requests, NEW outcome, NEW answer, NEW flag,
         Reply(r, outcome, answer, flag), UNCHANGED table,
         op[r].kind = "page" /\ outcome = "ok" =>
           /\ op[r].stage = "running"
           /\ Numbered(answer) /\ answer.ord = op[r].asks.ord
  PROVE  Numbers'
  <1>0. UNCHANGED <<page, pageNumber, pendingRequest, pendingPage, active>>
    BY DEF Reply, tabVars, pageVars, statusVars
  <1>1. /\ \A q \in Requests \ {r} : op'[q] = op[q]
        /\ op'[r].stage = "reply" /\ op'[r].kind = op[r].kind
        /\ op'[r].outcome = outcome /\ op'[r].answer = answer
    BY DEF Reply, TypeOK, OpTypeOK, Ops
  <1>2. RequestsSound'
    <2> SUFFICES ASSUME NEW q \in Requests PROVE RequestSound(op'[q])
      BY DEF RequestsSound
    <2>1. RequestSound(op[q])
      BY DEF Numbers, RequestsSound
    <2>2. QED
      BY <1>1, <2>1 DEF RequestSound
  <1>3. AwaitsPending'
    <2> SUFFICES ASSUME active.kind = "page"
                 PROVE  Pends(op'[active.req], pendingRequest)
      BY <1>0 DEF AwaitsPending
    <2>1. active.req \in Requests /\ Pends(op[active.req], pendingRequest)
      BY DEF Numbers, AwaitsPending, TypeOK, StatusTypeOK, Idle
    <2>2. QED
      BY <1>1, <2>1 DEF Pends
  <1>4. Unwritten' /\ PageNumbered' /\ PendingSound'
    BY <1>0 DEF Numbers, Unwritten, PageNumbered, PendingSound
  <1>5. QED
    BY <1>2, <1>3, <1>4 DEF Numbers

\* Every step of an execution that writes nothing.
LEMMA NumbersExecute ==
  ASSUME ApplyInv, Numbers, NEW r \in Requests,
         Dispatch(r) \/ DeliverCancel(r) \/ Execute(r), UNCHANGED xid
  PROVE  Numbers'
  <1> USE DEF worldVars, dbVars
  <1>0. TypeOK /\ op[r] \in Ops /\ xid \in Nat
    BY DEF ApplyInv, TypeOK, OpTypeOK, WorldTypeOK, Xids
  <1>1. CASE Dispatch(r)
    <2>1. op'[r] = [op[r] EXCEPT !.stage = "running"]
          /\ \A q \in Requests \ {r} : op'[q] = op[q]
      BY <1>0, <1>1 DEF Dispatch, TypeOK, OpTypeOK
    <2>2. QED
      BY <1>0, <1>1, <2>1, NumbersRuns DEF Dispatch, Ops
  <1>2. CASE DeliverCancel(r)
    <2>1. op'[r] = op[r] \/ op'[r] = [op[r] EXCEPT !.cancelled = TRUE]
      BY <1>0, <1>2 DEF DeliverCancel, TypeOK, OpTypeOK
    <2>2. \A q \in Requests \ {r} : op'[q] = op[q]
      BY <1>0, <1>2 DEF DeliverCancel, TypeOK, OpTypeOK
    <2>3. QED
      BY <1>0, <1>2, <2>1, <2>2, NumbersRuns DEF DeliverCancel, Ops
  <1>3. CASE ExecInserts(r)
    <2>1. op'[r] = [op[r] EXCEPT !.stage = "commit"]
          /\ \A q \in Requests \ {r} : op'[q] = op[q]
      BY <1>0, <1>3 DEF ExecInserts, TypeOK, OpTypeOK
    <2>2. QED
      BY <1>0, <1>3, <2>1, NumbersRuns DEF ExecInserts, Works, Ops
  <1>4. CASE ExecMutation(r)
    <2>1. CASE \E k \in Todo(r) : op' = [op EXCEPT ![r].done = @ \cup {k}]
                                    /\ UNCHANGED <<tabVars, cancels>>
      <3>1. PICK k \in Todo(r) : op' = [op EXCEPT ![r].done = @ \cup {k}]
                                   /\ UNCHANGED <<tabVars, cancels>>
        BY <2>1
      <3>2. op'[r] = [op[r] EXCEPT !.done = @ \cup {k}]
            /\ \A q \in Requests \ {r} : op'[q] = op[q]
        BY <1>0, <3>1 DEF TypeOK, OpTypeOK
      <3>3. QED
        BY <1>0, <1>4, <3>1, <3>2, NumbersRuns DEF ExecMutation, Ops
    <2>2. CASE Reply(r, "failed", EmptyPage, FALSE)
      BY <1>0, <1>4, <2>2, NumbersReply DEF ExecMutation
    <2>3. QED
      BY <1>4, <2>1, <2>2 DEF ExecMutation
  <1>5. CASE ExecFail(r)
    <2>1. PICK outcome \in {"failed", "cancelled"} : Reply(r, outcome, EmptyPage, FALSE)
      BY <1>5 DEF ExecFail
    <2>2. QED
      BY <1>0, <1>5, <2>1, NumbersReply DEF ExecFail
  <1>6. CASE ExecDescribe(r)
    BY <1>0, <1>6, NumbersReply DEF ExecDescribe, Works
  <1>7. CASE ExecPageRefused(r) \/ CommitRefused(r)
    BY <1>0, <1>7, NumbersReply DEF ExecPageRefused, CommitRefused
  <1>8. CASE ExecPage(r)
    <2>1. PICK first \in Keys \cup {0}, last \in Keys \cup {0} :
            /\ Ends(Window(op[r].asks), op[r].asks.sort, first, last)
            /\ Reply(r, "ok", PageAnswer(r, first, last), FALSE)
      BY <1>8 DEF ExecPage
    <2>2. /\ op[r].kind = "page" /\ op[r].stage = "running" /\ UNCHANGED table
          /\ op[r].asks.dir # "first" => op[r].asks.cursor.sort = op[r].asks.sort
      BY <1>8 DEF ExecPage, Works
    <2>3. Unwritten /\ Sound(op[r].asks)
      BY <2>2 DEF Numbers, RequestsSound, RequestSound
    <2>4. /\ Numbered(PageAnswer(r, first, last))
          /\ PageAnswer(r, first, last).ord = op[r].asks.ord
      BY <1>0, <2>1, <2>2, <2>3, AnswerNumbered
    <2>5. QED
      BY <1>0, <2>1, <2>2, <2>4, NumbersReply
  <1>9. CASE CommitUncertain(r)
    <2>1. ~LandBatch(op[r].batch)
      <3>1. xid + 1 # xid
        BY <1>0
      <3>2. QED
        BY <3>1 DEF LandBatch
    <2>2. UNCHANGED table /\ Reply(r, "uncertain", EmptyPage, FALSE)
      BY <1>9, <2>1 DEF CommitUncertain
    <2>3. QED
      BY <1>0, <2>2, NumbersReply
  <1>10. CASE Commit(r)
    BY <1>0, <1>10 DEF Commit, LandBatch
  <1>11. QED
    BY <1>1, <1>2, <1>3, <1>4, <1>5, <1>6, <1>7, <1>8, <1>9, <1>10 DEF Execute

\* The keys and clicks that ask for a page ask for the page they name.
LEMMA NumbersInput ==
  ASSUME ApplyInv, Numbers, Input
  PROVE  Numbers'
  <1> USE DEF worldVars, dbVars
  <1>0. /\ TypeOK /\ op \in [Requests -> Ops] /\ Closes(op)
        /\ pageNumber \in Int /\ page \in Pages /\ pendingPage \in Int
    BY DEF ApplyInv, TypeOK, OpTypeOK, PageTypeOK, Closes
  <1>1. /\ FirstPage(sort) \in PageRequests /\ FirstPage(NextSort(sort)) \in PageRequests
        /\ pendingRequest \in PageRequests
        /\ [dir |-> "next", cursor |-> page.next, sort |-> sort,
            ord |-> page.ord + 1] \in PageRequests
        /\ [dir |-> "previous", cursor |-> page.prev, sort |-> sort,
            ord |-> page.ord - 1] \in PageRequests
    <2>1. NextSort(sort) \in Sorts /\ sort \in Sorts
      BY <1>0 DEF NextSort, TypeOK, PageTypeOK, Sorts
    <2>2. QED
      BY <1>0, <2>1, BlankTypes DEF TypeOK, PageTypeOK, Pages, PageRequests
  <1>2. \A s : Sound(FirstPage(s)) /\ FirstPage(s).ord = 1
    BY DEF Sound, FirstPage
  <1>3. CASE Refresh \/ CycleSort \/ RefreshRevert
    BY <1>0, <1>1, <1>2, <1>3, NumbersStart
    DEF Refresh, CycleSort, RefreshRevert, UnchangedPage
  <1>4. CASE NextPage
    <2> DEFINE asks == [dir |-> "next", cursor |-> page.next, sort |-> sort,
                        ord |-> page.ord + 1]
    <2>1. page.next.key # 0 /\ StartPage(asks, pageNumber + 1, op)
            /\ UNCHANGED <<page, pageNumber, table>>
      BY <1>4 DEF NextPage, UnchangedPage
    <2>2. /\ Numbered(page) /\ pageNumber = page.ord
          /\ page.next.key \in Keys
      BY <1>0, <2>1 DEF Numbers, PageNumbered, Pages, Cursors
    <2>3. asks.ord - 1 = page.ord /\ asks.ord \in Nat \ {0} /\ asks.ord > 1
      BY <2>2 DEF Numbered
    <2>4. Sound(asks)
      BY <2>1, <2>2, <2>3 DEF Sound, Numbered
    <2>5. QED
      BY <1>0, <1>1, <2>1, <2>2, <2>4, NumbersStart
  <1>5. CASE PreviousPage
    <2> DEFINE asks == [dir |-> "previous", cursor |-> page.prev, sort |-> sort,
                        ord |-> page.ord - 1]
    <2>1. page.prev.key # 0 /\ StartPage(asks, AtLeastOne(pageNumber - 1), op)
            /\ UNCHANGED <<page, pageNumber, table>>
      BY <1>5 DEF PreviousPage, UnchangedPage
    <2>2. /\ Numbered(page) /\ pageNumber = page.ord
          /\ page.prev.key \in Keys
      BY <1>0, <2>1 DEF Numbers, PageNumbered, Pages, Cursors
    <2>3. page.ord > 1 /\ page.ord \in Nat
            /\ Rank(page.prev.sort, page.prev.key) = (page.ord - 1) * PageSize + 1
      BY <2>1, <2>2 DEF Numbered
    <2>4. Sound(asks) /\ AtLeastOne(pageNumber - 1) = asks.ord
      BY <2>2, <2>3 DEF Sound, AtLeastOne
    <2>5. QED
      BY <1>0, <1>1, <2>1, <2>4, NumbersStart
  <1>6. CASE Retry \/ DescribeAgain
    <2>1. CASE Describe
      BY <1>0, <1>6, <2>1, NumbersOther DEF Retry, DescribeAgain, Describe, UnchangedPage
    <2>2. CASE ~Describe
      <3>1. /\ pendingRequest.dir # "none"
            /\ StartPage(pendingRequest, AtLeastOne(pendingPage), op)
            /\ UNCHANGED <<page, pageNumber, table>>
        BY <1>6, <2>2 DEF Retry, DescribeAgain, UnchangedPage
      <3>2. Sound(pendingRequest) /\ AtLeastOne(pendingPage) = pendingRequest.ord
        BY <3>1 DEF Numbers, PendingSound, Sound, AtLeastOne
      <3>3. QED
        BY <1>0, <1>1, <3>1, <3>2, NumbersStart
    <2>3. QED
      BY <2>1, <2>2
  <1>7. CASE ConfirmApply \/ RefreshApply
    BY <1>0, <1>7, NumbersOther DEF ConfirmApply, RefreshApply, StartApply, UnchangedPage
  <1>8. CASE \/ StageInsert \/ OpenEditor \/ CommitEditor \/ CancelEditor
             \/ StageSpecial \/ ToggleDelete \/ RevertRow \/ RevertAll
             \/ AskRefresh \/ RequestApply \/ ApplyAgain \/ OpenSummary
             \/ CloseDialog \/ CtrlC
    <2>1. UNCHANGED <<pageVars, active, op, table>>
      BY <1>8 DEF StageInsert, OpenEditor, CommitEditor, CancelEditor,
        StageSpecial, ToggleDelete, RevertRow, RevertAll, UnchangedByStaging,
        AskRefresh, RequestApply, ApplyAgain, OpenSummary, CloseDialog, CtrlC,
        UnchangedByDialog, statusVars, tabVars
    <2>2. QED
      BY <2>1 DEF Numbers, Unwritten, PageNumbered, PendingSound, RequestsSound,
        AwaitsPending, pageVars
  <1>9. QED
    BY <1>3, <1>4, <1>5, <1>6, <1>7, <1>8 DEF Input

\* A reply is taken: the page it carries is the one that was awaited.
LEMMA NumbersDeliver ==
  ASSUME ApplyInv, PagesNamed, AppliedWrites, Numbers, xid = 1,
         NEW r \in Requests, Deliver(r)
  PROVE  Numbers'
  <1>0. TypeOK /\ op[r].stage = "reply" /\ UNCHANGED table
    BY DeliverEffect DEF ApplyInv, databaseVars
  <1>1. CASE DeliverDescribed(r)
    <2>1. Closed(r) \in [Requests -> Ops] /\ Closes(Closed(r))
      BY <1>0, ClosedCloses
    <2>2. FirstPage("default") \in PageRequests /\ Sound(FirstPage("default"))
            /\ FirstPage("default").ord = 1
      BY BlankTypes DEF Sorts, Sound, FirstPage
    <2>3. StartPage(FirstPage("default"), 1, Closed(r))
            /\ UNCHANGED <<page, pageNumber>>
      BY <1>1 DEF DeliverDescribed
    <2>4. QED
      BY <1>0, <2>1, <2>2, <2>3, NumbersStart
  <1>2. CASE DeliverPage(r)
    <2>1. /\ active = [kind |-> "page", req |-> r]
          /\ op[r].kind = "page" /\ op[r].outcome = "ok"
          /\ page' = op[r].answer /\ pageNumber' = AtLeastOne(pendingPage)
          /\ active' = Idle /\ op' = Closed(r)
          /\ UNCHANGED <<pendingRequest, pendingPage>>
      BY <1>2 DEF DeliverPage, Answers
    <2>2. active.kind = "page" /\ active.req = r
      BY <2>1
    <2>3. Pends(op[r], pendingRequest)
      BY <2>2 DEF Numbers, AwaitsPending
    <2>4. op[r].answer.ord = pendingRequest.ord /\ pendingRequest.dir # "none"
      BY <1>0, <2>1, <2>3 DEF Pends
    <2>5. Sound(pendingRequest) /\ pendingPage = pendingRequest.ord
      BY <2>4 DEF Numbers, PendingSound
    <2>6. pageNumber' = op[r].answer.ord
      BY <2>1, <2>4, <2>5 DEF Sound, AtLeastOne
    <2>7. Numbered(op[r].answer) /\ op[r].answer.req # 0
      BY <1>0, <2>1 DEF Numbers, RequestsSound, RequestSound, PagesNamed, Requests
    <2>8. PageNumbered'
      BY <2>1, <2>6, <2>7 DEF PageNumbered
    <2>9. QED
      BY <1>0, <2>1, <2>8, NumbersClose
  <1>3. CASE DeliverApplied(r)
    BY <1>0, <1>3 DEF DeliverApplied, AppliedWrites
  <1>4. CASE DeliverFailed(r) \/ DeliverCancelled(r) \/ DeliverStale(r)
    <2>1. /\ op' = Closed(r)
          /\ active' = Idle \/ (active' = active /\ ~Answers(r))
          /\ UNCHANGED <<page, pageNumber, pendingRequest, pendingPage>>
      BY <1>4 DEF DeliverFailed, DeliverCancelled, DeliverStale, pageVars,
                  tabVars, statusVars
    <2>2. PageNumbered'
      BY <2>1 DEF Numbers, PageNumbered
    <2>3. QED
      BY <1>0, <2>1, <2>2, NumbersClose
  <1>5. QED
    BY <1>1, <1>2, <1>3, <1>4 DEF Deliver

\* Transaction numbers grow, by one for each commit and each other writer.
LEMMA NumbersOfWrites ==
  ASSUME TypeOK, [Next]_vars
  PROVE  /\ xid' \in Nat /\ xid' >= xid
         /\ ExternalWrite => xid' = xid + 1
         /\ \A r \in Requests : Commit(r) => xid' = xid + 1
  <1>0. xid \in Nat
    BY DEF TypeOK, WorldTypeOK, Xids
  <1>1. \A r \in Requests : Commit(r) => xid' = xid + 1
    BY DEF Commit, LandBatch
  <1>2. CASE Input
    BY <1>0, <1>1, <1>2, InputEffect
    DEF requestVars, databaseVars, Input, ExternalWrite
  <1>3. ASSUME NEW r \in Requests, Execute(r) \/ Dispatch(r) \/ DeliverCancel(r)
        PROVE  xid' = xid \/ xid' = xid + 1
    BY <1>3 DEF Execute, ExecFail, ExecDescribe, ExecPage, ExecPageRefused,
                ExecMutation, ExecInserts, Commit, CommitRefused,
                CommitUncertain, LandBatch, Dispatch, DeliverCancel, worldVars,
                dbVars
  <1>4. ASSUME NEW r \in Requests, Deliver(r) PROVE xid' = xid
    BY <1>4, DeliverEffect DEF databaseVars
  <1>5. ExternalWrite => xid' = xid + 1
    BY DEF ExternalWrite
  <1>6. UNCHANGED vars => xid' = xid
    BY DEF vars, worldVars, dbVars
  <1>7. xid' = xid \/ xid' = xid + 1
    <2>1. Input => xid' = xid
      BY InputEffect DEF requestVars, databaseVars
    <2>2. QED
      BY <1>3, <1>4, <1>5, <1>6, <2>1 DEF Next
  <1>8. QED
    BY <1>0, <1>1, <1>5, <1>7

\* The apply that succeeds is the one that commits.
LEMMA AppliedWritesKept ==
  ASSUME TypeOK, AppliedWrites, [Next]_vars
  PROVE  AppliedWrites'
  <1>0. xid \in Nat /\ xid' \in Nat /\ xid' >= xid /\ xid >= 1
    BY NumbersOfWrites DEF AppliedWrites, TypeOK, WorldTypeOK, Xids
  <1>1. ASSUME NEW r \in Requests, op'[r].kind = "apply",
               op'[r].stage = "reply", op'[r].outcome = "ok"
        PROVE  xid' # 1
    <2>1. CASE /\ op'[r].stage = op[r].stage /\ op'[r].kind = op[r].kind
               /\ op'[r].outcome = op[r].outcome
      BY <1>0, <1>1, <2>1 DEF AppliedWrites
    <2>2. CASE Commit(r)
      BY <1>0, <2>2, NumbersOfWrites
    <2>3. CASE ExecDescribe(r) \/ ExecPage(r)
      <3>1. op[r].kind # "apply" /\ op'[r].kind = op[r].kind
        BY <2>3, ReplyEffect DEF ExecDescribe, ExecPage, Works
      <3>2. QED
        BY <1>1, <3>1
    <2>4. QED
      BY <1>1, <2>1, <2>2, <2>3, AnswerEffect
  <1>2. QED
    BY <1>0, <1>1 DEF AppliedWrites

\* What makes the label of the page right.
NumbersInv == PagesInv /\ AppliedWrites /\ (xid = 1 => Numbers)

\* The invariant holds initially and is kept.
LEMMA NumbersInvInductive ==
  /\ Init => NumbersInv
  /\ NumbersInv /\ [Next]_vars => NumbersInv'
  <1>1. ASSUME Init PROVE AppliedWrites /\ Numbers
    <2>1. \A r \in Requests : op[r].stage \in {"unused", "intent"}
                                /\ op[r].kind \in {"none", "describe"}
      BY <1>1 DEF Init, Intent, NoOp
    <2>2. /\ page = EmptyPage /\ pendingRequest = NoPageRequest
          /\ active.kind = "describe" /\ table = [k \in Keys |-> 1] /\ xid = 1
      BY <1>1 DEF Init
    <2>3. PageNumbered /\ PendingSound /\ AwaitsPending
      BY <2>2 DEF PageNumbered, PendingSound, AwaitsPending, EmptyPage, NoCursor,
                  NoPageRequest
    <2>4. AppliedWrites /\ RequestsSound /\ Unwritten
      BY <2>1, <2>2 DEF AppliedWrites, RequestsSound, RequestSound, Unwritten
    <2>5. QED
      BY <2>3, <2>4 DEF Numbers
  <1>2. ASSUME NumbersInv, [Next]_vars, xid' = 1 PROVE Numbers'
    <2>0. /\ ApplyInv /\ TypeOK /\ PagesNamed /\ AppliedWrites
      BY <1>2 DEF NumbersInv, PagesInv, ApplyInv
    <2>1. xid = 1
      BY <1>2, <2>0, NumbersOfWrites DEF AppliedWrites, TypeOK, WorldTypeOK, Xids
    <2>2. Numbers
      BY <1>2, <2>1 DEF NumbersInv
    <2>3. CASE Input
      BY <2>0, <2>2, <2>3, NumbersInput
    <2>4. ASSUME NEW r \in Requests, Dispatch(r) \/ DeliverCancel(r) \/ Execute(r)
          PROVE  Numbers'
      BY <1>2, <2>0, <2>1, <2>2, <2>4, NumbersExecute
    <2>5. ASSUME NEW r \in Requests, Deliver(r) PROVE Numbers'
      BY <2>0, <2>1, <2>2, <2>5, NumbersDeliver
    <2>6. ~ExternalWrite
      BY <1>2, <2>0, <2>1, NumbersOfWrites
    <2>7. CASE UNCHANGED vars
      BY <2>2, <2>7 DEF vars, tabVars, pageVars, statusVars, worldVars, dbVars,
        Numbers, Unwritten, PageNumbered, PendingSound, RequestsSound, AwaitsPending
    <2>8. QED
      BY <1>2, <2>3, <2>4, <2>5, <2>6, <2>7 DEF Next
  <1>3. ASSUME NumbersInv, [Next]_vars PROVE PagesInv' /\ AppliedWrites'
    BY <1>3, PagesInvInductive, AppliedWritesKept DEF NumbersInv, PagesInv, ApplyInv
  <1>4. QED
    BY <1>1, <1>2, <1>3, PagesInvInductive DEF NumbersInv

\* As long as nobody writes to the table, the page labelled n is the n-th page of
\* the rows in the order of its sort, whichever way it was reached (cursors,
\* pageNumber).
THEOREM PagesAreNumbered == Spec => []PageShowsItsNumber
  <1>1. NumbersInv => PageShowsItsNumber
    <2> SUFFICES ASSUME NumbersInv, page.req # 0, xid = 1
                 PROVE  Shown = {k \in Keys :
                           /\ Rank(page.sort, k) > (pageNumber - 1) * PageSize
                           /\ Rank(page.sort, k) <= pageNumber * PageSize}
      BY DEF PageShowsItsNumber
    <2>1. Numbered(page) /\ pageNumber = page.ord
      BY DEF NumbersInv, Numbers, PageNumbered
    <2>2. QED
      BY <2>1 DEF Numbered, RanksIn, Shown
  <1>2. QED
    BY <1>1, NumbersInvInductive, PTL DEF Spec
=============================================================================
