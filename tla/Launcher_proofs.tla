-------------------------- MODULE Launcher_proofs --------------------------
(***************************************************************************)
(* Proofs about Launcher: one command is under way and is the one awaited, *)
(* an idle list is what is saved, and a password that replaces the stored  *)
(* one is the one the user chose.                                          *)
(***************************************************************************)
EXTENDS Launcher, SequenceTheorems, TLAPS

(***************************************************************************)
(* The invariant.                                                          *)
(***************************************************************************)
UnderWay == {"intent", "running", "reply"}

\* Requests are numbered in order; one under way is the one awaited, and the
\* workspace is shown only when there is none.
Awaits ==
  /\ \A r \in Requests : r >= nextRequest => op[r].stage = "unused"
  /\ \A r \in Requests :
       op[r].stage \in UnderWay => active = [action |-> op[r].action, request |-> r]
  /\ Waiting => op[active.request].stage \in UnderWay
  /\ surface = "workspace" => ~Waiting

\* The list is the saved one, unless loading it failed, or it is being loaded, or
\* a reply that leads to a load is on its way.
Fresh == unloaded \/ profiles = saved
Changed(r) ==
  op[r].stage = "reply" /\ op[r].outcome = "ok"
    /\ op[r].action \in {"save", "delete", "connect"}
Listed ==
  /\ ListIsCurrent
  /\ \A r \in Requests :
       op[r].stage = "reply" /\ op[r].outcome = "ok" /\ op[r].action = "load"
         => op[r].list = saved
  /\ \A r \in Requests :
       op[r].stage = "reply" /\ op[r].outcome = "password" => op[r].action # "load"
  /\ Waiting /\ active.action # "load" /\ ~Changed(active.request) => Fresh

\* The form that is shown has in its field what the user chose, and a draft that
\* was loaded from the profiles replaces no password.
FormAsChosen ==
  /\ mode = "edit" /\ chosen # "gone" => draft.field = chosen
  /\ \A r \in Requests :
       op[r].stage = "reply" /\ op[r].outcome = "ok"
         /\ op[r].action = "edit" /\ op[r].then # "import"
       => ~op[r].draft.replace

Inv == TypeOK /\ Awaits /\ Listed /\ FormAsChosen

(***************************************************************************)
(* Commands and their types.                                               *)
(***************************************************************************)
LEMMA Numbers ==
  /\ MaxRequests \in Nat /\ MaxRequests >= 1
  /\ 1 \in Requests /\ 2 \in 1..(MaxRequests + 1)
  /\ \A n \in Requests : n + 1 \in 1..(MaxRequests + 1) /\ n \in Nat
  /\ 0 \notin Requests
  BY ConstantsAssumption DEF Requests

LEMMA DraftTypes ==
  /\ NewDraft \in Drafts
  /\ \A i \in Ids : DraftOf(i) \in Drafts /\ ~DraftOf(i).replace
  /\ NewDraft.id = NoProfile /\ ~NewDraft.replace /\ NewDraft.field = "empty"
  BY DEF NewDraft, DraftOf, Drafts, Fields

LEMMA NoOpType ==
  /\ NoOp \in Ops /\ NoOp.stage = "unused"
  /\ [NoOp EXCEPT !.stage = "done"] \in Ops
  /\ [NoOp EXCEPT !.stage = "done"].stage = "done"
  BY EmptySeq, DraftTypes DEF NoOp, Ops, Stages, Actions, Outcomes

LEMMA LoadType ==
  Load \in Ops /\ Load.stage = "intent" /\ Load.action = "load"
  BY NoOpType DEF Load, NoOp, Ops, Stages

LEMMA CommandType ==
  ASSUME NEW action \in Actions, NEW id \in Ids \cup {NoProfile},
         NEW then \in {"none", "import", "edit", "test", "connect"}
  PROVE  /\ Command(action, id, then) \in Ops
         /\ Command(action, id, then).stage = "intent"
         /\ Command(action, id, then).action = action
  BY NoOpType DEF Command, NoOp, Ops, Stages

LEMMA SendType ==
  ASSUME NEW action \in Actions, NEW d \in Drafts
  PROVE  /\ Send(action, d) \in Ops /\ Send(action, d).stage = "intent"
         /\ Send(action, d).action = action /\ Send(action, d).draft = d
  BY NoOpType DEF Send, NoOp, Ops, Stages, Drafts

\* What is left of a list when a profile is removed.
LEMMA WithoutType ==
  ASSUME NEW i, saved \in Seq(Ids)
  PROVE  Without(i) \in Seq(Ids)
  <1>1. CASE i \in Elements(saved)
    <2>1. Place(i) \in 1..Len(saved)
      BY <1>1 DEF Elements, Place
    <2>2. Len(saved) \in Nat /\ \A k \in 1..Len(saved) : saved[k] \in Ids
      BY LenProperties
    <2>3. /\ Place(i) - 1 \in Int /\ Place(i) + 1 \in Int /\ Len(saved) \in Int
          /\ \A k \in 1..(Place(i) - 1) : saved[k] \in Ids
          /\ \A k \in (Place(i) + 1)..Len(saved) : saved[k] \in Ids
      BY <2>1, <2>2
    <2>4. SubSeq(saved, 1, Place(i) - 1) \in Seq(Ids)
      BY <2>3, SubSeqProperties
    <2>5. SubSeq(saved, Place(i) + 1, Len(saved)) \in Seq(Ids)
      BY <2>3, SubSeqProperties
    <2>6. QED
      BY <1>1, <2>4, <2>5, ConcatProperties DEF Without
  <1>2. CASE i \notin Elements(saved)
    BY <1>2 DEF Without
  <1>3. QED
    BY <1>1, <1>2

(***************************************************************************)
(* What the handlers share.                                                *)
(***************************************************************************)

\* Begin adds the command that is awaited from now on.
LEMMA BeginKeeps ==
  ASSUME TypeOK, Awaits, NEW command \in Ops, command.stage = "intent",
         NEW ops \in [Requests -> Ops],
         \A r \in Requests : ops[r].stage \notin UnderWay,
         \A r \in Requests : r >= nextRequest => ops[r].stage = "unused",
         Begin(command, ops), surface' # "workspace"
  PROVE  /\ op' \in [Requests -> Ops]
         /\ active' = [action |-> command.action, request |-> nextRequest]
         /\ active' \in [action : Actions, request : Requests]
         /\ nextRequest' \in 1..(MaxRequests + 1)
         /\ op'[nextRequest] = command
         /\ \A r \in Requests : r # nextRequest => op'[r] = ops[r]
         /\ nextRequest \in Requests
         /\ Waiting' /\ Awaits'
  <1>1. /\ op' \in [Requests -> Ops] /\ op'[nextRequest] = command
        /\ \A r \in Requests : r # nextRequest => op'[r] = ops[r]
        /\ nextRequest \in Requests /\ nextRequest' = nextRequest + 1
        /\ active' = [action |-> command.action, request |-> nextRequest]
    BY DEF Begin
  <1>2. active' \in [action : Actions, request : Requests]
    BY <1>1 DEF Ops
  <1>3. nextRequest' \in 1..(MaxRequests + 1)
    BY <1>1, Numbers
  <1>4. Waiting'
    BY <1>1, Numbers DEF Waiting, Idle
  <1>5. Awaits'
    <2>1. \A r \in Requests : r >= nextRequest' => op'[r].stage = "unused"
      BY <1>1, Numbers
    <2>2. \A r \in Requests :
            op'[r].stage \in UnderWay
              => active' = [action |-> op'[r].action, request |-> r]
      BY <1>1
    <2>3. op'[active'.request].stage \in UnderWay
      BY <1>1 DEF UnderWay
    <2>4. QED
      BY <2>1, <2>2, <2>3 DEF Awaits
  <1>6. QED
    BY <1>1, <1>2, <1>3, <1>4, <1>5

\* When nothing is awaited nothing is under way.
LEMMA NothingUnderWay ==
  ASSUME TypeOK, Awaits, ~Waiting
  PROVE  /\ op \in [Requests -> Ops]
         /\ \A r \in Requests : op[r].stage \notin UnderWay
         /\ \A r \in Requests : r >= nextRequest => op[r].stage = "unused"
  <1>1. \A r \in Requests : [action |-> op[r].action, request |-> r] # Idle
    BY Numbers DEF Idle
  <1>2. QED
    BY <1>1 DEF TypeOK, Awaits, Waiting

\* With the awaited reply nothing is under way any more.
LEMMA ClosedNothing ==
  ASSUME TypeOK, Awaits, NEW r \in Requests, Awaited(r)
  PROVE  /\ Waiting /\ surface = "launcher"
         /\ active.request = r /\ active.action = op[r].action
         /\ op[r] \in Ops
         /\ Closed(r) \in [Requests -> Ops] /\ Closed(r)[r].stage = "done"
         /\ \A q \in Requests : q # r => Closed(r)[q] = op[q]
         /\ \A q \in Requests : Closed(r)[q].stage \notin UnderWay
         /\ \A q \in Requests : q >= nextRequest => Closed(r)[q].stage = "unused"
  <1> DEFINE old == [NoOp EXCEPT !.stage = "done"]
  <1>1. old \in Ops /\ old.stage = "done"
    BY NoOpType
  <1>2. Closed(r) = [op EXCEPT ![r] = old] /\ op \in [Requests -> Ops]
    BY DEF Closed, TypeOK
  <1> HIDE DEF old
  <1>3. active.request = r /\ active.action = op[r].action
    BY DEF Awaited
  <1>4. Waiting
    BY <1>3, Numbers DEF Waiting, Idle
  <1>5. \A q \in Requests : q # r => op[q].stage \notin UnderWay
    BY <1>3 DEF Awaits
  <1>6. ~(r >= nextRequest)
    BY DEF Awaits, Awaited
  <1>7. Closed(r)[r].stage = "done" /\ \A q \in Requests : q # r => Closed(r)[q] = op[q]
    BY <1>1, <1>2
  <1>8. \A q \in Requests : Closed(r)[q].stage \notin UnderWay
    BY <1>5, <1>7 DEF UnderWay
  <1>9. \A q \in Requests : q >= nextRequest => Closed(r)[q].stage = "unused"
    BY <1>6, <1>7 DEF Awaits
  <1>10. QED
    BY <1>1, <1>2, <1>3, <1>4, <1>7, <1>8, <1>9 DEF Awaited, Shows

\* Finish awaits nothing.
LEMMA FinishKeeps ==
  ASSUME TypeOK, Awaits, NEW r \in Requests, Awaited(r), Finish(r)
  PROVE  /\ op' \in [Requests -> Ops] /\ ~Waiting' /\ active' = Idle
         /\ nextRequest' \in 1..(MaxRequests + 1)
         /\ \A q \in Requests : op'[q].stage \notin UnderWay
         /\ Awaits'
         /\ op[r] \in Ops /\ Shows /\ Waiting
         /\ active.request = r /\ active.action = op[r].action
  <1>1. /\ op' = Closed(r) /\ active' = Idle /\ nextRequest' = nextRequest
    BY DEF Finish
  <1>2. /\ op' \in [Requests -> Ops] /\ ~Waiting'
        /\ \A q \in Requests : op'[q].stage \notin UnderWay
        /\ \A q \in Requests : q >= nextRequest' => op'[q].stage = "unused"
    BY <1>1, ClosedNothing DEF Waiting
  <1>3. Awaits'
    BY <1>2 DEF Awaits
  <1>4. QED
    BY <1>1, <1>2, <1>3, ClosedNothing DEF TypeOK, Shows

\* A step that begins and ends no command, and that a form or list is shown or
\* not: the lists are as they were.
LEMMA QuietInv ==
  ASSUME Inv, UNCHANGED <<commandVars, profiles, saved, unloaded>>,
         surface' = surface \/ surface' = "down",
         mode' \in {"profiles", "edit"},
         selected' \in 1..(IF profiles = <<>> THEN 1 ELSE Len(profiles)),
         deleteConfirm' \in BOOLEAN, draft' \in Drafts,
         cancels' \subseteq Requests, named' \in Ids \cup {NoProfile},
         chosen' \in Fields \cup {"gone"},
         mode' = "edit" /\ chosen' # "gone" => draft'.field = chosen'
  PROVE  Inv'
  <1>1. UNCHANGED <<active, nextRequest, op, profiles, saved, unloaded>>
    BY DEF commandVars
  <1>2. TypeOK'
    BY <1>1 DEF Inv, TypeOK
  <1>3. Awaits'
    BY <1>1 DEF Inv, Awaits, Waiting
  <1>4. Listed'
    BY <1>1 DEF Inv, Listed, ListIsCurrent, Waiting, Changed, Fresh, Shows
  <1>5. FormAsChosen'
    BY <1>1 DEF Inv, FormAsChosen
  <1>6. QED
    BY <1>2, <1>3, <1>4, <1>5 DEF Inv

\* A user's request: nothing was awaited, the lists stay as they are.
LEMMA RequestInv ==
  ASSUME Inv, Shows, ~Waiting, NEW command \in Ops, command.stage = "intent",
         Begin(command, op),
         UNCHANGED <<mode, listVars, formVars, rootVars>>
  PROVE  Inv'
  <1>1. TypeOK /\ Awaits /\ Listed /\ FormAsChosen /\ Fresh
    BY DEF Inv, Listed, ListIsCurrent, Fresh
  <1>2. UNCHANGED <<mode, profiles, selected, deleteConfirm, named, unloaded,
                    draft, chosen, surface, cancels, saved>>
    BY DEF listVars, formVars, rootVars
  <1>3. surface' # "workspace"
    BY <1>2 DEF Shows
  <1>4. /\ op' \in [Requests -> Ops]
        /\ active' \in [action : Actions, request : Requests]
        /\ nextRequest' \in 1..(MaxRequests + 1)
        /\ op'[nextRequest] = command
        /\ \A r \in Requests : r # nextRequest => op'[r] = op[r]
        /\ Waiting' /\ Awaits'
    BY <1>1, <1>3, NothingUnderWay, BeginKeeps
  <1>5. TypeOK'
    BY <1>1, <1>2, <1>4 DEF TypeOK
  <1>6. Listed'
    BY <1>1, <1>2, <1>4 DEF Listed, ListIsCurrent, Fresh
  <1>7. FormAsChosen'
    BY <1>1, <1>2, <1>4 DEF FormAsChosen
  <1>8. QED
    BY <1>4, <1>5, <1>6, <1>7 DEF Inv

(***************************************************************************)
(* The list, the form and the root model.                                  *)
(***************************************************************************)
LEMMA InitInv == Init => Inv
  <1> SUFFICES ASSUME Init PROVE Inv
    OBVIOUS
  <1>1. /\ op \in [Requests -> Ops] /\ op[1] = Load
        /\ \A r \in Requests : r # 1 => op[r] = NoOp
    BY LoadType, NoOpType, Numbers DEF Init
  <1>2. TypeOK
    <2>1. active \in [action : Actions, request : Requests]
      BY Numbers DEF Init, Actions
    <2>2. profiles \in Seq(Ids) /\ saved \in Seq(Ids)
      BY ConstantsAssumption, EmptySeq DEF Init
    <2>3. selected \in 1..(IF profiles = <<>> THEN 1 ELSE Len(profiles))
      BY DEF Init
    <2>4. draft \in Drafts /\ chosen \in Fields
      BY DraftTypes DEF Init, Fields
    <2>5. QED
      BY <1>1, <2>1, <2>2, <2>3, <2>4, Numbers DEF Init, TypeOK
  <1>3. Awaits
    <2>1. \A r \in Requests : r >= 2 => r # 1
      BY DEF Requests
    <2>2. QED
      BY <1>1, <2>1, LoadType, NoOpType, Numbers
         DEF Init, Awaits, Waiting, Idle, UnderWay
  <1>4. Listed
    BY <1>1, LoadType, NoOpType
       DEF Init, Listed, ListIsCurrent, Waiting, Idle, Changed
  <1>5. FormAsChosen
    BY <1>1, LoadType, NoOpType DEF Init, FormAsChosen
  <1>6. QED
    BY <1>2, <1>3, <1>4, <1>5 DEF Inv

LEMMA ListInv ==
  Inv /\ (Move \/ New \/ LoadSelectedDraft \/ AskDelete \/ StartDelete
           \/ KeepProfile \/ Reload)
    => Inv'
  <1> SUFFICES ASSUME Inv PROVE (Move \/ New \/ LoadSelectedDraft \/ AskDelete
                                 \/ StartDelete \/ KeepProfile \/ Reload) => Inv'
    OBVIOUS
  <1> USE DEF listVars, formVars, rootVars
  <1>1. /\ profiles \in Seq(Ids) /\ draft \in Drafts /\ mode \in {"profiles", "edit"}
        /\ selected \in 1..(IF profiles = <<>> THEN 1 ELSE Len(profiles))
        /\ deleteConfirm \in BOOLEAN /\ cancels \subseteq Requests
        /\ named \in Ids \cup {NoProfile} /\ chosen \in Fields \cup {"gone"}
        /\ (mode = "edit" /\ chosen # "gone" => draft.field = chosen)
    BY DEF Inv, TypeOK, FormAsChosen
  <1>2. profiles # <<>> => CurrentProfile \in Ids
    BY <1>1, ElementOfSeq DEF CurrentProfile
  <1>3. Move => Inv'
    BY <1>1, QuietInv DEF Move
  <1>4. New => Inv'
    BY <1>1, QuietInv, DraftTypes DEF New, Open, Fields
  <1>5. AskDelete => Inv'
    BY <1>1, <1>2, QuietInv DEF AskDelete
  <1>6. KeepProfile => Inv'
    BY <1>1, QuietInv DEF KeepProfile
  <1>7. LoadSelectedDraft => Inv'
    <2> SUFFICES ASSUME LoadSelectedDraft PROVE Inv'
      OBVIOUS
    <2>1. PICK then \in {"edit", "test", "connect"} :
            Begin(Command("edit", CurrentProfile, then), op)
      BY DEF LoadSelectedDraft
    <2>2. /\ Command("edit", CurrentProfile, then) \in Ops
          /\ Command("edit", CurrentProfile, then).stage = "intent"
      BY <1>2, CommandType DEF LoadSelectedDraft, Actions
    <2>3. QED
      BY <2>1, <2>2, RequestInv
         DEF LoadSelectedDraft, ListKey, ListClick, ListReady
  <1>8. StartDelete => Inv'
    <2> SUFFICES ASSUME StartDelete PROVE Inv'
      OBVIOUS
    <2>1. /\ Command("delete", CurrentProfile, "none") \in Ops
          /\ Command("delete", CurrentProfile, "none").stage = "intent"
      BY <1>2, CommandType DEF StartDelete, Actions
    <2>2. QED
      BY <2>1, RequestInv DEF StartDelete, ListReady
  <1>9. Reload => Inv'
    BY LoadType, RequestInv DEF Reload, ListKey, ListReady
  <1>10. QED
    BY <1>3, <1>4, <1>5, <1>6, <1>7, <1>8, <1>9

LEMMA FormInv ==
  Inv /\ (EnterPassword \/ CloseForm \/ ImportURL \/ SendForm) => Inv'
  <1> SUFFICES ASSUME Inv
               PROVE (EnterPassword \/ CloseForm \/ ImportURL \/ SendForm) => Inv'
    OBVIOUS
  <1> USE DEF listVars, formVars, rootVars
  <1>1. /\ profiles \in Seq(Ids) /\ draft \in Drafts /\ mode \in {"profiles", "edit"}
        /\ selected \in 1..(IF profiles = <<>> THEN 1 ELSE Len(profiles))
        /\ deleteConfirm \in BOOLEAN /\ cancels \subseteq Requests
        /\ named \in Ids \cup {NoProfile} /\ chosen \in Fields \cup {"gone"}
        /\ (mode = "edit" /\ chosen # "gone" => draft.field = chosen)
    BY DEF Inv, TypeOK, FormAsChosen
  <1>2. EnterPassword => Inv'
    <2> SUFFICES ASSUME NEW f \in Fields,
                        draft' = [draft EXCEPT !.field = f, !.replace = TRUE],
                        chosen' = f,
                        UNCHANGED <<mode, listVars, commandVars, rootVars>>
                 PROVE  Inv'
      BY DEF EnterPassword
    <2>1. draft' \in Drafts /\ draft'.field = f
      BY <1>1 DEF Drafts
    <2>2. QED
      BY <1>1, <2>1, QuietInv
  <1>3. CloseForm => Inv'
    BY <1>1, QuietInv, DraftTypes DEF CloseForm, Leave, Fields
  <1>4. ImportURL => Inv'
    <2> DEFINE command == [Command("edit", NoProfile, "import") EXCEPT !.draft = draft]
    <2>1. command \in Ops /\ command.stage = "intent"
      <3>1. /\ Command("edit", NoProfile, "import") \in Ops
            /\ Command("edit", NoProfile, "import").stage = "intent"
        BY CommandType DEF Actions
      <3>2. QED
        BY <1>1, <3>1 DEF Ops
    <2> HIDE DEF command
    <2>2. ImportURL => Begin(command, op)
      BY DEF ImportURL, command
    <2>3. QED
      BY <2>1, <2>2, RequestInv DEF ImportURL, FormReady
  <1>5. SendForm => Inv'
    <2> SUFFICES ASSUME SendForm PROVE Inv'
      OBVIOUS
    <2>1. PICK action \in {"save", "test", "connect"} : Begin(Send(action, draft), op)
      BY DEF SendForm
    <2>2. Send(action, draft) \in Ops /\ Send(action, draft).stage = "intent"
      BY <1>1, SendType DEF Actions
    <2>3. QED
      BY <2>1, <2>2, RequestInv DEF SendForm, FormReady
  <1>6. QED
    BY <1>2, <1>3, <1>4, <1>5

LEMMA RootInv == Inv /\ (Esc \/ Disconnect \/ Quit \/ UNCHANGED vars) => Inv'
  <1> SUFFICES ASSUME Inv
               PROVE (Esc \/ Disconnect \/ Quit \/ UNCHANGED vars) => Inv'
    OBVIOUS
  <1> USE DEF listVars, formVars, rootVars
  <1>1. /\ profiles \in Seq(Ids) /\ draft \in Drafts /\ mode \in {"profiles", "edit"}
        /\ selected \in 1..(IF profiles = <<>> THEN 1 ELSE Len(profiles))
        /\ deleteConfirm \in BOOLEAN /\ cancels \subseteq Requests
        /\ named \in Ids \cup {NoProfile} /\ chosen \in Fields \cup {"gone"}
        /\ (mode = "edit" /\ chosen # "gone" => draft.field = chosen)
        /\ (Waiting => active.request \in Requests)
    BY DEF Inv, TypeOK, FormAsChosen, Waiting
  <1>2. Esc => Inv'
    BY <1>1, QuietInv DEF Esc
  <1>3. Quit => Inv'
    BY <1>1, QuietInv DEF Quit
  <1>4. UNCHANGED vars => Inv'
    BY <1>1, QuietInv DEF vars
  <1>5. Disconnect => Inv'
    <2> SUFFICES ASSUME Disconnect PROVE Inv'
      OBVIOUS
    <2>1. TypeOK /\ Awaits /\ Listed /\ FormAsChosen /\ ~Waiting
      BY DEF Inv, Awaits, Disconnect
    <2>2. /\ UNCHANGED <<mode, profiles, selected, deleteConfirm, named, unloaded,
                         draft, chosen, cancels, saved>>
          /\ surface' = "launcher" /\ Begin(Load, op)
      BY DEF Disconnect
    <2>3. /\ op' \in [Requests -> Ops]
          /\ active' \in [action : Actions, request : Requests]
          /\ active'.action = "load"
          /\ nextRequest' \in 1..(MaxRequests + 1)
          /\ op'[nextRequest] = Load
          /\ \A r \in Requests : r # nextRequest => op'[r] = op[r]
          /\ Waiting' /\ Awaits'
      BY <2>1, <2>2, NothingUnderWay, BeginKeeps, LoadType
    <2>4. TypeOK'
      BY <2>1, <2>2, <2>3 DEF TypeOK
    <2>5. Listed'
      BY <2>1, <2>2, <2>3, LoadType DEF Listed, ListIsCurrent
    <2>6. FormAsChosen'
      BY <2>1, <2>2, <2>3, LoadType DEF FormAsChosen
    <2>7. QED
      BY <2>3, <2>4, <2>5, <2>6 DEF Inv
  <1>6. QED
    BY <1>2, <1>3, <1>4, <1>5

(***************************************************************************)
(* Commands that run.                                                      *)
(***************************************************************************)

\* A command that goes a stage further is still the one awaited.
LEMMA StageInv ==
  ASSUME Inv, NEW r \in Requests, op[r].stage \in UnderWay,
         NEW new \in Ops, op' = [op EXCEPT ![r] = new],
         new.stage \in UnderWay, new.action = op[r].action,
         UNCHANGED <<active, nextRequest, mode, profiles, selected, deleteConfirm,
                     named, unloaded, draft, chosen, surface>>,
         cancels' \subseteq Requests, saved' \in Seq(Ids),
         new.stage = "reply" /\ new.outcome = "ok" /\ new.action = "load"
           => new.list = saved',
         new.stage = "reply" /\ new.outcome = "password" => new.action # "load",
         new.stage = "reply" /\ new.outcome = "ok" /\ new.action = "edit"
           /\ new.then # "import" => ~new.draft.replace,
         \/ saved' = saved /\ (new.stage = "reply" => op[r].stage # "reply")
                          /\ (op[r].stage = "reply" => new = op[r])
         \/ /\ op[r].stage # "reply" /\ new.stage = "reply" /\ new.outcome = "ok"
            /\ new.action \in {"save", "delete", "connect"}
  PROVE  Inv'
  <1>1. /\ op' \in [Requests -> Ops] /\ op'[r] = new
        /\ \A q \in Requests : q # r => op'[q] = op[q]
    BY DEF Inv, TypeOK
  <1>2. /\ active = [action |-> op[r].action, request |-> r]
        /\ Waiting /\ Waiting'
    BY Numbers DEF Inv, Awaits, Waiting, Idle
  <1>3. \A q \in Requests : q # r => op[q].stage \notin UnderWay
    BY <1>2 DEF Inv, Awaits
  <1>4. TypeOK'
    BY <1>1 DEF Inv, TypeOK
  <1>5. Awaits'
    <2>1. ~(r >= nextRequest)
      BY DEF Inv, Awaits, UnderWay
    <2>2. QED
      BY <1>1, <1>2, <1>3, <2>1 DEF Inv, Awaits
  <1>6. Listed'
    <2>1. ListIsCurrent'
      BY <1>2 DEF ListIsCurrent
    <2>2. \A q \in Requests :
            op'[q].stage = "reply" /\ op'[q].outcome = "ok" /\ op'[q].action = "load"
              => op'[q].list = saved'
      BY <1>1, <1>3 DEF UnderWay
    <2>3. \A q \in Requests :
            op'[q].stage = "reply" /\ op'[q].outcome = "password"
              => op'[q].action # "load"
      BY <1>1, <1>3 DEF UnderWay
    <2>4. (Waiting /\ active.action # "load" /\ ~Changed(active.request) => Fresh)'
      <3>1. active.request = r /\ active' = active
        BY <1>2
      <3>2. CASE saved' = saved
        BY <1>1, <1>2, <3>1, <3>2 DEF Inv, Listed, Changed, Fresh
      <3>3. CASE saved' # saved
        BY <1>1, <3>1, <3>3 DEF Changed
      <3>4. QED
        BY <3>2, <3>3
    <2>5. QED
      BY <2>1, <2>2, <2>3, <2>4 DEF Listed
  <1>7. FormAsChosen'
    BY <1>1 DEF Inv, FormAsChosen
  <1>8. QED
    BY <1>4, <1>5, <1>6, <1>7 DEF Inv

LEMMA DispatchInv == ASSUME Inv, NEW r \in Requests, Dispatch(r) PROVE Inv'
  <1> DEFINE new == [op[r] EXCEPT !.stage = "running"]
  <1>1. op[r] \in Ops /\ op[r].stage = "intent"
    BY DEF Inv, TypeOK, Dispatch
  <1>2. new \in Ops /\ new.stage = "running" /\ new.action = op[r].action
    BY <1>1 DEF Ops, Stages
  <1>3. op' = [op EXCEPT ![r] = new]
    BY DEF Dispatch, Inv, TypeOK
  <1> HIDE DEF new
  <1>4. cancels' \subseteq Requests /\ saved' \in Seq(Ids) /\ saved' = saved
    BY DEF Dispatch, rootVars, Inv, TypeOK
  <1>5. UNCHANGED <<active, nextRequest, mode, profiles, selected, deleteConfirm,
                    named, unloaded, draft, chosen, surface>>
    BY DEF Dispatch, rootVars, listVars, formVars
  <1>6. QED
    BY <1>1, <1>2, <1>3, <1>4, <1>5, StageInv DEF UnderWay

LEMMA DeliverCancelInv ==
  ASSUME Inv, NEW r \in Requests, DeliverCancel(r) PROVE Inv'
  <1>1. UNCHANGED <<active, nextRequest, mode, profiles, selected, deleteConfirm,
                    named, unloaded, draft, chosen, surface, saved>>
        /\ cancels' \subseteq Requests
    BY DEF DeliverCancel, listVars, formVars, Inv, TypeOK
  <1>2. CASE op' = op
    <2>1. UNCHANGED <<commandVars, profiles, saved, unloaded>>
      BY <1>1, <1>2 DEF commandVars
    <2>2. QED
      BY <1>1, <2>1, QuietInv DEF Inv, TypeOK, FormAsChosen
  <1>3. CASE Running(r) /\ op' = [op EXCEPT ![r].cancelled = TRUE]
    <2> DEFINE new == [op[r] EXCEPT !.cancelled = TRUE]
    <2>1. op[r] \in Ops /\ op[r].stage = "running" /\ saved' \in Seq(Ids)
      BY <1>1, <1>3 DEF Inv, TypeOK, Running
    <2>2. new \in Ops /\ new.stage = "running" /\ new.action = op[r].action
      BY <2>1 DEF Ops
    <2>3. op' = [op EXCEPT ![r] = new]
      BY <1>3 DEF Inv, TypeOK
    <2> HIDE DEF new
    <2>4. QED
      BY <1>1, <2>1, <2>2, <2>3, StageInv DEF UnderWay
  <1>4. QED
    BY <1>2, <1>3 DEF DeliverCancel

\* A command that ends.
LEMMA AnswerInv ==
  ASSUME Inv, NEW r \in Requests, Running(r),
         NEW outcome \in Outcomes, NEW d \in Drafts, NEW list \in Seq(Ids),
         Answer(r, outcome, d, list), saved' \in Seq(Ids),
         outcome = "ok" /\ op[r].action = "load" => list = saved',
         outcome = "password" => op[r].action # "load",
         outcome = "ok" /\ op[r].action = "edit" /\ op[r].then # "import"
           => ~d.replace,
         \/ saved' = saved
         \/ outcome = "ok" /\ op[r].action \in {"save", "delete", "connect"}
  PROVE  Inv'
  <1> DEFINE new == [op[r] EXCEPT !.stage = "reply", !.outcome = outcome,
                                  !.draft = d, !.list = list, !.cancelled = FALSE]
  <1>1. op[r] \in Ops /\ op[r].stage = "running"
    BY DEF Inv, TypeOK, Running
  <1>2. /\ new \in Ops /\ new.stage = "reply" /\ new.action = op[r].action
        /\ new.outcome = outcome /\ new.draft = d /\ new.list = list
        /\ new.then = op[r].then
    BY <1>1 DEF Ops, Stages
  <1>3. op' = [op EXCEPT ![r] = new]
    BY DEF Answer, Inv, TypeOK
  <1> HIDE DEF new
  <1>4. UNCHANGED <<active, nextRequest, mode, profiles, selected, deleteConfirm,
                    named, unloaded, draft, chosen, surface, cancels>>
    BY DEF Answer, listVars, formVars
  <1>5. cancels' \subseteq Requests
    BY <1>4 DEF Inv, TypeOK
  <1>6. QED
    BY <1>1, <1>2, <1>3, <1>4, <1>5, StageInv DEF UnderWay

\* One that leaves what is saved.
LEMMA ReadInv ==
  ASSUME Inv, NEW r \in Requests, Running(r),
         NEW outcome \in Outcomes, NEW d \in Drafts, NEW list \in Seq(Ids),
         Answer(r, outcome, d, list), UNCHANGED saved,
         outcome = "ok" /\ op[r].action = "load" => list = saved,
         outcome = "password" => op[r].action # "load",
         outcome = "ok" /\ op[r].action = "edit" /\ op[r].then # "import"
           => ~d.replace
  PROVE  Inv'
  <1>1. saved' \in Seq(Ids) /\ saved' = saved
    BY DEF Inv, TypeOK
  <1>2. QED
    BY <1>1, AnswerInv

LEMMA ExecuteInv == ASSUME Inv, NEW r \in Requests, Execute(r) PROVE Inv'
  <1>1. /\ saved \in Seq(Ids) /\ <<>> \in Seq(Ids)
        /\ op[r].draft \in Drafts /\ op[r].id \in Ids \cup {NoProfile}
    BY EmptySeq DEF Inv, TypeOK, Ops
  <1>2. {"ok", "failed", "password"} \subseteq Outcomes
    BY DEF Outcomes
  <1> USE DEF Works
  <1>3. ASSUME ExecFail(r) PROVE Inv'
    BY <1>1, <1>2, <1>3, ReadInv DEF ExecFail
  <1>4. ASSUME ExecLoad(r) PROVE Inv'
    BY <1>1, <1>2, <1>4, ReadInv DEF ExecLoad
  <1>5. ASSUME ExecDraft(r) PROVE Inv'
    <2>1. op[r].id \in Ids
      BY <1>1, <1>5, ElementOfSeq DEF ExecDraft, Elements
    <2>2. DraftOf(op[r].id) \in Drafts /\ ~DraftOf(op[r].id).replace
      BY <2>1, DraftTypes
    <2>3. QED
      BY <1>1, <1>2, <1>5, <2>2, ReadInv DEF ExecDraft
  <1>6. ASSUME ExecImport(r) PROVE Inv'
    <2>1. PICK f \in Fields :
            Answer(r, "ok", [NewDraft EXCEPT !.field = f, !.replace = f = "typed"], <<>>)
      BY <1>6 DEF ExecImport
    <2> DEFINE d == [NewDraft EXCEPT !.field = f, !.replace = f = "typed"]
    <2>2. d \in Drafts
      BY DraftTypes DEF Drafts
    <2> HIDE DEF d
    <2>3. Answer(r, "ok", d, <<>>)
      BY <2>1 DEF d
    <2>4. QED
      BY <1>1, <1>2, <1>6, <2>2, <2>3, ReadInv DEF ExecImport
  <1>7. ASSUME ExecAsk(r) PROVE Inv'
    BY <1>1, <1>2, <1>7, ReadInv DEF ExecAsk
  <1>8. ASSUME ExecSave(r) PROVE Inv'
    <2>1. saved' \in Seq(Ids)
      BY <1>1, <1>8, AppendProperties DEF ExecSave
    <2>2. QED
      BY <1>1, <1>2, <1>8, <2>1, AnswerInv DEF ExecSave
  <1>9. ASSUME ExecTest(r) PROVE Inv'
    BY <1>1, <1>2, <1>9, ReadInv DEF ExecTest
  <1>10. ASSUME ExecConnect(r) PROVE Inv'
    <2>1. PICK i \in Ids : saved' = <<i>> \o Without(i)
      BY <1>10 DEF ExecConnect
    <2>2. <<i>> \in Seq(Ids)
      OBVIOUS
    <2>3. saved' \in Seq(Ids)
      BY <1>1, <2>1, <2>2, WithoutType, ConcatProperties
    <2>4. QED
      BY <1>1, <1>2, <1>10, <2>3, AnswerInv DEF ExecConnect
  <1>11. ASSUME ExecDelete(r) PROVE Inv'
    BY <1>1, <1>2, <1>11, AnswerInv, WithoutType DEF ExecDelete
  <1>12. QED
    BY <1>3, <1>4, <1>5, <1>6, <1>7, <1>8, <1>9, <1>10, <1>11 DEF Execute

(***************************************************************************)
(* Replies.                                                                *)
(***************************************************************************)

\* A reply after which nothing is awaited: if the launcher goes on showing its
\* list, the list is current.
LEMMA FinishInv ==
  ASSUME Inv, NEW r \in Requests, Awaited(r), Finish(r),
         UNCHANGED <<saved, cancels>>,
         surface' \in {"launcher", "workspace"},
         mode' \in {"profiles", "edit"}, profiles' \in Seq(Ids),
         selected' \in 1..(IF profiles' = <<>> THEN 1 ELSE Len(profiles')),
         deleteConfirm' \in BOOLEAN, draft' \in Drafts,
         named' \in Ids \cup {NoProfile}, chosen' \in Fields \cup {"gone"},
         unloaded' \in BOOLEAN,
         mode' = "edit" /\ chosen' # "gone" => draft'.field = chosen',
         surface' = "launcher" => Fresh'
  PROVE  Inv'
  <1>1. /\ op' \in [Requests -> Ops] /\ ~Waiting' /\ active' = Idle
        /\ nextRequest' \in 1..(MaxRequests + 1)
        /\ \A q \in Requests : op'[q].stage \notin UnderWay
        /\ Awaits'
    BY FinishKeeps DEF Inv
  <1>2. TypeOK'
    BY <1>1 DEF Inv, TypeOK
  <1>3. Listed'
    BY <1>1 DEF Listed, ListIsCurrent, Shows, Fresh, UnderWay
  <1>4. FormAsChosen'
    BY <1>1 DEF FormAsChosen, UnderWay
  <1>5. QED
    BY <1>1, <1>2, <1>3, <1>4 DEF Inv

\* A reply that is followed by another command.
LEMMA ContinueInv ==
  ASSUME Inv, NEW r \in Requests, Awaited(r),
         NEW command \in Ops, command.stage = "intent",
         Begin(command, Closed(r)),
         UNCHANGED <<saved, cancels, surface, profiles, selected, unloaded>>,
         mode' \in {"profiles", "edit"}, deleteConfirm' \in BOOLEAN,
         draft' \in Drafts,
         named' \in Ids \cup {NoProfile}, chosen' \in Fields \cup {"gone"},
         mode' = "edit" /\ chosen' # "gone" => draft'.field = chosen',
         command.action = "load" \/ Fresh
  PROVE  Inv'
  <1>1. TypeOK /\ Awaits /\ surface' # "workspace"
    BY DEF Inv, Awaited, Shows
  <1>2. /\ op' \in [Requests -> Ops]
        /\ active' \in [action : Actions, request : Requests]
        /\ active' = [action |-> command.action, request |-> nextRequest]
        /\ nextRequest' \in 1..(MaxRequests + 1)
        /\ op'[nextRequest] = command
        /\ \A q \in Requests : q # nextRequest => op'[q] = Closed(r)[q]
        /\ Waiting' /\ Awaits'
        /\ \A q \in Requests : Closed(r)[q].stage \notin UnderWay
    BY <1>1, ClosedNothing, BeginKeeps
  <1>3. \A q \in Requests : op'[q].stage # "reply"
    BY <1>2 DEF UnderWay
  <1>4. TypeOK'
    BY <1>1, <1>2 DEF TypeOK
  <1>5. Listed'
    BY <1>2, <1>3 DEF Listed, ListIsCurrent, Fresh
  <1>6. FormAsChosen'
    BY <1>3 DEF FormAsChosen
  <1>7. QED
    BY <1>2, <1>4, <1>5, <1>6 DEF Inv

\* What an awaited reply other than a load finds: the list, current unless the
\* command has changed what is saved.
LEMMA FoundFresh ==
  ASSUME Inv, NEW r \in Requests, Awaited(r), op[r].action # "load",
         op[r].outcome # "ok" \/ op[r].action \notin {"save", "delete", "connect"}
  PROVE  Fresh
  <1>1. Waiting /\ active.request = r /\ active.action = op[r].action
    BY ClosedNothing DEF Inv
  <1>2. QED
    BY <1>1 DEF Inv, Listed, Changed

LEMMA ListSelected ==
  ASSUME Inv, NEW list \in Seq(Ids), ClampSelection(list)
  PROVE  selected' \in 1..(IF list = <<>> THEN 1 ELSE Len(list))
  <1>1. selected \in Nat /\ selected >= 1
    BY LenProperties DEF Inv, TypeOK
  <1>2. Len(list) \in Nat /\ (list # <<>> => Len(list) >= 1)
    BY LenProperties, EmptySeq
  <1>3. QED
    BY <1>1, <1>2 DEF ClampSelection

LEMMA DeliverInv == ASSUME Inv, NEW r \in Requests, Deliver(r) PROVE Inv'
  <1> USE DEF listVars, formVars, rootVars, Replies
  <1>1. /\ profiles \in Seq(Ids) /\ draft \in Drafts /\ mode \in {"profiles", "edit"}
        /\ selected \in 1..(IF profiles = <<>> THEN 1 ELSE Len(profiles))
        /\ deleteConfirm \in BOOLEAN /\ unloaded \in BOOLEAN
        /\ named \in Ids \cup {NoProfile} /\ chosen \in Fields \cup {"gone"}
        /\ (mode = "edit" /\ chosen # "gone" => draft.field = chosen)
        /\ op[r] \in Ops /\ op[r].draft \in Drafts /\ op[r].list \in Seq(Ids)
        /\ op[r].draft.field \in Fields
        /\ (Awaited(r) => surface = "launcher")
    BY DEF Inv, TypeOK, FormAsChosen, Awaited, Shows, Ops, Drafts
  <1>2. ASSUME DeliverProfiles(r) PROVE Inv'
    <2>1. op[r].list = saved
      BY <1>2 DEF DeliverProfiles, Inv, Listed, Awaited
    <2>2. Fresh'
      BY <1>2, <2>1 DEF DeliverProfiles, Fresh
    <2>3. selected' \in 1..(IF profiles' = <<>> THEN 1 ELSE Len(profiles'))
      BY <1>1, <1>2, ListSelected DEF DeliverProfiles
    <2>4. QED
      BY <1>1, <1>2, <2>2, <2>3, FinishInv DEF DeliverProfiles
  <1>3. ASSUME DeliverDraft(r) PROVE Inv'
    <2>1. Fresh'
      BY <1>3, FoundFresh DEF DeliverDraft, Fresh
    <2>2. QED
      BY <1>1, <1>3, <2>1, FinishInv DEF DeliverDraft, Open
  <1>4. ASSUME DeliverDraftAndSend(r) PROVE Inv'
    <2>1. Fresh
      BY <1>4, FoundFresh DEF DeliverDraftAndSend
    <2>2. /\ Send(op[r].then, op[r].draft) \in Ops
          /\ Send(op[r].then, op[r].draft).stage = "intent"
      BY <1>1, <1>4, SendType DEF DeliverDraftAndSend, Actions
    <2>3. QED
      BY <1>1, <1>4, <2>1, <2>2, ContinueInv DEF DeliverDraftAndSend
  <1>5. ASSUME DeliverImport(r) PROVE Inv'
    <2>1. Fresh'
      BY <1>5, FoundFresh DEF DeliverImport, Fresh
    <2>2. QED
      BY <1>1, <1>5, <2>1, FinishInv DEF DeliverImport
  <1>6. ASSUME DeliverSaved(r) PROVE Inv'
    BY <1>1, <1>6, LoadType, DraftTypes, ContinueInv
       DEF DeliverSaved, Leave, Fields
  <1>7. ASSUME DeliverDeleted(r) PROVE Inv'
    BY <1>1, <1>7, LoadType, ContinueInv DEF DeliverDeleted
  <1>8. ASSUME DeliverTested(r) PROVE Inv'
    <2>1. Fresh'
      BY <1>8, FoundFresh DEF DeliverTested, Fresh
    <2>2. QED
      BY <1>1, <1>8, <2>1, FinishInv DEF DeliverTested
  <1>9. ASSUME DeliverPasswordRequired(r) PROVE Inv'
    <2>1. op[r].action # "load"
      BY <1>9 DEF DeliverPasswordRequired, Inv, Listed, Awaited
    <2>2. Fresh'
      BY <1>9, <2>1, FoundFresh DEF DeliverPasswordRequired, Fresh
    <2>3. QED
      BY <1>1, <1>9, <2>2, FinishInv DEF DeliverPasswordRequired, Open
  <1>10. ASSUME DeliverFailed(r) PROVE Inv'
    <2>1. Fresh'
      BY <1>10, FoundFresh DEF DeliverFailed, Fresh
    <2>2. unloaded' \in BOOLEAN
      BY <1>1, <1>10 DEF DeliverFailed
    <2>3. QED
      BY <1>1, <1>10, <2>1, <2>2, FinishInv DEF DeliverFailed
  <1>11. ASSUME DeliverConnected(r) PROVE Inv'
    <2>1. draft' \in Drafts /\ chosen' \in Fields \cup {"gone"}
          /\ (mode = "edit" => chosen' = "gone")
      BY <1>1, <1>11 DEF DeliverConnected, ClearSensitive, Drafts, Fields
    <2>2. QED
      BY <1>1, <1>11, <2>1, FinishInv DEF DeliverConnected
  <1>12. QED
    BY <1>2, <1>3, <1>4, <1>5, <1>6, <1>7, <1>8, <1>9, <1>10, <1>11 DEF Deliver

(***************************************************************************)
(* The theorems.                                                           *)
(***************************************************************************)
LEMMA StepInv == Inv /\ [Next]_vars => Inv'
  <1>1. ASSUME Inv, NEW r \in Requests,
               Dispatch(r) \/ DeliverCancel(r) \/ Execute(r) \/ Deliver(r)
        PROVE  Inv'
    BY <1>1, DispatchInv, DeliverCancelInv, ExecuteInv, DeliverInv
  <1>2. QED
    BY <1>1, ListInv, FormInv, RootInv DEF Next, Input

\* The inductive invariant of the launcher.
THEOREM LauncherInvariant == Spec => []Inv
  <1>1. QED
    BY InitInv, StepInv, PTL DEF Spec

\* The fields of launcher.Model, and what runs for it, keep their types.
THEOREM TypeCorrect == Spec => []TypeOK
  <1>1. Inv => TypeOK
    BY DEF Inv
  <1>2. QED
    BY <1>1, LauncherInvariant, PTL

\* The launcher has one command under way, the one it awaits (newRequest,
\* clearOperation).
THEOREM AwaitsItsCommand == Spec => []OneCommand
  <1>1. Inv => OneCommand
    <2> SUFFICES ASSUME Inv PROVE OneCommand
      OBVIOUS
    <2>1. CASE Waiting
      <3>1. active.request \in Requests
        BY <2>1 DEF Inv, TypeOK, Waiting
      <3>2. QED
        BY <2>1, <3>1 DEF Inv, Awaits, OneCommand, Live, UnderWay
    <2>2. CASE ~Waiting
      BY <2>2, NothingUnderWay DEF Inv, OneCommand, Live, UnderWay
    <2>3. QED
      BY <2>1, <2>2
  <1>2. QED
    BY <1>1, LauncherInvariant, PTL

\* An idle list is what is saved, unless it could not be loaded (ProfilesLoadedMsg
\* and the reloads that follow SavedMsg and DeletedMsg).
THEOREM ListShowsSaved == Spec => []ListIsCurrent
  <1>1. Inv => ListIsCurrent
    BY DEF Inv, Listed
  <1>2. QED
    BY <1>1, LauncherInvariant, PTL

\* A password that replaces the stored one is the one the user chose
\* (updateFormKey, EditorDraftLoadedMsg, PasswordRequiredMsg).
THEOREM ReplacesChosen == Spec => ReplacesAsChosen
  <1> DEFINE Kept(r) ==
        op[r].stage # "intent" /\ op'[r].stage = "intent"
          /\ op'[r].draft.replace
          /\ op'[r].action \in {"save", "test", "connect"}
          /\ chosen # "gone"
        => op'[r].draft.field = chosen
  <1>1. ASSUME Inv, NEW command \in Ops, NEW ops \in [Requests -> Ops],
               Begin(command, ops), NEW r \in Requests,
               \A q \in Requests : ops[q].stage = "intent" => op[q].stage = "intent",
               \/ command.action \notin {"save", "test", "connect"}
               \/ ~command.draft.replace
               \/ chosen # "gone" => command.draft.field = chosen
        PROVE  Kept(r)
    <2>1. op'[nextRequest] = command /\ \A q \in Requests : q # nextRequest => op'[q] = ops[q]
      BY <1>1 DEF Begin
    <2>2. QED
      BY <1>1, <2>1
  <1>2. ASSUME Inv, NEW r \in Requests, [Next]_vars PROVE Kept(r)
    <2>1. op \in [Requests -> Ops] /\ draft \in Drafts
      BY <1>2 DEF Inv, TypeOK
    <2>2. ASSUME UNCHANGED op PROVE Kept(r)
      BY <2>2
    <2>3. CASE Move \/ New \/ AskDelete \/ KeepProfile \/ EnterPassword
                 \/ CloseForm \/ Esc \/ Quit \/ UNCHANGED vars
      BY <2>2, <2>3
         DEF Move, New, AskDelete, KeepProfile, EnterPassword, CloseForm, Esc,
             Quit, vars, commandVars
    <2>4. CASE LoadSelectedDraft
      <3>1. profiles # <<>> /\ CurrentProfile \in Ids
        BY <1>2, <2>4, ElementOfSeq DEF LoadSelectedDraft, CurrentProfile, Inv, TypeOK
      <3>2. PICK then \in {"edit", "test", "connect"} :
              Begin(Command("edit", CurrentProfile, then), op)
        BY <2>4 DEF LoadSelectedDraft
      <3>3. /\ Command("edit", CurrentProfile, then) \in Ops
            /\ Command("edit", CurrentProfile, then).action = "edit"
        BY <3>1, CommandType DEF Actions
      <3>4. QED
        BY <1>1, <1>2, <2>1, <3>2, <3>3
    <2>5. CASE StartDelete
      <3>1. CurrentProfile \in Ids
        BY <1>2, <2>5, ElementOfSeq DEF StartDelete, CurrentProfile, Inv, TypeOK
      <3>2. /\ Command("delete", CurrentProfile, "none") \in Ops
            /\ Command("delete", CurrentProfile, "none").action = "delete"
        BY <3>1, CommandType DEF Actions
      <3>3. QED
        BY <1>1, <1>2, <2>1, <2>5, <3>2 DEF StartDelete
    <2>6. CASE Reload \/ Disconnect
      BY <1>1, <1>2, <2>1, <2>6, LoadType DEF Reload, Disconnect
    <2>7. CASE ImportURL
      <3>1. /\ [Command("edit", NoProfile, "import") EXCEPT !.draft = draft] \in Ops
            /\ [Command("edit", NoProfile, "import") EXCEPT !.draft = draft].action = "edit"
        <4>1. /\ Command("edit", NoProfile, "import") \in Ops
              /\ Command("edit", NoProfile, "import").action = "edit"
          BY CommandType DEF Actions
        <4>2. QED
          BY <2>1, <4>1 DEF Ops
      <3>2. QED
        BY <1>1, <1>2, <2>1, <2>7, <3>1 DEF ImportURL
    <2>8. CASE SendForm
      <3>1. PICK action \in {"save", "test", "connect"} : Begin(Send(action, draft), op)
        BY <2>8 DEF SendForm
      <3>2. Send(action, draft) \in Ops /\ Send(action, draft).draft = draft
        BY <2>1, SendType DEF Actions
      <3>3. chosen # "gone" => draft.field = chosen
        BY <1>2, <2>8 DEF SendForm, FormReady, Inv, FormAsChosen
      <3>4. QED
        BY <1>1, <1>2, <2>1, <3>1, <3>2, <3>3
    <2>9. CASE \E q \in Requests : Dispatch(q) \/ DeliverCancel(q) \/ Execute(q)
      <3>1. PICK q \in Requests : Dispatch(q) \/ DeliverCancel(q) \/ Execute(q)
        BY <2>9
      <3>2. CASE Dispatch(q)
        BY <2>1, <3>2 DEF Dispatch, Ops
      <3>3. CASE DeliverCancel(q)
        BY <2>1, <3>3 DEF DeliverCancel, Running, Ops
      <3>4. CASE Execute(q)
        <4>1. \E outcome, d, list : Answer(q, outcome, d, list)
          BY <3>4 DEF Execute, ExecFail, ExecLoad, ExecDraft, ExecImport, ExecAsk,
                      ExecSave, ExecTest, ExecConnect, ExecDelete
        <4>2. QED
          BY <2>1, <4>1 DEF Answer
      <3>5. QED
        BY <3>1, <3>2, <3>3, <3>4
    <2>10. CASE \E q \in Requests : Deliver(q)
      <3>1. PICK q \in Requests : Deliver(q)
        BY <2>10
      <3>2. Awaited(q)
        BY <3>1 DEF Deliver, DeliverProfiles, DeliverDraft, DeliverDraftAndSend,
                    DeliverImport, DeliverSaved, DeliverDeleted, DeliverTested,
                    DeliverPasswordRequired, DeliverFailed, DeliverConnected, Replies
      <3>3. /\ Closed(q) \in [Requests -> Ops]
            /\ \A p \in Requests : Closed(q)[p].stage # "intent"
        BY <1>2, <3>2, ClosedNothing DEF Inv, UnderWay
      <3>4. CASE op' = Closed(q)
        BY <3>3, <3>4
      <3>5. CASE Begin(Load, Closed(q))
        BY <1>1, <1>2, <3>3, <3>5, LoadType
      <3>6. CASE DeliverDraftAndSend(q)
        <4>1. /\ op[q].draft \in Drafts /\ op[q].then \in Actions
              /\ ~op[q].draft.replace
          BY <1>2, <2>1, <3>6
             DEF DeliverDraftAndSend, Replies, Awaited, Inv, FormAsChosen, Ops, Actions
        <4>2. /\ Send(op[q].then, op[q].draft) \in Ops
              /\ Send(op[q].then, op[q].draft).draft = op[q].draft
          BY <4>1, SendType
        <4>3. Begin(Send(op[q].then, op[q].draft), Closed(q))
          BY <3>6 DEF DeliverDraftAndSend
        <4>4. QED
          BY <1>1, <1>2, <3>3, <4>1, <4>2, <4>3
      <3>7. QED
        BY <3>1, <3>4, <3>5, <3>6
           DEF Deliver, DeliverProfiles, DeliverDraft, DeliverImport, DeliverSaved,
               DeliverDeleted, DeliverTested, DeliverPasswordRequired, DeliverFailed,
               DeliverConnected, Finish
    <2>11. QED
      BY <1>2, <2>3, <2>4, <2>5, <2>6, <2>7, <2>8, <2>9, <2>10 DEF Next, Input
  <1>3. Inv /\ [Next]_vars
        => [\A r \in Requests :
              /\ op[r].stage # "intent" /\ op'[r].stage = "intent"
              /\ op'[r].draft.replace
              /\ op'[r].action \in {"save", "test", "connect"}
              /\ chosen # "gone"
              => op'[r].draft.field = chosen]_vars
    BY <1>2
  <1>4. QED
    BY <1>3, LauncherInvariant, PTL DEF Spec, ReplacesAsChosen
=============================================================================
